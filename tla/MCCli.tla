------------------------------- MODULE MCCli -------------------------------
(* Three processes of which two live at once, of one program in two folders *)
(* and of another; one microphone; what is typed and what is in a file.     *)
EXTENDS Cli, TLC

CONSTANTS p1, p2, p3, appA, appA2, appB, nameA, nameB, win, mic, mic2, usb

MCPids      == {p1, p2, p3}
MCPaths     == {appA, appA2, appB}
MCNameOf    == (appA :> nameA) @@ (appA2 :> nameA) @@ (appB :> nameB)
MCLabelOf   == mic :> usb

(* Templates. *)
Mix  == [token |-> "none", stem |-> 1]
Take == [token |-> "n", stem |-> 1]
Each == [token |-> "bus", stem |-> 1]

(* What is typed. *)
Opt(name)      == [opt |-> name, val |-> Untyped]
Val(v)         == [opt |-> "", val |-> v]
Flag(name, v)  == [opt |-> name, val |-> v]             \* a value that reads as a flag
With(name, v)  == <<Opt(name), Val(v)>>
Line(cmd, ws)  == [cmd |-> cmd, words |-> ws]

Tone    == With("--fake", Untyped)
ToMix   == With("--out", Mix)
Session_ == With("--session", Untyped)

Recordings ==
    {With("--pid", p1) \o ToMix, With("--system-minus-tree", p1) \o Tone \o ToMix,
     With("--exe", nameA) \o With("--out", Take) \o With("--bus", Untyped) \o Tone
        \o With("--gain", Untyped) \o With("--out", Take)}

Refused ==
    {Tone \o ToMix \o With("--bus", Untyped) \o Tone \o ToMix,              \* one file twice
     Tone \o ToMix \o ToMix,                                                \* too many outputs
     Tone \o <<Opt("--out"), Flag("--json", Mix)>> \o With("--bus", Untyped)
        \o With("--gain", Untyped),                                         \* no source to turn up
     With("--pid", Malformed), <<Opt("--nonsense")>>, <<Opt("--pid")>>,
     Session_ \o Tone, With("--out", Mix)}

Empty == Tone \o With("--out", Each) \o With("--bus", Untyped) \o With("--out", Each)

Rehearsed == {Tone \o ToMix \o <<Opt("--dry-run"), Opt("--json")>>,
              Empty \o <<Opt("--dry-run"), Opt("--json"), Opt("--allow-missing")>>}

FromFile == {Session_, Session_ \o <<Opt("--allow-missing")>>,
             Session_ \o <<Opt("--allow-system-capture")>>,
             Session_ \o <<Opt("--allow-missing"), Opt("--allow-system-capture"), Opt("--json")>>}

Saved == {With("--pid", p1) \o ToMix \o With("--bus", Untyped) \o With("--pid", p1)
             \o With("--out", Take) \o Session_,
          With("--system-minus-tree", p1) \o ToMix \o Session_,
          With("--device", usb) \o ToMix \o Session_}

MCCommandLines ==
    {Line("record", w) : w \in Recordings \cup Refused \cup Rehearsed \cup FromFile}
    \cup {Line("save-session", w) : w \in Saved \cup {Tone \o ToMix}}
    \cup {Line("version", <<>>), Line("version", Tone)}

(* Files nobody here wrote. *)
Header(v, r) == [version |-> v, minReader |-> r]
Odd(field, name, is) == [Whole EXCEPT ![field] = <<[name |-> name, is |-> is]>>]
Proc(kind, path, exe, class) ==
    [kind |-> kind, pid |-> Nothing, path |-> path, exe |-> exe, class |-> class]
Doc(header, odd, sources, buses) ==
    [text |-> "whole", header |-> header, odd |-> odd, sources |-> sources, buses |-> buses]
Fake   == [kind |-> "fake"]
OneBus == <<[edges |-> {1}, out |-> Mix]>>
Cut(text) == [Doc(Header(1, 1), Whole, <<Fake>>, OneBus) EXCEPT !.text = text]
Wrong(header, odd) == Doc(header, odd, <<Fake>>, OneBus)

MCForeign ==
    {Doc(Header(1, 1), Whole, <<Proc("process", appA, nameA, win), Fake>>,
         <<[edges |-> {1}, out |-> Each], [edges |-> {1, 2}, out |-> Each]>>),
     Doc(Header(2, 1), Odd("bus", "colour", "wrongType"),
         <<Proc("exclude", Nothing, nameA, Nothing), Fake>>, <<[edges |-> {1, 2}, out |-> Mix]>>),
     Doc(Header(1, 1), Whole, <<[kind |-> "device", id |-> mic2, label |-> usb], Fake>>,
         <<[edges |-> {1}, out |-> Mix], [edges |-> {2}, out |-> Each]>>),
     Doc(Header(1, 0), Whole, <<Fake>>, <<[edges |-> {1, 2}, out |-> Mix]>>)}
    \cup {Cut(t) : t \in {"TRUNCATED", "NOT_JSON", "TOO_MANY", "locked", "huge"}}
    \cup {Wrong(Nothing, Whole), Wrong(Header(2, 2), Whole), Wrong(Header(0, 0), Whole),
          Wrong(Header(1, 1), Odd("source", "kind", "absent")),
          Wrong(Header(1, 1), Odd("edge", "gainDb", "outOfRange")),
          Wrong(Header(1, 1), Odd("session", "channels", "wrongType")),
          Wrong(Header(1, 1), Odd("output", "path", "absent"))}

(* Opened from inside a dialog: a file that asks for an exclusion, one that is found       *)
(* whatever runs, and one with a fault, so that half of it is read.                        *)
MCInside == {f \in MCForeign : \/ \E k \in DOMAIN f.sources : f.sources[k].kind = "exclude"
                              \/ f.header = Header(1, 0)
                              \/ f.odd.edge # <<>>}

ASSUME ParseExits

MCRivals == {<<1>>, <<1, 1>>, <<1, 2>>}

(* What the rest of a command depends on.  The process that was found is looked for again *)
(* by its number, the file only to tell what the graph has lost; once a recording has its  *)
(* sources nothing looks at the machine.  What was told is looked at by no step.  In the   *)
(* window's dialogs a file of Foreign is as good as another: the next Edited changes it.   *)
Asked  == IF report = <<>> THEN <<>> ELSE file.buses
Kinds  == {graph.sources[k].kind : k \in DOMAIN graph.sources}
OnDisk == IF file \in Foreign THEN Nothing ELSE file
MCView ==
    CASE at \in Dialogs -> <<at, machine, OnDisk, below, session, report, agreed, graph, cliVars>>
      [] at = "shown"   -> <<at, machine, OnDisk, graph, cliVars>>
      [] plan.cmd = "record" /\ at \in {"planned", "checked"} ->
            <<at, machine, graph, agreed, Asked, cliVars>>
      [] plan.cmd = "record" /\ at \notin {"planned", "checked"} \cup Dialogs \cup {"shown"} ->
            <<at, graph.buses, Kinds, agreed, Asked, cliVars>>
      [] plan.cmd = "save-session" /\ at = "ended" -> <<at, machine, file, plan, verdict>>
      [] OTHER -> vars

Symmetry == Permutations({p2, p3})
=============================================================================
