---------------------------- MODULE CommandLine ----------------------------
(***************************************************************************)
(* The grammar of the command line (cli/cli.c: apr_cli_parse).  Words are  *)
(* read one after another; an option may take the next word as its value,  *)
(* sources and outputs belong to the last bus that was named, a gain to    *)
(* the last source, and a bus nobody named is there when one is needed.    *)
(*                                                                         *)
(* A word is a record of its two readings: the option it is the name of,   *)
(* and the value it is for the option before it.                           *)
(***************************************************************************)
EXTENDS Naturals, Sequences, FiniteSets
LOCAL INSTANCE SequencesExt

CONSTANTS
    MaxBuses, MaxSources, MaxOutputs,   \* APR_MAX_BUSES; per bus: sources, outputs
    Malformed, OutOfRange,              \* a value that is no number, and one that is too large
    Untyped                             \* a word that is no value

ASSUME CommandLineAssumption == {MaxBuses, MaxSources, MaxOutputs} \subseteq Nat \ {0}

(* AprCliExit. *)
OK         == 0
USAGE      == 1
CONFIG     == 2
NOT_FOUND  == 3
OUTPUT     == 4
CAPTURE    == 5
INCOMPLETE == 6
INTERNAL   == 7

KindOf(opt) ==
    CASE opt = "--pid"    -> "process"
      [] opt = "--exe"    -> "exe"
      [] opt = "--device" -> "named"
      [] opt = "--fake"   -> "fake"
      [] OTHER            -> "exclude"          \* --system-minus-tree

SourceOptions == {"--pid", "--exe", "--device", "--fake", "--system-minus-tree"}
GraphOptions  == SourceOptions \cup {"--bus", "--gain", "--out"}
TakesValue    == GraphOptions \cup {"--session", "--duration"}

Plan(cmd) ==
    [cmd |-> cmd, json |-> FALSE, dry |-> FALSE, missing |-> FALSE, consent |-> FALSE,
     session |-> FALSE, graphOpt |-> FALSE, buses |-> <<>>, hasLast |-> FALSE,
     awaiting |-> "", exit |-> OK]

Fails(s, code) == [s EXCEPT !.exit = code]

NewBus == [sources |-> <<>>, outs |-> <<>>]

\* current_bus: the last one named, or the one that is there without a name.
WithBus(s) == IF s.buses = <<>> THEN [s EXCEPT !.buses = <<NewBus>>] ELSE s

AddBus(s) ==
    IF Len(s.buses) >= MaxBuses THEN Fails(s, CONFIG)
    ELSE [s EXCEPT !.buses = Append(@, NewBus), !.hasLast = FALSE]

\* parse_i64, parse_fixed: digits and at most a sign, and what does not fit is no number.
Unreadable(v) == v \in {Malformed, OutOfRange}

\* Sources whose value is a number, or numbers.
Numeric == {"process", "exclude", "fake"}

AddSource(t, kind, v) ==
    LET s == WithBus(t)
        b == Len(s.buses)
    IN  CASE Len(s.buses[b].sources) >= MaxSources      -> Fails(s, CONFIG)
          [] Unreadable(v) /\ kind \in Numeric           -> Fails(s, USAGE)
          [] OTHER -> [s EXCEPT !.buses[b].sources = Append(@, [kind |-> kind, what |-> v]),
                                !.hasLast = TRUE]

AddOutput(t, v) ==
    LET s == WithBus(t)
        b == Len(s.buses)
    IN  IF Len(s.buses[b].outs) >= MaxOutputs THEN Fails(s, CONFIG)
        ELSE [s EXCEPT !.buses[b].outs = Append(@, v)]

\* An option and its value.  What describes a recording is for the commands that make or
\* save one.
ReadOption(s, opt, v) ==
    CASE opt = "--session"  -> [s EXCEPT !.session = TRUE]
      [] opt = "--duration" -> IF Unreadable(v) THEN Fails(s, USAGE) ELSE s
      [] opt \in GraphOptions /\ s.cmd \notin {"record", "save-session"} -> Fails(s, USAGE)
      [] opt = "--bus"      -> AddBus(s)
      [] opt = "--gain"     -> IF ~s.hasLast \/ Unreadable(v)
                                 THEN Fails(s, USAGE) ELSE s
      [] opt = "--out"      -> AddOutput(s, v)
      [] OTHER              -> AddSource(s, KindOf(opt), v)

ReadFlag(s, opt) ==
    CASE opt = "--json"                 -> s           \* read by the pass before this one
      [] opt = "--dry-run"              -> [s EXCEPT !.dry = TRUE]
      [] opt = "--allow-missing"        -> [s EXCEPT !.missing = TRUE]
      [] opt = "--allow-system-capture" -> [s EXCEPT !.consent = TRUE]
      [] OTHER                          -> Fails(s, USAGE)

ReadWord(s, w) ==
    CASE s.exit # OK           -> s
      [] s.exit = OK /\ s.awaiting # "" ->
            ReadOption([s EXCEPT !.awaiting = ""], s.awaiting, w.val)
      [] s.exit = OK /\ s.awaiting = "" /\ w.opt \in TakesValue ->
            [s EXCEPT !.awaiting = w.opt, !.graphOpt = @ \/ w.opt \in GraphOptions]
      [] OTHER                 -> ReadFlag(s, w.opt)

\* --json is looked for before anything can fail, stepping over the values of options:
\* a file may be called "--json".
Prescan(words, flag) ==
    FoldLeft(LAMBDA acc, w : CASE acc.skip              -> [acc EXCEPT !.skip = FALSE]
                               [] ~acc.skip /\ w.opt = flag -> [acc EXCEPT !.found = TRUE]
                               [] OTHER -> [acc EXCEPT !.skip = w.opt \in TakesValue],
             [skip |-> FALSE, found |-> FALSE], words).found

\* A session file describes the whole recording: it is not merged with what is typed.
Parse(cmd, words) ==
    LET s == FoldLeft(ReadWord, [Plan(cmd) EXCEPT !.json = Prescan(words, "--json")], words)
    IN  IF \/ s.awaiting # ""
           \/ s.cmd = "record" /\ s.session /\ s.graphOpt
           \/ s.cmd = "save-session" /\ ~s.session
        THEN [s EXCEPT !.exit = IF @ = OK THEN USAGE ELSE @]
        ELSE s

=============================================================================
