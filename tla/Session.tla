------------------------------ MODULE Session ------------------------------
(***************************************************************************)
(* Session files: what a recording is written down as, and how it is found *)
(* again on a machine that has changed since (session/session_load.c,      *)
(* session/session_save.c, and the commands of ui/controller.c that open   *)
(* and save one).                                                          *)
(*                                                                         *)
(* A process id does not outlive its process, so a source is stored with   *)
(* the path and the name of its executable and the class of its window,    *)
(* and opening a file is a search among the processes the audio engine     *)
(* knows.  The search may find another process than the one that was       *)
(* saved, or none; a report says which, and whoever opens the file has to  *)
(* show it.  Recording everything but one process is never done on a       *)
(* file's word: somebody has to be asked.                                  *)
(*                                                                         *)
(* Processes start, make a sound and exit, and devices come and go, at any *)
(* moment of this, the dialogs included.  From inside the dialogs of one   *)
(* opening the icon can begin another, of another file, which is read and  *)
(* searched into the same statics.                                         *)
(***************************************************************************)
EXTENDS Naturals, Sequences, FiniteSets

CONSTANTS
    Pids, Paths, Names, Classes,    \* processes, images, their leaf names, window classes
    NameOf,                         \* the leaf name of a path
    Endpoints, Labels, LabelOf,     \* capture endpoints, friendly names, and whose is whose
    Nothing,                        \* no process, no path, no class, no file
    Foreign,                        \* session files written by hand or by another build
    Inside,                         \* bound: those of them that are opened from inside a dialog
    MaxRunning,                     \* bound: processes alive at once
    MaxNested                       \* bound: openings that wait for one inside them

ASSUME SessionAssumption ==
    /\ NameOf \in [Paths -> Names] /\ LabelOf \in [Endpoints -> Labels]
    /\ Nothing \notin Pids \cup Paths \cup Names \cup Classes \cup Endpoints \cup Labels
    /\ Inside \subseteq Foreign /\ MaxRunning \in Nat /\ MaxNested \in Nat

VARIABLES
    procs,      \* the process table: image, window, and whether the audio engine knows it
    plugged,    \* capture endpoints that are there
    file,       \* the session file on the disk, of the last opening or saving
    at,         \* where the front end is, in the innermost opening
    below,      \* the openings outside that one, each in the dialog it waits in
    session,    \* g_session: sources and buses as they were read, and what was found
    report,     \* g_resolve_rep: what became of each source
    told,       \* the report as the user was last told it
    agreed,     \* system-wide capture was agreed to since the session was read
    graph       \* what is going to be recorded: sources found, and the buses over them

machine == <<procs, plugged>>
opening == <<below, session, report, told, agreed, graph>>

\* AprSessionFault; this one is that there is none.
NONE == "NONE"

----------------------------------------------------------------------------
(* Reading a file. *)

FormatVersion == 1

\* The first fault met is the one reported, and nothing after it is read.
First(faults) ==
    LET met == {i \in DOMAIN faults : faults[i] # NONE}
    IN  IF met = {} THEN NONE ELSE faults[CHOOSE i \in met : \A j \in met : i <= j]

\* A member whose name is not known is counted and stepped over, whatever it holds.
ReadMember(m, known) ==
    CASE m.name \notin known  -> NONE
      [] m.is = "wrongType"   -> "BAD_TYPE"
      [] m.is = "outOfRange"  -> "BAD_VALUE"
      [] OTHER                -> NONE

ReadObject(odd, known, required) ==
    First([i \in DOMAIN odd |-> ReadMember(odd[i], known)]
          \o <<IF \E i \in DOMAIN odd : odd[i].name \in required /\ odd[i].is = "absent"
                 THEN "BAD_VALUE" ELSE NONE>>)

\* Judged by its version numbers before anything else in it is believed; a version that is
\* not there makes the file somebody else's.
ReadHeader(h) ==
    LET reader == IF h.minReader = 0 THEN h.version ELSE h.minReader IN
    CASE h = Nothing               -> "NOT_A_SESSION"
      [] reader > FormatVersion    -> "TOO_NEW"
      [] h.version < FormatVersion -> "TOO_OLD"
      [] OTHER                     -> NONE

ReadSessionBlock(odd) == ReadObject(odd, {"sampleRate", "channels", "durationMs"}, {})

ReadSource(odd) ==
    ReadObject(odd, {"key", "kind", "name", "pid", "exe", "path", "windowClass", "endpointId",
                     "endpointName", "toneHz", "ratePpm", "amplitude", "muteAtFrame",
                     "unmuteAtFrame", "dieAtFrame", "startMuted", "startDead"}, {"key", "kind"})

ReadBus(odd) ==
    First(<<ReadObject(odd.bus, {"name", "sources", "outputs"}, {}),
            ReadObject(odd.edge, {"key", "gainDb"}, {"key"}),
            ReadObject(odd.output, {"format", "path", "bitrateKbps", "quality"}, {"path"})>>)

\* Every edge names a source of the file.
LinkEdges(doc) ==
    IF \A b \in DOMAIN doc.buses : doc.buses[b].edges \subseteq DOMAIN doc.sources
    THEN NONE ELSE "DANGLING_REF"

LoadUtf8(doc) ==
    First(<<IF doc.text = "whole" THEN NONE ELSE doc.text,      \* TRUNCATED, NOT_JSON, TOO_MANY
            ReadHeader(doc.header), ReadSessionBlock(doc.odd.session), ReadSource(doc.odd.source),
            ReadBus(doc.odd), LinkEdges(doc)>>)

Load(f) ==
    CASE f = Nothing         -> "FILE_MISSING"
      [] f.text = "locked"   -> "FILE_UNREADABLE"
      [] f.text = "huge"     -> "TOO_LARGE"
      [] OTHER               -> LoadUtf8(f)

----------------------------------------------------------------------------
(* Writing one. *)

Whole == [session |-> <<>>, source |-> <<>>, bus |-> <<>>, edge |-> <<>>, output |-> <<>>]

\* The writer names its own version, and the version a reader needs.
Written(sources, buses) ==
    [text |-> "whole", header |-> [version |-> FormatVersion, minReader |-> FormatVersion],
     odd |-> Whole, sources |-> sources, buses |-> buses]

Running == {p \in Pids : procs[p] # Nothing}
Heard   == {p \in Running : procs[p].heard}

\* The identity of a process as it is now.  Its path is known from the audio engine's list
\* only; a process that is gone leaves its number.
DescribeProcess(kind, p) ==
    [kind |-> kind, pid |-> p,
     path  |-> IF p \in Heard THEN procs[p].path ELSE Nothing,
     exe   |-> IF p \in Running THEN NameOf[procs[p].path] ELSE Nothing,
     class |-> IF p \in Running THEN procs[p].class ELSE Nothing]

\* An endpoint that is not there is written down without its name.
DescribeDevice(e) ==
    [kind |-> "device", id |-> e, label |-> IF e \in plugged THEN LabelOf[e] ELSE Nothing]

Describe(s) ==
    CASE s.kind = "device" -> DescribeDevice(s.what)
      [] s.kind = "fake"   -> [kind |-> "fake"]
      [] OTHER             -> DescribeProcess(s.kind, s.what)

\* The file is written beside the old one and renamed over it: a step that fails, or a
\* crash before the rename, leaves the old one.
SaveSession(sources, buses) ==
    file' \in {Written([k \in DOMAIN sources |-> Describe(sources[k])], buses), file}

----------------------------------------------------------------------------
(* Finding the sources of a file again. *)

ByPath(s)  == {p \in Heard : s.path # Nothing /\ procs[p].path = s.path}
ByName(s)  == {p \in Heard : s.exe # Nothing /\ NameOf[procs[p].path] = s.exe}
Matches(s) == IF ByPath(s) # {} THEN ByPath(s) ELSE ByName(s)
OfClass(s) == {p \in Matches(s) : s.class # Nothing /\ procs[p].class = s.class}

\* The stored number, while it is a process of the same name: the only way to find one
\* that has not made a sound.
StillRunning(s) ==
    s.pid \in Running /\ s.exe # Nothing /\ NameOf[procs[s.pid].path] = s.exe

Is(status, what) == [status |-> status, what |-> what]
TheOne(S)        == CHOOSE x \in S : TRUE

\* Mutant of ResolveProcess: the window is looked at before the number.
ResolveProcess_mutant(s) ==
    LET found == Matches(s) IN
    CASE found = {} /\ StillRunning(s)    -> Is("SAME_PROCESS", s.pid)
      [] found = {} /\ ~StillRunning(s)   -> Is("NOT_RUNNING", Nothing)
      [] found # {} /\ Cardinality(OfClass(s)) = 1 ->
            Is("BY_WINDOW_CLASS", TheOne(OfClass(s)))
      [] found # {} /\ Cardinality(OfClass(s)) # 1 /\ s.pid \in found ->
            Is("SAME_PROCESS", s.pid)
      [] OTHER                            -> Is("AMBIGUOUS", Nothing)

\* The image first, the name only when no image matched, the number last; the number, and
\* then the window, choose among several.
ResolveProcess(s) ==
    LET found == Matches(s) IN
    CASE found = {} /\ StillRunning(s)    -> Is("SAME_PROCESS", s.pid)
      [] found = {} /\ ~StillRunning(s)   -> Is("NOT_RUNNING", Nothing)
      [] s.pid \in found                  -> Is("SAME_PROCESS", s.pid)
      [] s.pid \notin found /\ Cardinality(found) = 1 ->
            Is(IF ByPath(s) = {} THEN "MOVED" ELSE "EXACT", TheOne(found))
      [] s.pid \notin found /\ Cardinality(found) > 1 /\ Cardinality(OfClass(s)) = 1 ->
            Is("BY_WINDOW_CLASS", TheOne(OfClass(s)))
      [] OTHER                            -> Is("AMBIGUOUS", Nothing)

\* The id, and then the name it was known by, when one endpoint has it.
ResolveDevice(s) ==
    LET named == {e \in plugged : s.label # Nothing /\ LabelOf[e] = s.label} IN
    CASE s.id \in plugged                                -> Is("DEVICE_EXACT", s.id)
      [] s.id \notin plugged /\ Cardinality(named) = 1   -> Is("DEVICE_BY_NAME", TheOne(named))
      [] s.id \notin plugged /\ Cardinality(named) > 1   -> Is("AMBIGUOUS", Nothing)
      [] OTHER                                           -> Is("DEVICE_ABSENT", Nothing)

\* Mutant of ResolveSource: a process that is found again does not need to be agreed to.
ResolveSource_mutant(s, consent) ==
    CASE s.kind = "fake"                                           -> Is("SYNTHETIC", Nothing)
      [] s.kind = "device"                                         -> ResolveDevice(s)
      [] s.kind = "exclude" /\ ~consent /\ Matches(s) = {}         -> Is("NEEDS_CONSENT", Nothing)
      [] OTHER                                                     -> ResolveProcess(s)

\* Consent is looked at before the machine is.
ResolveSource(s, consent) ==
    CASE s.kind = "fake"                     -> Is("SYNTHETIC", Nothing)
      [] s.kind = "device"                   -> ResolveDevice(s)
      [] s.kind = "exclude" /\ ~consent      -> Is("NEEDS_CONSENT", Nothing)
      [] OTHER                               -> ResolveProcess(s)

Usable == {"EXACT", "SAME_PROCESS", "DEVICE_EXACT", "SYNTHETIC",
           "MOVED", "BY_WINDOW_CLASS", "DEVICE_BY_NAME"}
Substituted == {"MOVED", "BY_WINDOW_CLASS", "DEVICE_BY_NAME"}

Resolve(doc, consent) == [k \in DOMAIN doc.sources |-> ResolveSource(doc.sources[k], consent)]

\* A session in memory.  Every load and every search writes the one there is.
Searched(doc, found) == [sources |-> doc.sources, buses |-> doc.buses, found |-> found]
Unread               == [sources |-> <<>>, buses |-> <<>>, found |-> <<>>]

Lost(rep)  == {k \in DOMAIN rep : rep[k].status \notin Usable}
Swaps(rep) == {k \in DOMAIN rep : rep[k].status \in Substituted}
AsksForConsent(rep) == \E k \in DOMAIN rep : rep[k].status = "NEEDS_CONSENT"

\* A source may be left out when the user said so, and the target of an exclusion never:
\* what was to be held back would be recorded.
Hard(rep, missing) == {k \in Lost(rep) : file.sources[k].kind = "exclude" \/ ~missing}

\* What is left of a session when the sources that were not found are left out.
GraphOf(doc) ==
    LET there == DOMAIN doc.found \ Lost(doc.found) IN
    [sources |-> [k \in there |-> [kind |-> doc.sources[k].kind, what |-> doc.found[k].what]],
     buses   |-> [b \in DOMAIN doc.buses |->
                    [edges |-> doc.buses[b].edges \cap there, out |-> doc.buses[b].out]]]

NoGraph == [sources |-> <<>>, buses |-> <<>>]

SessionInit ==
    /\ procs = [p \in Pids |-> Nothing] /\ plugged = {} /\ file = Nothing
    /\ at = "idle" /\ below = <<>> /\ session = Unread /\ report = <<>>
    /\ told = <<>> /\ agreed = FALSE /\ graph = NoGraph

ToIdle ==
    /\ at' = "idle" /\ below' = <<>> /\ session' = Unread /\ report' = <<>>
    /\ told' = <<>> /\ agreed' = FALSE /\ graph' = NoGraph

----------------------------------------------------------------------------
(* The machine, until a recording has its sources. *)

Waiting == {"idle", "asking", "consenting", "shown", "planned"}

Start(p, path, class) ==
    /\ at \in Waiting /\ p \notin Running /\ Cardinality(Running) < MaxRunning
    /\ procs' = [procs EXCEPT ![p] = [path |-> path, class |-> class, heard |-> FALSE]]
    /\ UNCHANGED <<plugged, file, at, opening>>

\* The audio engine's list has the processes that have made a sound, until they close it.
Sound(p) ==
    /\ at \in Waiting /\ p \in Running
    /\ procs' = [procs EXCEPT ![p].heard = ~@]
    /\ UNCHANGED <<plugged, file, at, opening>>

Exit(p) ==
    /\ at \in Waiting /\ p \in Running
    /\ procs' = [procs EXCEPT ![p] = Nothing]
    /\ UNCHANGED <<plugged, file, at, opening>>

Plug(e) ==
    /\ at \in Waiting
    /\ plugged' = IF e \in plugged THEN plugged \ {e} ELSE plugged \cup {e}
    /\ UNCHANGED <<procs, file, at, opening>>

Edited(f) ==
    /\ at = "idle" /\ file' = f
    /\ UNCHANGED <<machine, at, opening>>

----------------------------------------------------------------------------
(* The window. *)

\* The window's openings that wait for an answer, outermost first.
Dialogs == {"asking", "consenting"}
Waits   == IF at \in Dialogs THEN Append(below, at) ELSE <<>>

\* An opening returns to the one it was begun in, or to the window.
ReturnsTo(waits, window) ==
    IF waits = <<>> THEN at' = window /\ below' = <<>>
    ELSE at' = waits[Len(waits)] /\ below' = SubSeq(waits, 1, Len(waits) - 1)

\* session_to_graph and apr_controller_set_graph.
Adopts(doc) == graph' = GraphOf(doc)

\* Sources are looked for without consent first; the report is shown when it has
\* anything to say.
WindowOpens(f) ==
    /\ IF at = "idle" THEN f = file ELSE at \in Dialogs /\ f \in Inside /\ Len(below) < MaxNested
    /\ Load(f) = NONE /\ file' = f /\ agreed' = FALSE
    /\ report' = Resolve(f, FALSE) /\ session' = Searched(f, report') /\ told' = report'
    /\ IF Lost(report') \cup Swaps(report') = {}
         THEN Adopts(session') /\ ReturnsTo(Waits, "shown")
         ELSE graph' = graph /\ at' = "asking" /\ below' = Waits
    /\ UNCHANGED machine

\* A file that cannot be read, or is too large, leaves the session alone; of another
\* there is as much as was read before the fault.
ReadUpToFault(f) ==
    IF f.text # "whole" THEN {Unread}
    ELSE {Unread, [Unread EXCEPT !.sources = f.sources], Searched(f, <<>>)}

WindowOpensInVain(f) ==
    /\ at \in Dialogs /\ Len(below) < MaxNested /\ Load(f) # NONE /\ file' = f
    /\ IF Load(f) \in {"FILE_MISSING", "FILE_UNREADABLE", "TOO_LARGE"}
         THEN UNCHANGED <<session, agreed>>
         ELSE session' \in ReadUpToFault(f) /\ agreed' = FALSE
    /\ UNCHANGED <<machine, at, below, report, told, graph>>

\* Whether to ask is read from the static report, and what is adopted from the static
\* session, by whichever opening they were written.
WindowAccepts ==
    /\ at = "asking"
    /\ IF AsksForConsent(report)
         THEN at' = "consenting" /\ UNCHANGED <<graph, below>>
         ELSE Adopts(session) /\ ReturnsTo(below, "shown")
    /\ UNCHANGED <<machine, file, session, report, told, agreed>>

\* The sources are looked for again, with consent.  Nothing looks at what became of them.
WindowConsents ==
    /\ at = "consenting" /\ agreed' = TRUE
    /\ report' = Resolve(session, TRUE) /\ session' = Searched(session, report')
    /\ Adopts(session') /\ ReturnsTo(below, "shown")
    /\ UNCHANGED <<machine, file, told>>

\* What an opening inside has adopted stays.
WindowDeclines ==
    /\ at \in Dialogs
    /\ IF below = <<>> /\ graph = NoGraph THEN ToIdle
       ELSE ReturnsTo(below, "shown") /\ UNCHANGED <<session, report, told, agreed, graph>>
    /\ UNCHANGED <<machine, file>>

\* session_from_graph: the sources are described as they are now, some of them gone.
WindowSaves ==
    /\ at = "shown" /\ SaveSession(graph.sources, graph.buses) /\ ToIdle
    /\ UNCHANGED machine

----------------------------------------------------------------------------
SessionNext ==
    \/ \E p \in Pids, path \in Paths, class \in Classes \cup {Nothing} : Start(p, path, class)
    \/ \E p \in Pids : Sound(p) \/ Exit(p)
    \/ \E e \in Endpoints : Plug(e)
    \/ \E f \in Foreign : Edited(f)
    \/ \E f \in Inside \cup {file} : WindowOpens(f)
    \/ \E f \in Inside : WindowOpensInVain(f)
    \/ WindowAccepts \/ WindowConsents \/ WindowDeclines \/ WindowSaves

----------------------------------------------------------------------------
(* Properties. *)

Excludes(g) == \E k \in DOMAIN g.sources : g.sources[k].kind = "exclude"

\* Everything but one process is recorded only when the user agreed to that after the
\* session that is taken over was read: a session file is not consent (session.h), nor is
\* what was answered before it was read, whichever openings are nested in which and
\* whatever became of the other sources.  That the question was put by this opening, and
\* about this file, is more than the code does.
Consented == [][graph' # graph /\ Excludes(graph') => agreed']_<<file, at, opening>>

\* It is asked "EVERY time" (ui/controller.c): an opening takes no exclusion over on the
\* answer to its report alone.
AskedEveryTime == [][WindowAccepts /\ ~AsksForConsent(report) => ~Excludes(graph')]_<<at, opening>>

\* The image a source was saved as, by path or, when only its name was known, by name.
SameImage(s, p) ==
    /\ p \in Running
    /\ IF s.path = Nothing
         THEN s.exe # Nothing /\ NameOf[procs[p].path] = s.exe
         ELSE procs[p].path = s.path

\* A source that was saved, is still running under its number and is heard is what is
\* found, however many others like it run by now, and whatever windows they have
\* (resolve_process; session.h: picking one at random gets the wrong window).
SavedIsFound ==
    [][ \A k \in DOMAIN report' :
            LET s == session'.sources[k] IN
            (/\ report' # report /\ s.kind \in {"process", "exclude"}
             /\ s.pid \in Heard /\ SameImage(s, s.pid))
            => \/ report'[k] = Is("SAME_PROCESS", s.pid)
               \/ report'[k] = Is("NEEDS_CONSENT", Nothing) /\ s.kind = "exclude"
      ]_<<machine, file, at, opening>>

\* What was not found, and what was found in place of something else, was shown before
\* the graph was taken over ("the report is shown whenever it has anything to say",
\* ui/controller.c).
LossIsShown ==
    at = "shown" => \A k \in Lost(report) \cup Swaps(report) :
                        k \in DOMAIN told /\ told[k] = report[k]

=============================================================================
