----------------------------- MODULE Documents ------------------------------
(***************************************************************************)
(* The document of the window: the graph the controller holds, the session *)
(* file it came from, and the commands that replace, edit, open and save   *)
(* it (ui/controller.c, and ui/canvas.c's own edits), beside a recording   *)
(* that starts and ends whenever it likes.                                 *)
(*                                                                         *)
(* A command looks at the recording, asks in a modal dialog, and acts on   *)
(* the answer.  The dialog pumps messages, and the menu of the icon can    *)
(* start a recording or open another session meanwhile.  A graph runs from *)
(* the moment the recording thread has armed it, not from the moment the   *)
(* recording starts, until that thread has closed its files; the window    *)
(* hears of the end by a message.                                          *)
(*                                                                         *)
(* A document is the file whose session it is, until it is edited; how     *)
(* many outputs it has; whether it records the whole system.  Graphs that  *)
(* are gone lend their number to new ones.  A session file may hold        *)
(* anything.                                                               *)
(***************************************************************************)
EXTENDS Integers, Sequences

CONSTANTS
    Files,      \* session files the user picks from
    None,       \* no file
    MaxOuts,    \* outputs a graph has room for
    MaxDepth    \* bound: handlers suspended inside one another

ASSUME DocumentsAssumption == None \notin Files /\ MaxDepth \in Nat /\ MaxOuts \in Nat \ {0}

Blank == [of |-> None, outs |-> 0, sys |-> FALSE]

VARIABLES
    gid, doc,       \* AprController.graph, and what is in it
    dirty, path,    \* unsaved changes, and session_path
    unsaved,        \* history: changes that are in no file and nobody agreed to lose
    session,        \* g_session: a static that every load and every save writes
    stack,          \* handlers that wait for an answer, outermost first
    take,           \* the recording: none, arming, running, over
    taken,          \* the graph it records
    stale,          \* history: a bus was used after its graph was destroyed
    strayed         \* history: what was adopted is not what was asked about

model   == <<gid, doc>>
file    == <<dirty, path, unsaved>>
history == <<stale, strayed>>
vars    == <<model, file, session, stack, take, taken, history>>

Init ==
    /\ gid = 1 /\ doc = Blank /\ dirty = FALSE /\ path = None /\ unsaved = FALSE
    /\ session = Blank
    /\ stack = <<>> /\ take = "none" /\ taken = 0
    /\ stale = FALSE /\ strayed = FALSE

Recording == take # "none"
GraphRuns == take = "running"

Top   == stack[Len(stack)]
Below == SubSeq(stack, 1, Len(stack) - 1)
At(k) == stack # <<>> /\ Top.k = k

\* A handler in the middle of an edit, which pumps no messages.
Editing == {"adding", "editing"}
Pumping == IF stack = <<>> THEN TRUE ELSE Top.k \notin Editing

\* A dialog disables the frame, not the icon.
AtFrame    == stack = <<>>
Asks(k, a) == Pumping /\ Len(stack) < MaxDepth /\ stack' = Append(stack, [k |-> k, a |-> a])
Then(k, a) == stack' = Append(Below, [k |-> k, a |-> a])
Returns    == stack' = Below

Cancel ==
    /\ stack # <<>> /\ Pumping /\ Returns
    /\ UNCHANGED <<model, file, session, take, taken, history>>

-----------------------------------------------------------------------------
(* Edits.                                                                  *)

\* A content that no file holds.
Edited(changes) ==
    /\ doc' = [changes EXCEPT !.of = None] /\ dirty' = TRUE /\ unsaved' = TRUE
    /\ UNCHANGED <<gid, path>>

AskForSource ==
    /\ AtFrame /\ ~Recording /\ Asks("source", 0)
    /\ UNCHANGED <<model, file, session, take, taken, history>>

AskForOutput ==
    /\ AtFrame /\ ~Recording /\ Asks("output", 0)
    /\ UNCHANGED <<model, file, session, take, taken, history>>

\* do_rename_bus and do_remove_output hold a bus while they ask.
AskForName ==
    /\ AtFrame /\ ~Recording /\ Asks("rename", gid)
    /\ UNCHANGED <<model, file, session, take, taken, history>>

AskWhichOutput ==
    /\ AtFrame /\ ~Recording /\ doc.outs > 0 /\ Asks("remove", gid)
    /\ UNCHANGED <<model, file, session, take, taken, history>>

\* apr_controller_add_source and _add_bus look at the recording again.
AddSource ==
    /\ At("source") /\ Returns
    /\ IF Recording THEN UNCHANGED <<model, file>> ELSE Edited(doc)
    /\ UNCHANGED <<session, take, taken, history>>

\* do_add_output leaves the refusal to the graph and the bus.  They look once
\* whether they run and whether there is room ...
AddOutput ==
    /\ At("output")
    /\ IF GraphRuns \/ doc.outs = MaxOuts THEN Returns ELSE Then("adding", 0)
    /\ UNCHANGED <<model, file, session, take, taken, history>>

\* ... and then add it, whatever the recording thread has done meanwhile.
AddAction ==
    /\ At("adding") /\ Returns /\ Edited([doc EXCEPT !.outs = @ + 1])
    /\ UNCHANGED <<session, take, taken, history>>

\* The bus is the one that was held, wherever its graph is by now.
ChangeBus(changes) ==
    IF Top.a = gid THEN Edited(changes) /\ UNCHANGED stale
                   ELSE stale' = TRUE /\ UNCHANGED <<model, file>>

RenameBus ==
    /\ At("rename") /\ Returns /\ ChangeBus(doc)
    /\ UNCHANGED <<session, take, taken, strayed>>

RemoveOutput ==
    /\ At("remove") /\ Returns /\ ChangeBus([doc EXCEPT !.outs = @ - 1])
    /\ UNCHANGED <<session, take, taken, strayed>>

\* Keys and the mouse on the canvas: it asks the graph, not the controller, and
\* then edits.
AskGraph ==
    /\ AtFrame /\ ~GraphRuns /\ Asks("editing", 0)
    /\ UNCHANGED <<model, file, session, take, taken, history>>

EditCanvas ==
    /\ At("editing") /\ Returns /\ Edited(doc)
    /\ UNCHANGED <<session, take, taken, history>>

-----------------------------------------------------------------------------
(* Session files.                                                          *)

\* The number of a graph that nobody refers to.
Fresh == CHOOSE n \in 1 .. MaxDepth + 3 :
            n \notin {gid, taken} \cup {stack[i].a : i \in DOMAIN stack}

\* Mutant of Adopt: the recording is not looked at again.
Adopt_mutant(content, f) ==
    gid' = Fresh /\ doc' = content /\ path' = f /\ dirty' = FALSE /\ unsaved' = FALSE

\* apr_controller_set_graph refuses while recording, and so does the open; a
\* session that does not make a graph is refused too.
Adopt(content, f) ==
    \/ UNCHANGED <<model, file>>
    \/ /\ ~Recording /\ gid' = Fresh /\ doc' = content
       /\ path' = f /\ dirty' = FALSE /\ unsaved' = FALSE

\* File > New does not look at what set_graph returned.
MakeNew ==
    /\ path' = None /\ dirty' = FALSE /\ unsaved' = FALSE
    /\ IF Recording THEN UNCHANGED model ELSE gid' = Fresh /\ doc' = Blank
    /\ UNCHANGED <<session, take, taken, history>>

New ==
    /\ AtFrame /\ ~Recording /\ ~dirty /\ MakeNew /\ UNCHANGED stack

AskToDiscard ==
    /\ AtFrame /\ ~Recording /\ dirty /\ Asks("new", 0)
    /\ UNCHANGED <<model, file, session, take, taken, history>>

DiscardForNew == At("new") /\ MakeNew /\ Returns

\* Mutant of Open: the icon's command does not ask about unsaved changes.
Open_mutant ==
    /\ ~Recording /\ Asks(IF dirty /\ AtFrame THEN "discard" ELSE "choose", 0)
    /\ UNCHANGED <<model, file, session, take, taken, history>>

\* From the menu bar, or from the icon's menu, whatever is open.
Open ==
    /\ ~Recording /\ Asks(IF dirty THEN "discard" ELSE "choose", 0)
    /\ UNCHANGED <<model, file, session, take, taken, history>>

DiscardForOpen ==
    /\ At("discard") /\ Then("choose", 0)
    /\ unsaved' = FALSE
    /\ UNCHANGED <<model, dirty, path, session, take, taken, history>>

\* apr_controller_open_session: refused while recording; then the file is
\* loaded over the session of any other open that still waits for its answer.
Load(f) ==
    /\ At("choose") /\ ~Recording
    /\ \E s \in BOOLEAN :
        /\ session' = [of |-> f, outs |-> 1, sys |-> s]
        /\ IF s THEN Then("report", f) /\ UNCHANGED <<model, file>>
                ELSE Returns /\ Adopt(session', f)
    /\ UNCHANGED <<take, taken, history>>

\* A file that does not load leaves an empty session behind; one that cannot be read at
\* all leaves the session as it is.
LoadFails ==
    /\ At("choose") /\ ~Recording /\ Returns
    /\ session' \in {session, Blank}
    /\ UNCHANGED <<model, file, take, taken, history>>

\* Whether consent is needed is read from the static report, and what is adopted
\* from the static session, as the last load has left them.
AcceptReport ==
    /\ At("report")
    /\ IF session.sys THEN Then("consent", Top.a) /\ UNCHANGED <<model, file, strayed>>
       ELSE /\ Returns /\ Adopt(session, Top.a)
            /\ strayed' = (strayed \/ (gid' # gid /\ session.of # Top.a))
    /\ UNCHANGED <<session, take, taken, stale>>

Consent ==
    /\ At("consent") /\ Returns /\ Adopt(session, Top.a)
    /\ strayed' = (strayed \/ (gid' # gid /\ session.of # Top.a))
    /\ UNCHANGED <<session, take, taken, stale>>

\* The document is described in the static session, which is written to the file.
SaveTo(f) ==
    /\ session' = [doc EXCEPT !.of = f]
    /\ \/ UNCHANGED <<model, file>>        \* the disk refuses
       \/ doc' = session' /\ path' = f /\ dirty' = FALSE /\ unsaved' = FALSE /\ UNCHANGED gid
    /\ UNCHANGED <<take, taken, history>>

Save == AtFrame /\ ~Recording /\ path # None /\ SaveTo(path) /\ UNCHANGED stack

AskWhereToSave ==
    /\ AtFrame /\ ~Recording /\ Asks("save", 0)
    /\ UNCHANGED <<model, file, session, take, taken, history>>

SaveAs(f) == At("save") /\ Returns /\ SaveTo(f)

-----------------------------------------------------------------------------
(* The recording, of which module Controller has the rest.                 *)

Start ==
    /\ Pumping /\ ~Recording /\ doc.outs > 0 /\ take' = "arming" /\ taken' = gid
    /\ UNCHANGED <<model, file, session, stack, history>>

Arm ==
    /\ take = "arming" /\ take' = "running"
    /\ UNCHANGED <<model, file, session, stack, taken, history>>

\* The recording thread stops the graph, also one that never ran, ...
Halt ==
    /\ take \in {"arming", "running"} /\ take' = "over"
    /\ UNCHANGED <<model, file, session, stack, taken, history>>

\* ... and the window takes its last notice.
Finish ==
    /\ Pumping /\ take = "over" /\ take' = "none" /\ taken' = 0
    /\ UNCHANGED <<model, file, session, stack, history>>

-----------------------------------------------------------------------------
Edit ==
    \/ AskForSource \/ AskForOutput \/ AskForName \/ AskWhichOutput
    \/ AddSource \/ AddOutput \/ AddAction \/ RenameBus \/ RemoveOutput
    \/ AskGraph \/ EditCanvas

Session ==
    \/ New \/ AskToDiscard \/ DiscardForNew \/ Open \/ DiscardForOpen \/ LoadFails
    \/ AcceptReport \/ Consent \/ Save \/ AskWhereToSave
    \/ \E f \in Files : Load(f) \/ SaveAs(f)

Take == Start \/ Arm \/ Halt \/ Finish

Next == Cancel \/ Edit \/ Session \/ Take

Spec == Init /\ [][Next]_vars

-----------------------------------------------------------------------------
(* Properties.                                                             *)

TypeOK ==
    /\ {dirty, unsaved, stale, strayed} \subseteq BOOLEAN
    /\ path \in Files \cup {None} /\ gid \in 1 .. MaxDepth + 3
    /\ {doc, session} \subseteq [of : Files \cup {None}, outs : 0 .. MaxOuts, sys : BOOLEAN]
    /\ take \in {"none", "arming", "running", "over"} /\ taken \in 0 .. MaxDepth + 3

\* The graph that is being recorded is the controller's, which would destroy it
\* with the next one that it adopts (ctl_adopt_graph).
GraphOutlivesTake == Recording => taken = gid

\* "Nonzero when it is safe to throw the current session away -- either because
\* there is nothing unsaved in it, or because the user has just said so"
\* (may_discard).  The open asks before its dialogs and replaces the graph after
\* them, and what goes on inside them must not have brought new changes.  File >
\* New replaces it in the handler of the answer.
NothingLostUnasked == [][gid' # gid => ~unsaved \/ At("new")]_vars

\* Once the graph runs nothing is added to it: "the shape is frozen while the
\* graph runs" (graph.c).
NothingJoinsARunningTake == [][GraphRuns /\ GraphRuns' => doc'.outs <= doc.outs]_vars

\* ui_controller.h: the graph is not touched while a recording runs.
FrozenWhileRecording == [][Recording /\ Recording' => UNCHANGED model]_vars

\* What is adopted is what the user was asked about.
AsAgreed == ~strayed

\* A command uses a bus of the graph that is there.
NoStaleBus == ~stale

\* A document that is called unmodified is what its file holds.
CleanMeansSaved == ~dirty => doc = Blank \/ (path # None /\ doc.of = path)
=============================================================================
