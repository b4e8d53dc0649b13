------------------------------- MODULE Runner -------------------------------
(***************************************************************************)
(* The recording loop (core/runner.c) and everybody who talks to it: the   *)
(* thread that runs apr_runner_run(), its caller's or the runner's own;    *)
(* front-end threads that ask for a pause or a stop at any moment; and the *)
(* owner, which destroys the runner while the loop may still be in it.     *)
(* One action per access to the state they share.                          *)
(***************************************************************************)
EXTENDS Integers, FiniteSets

CONSTANTS
    Callers,    \* threads that call apr_runner_run() themselves
    Own,        \* the thread apr_runner_run_async() makes
    MaxRuns,    \* bound: calls of run() and run_async()
    MaxAsks,    \* bound: pause and resume requests
    MaxGiveUps  \* bound: destroys that give up waiting

ASSUME RunnerAssumption ==
    /\ Own \notin Callers
    /\ MaxRuns \in Nat /\ MaxAsks \in Nat /\ MaxGiveUps \in Nat

Threads == Callers \cup {Own}

VARIABLES
    pc,         \* pc[t]: the line of apr_runner_run() that t is at
    inRun, running, stopReq, wanted, paused,    \* the flags of AprRunner
    finished, left,     \* finished_event and loop_left, manual-reset events
    thread,     \* AprRunner.thread is set
    files,      \* the graph's outputs: none, open, closed
    gpaused,    \* AprGraph.paused
    beat,       \* changes with every block that is rendered
    watching,   \* the reconnect worker is running
    heard,      \* the last notice given to the observer
    own,        \* the owner: where it is in apr_runner_destroy()
    freed,      \* the runner's memory has been freed
    asked,      \* history: the last request made of a published recording
    runs, asks, giveUps     \* calls so far

flags   == <<inRun, running, stopReq, wanted, paused>>
events  == <<finished, left>>
graph   == <<files, gpaused, beat, watching>>
owner   == <<thread, own, freed>>
history == <<heard, asked>>
bounds  == <<runs, asks, giveUps>>
vars    == <<pc, flags, events, graph, owner, history, bounds>>

\* Before the run is published; the loop proper; after it.
Entry   == {"call", "arm", "claim", "publish", "clear", "start", "watch"}
Looping == {"wait", "apply", "mark", "tell", "tick", "check"}
Exit    == {"drain", "retire", "close", "reset", "unrun", "signal", "leave", "last"}
PCs     == {"out", "done"} \cup Entry \cup Looping \cup Exit

\* Threads that hold the claim on the run.
Inside  == {"publish", "clear", "start", "watch"} \cup Looping \cup (Exit \ {"last"})

Init ==
    /\ pc = [t \in Threads |-> "out"]
    /\ inRun = FALSE /\ running = FALSE /\ stopReq = FALSE
    /\ wanted = FALSE /\ paused = FALSE
    /\ finished = FALSE /\ left = TRUE
    /\ files = "none" /\ gpaused = FALSE /\ beat = FALSE /\ watching = FALSE
    /\ thread = FALSE /\ own = "idle" /\ freed = FALSE
    /\ heard = "none" /\ asked = FALSE
    /\ runs = 0 /\ asks = 0 /\ giveUps = 0

Goes(t, from, to) == pc[t] = from /\ pc' = [pc EXCEPT ![t] = to]

-----------------------------------------------------------------------------
(* Starting a run.                                                         *)

\* A synchronous run is not begun once its runner is being destroyed.
Call(t) ==
    /\ t \in Callers /\ own = "idle"
    /\ runs < MaxRuns /\ runs' = runs + 1
    /\ Goes(t, "out", "call")
    /\ UNCHANGED <<flags, events, graph, owner, history, asks, giveUps>>

RunAsync ==
    /\ own = "idle" /\ ~thread
    /\ runs < MaxRuns /\ runs' = runs + 1
    /\ finished' = FALSE /\ thread' = TRUE
    /\ Goes(Own, "out", "call")
    /\ UNCHANGED <<flags, left, graph, own, freed, history, asks, giveUps>>

ResetFinished(t) ==
    /\ Goes(t, "call", "arm")
    /\ finished' = FALSE
    /\ UNCHANGED <<flags, left, graph, owner, history, bounds>>

ResetLeft(t) ==
    /\ Goes(t, "arm", "claim")
    /\ left' = FALSE
    /\ UNCHANGED <<flags, finished, graph, owner, history, bounds>>

Claim(t) ==
    /\ Goes(t, "claim", IF inRun THEN "done" ELSE "publish")
    /\ inRun' = TRUE
    /\ UNCHANGED <<running, stopReq, wanted, paused, events, graph, owner, history, bounds>>

PublishRun(t) ==
    /\ Goes(t, "publish", "clear")
    /\ running' = TRUE
    /\ UNCHANGED <<inRun, stopReq, wanted, paused, events, graph, owner, history, bounds>>

ClearPause(t) ==
    /\ Goes(t, "clear", "start")
    /\ wanted' = FALSE /\ paused' = FALSE
    /\ UNCHANGED <<inRun, running, stopReq, events, graph, owner, history, bounds>>

\* apr_graph_start arms the sources and creates the files.
StartGraph(t) ==
    /\ Goes(t, "start", "watch")
    /\ files' = "open"
    /\ UNCHANGED <<flags, events, gpaused, beat, watching, owner, history, bounds>>

StartWatching(t) ==
    /\ Goes(t, "watch", "wait")
    /\ watching' = TRUE /\ heard' = "started"
    /\ UNCHANGED <<flags, events, files, gpaused, beat, owner, asked, bounds>>

-----------------------------------------------------------------------------
(* The loop.                                                               *)

Wake(t) ==
    /\ Goes(t, "wait", "apply")
    /\ UNCHANGED <<flags, events, graph, owner, history, bounds>>

\* apply_pause: the graph first, then the flag, then the sentence.
NoPauseChange(t) ==
    /\ wanted = paused /\ Goes(t, "apply", "tick")
    /\ UNCHANGED <<flags, events, graph, owner, history, bounds>>

ApplyPause(t) ==
    /\ wanted # paused /\ Goes(t, "apply", "mark")
    /\ gpaused' = wanted
    /\ UNCHANGED <<flags, events, files, beat, watching, owner, history, bounds>>

MarkPause(t) ==
    /\ Goes(t, "mark", "tell")
    /\ paused' = gpaused
    /\ UNCHANGED <<inRun, running, stopReq, wanted, events, graph, owner, history, bounds>>

\* Mutant of TellPause: only a pause is announced.
TellPause_mutant(t) ==
    /\ Goes(t, "tell", "tick")
    /\ heard' = IF paused THEN "paused" ELSE heard
    /\ UNCHANGED <<flags, events, graph, owner, asked, bounds>>

TellPause(t) ==
    /\ Goes(t, "tell", "tick")
    /\ heard' = IF paused THEN "paused" ELSE "resumed"
    /\ UNCHANGED <<flags, events, graph, owner, asked, bounds>>

\* Mutant of Renders: a bus does not know that it is paused.
Renders_mutant == files = "open"

\* A tick renders while the graph runs, and a paused bus renders nothing.
Renders == files = "open" /\ ~gpaused

Render == beat' = IF Renders THEN ~beat ELSE beat

Tick(t) ==
    /\ Goes(t, "tick", "check")
    /\ Render
    /\ UNCHANGED <<flags, events, files, gpaused, watching, owner, history, bounds>>

\* Mutant of GoOn: the loop does not look at the request.
GoOn_mutant(t) ==
    /\ Goes(t, "check", "wait")
    /\ UNCHANGED <<flags, events, graph, owner, history, bounds>>

GoOn(t) ==
    /\ ~stopReq /\ Goes(t, "check", "wait")
    /\ UNCHANGED <<flags, events, graph, owner, history, bounds>>

\* Stopped, or the duration that was asked for is over.
Break(t) ==
    /\ Goes(t, "check", "drain")
    /\ UNCHANGED <<flags, events, graph, owner, history, bounds>>

-----------------------------------------------------------------------------
(* The end of a run.                                                       *)

Drain(t) ==
    /\ Goes(t, "drain", "retire")
    /\ IF paused THEN UNCHANGED beat ELSE Render
    /\ UNCHANGED <<flags, events, files, gpaused, watching, owner, history, bounds>>

StopWatching(t) ==
    /\ Goes(t, "retire", "close")
    /\ watching' = FALSE /\ heard' = "finishing"
    /\ UNCHANGED <<flags, events, files, gpaused, beat, owner, asked, bounds>>

\* apr_graph_stop finalizes every file.
StopGraph(t) ==
    /\ Goes(t, "close", "reset")
    /\ files' = "closed" /\ gpaused' = FALSE
    /\ UNCHANGED <<flags, events, beat, watching, owner, history, bounds>>

ResetPause(t) ==
    /\ Goes(t, "reset", "unrun")
    /\ paused' = FALSE /\ wanted' = FALSE /\ asked' = FALSE
    /\ UNCHANGED <<inRun, running, stopReq, events, graph, owner, heard, bounds>>

Unpublish(t) ==
    /\ Goes(t, "unrun", "signal")
    /\ running' = FALSE
    /\ UNCHANGED <<inRun, stopReq, wanted, paused, events, graph, owner, history, bounds>>

SignalFinished(t) ==
    /\ Goes(t, "signal", "leave")
    /\ finished' = TRUE /\ heard' = "stopped"
    /\ UNCHANGED <<flags, left, graph, owner, asked, bounds>>

LeaveRun(t) ==
    /\ Goes(t, "leave", "last")
    /\ inRun' = FALSE
    /\ UNCHANGED <<running, stopReq, wanted, paused, events, graph, owner, history, bounds>>

SignalLeft(t) ==
    /\ Goes(t, "last", "done")
    /\ left' = TRUE
    /\ UNCHANGED <<flags, finished, graph, owner, history, bounds>>

-----------------------------------------------------------------------------
(* Requests, from any thread at any time.                                  *)

RequestStop ==
    /\ ~freed /\ stopReq' = TRUE
    /\ UNCHANGED <<pc, inRun, running, wanted, paused, events, graph, owner, history, bounds>>

RequestPause ==
    /\ ~freed /\ asks < MaxAsks /\ asks' = asks + 1
    /\ wanted' = TRUE
    /\ asked' = running
    /\ UNCHANGED <<pc, inRun, running, stopReq, paused, events, graph, owner, heard, runs, giveUps>>

RequestResume ==
    /\ ~freed /\ asks < MaxAsks /\ asks' = asks + 1
    /\ wanted' = FALSE
    /\ asked' = FALSE
    /\ UNCHANGED <<pc, inRun, running, stopReq, paused, events, graph, owner, heard, runs, giveUps>>

-----------------------------------------------------------------------------
(* apr_runner_destroy.                                                     *)

\* The owner of a synchronous run has seen that it is running, or over; only
\* the thread of run_async may still be on its way in.
Seen == \A t \in Callers : pc[t] \notin {"call", "arm", "claim", "publish"}

\* Mutant of DestroyBegin: nobody asks the loop to stop.
DestroyBegin_mutant ==
    /\ own = "idle" /\ ~freed /\ Seen
    /\ own' = "join"
    /\ UNCHANGED <<pc, flags, events, graph, thread, freed, history, bounds>>

DestroyBegin ==
    /\ own = "idle" /\ ~freed /\ Seen
    /\ own' = "join" /\ stopReq' = TRUE
    /\ UNCHANGED <<pc, inRun, running, wanted, paused, events, graph, thread, freed, history, bounds>>

JoinThread ==
    /\ own = "join" /\ own' = "gate"
    /\ thread => pc[Own] = "done"
    /\ thread' = FALSE
    /\ UNCHANGED <<pc, flags, events, graph, freed, history, bounds>>

\* Mutant of TestInRun: a run with no thread to join is not waited for at all.
TestInRun_mutant ==
    /\ own = "gate" /\ own' = "free"
    /\ UNCHANGED <<pc, flags, events, graph, thread, freed, history, bounds>>

TestInRun ==
    /\ own = "gate" /\ own' = IF inRun THEN "await" ELSE "free"
    /\ UNCHANGED <<pc, flags, events, graph, thread, freed, history, bounds>>

AwaitLeft ==
    /\ own = "await" /\ left /\ own' = "free"
    /\ UNCHANGED <<pc, flags, events, graph, thread, freed, history, bounds>>

\* The bounded wait ran out: nothing is freed, and the owner may try again.
GiveUp ==
    /\ own = "await" /\ ~left /\ own' = "idle"
    /\ giveUps < MaxGiveUps /\ giveUps' = giveUps + 1
    /\ UNCHANGED <<pc, flags, events, graph, thread, freed, history, runs, asks>>

\* Retiring the reconnect worker again is idempotent.
Free ==
    /\ own = "free" /\ own' = "gone"
    /\ freed' = TRUE /\ watching' = FALSE
    /\ UNCHANGED <<pc, flags, events, files, gpaused, beat, thread, history, bounds>>

-----------------------------------------------------------------------------
Enter(t) ==
    \/ ResetFinished(t) \/ ResetLeft(t) \/ Claim(t) \/ PublishRun(t) \/ ClearPause(t)
    \/ StartGraph(t) \/ StartWatching(t)

Loop(t) ==
    \/ Wake(t) \/ NoPauseChange(t) \/ ApplyPause(t) \/ MarkPause(t) \/ TellPause(t)
    \/ Tick(t) \/ GoOn(t) \/ Break(t)

End(t) ==
    \/ Drain(t) \/ StopWatching(t) \/ StopGraph(t) \/ ResetPause(t) \/ Unpublish(t)
    \/ SignalFinished(t) \/ LeaveRun(t) \/ SignalLeft(t)

Run(t) == Enter(t) \/ Loop(t) \/ End(t)

Destroy == JoinThread \/ TestInRun \/ AwaitLeft \/ GiveUp \/ Free

Next ==
    \/ RunAsync \/ \E t \in Threads : Call(t) \/ Run(t)
    \/ RequestStop \/ RequestPause \/ RequestResume
    \/ DestroyBegin \/ Destroy

Spec == Init /\ [][Next]_vars

\* Threads that have begun a run, and an owner that has begun to destroy, are
\* scheduled.  Nobody has to ask for anything, and no duration has to end.
FairSpec == Spec /\ (\A t \in Threads : WF_vars(Run(t))) /\ WF_vars(Destroy)

-----------------------------------------------------------------------------
(* Properties.                                                             *)

\* A graph that is not running is not paused either.
TypeOK ==
    /\ pc \in [Threads -> PCs]
    /\ \A f \in {inRun, running, stopReq, wanted, paused, finished, left, thread,
                 gpaused, beat, watching, freed, asked} : f \in BOOLEAN
    /\ files \in {"none", "open", "closed"} /\ (gpaused => files = "open")
    /\ own \in {"idle", "join", "gate", "await", "free", "gone"}
    /\ heard \in {"none", "started", "paused", "resumed", "finishing", "stopped"}
    /\ runs \in 0 .. MaxRuns /\ asks \in 0 .. MaxAsks /\ giveUps \in 0 .. MaxGiveUps

\* A runner that is used again while a run is in flight refuses: two loops never
\* touch one graph.
OneLoop == \A t, u \in Threads : pc[t] \in Inside /\ pc[u] \in Inside => t = u

\* "Never abandon a running recording": a runner is not freed before its files
\* are finalized, though the owner may have no thread to join.
NeverFreedOpen == freed => files # "open"

\* A run on the runner's own thread is out of the runner when it is freed.
JoinedBeforeFree == freed => pc[Own] \in {"out", "done"}

\* The worker touches a source's capture only between the start of the graph
\* and its stop: no source is started or stopped under it.
WatchedOnlyWhileOpen == watching => files = "open"

\* From the moment the flag or the sentence says "paused" until one of them
\* says otherwise, no frame is written.
NoFrameWhilePaused == [][paused \/ heard = "paused" => beat' = beat]_vars

\* What was asked for is what becomes true: a pause that stays wanted is
\* announced unless the run ends first, and a sentence that says "paused" does
\* not outlive the request.
PauseIsApplied ==
    /\ wanted /\ running ~> heard = "paused" \/ ~wanted \/ ~running
    /\ heard = "paused" /\ ~wanted ~> heard # "paused" \/ wanted

\* A stop is never lost, not even one asked for before the run began: a run in
\* flight closes its files and says that it has finished.
StopFinishes == stopReq /\ inRun ~> files # "open" /\ finished

\* Destroying ends: the owner frees the runner or has given up waiting for it.
DestroyEnds == own # "idle" ~> own \in {"gone", "idle"}

\* "Nothing below this line may touch r" (runner.c): the loop is out of a
\* runner that is freed.
NoTouchAfterFree == freed => \A t \in Threads : pc[t] \in {"out", "done"}

\* Resetting the events before a claim that is refused "is a no-op" (runner.c):
\* once nobody is in the run, closed files mean a set finished_event.
FinishedIsKept ==
    (\A t \in Threads : pc[t] \in {"out", "done"}) /\ files = "closed" => finished

\* A pause asked for of a run that is published is there for the loop to see
\* ("the loop reconciles it at its next wake", runner.h).
PauseIsRemembered == asked /\ (\E t \in Threads : pc[t] = "wait") => wanted
=============================================================================
