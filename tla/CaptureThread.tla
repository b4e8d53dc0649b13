---------------------------- MODULE CaptureThread ----------------------------
(***************************************************************************)
(* The thread a WASAPI capture owns (capture/wasapi_common.c), the job     *)
(* protocol by which any thread has work done on it, and the life of the   *)
(* capture around it: open, call, start, stop, close, and a close that is  *)
(* abandoned because the pump or the mute poller will not come out.        *)
(*                                                                         *)
(* No callback of the program stops or closes its own capture, so the      *)
(* branches for calls made from the capture thread are left out.  Every    *)
(* bounded wait may give up whenever what it waits for has not happened.   *)
(***************************************************************************)
EXTENDS Integers, FiniteSets

CONSTANTS
    Clients,    \* threads that call, start and stop an open capture
    Starters,   \* those of them that start and stop it
    Owner,      \* the thread that opens and closes it
    None,       \* nobody: the lock is free
    AfterStuck, \* clients go on using a capture whose stop was given up
    MaxOps,     \* bound: operations of the clients
    MaxWedges,  \* bound: times a drain is wedged inside WASAPI
    MaxCloses   \* bound: attempts to close

ASSUME CaptureAssumption ==
    /\ Starters \subseteq Clients
    /\ Owner \notin Clients /\ None \notin Clients \cup {Owner}
    /\ AfterStuck \in BOOLEAN
    /\ MaxOps \in Nat /\ MaxWedges \in Nat /\ MaxCloses \in Nat

Posters == Clients \cup {Owner}

VARIABLES
    pc,         \* pc[p]: where p is in the operation it is making
    lock,       \* holder of AprWasapiStream.lock
    th,         \* the capture thread
    handle,     \* AprWasapiStream.thread is set
    job, jobEv, \* the job posted, and its auto-reset event
    doneEv,     \* the auto-reset event that answers it
    idleEv, stopEv, readyEv,    \* manual-reset events
    ok,         \* the last job succeeded
    running, stuck,     \* AprWasapiStream.running and .pump_stuck
    mute,       \* the mute poller
    late,       \* the stream's half of this close has failed
    answered,   \* history: whose job doneEv answers
    quiet,      \* history: a stop has seen the pump out, and no start since
    ops, wedges, closes     \* bounds

posters == <<pc, lock>>
waits   == <<idleEv, stopEv, readyEv>>
events  == <<jobEv, doneEv, waits>>
flags   == <<running, stuck>>
thread  == <<th, handle, job, ok, answered>>
closing == <<mute, late>>
bounds  == <<ops, wedges, closes>>
other   == <<flags, closing, quiet, bounds>>
vars    == <<posters, thread, events, other>>

\* Inside the drain loop of pump(), from its start to idle_ev.
Pumping == {"pump", "drain", "wedged", "sweep", "wedgedLast"}
Alive   == {"boot", "wait", "work", "starting", "failed", "leaving"} \cup Pumping
Wedged  == {"wedged", "wedgedLast"}

\* Where an operation is: waiting for the lock, holding it, without it, over.
Waiting  == {"call", "enter", "await", "shut"}
Inside   == {"test", "callWait", "resetStop", "resetIdle", "postRun", "runWait",
             "idleWait", "postClose", "closeWait", "postQuit", "quitWait"}
Outside  == {"cas", "undo", "undone", "stop", "signal", "judge", "joinThread",
             "muteStop", "muteJoin", "new", "boot", "muteStart"}
Resting  == {"idle", "open", "abandoned", "freed"}
PCs      == Waiting \cup Inside \cup Outside \cup Resting

Init ==
    /\ pc = [p \in Posters |-> IF p = Owner THEN "new" ELSE "idle"]
    /\ lock = None /\ th = "none" /\ handle = FALSE
    /\ job = "none" /\ ok = TRUE /\ answered = None
    /\ jobEv = FALSE /\ doneEv = FALSE /\ readyEv = FALSE
    /\ idleEv = TRUE /\ stopEv = FALSE
    /\ running = FALSE /\ stuck = FALSE
    /\ mute = "none" /\ late = FALSE /\ quiet = TRUE
    /\ ops = 0 /\ wedges = 0 /\ closes = 0

Goes(p, from, to) == pc[p] = from /\ pc' = [pc EXCEPT ![p] = to]

-----------------------------------------------------------------------------
(* The lock, and a job posted under it.                                    *)

\* From waiting for the lock to what is done first under it.
Enters(p) ==
    \/ Goes(p, "call", "test") \/ Goes(p, "enter", "resetStop")
    \/ Goes(p, "await", "idleWait") \/ Goes(p, "shut", "postClose")

Enter(p) ==
    /\ Enters(p)
    /\ lock = None /\ lock' = p
    /\ UNCHANGED <<thread, events, other>>

\* post(): the job is there before the thread is woken.
Post(kind) == job' = kind /\ jobEv' = TRUE

\* The other half: an answer, or a thread that is gone.
Answered == doneEv \/ th = "gone"
TakeAnswer == doneEv' = FALSE

\* What post() returns: the answer's error, or that there was none.
Failed == IF doneEv THEN ~ok ELSE TRUE

-----------------------------------------------------------------------------
(* The capture thread.                                                     *)

Turns(from, to) == th = from /\ th' = to

\* CoInitializeEx, whose failure ends the thread.
Boot ==
    /\ \E r \in {"wait", "gone"} : Turns("boot", r)
    /\ readyEv' = TRUE
    /\ UNCHANGED <<posters, handle, job, ok, answered, jobEv, doneEv, idleEv, stopEv,
                   other>>

TakeCall ==
    /\ jobEv /\ job \in {"call", "close"} /\ Turns("wait", "work")
    /\ jobEv' = FALSE
    /\ UNCHANGED <<posters, handle, job, ok, answered, doneEv, waits, other>>

\* The job of another thread is done, well or badly, and answered.
Work ==
    /\ Turns("work", "wait")
    /\ ok' \in BOOLEAN /\ answered' = lock /\ doneEv' = TRUE
    /\ UNCHANGED <<posters, handle, job, jobEv, waits, other>>

TakeQuit ==
    /\ jobEv /\ job = "quit" /\ Turns("wait", "leaving")
    /\ jobEv' = FALSE /\ doneEv' = TRUE /\ answered' = lock
    /\ UNCHANGED <<posters, handle, job, ok, waits, other>>

Leave ==
    /\ Turns("leaving", "gone")
    /\ UNCHANGED <<posters, handle, job, ok, answered, events, other>>

TakeRun ==
    /\ jobEv /\ job = "run" /\ Turns("wait", "starting")
    /\ jobEv' = FALSE
    /\ UNCHANGED <<posters, handle, job, ok, answered, doneEv, waits, other>>

\* client_start() fails: idle_ev first, then the answer.
StartFails ==
    /\ Turns("starting", "failed")
    /\ ok' = FALSE /\ idleEv' = TRUE
    /\ UNCHANGED <<posters, handle, job, answered, jobEv, doneEv, stopEv, readyEv, other>>

\* Mutant of AnswerFailure: a start that failed is not answered.
AnswerFailure_mutant ==
    /\ Turns("failed", "wait")
    /\ UNCHANGED <<posters, handle, job, ok, answered, events, other>>

AnswerFailure ==
    /\ Turns("failed", "wait")
    /\ doneEv' = TRUE /\ answered' = lock
    /\ UNCHANGED <<posters, handle, job, ok, jobEv, waits, other>>

StartPump ==
    /\ Turns("starting", "pump")
    /\ ok' = TRUE /\ doneEv' = TRUE /\ answered' = lock
    /\ UNCHANGED <<posters, handle, job, jobEv, waits, other>>

SeesStop ==
    /\ stopEv /\ Turns("pump", "sweep")
    /\ UNCHANGED <<posters, handle, job, ok, answered, events, other>>

Drain ==
    /\ ~stopEv /\ Turns("pump", "drain")
    /\ UNCHANGED <<posters, handle, job, ok, answered, events, other>>

\* Only a fatal error of the device ends the loop, and nobody is told.
Drained ==
    /\ \E to \in {"pump", "sweep"} : Turns("drain", to)
    /\ UNCHANGED <<posters, handle, job, ok, answered, events, other>>

\* The last sweep is over, the client is stopped: idle_ev.
Idle ==
    /\ Turns("sweep", "wait")
    /\ idleEv' = TRUE
    /\ UNCHANGED <<posters, handle, job, ok, answered, jobEv, doneEv, stopEv, readyEv,
                   other>>

\* A call of WASAPI inside drain() does not come back, and then does.
Wedge ==
    /\ wedges < MaxWedges /\ wedges' = wedges + 1
    /\ Turns("drain", "wedged") \/ Turns("sweep", "wedgedLast")
    /\ UNCHANGED <<posters, handle, job, ok, answered, events, flags, closing, quiet,
                   ops, closes>>

Unwedge ==
    /\ Turns("wedged", "drain") \/ Turns("wedgedLast", "sweep")
    /\ UNCHANGED <<posters, handle, job, ok, answered, events, other>>

-----------------------------------------------------------------------------
(* call().                                                                 *)

\* What the clients may do next: the capture is open, and not given up on.
MayBegin(c) ==
    /\ pc[Owner] = "open" /\ (AfterStuck \/ ~stuck)
    /\ ops < MaxOps /\ ops' = ops + 1

Call(c) ==
    /\ MayBegin(c) /\ Goes(c, "idle", "call")
    /\ UNCHANGED <<lock, thread, events, flags, closing, quiet, wedges, closes>>

\* Where a call returns to: open() closes what it could not open.
AfterCall(p, failed) ==
    IF p # Owner THEN "idle" ELSE IF failed THEN "stop" ELSE "muteStart"

\* The thread is the pump and reads no jobs.
Refuse(p) ==
    /\ running /\ Goes(p, "test", AfterCall(p, TRUE))
    /\ lock' = None
    /\ UNCHANGED <<thread, events, other>>

\* Mutant of PostCall: `running` was tested before the lock was taken.
PostCall_mutant(p) ==
    /\ Goes(p, "test", "callWait")
    /\ Post("call")
    /\ UNCHANGED <<lock, th, handle, ok, answered, doneEv, waits, other>>

PostCall(p) ==
    /\ ~running /\ Goes(p, "test", "callWait")
    /\ Post("call")
    /\ UNCHANGED <<lock, th, handle, ok, answered, doneEv, waits, other>>

CallReturns(p) ==
    /\ Answered /\ Goes(p, "callWait", AfterCall(p, Failed))
    /\ TakeAnswer /\ lock' = None
    /\ UNCHANGED <<thread, jobEv, waits, other>>

-----------------------------------------------------------------------------
(* start().                                                                *)

Start(c) ==
    /\ c \in Starters /\ MayBegin(c) /\ Goes(c, "idle", "cas")
    /\ UNCHANGED <<lock, thread, events, flags, closing, quiet, wedges, closes>>

\* `running` is raised before the lock is taken; nothing to do if it was.
Raise(c) ==
    /\ Goes(c, "cas", IF running THEN "idle" ELSE "enter")
    /\ running' = TRUE /\ quiet' = (quiet /\ running)
    /\ UNCHANGED <<lock, thread, events, stuck, closing, bounds>>

ResetStop(c) ==
    /\ Goes(c, "resetStop", "resetIdle")
    /\ stopEv' = FALSE
    /\ UNCHANGED <<lock, thread, jobEv, doneEv, idleEv, readyEv, other>>

\* Mutant of ResetIdle: idle_ev stays set from the time before.
ResetIdle_mutant(c) ==
    /\ Goes(c, "resetIdle", "postRun")
    /\ UNCHANGED <<lock, thread, events, other>>

ResetIdle(c) ==
    /\ Goes(c, "resetIdle", "postRun")
    /\ idleEv' = FALSE
    /\ UNCHANGED <<lock, thread, jobEv, doneEv, stopEv, readyEv, other>>

PostRun(c) ==
    /\ Goes(c, "postRun", "runWait")
    /\ Post("run")
    /\ UNCHANGED <<lock, th, handle, ok, answered, doneEv, waits, other>>

RunReturns(c) ==
    /\ Answered /\ Goes(c, "runWait", IF Failed THEN "undo" ELSE "idle")
    /\ TakeAnswer /\ lock' = None
    /\ UNCHANGED <<thread, jobEv, waits, other>>

Undo(c) ==
    /\ Goes(c, "undo", "undone")
    /\ running' = FALSE
    /\ UNCHANGED <<lock, thread, events, stuck, closing, quiet, bounds>>

Undone(c) ==
    /\ Goes(c, "undone", "idle")
    /\ idleEv' = TRUE
    /\ UNCHANGED <<lock, thread, jobEv, doneEv, stopEv, readyEv, other>>

-----------------------------------------------------------------------------
(* stop(), which is also the first half of close().                        *)

Stop(c) ==
    /\ c \in Starters /\ MayBegin(c) /\ Goes(c, "idle", "stop")
    /\ UNCHANGED <<lock, thread, events, flags, closing, quiet, wedges, closes>>

Lower(p) ==
    /\ Goes(p, "stop", "signal")
    /\ running' = FALSE
    /\ UNCHANGED <<lock, thread, events, stuck, closing, quiet, bounds>>

AfterStop(p) == IF p = Owner THEN "judge" ELSE "idle"

\* Without a thread there is nothing to wait for.
Signal(p) ==
    /\ Goes(p, "signal", IF handle THEN "await" ELSE AfterStop(p))
    /\ stopEv' = TRUE
    /\ UNCHANGED <<lock, thread, jobEv, doneEv, idleEv, readyEv, other>>

StopSeesIdle(p) ==
    /\ idleEv \/ th = "gone"
    /\ Goes(p, "idleWait", AfterStop(p))
    /\ lock' = None /\ quiet' = TRUE
    /\ UNCHANGED <<thread, events, flags, closing, bounds>>

StopGivesUp(p) ==
    /\ ~(idleEv \/ th = "gone")
    /\ Goes(p, "idleWait", AfterStop(p))
    /\ lock' = None /\ stuck' = TRUE
    /\ UNCHANGED <<thread, events, running, closing, quiet, bounds>>

-----------------------------------------------------------------------------
(* open() and close(), which the owner calls; a failed open closes.        *)

\* The thread is made, or it is not and open() fails.
OpenThread ==
    /\ \/ Goes(Owner, "new", "boot") /\ Turns("none", "boot") /\ handle' = TRUE
       \/ Goes(Owner, "new", "stop") /\ UNCHANGED <<th, handle>>
    /\ UNCHANGED <<lock, job, ok, answered, events, other>>

\* Ready, not in the apartment, or not ready in ten seconds.
OpenReady ==
    /\ \E to \in {"call", "stop"} :
        /\ to = "call" => readyEv /\ th # "gone"
        /\ to = "stop" => ~readyEv \/ th = "gone"
        /\ Goes(Owner, "boot", to)
    /\ UNCHANGED <<lock, thread, events, other>>

\* A process tap has a poller; without its thread the capture is fine,
\* without its event open() fails.
OpenMute ==
    /\ \/ Goes(Owner, "muteStart", "open") /\ mute' \in {"on", "none"}
       \/ Goes(Owner, "muteStart", "stop") /\ mute' = "none"
    /\ UNCHANGED <<lock, thread, events, flags, late, quiet, bounds>>

Close ==
    /\ closes < MaxCloses /\ closes' = closes + 1
    /\ \A c \in Clients : pc[c] = "idle"
    /\ Goes(Owner, "open", "stop") \/ Goes(Owner, "abandoned", "stop")
    /\ late' = FALSE
    /\ UNCHANGED <<lock, thread, events, flags, mute, quiet, ops, wedges>>

Judge ==
    /\ Goes(Owner, "judge", IF stuck \/ ~handle THEN "muteStop" ELSE "shut")
    /\ late' = stuck
    /\ UNCHANGED <<lock, thread, events, flags, mute, quiet, bounds>>

PostClose ==
    /\ Goes(Owner, "postClose", "closeWait")
    /\ Post("close")
    /\ UNCHANGED <<lock, th, handle, ok, answered, doneEv, waits, other>>

CloseAnswered ==
    /\ Answered /\ Goes(Owner, "closeWait", "postQuit")
    /\ TakeAnswer
    /\ UNCHANGED <<lock, thread, jobEv, waits, other>>

PostQuit ==
    /\ Goes(Owner, "postQuit", "quitWait")
    /\ Post("quit")
    /\ UNCHANGED <<lock, th, handle, ok, answered, doneEv, waits, other>>

QuitAnswered ==
    /\ Answered /\ Goes(Owner, "quitWait", "joinThread")
    /\ TakeAnswer /\ lock' = None
    /\ UNCHANGED <<thread, jobEv, waits, other>>

\* The thread has left: its handle, the lock and the events go.
Joined ==
    /\ th = "gone" /\ Goes(Owner, "joinThread", "muteStop")
    /\ handle' = FALSE
    /\ UNCHANGED <<lock, th, job, ok, answered, events, other>>

JoinGivesUp ==
    /\ th # "gone" /\ Goes(Owner, "joinThread", "muteStop")
    /\ stuck' = TRUE /\ late' = TRUE
    /\ UNCHANGED <<lock, thread, events, running, mute, quiet, bounds>>

\* Both threads get their chance to leave before anything is judged.
Verdict(muteOut) == IF late \/ ~muteOut THEN "abandoned" ELSE "freed"

CloseMute ==
    /\ IF mute = "none" THEN Goes(Owner, "muteStop", Verdict(TRUE)) /\ mute' = mute
       ELSE Goes(Owner, "muteStop", "muteJoin") /\ mute' = IF mute = "on" THEN "asked" ELSE mute
    /\ UNCHANGED <<lock, thread, events, flags, late, quiet, bounds>>

\* Mutant of MuteGivesUp: only the stream's error decides whether to free.
MuteGivesUp_mutant ==
    /\ mute # "out" /\ Goes(Owner, "muteJoin", Verdict(TRUE))
    /\ UNCHANGED <<lock, thread, events, other>>

MuteJoined ==
    /\ mute = "out" /\ Goes(Owner, "muteJoin", Verdict(TRUE))
    /\ mute' = "none"
    /\ UNCHANGED <<lock, thread, events, flags, late, quiet, bounds>>

MuteGivesUp ==
    /\ mute # "out" /\ Goes(Owner, "muteJoin", Verdict(FALSE))
    /\ UNCHANGED <<lock, thread, events, other>>

\* The poller leaves when it is asked to, or at once without an apartment.
MuteLeaves ==
    /\ mute \in {"on", "asked"} /\ mute' = "out"
    /\ UNCHANGED <<posters, thread, events, flags, late, quiet, bounds>>

-----------------------------------------------------------------------------
ThreadStep ==
    \/ Boot \/ TakeCall \/ Work \/ TakeQuit \/ Leave \/ TakeRun
    \/ StartFails \/ AnswerFailure \/ StartPump
    \/ SeesStop \/ Drain \/ Drained \/ Idle

PosterStep(p) ==
    \/ Enter(p) \/ Refuse(p) \/ PostCall(p) \/ CallReturns(p)
    \/ Raise(p) \/ ResetStop(p) \/ ResetIdle(p) \/ PostRun(p)
    \/ RunReturns(p) \/ Undo(p) \/ Undone(p)
    \/ Lower(p) \/ Signal(p) \/ StopSeesIdle(p) \/ StopGivesUp(p)

OwnerStep ==
    \/ OpenThread \/ OpenReady \/ OpenMute
    \/ Judge \/ PostClose \/ CloseAnswered \/ PostQuit \/ QuitAnswered
    \/ Joined \/ JoinGivesUp \/ CloseMute \/ MuteJoined \/ MuteGivesUp

Next ==
    \/ ThreadStep \/ Wedge \/ Unwedge \/ MuteLeaves
    \/ \E p \in Posters : PosterStep(p)
    \/ \E c \in Clients : Call(c) \/ Start(c) \/ Stop(c)
    \/ OwnerStep \/ Close

Spec == Init /\ [][Next]_vars

\* Threads are scheduled and bounded waits end.  A wedged drain need not.
FairSpec ==
    /\ Spec
    /\ WF_vars(ThreadStep) /\ WF_vars(OwnerStep)
    /\ \A p \in Posters : WF_vars(PosterStep(p))

-----------------------------------------------------------------------------
\* Whoever is in the critical section holds the lock, alone.
Places ==
    /\ pc \in [Posters -> PCs] /\ lock \in Posters \cup {None}
    /\ th \in {"none", "gone"} \cup Alive
    /\ job \in {"none", "call", "close", "run", "quit"}
    /\ mute \in {"none", "on", "asked", "out"}
    /\ answered \in Posters \cup {None}
    /\ ops \in 0..MaxOps /\ wedges \in 0..MaxWedges /\ closes \in 0..MaxCloses
    /\ \A p \in Posters : pc[p] \in Inside <=> lock = p

Flags ==
    /\ handle \in BOOLEAN /\ ok \in BOOLEAN
    /\ jobEv \in BOOLEAN /\ doneEv \in BOOLEAN
    /\ idleEv \in BOOLEAN /\ stopEv \in BOOLEAN /\ readyEv \in BOOLEAN
    /\ running \in BOOLEAN /\ stuck \in BOOLEAN /\ late \in BOOLEAN /\ quiet \in BOOLEAN

\* Types; and the critical section is left on every way out of it.
TypeOK == Places /\ Flags

\* Nothing is freed under the pump or the mute poller, whichever waits were
\* given up and however often close() was tried (capture.h, join.h).
NotFreedUnderThread ==
    pc[Owner] = "freed" => th \in {"none", "gone"} /\ mute \notin {"on", "asked"}

\* Once a stop has seen the pump out, nothing is written to the ring until
\* the next start, even if the stop was told of another run's end.
StoppedIsQuiet == quiet => th \notin Pumping

\* done_ev answers the job of the thread that holds the lock, never one
\* whose caller has gone (the events are shared by every caller).
AnswersHolder == doneEv => lock # None /\ answered = lock

\* A job is posted to a pump only if the pump has been or is being told to
\* stop: "a job that has been accepted always completes".
NobodyWaitsOnThePump ==
    jobEv /\ th \in Pumping => stopEv \/ \E p \in Posters : pc[p] = "signal"

\* Every operation returns, unless WASAPI holds the pump for ever.
CallsReturn ==
    \A p \in Posters : (pc[p] \notin Resting) ~> (pc[p] \in Resting \/ th \in Wedged)

\* capture.h: "Retrying apr_capture_destroy on that pointer later is how the
\* leak is recovered": a close that saw the pump out does not report it stuck.
RetryRecovers == [][pc[Owner] = "judge" /\ quiet => ~late']_vars
=============================================================================
