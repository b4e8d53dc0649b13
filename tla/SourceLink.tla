----------------------------- MODULE SourceLink -----------------------------
(***************************************************************************)
(* One source while a recording runs, and the three parties that touch it: *)
(*                                                                         *)
(*   - the reconnect worker (core/reconnect.c), which notices that the     *)
(*     target is gone, retires the capture, holds the timeline with        *)
(*     silence, searches, and attaches a replacement;                      *)
(*   - the recording loop (core/runner.c, poll_sources), which asks the    *)
(*     capture for its status and says what happened to the user;          *)
(*   - the captures, each a thread that writes the source's ring.          *)
(*                                                                         *)
(* The pointer AprSource.cap is handed between worker and loop through the *)
(* cap_users gate of core/source.c; its steps are separate actions here.   *)
(* The target is an application whose incarnations have pids of their own. *)
(* An "exclude" source records the whole machine minus that application.   *)
(***************************************************************************)
EXTENDS Integers, FiniteSets

CONSTANTS
    Captures,       \* capture objects; an id is used again once it is freed
    NoCap,          \* the NULL capture
    ExcludeKinds,   \* subset of BOOLEAN: which kinds of source to start from
    StartFaults,    \* TRUE: a capture's start() may fail
    MaxPid,         \* bound: incarnations of the target
    MaxFaults,      \* bound: failed or abandoned operations, refused searches
    First,          \* APR_RECONNECT_FIRST_MS
    Ceiling,        \* APR_RECONNECT_MAX_MS
    HeldCeiling     \* APR_RECONNECT_MAX_HELD_MS

ASSUME LinkAssumption ==
    /\ NoCap \notin Captures
    /\ ExcludeKinds \subseteq BOOLEAN
    /\ StartFaults \in BOOLEAN
    /\ MaxPid \in Nat \ {0} /\ MaxFaults \in Nat
    /\ First \in Nat \ {0}
    /\ Ceiling \in Nat /\ HeldCeiling \in Nat
    /\ First <= HeldCeiling /\ First <= Ceiling

VARIABLES
    exclude,    \* the source's kind: records everything but the target
    pid,        \* the running incarnation of the target, 0 when it is gone
    born,       \* incarnations there have been
    obj,        \* obj[c]: what has become of capture c
    capPid,     \* capPid[c]: the pid c was opened on
    alive,      \* alive[c]: what c's status() answers
    cap,        \* AprSource.cap
    users,      \* AprSource.cap_users
    started,    \* AprSource.started
    stAlive,    \* AprSource.st.alive
    link,       \* Slot.state
    lastPid,    \* Slot.last_pid
    backoff,    \* Slot.backoff_ms
    wait,       \* time until Slot.next_due
    wpc,        \* the worker: where it is in apr_reconnect_step
    wptr,       \* ... the capture it has in hand
    wfor,       \* ... what a detach in progress is for
    found,      \* ... the pid the resolver answered
    lpc,        \* the loop: where it is in poll_sources
    lptr,       \* ... the capture pointer it has read
    lalive,     \* ... the liveness it has sampled
    dead,       \* SourceSlot.reported_dead
    held,       \* SourceSlot.reported_held
    said,       \* history: the last notice the observer was given
    phase,      \* the recording: run, stopping, joined, stopped, over
    faults      \* faults so far

target == <<exclude, pid, born>>
caps   == <<obj, capPid, alive>>
source == <<cap, users, started, stAlive>>
slot   == <<link, lastPid, backoff, wait>>
worker == <<wpc, wptr, wfor, found>>
loop   == <<lpc, lptr, lalive, dead, held, said>>
vars   == <<target, caps, source, slot, worker, loop, phase, faults>>

\* "pumping": its thread writes the ring.  "stuck": a wait for its thread was
\* given up, so it is leaked and its thread may still write.  "half": its open
\* failed and its thread would not leave.  "muted": its thread has left, and only
\* the wait for its mute poller was given up.
Objs     == {"none", "open", "pumping", "stuck", "half", "muted"}

\* pump_stuck of wasapi_common.c is set and never cleared: close() answers
\* ABANDONED for ever.  A mute poller that was late may be joined by a retry.
Unretirable == {"stuck", "half"}
Links    == {"LIVE", "SEARCHING", "HELD", "REFUSED"}
WorkerPC == {"rest", "pad", "search", "take", "spin", "destroy", "down", "create",
             "publish", "revive", "start", "won", "lost"}
LoopPC   == {"idle", "gated", "status", "sample", "report"}
Phases   == {"run", "stopping", "joined", "stopped", "over"}

Init ==
    /\ exclude \in ExcludeKinds
    /\ pid = 1 /\ born = 1
    /\ \E c \in Captures :
          /\ cap = c
          /\ obj = [d \in Captures |-> IF d = c THEN "pumping" ELSE "none"]
          /\ capPid = [d \in Captures |-> IF d = c THEN 1 ELSE 0]
    /\ alive = [d \in Captures |-> TRUE]
    /\ users = 0 /\ started = TRUE /\ stAlive = TRUE
    /\ link = "LIVE" /\ lastPid = 1 /\ backoff = 0 /\ wait = 0
    /\ wpc = "rest" /\ wptr = NoCap /\ wfor = "down" /\ found = 0
    /\ lpc = "idle" /\ lptr = NoCap /\ lalive = TRUE
    /\ dead = FALSE /\ held = FALSE /\ said = "none"
    /\ phase = "run" /\ faults = 0

Fault == faults < MaxFaults /\ faults' = faults + 1

-----------------------------------------------------------------------------
(* The world.                                                              *)

TargetExits ==
    /\ pid # 0 /\ pid' = 0
    /\ UNCHANGED <<exclude, born, caps, source, slot, worker, loop, phase, faults>>

TargetReturns ==
    /\ pid = 0 /\ born < MaxPid
    /\ pid' = born + 1 /\ born' = born + 1
    /\ UNCHANGED <<exclude, caps, source, slot, worker, loop, phase, faults>>

\* proc_tick: a pumping tap notices that its process is gone, and goes on
\* pumping silence.  An excluding tap holds no process handle and never does.
NoticeDeath(c) ==
    /\ ~exclude /\ obj[c] \in {"pumping", "stuck"}
    /\ alive[c] /\ capPid[c] # pid
    /\ alive' = [alive EXCEPT ![c] = FALSE]
    /\ UNCHANGED <<target, obj, capPid, source, slot, worker, loop, phase, faults>>

Tick ==
    /\ wait > 0 /\ wait' = wait - 1
    /\ UNCHANGED <<target, caps, source, link, lastPid, backoff, worker, loop, phase, faults>>

-----------------------------------------------------------------------------
(* The worker: apr_reconnect_step.                                         *)

\* Mutant of Down: an exclusion is judged like any other capture.
Down_mutant == ~(cap # NoCap /\ alive[cap])

\* exclusion_is_stale for an exclude source, !target_is_alive for the others.
Down == IF exclude THEN lastPid # 0 /\ lastPid # pid
                   ELSE ~(cap # NoCap /\ alive[cap])

DownLink == IF exclude THEN "HELD" ELSE "SEARCHING"

WorkerGoes(from, to) == wpc = from /\ wpc' = to

\* Mutant of FindDown: the slot goes down with its capture left running.
FindDown_mutant ==
    /\ phase = "run" /\ link = "LIVE" /\ Down
    /\ WorkerGoes("rest", "down")
    /\ wfor' = "down"
    /\ UNCHANGED <<target, caps, source, slot, wptr, found, loop, phase, faults>>

FindDown ==
    /\ phase = "run" /\ link = "LIVE" /\ Down
    /\ WorkerGoes("rest", "take")
    /\ wfor' = "down"
    /\ UNCHANGED <<target, caps, source, slot, wptr, found, loop, phase, faults>>

\* "The capture is the producer": padding writes the ring only without one.
MayPad == cap = NoCap

\* apr_source_pad_to.
BeginPad ==
    /\ phase = "run" /\ link # "LIVE"
    /\ WorkerGoes("rest", IF MayPad THEN "pad" ELSE "search")
    /\ UNCHANGED <<target, caps, source, slot, wptr, wfor, found, loop, phase, faults>>

EndPad ==
    /\ WorkerGoes("pad", "search")
    /\ UNCHANGED <<target, caps, source, slot, wptr, wfor, found, loop, phase, faults>>

Min2(a, b) == IF a <= b THEN a ELSE b

Doubled == IF backoff = 0 THEN First ELSE 2 * backoff

\* The `backoff` label of run_search: double, up to the ceiling of the kind.
BackOff ==
    LET ms == Min2(Doubled, IF exclude THEN HeldCeiling ELSE Ceiling)
    IN  backoff' = ms /\ wait' = ms

\* Mutant of Due: a refused source is not looked for again.
Due_mutant == wait = 0 /\ link # "REFUSED"

Due == wait = 0

NotDue ==
    /\ ~Due /\ WorkerGoes("search", "rest")
    /\ UNCHANGED <<target, caps, source, slot, wptr, wfor, found, loop, phase, faults>>

SearchFails ==
    /\ Due /\ pid = 0 /\ WorkerGoes("search", "rest")
    /\ link' = DownLink /\ BackOff
    /\ UNCHANGED <<target, caps, source, lastPid, wptr, wfor, found, loop, phase, faults>>

\* Several processes match and nothing tells them apart.
SearchRefuses ==
    /\ Due /\ Fault /\ WorkerGoes("search", "rest")
    /\ link' = "REFUSED" /\ BackOff
    /\ UNCHANGED <<target, caps, source, lastPid, wptr, wfor, found, loop, phase>>

SearchFinds ==
    /\ Due /\ pid # 0 /\ WorkerGoes("search", "take")
    /\ wfor' = "reattach" /\ found' = pid
    /\ UNCHANGED <<target, caps, source, slot, wptr, loop, phase, faults>>

-----------------------------------------------------------------------------
(* apr_source_detach, called by the step and by apr_source_reattach.       *)

AfterDetach == IF wfor = "down" THEN "down" ELSE "create"

TakeNothing ==
    /\ cap = NoCap /\ WorkerGoes("take", AfterDetach)
    /\ UNCHANGED <<target, caps, source, slot, wptr, wfor, found, loop, phase, faults>>

TakeCapture ==
    /\ cap # NoCap /\ WorkerGoes("take", "spin")
    /\ wptr' = cap /\ cap' = NoCap
    /\ UNCHANGED <<target, caps, users, started, stAlive, slot, wfor, found, loop, phase, faults>>

\* Mutant of Spin: the capture is retired without waiting for the gate.
Spin_mutant ==
    /\ WorkerGoes("spin", "destroy")
    /\ UNCHANGED <<target, caps, source, slot, wptr, wfor, found, loop, phase, faults>>

\* The gate: every status() call that found the capture has returned.
Spin ==
    /\ users = 0 /\ WorkerGoes("spin", "destroy")
    /\ UNCHANGED <<target, caps, source, slot, wptr, wfor, found, loop, phase, faults>>

\* apr_capture_destroy stopped the capture and joined its threads.
Destroyed ==
    /\ WorkerGoes("destroy", AfterDetach)
    /\ obj[wptr] \notin Unretirable
    /\ obj' = [obj EXCEPT ![wptr] = "none"]
    /\ wptr' = NoCap
    /\ stAlive' = FALSE
    /\ UNCHANGED <<target, capPid, alive, cap, users, started, slot, wfor, found, loop, phase, faults>>

\* What a join that was given up leaves of capture c.  Only a tap of the target
\* itself has a mute poller.
Abandoned(c) ==
    CASE obj[c] \in Unretirable -> {obj[c]}
      [] obj[c] = "muted"       -> {"muted"}
      [] OTHER                  -> IF exclude THEN {"stuck"} ELSE {"stuck", "muted"}

\* The join was abandoned, as it is whenever it was before for the thread:
\* nothing was freed, and the source keeps it.
DestroyAbandoned ==
    /\ WorkerGoes("destroy", IF wfor = "down" THEN "rest" ELSE "lost")
    /\ IF obj[wptr] \in Unretirable THEN UNCHANGED faults ELSE Fault
    /\ \E o \in Abandoned(wptr) : obj' = [obj EXCEPT ![wptr] = o]
    /\ cap' = wptr /\ wptr' = NoCap
    /\ UNCHANGED <<target, capPid, alive, users, started, stAlive, slot, wfor, found, loop, phase>>

\* The slot of a source found down, once its capture is retired.
GoDown ==
    /\ WorkerGoes("down", "rest")
    /\ link' = DownLink /\ backoff' = First /\ wait' = First
    /\ UNCHANGED <<target, caps, source, lastPid, wptr, wfor, found, loop, phase, faults>>

-----------------------------------------------------------------------------
(* The rest of apr_source_reattach.                                        *)

Free == {c \in Captures : obj[c] = "none"}

\* Opening a tap checks that its process exists; an excluding tap does not.
Created ==
    /\ exclude \/ pid = found
    /\ WorkerGoes("create", "publish")
    /\ \E c \in Free :
          /\ wptr' = c
          /\ obj' = [obj EXCEPT ![c] = "open"]
          /\ capPid' = [capPid EXCEPT ![c] = found]
          /\ alive' = [alive EXCEPT ![c] = TRUE]
    /\ UNCHANGED <<target, source, slot, wfor, found, loop, phase, faults>>

CreateFails ==
    /\ \/ ~exclude /\ pid # found /\ UNCHANGED faults
       \/ Fault
    /\ WorkerGoes("create", "lost")
    /\ UNCHANGED <<target, caps, source, slot, wptr, wfor, found, loop, phase>>

\* The open failed and its close was abandoned: the source keeps the object, so
\* that nothing else is attached to the ring.
CreateHalfOpen ==
    /\ Fault /\ WorkerGoes("create", "lost")
    /\ \E c \in Free :
          /\ cap' = c
          /\ obj' = [obj EXCEPT ![c] = "half"]
          /\ capPid' = [capPid EXCEPT ![c] = found]
          /\ alive' = [alive EXCEPT ![c] = TRUE]
    /\ UNCHANGED <<target, users, started, stAlive, slot, wptr, wfor, found, loop, phase>>

Publish ==
    /\ WorkerGoes("publish", "revive")
    /\ cap' = wptr /\ wptr' = NoCap
    /\ UNCHANGED <<target, caps, users, started, stAlive, slot, wfor, found, loop, phase, faults>>

Revive ==
    /\ WorkerGoes("revive", IF started THEN "start" ELSE "won")
    /\ stAlive' = TRUE
    /\ started' = FALSE
    /\ UNCHANGED <<target, caps, cap, users, slot, wptr, wfor, found, loop, phase, faults>>

\* apr_source_start, with `started` cleared so that it does something.
Started ==
    /\ WorkerGoes("start", "won")
    /\ obj' = [obj EXCEPT ![cap] = "pumping"]
    /\ started' = TRUE
    /\ UNCHANGED <<target, capPid, alive, cap, users, stAlive, slot, wptr, wfor, found, loop, phase, faults>>

StartFails ==
    /\ StartFaults /\ Fault /\ WorkerGoes("start", "lost")
    /\ UNCHANGED <<target, caps, source, slot, wptr, wfor, found, loop, phase>>

Won ==
    /\ WorkerGoes("won", "rest")
    /\ lastPid' = found /\ link' = "LIVE" /\ backoff' = 0 /\ wait' = 0
    /\ UNCHANGED <<target, caps, source, wptr, wfor, found, loop, phase, faults>>

Lost ==
    /\ WorkerGoes("lost", "rest")
    /\ link' = DownLink /\ BackOff
    /\ UNCHANGED <<target, caps, source, lastPid, wptr, wfor, found, loop, phase, faults>>

-----------------------------------------------------------------------------
(* The loop: poll_sources and, inside it, apr_source_poll.                 *)

LoopGoes(from, to) == lpc = from /\ lpc' = to

Gate ==
    /\ phase = "run" /\ LoopGoes("idle", "gated")
    /\ users' = users + 1
    /\ UNCHANGED <<target, caps, cap, started, stAlive, slot, worker, lptr, lalive, dead, held, said, phase, faults>>

ReadCap ==
    /\ LoopGoes("gated", "status")
    /\ lptr' = cap
    /\ UNCHANGED <<target, caps, source, slot, worker, lalive, dead, held, said, phase, faults>>

AskStatus ==
    /\ LoopGoes("status", "sample")
    /\ stAlive' = IF lptr = NoCap THEN stAlive ELSE alive[lptr]
    /\ users' = users - 1
    /\ lptr' = NoCap
    /\ UNCHANGED <<target, caps, cap, started, slot, worker, lalive, dead, held, said, phase, faults>>

Sample ==
    /\ LoopGoes("sample", "report")
    /\ lalive' = stAlive
    /\ UNCHANGED <<target, caps, source, slot, worker, lptr, dead, held, said, phase, faults>>

\* The link is read only now, after the liveness was sampled.
SayHeld ==
    /\ ~lalive /\ ~dead /\ link = "HELD"
    /\ said' = IF held THEN said ELSE "held"
    /\ held' = TRUE /\ UNCHANGED dead

SayDied ==
    /\ ~lalive /\ ~dead /\ link # "HELD"
    /\ said' = "died" /\ dead' = TRUE /\ UNCHANGED held

\* Mutant of SayRecovered: one of the two flags is not reset.
SayRecovered_mutant ==
    /\ lalive /\ (dead \/ held)
    /\ said' = "recovered" /\ dead' = FALSE /\ UNCHANGED held

SayRecovered ==
    /\ lalive /\ (dead \/ held)
    /\ said' = "recovered" /\ dead' = FALSE /\ held' = FALSE

SayNothing ==
    /\ IF lalive THEN ~dead /\ ~held ELSE dead
    /\ UNCHANGED <<dead, held, said>>

Report ==
    /\ LoopGoes("report", "idle")
    /\ SayHeld \/ SayDied \/ SayRecovered \/ SayNothing
    /\ UNCHANGED <<target, caps, source, slot, worker, lptr, lalive, phase, faults>>

-----------------------------------------------------------------------------
(* The end of the recording: the loop leaves, apr_reconnect_stop joins the *)
(* worker, apr_graph_stop stops the source, and its owner destroys it.     *)

LeaveLoop ==
    /\ phase = "run" /\ lpc = "idle" /\ phase' = "stopping"
    /\ UNCHANGED <<target, caps, source, slot, worker, loop, faults>>

JoinWorker ==
    /\ phase = "stopping" /\ wpc = "rest" /\ phase' = "joined"
    /\ UNCHANGED <<target, caps, source, slot, worker, loop, faults>>

\* stop() waits for the pump, or gives up on it.
StopSource ==
    /\ phase = "joined" /\ phase' = "stopped"
    /\ started' = FALSE
    /\ IF started /\ cap # NoCap /\ obj[cap] = "pumping"
       THEN \/ obj' = [obj EXCEPT ![cap] = "open"] /\ UNCHANGED faults
            \/ obj' = [obj EXCEPT ![cap] = "stuck"] /\ Fault
       ELSE UNCHANGED <<obj, faults>>
    /\ UNCHANGED <<target, capPid, alive, cap, users, stAlive, slot, worker, loop>>

\* A capture that cannot be retired leaks the source with it.
DestroySource ==
    /\ phase = "stopped" /\ phase' = "over"
    /\ \/ /\ cap # NoCap => obj[cap] \notin Unretirable
          /\ obj' = [c \in Captures |-> IF c = cap THEN "none" ELSE obj[c]]
          /\ cap' = NoCap /\ UNCHANGED faults
       \/ /\ cap # NoCap
          /\ IF obj[cap] \in Unretirable THEN UNCHANGED faults ELSE Fault
          /\ \E o \in Abandoned(cap) : obj' = [obj EXCEPT ![cap] = o]
          /\ UNCHANGED cap
    /\ UNCHANGED <<target, capPid, alive, users, started, stAlive, slot, worker, loop>>

-----------------------------------------------------------------------------
World  == TargetExits \/ TargetReturns \/ Tick \/ \E c \in Captures : NoticeDeath(c)
Search == BeginPad \/ EndPad \/ NotDue \/ SearchFails \/ SearchRefuses \/ SearchFinds
Detach == TakeNothing \/ TakeCapture \/ Spin \/ Destroyed \/ DestroyAbandoned
Attach == \/ Created \/ CreateFails \/ CreateHalfOpen \/ Publish \/ Revive
          \/ Started \/ StartFails \/ Won \/ Lost
Worker == FindDown \/ GoDown \/ Search \/ Detach \/ Attach
Loop   == Gate \/ ReadCap \/ AskStatus \/ Sample \/ Report
Finish == LeaveLoop \/ JoinWorker \/ StopSource \/ DestroySource

Next == World \/ Worker \/ Loop \/ Finish

Spec == Init /\ [][Next]_vars

\* The worker and the loop are threads that are scheduled, a call that neither
\* fails nor is abandoned returns, and the user reopens the application.  That
\* the worker chooses the good outcome is not assumed: MaxFaults limits the bad.
\* Strong fairness of Spin: the loop holds the gate for one status() call of a
\* tick it otherwise sleeps through, so the spinning worker sees it empty.
FairSpec ==
    /\ Spec
    /\ WF_vars(Worker) /\ SF_vars(Spin) /\ WF_vars(Loop) /\ WF_vars(Tick) /\ WF_vars(TargetReturns)
    /\ \A c \in Captures : WF_vars(NoticeDeath(c))

-----------------------------------------------------------------------------
(* Properties.                                                             *)

TypeOK ==
    /\ exclude \in BOOLEAN /\ pid \in 0 .. MaxPid /\ born \in 1 .. MaxPid
    /\ obj \in [Captures -> Objs]
    /\ capPid \in [Captures -> 0 .. MaxPid]
    /\ alive \in [Captures -> BOOLEAN]
    /\ cap \in Captures \cup {NoCap} /\ users \in 0 .. 1
    /\ started \in BOOLEAN /\ stAlive \in BOOLEAN
    /\ link \in Links /\ lastPid \in 0 .. MaxPid
    /\ backoff \in Nat /\ wait \in Nat
    /\ backoff <= (IF exclude THEN HeldCeiling ELSE Ceiling) /\ wait <= backoff
    /\ wpc \in WorkerPC /\ wptr \in Captures \cup {NoCap}
    /\ wfor \in {"down", "reattach"} /\ found \in 0 .. MaxPid
    /\ lpc \in LoopPC /\ lptr \in Captures \cup {NoCap} /\ lalive \in BOOLEAN
    /\ dead \in BOOLEAN /\ held \in BOOLEAN
    /\ said \in {"none", "died", "held", "recovered"}
    /\ phase \in Phases /\ faults \in 0 .. MaxFaults

\* A half-open capture counts: "still writing into this ring" (source.c).
Writing(c) == obj[c] \in {"pumping", "stuck", "half"}

\* The ring has one producer (ringbuf.h): never two captures, and never a
\* capture beside the worker's padding, whatever failed or was abandoned.
SingleProducer ==
    /\ \A c, d \in Captures : Writing(c) /\ Writing(d) => c = d
    /\ wpc = "pad" => \A c \in Captures : ~Writing(c)

\* The loop asks for status only of a capture that has not been freed, though
\* the worker frees captures with no lock around the call.
NoUseAfterFree == lpc = "status" /\ lptr # NoCap => obj[lptr] # "none"

\* A source's link says LIVE only with a capture attached ("a capture is
\* attached", reconnect.h), and no capture is ever lost: each one not freed is
\* either attached or in the worker's hand.
LiveIsAttached == wpc = "rest" /\ link = "LIVE" /\ phase # "over" => cap # NoCap
NoCaptureLost == \A c \in Captures : obj[c] # "none" => c \in {cap, wptr}

\* "Torn down rather than left running" (reconnect.h): while an exclusion is
\* held, nothing records the machine.
HeldIsSilent ==
    exclude /\ link = "HELD" /\ wpc \in {"rest", "pad", "search"} =>
        \A c \in Captures : obj[c] # "pumping"

\* An excluding tap whose excluded process has exited does not stay up: it is
\* torn down, unless retiring it was abandoned or the recording ends.
StaleExclusionTornDown ==
    \A c \in Captures :
        exclude /\ obj[c] = "pumping" /\ capPid[c] # pid ~> obj[c] # "pumping" \/ phase # "run"

\* A capture whose thread was given up keeps its source for the rest of the
\* recording: nothing may be attached to that ring again.
GivenUp == \E c \in Captures : obj[c] \in Unretirable

\* Nothing ever gives up: once faults stop and the target is back to stay, the
\* source is live again and its capture pumps the running incarnation, unless a
\* capture's thread was given up, which is for good, or the start of a capture
\* failed (RecoveredIsPumping tells what becomes of it).
Recovers ==
    \/ <>(phase # "run" \/ (wpc = "rest" /\ ~started) \/ GivenUp)
    \/ <>[](pid = 0)
    \/ <>[](link = "LIVE" /\ cap # NoCap /\ obj[cap] = "pumping" /\ capPid[cap] = pid)

\* Whoever was told of a loss is told of its end: once the target is back to
\* stay, the loop's two flags are down again, though it samples the liveness and
\* the link apart from each other and from the worker's steps.  A source whose
\* capture's thread was given up does not recover, and its end is not told.
RecoveryIsTold ==
    \/ <>(phase # "run" \/ GivenUp)
    \/ <>[](pid = 0)
    \/ <>[](~dead /\ ~held)

\* "It is started if the source was started, so a recovery needs no second
\* call" (source.h): a link that is live again is one that records.
RecoveredIsPumping ==
    phase = "run" /\ wpc = "rest" /\ link = "LIVE" => Writing(cap)

\* "An exclusion that went stale is not a death" (runner.c): the user is never
\* told that an excluding source died.
ExclusionNeverDies == exclude => said # "died"
=============================================================================
