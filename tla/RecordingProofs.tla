-------------------------- MODULE RecordingProofs ---------------------------
(***************************************************************************)
(* The two halves of a recording: the loop that runs the graph, and the    *)
(* writer of an output.                                                    *)
(*                                                                         *)
(* For every set of threads and any number of runs, requests and destroys: *)
(* one loop at a time, a worker only while the files are open, no runner   *)
(* freed under its own thread, and no frame written while a pause is       *)
(* shown.  The flag in_run is the mutex: a thread is inside only while it  *)
(* is set, and only one may find it clear.  For a runner that records      *)
(* once, its files are closed before it is freed.                          *)
(*                                                                         *)
(* However long the take, however far the disk falls behind and whenever   *)
(* it fails, a player finds the take from its beginning in what a kill     *)
(* leaves, and never less of it than a kill before would have left.  What  *)
(* the writer has taken from the ring is followed as one sequence, through *)
(* the encoder to the disk: until something fails it is the take, with     *)
(* silence where frames were lost, and nothing is missing or twice there.  *)
(* A failure ends that, but not what is known to be whole.  At the end,    *)
(* the flag that is read before the ring is drained makes what was taken   *)
(* all there was.                                                          *)
(***************************************************************************)
EXTENDS Runner, FileWriter, FiniteSetTheorems, SequenceTheorems, TLAPS

\* Where a run has the files open, and where it has its worker.
WithFiles  == {"watch"} \cup Looping \cup {"drain", "retire", "close"}
WithWorker == Looping \cup {"drain", "retire"}

Types == pc \in [Threads -> PCs] /\ inRun \in BOOLEAN

Claimed == \A t \in Threads : pc[t] \in Inside => inRun

Opened ==
    /\ \A t \in Threads : pc[t] \in WithFiles => files = "open"
    /\ watching => \E t \in Threads : pc[t] \in WithWorker

Joined ==
    /\ own \in {"gate", "await", "free", "gone"} => pc[Own] \in {"out", "done"}
    /\ ~thread => pc[Own] \in {"out", "done"}

\* Once freed, the owner is gone.
Gone == freed => own = "gone"

IInv == Types /\ Claimed /\ OneLoop /\ Opened /\ Joined /\ Gone

LEMMA InitIInv == Init => IInv
  BY DEF Init, IInv, Types, Claimed, OneLoop, Opened, Joined, Gone, PCs, Inside, WithFiles,
         WithWorker, Entry, Looping, Exit, Threads

-----------------------------------------------------------------------------
(* The steps of a thread that runs.                                        *)

LEMMA EnterKeeps == ASSUME IInv, NEW t \in Threads, Enter(t) PROVE IInv'
<1> USE DEF IInv, Types, Claimed, OneLoop, Opened, Joined, Gone, PCs, Inside, WithFiles,
            WithWorker, Entry, Looping, Exit, Goes, flags, events, graph, owner
<1>1. CASE ResetFinished(t)
  BY <1>1 DEF ResetFinished
<1>2. CASE ResetLeft(t)
  BY <1>2 DEF ResetLeft
<1>3. CASE Claim(t)
  BY <1>3 DEF Claim
<1>4. CASE PublishRun(t)
  BY <1>4 DEF PublishRun
<1>5. CASE ClearPause(t)
  BY <1>5 DEF ClearPause
<1>6. CASE StartGraph(t)
  BY <1>6 DEF StartGraph
<1>7. CASE StartWatching(t)
  BY <1>7 DEF StartWatching
<1> QED
  BY <1>1, <1>2, <1>3, <1>4, <1>5, <1>6, <1>7 DEF Enter

LEMMA LoopKeeps == ASSUME IInv, NEW t \in Threads, Loop(t) PROVE IInv'
<1> USE DEF IInv, Types, Claimed, OneLoop, Opened, Joined, Gone, PCs, Inside, WithFiles,
            WithWorker, Entry, Looping, Exit, Goes, flags, events, graph, owner
<1>1. CASE Wake(t)
  BY <1>1 DEF Wake
<1>2. CASE NoPauseChange(t)
  BY <1>2 DEF NoPauseChange
<1>3. CASE ApplyPause(t)
  BY <1>3 DEF ApplyPause
<1>4. CASE MarkPause(t)
  BY <1>4 DEF MarkPause
<1>5. CASE TellPause(t)
  BY <1>5 DEF TellPause
<1>6. CASE Tick(t)
  BY <1>6 DEF Tick
<1>7. CASE GoOn(t)
  BY <1>7 DEF GoOn
<1>8. CASE Break(t)
  BY <1>8 DEF Break
<1> QED
  BY <1>1, <1>2, <1>3, <1>4, <1>5, <1>6, <1>7, <1>8 DEF Loop

LEMMA EndKeeps == ASSUME IInv, NEW t \in Threads, End(t) PROVE IInv'
<1> USE DEF IInv, Types, Claimed, OneLoop, Opened, Joined, Gone, PCs, Inside, WithFiles,
            WithWorker, Entry, Looping, Exit, Goes, flags, events, graph, owner
<1>1. CASE Drain(t)
  BY <1>1 DEF Drain
<1>2. CASE StopWatching(t)
  BY <1>2 DEF StopWatching
<1>3. CASE StopGraph(t)
  BY <1>3 DEF StopGraph
<1>4. CASE ResetPause(t)
  BY <1>4 DEF ResetPause
<1>5. CASE Unpublish(t)
  BY <1>5 DEF Unpublish
<1>6. CASE SignalFinished(t)
  BY <1>6 DEF SignalFinished
<1>7. CASE LeaveRun(t)
  <2>1. pc[t] = "leave" /\ pc' = [pc EXCEPT ![t] = "last"]
    BY <1>7 DEF LeaveRun
  <2>2. \A u \in Threads : pc[u] \in Inside => u = t
    BY <2>1
  <2>3. \A u \in Threads : pc'[u] \notin Inside
    BY <2>1, <2>2
  <2>4. Types' /\ Claimed' /\ OneLoop'
    BY <2>1, <2>3, <1>7 DEF LeaveRun
  <2>5. Opened' /\ Joined' /\ Gone'
    BY <2>1, <1>7 DEF LeaveRun
  <2> QED
    BY <2>4, <2>5
<1>8. CASE SignalLeft(t)
  BY <1>8 DEF SignalLeft
<1> QED
  BY <1>1, <1>2, <1>3, <1>4, <1>5, <1>6, <1>7, <1>8 DEF End

-----------------------------------------------------------------------------
(* The steps of the others.                                                *)

LEMMA CallKeeps == ASSUME IInv, NEW t \in Threads, Call(t) PROVE IInv'
  BY RunnerAssumption DEF IInv, Types, Claimed, OneLoop, Opened, Joined, Gone, PCs, Inside,
         WithFiles, WithWorker, Entry, Looping, Exit, Goes, Threads, Call, flags, events, graph,
         owner

LEMMA RunAsyncKeeps == ASSUME IInv, RunAsync PROVE IInv'
  BY DEF IInv, Types, Claimed, OneLoop, Opened, Joined, Gone, PCs, Inside, WithFiles,
         WithWorker, Entry, Looping, Exit, Goes, Threads, RunAsync, flags, graph

LEMMA RequestKeeps ==
    ASSUME IInv, RequestStop \/ RequestPause \/ RequestResume PROVE IInv'
  BY DEF IInv, Types, Claimed, OneLoop, Opened, Joined, Gone, RequestStop, RequestPause,
         RequestResume, events, graph, owner

LEMMA DestroyKeeps == ASSUME IInv, DestroyBegin \/ Destroy PROVE IInv'
<1> USE DEF IInv, Types, Claimed, OneLoop, Opened, Joined, Gone, flags, events, graph
<1>1. CASE DestroyBegin
  BY <1>1 DEF DestroyBegin
<1>2. CASE JoinThread
  BY <1>2 DEF JoinThread
<1>3. CASE TestInRun
  BY <1>3 DEF TestInRun
<1>4. CASE AwaitLeft
  BY <1>4 DEF AwaitLeft
<1>5. CASE GiveUp
  BY <1>5 DEF GiveUp
<1>6. CASE Free
  BY <1>6 DEF Free
<1> QED
  BY <1>1, <1>2, <1>3, <1>4, <1>5, <1>6 DEF Destroy

THEOREM RunnerInvariant == Spec => []IInv
<1>1. Init => IInv
  BY InitIInv
<1>2. IInv /\ [Next]_vars => IInv'
  <2> SUFFICES ASSUME IInv, [Next]_vars PROVE IInv'
    OBVIOUS
  <2>1. ASSUME NEW t \in Threads, Call(t) \/ Run(t) PROVE IInv'
    BY <2>1, CallKeeps, EnterKeeps, LoopKeeps, EndKeeps DEF Run
  <2>2. CASE RunAsync
    BY <2>2, RunAsyncKeeps
  <2>3. CASE RequestStop \/ RequestPause \/ RequestResume
    BY <2>3, RequestKeeps
  <2>4. CASE DestroyBegin \/ Destroy
    BY <2>4, DestroyKeeps
  <2>5. CASE UNCHANGED vars
    BY <2>5 DEF vars, IInv, Types, Claimed, OneLoop, Opened, Joined, Gone, flags, graph, owner
  <2> QED
    BY <2>1, <2>2, <2>3, <2>4, <2>5 DEF Next
<1> QED
  BY <1>1, <1>2, PTL DEF Spec

-----------------------------------------------------------------------------
(* What follows from it.                                                   *)

\* Two loops never run on one graph, however many threads call run()
\* (runner.c: in_run is what claims the run).
THEOREM OneLoopAtATime == Spec => []OneLoop
<1>1. IInv => OneLoop
  BY DEF IInv
<1> QED
  BY <1>1, RunnerInvariant, PTL

\* The reconnect worker lives between graph_start and graph_stop, so no source
\* is started or stopped while a search is in flight (runner.c).
THEOREM WorkerInsideTheGraph == Spec => []WatchedOnlyWhileOpen
<1>1. IInv => WatchedOnlyWhileOpen
  BY DEF IInv, Opened, WatchedOnlyWhileOpen, WithFiles, WithWorker
<1> QED
  BY <1>1, RunnerInvariant, PTL

\* A runner is not freed under the thread that run_async made (runner.c,
\* apr_runner_destroy), whatever synchronous runs do beside it.
THEOREM OwnThreadIsOut == Spec => []JoinedBeforeFree
<1>1. IInv => JoinedBeforeFree
  BY DEF IInv, Joined, Gone, JoinedBeforeFree
<1> QED
  BY <1>1, RunnerInvariant, PTL

-----------------------------------------------------------------------------
(* Pauses.                                                                 *)

\* Where the graph may be paused, and where flag and sentence follow it.
MayPause == Looping \cup {"drain", "retire", "close"}
Settled  == {"wait", "apply", "tick", "check", "drain"}

PauseTypes == wanted \in BOOLEAN /\ paused \in BOOLEAN /\ gpaused \in BOOLEAN

PauseInv ==
    /\ gpaused => \E t \in Threads : pc[t] \in MayPause
    /\ \A t \in Threads :
          /\ pc[t] \in {"start", "watch"} => ~paused
          /\ pc[t] = "tell" => paused = gpaused
          /\ pc[t] \in Settled => paused = gpaused /\ (heard = "paused" => paused)

\* Whoever is in a run is alone there, also after a step of his own.
LEMMA Alone ==
    ASSUME IInv, NEW t \in Threads, pc[t] \in Inside, NEW to, pc' = [pc EXCEPT ![t] = to]
    PROVE  /\ pc'[t] = to
           /\ \A u \in Threads \ {t} : pc'[u] = pc[u] /\ pc[u] \notin Inside
  BY DEF IInv, Types, OneLoop

\* Steps that change none of the flags of a pause, nor where a run is.
LEMMA PauseKept ==
    ASSUME PauseInv, UNCHANGED <<gpaused, paused, heard>>,
           \A t \in Threads : pc'[t] # pc[t] =>
               {pc[t], pc'[t]} \cap (MayPause \cup {"start", "watch"}) = {}
    PROVE  PauseInv'
  BY DEF PauseInv, MayPause, Settled, Looping

LEMMA RequestsKeepPause ==
    ASSUME PauseInv, PauseTypes,
           RunAsync \/ RequestStop \/ RequestPause \/ RequestResume \/ DestroyBegin \/ Destroy
             \/ (\E t \in Threads : Call(t)) \/ UNCHANGED vars,
           IInv
    PROVE  PauseInv' /\ PauseTypes'
<1>1. UNCHANGED <<gpaused, paused, heard>> /\ wanted' \in BOOLEAN
  BY DEF PauseTypes, RunAsync, RequestStop, RequestPause, RequestResume, DestroyBegin, Destroy,
         JoinThread, TestInRun, AwaitLeft, GiveUp, Free, Call, vars, flags, graph, history
<1>2. \/ UNCHANGED pc
      \/ \E t \in Threads : pc[t] = "out" /\ pc' = [pc EXCEPT ![t] = "call"]
  BY DEF RunAsync, RequestStop, RequestPause, RequestResume, DestroyBegin, Destroy, JoinThread,
         TestInRun, AwaitLeft, GiveUp, Free, Call, Goes, vars, Threads
<1>3. \A t \in Threads : pc'[t] # pc[t] =>
          {pc[t], pc'[t]} \cap (MayPause \cup {"start", "watch"}) = {}
  BY <1>2 DEF IInv, Types, MayPause, Looping
<1> QED
  BY <1>1, <1>3, PauseKept DEF PauseTypes

LEMMA EnterKeepsPause ==
    ASSUME IInv, PauseInv, PauseTypes, NEW t \in Threads, Enter(t)
    PROVE  PauseInv' /\ PauseTypes'
<1>1. CASE ResetFinished(t) \/ ResetLeft(t) \/ Claim(t) \/ PublishRun(t)
  <2>1. UNCHANGED <<gpaused, paused, wanted, heard>>
    BY <1>1 DEF ResetFinished, ResetLeft, Claim, PublishRun, flags, graph, history
  <2>2. \A u \in Threads : pc'[u] # pc[u] =>
            {pc[u], pc'[u]} \cap (MayPause \cup {"start", "watch"}) = {}
    BY <1>1 DEF ResetFinished, ResetLeft, Claim, PublishRun, Goes, IInv, Types, MayPause, Looping
  <2> QED
    BY <2>1, <2>2, PauseKept DEF PauseTypes
<1>2. CASE ClearPause(t)
  <2>1. /\ pc[t] = "clear" /\ pc' = [pc EXCEPT ![t] = "start"]
        /\ wanted' = FALSE /\ paused' = FALSE /\ UNCHANGED gpaused
    BY <1>2 DEF ClearPause, Goes, graph
  <2>2. pc'[t] = "start" /\ \A u \in Threads \ {t} : pc'[u] = pc[u] /\ pc[u] \notin Inside
    BY <2>1, Alone DEF Inside
  <2> QED
    BY <2>1, <2>2 DEF PauseInv, PauseTypes, MayPause, Settled, Looping, Inside, Exit
<1>3. CASE StartGraph(t)
  <2>1. /\ pc[t] = "start" /\ pc' = [pc EXCEPT ![t] = "watch"]
        /\ UNCHANGED <<wanted, paused, gpaused>>
    BY <1>3 DEF StartGraph, Goes, flags
  <2>2. pc'[t] = "watch" /\ \A u \in Threads \ {t} : pc'[u] = pc[u] /\ pc[u] \notin Inside
    BY <2>1, Alone DEF Inside
  <2> QED
    BY <2>1, <2>2 DEF PauseInv, PauseTypes, MayPause, Settled, Looping, Inside, Exit
<1>4. CASE StartWatching(t)
  <2>1. /\ pc[t] = "watch" /\ pc' = [pc EXCEPT ![t] = "wait"] /\ heard' = "started"
        /\ UNCHANGED <<wanted, paused, gpaused>>
    BY <1>4 DEF StartWatching, Goes, flags
  <2>2. pc'[t] = "wait" /\ \A u \in Threads \ {t} : pc'[u] = pc[u] /\ pc[u] \notin Inside
    BY <2>1, Alone DEF Inside
  <2> QED
    BY <2>1, <2>2 DEF PauseInv, PauseTypes, MayPause, Settled, Looping, Inside, Exit
<1> QED
  BY <1>1, <1>2, <1>3, <1>4 DEF Enter

LEMMA LoopKeepsPause ==
    ASSUME IInv, PauseInv, PauseTypes, NEW t \in Threads, Loop(t)
    PROVE  PauseInv' /\ PauseTypes'
<1>1. PICK to \in Looping \cup {"drain"} :
          pc[t] \in Looping /\ pc' = [pc EXCEPT ![t] = to]
  BY DEF Loop, Wake, NoPauseChange, ApplyPause, MarkPause, TellPause, Tick, GoOn, Break, Goes,
         Looping
<1>2. pc'[t] = to /\ \A u \in Threads \ {t} : pc'[u] = pc[u] /\ pc[u] \notin Inside
  BY <1>1, Alone DEF Inside
<1>3. pc'[t] \in MayPause /\ wanted' = wanted
  BY <1>1, <1>2 DEF MayPause, Loop, Wake, NoPauseChange, ApplyPause, MarkPause, TellPause, Tick,
                    GoOn, Break, flags
<1> USE <1>2, <1>3 DEF PauseInv, PauseTypes, Settled, MayPause, Looping, Inside, Exit, Goes
<1>4. CASE ApplyPause(t)
  <2>1. to = "mark" /\ gpaused' = wanted /\ paused' = paused
    BY <1>4 DEF ApplyPause, flags, IInv, Types
  <2> QED
    BY <2>1
<1>5. CASE MarkPause(t)
  <2>1. to = "tell" /\ paused' = gpaused /\ gpaused' = gpaused
    BY <1>5 DEF MarkPause, graph, IInv, Types
  <2> QED
    BY <2>1
<1>6. CASE TellPause(t)
  <2>1. /\ pc[t] = "tell" /\ to = "tick" /\ paused' = paused /\ gpaused' = gpaused
        /\ heard' = IF paused THEN "paused" ELSE "resumed"
    BY <1>6 DEF TellPause, graph, flags, IInv, Types
  <2> QED
    BY <2>1
<1>7. CASE Wake(t) \/ NoPauseChange(t) \/ Tick(t) \/ GoOn(t) \/ Break(t)
  <2>1. pc[t] \in Settled /\ to \in Settled /\ UNCHANGED <<paused, gpaused, heard>>
    BY <1>7 DEF Wake, NoPauseChange, Tick, GoOn, Break, graph, flags, history, IInv, Types
  <2> QED
    BY <2>1
<1> QED
  BY <1>4, <1>5, <1>6, <1>7 DEF Loop

LEMMA EndKeepsPause ==
    ASSUME IInv, PauseInv, PauseTypes, NEW t \in Threads, End(t)
    PROVE  PauseInv' /\ PauseTypes'
<1>1. CASE Drain(t) \/ StopWatching(t)
  <2>1. /\ pc[t] \in {"drain", "retire"} /\ UNCHANGED <<wanted, paused, gpaused>>
        /\ \E to \in {"retire", "close"} : pc' = [pc EXCEPT ![t] = to]
    BY <1>1 DEF Drain, StopWatching, Goes, flags
  <2>2. /\ pc'[t] \in {"retire", "close"}
        /\ \A u \in Threads \ {t} : pc'[u] = pc[u] /\ pc[u] \notin Inside
    BY <2>1, Alone DEF Inside, Exit
  <2> QED
    BY <2>1, <2>2 DEF PauseInv, PauseTypes, MayPause, Settled, Looping, Inside, Exit
<1>2. CASE StopGraph(t) \/ ResetPause(t) \/ Unpublish(t) \/ SignalFinished(t) \/ LeaveRun(t)
  <2>1. /\ pc[t] \in {"close", "reset", "unrun", "signal", "leave"}
        /\ \E to \in {"reset", "unrun", "signal", "leave", "last"} : pc' = [pc EXCEPT ![t] = to]
    BY <1>2 DEF StopGraph, ResetPause, Unpublish, SignalFinished, LeaveRun, Goes
  <2>3. PauseTypes' /\ ((gpaused' = gpaused /\ pc[t] # "close") \/ gpaused' = FALSE)
    <3>1. CASE StopGraph(t)
      BY <3>1 DEF StopGraph, flags, PauseTypes
    <3>2. CASE ResetPause(t)
      BY <3>2 DEF ResetPause, graph, Goes, PauseTypes
    <3>3. CASE Unpublish(t) \/ SignalFinished(t) \/ LeaveRun(t)
      BY <3>3 DEF Unpublish, SignalFinished, LeaveRun, flags, graph, Goes, PauseTypes
    <3> QED
      BY <1>2, <3>1, <3>2, <3>3
  <2>2. /\ pc'[t] \in {"reset", "unrun", "signal", "leave", "last"}
        /\ \A u \in Threads \ {t} : pc'[u] = pc[u] /\ pc[u] \notin Inside
    BY <2>1, Alone DEF Inside, Exit
  <2> QED
    BY <2>1, <2>2, <2>3 DEF PauseInv, MayPause, Settled, Looping, Inside, Exit
<1>3. CASE SignalLeft(t)
  <2>1. UNCHANGED <<gpaused, paused, wanted, heard>>
    BY <1>3 DEF SignalLeft, flags, graph, history
  <2>2. \A u \in Threads : pc'[u] # pc[u] =>
            {pc[u], pc'[u]} \cap (MayPause \cup {"start", "watch"}) = {}
    BY <1>3 DEF SignalLeft, Goes, IInv, Types, MayPause, Looping
  <2> QED
    BY <2>1, <2>2, PauseKept DEF PauseTypes
<1> QED
  BY <1>1, <1>2, <1>3 DEF End

\* From the flag or the sentence on, whatever is asked for meanwhile, no frame is written
\* before the graph, the flag and the sentence have gone back (apply_pause, run_loop).
THEOREM NoFrameInAPause == Spec => NoFrameWhilePaused
<1>1. Init => PauseInv /\ PauseTypes
  BY DEF Init, PauseInv, PauseTypes, Settled
<1>2. ASSUME IInv, PauseInv, PauseTypes, [Next]_vars PROVE PauseInv' /\ PauseTypes'
  BY <1>2, RequestsKeepPause, EnterKeepsPause, LoopKeepsPause, EndKeepsPause DEF Next, Run
<1>3. ASSUME IInv, PauseInv, Next, paused \/ heard = "paused", beat' # beat PROVE FALSE
  <2>1. PICK t \in Threads : Tick(t) \/ (Drain(t) /\ ~paused)
    BY <1>3 DEF Next, RunAsync, Call, Run, Enter, ResetFinished, ResetLeft, Claim, PublishRun,
                ClearPause, StartGraph, StartWatching, Loop, Wake, NoPauseChange, ApplyPause,
                MarkPause, TellPause, GoOn, Break, End, Drain, StopWatching, StopGraph,
                ResetPause, Unpublish, SignalFinished, LeaveRun, SignalLeft, RequestStop,
                RequestPause, RequestResume, DestroyBegin, Destroy, JoinThread, TestInRun,
                AwaitLeft, GiveUp, Free, graph
  <2>2. pc[t] \in Settled /\ ~gpaused
    BY <1>3, <2>1 DEF Tick, Drain, Goes, Render, Renders, Settled
  <2> QED
    BY <1>3, <2>2 DEF PauseInv
<1>4. IInv /\ PauseInv /\ [Next]_vars => [paused \/ heard = "paused" => beat' = beat]_vars
  BY <1>3
<1> QED
  BY <1>1, <1>2, <1>4, RunnerInvariant, PTL DEF Spec, NoFrameWhilePaused
-----------------------------------------------------------------------------
(* A runner that records once.  With a second run its loop_left may still  *)
(* be set by the first; with one, as cli.c and controller.c use it, the    *)
(* event says what destroy() takes it to say.                              *)

Solo ==
    /\ runs \in 0 .. MaxRuns
    /\ \A t \in Threads : pc[t] # "out" => runs = 1
    /\ \A t, u \in Threads : pc[t] # "out" /\ pc[u] # "out" => t = u

\* The event is clear from before the claim until the run is over.
LeftTells == \A t \in Threads : pc[t] \in Inside \cup {"claim", "last"} => ~left

\* Files that are open are some run's.
OpenedBy == files = "open" => \E t \in Threads : pc[t] \in WithFiles

\* An owner that stops waiting has nobody to wait for.
OwnerWaits ==
    /\ own # "idle" => Seen
    /\ own \in {"free", "gone"} => \A t \in Threads : pc[t] \notin Inside

SoloInv == Solo /\ LeftTells /\ OpenedBy /\ OwnerWaits

LEMMA EnterKeepsSolo ==
    ASSUME IInv, SoloInv, NEW t \in Threads, Enter(t) PROVE SoloInv'
<1> USE DEF IInv, Types, Claimed, Joined, SoloInv, Solo, LeftTells, OpenedBy, OwnerWaits, Seen,
            Inside, WithFiles, Entry, Looping, Exit, Goes, Threads, flags, events, graph, owner,
            bounds
<1>1. CASE ResetFinished(t)
  BY <1>1 DEF ResetFinished
<1>2. CASE ResetLeft(t)
  BY <1>2 DEF ResetLeft
<1>3. CASE Claim(t)
  BY <1>3 DEF Claim
<1>4. CASE PublishRun(t)
  BY <1>4 DEF PublishRun
<1>5. CASE ClearPause(t)
  BY <1>5 DEF ClearPause
<1>6. CASE StartGraph(t)
  BY <1>6 DEF StartGraph
<1>7. CASE StartWatching(t)
  BY <1>7 DEF StartWatching
<1> QED
  BY <1>1, <1>2, <1>3, <1>4, <1>5, <1>6, <1>7 DEF Enter

LEMMA LoopKeepsSolo ==
    ASSUME IInv, SoloInv, NEW t \in Threads, Loop(t) PROVE SoloInv'
<1> USE DEF IInv, Types, Claimed, Joined, SoloInv, Solo, LeftTells, OpenedBy, OwnerWaits, Seen,
            Inside, WithFiles, Entry, Looping, Exit, Goes, Threads, flags, events, graph, owner,
            bounds
<1>1. CASE Wake(t)
  BY <1>1 DEF Wake
<1>2. CASE NoPauseChange(t)
  BY <1>2 DEF NoPauseChange
<1>3. CASE ApplyPause(t)
  BY <1>3 DEF ApplyPause
<1>4. CASE MarkPause(t)
  BY <1>4 DEF MarkPause
<1>5. CASE TellPause(t)
  BY <1>5 DEF TellPause
<1>6. CASE Tick(t)
  BY <1>6 DEF Tick
<1>7. CASE GoOn(t)
  BY <1>7 DEF GoOn
<1>8. CASE Break(t)
  BY <1>8 DEF Break
<1> QED
  BY <1>1, <1>2, <1>3, <1>4, <1>5, <1>6, <1>7, <1>8 DEF Loop

LEMMA EndKeepsSolo ==
    ASSUME IInv, SoloInv, NEW t \in Threads, End(t) PROVE SoloInv'
<1> USE DEF IInv, Types, Claimed, Joined, SoloInv, Solo, LeftTells, OpenedBy, OwnerWaits, Seen,
            Inside, WithFiles, Entry, Looping, Exit, Goes, Threads, flags, events, graph, owner,
            bounds
<1>1. CASE Drain(t)
  BY <1>1 DEF Drain
<1>2. CASE StopWatching(t)
  BY <1>2 DEF StopWatching
<1>3. CASE StopGraph(t)
  BY <1>3 DEF StopGraph
<1>4. CASE ResetPause(t)
  BY <1>4 DEF ResetPause
<1>5. CASE Unpublish(t)
  BY <1>5 DEF Unpublish
<1>6. CASE SignalFinished(t)
  BY <1>6 DEF SignalFinished
<1>7. CASE LeaveRun(t)
  BY <1>7 DEF LeaveRun
<1>8. CASE SignalLeft(t)
  BY <1>8 DEF SignalLeft
<1> QED
  BY <1>1, <1>2, <1>3, <1>4, <1>5, <1>6, <1>7, <1>8 DEF End

LEMMA OthersKeepSolo ==
    ASSUME MaxRuns = 1, IInv, SoloInv,
           RunAsync \/ RequestStop \/ RequestPause \/ RequestResume \/ DestroyBegin \/ Destroy
             \/ (\E t \in Threads : Call(t)) \/ UNCHANGED vars
    PROVE  SoloInv'
<1> USE RunnerAssumption DEF IInv, Types, Claimed, Joined, SoloInv, Solo, LeftTells, OpenedBy,
            OwnerWaits, Seen, Inside, WithFiles, Entry, Looping, Exit, Goes, Threads, flags,
            events, graph, owner, bounds
<1>1. CASE RunAsync
  BY <1>1 DEF RunAsync
<1>2. CASE RequestStop \/ RequestPause \/ RequestResume
  BY <1>2 DEF RequestStop, RequestPause, RequestResume
<1>3. CASE DestroyBegin
  BY <1>3 DEF DestroyBegin
<1>4. CASE JoinThread
  BY <1>4 DEF JoinThread
<1>5. CASE TestInRun
  BY <1>5 DEF TestInRun
<1>6. CASE AwaitLeft
  BY <1>6 DEF AwaitLeft
<1>7. CASE GiveUp
  BY <1>7 DEF GiveUp
<1>8. CASE Free
  BY <1>8 DEF Free
<1>9. ASSUME NEW t \in Threads, Call(t) PROVE SoloInv'
  BY <1>9 DEF Call
<1>10. CASE UNCHANGED vars
  BY <1>10 DEF vars
<1> QED
  BY <1>1, <1>2, <1>3, <1>4, <1>5, <1>6, <1>7, <1>8, <1>9, <1>10 DEF Destroy

\* "Never abandon a running recording" (runner.c): a runner that records once is never
\* freed with its files open, whichever thread runs it and however often its owner gives
\* up waiting and comes back.
THEOREM FilesFinalizedBeforeFree == ASSUME MaxRuns = 1 PROVE Spec => []NeverFreedOpen
<1>1. Init => SoloInv
  BY RunnerAssumption DEF Init, SoloInv, Solo, LeftTells, OpenedBy, OwnerWaits, Inside,
         Looping, Exit
<1>2. IInv /\ SoloInv /\ [Next]_vars => SoloInv'
  BY EnterKeepsSolo, LoopKeepsSolo, EndKeepsSolo, OthersKeepSolo DEF Next, Run
<1>3. IInv /\ SoloInv => NeverFreedOpen
  BY DEF IInv, Gone, SoloInv, OpenedBy, OwnerWaits, NeverFreedOpen, WithFiles, Inside, Exit
<1> QED
  BY <1>1, <1>2, <1>3, RunnerInvariant, PTL DEF Spec
-----------------------------------------------------------------------------
(* The writer.  First, sequences.                                          *)

LEMMA SilenceIs ==
    ASSUME NEW n \in Nat
    PROVE  /\ Silence(n) \in Seq(Int) /\ Len(Silence(n)) = n
           /\ \A i \in 1 .. n : Silence(n)[i] = Silent
  BY DEF Silence, Silent

LEMMA FromIs ==
    ASSUME NEW f \in Int, NEW n \in Nat
    PROVE  /\ From(f, n) \in Seq(Int) /\ Len(From(f, n)) = n
           /\ \A i \in 1 .. n : From(f, n)[i] = f + i - 1
  BY DEF From

LEMMA CutIs ==
    ASSUME NEW s \in Seq(Int), NEW n \in 0 .. Len(s)
    PROVE  /\ First(s, n) \in Seq(Int) /\ Len(First(s, n)) = n
           /\ \A i \in 1 .. n : First(s, n)[i] = s[i]
           /\ Rest(s, n) \in Seq(Int) /\ Len(Rest(s, n)) = Len(s) - n
           /\ \A i \in 1 .. Len(s) - n : Rest(s, n)[i] = s[n + i]
  BY DEF First, Rest

LEMMA JoinIs ==
    ASSUME NEW s \in Seq(Int), NEW t \in Seq(Int)
    PROVE  /\ s \o t \in Seq(Int) /\ Len(s \o t) = Len(s) + Len(t)
           /\ \A i \in 1 .. Len(s) : (s \o t)[i] = s[i]
           /\ \A i \in 1 .. Len(t) : (s \o t)[Len(s) + i] = t[i]
  BY DEF First, Rest

\* What s and t are put together.
LEMMA Together ==
    ASSUME NEW s \in Seq(Int), NEW t \in Seq(Int), NEW w \in Seq(Int),
           Len(w) = Len(s) + Len(t), \A i \in 1 .. Len(s) : w[i] = s[i],
           \A i \in 1 .. Len(t) : w[Len(s) + i] = t[i]
    PROVE  s \o t = w
<1>1. s \o t \in Seq(Int) /\ Len(s \o t) = Len(w)
  BY JoinIs
<1>2. ASSUME NEW i \in 1 .. Len(w) PROVE (s \o t)[i] = w[i]
  <2>1. CASE i <= Len(s)
    BY <2>1, JoinIs
  <2>2. CASE i > Len(s)
    <3>1. i - Len(s) \in 1 .. Len(t) /\ i = Len(s) + (i - Len(s))
      BY <2>2
    <3>2. (s \o t)[Len(s) + (i - Len(s))] = t[i - Len(s)]
      BY <3>1, JoinIs
    <3>3. w[Len(s) + (i - Len(s))] = t[i - Len(s)]
      BY <3>1
    <3> QED
      BY <3>1, <3>2, <3>3
  <2> QED
    BY <2>1, <2>2
<1> QED
  BY <1>1, <1>2, SeqEqual

LEMMA CutInTwo ==
    ASSUME NEW s \in Seq(Int), NEW n \in 0 .. Len(s)
    PROVE  First(s, n) \o Rest(s, n) = s
<1> DEFINE f == First(s, n)
           r == Rest(s, n)
<1>1. /\ f \in Seq(Int) /\ Len(f) = n
      /\ \A i \in 1 .. n : f[i] = s[i]
      /\ r \in Seq(Int) /\ Len(r) = Len(s) - n
      /\ \A i \in 1 .. Len(s) - n : r[i] = s[n + i]
  BY CutIs
<1> HIDE DEF f, r
<1>2. /\ Len(s) = Len(f) + Len(r)
      /\ \A i \in 1 .. Len(f) : s[i] = f[i]
      /\ \A i \in 1 .. Len(r) : s[Len(f) + i] = r[i]
  BY <1>1
<1>3. f \o r = s
  BY <1>1, <1>2, Together
<1> QED
  BY <1>3 DEF f, r

\* What Store does: the file grows to the first k of what follows it.
LEMMA Split ==
    ASSUME NEW d \in Seq(Int), NEW w \in Seq(Int), NEW k \in Len(d) .. Len(w),
           \A i \in 1 .. Len(d) : w[i] = d[i]
    PROVE  d \o SubSeq(w, Len(d) + 1, k) = First(w, k)
<1> DEFINE m == SubSeq(w, Len(d) + 1, k)
           f == First(w, k)
<1>1. m \in Seq(Int) /\ Len(m) = k - Len(d) /\ \A i \in 1 .. k - Len(d) : m[i] = w[Len(d) + i]
  OBVIOUS
<1>2. f \in Seq(Int) /\ Len(f) = k /\ \A i \in 1 .. k : f[i] = w[i]
  <2>1. k \in 0 .. Len(w)
    OBVIOUS
  <2> QED
    BY <2>1, CutIs
<1> HIDE DEF m, f
<1>3. /\ Len(f) = Len(d) + Len(m)
      /\ \A i \in 1 .. Len(d) : f[i] = d[i]
      /\ \A i \in 1 .. Len(m) : f[Len(d) + i] = m[i]
  <2>1. Len(d) \in Nat /\ k \in Int /\ Len(d) <= k
    OBVIOUS
  <2>2. ASSUME NEW i \in 1 .. Len(m) PROVE f[Len(d) + i] = m[i]
    <3>1. Len(d) + i \in 1 .. k /\ i \in 1 .. k - Len(d)
      BY <1>1, <2>1
    <3> QED
      BY <1>1, <1>2, <3>1
  <2>3. ASSUME NEW i \in 1 .. Len(d) PROVE f[i] = d[i]
    <3>1. i \in 1 .. k
      BY <2>1
    <3> QED
      BY <1>2, <3>1
  <2>4. Len(f) = Len(d) + Len(m)
    BY <1>1, <1>2, <2>1
  <2> QED
    BY <2>2, <2>3, <2>4
<1>4. d \o m = f
  BY <1>1, <1>2, <1>3, Together
<1> QED
  BY <1>4 DEF m, f

LEMMA Assoc ==
    ASSUME NEW s \in Seq(Int), NEW t \in Seq(Int), NEW u \in Seq(Int)
    PROVE  (s \o t) \o u = s \o (t \o u)
  BY ConcatAssociative

\* What a push does to what was taken: nothing.
LEMMA MoveOn ==
    ASSUME NEW d \in Seq(Int), NEW e \in Seq(Int), NEW t \in Seq(Int), NEW n \in 0 .. Len(t)
    PROVE  (d \o e \o First(t, n)) \o Rest(t, n) = d \o e \o t
<1> DEFINE v == d \o e
           f == First(t, n)
           r == Rest(t, n)
<1>1. f \o r = t
  BY CutInTwo
<1>2. v \in Seq(Int)
  BY JoinIs
<1>3. f \in Seq(Int) /\ r \in Seq(Int)
  BY CutIs
<1> HIDE DEF v, f, r
<1>4. (v \o f) \o r = v \o t
  BY <1>1, <1>2, <1>3, Assoc
<1> QED
  BY <1>4 DEF v, f, r

-----------------------------------------------------------------------------
(* The formats.                                                            *)

\* A header says how much there is, on both sides of what 32 bits can say.
LEMMA HeaderIs == ASSUME NEW n \in Nat PROVE Says(HeaderFor(n)) = n /\ Sound(HeaderFor(n))
  BY WriterAssumption DEF WriterAssumption, HeaderFor, Long, Word, Says, Sound

\* The encoder is topped up to all it must give.
LEMMA GranuleIs == ASSUME NEW n \in Nat PROVE LastGranule(n) - PreSkip = n
  BY WriterAssumption DEF WriterAssumption, LastGranule, Lesser
-----------------------------------------------------------------------------
(* The writer's invariant.                                                 *)

WriterTypes ==
    /\ kind \in {"wav", "mp3", "ogg"}
    /\ mx \in {"feed", "answer", "join", "flush", "seal", "trim", "closed"}
    /\ wt \in {"look", "read", "push", "pushLast", "patch", "gone"}
    /\ told \in BOOLEAN /\ stop \in BOOLEAN /\ failed \in BOOLEAN /\ last \in BOOLEAN
    /\ fed \in Nat /\ took \in Nat /\ lost \in Nat /\ data \in Nat /\ took <= fed
    /\ todo \in Seq(Int) /\ enc \in Seq(Int) /\ disk \in Seq(Int)

\* Everything the writer has taken, in the order it goes into the file.
Whole == disk \o enc \o todo

\* The first n of s are each at the place of their index in the take, or silence.
Placed(s, n) == \A i \in 1 .. n : s[i] \in {i - 1, Silent}

SilentIn(s) == {i \in DOMAIN s : s[i] = Silent}

\* Failed or not, what the writer knows to be whole is, and at most one thing
\* that is not lies behind it.
DiskInv ==
    /\ data <= Len(disk) /\ Len(disk) <= data + 1
    /\ Placed(disk, data)
    /\ \A i \in data + 1 .. Len(disk) : disk[i] = Garbage
    /\ at = "front" => failed \/ mx \in {"trim", "closed"}
    /\ at \in {"end", "front"}

\* The header is older than the data.
HeadInv == Sound(head) /\ Says(head) \in 0 .. data

\* Until something fails, nothing that was taken is missing or twice there.
WholeInv ==
    ~failed =>
        /\ Len(disk) = data
        /\ Len(Whole) = took
        /\ Placed(Whole, took)
        /\ Cardinality(SilentIn(Whole)) = lost
        /\ kind = "wav" => enc = <<>>
        /\ mx \in {"seal", "trim", "closed"} => enc = <<>>
        /\ mx \in {"trim", "closed"} /\ kind = "wav" => Says(head) = data

\* A writer that saw the flag before its drain leaves an empty ring behind.
ThreadInv ==
    /\ stop <=> mx \notin {"feed", "answer"}
    /\ last => stop
    /\ wt = "pushLast" => ~last
    /\ wt \notin {"push", "pushLast"} => todo = <<>>
    /\ wt = "patch" /\ last => took = fed
    /\ wt = "gone" => last /\ took = fed
    /\ mx \notin {"feed", "answer", "join"} => wt = "gone"

ToldInv == mx = "closed" /\ ~told => ~failed /\ lost = 0

FileInv == WriterTypes /\ DiskInv /\ HeadInv /\ WholeInv /\ ThreadInv /\ ToldInv

\* What a step of this specification never takes back.
Lasting ==
    /\ kind' = kind /\ data <= data' /\ Says(head) <= Says(head')
    /\ \A i \in 1 .. data : disk'[i] = disk[i]

LEMMA OutIs ==
    ASSUME WriterTypes, NEW n \in Nat, data <= n
    PROVE  /\ Out(n) \subseteq data .. n /\ Saved(n) \subseteq data .. n
           /\ kind = "wav" => Out(n) = {n}
  BY DEF WriterTypes, Out, Saved

-----------------------------------------------------------------------------
(* Frames go into the file.                                                *)

\* One thing that is not whole, or nothing, behind what is.
Junk == {j \in Seq(Int) : Len(j) \in {0, 1} /\ \A i \in 1 .. Len(j) : j[i] = Garbage}

LEMMA JunkIs == {<<>>, <<Garbage>>} \subseteq Junk
  BY DEF Junk, Garbage

LEMMA WithJunk ==
    ASSUME NEW f \in Seq(Int), NEW j \in Junk
    PROVE  /\ f \o j \in Seq(Int) /\ Len(f) <= Len(f \o j) /\ Len(f \o j) <= Len(f) + 1
           /\ \A i \in 1 .. Len(f) : (f \o j)[i] = f[i]
           /\ \A i \in Len(f) + 1 .. Len(f \o j) : (f \o j)[i] = Garbage
<1>1. j \in Seq(Int) /\ Len(j) \in {0, 1} /\ \A i \in 1 .. Len(j) : j[i] = Garbage
  BY DEF Junk
<1>2. /\ f \o j \in Seq(Int) /\ Len(f \o j) = Len(f) + Len(j)
      /\ \A i \in 1 .. Len(f) : (f \o j)[i] = f[i]
      /\ \A i \in 1 .. Len(j) : (f \o j)[Len(f) + i] = j[i]
  BY <1>1, JoinIs
<1>3. ASSUME NEW i \in Len(f) + 1 .. Len(f \o j) PROVE (f \o j)[i] = Garbage
  <2>1. i - Len(f) \in 1 .. Len(j) /\ i = Len(f) + (i - Len(f))
    BY <1>2
  <2>2. (f \o j)[Len(f) + (i - Len(f))] = j[i - Len(f)]
    BY <1>2, <2>1
  <2> QED
    BY <1>1, <2>1, <2>2
<1> QED
  BY <1>1, <1>2, <1>3

\* e is d and more: the first k frames of w, with or without something behind.
Landed(w, d, k, e) ==
    /\ e \in Seq(Int) /\ k <= Len(e) /\ Len(e) <= k + 1
    /\ \A i \in 1 .. Len(d) : e[i] = d[i]
    /\ Placed(e, k)
    /\ \A i \in k + 1 .. Len(e) : e[i] = Garbage

LEMMA Lands ==
    ASSUME NEW w \in Seq(Int), NEW d \in Seq(Int),
           \A i \in 1 .. Len(d) : w[i] = d[i],
           Placed(w, Len(w)), NEW k \in Len(d) .. Len(w), NEW j \in Junk, NEW e,
           e = d \o (SubSeq(w, Len(d) + 1, k) \o j)
    PROVE  Landed(w, d, k, e)
<1> DEFINE f == First(w, k)
<1>1. e = f \o j
  <2>1. SubSeq(w, Len(d) + 1, k) \in Seq(Int) /\ j \in Seq(Int)
    BY DEF Junk
  <2>2. e = (d \o SubSeq(w, Len(d) + 1, k)) \o j
    BY <2>1, Assoc
  <2> QED
    BY <2>2, Split
<1>2. f \in Seq(Int) /\ Len(f) = k /\ (\A i \in 1 .. k : f[i] = w[i])
  <2>1. k \in 0 .. Len(w)
    OBVIOUS
  <2> QED
    BY <2>1, CutIs
<1> HIDE DEF f
<1>3. /\ e \in Seq(Int) /\ k <= Len(e) /\ Len(e) <= k + 1
      /\ \A i \in 1 .. k : e[i] = f[i]
      /\ \A i \in k + 1 .. Len(e) : e[i] = Garbage
  <2>1. /\ f \o j \in Seq(Int) /\ Len(f) <= Len(f \o j) /\ Len(f \o j) <= Len(f) + 1
        /\ \A i \in 1 .. Len(f) : (f \o j)[i] = f[i]
        /\ \A i \in Len(f) + 1 .. Len(f \o j) : (f \o j)[i] = Garbage
    BY <1>2, WithJunk
  <2>2. f \o j = e /\ Len(f) = k
    BY <1>1, <1>2
  <2> QED
    BY <2>1, <2>2, Zenon
<1>4. ASSUME NEW i \in 1 .. k PROVE e[i] = w[i] /\ e[i] \in {i - 1, Silent}
  <2>1. i \in 1 .. Len(w)
    OBVIOUS
  <2>2. w[i] \in {i - 1, Silent}
    BY <2>1 DEF Placed
  <2> QED
    BY <1>2, <1>3, <2>2
<1>5. ASSUME NEW i \in 1 .. Len(d) PROVE e[i] = d[i]
  <2>1. i \in 1 .. k
    OBVIOUS
  <2> QED
    BY <1>4, <2>1
<1>6. Placed(e, k)
  BY <1>4 DEF Placed
<1> QED
  BY <1>3, <1>5, <1>6 DEF Landed

\* What is true of the file, failed or not, after frames were put there.
Filed ==
    /\ disk' \in Seq(Int) /\ enc' \in Seq(Int) /\ data' \in Nat /\ data <= data'
    /\ \A i \in 1 .. data : disk'[i] = disk[i]
    /\ data' <= Len(disk') /\ Len(disk') <= data' + 1
    /\ Placed(disk', data')
    /\ \A i \in data' + 1 .. Len(disk') : disk'[i] = Garbage
    /\ head' = head /\ at' = at

\* w is the file and what is to follow it.
Follows(w) ==
    /\ ~failed /\ at = "end" /\ Len(disk) = data /\ disk \in Seq(Int) /\ data \in Nat
    /\ w \in Seq(Int) /\ data <= Len(w) /\ Placed(w, Len(w))
    /\ \A i \in 1 .. Len(disk) : w[i] = disk[i]

LEMMA GrowsFiles ==
    ASSUME NEW w, Follows(w), NEW k \in data .. Len(w), Grows(w, k)
    PROVE  Filed /\ failed' = FALSE /\ Len(disk') = data' /\ disk' \o enc' = w /\ enc' = Rest(w, k)
<1>0. /\ ~failed /\ at = "end" /\ Len(disk) = data /\ disk \in Seq(Int) /\ data \in Nat
      /\ w \in Seq(Int) /\ data <= Len(w) /\ Placed(w, Len(w))
      /\ \A i \in 1 .. Len(disk) : w[i] = disk[i]
  BY DEF Follows
<1>1. disk' = disk \o SubSeq(w, Len(disk) + 1, k) /\ head' = head /\ enc' = Rest(w, k) /\ data' = k
  BY <1>0 DEF Grows, Store
<1>2. k \in Len(disk) .. Len(w) /\ k \in 0 .. Len(w) /\ k \in Nat /\ data <= k
  BY <1>0
<1>3. SubSeq(w, Len(disk) + 1, k) \in Seq(Int) /\ <<>> \in Junk
  BY <1>0, <1>2, JunkIs
<1>4. disk' = disk \o (SubSeq(w, Len(disk) + 1, k) \o <<>>)
  BY <1>0, <1>1, <1>3, ConcatEmptySeq
<1>5. Landed(w, disk, k, disk')
  BY <1>0, <1>2, <1>3, <1>4, Lands
<1>6. disk' = First(w, k)
  BY <1>0, <1>1, <1>2, Split, Zenon
<1>7. Len(disk') = k /\ disk' \o enc' = w /\ enc' \in Seq(Int)
  BY <1>0, <1>1, <1>2, <1>6, CutIs, CutInTwo
<1>8. at' = at /\ failed' = FALSE
  BY <1>0 DEF Grows
<1>9. Filed
  <2>1. data' = k /\ Len(disk) = data
    BY <1>0, <1>1
  <2> QED
    BY <1>1, <1>2, <1>5, <1>7, <1>8, <2>1, Zenon DEF Filed, Landed
<1> QED
  BY <1>1, <1>7, <1>8, <1>9

LEMMA DiesFiles ==
    ASSUME NEW w, Follows(w), NEW ks \in SUBSET (data .. Len(w)), Dies(w, ks)
    PROVE  Filed /\ failed' = TRUE
<1>0. /\ ~failed /\ at = "end" /\ Len(disk) = data /\ disk \in Seq(Int) /\ data \in Nat
      /\ w \in Seq(Int) /\ data <= Len(w) /\ Placed(w, Len(w))
      /\ \A i \in 1 .. Len(disk) : w[i] = disk[i]
  BY DEF Follows
<1>1. PICK k \in ks, junk \in {<<>>, <<Garbage>>} :
        /\ disk' = disk \o (SubSeq(w, Len(disk) + 1, k) \o junk) /\ head' = head
        /\ data' = k /\ enc' = Rest(w, k)
  BY <1>0 DEF Dies, Store
<1>2. k \in Len(disk) .. Len(w) /\ k \in 0 .. Len(w) /\ k \in Nat /\ data <= k /\ junk \in Junk
  BY <1>0, JunkIs
<1>3. Landed(w, disk, k, disk')
  BY <1>0, <1>1, <1>2, Lands
<1>4. enc' \in Seq(Int)
  BY <1>0, <1>1, <1>2, CutIs
<1>5. at' = at /\ failed' = TRUE
  BY DEF Dies
<1>6. Filed
  <2>1. data' = k /\ Len(disk) = data
    BY <1>0, <1>1
  <2> QED
    BY <1>1, <1>2, <1>3, <1>4, <1>5, <2>1, Zenon DEF Filed, Landed
<1> QED
  BY <1>5, <1>6

-----------------------------------------------------------------------------
(* What the writer has taken.                                              *)

LEMMA WholeIs ==
    ASSUME WriterTypes
    PROVE  /\ Whole \in Seq(Int) /\ Len(Whole) = Len(disk) + Len(enc) + Len(todo)
           /\ \A i \in 1 .. Len(disk) : Whole[i] = disk[i]
<1>1. /\ disk \o enc \in Seq(Int) /\ Len(disk \o enc) = Len(disk) + Len(enc)
      /\ \A i \in 1 .. Len(disk) : (disk \o enc)[i] = disk[i]
  BY JoinIs DEF WriterTypes
<1>2. /\ Whole \in Seq(Int) /\ Len(Whole) = Len(disk \o enc) + Len(todo)
      /\ \A i \in 1 .. Len(disk \o enc) : Whole[i] = (disk \o enc)[i]
  BY <1>1, JoinIs DEF WriterTypes, Whole
<1>3. ASSUME NEW i \in 1 .. Len(disk) PROVE Whole[i] = disk[i]
  <2>1. i \in 1 .. Len(disk \o enc) /\ Len(enc) \in Nat
    BY <1>1 DEF WriterTypes
  <2> QED
    BY <1>1, <1>2, <2>1
<1> QED
  BY <1>1, <1>2, <1>3

\* A part of what was taken follows the file as all of it does.
LEMMA PartFollows ==
    ASSUME WriterTypes, DiskInv, WholeInv, ~failed, at = "end", NEW n \in 0 .. Len(todo)
    PROVE  /\ Follows(disk \o enc \o First(todo, n))
           /\ (disk \o enc \o First(todo, n)) \o Rest(todo, n) = Whole
<1> DEFINE w == disk \o enc \o First(todo, n)
<1>1. /\ First(todo, n) \in Seq(Int) /\ Rest(todo, n) \in Seq(Int)
      /\ disk \o enc \in Seq(Int) /\ Len(disk \o enc) = Len(disk) + Len(enc)
      /\ w \in Seq(Int) /\ Len(w) = Len(disk) + Len(enc) + n
  <2>1. First(todo, n) \in Seq(Int) /\ Rest(todo, n) \in Seq(Int) /\ Len(First(todo, n)) = n
    BY CutIs DEF WriterTypes
  <2>2. disk \o enc \in Seq(Int) /\ Len(disk \o enc) = Len(disk) + Len(enc)
    BY JoinIs DEF WriterTypes
  <2>3. w \in Seq(Int) /\ Len(w) = Len(disk \o enc) + Len(First(todo, n))
    BY <2>1, <2>2, JoinIs
  <2> QED
    BY <2>1, <2>2, <2>3
<1>2. w \o Rest(todo, n) = Whole
  BY MoveOn DEF WriterTypes, Whole
<1> HIDE DEF w
<1>3. /\ \A i \in 1 .. Len(w) : Whole[i] = w[i]
      /\ Len(Whole) = Len(w) + Len(Rest(todo, n))
  BY <1>1, <1>2, JoinIs
<1>4. Len(w) <= took /\ Len(disk) = data /\ Len(disk) <= Len(w) /\ took \in Nat
  BY <1>1, <1>3 DEF WriterTypes, WholeInv
<1>5. ASSUME NEW i \in 1 .. Len(w) PROVE w[i] \in {i - 1, Silent}
  <2>1. i \in 1 .. took
    BY <1>4
  <2> QED
    BY <1>3, <2>1 DEF WholeInv, Placed
<1>6. ASSUME NEW i \in 1 .. Len(disk) PROVE w[i] = disk[i]
  <2>1. i \in 1 .. Len(w)
    BY <1>4
  <2> QED
    BY <1>3, <2>1, WholeIs
<1>7. Follows(w)
  BY <1>1, <1>4, <1>5, <1>6 DEF Follows, Placed, WriterTypes
<1> QED
  BY <1>2, <1>7 DEF w

-----------------------------------------------------------------------------
(* The steps that put frames in the file.                                  *)

LEMMA FiledKeeps ==
    ASSUME FileInv, Filed, at = "end", kind' = kind
    PROVE  DiskInv' /\ HeadInv' /\ Lasting
<1>1. DiskInv'
  BY DEF Filed, DiskInv, Placed
<1>2. HeadInv' /\ Says(head) <= Says(head')
  BY DEF Filed, HeadInv, FileInv, WriterTypes, Sound, Says
<1>3. Lasting
  BY <1>2 DEF Filed, Lasting
<1> QED
  BY <1>1, <1>2, <1>3

\* A step that leaves the file alone.
FileStays == UNCHANGED <<kind, failed, enc, disk, data, at, head>>

LEMMA StaysKeeps ==
    ASSUME FileInv, FileStays, mx \in {"trim", "closed"} => mx' \in {"trim", "closed"}
    PROVE  DiskInv' /\ HeadInv' /\ Lasting
<1>1. DiskInv'
  BY DEF FileStays, FileInv, DiskInv, Placed
<1>2. HeadInv' /\ Says(head) <= Says(head')
  BY DEF FileStays, HeadInv, FileInv, WriterTypes, Sound, Says
<1>3. Lasting
  BY <1>2 DEF FileStays, Lasting, FileInv, WriterTypes
<1> QED
  BY <1>1, <1>2, <1>3

\* A write is at most as long as what is to be written.
LEMMA PushIs ==
    ASSUME FileInv, Push
    PROVE  \E n \in 0 .. Len(todo) :
             /\ Pass(First(todo, n)) /\ todo' = Rest(todo, n)
             /\ todo' \in Seq(Int) /\ Len(todo') = Len(todo) - n
             /\ wt' = IF n < Len(todo) THEN wt ELSE IF wt = "push" THEN "read" ELSE "patch"
<1> DEFINE silent == {i \in DOMAIN todo : todo[i] = Silent}
           n == IF silent = {} THEN Len(todo) ELSE Lesser(Chunk, Cardinality(silent))
<1>1. todo \in Seq(Int) /\ Len(todo) \in Nat /\ DOMAIN todo = 1 .. Len(todo)
  BY DEF FileInv, WriterTypes
<1>2. IsFiniteSet(1 .. Len(todo)) /\ Cardinality(1 .. Len(todo)) = Len(todo)
  BY <1>1, FS_Interval
<1>3. silent \subseteq 1 .. Len(todo)
  BY <1>1
<1> HIDE DEF silent
<1>4. Cardinality(silent) <= Len(todo) /\ Cardinality(silent) \in Nat
  BY <1>2, <1>3, FS_Subset, FS_CardinalityType
<1>5. n \in 0 .. Len(todo)
  BY <1>1, <1>4, WriterAssumption DEF WriterAssumption, Lesser
<1>6. /\ Pass(First(todo, n)) /\ todo' = Rest(todo, n)
      /\ wt' = IF n < Len(todo) THEN wt ELSE IF wt = "push" THEN "read" ELSE "patch"
  BY DEF Push, silent
<1> HIDE DEF n
<1>7. todo' \in Seq(Int) /\ Len(todo') = Len(todo) - n
  BY <1>1, <1>5, <1>6, CutIs
<1> QED
  BY <1>5, <1>6, <1>7

LEMMA PushKeeps == ASSUME FileInv, Push PROVE FileInv' /\ Lasting
<1>1. PICK n \in 0 .. Len(todo) :
         /\ Pass(First(todo, n)) /\ todo' = Rest(todo, n)
         /\ todo' \in Seq(Int) /\ Len(todo') = Len(todo) - n
         /\ wt' = IF n < Len(todo) THEN wt ELSE IF wt = "push" THEN "read" ELSE "patch"
  BY PushIs
<1>2. /\ wt \in {"push", "pushLast"} /\ UNCHANGED <<kind, mx, fed, told, stop, last, took, lost>>
      /\ mx \in {"feed", "answer", "join"}
  BY DEF Push, FileInv, ThreadInv, WriterTypes, mixer
<1>3. ThreadInv'
  <2>1. n < Len(todo) \/ todo' = <<>>
    BY <1>1 DEF FileInv, WriterTypes
  <2> QED
    BY <1>1, <1>2, <2>1 DEF FileInv, ThreadInv
<1>4. ToldInv'
  BY <1>2 DEF ToldInv
<1>5. CASE failed
  <2>1. FileStays
    BY <1>1, <1>2, <1>5 DEF Pass, FileStays, file
  <2>2. DiskInv' /\ HeadInv' /\ Lasting
    BY <1>2, <2>1, StaysKeeps
  <2>3. WholeInv'
    BY <1>5, <2>1 DEF WholeInv, FileStays
  <2>4. WriterTypes'
    BY <1>1, <1>2, <2>1 DEF FileInv, WriterTypes, FileStays
  <2> QED
    BY <1>3, <1>4, <2>2, <2>3, <2>4 DEF FileInv
<1>6. CASE ~failed
  <2> DEFINE w == disk \o enc \o First(todo, n)
  <2>1. at = "end" /\ WriterTypes /\ DiskInv /\ WholeInv
    BY <1>2, <1>6 DEF FileInv, DiskInv
  <2>2. Follows(w) /\ w \o Rest(todo, n) = Whole
    BY <1>6, <2>1, PartFollows
  <2>3. (\E k \in Out(Len(w)) : Grows(w, k)) \/ Dies(w, Saved(Len(w)))
    BY <1>1, <1>6 DEF Pass
  <2> HIDE DEF w
  <2>4. /\ Out(Len(w)) \subseteq data .. Len(w) /\ Saved(Len(w)) \subseteq data .. Len(w)
        /\ kind = "wav" => Out(Len(w)) = {Len(w)}
    BY <2>1, <2>2, OutIs DEF Follows
  <2>5. ASSUME NEW k \in Out(Len(w)), Grows(w, k)
        PROVE  Filed /\ failed' = FALSE /\ WholeInv'
    <3>1. k \in data .. Len(w)
      BY <2>4
    <3>2. Filed /\ failed' = FALSE /\ Len(disk') = data' /\ disk' \o enc' = w /\ enc' = Rest(w, k)
      BY <2>2, <2>5, <3>1, GrowsFiles
    <3>3. Whole' = Whole
      BY <1>1, <2>2, <3>2 DEF Whole
    <3>4. kind = "wav" => enc' = <<>>
      <4>1. ASSUME kind = "wav" PROVE enc' = <<>>
        <5>1. k = Len(w) /\ w \in Seq(Int)
          BY <2>2, <2>4, <4>1 DEF Follows
        <5> QED
          BY <3>2, <5>1 DEF Rest
      <4> QED
        BY <4>1
    <3>5. /\ Len(Whole') = took' /\ Placed(Whole', took') /\ Cardinality(SilentIn(Whole')) = lost'
      BY <1>2, <1>6, <2>1, <3>3 DEF WholeInv
    <3>6. mx' \notin {"seal", "trim", "closed"} /\ kind' = kind
      BY <1>2
    <3> QED
      BY <3>2, <3>4, <3>5, <3>6 DEF WholeInv, SilentIn, Placed
  <2>6. ASSUME Dies(w, Saved(Len(w))) PROVE Filed /\ failed' = TRUE /\ WholeInv'
    <3>1. Filed /\ failed' = TRUE
      BY <2>2, <2>4, <2>6, DiesFiles
    <3> QED
      BY <3>1 DEF WholeInv
  <2>7. Filed /\ failed' \in BOOLEAN /\ WholeInv'
    BY <2>3, <2>5, <2>6
  <2>8. DiskInv' /\ HeadInv' /\ Lasting
    BY <1>2, <2>1, <2>7, FiledKeeps
  <2>9. WriterTypes'
    BY <1>1, <1>2, <2>7 DEF FileInv, WriterTypes, Filed
  <2> QED
    BY <1>3, <1>4, <2>7, <2>8, <2>9 DEF FileInv
<1> QED
  BY <1>5, <1>6 DEF FileInv, WriterTypes

\* At the end of the take nothing is on its way any more.
LEMMA RestFollows ==
    ASSUME FileInv, ~failed, at = "end", todo = <<>>
    PROVE  Follows(disk \o enc) /\ disk \o enc = Whole
<1>1. First(todo, 0) = <<>> /\ Rest(todo, 0) = <<>> /\ 0 \in 0 .. Len(todo)
  BY DEF First, Rest
<1>2. Follows(disk \o enc \o First(todo, 0))
  BY <1>1, PartFollows DEF FileInv
<1>3. disk \o enc \in Seq(Int)
  BY JoinIs DEF FileInv, WriterTypes
<1>4. (disk \o enc) \o <<>> = disk \o enc
  BY <1>3, ConcatEmptySeq
<1> QED
  BY <1>1, <1>2, <1>4 DEF Whole

LEMMA FlushKeeps == ASSUME FileInv, Flush PROVE FileInv' /\ Lasting
<1>1. /\ mx = "flush" /\ mx' = "seal" /\ wt = "gone" /\ todo = <<>>
      /\ UNCHANGED <<kind, fed, told, stop, wt, last, took, todo, lost>>
  BY DEF Flush, Moves, FileInv, ThreadInv, writer
<1>2. ThreadInv' /\ ToldInv'
  BY <1>1 DEF FileInv, ThreadInv, ToldInv
<1>3. CASE kind = "wav" \/ failed
  <2>1. FileStays
    BY <1>1, <1>3 DEF Flush, FileStays, file
  <2>2. DiskInv' /\ HeadInv' /\ Lasting
    BY <1>1, <2>1, StaysKeeps
  <2>3. WholeInv'
    BY <1>1, <1>3, <2>1 DEF FileInv, WholeInv, FileStays, Whole, SilentIn, Placed
  <2>4. WriterTypes'
    BY <1>1, <2>1 DEF FileInv, WriterTypes, FileStays
  <2> QED
    BY <1>2, <2>2, <2>3, <2>4 DEF FileInv
<1>4. CASE kind # "wav" /\ ~failed
  <2> DEFINE w == disk \o enc
             all == IF kind = "ogg" THEN LastGranule(Len(w)) - PreSkip ELSE Len(w)
  <2>1. at = "end" /\ WriterTypes
    BY <1>1, <1>4 DEF FileInv, DiskInv
  <2>2. Follows(w) /\ w = Whole
    BY <1>1, <1>4, <2>1, RestFollows
  <2>3. Grows(w, Greater(all, data)) \/ Dies(w, Saved(Len(w)))
    BY <1>4 DEF Flush
  <2> HIDE DEF w
  <2>4. Len(w) \in Nat /\ data <= Len(w) /\ data \in Nat /\ w \in Seq(Int)
    BY <2>2 DEF Follows
  <2>5. Greater(all, data) = Len(w)
    <3>1. all = Len(w)
      BY <2>4, GranuleIs
    <3> QED
      BY <2>4, <3>1 DEF Greater
  <2> HIDE DEF all
  <2>6. Saved(Len(w)) \subseteq data .. Len(w)
    BY <2>1, <2>4, OutIs
  <2>7. ASSUME Grows(w, Len(w)) PROVE Filed /\ failed' = FALSE /\ WholeInv'
    <3>1. Len(w) \in data .. Len(w)
      BY <2>4
    <3>2. /\ Filed /\ failed' = FALSE /\ Len(disk') = data' /\ disk' \o enc' = w
          /\ enc' = Rest(w, Len(w))
      BY <2>2, <2>7, <3>1, GrowsFiles
    <3>3. enc' = <<>>
      BY <2>4, <3>2 DEF Rest
    <3>4. Whole' = Whole
      <4>1. Whole' = w \o <<>>
        BY <1>1, <3>2 DEF Whole
      <4> QED
        BY <2>2, <2>4, <4>1, ConcatEmptySeq
    <3>5. /\ Len(Whole') = took' /\ Placed(Whole', took') /\ Cardinality(SilentIn(Whole')) = lost'
      BY <1>1, <1>4, <3>4 DEF FileInv, WholeInv
    <3>6. mx' \notin {"trim", "closed"}
      BY <1>1
    <3> QED
      BY <3>2, <3>3, <3>5, <3>6 DEF WholeInv, SilentIn, Placed
  <2>8. ASSUME Dies(w, Saved(Len(w))) PROVE Filed /\ failed' = TRUE /\ WholeInv'
    <3>1. Filed /\ failed' = TRUE
      BY <2>2, <2>6, <2>8, DiesFiles
    <3> QED
      BY <3>1 DEF WholeInv
  <2>9. Filed /\ failed' \in BOOLEAN /\ WholeInv'
    BY <2>3, <2>5, <2>7, <2>8
  <2>10. DiskInv' /\ HeadInv' /\ Lasting
    BY <1>1, <2>1, <2>9, FiledKeeps
  <2>11. WriterTypes'
    BY <1>1, <2>9 DEF FileInv, WriterTypes, Filed
  <2> QED
    BY <1>2, <2>9, <2>10, <2>11 DEF FileInv
<1> QED
  BY <1>3, <1>4 DEF FileInv, WriterTypes

-----------------------------------------------------------------------------
(* The header.                                                             *)

LEMMA HeaderKeeps ==
    ASSUME FileInv, NEW back \in BOOLEAN, WriteHeader(back), UNCHANGED <<kind, disk, data>>
    PROVE  /\ HeadInv' /\ Lasting
           /\ failed' \in BOOLEAN /\ (failed => failed') /\ at' \in {"end", "front"}
           /\ ~failed' => Says(head') = data
           /\ back /\ at' = "front" /\ at = "end" => failed'
<1>1. data \in Nat /\ Says(head) \in 0 .. data /\ Sound(head) /\ at \in {"end", "front"}
  BY DEF FileInv, WriterTypes, HeadInv, DiskInv
<1>2. head' = head \/ head' = HeaderFor(data)
  BY DEF WriteHeader
<1>3. Says(HeaderFor(data)) = data /\ Sound(HeaderFor(data))
  BY <1>1, HeaderIs
<1>4. /\ failed' \in BOOLEAN /\ (failed => failed') /\ at' \in {"end", "front"}
      /\ ~failed' => head' = HeaderFor(data)
      /\ back /\ at' = "front" /\ at = "end" => failed'
  BY <1>1 DEF WriteHeader, FileInv, WriterTypes
<1>5. Sound(head') /\ Says(head') \in {Says(head), data}
  BY <1>1, <1>2, <1>3
<1>6. HeadInv' /\ Says(head) <= Says(head')
  <2>1. Sound(head') /\ Says(head') \in 0 .. data' /\ Says(head) <= Says(head')
    BY <1>1, <1>5
  <2> QED
    BY <2>1 DEF HeadInv, Sound, Says
<1>7. Lasting
  BY <1>1, <1>6 DEF Lasting
<1> QED
  BY <1>3, <1>4, <1>6, <1>7

LEMMA SealKeeps == ASSUME FileInv, Seal PROVE FileInv' /\ Lasting
<1>1. /\ mx = "seal" /\ mx' = "trim" /\ wt = "gone" /\ todo = <<>>
      /\ UNCHANGED <<kind, fed, told, stop, wt, last, took, todo, lost>>
      /\ UNCHANGED <<enc, disk, data>>
  BY DEF Seal, Moves, FileInv, ThreadInv, writer
<1>2. ThreadInv' /\ ToldInv'
  BY <1>1 DEF FileInv, ThreadInv, ToldInv
<1>3. /\ HeadInv' /\ Lasting
      /\ failed' \in BOOLEAN /\ (failed => failed') /\ at' \in {"end", "front"}
      /\ kind = "wav" /\ ~failed' => Says(head') = data
  <2>1. CASE kind = "wav" /\ WriteHeader(FALSE)
    BY <1>1, <2>1, HeaderKeeps
  <2>2. CASE ~(kind = "wav" /\ WriteHeader(FALSE))
    <3>1. failed \in BOOLEAN /\ at \in {"end", "front"}
      BY DEF FileInv, WriterTypes, DiskInv
    <3>2. \/ /\ kind = "mp3" /\ ~failed
             /\ failed' \in {failed, TRUE} /\ at' \in {at, "front", "end"} /\ head' = head
          \/ /\ kind = "ogg" \/ (kind = "mp3" /\ failed)
             /\ at' = at /\ head' = head /\ failed' = failed
      BY <2>2 DEF Seal, StampTag
    <3>3. /\ kind # "wav" /\ head' = head /\ failed' \in BOOLEAN /\ (failed => failed')
          /\ at' \in {"end", "front"}
      BY <3>1, <3>2
    <3>4. HeadInv' /\ Says(head) <= Says(head')
      BY <1>1, <3>3 DEF HeadInv, FileInv, WriterTypes, Sound, Says
    <3>5. Lasting
      BY <1>1, <3>4 DEF Lasting, FileInv, WriterTypes
    <3> QED
      BY <3>3, <3>4, <3>5
  <2> QED
    BY <2>1, <2>2
<1>4. DiskInv'
  BY <1>1, <1>3 DEF FileInv, DiskInv, Placed
<1>5. WholeInv'
  BY <1>1, <1>3 DEF FileInv, WholeInv, Whole, SilentIn, Placed
<1>6. WriterTypes'
  BY <1>1, <1>3 DEF FileInv, WriterTypes
<1> QED
  BY <1>2, <1>3, <1>4, <1>5, <1>6 DEF FileInv

LEMMA PatchKeeps == ASSUME FileInv, Patch PROVE FileInv' /\ Lasting
<1>1. /\ wt = "patch" /\ wt' = (IF last THEN "gone" ELSE "look") /\ todo = <<>>
      /\ UNCHANGED <<kind, mx, fed, told, stop, last, took, todo, lost, enc, disk, data>>
      /\ mx \in {"feed", "answer", "join"}
  BY DEF Patch, WriterGoes, FileInv, ThreadInv, WriterTypes, mixer
<1>2. ThreadInv' /\ ToldInv'
  BY <1>1 DEF FileInv, ThreadInv, ToldInv
<1>3. /\ HeadInv' /\ Lasting
      /\ failed' \in BOOLEAN /\ (failed => failed') /\ at' \in {"end", "front"}
      /\ at' = "front" /\ at = "end" => failed'
  <2>1. CASE WriteHeader(TRUE)
    BY <1>1, <2>1, HeaderKeeps
  <2>2. CASE ~WriteHeader(TRUE)
    <3>1. FileStays
      BY <1>1, <2>2 DEF Patch, FileStays
    <3>2. HeadInv' /\ Lasting
      BY <1>1, <3>1, StaysKeeps
    <3> QED
      BY <3>1, <3>2 DEF FileStays, FileInv, WriterTypes, DiskInv
  <2> QED
    BY <2>1, <2>2
<1>4. DiskInv'
  BY <1>1, <1>3 DEF FileInv, DiskInv, Placed
<1>5. WholeInv'
  BY <1>1, <1>3 DEF FileInv, WholeInv, Whole, SilentIn, Placed
<1>6. WriterTypes'
  BY <1>1, <1>3 DEF FileInv, WriterTypes
<1> QED
  BY <1>2, <1>3, <1>4, <1>5, <1>6 DEF FileInv

-----------------------------------------------------------------------------
(* Frames come from the ring.                                              *)

\* What is taken goes behind what was taken: the silence counts as lost, and
\* every frame is at its place again.
Taken(v, p, n, w) ==
    /\ w \in Seq(Int) /\ Len(w) = Len(v) + p + n /\ Placed(w, Len(w))
    /\ SilentIn(w) = SilentIn(v) \cup (Len(v) + 1 .. Len(v) + p)

LEMMA TakenIs ==
    ASSUME NEW v \in Seq(Int), NEW p \in Nat, NEW n \in Nat, Placed(v, Len(v)),
           NEW w, w = v \o (Silence(p) \o From(Len(v) + p, n))
    PROVE  Taken(v, p, n, w)
<1> DEFINE l == Len(v)
           s == Silence(p)
           f == From(l + p, n)
           t == s \o f
<1>1. l \in Nat /\ l = Len(v)
  OBVIOUS
<1>2. s \in Seq(Int) /\ Len(s) = p /\ \A i \in 1 .. p : s[i] = Silent
  BY SilenceIs
<1>3. f \in Seq(Int) /\ Len(f) = n /\ \A i \in 1 .. n : f[i] = l + p + i - 1
  BY FromIs
<1>4. w = v \o t
  OBVIOUS
<1> HIDE DEF s, f, l
<1>5. /\ t \in Seq(Int) /\ Len(t) = p + n
      /\ \A i \in 1 .. p : t[i] = Silent
      /\ \A i \in 1 .. n : t[p + i] = l + p + i - 1
  <2>1. /\ t \in Seq(Int) /\ Len(t) = Len(s) + Len(f)
        /\ \A i \in 1 .. Len(s) : t[i] = s[i]
        /\ \A i \in 1 .. Len(f) : t[Len(s) + i] = f[i]
    BY <1>2, <1>3, JoinIs
  <2> QED
    BY <1>2, <1>3, <2>1
<1> HIDE DEF t
<1>6. /\ w \in Seq(Int) /\ Len(w) = l + p + n
      /\ \A i \in 1 .. l : w[i] = v[i]
      /\ \A i \in 1 .. p + n : w[l + i] = t[i]
  <2>1. /\ v \o t \in Seq(Int) /\ Len(v \o t) = Len(v) + Len(t)
        /\ \A i \in 1 .. Len(v) : (v \o t)[i] = v[i]
        /\ \A i \in 1 .. Len(t) : (v \o t)[Len(v) + i] = t[i]
    BY <1>5, JoinIs
  <2>2. v \o t = w /\ Len(v) = l /\ Len(t) = p + n
    BY <1>1, <1>4, <1>5
  <2>3. Len(w) = l + p + n
    BY <1>1, <2>1, <2>2
  <2> QED
    BY <2>1, <2>2, <2>3, Zenon
<1>7. ASSUME NEW i \in 1 .. Len(w)
      PROVE  /\ i <= l => w[i] = v[i]
             /\ l < i /\ i <= l + p => w[i] = Silent
             /\ l + p < i => w[i] = i - 1
  <2>1. CASE i <= l
    BY <1>1, <1>6, <2>1
  <2>2. CASE l < i /\ i <= l + p
    <3>1. i - l \in 1 .. p /\ i - l \in 1 .. p + n /\ i = l + (i - l)
      BY <1>1, <2>2
    <3>2. w[l + (i - l)] = t[i - l] /\ t[i - l] = Silent
      BY <1>5, <1>6, <3>1
    <3> QED
      BY <1>1, <2>2, <3>1, <3>2
  <2>3. CASE l + p < i
    <3>1. i - l \in 1 .. p + n /\ i - l - p \in 1 .. n /\ i = l + (i - l) /\ i - l = p + (i - l - p)
      BY <1>1, <1>6, <2>3
    <3>2. w[l + (i - l)] = t[i - l]
      BY <1>6, <3>1
    <3>3. t[p + (i - l - p)] = l + p + (i - l - p) - 1
      BY <1>5, <3>1
    <3>4. l + p + (i - l - p) - 1 = i - 1
      BY <1>1
    <3>5. w[i] = i - 1
      BY <3>1, <3>2, <3>3, <3>4
    <3> QED
      BY <1>1, <2>3, <3>5
  <2> QED
    BY <1>1, <2>1, <2>2, <2>3
<1>8. Placed(w, Len(w))
  <2>1. ASSUME NEW i \in 1 .. Len(w) PROVE w[i] \in {i - 1, Silent}
    <3>1. CASE i <= l
      <4>1. i \in 1 .. Len(v)
        BY <1>1, <3>1
      <4> QED
        BY <1>7, <3>1, <4>1 DEF Placed
    <3>2. CASE l < i
      <4>1. i <= l + p \/ l + p < i
        BY <1>1
      <4> QED
        BY <1>7, <3>2, <4>1
    <3> QED
      BY <1>1, <3>1, <3>2
  <2> QED
    BY <2>1 DEF Placed
<1>9. SilentIn(w) = SilentIn(v) \cup (l + 1 .. l + p)
  <2>1. DOMAIN w = 1 .. Len(w) /\ DOMAIN v = 1 .. l
    BY <1>1, <1>6
  <2>2. ASSUME NEW i \in SilentIn(w) PROVE i \in SilentIn(v) \cup (l + 1 .. l + p)
    <3>1. i \in 1 .. Len(w) /\ w[i] = Silent
      BY <2>1 DEF SilentIn
    <3>2. CASE i <= l
      BY <1>1, <1>7, <2>1, <3>1, <3>2 DEF SilentIn
    <3>3. CASE l < i /\ i <= l + p
      BY <1>1, <3>1, <3>3
    <3>4. CASE l + p < i
      <4>1. w[i] = i - 1 /\ i - 1 # Silent
        BY <1>1, <1>7, <3>1, <3>4 DEF Silent
      <4> QED
        BY <3>1, <4>1
    <3> QED
      BY <1>1, <3>1, <3>2, <3>3, <3>4
  <2>3. ASSUME NEW i \in SilentIn(v) PROVE i \in SilentIn(w)
    <3>1. i \in 1 .. l /\ v[i] = Silent
      BY <2>1 DEF SilentIn
    <3>2. i \in 1 .. Len(w) /\ i <= l
      BY <1>1, <1>6, <3>1
    <3>3. w[i] = v[i]
      BY <1>7, <3>2
    <3> QED
      BY <2>1, <3>1, <3>2, <3>3 DEF SilentIn
  <2>4. ASSUME NEW i \in l + 1 .. l + p PROVE i \in SilentIn(w)
    <3>1. i \in 1 .. Len(w) /\ l < i /\ i <= l + p
      BY <1>1, <1>6
    <3>2. w[i] = Silent
      BY <1>7, <3>1
    <3> QED
      BY <2>1, <3>1, <3>2 DEF SilentIn
  <2> QED
    BY <2>2, <2>3, <2>4
<1> QED
  BY <1>1, <1>6, <1>8, <1>9 DEF Taken

LEMMA SilenceCounts ==
    ASSUME NEW v \in Seq(Int), NEW p \in Nat
    PROVE  Cardinality(SilentIn(v) \cup (Len(v) + 1 .. Len(v) + p)) = Cardinality(SilentIn(v)) + p
<1> DEFINE a == SilentIn(v)
           b == Len(v) + 1 .. Len(v) + p
<1>1. IsFiniteSet(1 .. Len(v)) /\ a \subseteq 1 .. Len(v)
  BY FS_Interval DEF SilentIn
<1>2. IsFiniteSet(a) /\ Cardinality(a) \in Nat
  BY <1>1, FS_Subset, FS_CardinalityType
<1>3. IsFiniteSet(b) /\ Cardinality(b) = p
  BY FS_Interval
<1>4. a \cap b = {}
  BY <1>1
<1>5. Cardinality(a \cap b) = 0
  BY <1>4, FS_EmptySet
<1> HIDE DEF a, b
<1>6. Cardinality(a \cup b) = Cardinality(a) + Cardinality(b) - Cardinality(a \cap b)
  BY <1>2, <1>3, FS_Union
<1>7. Cardinality(a \cup b) = Cardinality(a) + p
  BY <1>2, <1>3, <1>5, <1>6
<1> QED
  BY <1>7 DEF a, b

LEMMA TakesKeeps ==
    ASSUME FileInv, todo = <<>>, NEW p \in Nat, NEW n \in Nat, Takes(p, n), FileStays,
           UNCHANGED mx
    PROVE  WholeInv' /\ todo' \in Seq(Int)
<1>1. todo' = Silence(p) \o From(took + p, n) /\ took' = took + p + n /\ lost' = lost + p
  BY DEF Takes
<1>2. took \in Nat /\ lost \in Nat
  BY DEF FileInv, WriterTypes
<1>3. Silence(p) \in Seq(Int) /\ From(took + p, n) \in Seq(Int)
  BY <1>2, SilenceIs, FromIs
<1>4. todo' \in Seq(Int)
  BY <1>1, <1>3, JoinIs
<1>5. CASE failed
  BY <1>4, <1>5 DEF WholeInv, FileStays
<1>6. CASE ~failed
  <2>1. disk \o enc \in Seq(Int)
    BY JoinIs DEF FileInv, WriterTypes
  <2>2. Whole = disk \o enc
    BY <2>1, ConcatEmptySeq DEF Whole
  <2>3. /\ Whole \in Seq(Int) /\ Len(Whole) = took /\ Placed(Whole, Len(Whole))
        /\ Cardinality(SilentIn(Whole)) = lost
    BY <1>6, <2>1, <2>2 DEF FileInv, WholeInv
  <2>4. Whole' = Whole \o (Silence(p) \o From(Len(Whole) + p, n))
    BY <1>1, <2>2, <2>3 DEF Whole, FileStays
  <2>5. Taken(Whole, p, n, Whole')
    BY <2>3, <2>4, TakenIs
  <2>6. Cardinality(SilentIn(Whole')) = lost'
    BY <1>1, <2>3, <2>5, SilenceCounts DEF Taken
  <2>7. Len(Whole') = took' /\ Placed(Whole', took')
    BY <1>1, <2>3, <2>5 DEF Taken
  <2>8. /\ Len(disk') = data'
        /\ kind' = "wav" => enc' = <<>>
        /\ mx' \in {"seal", "trim", "closed"} => enc' = <<>>
        /\ mx' \in {"trim", "closed"} /\ kind' = "wav" => Says(head') = data'
    BY <1>6 DEF FileInv, WholeInv, FileStays
  <2> QED
    BY <1>4, <2>6, <2>7, <2>8 DEF WholeInv, SilentIn, Placed, Says
<1> QED
  BY <1>5, <1>6 DEF FileInv, WriterTypes

LEMMA ReadKeeps == ASSUME FileInv, Read PROVE FileInv' /\ Lasting
<1> DEFINE behind == fed - took
           passed == Greater(0, behind - Cap)
           n == Lesser(Chunk, behind - passed)
<1>1. /\ wt = "read" /\ wt' = (IF n = 0 THEN "patch" ELSE "push") /\ Takes(passed, n)
      /\ UNCHANGED <<kind, mx, fed, told, stop, failed, last, enc, disk, data, at, head>>
  BY DEF Read, WriterGoes, mixer, file
<1>2. fed \in Nat /\ took \in Nat /\ took <= fed /\ lost \in Nat /\ todo = <<>>
  BY <1>1 DEF FileInv, WriterTypes, ThreadInv
<1>3. /\ passed \in Nat /\ n \in Nat /\ took + passed + n <= fed
      /\ n = 0 => took + passed + n = fed
  BY <1>2, WriterAssumption DEF WriterAssumption, Greater, Lesser
<1> HIDE DEF passed, n
<1>4. took' = took + passed + n /\ lost' = lost + passed
  BY <1>1 DEF Takes
<1>5. FileStays
  BY <1>1 DEF FileStays
<1>6. WholeInv' /\ todo' \in Seq(Int)
  BY <1>1, <1>2, <1>3, <1>5, TakesKeeps
<1>7. DiskInv' /\ HeadInv' /\ Lasting
  BY <1>1, <1>5, StaysKeeps
<1>8. ThreadInv'
  <2>1. n = 0 => todo' = <<>>
    <3>1. ASSUME n = 0 PROVE todo' = <<>>
      <4>1. took = fed /\ passed = 0
        BY <1>2, <1>3, <3>1, WriterAssumption DEF WriterAssumption, passed, n, Greater, Lesser
      <4>2. todo' = Silence(0) \o From(took + 0, 0)
        BY <1>1, <3>1, <4>1 DEF Takes
      <4>3. /\ Silence(0) \in Seq(Int) /\ Len(Silence(0)) = 0
            /\ From(took + 0, 0) \in Seq(Int) /\ Len(From(took + 0, 0)) = 0
        BY <1>2, SilenceIs, FromIs
      <4>4. Silence(0) = <<>> /\ From(took + 0, 0) = <<>>
        BY <4>3
      <4> QED
        BY <4>2, <4>4
    <3> QED
      BY <3>1
  <2> QED
    BY <1>1, <1>3, <1>4, <2>1 DEF FileInv, ThreadInv
<1>9. ToldInv' /\ WriterTypes'
  BY <1>1, <1>2, <1>3, <1>4, <1>6 DEF FileInv, ToldInv, ThreadInv, WriterTypes
<1> QED
  BY <1>6, <1>7, <1>8, <1>9 DEF FileInv

LEMMA GivesUpKeeps == ASSUME FileInv, ReadGivesUp PROVE FileInv' /\ Lasting
<1> DEFINE passed == fed - took - Cap \div 2
<1>1. /\ mx = "answer" /\ fed - took > Cap
      /\ wt = "read" /\ wt' = "pushLast" /\ Takes(passed, 0)
      /\ UNCHANGED <<kind, mx, fed, told, stop, failed, last, enc, disk, data, at, head>>
  BY DEF ReadGivesUp, WriterGoes, mixer, file
<1>2. fed \in Nat /\ took \in Nat /\ took <= fed /\ lost \in Nat /\ todo = <<>>
  BY <1>1 DEF FileInv, WriterTypes, ThreadInv
<1>3. passed \in Nat /\ took + passed + 0 <= fed
  <2>1. Cap \div 2 \in Nat /\ Cap \div 2 <= Cap
    BY WriterAssumption DEF WriterAssumption
  <2> QED
    BY <1>1, <1>2, <2>1, WriterAssumption DEF WriterAssumption
<1> HIDE DEF passed
<1>4. took' = took + passed + 0 /\ lost' = lost + passed
  BY <1>1 DEF Takes
<1>5. FileStays
  BY <1>1 DEF FileStays
<1>6. WholeInv' /\ todo' \in Seq(Int)
  BY <1>1, <1>2, <1>3, <1>5, TakesKeeps
<1>7. DiskInv' /\ HeadInv' /\ Lasting
  BY <1>1, <1>5, StaysKeeps
<1>8. ThreadInv' /\ ToldInv' /\ WriterTypes'
  BY <1>1, <1>2, <1>3, <1>4, <1>6 DEF FileInv, ToldInv, ThreadInv, WriterTypes
<1> QED
  BY <1>6, <1>7, <1>8 DEF FileInv

-----------------------------------------------------------------------------
(* The other steps.                                                        *)

LEMMA TrimKeeps == ASSUME FileInv, Trim PROVE FileInv' /\ Lasting
<1>1. /\ mx = "trim" /\ mx' = "closed" /\ told' = (told \/ failed \/ lost > 0)
      /\ disk' \in {disk, First(disk, data)}
      /\ UNCHANGED <<kind, fed, stop, failed, wt, last, took, todo, lost, enc, data, at, head>>
  BY DEF Trim, Moves, Verdict, writer
<1>2. data \in 0 .. Len(disk) /\ disk \in Seq(Int) /\ data \in Nat
  BY DEF FileInv, WriterTypes, DiskInv
<1>3. /\ disk' \in Seq(Int) /\ data <= Len(disk') /\ Len(disk') <= Len(disk)
      /\ \A i \in 1 .. Len(disk') : disk'[i] = disk[i]
  <2>1. CASE disk' = disk
    BY <1>2, <2>1
  <2>2. CASE disk' = First(disk, data)
    <3>1. disk' \in Seq(Int) /\ Len(disk') = data /\ \A i \in 1 .. data : disk'[i] = disk[i]
      BY <1>2, <2>2, CutIs
    <3> QED
      BY <1>2, <3>1
  <2> QED
    BY <1>1, <2>1, <2>2
<1>4. \A i \in 1 .. data : disk'[i] = disk[i]
  <2>1. ASSUME NEW i \in 1 .. data PROVE i \in 1 .. Len(disk')
    BY <1>2, <1>3
  <2> QED
    BY <1>3, <2>1
<1>5. DiskInv'
  <2>1. Placed(disk', data)
    BY <1>4 DEF FileInv, DiskInv, Placed
  <2>2. ASSUME NEW i \in data + 1 .. Len(disk') PROVE disk'[i] = Garbage
    <3>1. i \in data + 1 .. Len(disk) /\ i \in 1 .. Len(disk')
      BY <1>2, <1>3
    <3> QED
      BY <1>3, <3>1 DEF FileInv, DiskInv
  <2>3. data' <= Len(disk') /\ Len(disk') <= data' + 1
    BY <1>1, <1>2, <1>3 DEF FileInv, DiskInv
  <2> QED
    BY <1>1, <2>1, <2>2, <2>3 DEF FileInv, DiskInv, Placed
<1>6. HeadInv' /\ Says(head) <= Says(head')
  BY <1>1 DEF HeadInv, FileInv, WriterTypes, Sound, Says
<1>7. Lasting
  BY <1>1, <1>2, <1>4, <1>6 DEF Lasting
<1>8. WholeInv'
  <2>1. ASSUME ~failed PROVE disk' = disk
    <3>1. Len(disk) = data /\ Len(disk') = Len(disk)
      BY <1>2, <1>3, <2>1 DEF FileInv, WholeInv
    <3> QED
      BY <1>2, <1>3, <3>1, SeqEqual
  <2> QED
    BY <1>1, <2>1 DEF FileInv, WholeInv, Whole, SilentIn, Placed, Says
<1>9. ThreadInv'
  BY <1>1 DEF FileInv, ThreadInv
<1>10. ToldInv' /\ told' \in BOOLEAN
  <2>1. CASE failed \/ lost > 0 \/ told
    BY <1>1, <2>1 DEF ToldInv
  <2>2. CASE ~failed /\ ~(lost > 0) /\ ~told
    <3>1. lost = 0
      BY <2>2 DEF FileInv, WriterTypes
    <3>2. told' \in BOOLEAN
      BY <1>1, <2>2
    <3> QED
      BY <1>1, <2>2, <3>1, <3>2 DEF ToldInv
  <2> QED
    BY <2>1, <2>2
<1>11. WriterTypes'
  BY <1>1, <1>3, <1>10 DEF FileInv, WriterTypes
<1> QED
  BY <1>5, <1>6, <1>7, <1>8, <1>9, <1>10, <1>11 DEF FileInv

Quiet == Feed \/ Answer \/ Finalize \/ Join \/ Look \/ UNCHANGED writerVars

LEMMA QuietKeeps == ASSUME FileInv, Quiet PROVE FileInv' /\ Lasting
<1>1. /\ FileStays /\ UNCHANGED <<took, todo, lost>>
      /\ mx' \in {"seal", "trim", "closed"} => mx' = mx
      /\ mx \in {"seal", "trim", "closed"} => mx' = mx
  BY DEF Quiet, Feed, Answer, Finalize, Join, Look, Moves, WriterGoes, writerVars, mixer, writer,
         file, FileStays
<1>2. DiskInv' /\ HeadInv' /\ Lasting
  BY <1>1, StaysKeeps
<1>3. WholeInv'
  BY <1>1 DEF FileInv, WholeInv, Whole, SilentIn, Placed, Says, FileStays
<1>4. WriterTypes'
  <2>1. /\ mx' \in {"feed", "answer", "join", "flush", "seal", "trim", "closed"}
        /\ wt' \in {"look", "read", "push", "pushLast", "patch", "gone"}
        /\ told' \in BOOLEAN /\ stop' \in BOOLEAN /\ last' \in BOOLEAN
        /\ fed' \in Nat /\ fed <= fed'
    <3>1. CASE Feed
      <4>1. PICK n \in 1 .. MaxBlock : fed' = fed + n
        BY <3>1 DEF Feed
      <4>2. n \in Nat
        BY WriterAssumption DEF WriterAssumption
      <4>3. mx' = "answer" /\ UNCHANGED <<told, stop, wt, last>>
        BY <3>1 DEF Feed, Moves, writer
      <4> QED
        BY <4>1, <4>2, <4>3 DEF FileInv, WriterTypes
    <3>2. CASE Answer
      BY <3>2 DEF Answer, Moves, writer, FileInv, WriterTypes
    <3>3. CASE Finalize \/ Join
      <4>1. CASE Finalize
        BY <4>1 DEF Finalize, Moves, writer, FileInv, WriterTypes
      <4>2. CASE Join
        BY <4>2 DEF Join, Moves, writer, FileInv, WriterTypes
      <4> QED
        BY <3>3, <4>1, <4>2
    <3>4. CASE Look
      BY <3>4 DEF Look, WriterGoes, mixer, FileInv, WriterTypes
    <3>5. CASE UNCHANGED writerVars
      BY <3>5 DEF writerVars, mixer, writer, FileInv, WriterTypes
    <3> QED
      BY <3>1, <3>2, <3>3, <3>4, <3>5 DEF Quiet
  <2> QED
    BY <1>1, <2>1 DEF FileInv, WriterTypes, FileStays
<1>5. ThreadInv'
  BY <1>1 DEF Quiet, Feed, Answer, Finalize, Join, Look, Moves, WriterGoes, writerVars, mixer,
              writer, FileInv, WriterTypes, ThreadInv
<1>6. ToldInv'
  BY <1>1 DEF Quiet, Feed, Answer, Finalize, Join, Look, Moves, WriterGoes, writerVars, mixer,
              writer, FileInv, FileStays, ToldInv
<1> QED
  BY <1>2, <1>3, <1>4, <1>5, <1>6 DEF FileInv

LEMMA InitFileInv == WriterInit => FileInv
<1> SUFFICES ASSUME WriterInit PROVE FileInv
  OBVIOUS
<1>1. WriterTypes
  <2>1. kind \in {"wav", "mp3", "ogg"}
    BY WriterAssumption DEF WriterAssumption, WriterInit
  <2>2. todo \in Seq(Int) /\ enc \in Seq(Int) /\ disk \in Seq(Int)
    BY DEF WriterInit
  <2>3. told \in BOOLEAN /\ stop \in BOOLEAN /\ failed \in BOOLEAN /\ last \in BOOLEAN
    BY DEF WriterInit
  <2>4. fed = 0 /\ took = 0 /\ lost = 0 /\ data = 0 /\ mx = "feed" /\ wt = "look"
    BY DEF WriterInit
  <2> QED
    BY <2>1, <2>2, <2>3, <2>4 DEF WriterTypes
<1>2. DiskInv
  BY DEF WriterInit, DiskInv, Placed
<1>3. HeadInv
  <2>1. Says(HeaderFor(0)) = 0 /\ Sound(HeaderFor(0))
    BY HeaderIs
  <2> QED
    BY <2>1 DEF WriterInit, HeadInv
<1>4. WholeInv
  <2>1. Whole = <<>>
    BY DEF WriterInit, Whole
  <2>2. SilentIn(Whole) = {}
    BY <2>1 DEF SilentIn
  <2>3. Cardinality(SilentIn(Whole)) = 0
    BY <2>2, FS_EmptySet
  <2> QED
    BY <2>1, <2>3 DEF WriterInit, WholeInv, Placed
<1>5. ThreadInv /\ ToldInv
  BY DEF WriterInit, ThreadInv, ToldInv
<1> QED
  BY <1>1, <1>2, <1>3, <1>4, <1>5 DEF FileInv

LEMMA NextKeeps == ASSUME FileInv, [WriterNext]_writerVars PROVE FileInv' /\ Lasting
<1>1. CASE Push
  BY <1>1, PushKeeps
<1>2. CASE Flush
  BY <1>2, FlushKeeps
<1>3. CASE Seal
  BY <1>3, SealKeeps
<1>4. CASE Patch
  BY <1>4, PatchKeeps
<1>5. CASE Read
  BY <1>5, ReadKeeps
<1>6. CASE ReadGivesUp
  BY <1>6, GivesUpKeeps
<1>7. CASE Trim
  BY <1>7, TrimKeeps
<1>8. CASE Quiet
  BY <1>8, QuietKeeps
<1> QED
  BY <1>1, <1>2, <1>3, <1>4, <1>5, <1>6, <1>7, <1>8 DEF WriterNext, Quiet

\* The file, what is on its way to it and the mixer's count agree, through every
\* failure of the disk (writer_thread, write_payload, finalize).
THEOREM FileInvariant == WriterSpec => []FileInv
  BY InitFileInv, NextKeeps, PTL DEF WriterSpec

-----------------------------------------------------------------------------
(* What a player makes of it.                                              *)

\* Of a wav what the header says, of the others what is known to be whole.
Kept == IF kind = "wav" THEN Says(head) ELSE data

HeardInv ==
    /\ Kept \in 0 .. data /\ Kept \in Nat /\ data \in Nat
    /\ Heard \in Seq(Int) /\ Len(Heard) = Kept
    /\ \A i \in 1 .. Kept : Heard[i] = disk[i]

LEMMA KeptIs == ASSUME FileInv PROVE Kept \in 0 .. data /\ Kept \in 0 .. Len(disk) /\ Kept \in Nat
  BY DEF FileInv, WriterTypes, DiskInv, HeadInv, Kept

LEMMA HeardIs ==
    ASSUME FileInv PROVE HeardInv /\ Heard = First(disk, Kept)
<1> DEFINE bad == {i \in DOMAIN disk : disk[i] = Garbage}
           first == CHOOSE i \in bad : \A j \in bad : i <= j
           end == IF kind = "wav" THEN Says(head)
                  ELSE IF bad = {} THEN Len(disk)
                  ELSE first - 1
<1>0. disk \in Seq(Int) /\ DOMAIN disk = 1 .. Len(disk)
  BY DEF FileInv, WriterTypes
<1>1. /\ Len(disk) \in Nat /\ data \in Nat /\ data <= Len(disk) /\ Len(disk) <= data + 1
      /\ Len(disk) = data \/ data + 1 \in data + 1 .. Len(disk)
  BY DEF FileInv, WriterTypes, DiskInv
<1>2. bad = data + 1 .. Len(disk)
  <2>1. ASSUME NEW i \in data + 1 .. Len(disk) PROVE i \in bad
    <3>1. disk[i] = Garbage
      BY DEF FileInv, DiskInv
    <3>2. i \in 1 .. Len(disk)
      BY <1>1
    <3> QED
      BY <1>0, <3>1, <3>2
  <2>2. ASSUME NEW i \in bad PROVE i \in data + 1 .. Len(disk)
    <3>1. i \in 1 .. Len(disk) /\ disk[i] = Garbage
      BY <1>0
    <3>2. CASE i <= data
      <4>1. disk[i] \in {i - 1, Silent}
        BY <1>1, <3>1, <3>2 DEF FileInv, DiskInv, Placed
      <4> QED
        BY <3>1, <4>1 DEF Garbage, Silent
    <3> QED
      BY <1>1, <3>1, <3>2
  <2> QED
    BY <2>1, <2>2
<1> HIDE DEF bad
<1>3. end = IF kind = "wav" THEN Says(head) ELSE data
  <2>1. CASE bad = {}
    <3>1. Len(disk) = data
      BY <1>1, <1>2, <2>1
    <3> QED
      BY <2>1, <3>1
  <2>2. CASE bad # {}
    <3>1. data + 1 \in bad /\ \A j \in bad : j = data + 1
      BY <1>1, <1>2, <2>2
    <3>2. first = data + 1
      <4>1. \E i \in bad : \A j \in bad : i <= j
        BY <1>1, <3>1
      <4>2. first \in bad
        BY <4>1
      <4> QED
        BY <3>1, <4>2
    <3> HIDE DEF first
    <3>3. first - 1 = data
      BY <1>1, <3>2
    <3> QED
      BY <2>2, <3>3
  <2> QED
    BY <2>1, <2>2
<1>4. Kept \in 0 .. Len(disk)
  BY KeptIs
<1>5. Heard = First(disk, Lesser(end, Len(disk)))
  BY DEF Heard, bad
<1>6. Lesser(end, Len(disk)) = Kept
  BY <1>1, <1>3, <1>4 DEF Lesser, Kept
<1>7. Heard = First(disk, Kept)
  BY <1>5, <1>6
<1>8. /\ Heard \in Seq(Int) /\ Len(Heard) = Kept
      /\ \A i \in 1 .. Kept : Heard[i] = disk[i]
  BY <1>0, <1>4, <1>7, CutIs
<1> QED
  BY <1>1, <1>7, <1>8, KeptIs DEF HeardInv

LEMMA AlwaysHeard == WriterSpec => []HeardInv
  BY HeardIs, FileInvariant, PTL

\* What a player plays: silence, what it hears of the take, silence.
LEMMA PlaysIs ==
    ASSUME Heard \in Seq(Int)
    PROVE  /\ Plays \in Seq(Int) /\ Before \in Nat /\ After \in Nat
           /\ Len(Plays) = Before + Len(Heard) + After
           /\ \A i \in 1 .. Len(Plays) :
                Plays[i] = Silent \/ (i - Before \in 1 .. Len(Heard) /\ Plays[i] = Heard[i - Before])
<1> DEFINE b == Silence(Before)
           a == Silence(After)
           h == b \o Heard
<1>1. Before \in Nat /\ After \in Nat
  BY WriterAssumption DEF Before, After, WriterAssumption
<1>2. /\ b \in Seq(Int) /\ Len(b) = Before /\ \A i \in 1 .. Before : b[i] = Silent
      /\ a \in Seq(Int) /\ Len(a) = After /\ \A i \in 1 .. After : a[i] = Silent
  BY <1>1, SilenceIs
<1> HIDE DEF a, b
<1>3. /\ h \in Seq(Int) /\ Len(h) = Len(b) + Len(Heard)
      /\ \A i \in 1 .. Len(b) : h[i] = b[i]
      /\ \A i \in 1 .. Len(Heard) : h[Len(b) + i] = Heard[i]
  BY <1>2, JoinIs
<1> HIDE DEF h
<1>4. /\ h \o a \in Seq(Int) /\ Len(h \o a) = Len(h) + Len(a)
      /\ \A i \in 1 .. Len(h) : (h \o a)[i] = h[i]
      /\ \A i \in 1 .. Len(a) : (h \o a)[Len(h) + i] = a[i]
  BY <1>2, <1>3, JoinIs
<1>5. Plays = h \o a
  BY DEF Plays, h, a, b
<1>6. Len(Heard) \in Nat
  OBVIOUS
<1>7. ASSUME NEW i \in 1 .. Len(Plays)
      PROVE  Plays[i] = Silent \/ (i - Before \in 1 .. Len(Heard) /\ Plays[i] = Heard[i - Before])
  <2>1. CASE i <= Before
    <3>1. i \in 1 .. Len(b) /\ i \in 1 .. Len(h) /\ i \in 1 .. Before
      BY <1>1, <1>2, <1>3, <1>6, <2>1
    <3> QED
      BY <1>2, <1>3, <1>4, <1>5, <3>1
  <2>2. CASE i > Before /\ i <= Before + Len(Heard)
    <3>1. i - Before \in 1 .. Len(Heard) /\ i \in 1 .. Len(h) /\ Len(b) + (i - Before) = i
      BY <1>1, <1>2, <1>3, <1>6, <2>2
    <3>2. h[Len(b) + (i - Before)] = Heard[i - Before]
      BY <1>3, <3>1
    <3> QED
      BY <1>4, <1>5, <3>1, <3>2
  <2>3. CASE i > Before + Len(Heard)
    <3> DEFINE j == i - Len(h)
    <3>1. j \in 1 .. Len(a) /\ j \in 1 .. After /\ Len(h) + j = i
      BY <1>1, <1>2, <1>3, <1>4, <1>5, <1>6, <2>3
    <3>2. (h \o a)[Len(h) + j] = a[j] /\ a[j] = Silent
      BY <1>2, <1>4, <3>1
    <3> QED
      BY <1>5, <3>1, <3>2
  <2> QED
    BY <1>1, <1>6, <2>1, <2>2, <2>3
<1> QED
  BY <1>1, <1>2, <1>3, <1>4, <1>5, <1>7

\* action_wav.c's promise, "playable at every instant": whenever the process dies,
\* and whatever the disk did, what a player finds is the take from its beginning,
\* behind some silence if it is an mp3 whose tag was not written yet (write_payload,
\* patch_header, encode, push_pcm, mp3_write_lametag).
THEOREM EveryKillLeavesAFile == WriterSpec => []AlwaysPlays
<1>1. ASSUME FileInv PROVE AlwaysPlays
  <2>1. kind = "wav" => Sound(head) /\ Says(head) <= Len(disk)
    BY <1>1 DEF FileInv, WriterTypes, DiskInv, HeadInv
  <2>2. /\ Heard \in Seq(Int) /\ Len(Heard) \in 0 .. data /\ data \in Nat
        /\ \A i \in 1 .. Len(Heard) : Heard[i] = disk[i]
    BY <1>1, HeardIs DEF HeardInv
  <2>3. ASSUME NEW i \in 1 .. Len(Heard) PROVE Heard[i] \in {i - 1, Silent}
    <3>1. i \in 1 .. data
      BY <2>2
    <3> QED
      BY <1>1, <2>2, <3>1 DEF FileInv, DiskInv, Placed
  <2>4. ASSUME NEW i \in DOMAIN Plays
        PROVE  Plays[i] = Silent \/ (i > Before /\ Plays[i] = i - 1 - Before)
    <3>1. /\ i \in 1 .. Len(Plays) /\ Before \in Nat /\ i \in Nat
          /\ Plays[i] = Silent \/ (i - Before \in 1 .. Len(Heard) /\ Plays[i] = Heard[i - Before])
      BY <2>2, PlaysIs
    <3>2. CASE i - Before \in 1 .. Len(Heard) /\ Plays[i] = Heard[i - Before]
      <4>1. Heard[i - Before] \in {(i - Before) - 1, Silent} /\ i - Before >= 1
        BY <2>2, <2>3, <3>2
      <4>2. i > Before /\ (i - Before) - 1 = i - 1 - Before
        BY <3>1, <4>1
      <4> QED
        BY <3>2, <4>1, <4>2
    <3> QED
      BY <3>1, <3>2
  <2> QED
    BY <2>1, <2>4 DEF AlwaysPlays
<1> QED
  BY <1>1, FileInvariant, PTL

\* No step takes back a frame a kill before it would have left: not a header that
\* is rewritten, not a flush, not the cut at the end (patch_header,
\* mp3_write_lametag, trim).
THEOREM NothingIsTakenBack == WriterSpec => NeverTakenBack
<1>1. ASSUME HeardInv, HeardInv', Lasting
      PROVE  /\ Len(Heard) <= Len(Heard')
             /\ \A i \in DOMAIN Heard : Heard'[i] = Heard[i]
  <2>1. /\ Heard \in Seq(Int) /\ Len(Heard) = Kept /\ \A i \in 1 .. Kept : Heard[i] = disk[i]
        /\ Kept \in 0 .. data /\ Kept \in Nat /\ data \in Nat
    BY <1>1 DEF HeardInv
  <2>2. /\ Len(Heard') = Kept' /\ \A i \in 1 .. Kept' : Heard'[i] = disk'[i]
        /\ Kept' \in Nat
    BY <1>1 DEF HeardInv
  <2>3. Kept <= Kept'
    BY <1>1 DEF Lasting, Kept
  <2>4. ASSUME NEW i \in 1 .. Kept PROVE Heard'[i] = Heard[i]
    <3>1. i \in 1 .. Kept' /\ i \in 1 .. data
      BY <2>1, <2>2, <2>3
    <3>2. disk'[i] = disk[i]
      BY <1>1, <3>1 DEF Lasting
    <3> QED
      BY <2>1, <2>2, <3>1, <3>2
  <2>5. DOMAIN Heard = 1 .. Kept
    BY <2>1
  <2> QED
    BY <2>1, <2>2, <2>3, <2>4, <2>5
<1>2. FileInv /\ HeardInv /\ HeardInv' /\ [WriterNext]_writerVars =>
        [ /\ Len(Heard) <= Len(Heard')
          /\ \A i \in DOMAIN Heard : Heard'[i] = Heard[i] ]_writerVars
  BY <1>1, NextKeeps
<1> QED
  BY <1>2, FileInvariant, AlwaysHeard, PTL DEF WriterSpec, NeverTakenBack

\* What the writer has taken is what is in a file that was finished.
LEMMA FinishedIs ==
    ASSUME FileInv, mx = "closed", ~failed
    PROVE  Heard = Whole /\ Len(Whole) = fed /\ Heard \in Seq(Int)
<1>1. todo = <<>> /\ took = fed
  BY DEF FileInv, ThreadInv
<1>2. enc = <<>> /\ Kept = data /\ Len(disk) = data /\ Len(Whole) = took
  BY DEF FileInv, WholeInv, Kept
<1>3. disk \in Seq(Int)
  BY DEF FileInv, WriterTypes
<1>4. Whole = disk
  BY <1>1, <1>2, <1>3, ConcatEmptySeq DEF Whole
<1>5. Heard = disk
  BY <1>2, <1>3, HeardIs, SubSeqFull DEF First
<1> QED
  BY <1>1, <1>2, <1>3, <1>4, <1>5

\* A file finished without a failure is as long as what the mixer produced, with
\* one silent frame for each that was lost (writer_thread's padding, finalize).
THEOREM FinishedLinesUp == WriterSpec => []AsLongAsTheTake
<1>1. ASSUME FileInv, mx = "closed", ~failed
      PROVE  /\ Len(Plays) = Before + fed + After
             /\ Cardinality({i \in DOMAIN Heard : Heard[i] = Silent}) = lost
  <2>1. Heard = Whole /\ Len(Whole) = fed /\ Heard \in Seq(Int)
    BY <1>1, FinishedIs
  <2>2. Len(Plays) = Before + fed + After
    BY <2>1, PlaysIs
  <2> QED
    BY <1>1, <2>1, <2>2 DEF FileInv, WholeInv, SilentIn
<1> QED
  BY <1>1, FileInvariant, PTL DEF AsLongAsTheTake

\* Whoever has been told of nothing has every frame (finalize's verdict, close_action).
THEOREM SilenceMeansWhole == WriterSpec => []UntoldIsWhole
<1>1. ASSUME FileInv, mx = "closed", ~told
      PROVE  Plays = Silence(Before) \o From(0, fed) \o Silence(After)
  <2>1. ~failed /\ lost = 0
    BY <1>1 DEF FileInv, ToldInv
  <2>2. Heard = Whole /\ Len(Whole) = fed /\ fed \in Nat
    BY <1>1, <2>1, FinishedIs DEF FileInv, WriterTypes
  <2>3. Placed(Whole, fed) /\ Cardinality(SilentIn(Whole)) = 0
    BY <1>1, <2>1, <2>2 DEF FileInv, WholeInv
  <2>4. Whole \in Seq(Int) /\ DOMAIN Whole = 1 .. fed
    BY <1>1, <2>2, WholeIs DEF FileInv
  <2>5. SilentIn(Whole) = {}
    <3>1. IsFiniteSet(1 .. fed) /\ SilentIn(Whole) \subseteq 1 .. fed
      BY <2>2, <2>4, FS_Interval DEF SilentIn
    <3>2. IsFiniteSet(SilentIn(Whole))
      BY <3>1, FS_Subset
    <3> QED
      BY <2>3, <3>2, FS_EmptySet
  <2>6. ASSUME NEW i \in 1 .. fed PROVE Whole[i] = 0 + i - 1
    <3>1. Whole[i] \in {i - 1, Silent} /\ Whole[i] # Silent
      BY <2>3, <2>4, <2>5 DEF Placed, SilentIn
    <3> QED
      BY <3>1
  <2>7. /\ From(0, fed) \in Seq(Int) /\ Len(From(0, fed)) = fed
        /\ \A i \in 1 .. fed : From(0, fed)[i] = 0 + i - 1
    BY <2>2, FromIs
  <2>8. Whole = From(0, fed)
    <3>1. \A i \in 1 .. Len(Whole) : Whole[i] = From(0, fed)[i]
      BY <2>2, <2>6, <2>7
    <3> QED
      BY <2>2, <2>4, <2>7, <3>1, SeqEqual
  <2> QED
    BY <2>2, <2>8 DEF Plays
<1> QED
  BY <1>1, FileInvariant, PTL DEF UntoldIsWhole
=============================================================================
