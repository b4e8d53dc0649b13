---------------------------- MODULE SourceProofs ----------------------------
(***************************************************************************)
(* A source: who may write its ring, and what is where in it.              *)
(*                                                                         *)
(* For every set of captures and every number of faults: a source's ring   *)
(* never has two producers, and the loop never asks a freed capture for    *)
(* its status.  Both rest on one fact about ownership: a capture that has  *)
(* not been freed is attached or in the worker's hand, never both and      *)
(* never anywhere else; and the worker's step says which it is.  From it   *)
(* follows, too, that an exclusion that is held records nothing.           *)
(*                                                                         *)
(* For one recording of any length, with any losses a ring can hold, exits *)
(* and returns of the target, pauses and sizes of ring: every frame of the *)
(* file is where its capture time says.  A capture counts from its own     *)
(* anchor, the source from the first of them, the bus from its start, and  *)
(* the reader from where it begins again after a pause; the invariant says *)
(* that the four agree at each moment, which makes each fill exactly as    *)
(* long as what is missing.                                                *)
(***************************************************************************)
EXTENDS SourceLink, Timeline, TLAPS


\* The worker has a capture in hand exactly in these steps, and then the source
\* has none; in the others of these steps it is known what the source has.
Ownership ==
    /\ wptr # NoCap <=> wpc \in {"spin", "destroy", "publish"}
    /\ wpc \in {"spin", "destroy", "publish", "pad", "down", "create"} => cap = NoCap
    /\ wpc \in {"revive", "start", "won"} => cap # NoCap
    /\ cap # NoCap => obj[cap] # "none"
    /\ wptr # NoCap => obj[wptr] # "none"
    /\ \A c \in Captures : obj[c] # "none" => c = cap \/ c = wptr

\* A capture pointer in the loop's hand is attached, or the worker is waiting
\* for the gate with that very capture.
Gated ==
    /\ users = (IF lpc \in {"gated", "status"} THEN 1 ELSE 0)
    /\ lptr # NoCap => lpc = "status" /\ (lptr = cap \/ (wpc = "spin" /\ lptr = wptr))
    /\ phase # "run" => lpc = "idle"
    /\ phase \in {"joined", "stopped", "over"} => wpc = "rest"

\* A link is LIVE only with a capture, until a detach takes it.
Linked ==
    /\ wpc = "rest" /\ link = "LIVE" /\ phase # "over" => cap # NoCap
    /\ wpc \in {"pad", "search", "create", "publish", "revive", "start", "lost"} => link # "LIVE"
    /\ wpc \in {"take", "spin", "destroy"} /\ wfor = "reattach" => link # "LIVE"

\* The types the argument needs.
Types ==
    /\ obj \in [Captures -> Objs]
    /\ cap \in Captures \cup {NoCap} /\ wptr \in Captures \cup {NoCap}
    /\ lptr \in Captures \cup {NoCap} /\ users \in 0 .. 1
    /\ wpc \in WorkerPC /\ lpc \in LoopPC /\ phase \in Phases
    /\ wfor \in {"down", "reattach"} /\ link \in Links

IInv == Types /\ Ownership /\ Gated /\ Linked

-----------------------------------------------------------------------------
(* Each party's steps keep the invariant.                                  *)

LEMMA InitIInv == Init => IInv
  BY LinkAssumption DEF Init, IInv, Types, Ownership, Gated, Linked, Writing,
                        Objs, Links, WorkerPC, LoopPC, Phases

LEMMA WorldKeeps == ASSUME IInv, World PROVE IInv'
<1> USE DEF IInv, Types, Ownership, Gated, Linked, target, caps, source, slot, worker, loop
<1>1. CASE TargetExits
  BY <1>1 DEF TargetExits
<1>2. CASE TargetReturns
  BY <1>2 DEF TargetReturns
<1>3. CASE Tick
  BY <1>3 DEF Tick
<1>4. ASSUME NEW c \in Captures, NoticeDeath(c) PROVE IInv'
  BY <1>4 DEF NoticeDeath
<1> QED
  BY <1>1, <1>2, <1>3, <1>4 DEF World

LEMMA SearchKeeps == ASSUME IInv, FindDown \/ GoDown \/ Search PROVE IInv'
<1> USE LinkAssumption DEF IInv, Types, Ownership, Gated, Linked, target, caps, source, slot,
        worker, loop, WorkerGoes, WorkerPC, Links,
        DownLink, MayPad, Fault
<1>1. CASE FindDown
  BY <1>1 DEF FindDown
<1>2. CASE GoDown
  BY <1>2 DEF GoDown
<1>3. CASE BeginPad
  BY <1>3 DEF BeginPad
<1>4. CASE EndPad
  BY <1>4 DEF EndPad
<1>5. CASE NotDue
  BY <1>5 DEF NotDue
<1>6. CASE SearchFails
  BY <1>6 DEF SearchFails
<1>7. CASE SearchRefuses
  BY <1>7 DEF SearchRefuses
<1>8. CASE SearchFinds
  BY <1>8 DEF SearchFinds
<1> QED
  BY <1>1, <1>2, <1>3, <1>4, <1>5, <1>6, <1>7, <1>8 DEF Search

\* A capture whose retiring was given up is neither freed nor pumping as before.
LEMMA AbandonedIs == ASSUME NEW c \in Captures PROVE Abandoned(c) \subseteq {"stuck", "half", "muted"}
  BY DEF Abandoned, Unretirable

LEMMA DetachKeeps == ASSUME IInv, Detach PROVE IInv'
<1> USE LinkAssumption DEF IInv, Types, Ownership, Gated, Linked, target, caps, source, slot,
        worker, loop, WorkerGoes, WorkerPC, Objs, AfterDetach, Fault
<1>1. CASE TakeNothing
  BY <1>1 DEF TakeNothing
<1>2. CASE TakeCapture
  BY <1>2 DEF TakeCapture
<1>3. CASE Spin
  BY <1>3 DEF Spin
<1>4. CASE Destroyed
  BY <1>4 DEF Destroyed
<1>5. CASE DestroyAbandoned
  <2>1. /\ wpc = "destroy" /\ wptr # NoCap /\ cap = NoCap /\ cap' = wptr /\ wptr' = NoCap
        /\ wpc' = (IF wfor = "down" THEN "rest" ELSE "lost")
        /\ UNCHANGED <<users, slot, wfor, loop, phase>>
    BY <1>5 DEF DestroyAbandoned
  <2>2. PICK o \in {"stuck", "half", "muted"} : obj' = [obj EXCEPT ![wptr] = o]
    BY <1>5, <2>1, AbandonedIs DEF DestroyAbandoned
  <2> QED
    BY <2>1, <2>2
<1> QED
  BY <1>1, <1>2, <1>3, <1>4, <1>5 DEF Detach

LEMMA AttachKeeps == ASSUME IInv, Attach PROVE IInv'
<1> USE LinkAssumption DEF IInv, Types, Ownership, Gated, Linked, target, caps, source, slot,
        worker, loop, WorkerGoes, WorkerPC, Objs,
        Links, Free, Fault, DownLink
<1>1. CASE Created
  BY <1>1 DEF Created
<1>2. CASE CreateFails
  BY <1>2 DEF CreateFails
<1>3. CASE CreateHalfOpen
  BY <1>3 DEF CreateHalfOpen
<1>4. CASE Publish
  BY <1>4 DEF Publish
<1>5. CASE Revive
  BY <1>5 DEF Revive
<1>6. CASE Started
  BY <1>6 DEF Started
<1>7. CASE StartFails
  BY <1>7 DEF StartFails
<1>8. CASE Won
  BY <1>8 DEF Won
<1>9. CASE Lost
  BY <1>9 DEF Lost
<1> QED
  BY <1>1, <1>2, <1>3, <1>4, <1>5, <1>6, <1>7, <1>8, <1>9 DEF Attach

LEMMA LoopKeeps == ASSUME IInv, Loop PROVE IInv'
<1> USE LinkAssumption DEF IInv, Types, Ownership, Gated, Linked, target, caps, source, slot,
        worker, loop, LoopGoes, LoopPC
<1>1. CASE Gate
  BY <1>1 DEF Gate
<1>2. CASE ReadCap
  BY <1>2 DEF ReadCap
<1>3. CASE AskStatus
  BY <1>3 DEF AskStatus
<1>4. CASE Sample
  BY <1>4 DEF Sample
<1>5. CASE Report
  BY <1>5 DEF Report
<1> QED
  BY <1>1, <1>2, <1>3, <1>4, <1>5 DEF Loop

LEMMA FinishKeeps == ASSUME IInv, Finish PROVE IInv'
<1> USE LinkAssumption DEF IInv, Types, Ownership, Gated, Linked, target, caps, source, slot,
        worker, loop, Phases, Objs, Fault
<1>1. CASE LeaveLoop
  BY <1>1 DEF LeaveLoop
<1>2. CASE JoinWorker
  BY <1>2 DEF JoinWorker
<1>3. CASE StopSource
  BY <1>3 DEF StopSource
<1>4. CASE DestroySource
  <2>1. /\ phase' = "over" /\ phase = "stopped" /\ wpc = "rest" /\ lpc = "idle"
        /\ UNCHANGED <<users, slot, worker, loop>> /\ wptr = NoCap /\ lptr = NoCap
    BY <1>4 DEF DestroySource
  <2>2. CASE cap' = NoCap /\ obj' = [c \in Captures |-> IF c = cap THEN "none" ELSE obj[c]]
    BY <2>1, <2>2
  <2>3. ASSUME cap # NoCap, cap' = cap, NEW o \in Abandoned(cap), obj' = [obj EXCEPT ![cap] = o]
        PROVE  IInv'
    <3>1. o \in {"stuck", "half", "muted"}
      BY <2>3, AbandonedIs
    <3> QED
      BY <2>1, <2>3, <3>1
  <2> QED
    BY <1>4, <2>2, <2>3 DEF DestroySource
<1> QED
  BY <1>1, <1>2, <1>3, <1>4 DEF Finish

\* The invariant holds throughout every run.
THEOREM OwnershipInvariant == Spec => []IInv
<1>1. Init => IInv
  BY InitIInv
<1>2. IInv /\ [Next]_vars => IInv'
  <2> SUFFICES ASSUME IInv, [Next]_vars PROVE IInv'
    OBVIOUS
  <2>1. CASE World
    BY <2>1, WorldKeeps
  <2>2. CASE Worker
    BY <2>2, SearchKeeps, DetachKeeps, AttachKeeps DEF Worker
  <2>3. CASE Loop
    BY <2>3, LoopKeeps
  <2>4. CASE Finish
    BY <2>4, FinishKeeps
  <2>5. CASE UNCHANGED vars
    BY <2>5 DEF vars, IInv, Types, Ownership, Gated, Linked, target, caps, source, slot,
                worker, loop
  <2> QED
    BY <2>1, <2>2, <2>3, <2>4, <2>5 DEF Next
<1> QED
  BY <1>1, <1>2, PTL DEF Spec

-----------------------------------------------------------------------------
(* What follows from it.                                                   *)

\* Never two captures writing one ring, nor a capture beside the padding,
\* whatever fails or is abandoned (source.c, apr_source_detach and _pad_to).
THEOREM OneProducer == Spec => []SingleProducer
<1>1. IInv => SingleProducer
  <2> SUFFICES ASSUME IInv PROVE SingleProducer
    OBVIOUS
  <2>1. \A c \in Captures : Writing(c) => c = cap \/ c = wptr
    BY DEF IInv, Ownership, Writing
  <2>2. cap = NoCap \/ wptr = NoCap
    BY DEF IInv, Ownership
  <2>3. wpc = "pad" => cap = NoCap /\ wptr = NoCap
    BY DEF IInv, Ownership
  <2> QED
    BY <2>1, <2>2, <2>3, LinkAssumption DEF SingleProducer
<1> QED
  BY <1>1, OwnershipInvariant, PTL

\* The cap_users gate: no status() call on a capture that has been freed.
THEOREM StatusOnlyOfTheLiving == Spec => []NoUseAfterFree
<1>1. IInv => NoUseAfterFree
  BY DEF IInv, Ownership, Gated, NoUseAfterFree
<1> QED
  BY <1>1, OwnershipInvariant, PTL

\* Every capture not yet freed is attached or in the worker's hand.
THEOREM NoneLost == Spec => []NoCaptureLost
<1>1. IInv => NoCaptureLost
  BY DEF IInv, Ownership, NoCaptureLost
<1> QED
  BY <1>1, OwnershipInvariant, PTL

\* A link says LIVE only of a source that has a capture.
THEOREM LiveHasCapture == Spec => []LiveIsAttached
<1>1. IInv => LiveIsAttached
  BY DEF IInv, Linked, LiveIsAttached
<1> QED
  BY <1>1, OwnershipInvariant, PTL

-----------------------------------------------------------------------------
(* What is held is silent.                                                 *)

\* A source whose link is down has no capture that pumps, but for the one that is about
\* to make it live.
HeldSilent == link # "LIVE" /\ wpc # "won" => \A c \in Captures : obj[c] # "pumping"

\* Once a capture has been retired for a source that goes down there is none.
LEMMA DownHasNone == ASSUME IInv, wpc = "down" PROVE \A c \in Captures : obj[c] = "none"
  BY LinkAssumption DEF IInv, Types, Ownership

LEMMA WorkerIsSilent == ASSUME IInv, HeldSilent, Worker PROVE HeldSilent'
<1> USE DEF HeldSilent, WorkerGoes, target, caps, source, slot, worker, loop
<1>1. CASE FindDown
  BY <1>1 DEF FindDown
<1>2. CASE GoDown
  BY <1>2, DownHasNone DEF GoDown
<1>3. CASE Search
  <2>1. UNCHANGED obj /\ wpc # "won" /\ wpc' # "won"
    BY <1>3 DEF Search, BeginPad, EndPad, NotDue, SearchFails, SearchRefuses, SearchFinds
  <2>2. link # "LIVE"
    BY <1>3 DEF Search, BeginPad, EndPad, NotDue, SearchFails, SearchRefuses, SearchFinds,
                IInv, Linked
  <2> QED
    BY <2>1, <2>2
<1>4. CASE Detach
  <2>1. link' = link /\ wpc # "won" /\ wpc' # "won"
    BY <1>4 DEF Detach, TakeNothing, TakeCapture, Spin, Destroyed, DestroyAbandoned, AfterDetach
  <2>2. \A c \in Captures : obj'[c] = "pumping" => obj[c] = "pumping"
    <3>1. CASE TakeNothing \/ TakeCapture \/ Spin \/ Destroyed
      BY <3>1 DEF TakeNothing, TakeCapture, Spin, Destroyed, IInv, Types
    <3>2. CASE DestroyAbandoned
      <4>1. wptr \in Captures
        BY <3>2 DEF DestroyAbandoned, IInv, Types, Ownership
      <4>2. PICK o \in {"stuck", "half", "muted"} : obj' = [obj EXCEPT ![wptr] = o]
        BY <3>2, <4>1, AbandonedIs DEF DestroyAbandoned
      <4> QED
        BY <4>2 DEF IInv, Types
    <3> QED
      BY <1>4, <3>1, <3>2 DEF Detach
  <2> QED
    BY <2>1, <2>2
<1>5. CASE Created \/ CreateFails \/ CreateHalfOpen \/ Publish \/ StartFails
  <2>1. link' = link /\ wpc # "won" /\ wpc' # "won"
    BY <1>5 DEF Created, CreateFails, CreateHalfOpen, Publish, StartFails
  <2>2. \A c \in Captures : obj'[c] = "pumping" => obj[c] = "pumping"
    BY <1>5 DEF Created, CreateFails, CreateHalfOpen, Publish, StartFails, IInv, Types
  <2> QED
    BY <2>1, <2>2
<1>6. CASE Revive
  BY <1>6 DEF Revive
<1>7. CASE Started
  BY <1>7 DEF Started
<1>8. CASE Won
  BY <1>8 DEF Won
<1>9. CASE Lost
  BY <1>9 DEF Lost, IInv, Linked
<1> QED
  BY <1>1, <1>2, <1>3, <1>4, <1>5, <1>6, <1>7, <1>8, <1>9 DEF Worker, Attach

LEMMA NextIsSilent == ASSUME IInv, HeldSilent, [Next]_vars PROVE HeldSilent'
<1> USE DEF HeldSilent, target, caps, source, slot, worker, loop
<1>1. CASE Worker
  BY <1>1, WorkerIsSilent
<1>2. CASE World \/ Loop \/ UNCHANGED vars
  <2>1. UNCHANGED <<link, wpc, obj>>
    BY <1>2 DEF World, TargetExits, TargetReturns, Tick, NoticeDeath, Loop, Gate, ReadCap,
                AskStatus, Sample, Report, vars
  <2> QED
    BY <2>1
<1>3. CASE Finish
  <2>1. UNCHANGED <<link, wpc>>
    BY <1>3 DEF Finish, LeaveLoop, JoinWorker, StopSource, DestroySource
  <2>2. \A c \in Captures : obj'[c] = "pumping" => obj[c] = "pumping"
    <3>1. CASE LeaveLoop \/ JoinWorker \/ StopSource
      BY <3>1 DEF LeaveLoop, JoinWorker, StopSource, IInv, Types
    <3>2. CASE DestroySource
      <4>1. CASE obj' = [c \in Captures |-> IF c = cap THEN "none" ELSE obj[c]]
        BY <4>1
      <4>2. ASSUME cap # NoCap, NEW o \in Abandoned(cap), obj' = [obj EXCEPT ![cap] = o]
            PROVE  \A c \in Captures : obj'[c] = "pumping" => obj[c] = "pumping"
        <5>1. o \in {"stuck", "half", "muted"}
          BY <4>2, AbandonedIs DEF IInv, Types
        <5> QED
          BY <4>2, <5>1 DEF IInv, Types
      <4> QED
        BY <3>2, <4>1, <4>2 DEF DestroySource
    <3> QED
      BY <1>3, <3>1, <3>2 DEF Finish
  <2> QED
    BY <2>1, <2>2
<1> QED
  BY <1>1, <1>2, <1>3 DEF Next

\* An exclusion that is held does not record the machine, whichever step fails or is
\* abandoned on the way (reconnect.h, exclusion_is_stale and run_search of reconnect.c).
THEOREM HeldRecordsNothing == Spec => []HeldIsSilent
<1>1. Init => HeldSilent
  BY DEF Init, HeldSilent
<1>2. HeldSilent => HeldIsSilent
  BY DEF HeldSilent, HeldIsSilent
<1> QED
  BY <1>1, <1>2, NextIsSilent, OwnershipInvariant, PTL DEF Spec

-----------------------------------------------------------------------------
(* The timeline of a source.  Its captures come and go, the origin from    *)
(* which its frames are counted does not.                                  *)

\* One recording with the graph, and of the unusual events at most the short pause, which
\* moves what is read and not what is written.
OneTake == MaxTakes = 1 /\ Unusual \subseteq {"early"}

\* Where frame 0 of the ring was captured, as far as anybody can know.
Origin == IF anchorS # None THEN anchorS
          ELSE IF anchorC # None THEN anchorC ELSE eng - frames

\* The frames of s are those from instant t on, or silence.
Placed(s, t) == \A i \in 1 .. Len(s) : s[i] # Silence => s[i] = t + i - 1

Readers == [begun : BOOLEAN, rebased : BOOLEAN, need : Nat, first : Nat, cur : Nat]

LineTypes ==
    /\ now \in Nat \ {0} /\ ring \in Seq(Nat)
    /\ on \in BOOLEAN /\ eng \in Nat /\ lossy \in BOOLEAN /\ died \in Nat
    /\ frames \in Nat /\ anchorC \in Nat /\ resume \in Nat /\ anchorS \in Nat
    /\ rd \in Readers
    /\ graph \in {"idle", "arming", "running"}
    /\ anchorB \in Nat /\ fout \in Nat /\ pausedAt \in Nat /\ takes \in Nat

\* Which parts of the state go with the graph's.
Stages ==
    /\ graph = "running" => (on <=> eng # None)
    /\ graph # "running" => eng = None /\ pausedAt = None
    /\ graph # "idle" => takes = 1 /\ anchorB # None
    /\ graph = "arming" \/ takes = 0 =>
          /\ on /\ ring = <<>> /\ frames = 0 /\ rd = Unbegun
          /\ anchorC = None /\ resume = None /\ anchorS = None

\* Every anchor is the instant of a frame that has been delivered.
Past ==
    /\ eng <= now /\ anchorC < now /\ anchorS < now /\ pausedAt <= now
    /\ anchorC # None => frames > 0

\* A capture that has not been anchored: the source's first, which has lost nothing since its
\* first packet, or one that has delivered nothing and was told the source's anchor.
Unanchored == on /\ eng # None /\ anchorC = None =>
    \/ resume = None /\ anchorS = None /\ Len(ring) = frames /\ frames < eng
    \/ /\ resume # None /\ resume = anchorS /\ frames = 0
       /\ anchorS < eng /\ anchorS + Len(ring) <= eng

\* An anchored one: what it has delivered and filled ends where the engine is, but for a loss
\* that its next packet will fill.
Anchored == anchorC # None /\ eng # None =>
    /\ resume = None /\ Origin + Len(ring) = anchorC + frames
    /\ anchorC + frames <= eng /\ eng <= anchorC + frames + Capacity
    /\ lossy \/ eng = anchorC + frames

\* No capture: the padding is never ahead of the clock.
Detached == ~on =>
    /\ eng = None /\ frames = 0 /\ anchorC = None /\ resume = None
    /\ anchorS = None => ring = <<>>
    /\ anchorS # None => anchorS + Len(ring) <= now

InPlace == anchorS # None \/ anchorC # None \/ eng # None => Placed(ring, Origin)

RingInv == LineTypes /\ Stages /\ Past /\ Unanchored /\ Anchored /\ Detached /\ InPlace

-----------------------------------------------------------------------------
(* What is appended to a ring.                                             *)

LEMMA SilentPlaced ==
    ASSUME NEW n \in Nat, NEW t \in Int
    PROVE  Silent(n) \in Seq(Nat) /\ Len(Silent(n)) = n /\ Placed(Silent(n), t)
  BY DEF Silent, Placed, Silence

LEMMA ContentPlaced ==
    ASSUME NEW n \in Nat, NEW t \in Nat \ {0}
    PROVE  Content(t, n) \in Seq(Nat) /\ Len(Content(t, n)) = n /\ Placed(Content(t, n), t)
  BY DEF Content, Placed, Silence

LEMMA JoinPlaced ==
    ASSUME NEW s \in Seq(Nat), NEW u \in Seq(Nat), NEW t \in Int,
           Placed(s, t), Placed(u, t + Len(s))
    PROVE  s \o u \in Seq(Nat) /\ Len(s \o u) = Len(s) + Len(u) /\ Placed(s \o u, t)
<1>1. s \o u \in Seq(Nat) /\ Len(s \o u) = Len(s) + Len(u)
  OBVIOUS
<1>2. ASSUME NEW i \in 1 .. Len(s \o u), (s \o u)[i] # Silence
      PROVE  (s \o u)[i] = t + i - 1
  <2>1. CASE i <= Len(s)
    BY <1>2, <2>1 DEF Placed
  <2>2. CASE i > Len(s)
    <3>1. i - Len(s) \in 1 .. Len(u) /\ (s \o u)[i] = u[i - Len(s)]
      BY <1>1, <2>2
    <3>2. u[i - Len(s)] = (t + Len(s)) + (i - Len(s)) - 1
      BY <1>2, <3>1 DEF Placed
    <3> QED
      BY <3>1, <3>2
  <2> QED
    BY <1>1, <2>1, <2>2
<1> QED
  BY <1>1, <1>2 DEF Placed

LEMMA SilentJoins ==
    ASSUME NEW s \in Seq(Nat), NEW n \in Nat, NEW t \in Int, Placed(s, t)
    PROVE  /\ s \o Silent(n) \in Seq(Nat) /\ Len(s \o Silent(n)) = Len(s) + n
           /\ Placed(s \o Silent(n), t)
<1>1. Silent(n) \in Seq(Nat) /\ Len(Silent(n)) = n /\ Placed(Silent(n), t + Len(s))
  BY SilentPlaced
<1> QED
  BY <1>1, JoinPlaced

-----------------------------------------------------------------------------
(* Each step keeps the ring in place.                                      *)

LEMMA NothingPlaced == ASSUME NEW t PROVE Placed(<<>>, t)
  BY DEF Placed

LEMMA RingStarts == LineInit => RingInv
<1> SUFFICES ASSUME LineInit PROVE RingInv
  OBVIOUS
<1>1. LineTypes
  <2>1. Unbegun \in Readers
    BY DEF Unbegun, Readers
  <2>2. <<>> \in Seq(Nat)
    OBVIOUS
  <2>3. rd = Unbegun /\ ring = <<>> /\ graph = "idle"
    BY DEF LineInit
  <2>4. /\ now \in Nat \ {0} /\ eng \in Nat /\ died \in Nat
        /\ frames \in Nat /\ anchorC \in Nat /\ resume \in Nat /\ anchorS \in Nat
        /\ anchorB \in Nat /\ fout \in Nat /\ pausedAt \in Nat /\ takes \in Nat
    BY DEF LineInit, None
  <2>5. on \in BOOLEAN /\ lossy \in BOOLEAN
    BY DEF LineInit
  <2> QED
    BY <2>1, <2>2, <2>3, <2>4, <2>5 DEF LineTypes
<1>2. Stages /\ Past /\ Unanchored /\ Anchored /\ Detached /\ InPlace
  BY DEF LineInit, Stages, Past, Unanchored, Anchored, Detached, InPlace, None
<1> QED
  BY <1>1, <1>2 DEF RingInv

\* What is said of the ring speaks of these variables alone, and grows weaker with time.
LEMMA RingStays ==
    ASSUME RingInv, LineTypes', Stages', now <= now', pausedAt' <= now',
           UNCHANGED <<ring, on, eng, lossy, frames, anchorC, resume, anchorS>>
    PROVE  RingInv'
<1>1. Past' /\ Detached'
  BY DEF RingInv, LineTypes, Past, Detached
<1>2. Unanchored' /\ Anchored' /\ InPlace'
  BY DEF RingInv, Unanchored, Anchored, InPlace, Origin, Placed
<1> QED
  BY <1>1, <1>2 DEF RingInv

LEMMA ClockKeeps == ASSUME RingInv, Pass \/ Die \/ Return PROVE RingInv'
<1>1. /\ UNCHANGED <<ring, on, eng, lossy, frames, anchorC, resume, anchorS>>
      /\ UNCHANGED <<rd, graph, anchorB, fout, pausedAt, takes>>
      /\ now' \in {now, now + 1} /\ died' \in {died, now, None}
  BY DEF Pass, Die, Return, capture, engine, stream, bus
<1>2. LineTypes' /\ now <= now' /\ pausedAt' <= now'
  BY <1>1 DEF RingInv, LineTypes, Past, None
<1>3. Stages'
  BY <1>1 DEF RingInv, Stages
<1> QED
  BY <1>1, <1>2, <1>3, RingStays

LEMMA StartKeeps == ASSUME OneTake, RingInv, Start PROVE RingInv'
<1>1. LineTypes' /\ Stages' /\ now <= now' /\ pausedAt' <= now'
      /\ UNCHANGED <<ring, on, eng, lossy, frames, anchorC, resume, anchorS>>
  BY TimelineAssumption DEF Start, BusStarts, OneTake, capture, engine, stream, RingInv, LineTypes,
                            Stages, Past, None
<1> QED
  BY <1>1, RingStays

LEMMA PauseKeeps == ASSUME RingInv, Pause \/ Resume PROVE RingInv'
<1>1. UNCHANGED <<now, ring, on, eng, lossy, died, frames, anchorC, resume, anchorS, graph,
                  fout, takes>>
  BY DEF Pause, Resume, BusResumes, capture, engine, stream
<1>2. rd' \in Readers
      /\ (graph # "running" => rd' = rd)
  BY DEF Pause, Resume, BusResumes, Rebased, RingInv, LineTypes, Readers
<1>3. /\ anchorB' \in Nat /\ anchorB <= anchorB' /\ pausedAt' \in Nat /\ pausedAt' <= now
      /\ graph = "running"
  BY DEF Pause, Resume, BusResumes, RingInv, LineTypes, Past, None
<1>4. LineTypes' /\ now <= now'
  BY <1>1, <1>2, <1>3 DEF RingInv, LineTypes
<1>5. Stages'
  BY <1>1, <1>3 DEF RingInv, Stages, LineTypes, None
<1> QED
  BY <1>1, <1>3, <1>4, <1>5, RingStays

LEMMA LoseKeeps == ASSUME OneTake, RingInv, NEW m \in 1 .. MaxTime, Lose(m) PROVE RingInv'
<1> USE TimelineAssumption DEF Lose, RingInv, LineTypes, Stages, Past, Unanchored, Anchored,
        Detached, InPlace, None, Origin, Placed, OneTake, Expected,
        stream, bus
<1>1. LineTypes'
  OBVIOUS
<1>2. Stages' /\ Past'
  OBVIOUS
<1>3. Unanchored' /\ Anchored' /\ Detached'
  OBVIOUS
<1>4. InPlace'
  OBVIOUS
<1> QED
  BY <1>1, <1>2, <1>3, <1>4

LEMMA DetachKeepsRing == ASSUME OneTake, RingInv, DetachDead PROVE RingInv'
<1> USE NothingPlaced DEF DetachDead, RingInv, LineTypes, Stages, Past, Unanchored, Anchored,
        Detached, InPlace, None, Origin, OneTake, bus
<1>1. LineTypes'
  OBVIOUS
<1>2. Stages' /\ Past'
  OBVIOUS
<1>3. Unanchored' /\ Anchored' /\ Detached'
  OBVIOUS
<1>4. InPlace'
  OBVIOUS
<1> QED
  BY <1>1, <1>2, <1>3, <1>4

LEMMA PadKeeps == ASSUME RingInv, PadTo PROVE RingInv'
<1>0. /\ anchorS # None /\ ~on /\ Missing \in Nat /\ Origin = anchorS /\ anchorS \in Nat
      /\ Len(ring) \in Nat /\ now \in Nat /\ ring \in Seq(Nat)
  BY DEF PadTo, RingInv, LineTypes, Missing, Expected, Origin
<1>1. Silent(Missing) \in Seq(Nat) /\ Len(Silent(Missing)) = Missing
      /\ Placed(Silent(Missing), anchorS + Len(ring))
  BY <1>0, SilentPlaced
<1>2. /\ ring' \in Seq(Nat) /\ Len(ring') = now - anchorS
      /\ Placed(ring', anchorS)
  BY <1>0, <1>1, JoinPlaced DEF PadTo, RingInv, InPlace, Missing, Expected
<1>3. UNCHANGED <<now, on, eng, lossy, died, frames, anchorC, resume, anchorS, rd, graph, anchorB,
                  fout, pausedAt, takes>>
  BY DEF PadTo, capture, engine, stream, bus
<1> QED
  BY <1>0, <1>2, <1>3 DEF RingInv, LineTypes, Stages, Past, Unanchored, Anchored,
     Detached, InPlace, None, Origin, PadTo

LEMMA ReattachKeeps == ASSUME RingInv, Reattach PROVE RingInv'
<1> USE NothingPlaced DEF Reattach, RingInv, LineTypes, Stages, Past, Unanchored, Anchored,
        Detached, InPlace, None, Origin, bus
<1>1. LineTypes'
  OBVIOUS
<1>2. Stages' /\ Past'
  OBVIOUS
<1>3. Unanchored' /\ Anchored' /\ Detached'
  OBVIOUS
<1>4. InPlace'
  OBVIOUS
<1> QED
  BY <1>1, <1>2, <1>3, <1>4

LEMMA ArmKeeps == ASSUME OneTake, RingInv, Arm PROVE RingInv'
<1> USE NothingPlaced DEF Arm, RingInv, LineTypes, Stages, Past, Unanchored, Anchored,
        Detached, InPlace, None, Origin, stream
<1>1. LineTypes'
  OBVIOUS
<1>2. Stages' /\ Past'
  OBVIOUS
<1>3. Unanchored' /\ Anchored' /\ Detached'
  OBVIOUS
<1>4. InPlace'
  OBVIOUS
<1> QED
  BY <1>1, <1>2, <1>3, <1>4

LEMMA StopKeeps == ASSUME RingInv, Stop PROVE RingInv'
<1> USE DEF Stop, RingInv, LineTypes, Stages, Past, Unanchored, Anchored,
        Detached, InPlace, None, Origin, stream
<1>1. LineTypes'
  OBVIOUS
<1>2. Stages' /\ Past'
  OBVIOUS
<1>3. Unanchored' /\ Anchored' /\ Detached'
  OBVIOUS
<1>4. InPlace'
  OBVIOUS
<1> QED
  BY <1>1, <1>2, <1>3, <1>4

LEMMA PacketKeeps ==
    ASSUME OneTake, RingInv, NEW bad \in BOOLEAN, Packet(bad) PROVE RingInv'
<1> DEFINE n   == now - eng
           gap == Gap(bad)
           pad == Rejoin(AnchorAt(bad))
<1>1. /\ now \in Nat \ {0} /\ ring \in Seq(Nat) /\ eng \in Nat \ {0} /\ n \in Nat \ {0}
      /\ frames \in Nat /\ anchorC \in Nat /\ anchorS \in Nat /\ resume \in Nat /\ Len(ring) \in Nat
      /\ on /\ ~(bad /\ lossy) /\ (bad => resume = None) /\ now = eng + n
  BY DEF Packet, RingInv, LineTypes, Past, None, OneTake
<1>2. /\ anchorC' = AnchorAt(bad) /\ resume' = (IF anchorC' = None THEN resume ELSE None)
      /\ ring' = (ring \o Silent(pad)) \o Silent(gap) \o Content(eng, n)
      /\ frames' = frames + gap + n /\ eng' = now /\ lossy' = FALSE
      /\ UNCHANGED <<now, on, died, anchorS, rd, graph, anchorB, fout, pausedAt, block, takes>>
  BY DEF Packet, bus
\* Whichever of the three captures it is, what is appended begins where the engine is.
<1>3. /\ gap \in Nat /\ pad \in Nat
      /\ anchorC # None => pad = 0 /\ gap = eng - anchorC - frames
      /\ anchorC = None => gap = 0
      /\ Origin \in Int /\ Origin + Len(ring) + pad + gap = eng
  <2>1. CASE anchorC # None
    <3>1. /\ resume = None /\ Origin + Len(ring) = anchorC + frames
          /\ anchorC + frames <= eng /\ eng <= anchorC + frames + Capacity
          /\ lossy \/ eng = anchorC + frames
      BY <1>1, <2>1 DEF RingInv, Anchored, None
    <3>2. pad = 0
      BY <3>1 DEF Rejoin
    <3>3. gap = eng - anchorC - frames
      <4>1. CASE lossy
        BY <1>1, <2>1, <3>1, <4>1, TimelineAssumption DEF Gap, Expected, Smaller, Larger
      <4>2. CASE ~lossy
        BY <1>1, <2>1, <3>1, <4>2 DEF Gap
      <4> QED
        BY <4>1, <4>2
    <3>4. Origin \in Int
      BY <1>1, <2>1 DEF Origin
    <3> QED
      BY <1>1, <2>1, <3>1, <3>2, <3>3, <3>4
  <2>2. CASE anchorC = None /\ resume = None
    <3>1. anchorS = None /\ Len(ring) = frames /\ Origin = eng - frames
      BY <1>1, <2>2 DEF RingInv, Unanchored, None, Origin
    <3>2. pad = 0 /\ gap = 0
      BY <2>2 DEF Rejoin, Gap
    <3> QED
      BY <1>1, <2>2, <3>1, <3>2
  <2>3. CASE anchorC = None /\ resume # None
    <3>1. /\ resume = anchorS /\ frames = 0 /\ anchorS < eng /\ anchorS + Len(ring) <= eng
          /\ Origin = anchorS
      BY <1>1, <2>3 DEF RingInv, Unanchored, None, Origin
    <3>2. AnchorAt(bad) = eng
      BY <1>1, <2>3, <3>1 DEF AnchorAt
    <3>3. gap = 0 /\ pad = eng - anchorS - Len(ring)
      BY <1>1, <2>3, <3>1, <3>2 DEF Rejoin, Gap, Expected, Larger, None
    <3> QED
      BY <1>1, <2>3, <3>1, <3>3
  <2> QED
    BY <2>1, <2>2, <2>3
<1>4. Origin' = Origin /\ anchorC' \in Nat /\ anchorC' <= eng
      /\ (anchorC # None => anchorC' = anchorC) /\ (resume # None => anchorC' = eng)
      /\ (anchorC = None /\ resume = None => anchorC' \in {None, eng - frames})
  <2>1. CASE anchorC # None
    BY <1>1, <1>2, <2>1 DEF RingInv, Anchored, AnchorAt, Origin, None
  <2>2. CASE anchorC = None /\ resume = None
    <3>1. anchorS = None /\ frames < eng /\ Origin = eng - frames
      BY <1>1, <2>2 DEF RingInv, Unanchored, Origin, None
    <3>2. anchorC' \in {None, eng - frames}
      BY <1>2, <2>2 DEF AnchorAt
    <3>3. frames' = frames + n
      BY <1>1, <1>2, <1>3, <2>2
    <3>4. Origin' = Origin
      <4>1. CASE anchorC' = None
        BY <1>1, <1>2, <3>1, <3>3, <4>1 DEF Origin
      <4>2. CASE anchorC' # None
        BY <1>1, <1>2, <3>1, <3>2, <4>2 DEF Origin
      <4> QED
        BY <4>1, <4>2
    <3> QED
      BY <1>1, <2>2, <3>1, <3>2, <3>4 DEF None
  <2>3. CASE anchorC = None /\ resume # None
    BY <1>1, <1>2, <2>3 DEF RingInv, Unanchored, AnchorAt, Origin, None
  <2> QED
    BY <2>1, <2>2, <2>3
<1> HIDE DEF n, gap, pad
<1>5. /\ ring' \in Seq(Nat) /\ Len(ring') = Len(ring) + pad + gap + n
      /\ Placed(ring', Origin)
  <2>1. Placed(ring, Origin)
    BY <1>1 DEF RingInv, InPlace, None
  <2>2. /\ ring \o Silent(pad) \in Seq(Nat) /\ Len(ring \o Silent(pad)) = Len(ring) + pad
        /\ Placed(ring \o Silent(pad), Origin)
    BY <1>1, <1>3, <2>1, SilentJoins
  <2>3. /\ (ring \o Silent(pad)) \o Silent(gap) \in Seq(Nat)
        /\ Len((ring \o Silent(pad)) \o Silent(gap)) = Len(ring) + pad + gap
        /\ Placed((ring \o Silent(pad)) \o Silent(gap), Origin)
    <3>1. ASSUME NEW s \in Seq(Nat), Len(s) = Len(ring) + pad, Placed(s, Origin)
          PROVE  /\ s \o Silent(gap) \in Seq(Nat) /\ Len(s \o Silent(gap)) = Len(ring) + pad + gap
                 /\ Placed(s \o Silent(gap), Origin)
      BY <1>1, <1>3, <3>1, SilentJoins
    <3> QED
      BY <2>2, <3>1
  <2>4. Content(eng, n) \in Seq(Nat) /\ Len(Content(eng, n)) = n /\ Placed(Content(eng, n), eng)
    BY <1>1, ContentPlaced
  <2>5. Origin + (Len(ring) + pad + gap) = eng
    BY <1>1, <1>3
  <2> QED
    BY <1>2, <1>3, <2>3, <2>4, <2>5, JoinPlaced
<1>6. LineTypes'
  <2>1. frames' \in Nat /\ resume' \in Nat
    BY <1>1, <1>2, <1>3 DEF None
  <2>2. lossy' \in BOOLEAN
    BY <1>2
  <2> QED
    BY <1>1, <1>2, <1>4, <1>5, <2>1, <2>2 DEF RingInv, LineTypes
<1>7. Stages' /\ Detached'
  BY <1>1, <1>2, <1>3, <1>4, <1>5 DEF RingInv, Stages, Detached, None
<1>8. Past'
  BY <1>1, <1>2, <1>3, <1>4 DEF RingInv, Past, None
<1>9. Unanchored'
  <2>1. CASE anchorC' = None
    <3>1. anchorC = None /\ resume = None
      BY <1>1, <1>4, <2>1 DEF None
    <3>2. anchorS = None /\ Len(ring) = frames /\ frames < eng
      BY <1>1, <3>1 DEF RingInv, Unanchored, None
    <3>3. gap = 0 /\ pad = 0
      BY <1>1, <1>3, <3>1, <3>2 DEF Origin, None
    <3> QED
      BY <1>1, <1>2, <1>5, <2>1, <3>1, <3>2, <3>3 DEF Unanchored
  <2> QED
    BY <2>1 DEF Unanchored
<1>10. Anchored'
  <2>1. CASE anchorC' # None
    <3>1. anchorC' + frames' = now
      <4>1. CASE anchorC # None
        BY <1>1, <1>2, <1>3, <1>4, <4>1
      <4>2. CASE anchorC = None /\ resume = None
        BY <1>1, <1>2, <1>3, <1>4, <2>1, <4>2 DEF None
      <4>3. CASE anchorC = None /\ resume # None
        BY <1>1, <1>2, <1>3, <1>4, <4>3 DEF RingInv, Unanchored, None
      <4> QED
        BY <4>1, <4>2, <4>3
    <3>2. Origin' + Len(ring') = now
      <4>1. Len(ring') = Len(ring) + pad + gap + n
        BY <1>5
      <4> QED
        BY <1>1, <1>3, <1>4, <4>1
    <3> QED
      BY <1>1, <1>2, <2>1, <3>1, <3>2, TimelineAssumption DEF Anchored
  <2> QED
    BY <2>1 DEF Anchored
<1>11. InPlace'
  BY <1>4, <1>5 DEF InPlace
<1> QED
  BY <1>6, <1>7, <1>8, <1>9, <1>10, <1>11 DEF RingInv

\* Where a pull finds and leaves the cursor.
LEMMA CursorTypes == ASSUME LineTypes, NEW r \in Readers, NEW n \in Nat
    PROVE /\ Len(ring) \in Nat /\ Oldest \in Nat /\ Oldest <= Len(ring)
          /\ r.cur \in Nat /\ r.need \in Nat /\ Skipped(r) \in Nat /\ Passed(r, n) \in Nat
<1>1. Len(ring) \in Nat /\ Oldest \in Nat /\ Oldest <= Len(ring)
  BY TimelineAssumption DEF LineTypes, Oldest, Larger
<1>2. r.cur \in Nat /\ r.need \in Nat
  BY DEF Readers
<1>3. Skipped(r) \in Nat
  BY <1>1, <1>2 DEF Skipped, Smaller, Larger
<1> QED
  BY <1>1, <1>2, <1>3 DEF Passed, Smaller

\* Where a reader that has not begun will.
LEMMA BegunTypes == ASSUME LineTypes, Polled \in Nat PROVE Begun(Polled) \in Readers
<1>1. /\ rd \in Readers /\ anchorB \in Nat /\ fout \in Nat /\ Len(ring) \in Nat
      /\ Oldest \in Nat /\ rd.cur \in Nat
  BY CursorTypes DEF LineTypes, Readers
<1> DEFINE f0    == Polled - anchorB
           first == IF rd.rebased THEN fout ELSE Larger(f0 + rd.cur, fout)
           base  == IF rd.rebased THEN Larger(fout - f0, 0) ELSE first - f0
<1>2. first \in Nat /\ base \in Nat
  BY <1>1 DEF Larger
<1>3. Begun(Polled) = [begun |-> TRUE, rebased |-> FALSE, need |-> base, first |-> first,
                       cur |-> Seek(base)]
  BY DEF Begun, Expected
<1> HIDE DEF first, base
<1>4. Seek(base) \in Nat
  BY <1>1, <1>2 DEF Seek, Smaller, Larger
<1> QED
  BY <1>2, <1>3, <1>4 DEF Readers

\* What a turn does to the reader.
LEMMA TurnTypes == ASSUME LineTypes, Turn PROVE fout' \in Nat /\ rd' \in Readers
<1> DEFINE n == IF pausedAt # None THEN 0 ELSE Smaller(Larger(DueFrames - fout, 0), Block)
<1>1. n \in Nat
  BY TimelineAssumption DEF LineTypes, DueFrames, Expected, Larger, Smaller
<1>2. fout' = fout + n /\ (rd' = rd \/ Render(n))
  BY DEF Turn, RenderNothing
<1> HIDE DEF n
<1>3. CASE Render(n)
  <2> DEFINE r    == IF rd.begun THEN rd ELSE Begun(Polled)
             lead == Smaller(n, Larger(r.first - fout, 0))
             want == n - lead
  <2>1. r \in Readers
    BY BegunTypes DEF LineTypes, Polled
  <2>2. lead \in 0 .. n
    <3>1. r.first \in Nat
      BY <2>1 DEF Readers
    <3> HIDE DEF r
    <3> QED
      BY <1>1, <3>1 DEF Smaller, Larger, LineTypes
  <2>3. rd' = r \/ rd' = [r EXCEPT !.need = @ + want, !.cur = Passed(r, want)]
    BY <1>3 DEF Render
  <2> HIDE DEF r, lead
  <2>4. fout' \in Nat /\ want \in Nat
    BY <1>1, <1>2, <2>2 DEF LineTypes
  <2> HIDE DEF want
  <2>5. Passed(r, want) \in Nat /\ r.need \in Nat /\ r.need + want \in Nat
    <3>1. Passed(r, want) \in Nat /\ r.need \in Nat
      BY <2>1, <2>4, CursorTypes
    <3> QED
      BY <2>4, <3>1
  <2> QED
    BY <2>1, <2>3, <2>4, <2>5 DEF Readers
<1> QED
  BY <1>1, <1>2, <1>3 DEF LineTypes

\* A poll names the anchor the ring already has.
LEMMA TurnKeeps == ASSUME RingInv, Turn PROVE RingInv'
<1>1. /\ anchorS' = Polled /\ graph = "running"
      /\ UNCHANGED <<now, ring, on, eng, lossy, died, frames, anchorC, resume, graph,
                     anchorB, pausedAt, takes>>
  BY DEF Turn, capture, engine, stream
<1>2. /\ Origin' = Origin /\ anchorS' \in Nat /\ (anchorS # None => anchorS' = anchorS)
      /\ (anchorS' # None /\ anchorS = None => on /\ anchorS' = anchorC)
  BY <1>1 DEF Polled, RingInv, LineTypes, Detached, Origin, None
<1>3. fout' \in Nat /\ rd' \in Readers
  BY TurnTypes DEF RingInv
<1>4. LineTypes'
  BY <1>1, <1>2, <1>3 DEF RingInv, LineTypes
<1>5. Stages' /\ Past' /\ Unanchored' /\ Detached'
  BY <1>1, <1>2 DEF RingInv, LineTypes, Stages, Past, Unanchored, Detached, None
<1>6. Anchored'
  BY <1>1, <1>2 DEF RingInv, Anchored, None
<1>7. InPlace'
  BY <1>1, <1>2 DEF RingInv, InPlace, None
<1> QED
  BY <1>4, <1>5, <1>6, <1>7 DEF RingInv

LEMMA RingStep == ASSUME OneTake, RingInv, [LineNext]_lineVars PROVE RingInv'
<1>1. CASE UNCHANGED lineVars
  BY <1>1 DEF lineVars, capture, engine, stream, bus, RingInv, LineTypes, Stages, Past,
              Unanchored, Anchored, Detached, InPlace, Origin, Placed
<1> QED
  BY <1>1, ClockKeeps, LoseKeeps, PacketKeeps, DetachKeepsRing, PadKeeps, ReattachKeeps,
     StartKeeps, ArmKeeps, TurnKeeps, PauseKeeps, StopKeeps DEF LineNext

\* The ring is in place throughout one recording, whatever is lost and whoever exits and
\* returns, short pauses included.
THEOREM RingInvariant == ASSUME OneTake PROVE LineSpec => []RingInv
  BY RingStarts, RingStep, PTL DEF LineSpec

\* The ring's index space equals elapsed time since the source's anchor: the fills of
\* wasapi_common.c, apr_source_pad_to and the rejoining of a replacement add up.
THEOREM FramesWhereTheAnchorSays == ASSUME OneTake PROVE LineSpec => []RingInPlace
<1>1. RingInv => RingInPlace
  <2> SUFFICES ASSUME RingInv PROVE RingInPlace
    OBVIOUS
  <2>1. anchorS # None => Placed(ring, anchorS) /\ ring \in Seq(Nat)
    BY DEF RingInv, InPlace, Origin, LineTypes
  <2> QED
    BY <2>1 DEF RingInPlace, Placed
<1> QED
  BY <1>1, RingInvariant, PTL

-----------------------------------------------------------------------------
(* What is read of it.                                                     *)

\* The reader as a block finds it.
Ready == IF rd.begun THEN rd ELSE Begun(Polled)

\* The next frame the reader takes is the one due at the first position it does not keep silent.
OnTime(r) ==
    /\ Polled + r.need = anchorB + Larger(r.first, fout)
    /\ r.first > fout => r.need = 0

\* A cursor that is ahead of its place got there by a lap: what it passed is overwritten, or
\* is what that lap may cost.
Excused(r) == r.cur > r.need => r.cur <= cost \/ r.cur <= Oldest

Reads ==
    /\ rd.begun => Polled # None /\ OnTime(rd) /\ Excused(rd)
    /\ rd.rebased /\ ~rd.begun => Polled # None /\ Polled <= anchorB + fout
    /\ ~rd.rebased /\ ~rd.begun => rd.cur = 0
    /\ cost \in Nat

LEMMA PolledIsOrigin == ASSUME RingInv, Polled # None
    PROVE Origin = Polled /\ Polled \in Nat /\ Placed(ring, Polled)
  BY DEF RingInv, LineTypes, Polled, Origin, InPlace, None

LEMMA ReadyIs == ASSUME RingInv, Reads, Polled # None
    PROVE Ready \in Readers /\ Ready.begun /\ OnTime(Ready) /\ Excused(Ready)
<1>1. Polled \in Nat /\ anchorB \in Nat /\ fout \in Nat /\ rd \in Readers /\ rd.cur \in Nat
  BY PolledIsOrigin DEF RingInv, LineTypes, Readers
<1>2. CASE rd.begun
  BY <1>1, <1>2 DEF Ready, Reads
<1>3. CASE ~rd.begun
  <2> DEFINE f0    == Polled - anchorB
             first == IF rd.rebased THEN fout ELSE Larger(f0 + rd.cur, fout)
             base  == IF rd.rebased THEN Larger(fout - f0, 0) ELSE first - f0
  <2>1. Ready = [begun |-> TRUE, rebased |-> FALSE, need |-> base, first |-> first,
                 cur |-> Seek(base)]
    BY <1>3 DEF Ready, Begun, Expected
  <2>2. Ready \in Readers
    BY <1>1, <1>3, BegunTypes DEF Ready, RingInv
  <2>3. /\ Polled + base = anchorB + Larger(first, fout) /\ (first > fout => base = 0)
        /\ base \in Nat
    <3>1. CASE rd.rebased
      <4>1. Polled <= anchorB + fout
        BY <1>3, <3>1 DEF Reads
      <4> QED
        BY <1>1, <3>1, <4>1 DEF Larger
    <3>2. CASE ~rd.rebased
      <4>1. rd.cur = 0 /\ first = Larger(f0, fout) /\ base = first - f0
        BY <1>1, <1>3, <3>2 DEF Reads, Larger
      <4> HIDE DEF first, base
      <4> QED
        BY <1>1, <4>1 DEF Larger
    <3> QED
      BY <3>1, <3>2
  <2> HIDE DEF first, base
  <2>4. Seek(base) > base => Seek(base) <= Oldest
    <3>1. Len(ring) \in Nat /\ Oldest \in Nat /\ Oldest <= Len(ring)
      BY <1>1, CursorTypes DEF RingInv
    <3> QED
      BY <2>3, <3>1 DEF Seek, Smaller, Larger
  <2> QED
    BY <2>1, <2>2, <2>3, <2>4 DEF OnTime, Excused
<1> QED
  BY <1>2, <1>3

\* One turn with something to render and a source that is anchored.
Renders(n, lead) ==
    /\ graph = "running" /\ n \in Nat \ {0}
    /\ Polled # None /\ Polled' = Polled /\ anchorS' = Polled
    /\ lead = Smaller(n, Larger(Ready.first - fout, 0))
    /\ fout' = fout + n
    /\ IF lead = n THEN rd' = Ready /\ cost' = cost
       ELSE /\ rd' = [Ready EXCEPT !.need = @ + (n - lead), !.cur = Passed(Ready, n - lead)]
            /\ cost' = Cost(Ready, n - lead)
    /\ block' = [j \in 1 .. n |->
                    [got |-> IF j <= lead THEN Silence ELSE At(Ready, Ready.need + j - 1 - lead),
                     due |-> anchorB + fout + j - 1]]
    /\ UNCHANGED <<anchorB, ring>>

\* The three ways of a turn.
LEMMA TurnIs == ASSUME RingInv, Turn
    PROVE \/ UNCHANGED <<rd, block, cost, ring, fout, anchorB>> /\ Polled' = Polled
          \/ /\ Polled = None /\ anchorS' = None
             /\ UNCHANGED <<rd, cost, ring, anchorB>> /\ Polled' = Polled /\ fout' \in Nat
             /\ \A k \in DOMAIN block' : block'[k].got = Silence
          \/ \E n, lead \in Nat : Renders(n, lead)
<1> DEFINE n == IF pausedAt # None THEN 0 ELSE Smaller(Larger(DueFrames - fout, 0), Block)
<1>1. n \in Nat /\ fout \in Nat
  BY TimelineAssumption DEF RingInv, LineTypes, DueFrames, Expected, Larger, Smaller
<1>2. /\ Polled' = Polled /\ anchorS' = Polled /\ graph = "running"
      /\ UNCHANGED <<anchorB, ring>>
  BY DEF Turn, Polled, capture, stream, None
<1>3. fout' = fout + n
  BY DEF Turn
<1>4. CASE n = 0
  BY <1>1, <1>2, <1>3, <1>4 DEF Turn
<1>5. CASE n # 0 /\ Polled = None
  BY <1>1, <1>2, <1>3, <1>5 DEF Turn, RenderNothing
<1>6. CASE n # 0 /\ Polled # None
  <2> DEFINE lead == Smaller(n, Larger(Ready.first - fout, 0))
  <2>1. Render(n)
    BY <1>6 DEF Turn
  <2> HIDE DEF n
  <2>2. lead \in 0 .. n
    <3>1. Ready.first \in Nat
      BY <1>6, PolledIsOrigin, BegunTypes DEF Ready, RingInv, LineTypes, Readers
    <3> QED
      BY <1>1, <3>1 DEF Smaller, Larger
  <2>3. Renders(n, lead)
    <3>1. n - lead = 0 <=> lead = n
      BY <1>1, <2>2
    <3> QED
      BY <1>1, <1>2, <1>3, <1>6, <2>1, <3>1 DEF Render, Renders, Ready
  <2> HIDE DEF lead
  <2> QED
    BY <1>1, <2>2, <2>3
<1> QED
  BY <1>1, <1>4, <1>5, <1>6
\* What a turn puts at position k, and from where: nothing before the reader's first frame,
\* and after that the frame of the ring that was captured when k was due.
LEMMA RenderedIs ==
    ASSUME RingInv, Reads, NEW n \in Nat, NEW lead \in Nat, Renders(n, lead),
           NEW k \in DOMAIN block'
    PROVE  LET idx == block'[k].due - Polled
           IN  /\ block'[k].due \in Nat /\ k \in 1 .. n
               /\ k > lead => block'[k].got = At(Ready, idx)
               /\ k > lead => lead < n /\ Ready.need <= idx /\ idx < Ready.need + (n - lead)
               /\ k <= lead => block'[k].got = Silence /\ block'[k].due < Polled
<1> DEFINE first == Ready.first
           need  == Ready.need
           due   == anchorB + fout + k - 1
<1>1. /\ anchorB \in Nat /\ fout \in Nat /\ Polled \in Nat /\ n \in Nat \ {0} /\ k \in 1 .. n
      /\ first \in Nat /\ need \in Nat /\ Polled # None
  BY PolledIsOrigin, ReadyIs DEF Renders, RingInv, LineTypes, Readers
<1>2. /\ block'[k].got = (IF k <= lead THEN Silence ELSE At(Ready, need + k - 1 - lead))
      /\ block'[k].due = due
  BY <1>1 DEF Renders
<1>3. lead = Smaller(n, Larger(first - fout, 0))
  BY DEF Renders
<1>4. Polled + need = anchorB + Larger(first, fout) /\ (first > fout => need = 0)
  BY <1>1, ReadyIs DEF OnTime
<1> HIDE DEF first, need
<1>5. ASSUME k > lead PROVE need + k - 1 - lead = due - Polled
  <2>1. lead = Larger(first - fout, 0)
    BY <1>1, <1>3, <1>5 DEF Smaller, Larger
  <2> QED
    BY <1>1, <1>4, <2>1 DEF Larger
<1>6. ASSUME k <= lead PROVE due < Polled
  <2>1. first > fout /\ k <= first - fout
    BY <1>1, <1>3, <1>6 DEF Smaller, Larger
  <2> QED
    BY <1>1, <1>4, <2>1 DEF Larger
<1>7. due \in Nat
  BY <1>1
<1>8. ASSUME k > lead PROVE lead < n /\ need <= due - Polled /\ due - Polled < need + (n - lead)
  BY <1>1, <1>5, <1>8
<1> QED
  BY <1>1, <1>2, <1>5, <1>6, <1>7, <1>8 DEF need

\* What a pull reads at a position is from that position's instant.
LEMMA AtIs ==
    ASSUME RingInv, Polled # None, NEW r \in Readers, NEW i \in Int, At(r, i) # Silence
    PROVE  At(r, i) = Polled + i
<1>1. At(r, i) = ring[i + 1] /\ Skipped(r) <= i /\ i < Len(ring)
  BY DEF At
<1>2. Skipped(r) \in Nat /\ Len(ring) \in Nat
  BY CursorTypes DEF RingInv
<1>3. i + 1 \in 1 .. Len(ring) /\ ring[i + 1] # Silence
  BY <1>1, <1>2
<1>4. ring[i + 1] = Polled + (i + 1) - 1 /\ Polled \in Nat
  BY <1>3, PolledIsOrigin DEF Placed
<1> QED
  BY <1>1, <1>4

\* A pull reads what the ring holds, but for what the lap it finds may cost.
LEMMA AtReads ==
    ASSUME LineTypes, cost \in Nat, NEW r \in Readers, NEW n \in Nat \ {0}, Excused(r),
           NEW i \in Nat, Held(i), r.need <= i, i < r.need + n, i >= Cost(r, n)
    PROVE  At(r, i) = ring[i + 1]
<1>1. /\ Len(ring) \in Nat /\ Oldest \in Nat /\ Oldest <= Len(ring)
      /\ r.cur \in Nat /\ r.need \in Nat /\ Oldest <= i /\ i < Len(ring)
  BY CursorTypes DEF Held
<1>2. CASE r.cur >= Oldest
  <2>1. i >= cost
    BY <1>1, <1>2 DEF Cost
  <2>2. CASE r.cur < r.need
    <3>1. Skipped(r) = r.need
      BY <1>1, <1>2, <2>2 DEF Skipped, Smaller, Larger
    <3> QED
      BY <1>1, <1>2, <2>2, <3>1 DEF At, Held
  <2>3. CASE r.cur >= r.need
    <3>1. Skipped(r) = r.cur
      BY <1>1, <2>3 DEF Skipped
    <3>2. r.cur <= i
      BY <1>1, <2>1, <2>3 DEF Excused
    <3> QED
      BY <1>1, <1>2, <3>1, <3>2 DEF At, Held
  <2> QED
    BY <1>1, <2>2, <2>3
<1>3. CASE r.cur < Oldest
  <2>1. CASE r.cur < r.need
    <3>1. i >= Oldest + (r.need - r.cur)
      BY <1>1, <1>3, <2>1 DEF Cost
    <3>2. Skipped(r) = Oldest + r.need - r.cur
      BY <1>1, <1>3, <2>1, <3>1 DEF Skipped, Smaller, Larger
    <3> QED
      BY <1>1, <2>1, <3>1, <3>2 DEF At, Held
  <2>2. CASE r.cur >= r.need
    <3>1. i >= Oldest + n
      BY <1>1, <1>3, <2>2 DEF Cost
    <3> QED
      BY <1>1, <1>3, <2>2, <3>1
  <2> QED
    BY <1>1, <2>1, <2>2
<1> QED
  BY <1>1, <1>2, <1>3

\* A pull leaves the cursor ahead of its place only by what a lap may cost.
LEMMA PassedIsExcused ==
    ASSUME LineTypes, cost \in Nat, NEW r \in Readers, NEW n \in Nat \ {0}, Excused(r),
           Passed(r, n) > r.need + n
    PROVE  Passed(r, n) <= Cost(r, n) \/ Passed(r, n) <= Oldest
<1>1. /\ Len(ring) \in Nat /\ Oldest \in Nat /\ Oldest <= Len(ring)
      /\ r.cur \in Nat /\ r.need \in Nat /\ Skipped(r) \in Nat
  BY CursorTypes
<1>2. CASE r.cur < r.need
  <2>1. Skipped(r) >= Oldest /\ Skipped(r) <= Larger(r.cur, Oldest) + r.need - r.cur
    BY <1>1, <1>2 DEF Skipped, Smaller, Larger
  <2>2. Passed(r, n) = Skipped(r)
    BY <1>1, <2>1 DEF Passed, Smaller
  <2>3. r.cur < Oldest
    BY <1>1, <1>2, <2>1, <2>2 DEF Larger
  <2> QED
    BY <1>1, <1>2, <2>1, <2>2, <2>3 DEF Cost, Larger
<1>3. CASE r.cur >= r.need
  <2>1. Skipped(r) = r.cur
    BY <1>1, <1>3 DEF Skipped
  <2>2. CASE r.cur >= r.need + n
    <3>1. Passed(r, n) = r.cur
      BY <2>1, <2>2 DEF Passed
    <3> QED
      BY <1>1, <2>2, <3>1 DEF Excused, Cost
  <2>3. CASE r.cur < r.need + n
    <3>1. r.cur < Oldest
      BY <1>1, <2>1, <2>3 DEF Passed, Smaller
    <3>2. Passed(r, n) <= Oldest + n
      BY <1>1, <1>3, <2>1, <2>3, <3>1 DEF Passed, Smaller
    <3> QED
      BY <1>1, <1>3, <3>1, <3>2 DEF Cost
  <2> QED
    BY <1>1, <2>2, <2>3
<1> QED
  BY <1>1, <1>2, <1>3

LEMMA BlockIsAligned ==
    ASSUME RingInv, Reads, NEW n \in Nat, NEW lead \in Nat, Renders(n, lead)
    PROVE  Aligned'
<1>1. ASSUME NEW k \in DOMAIN block', block'[k].got # Silence
      PROVE  block'[k].got = block'[k].due
  <2>1. /\ block'[k].due \in Nat /\ k > lead /\ block'[k].got = At(Ready, block'[k].due - Polled)
        /\ Polled \in Nat /\ Polled # None /\ k \in 1 .. n /\ Ready \in Readers
    <3>1. Polled \in Nat /\ Polled # None /\ Ready \in Readers
      BY PolledIsOrigin, ReadyIs DEF Renders
    <3>2. /\ block'[k].due \in Nat /\ k \in 1 .. n
          /\ k > lead => block'[k].got = At(Ready, block'[k].due - Polled)
          /\ k <= lead => block'[k].got = Silence
      BY RenderedIs
    <3>3. k > lead
      BY <1>1, <3>2
    <3> QED
      BY <3>1, <3>2, <3>3
  <2> QED
    BY <1>1, <2>1, AtIs
<1> QED
  BY <1>1 DEF Aligned

\* A frame of the ring that was due at a silent position would have been read, or was what a
\* lap may cost.
LEMMA SilenceIsTrue ==
    ASSUME RingInv, Reads, NEW n \in Nat, NEW lead \in Nat, Renders(n, lead),
           NEW k \in DOMAIN block', block'[k].got = Silence,
           NEW i \in 0 .. Len(ring) - 1, Held(i), i >= cost', ring[i + 1] = block'[k].due
    PROVE  FALSE
<1>1. /\ block'[k].due \in Nat /\ k \in 1 .. n /\ Polled \in Nat /\ Polled # None
      /\ k > lead => block'[k].got = At(Ready, block'[k].due - Polled)
      /\ k > lead => LET idx == block'[k].due - Polled
                     IN  lead < n /\ Ready.need <= idx /\ idx < Ready.need + (n - lead)
      /\ k <= lead => block'[k].due < Polled
  <2>1. Polled \in Nat /\ Polled # None
    BY PolledIsOrigin DEF Renders
  <2> QED
    BY <2>1, RenderedIs
<1>2. block'[k].due = anchorB + fout + k - 1 /\ anchorB \in Nat \ {0} /\ fout \in Nat
  <2>1. block'[k].due = anchorB + fout + k - 1
    BY <1>1 DEF Renders
  <2>2. anchorB # None
    BY DEF RingInv, Stages, Renders
  <2> QED
    BY <2>1, <2>2 DEF RingInv, LineTypes, None
<1>3. block'[k].due # Silence
  BY <1>1, <1>2 DEF Silence
<1>4. ring[i + 1] = Polled + (i + 1) - 1
  <2>1. i + 1 \in 1 .. Len(ring)
    BY DEF RingInv, LineTypes
  <2> QED
    BY <1>1, <1>3, <2>1, PolledIsOrigin DEF Placed
<1>5. i = block'[k].due - Polled /\ ~(block'[k].due < Polled)
  BY <1>1, <1>4
<1>6. k > lead
  BY <1>1, <1>5
<1>7. /\ Ready \in Readers /\ Excused(Ready) /\ n - lead \in Nat \ {0} /\ i \in Nat
      /\ Ready.need <= i /\ i < Ready.need + (n - lead)
  BY <1>1, <1>5, <1>6, ReadyIs
<1>8. cost' = Cost(Ready, n - lead)
  BY <1>1, <1>6 DEF Renders
<1>9. At(Ready, i) = ring[i + 1]
  BY <1>7, <1>8, AtReads DEF RingInv, Reads
<1> QED
  BY <1>1, <1>3, <1>5, <1>6, <1>9

AsUsual == MaxTakes = 1 /\ Unusual = {}

LEMMA RenderKeepsReads ==
    ASSUME RingInv, Reads, NEW n \in Nat, NEW lead \in Nat, Renders(n, lead)
    PROVE  Reads'
<1> DEFINE r == Ready
<1>1. /\ anchorB \in Nat /\ fout \in Nat /\ Polled \in Nat /\ n \in Nat \ {0} /\ Polled # None
      /\ Polled' = Polled /\ anchorB' = anchorB /\ fout' = fout + n /\ Oldest' = Oldest
      /\ cost \in Nat
  BY PolledIsOrigin DEF Renders, RingInv, LineTypes, Reads, Oldest
<1>2. /\ r \in Readers /\ r.begun /\ Excused(r) /\ r.need \in Nat /\ r.first \in Nat
      /\ Polled + r.need = anchorB + Larger(r.first, fout) /\ (r.first > fout => r.need = 0)
  BY <1>1, ReadyIs DEF OnTime, Readers
<1>3. /\ lead = Smaller(n, Larger(r.first - fout, 0))
      /\ IF lead = n THEN rd' = r /\ cost' = cost
         ELSE /\ rd' = [r EXCEPT !.need = @ + (n - lead), !.cur = Passed(r, n - lead)]
              /\ cost' = Cost(r, n - lead)
  BY DEF Renders
<1> HIDE DEF r
<1>0. lead \in 0 .. n
  BY <1>1, <1>2, <1>3 DEF Smaller, Larger
<1>4. rd'.begun /\ rd'.need = r.need + n - lead /\ rd'.first = r.first
  <2>1. CASE lead = n
    BY <1>1, <1>2, <1>3, <2>1
  <2>2. CASE lead # n
    <3>1. rd' = [r EXCEPT !.need = r.need + (n - lead), !.cur = Passed(r, n - lead)]
      BY <1>3, <2>2
    <3>2. rd'.begun = r.begun /\ rd'.need = r.need + (n - lead) /\ rd'.first = r.first
      BY <1>2, <3>1 DEF Readers
    <3> QED
      BY <1>0, <1>1, <1>2, <3>2
  <2> QED
    BY <2>1, <2>2
<1>9. cost' \in Nat /\ Excused(rd)'
  <2>1. CASE lead = n
    BY <1>1, <1>2, <1>3, <2>1 DEF Excused
  <2>2. CASE lead # n
    <3>1. n - lead \in Nat \ {0}
      BY <1>0, <1>1, <2>2
    <3>2. /\ Passed(r, n - lead) > r.need + (n - lead) =>
                Passed(r, n - lead) <= Cost(r, n - lead) \/ Passed(r, n - lead) <= Oldest
          /\ Oldest \in Nat /\ r.cur \in Nat
      BY <1>1, <1>2, <3>1, PassedIsExcused, CursorTypes DEF RingInv
    <3>3. Cost(r, n - lead) \in Nat
      BY <1>1, <1>2, <3>1, <3>2 DEF Cost
    <3>4. rd'.cur = Passed(r, n - lead) /\ rd'.need = r.need + (n - lead)
          /\ cost' = Cost(r, n - lead)
      BY <1>2, <1>3, <2>2 DEF Readers
    <3> QED
      BY <1>1, <3>2, <3>3, <3>4 DEF Excused
  <2> QED
    BY <2>1, <2>2
<1>5. CASE r.first <= fout
  <2>1. lead = 0
    BY <1>1, <1>2, <1>3, <1>5 DEF Smaller, Larger
  <2>2. Larger(rd'.first, fout') = fout' /\ Larger(r.first, fout) = fout /\ ~(rd'.first > fout')
    BY <1>1, <1>2, <1>4, <1>5 DEF Larger
  <2> QED
    BY <1>1, <1>2, <1>4, <1>9, <2>1, <2>2 DEF Reads, OnTime
<1>6. CASE r.first > fout /\ n <= r.first - fout
  <2>1. lead = n /\ r.need = 0
    BY <1>1, <1>2, <1>3, <1>6 DEF Smaller, Larger
  <2>2. Larger(rd'.first, fout') = r.first /\ Larger(r.first, fout) = r.first
    BY <1>1, <1>2, <1>4, <1>6 DEF Larger
  <2> QED
    BY <1>1, <1>2, <1>4, <1>9, <2>1, <2>2 DEF Reads, OnTime
<1>7. CASE r.first > fout /\ n > r.first - fout
  <2>1. lead = r.first - fout /\ r.need = 0
    BY <1>1, <1>2, <1>3, <1>7 DEF Smaller, Larger
  <2>2. Larger(rd'.first, fout') = fout' /\ Larger(r.first, fout) = r.first /\ ~(rd'.first > fout')
    BY <1>1, <1>2, <1>4, <1>7 DEF Larger
  <2> QED
    BY <1>1, <1>2, <1>4, <1>9, <2>1, <2>2 DEF Reads, OnTime
<1> QED
  BY <1>1, <1>2, <1>5, <1>6, <1>7

\* A ring is only ever written at its end.
LEMMA RingGrows == ASSUME RingInv, [LineNext]_lineVars
    PROVE Len(ring) \in Nat /\ Len(ring') \in Nat /\ Len(ring) <= Len(ring')
<1>1. ring \in Seq(Nat) /\ Len(ring) \in Nat
  BY DEF RingInv, LineTypes
<1>2. ASSUME NEW bad \in BOOLEAN, Packet(bad) PROVE Len(ring') \in Nat /\ Len(ring) <= Len(ring')
  <2> DEFINE n   == now - eng
             gap == Gap(bad)
             pad == Rejoin(AnchorAt(bad))
  <2>1. /\ now \in Nat /\ eng \in Nat \ {0} /\ n \in Nat /\ frames \in Nat /\ anchorC \in Nat
        /\ resume \in Nat
    BY <1>2 DEF Packet, RingInv, LineTypes, None
  <2>2. gap \in Nat /\ pad \in Nat
    BY <1>1, <2>1, TimelineAssumption DEF Gap, Rejoin, AnchorAt, Expected, Smaller, Larger
  <2>3. ring' = ring \o Silent(pad) \o Silent(gap) \o Content(eng, n)
    BY <1>2 DEF Packet
  <2> HIDE DEF n, gap, pad
  <2>4. /\ Silent(pad) \in Seq(Nat) /\ Silent(gap) \in Seq(Nat) /\ Content(eng, n) \in Seq(Nat)
    BY <2>1, <2>2, SilentPlaced, ContentPlaced
  <2> QED
    BY <1>1, <2>3, <2>4
<1>3. ASSUME PadTo PROVE Len(ring') \in Nat /\ Len(ring) <= Len(ring')
  <2>1. Missing \in Nat /\ ring' = ring \o Silent(Missing)
    BY <1>3 DEF PadTo, Missing, Expected, RingInv, LineTypes
  <2>2. Silent(Missing) \in Seq(Nat)
    BY <2>1, SilentPlaced
  <2> QED
    BY <1>1, <2>1, <2>2
<1>4. CASE ~PadTo /\ ~\E bad \in BOOLEAN : Packet(bad)
  <2>1. ring' = ring
    BY <1>4 DEF LineNext, lineVars, Pass, Die, Return, Lose, DetachDead, Reattach, Start, Arm, Turn,
                Pause, Resume, Stop
  <2> QED
    BY <1>1, <2>1
<1> QED
  BY <1>1, <1>2, <1>3, <1>4

\* What excuses a cursor only moves on with the ring.
LEMMA StaysExcused ==
    ASSUME RingInv, Reads, [LineNext]_lineVars, rd' = rd, cost' = cost
    PROVE  cost' \in Nat /\ (rd.begun => Excused(rd)')
<1>1. Oldest \in Nat /\ Oldest' \in Nat /\ Oldest <= Oldest'
  BY RingGrows, TimelineAssumption DEF Oldest, Larger
<1>2. rd.cur \in Nat /\ rd.need \in Nat /\ cost \in Nat
  BY DEF RingInv, LineTypes, Readers, Reads
<1> QED
  BY <1>1, <1>2 DEF Excused, Reads

\* Nobody moves the reader's first frame under it: an anchor once known stays.
LEMMA ReadsStep == ASSUME AsUsual, RingInv, Reads, [LineNext]_lineVars PROVE Reads'
<1> USE StaysExcused DEF Reads, OnTime, None
<1>1. CASE Pass \/ Die \/ Return \/ PadTo \/ Arm \/ Pause \/ Stop \/ UNCHANGED lineVars
  <2>1. UNCHANGED <<rd, cost, on, anchorC, anchorS, anchorB, fout>>
    BY <1>1 DEF Pass, Die, Return, PadTo, Arm, Pause, Stop, lineVars, capture, engine, stream, bus
  <2> QED
    BY <2>1 DEF Polled
<1>2. ASSUME NEW m \in 1 .. MaxTime, Lose(m) PROVE Reads'
  BY <1>2 DEF Lose, Polled, stream, bus
<1>3. ASSUME NEW bad \in BOOLEAN, Packet(bad) PROVE Reads'
  <2>1. UNCHANGED <<rd, cost, on, anchorS, anchorB, fout>> /\ anchorC' = AnchorAt(bad)
    BY <1>3 DEF Packet, bus
  <2>2. Polled # None => Polled' = Polled
    BY <2>1 DEF Polled, AnchorAt
  <2> QED
    BY <2>1, <2>2
<1>4. CASE DetachDead
  <2>1. UNCHANGED <<rd, cost, anchorS, anchorB, fout>> /\ ~on' /\ on /\ eng # None
    BY <1>4 DEF DetachDead, bus, RingInv, Stages
  <2>2. anchorS = None => ring = <<>>
    BY <1>4 DEF DetachDead, AsUsual
  <2>3. ASSUME anchorS = None, anchorC # None PROVE FALSE
    <3>1. Len(ring) = 0 /\ Origin = anchorC
      BY <2>2, <2>3 DEF Origin
    <3>2. anchorC + 0 = anchorC + frames /\ frames > 0 /\ frames \in Nat /\ anchorC \in Nat
      BY <2>1, <2>3, <3>1 DEF RingInv, Anchored, Past, LineTypes
    <3> QED
      BY <3>2
  <2>4. Polled' = Polled
    BY <2>1, <2>3 DEF Polled
  <2> QED
    BY <2>1, <2>4
<1>5. CASE Reattach
  <2>1. UNCHANGED <<rd, cost, anchorS, anchorB, fout>> /\ Polled' = Polled
    BY <1>5 DEF Reattach, bus, Polled
  <2> QED
    BY <2>1
<1>6. CASE Start
  <2>1. rd' = Unbegun /\ cost' = cost
    BY <1>6, TimelineAssumption DEF Start, AsUsual, RingInv, Stages, LineTypes
  <2> QED
    BY <2>1 DEF Unbegun
<1>7. CASE Turn
  <2>1. CASE Polled' = Polled /\ UNCHANGED <<rd, cost, fout, anchorB>>
    BY <2>1
  <2>2. CASE Polled = None /\ Polled' = Polled /\ UNCHANGED <<rd, cost>>
    BY <2>2
  <2>3. CASE \E n, lead \in Nat : Renders(n, lead)
    BY <2>3, RenderKeepsReads
  <2> QED
    BY <1>7, <2>1, <2>2, <2>3, TurnIs
<1>8. CASE Resume
  <2>1. /\ rd' = [rd EXCEPT !.begun = FALSE, !.rebased = TRUE]
        /\ anchorB' = anchorB + (now - pausedAt) /\ fout' = fout
        /\ UNCHANGED <<cost, on, anchorC, anchorS>>
    BY <1>8 DEF Resume, BusResumes, Rebased, capture, stream
  <2>2. Polled # None /\ Polled <= fout + anchorB + now - pausedAt
    BY <1>8 DEF Resume, AsUsual
  <2>3. Polled' = Polled /\ Polled <= anchorB' + fout'
    BY <2>1, <2>2 DEF Polled, RingInv, LineTypes
  <2>4. ~rd'.begun /\ rd'.rebased
    BY <2>1 DEF RingInv, LineTypes, Readers
  <2>5. cost' \in Nat
    BY <2>1
  <2> QED
    BY <2>2, <2>3, <2>4, <2>5
<1> QED
  BY <1>1, <1>2, <1>3, <1>4, <1>5, <1>6, <1>7, <1>8 DEF LineNext

LEMMA ReadsInvariant == ASSUME AsUsual PROVE LineSpec => []Reads
<1>1. LineInit => Reads
  BY DEF LineInit, Reads, Unbegun
<1>2. OneTake
  BY DEF AsUsual, OneTake
<1> QED
  BY <1>1, <1>2, ReadsStep, RingInvariant, PTL DEF LineSpec

\* Every frame of the file that is not silence was captured at the instant the bus assigns to
\* its position, through losses, deaths, recoveries and pauses (bus.h, apr_bus_render).
THEOREM FileIsAligned == ASSUME AsUsual PROVE LineSpec => []Aligned
<1>1. LineInit => Aligned
  BY DEF LineInit, Aligned
<1>2. RingInv /\ Reads /\ Aligned /\ [LineNext]_lineVars => Aligned'
  <2> SUFFICES ASSUME RingInv, Reads, Aligned, [LineNext]_lineVars PROVE Aligned'
    OBVIOUS
  <2>1. CASE Turn
    <3>1. CASE UNCHANGED block
      BY <3>1 DEF Aligned
    <3>2. CASE \A k \in DOMAIN block' : block'[k].got = Silence
      BY <3>2 DEF Aligned
    <3>3. CASE \E n, lead \in Nat : Renders(n, lead)
      BY <3>3, BlockIsAligned
    <3> QED
      BY <2>1, <3>1, <3>2, <3>3, TurnIs
  <2>2. CASE Pass \/ Start
    BY <2>2 DEF Pass, Start, BusStarts, Aligned
  <2>3. CASE ~(Turn \/ Pass \/ Start)
    <3>1. UNCHANGED block
      BY <2>3 DEF LineNext, lineVars, Die, Return, Lose, Packet, DetachDead, PadTo, Reattach, Arm,
                  Pause, Resume, Stop, bus
    <3> QED
      BY <3>1 DEF Aligned
  <2> QED
    BY <2>1, <2>2, <2>3
<1>3. OneTake
  BY DEF AsUsual, OneTake
<1> QED
  BY <1>1, <1>2, <1>3, ReadsInvariant, RingInvariant, PTL DEF LineSpec

\* Once the source is anchored, no frame that is in the ring is passed by in silence, but for
\* what one lap may cost: a block, or what the reader had gone ahead (pull_aligned, source.c).
THEOREM NothingHeldIsSkipped == ASSUME AsUsual PROVE LineSpec => NoFalseSilence
<1> DEFINE Said == fout' > fout => \A k \in DOMAIN block' :
             block'[k].got = Silence /\ anchorS' # None =>
                 \A i \in 0..(Len(ring) - 1) : Held(i) /\ i >= cost' => ring[i + 1] # block'[k].due
<1>1. RingInv /\ Reads /\ [LineNext]_lineVars => [Said]_lineVars
  <2> SUFFICES ASSUME RingInv, Reads, [LineNext]_lineVars, fout' > fout PROVE Said
    OBVIOUS
  <2>1. fout \in Nat
    BY DEF RingInv, LineTypes
  <2>2. Turn
    <3>1. CASE Start
      BY <2>1, <3>1 DEF Start, BusStarts
    <3>2. CASE ~(Turn \/ Start)
      <4>1. fout' = fout
        BY <3>2 DEF LineNext, lineVars, Pass, Die, Return, Lose, Packet, DetachDead, PadTo,
                    Reattach, Arm, Pause, Resume, Stop, bus
      <4> QED
        BY <2>1, <4>1
    <3> QED
      BY <3>1, <3>2
  <2>3. CASE anchorS' = None \/ fout' = fout
    BY <2>1, <2>3
  <2>4. CASE \E n, lead \in Nat : Renders(n, lead)
    BY <2>4, SilenceIsTrue
  <2> QED
    BY <2>2, <2>3, <2>4, TurnIs
<1>2. OneTake
  BY DEF AsUsual, OneTake
<1> QED
  BY <1>1, <1>2, ReadsInvariant, RingInvariant, PTL DEF LineSpec, NoFalseSilence

=============================================================================
