------------------------------ MODULE RingBuf ------------------------------
(***************************************************************************)
(* The single-producer, many-consumer ring (src/core/ringbuf.c), step by   *)
(* step: the producer's two cursor stores with a frame-by-frame copy       *)
(* between them, and every reader call split at its cursor loads and at    *)
(* its copy.  A frame is named by its absolute index, so a slot holds the  *)
(* index of the frame last written there.                                  *)
(*                                                                         *)
(* Steps interleave as under sequential consistency.  On x64 a store may   *)
(* become visible late but never out of order, and the producer reads only *)
(* what it wrote itself, so taking its steps at the moment they become     *)
(* visible loses no behaviour.                                             *)
(***************************************************************************)
EXTENDS Integers, FiniteSets

CONSTANTS
    Readers,       \* one RingReader each
    Cap,           \* capacity in frames
    MaxRetries,    \* RB_READ_MAX_RETRIES
    MaxRead,       \* the largest max_frames a caller asks for
    WriteSizes,    \* the lengths of the producer's writes
    MaxWritten,    \* bound: frames ever written
    MaxLost        \* bound: losses after which a reader makes no new call

ASSUME RingAssumption ==
    /\ Cap \in Nat \ {0}
    /\ MaxRetries \in Nat
    /\ MaxRead \in Nat \ {0}
    /\ WriteSizes \subseteq Nat \ {0}
    /\ MaxWritten \in Nat
    /\ MaxLost \in Nat

VARIABLES
    claim,      \* claim_pos
    write,      \* write_pos
    data,       \* data[slot]: the frame last written into the slot
    todo,       \* frames put() has still to copy
    pos,        \* RingReader.pos
    lost,       \* RingReader.lost
    pc,         \* where the reader is inside a call
    max,        \* max_frames, or the index asked of rb_reader_seek
    seen,       \* w, the write cursor as this call loaded it
    n,          \* frames this attempt copies; when idle, frames returned
    passed,     \* lost_total
    attempt,    \* attempt
    left,       \* offsets of dst that memcpy has still to fill
    dst,        \* the caller's buffer
    tape,       \* history: where the caller believes it is
    told        \* history: the losses the caller was told of

ring   == <<claim, write, data, todo>>
reader == <<pos, lost, pc, max, seen, n, passed, attempt, left, dst>>
ghost  == <<tape, told>>
vars   == <<ring, reader, ghost>>

Torn    == -1        \* bytes of two frames mixed, or of none
Slot(f) == f % Cap
Slots   == 0 .. Cap - 1
Offsets == 0 .. MaxRead - 1
Frames  == Nat \cup {Torn}
PCs     == {"idle", "readW", "readC", "copy", "check",
            "skipW", "skipC", "seekW", "seekC"}

Least(a, b) == IF a <= b THEN a ELSE b

\* The oldest index whose storage the producer has not claimed again.
Oldest == IF claim > Cap THEN claim - Cap ELSE 0

Init ==
    /\ claim = 0 /\ write = 0
    /\ data = [s \in Slots |-> Torn]
    /\ todo = {}
    /\ pos     = [r \in Readers |-> 0]
    /\ lost    = [r \in Readers |-> 0]
    /\ pc      = [r \in Readers |-> "idle"]
    /\ max     = [r \in Readers |-> 0]
    /\ seen    = [r \in Readers |-> 0]
    /\ n       = [r \in Readers |-> 0]
    /\ passed  = [r \in Readers |-> 0]
    /\ attempt = [r \in Readers |-> 0]
    /\ left    = [r \in Readers |-> {}]
    /\ dst     = [r \in Readers |-> [j \in Offsets |-> Torn]]
    /\ tape    = [r \in Readers |-> 0]
    /\ told    = [r \in Readers |-> 0]

-----------------------------------------------------------------------------
(* The producer: rb_write and rb_write_silence.                            *)

\* Of a write longer than the ring only the newest Cap frames are copied.
Kept(k) == IF k > Cap THEN (write + k - Cap) .. (write + k - 1)
                      ELSE write .. (write + k - 1)

Claim(k) ==
    /\ claim = write
    /\ write + k <= MaxWritten
    /\ claim' = write + k
    /\ todo' = Kept(k)
    /\ UNCHANGED <<write, data, reader, ghost>>

\* memcpy promises no order.
Put(f) ==
    /\ f \in todo
    /\ data' = [data EXCEPT ![Slot(f)] = f]
    /\ todo' = todo \ {f}
    /\ UNCHANGED <<claim, write, reader, ghost>>

Publish ==
    /\ claim # write /\ todo = {}
    /\ write' = claim
    /\ UNCHANGED <<claim, data, todo, reader, ghost>>

-----------------------------------------------------------------------------
(* Attaching a reader.                                                     *)

AttachOldest(r) ==
    /\ pc[r] = "idle"
    /\ pos'  = [pos EXCEPT ![r] = Oldest]
    /\ lost' = [lost EXCEPT ![r] = 0]
    /\ n'    = [n EXCEPT ![r] = 0]
    /\ tape' = [tape EXCEPT ![r] = Oldest]
    /\ told' = [told EXCEPT ![r] = 0]
    /\ UNCHANGED <<ring, pc, max, seen, passed, attempt, left, dst>>

AttachLatest(r) ==
    /\ pc[r] = "idle"
    /\ pos'  = [pos EXCEPT ![r] = write]
    /\ lost' = [lost EXCEPT ![r] = 0]
    /\ n'    = [n EXCEPT ![r] = 0]
    /\ tape' = [tape EXCEPT ![r] = write]
    /\ told' = [told EXCEPT ![r] = 0]
    /\ UNCHANGED <<ring, pc, max, seen, passed, attempt, left, dst>>

-----------------------------------------------------------------------------
(* A call: its entry, the load of write_pos, then the load of claim_pos.   *)

Call(r, entry, m) ==
    /\ pc[r] = "idle" /\ lost[r] <= MaxLost
    /\ pc'      = [pc EXCEPT ![r] = entry]
    /\ max'     = [max EXCEPT ![r] = m]
    /\ n'       = [n EXCEPT ![r] = 0]
    /\ dst'     = [dst EXCEPT ![r] = [j \in Offsets |-> Torn]]
    /\ UNCHANGED <<ring, pos, lost, seen, passed, attempt, left, ghost>>

LoadW(r, from, to) ==
    /\ pc[r] = from
    /\ seen' = [seen EXCEPT ![r] = write]
    /\ pc'   = [pc EXCEPT ![r] = to]
    /\ UNCHANGED <<ring, pos, lost, max, n, passed, attempt, left, dst, ghost>>

\* reap_overrun: the frames a reader at p has been lapped by.
Overrun(p) == IF claim - p > Cap THEN (claim - p) - Cap ELSE 0

\* Mutant of Avail: what is claimed but not published counts as available.
Avail_mutant(p, w) == IF claim > p THEN claim - p ELSE 0

\* Frames a reader at p may take, having loaded w.
Avail(p, w) == IF w > p THEN w - p ELSE 0

\* What a call finds on loading the claim cursor: the frames to write off
\* first, and then how many of those asked for it may take.
Gone(r) == Overrun(pos[r])
Take(r) == Least(Avail(pos[r] + Gone(r), seen[r]), max[r])

\* The call is over and its locals are gone.
Leave(r) ==
    /\ pc'      = [pc EXCEPT ![r] = "idle"]
    /\ max'     = [max EXCEPT ![r] = 0]
    /\ seen'    = [seen EXCEPT ![r] = 0]
    /\ passed'  = [passed EXCEPT ![r] = 0]
    /\ attempt' = [attempt EXCEPT ![r] = 0]
    /\ left'    = [left EXCEPT ![r] = {}]

\* A read or a skip ends by giving the caller `gone` frames of loss in out_lost
\* and moving it `taken` frames on; the histories add up what it was told.
Return(r, gone, taken) ==
    /\ Leave(r)
    /\ tape' = [tape EXCEPT ![r] = @ + gone + taken]
    /\ told' = [told EXCEPT ![r] = @ + gone]

-----------------------------------------------------------------------------
(* rb_read.                                                                *)

\* Mutant of PassedBy: a retry forgets what earlier attempts wrote off.
PassedBy_mutant(r) == Gone(r)

\* What out_lost has come to, over the attempts so far.
PassedBy(r) == passed[r] + Gone(r)

\* After writing off what was overwritten, the caller finds nothing to copy ...
ReadNothing(r) ==
    /\ pc[r] = "readC" /\ Take(r) = 0
    /\ pos'  = [pos EXCEPT ![r] = @ + Gone(r)]
    /\ lost' = [lost EXCEPT ![r] = @ + Gone(r)]
    /\ n'    = [n EXCEPT ![r] = 0]
    /\ Return(r, PassedBy(r), 0)
    /\ UNCHANGED <<ring, dst>>

\* ... or begins the copy.
ReadBegin(r) ==
    /\ pc[r] = "readC" /\ Take(r) > 0
    /\ pos'    = [pos EXCEPT ![r] = @ + Gone(r)]
    /\ lost'   = [lost EXCEPT ![r] = @ + Gone(r)]
    /\ passed' = [passed EXCEPT ![r] = PassedBy(r)]
    /\ n'      = [n EXCEPT ![r] = Take(r)]
    /\ left'   = [left EXCEPT ![r] = 0 .. Take(r) - 1]
    /\ pc'     = [pc EXCEPT ![r] = "copy"]
    /\ UNCHANGED <<ring, max, seen, attempt, dst, ghost>>

\* The bytes a copy of this slot may find: while the producer is copying into
\* it, a mixture.
Readable(s) == {data[s]} \cup (IF \E f \in todo : Slot(f) = s THEN {Torn} ELSE {})

ReadCopy(r, j) ==
    /\ pc[r] = "copy"
    /\ j \in left[r]
    /\ \E v \in Readable(Slot(pos[r] + j)) : dst' = [dst EXCEPT ![r][j] = v]
    /\ left' = [left EXCEPT ![r] = @ \ {j}]
    /\ pc'   = [pc EXCEPT ![r] = IF left[r] = {j} THEN "check" ELSE "copy"]
    /\ UNCHANGED <<ring, pos, lost, max, seen, n, passed, attempt, ghost>>

\* Mutant of StillOurs: it looks at the cursor readers wait for.
StillOurs_mutant(r) == write - pos[r] <= Cap

\* The copy is good if the producer has still not claimed past its first frame.
StillOurs(r) == claim - pos[r] <= Cap

ReadDone(r) ==
    /\ pc[r] = "check" /\ StillOurs(r)
    /\ pos' = [pos EXCEPT ![r] = @ + n[r]]
    /\ Return(r, passed[r], n[r])
    /\ UNCHANGED <<ring, lost, n, dst>>

MayRetry(r) == attempt[r] < MaxRetries

ReadRetry(r) ==
    /\ pc[r] = "check" /\ ~StillOurs(r)
    /\ MayRetry(r)
    /\ attempt' = [attempt EXCEPT ![r] = @ + 1]
    /\ pc'      = [pc EXCEPT ![r] = "readW"]
    /\ UNCHANGED <<ring, pos, lost, max, seen, n, passed, left, dst, ghost>>

\* Land half a buffer behind the producer and report the whole jump.
GiveUpAt(r) == claim - Cap \div 2

ReadGiveUp(r) ==
    LET jump == IF GiveUpAt(r) > pos[r] THEN GiveUpAt(r) - pos[r] ELSE 0
    IN  /\ pc[r] = "check" /\ ~StillOurs(r)
        /\ ~MayRetry(r)
        /\ pos'    = [pos EXCEPT ![r] = @ + jump]
        /\ lost'   = [lost EXCEPT ![r] = @ + jump]
        /\ n'      = [n EXCEPT ![r] = 0]
        /\ Return(r, passed[r] + jump, 0)
        /\ UNCHANGED <<ring, dst>>

-----------------------------------------------------------------------------
(* rb_skip and rb_reader_seek.                                             *)

SkipLoadC(r) ==
    /\ pc[r] = "skipC"
    /\ pos'  = [pos EXCEPT ![r] = @ + Gone(r) + Take(r)]
    /\ lost' = [lost EXCEPT ![r] = @ + Gone(r)]
    /\ Return(r, Gone(r), Take(r))
    /\ UNCHANGED <<ring, n, dst>>

\* Clamped up to the oldest frame held and then down to the write cursor.
SeekTarget(p, w) ==
    LET up == IF p < Oldest THEN Oldest ELSE p
    IN  IF up > w THEN w ELSE up

SeekLoadC(r) ==
    LET p == SeekTarget(max[r], seen[r])
    IN  /\ pc[r] = "seekC"
        /\ pos'  = [pos EXCEPT ![r] = p]
        /\ tape' = [tape EXCEPT ![r] = p]
        /\ Leave(r)
        /\ UNCHANGED <<ring, lost, n, dst, told>>

-----------------------------------------------------------------------------
Read(r) ==
    \/ \E m \in 1 .. MaxRead : Call(r, "readW", m)
    \/ LoadW(r, "readW", "readC")
    \/ ReadNothing(r)
    \/ ReadBegin(r)
    \/ \E j \in Offsets : ReadCopy(r, j)
    \/ ReadDone(r)
    \/ ReadRetry(r)
    \/ ReadGiveUp(r)

Skip(r) ==
    \/ \E m \in 1 .. MaxRead : Call(r, "skipW", m)
    \/ LoadW(r, "skipW", "skipC")
    \/ SkipLoadC(r)

Seek(r) ==
    \/ \E p \in 0 .. MaxWritten : Call(r, "seekW", p)
    \/ LoadW(r, "seekW", "seekC")
    \/ SeekLoadC(r)

Attach(r) == AttachOldest(r) \/ AttachLatest(r)

Produce == (\E k \in WriteSizes : Claim(k)) \/ (\E f \in todo : Put(f)) \/ Publish

Next == Produce \/ \E r \in Readers : Read(r) \/ Skip(r) \/ Seek(r) \/ Attach(r)

Spec == Init /\ [][Next]_vars

-----------------------------------------------------------------------------
(* Properties.                                                             *)

TypeOK ==
    /\ claim \in Nat /\ write \in Nat
    /\ data \in [Slots -> Frames]
    /\ todo \in SUBSET Nat
    /\ pos     \in [Readers -> Nat]
    /\ lost    \in [Readers -> Nat]
    /\ pc      \in [Readers -> PCs]
    /\ max     \in [Readers -> Nat]
    /\ seen    \in [Readers -> Nat]
    /\ n       \in [Readers -> 0 .. MaxRead]
    /\ passed  \in [Readers -> Nat]
    /\ attempt \in [Readers -> 0 .. MaxRetries]
    /\ left    \in [Readers -> SUBSET Offsets]
    /\ dst     \in [Readers -> [Offsets -> Frames]]
    /\ tape    \in [Readers -> Nat]
    /\ told    \in [Readers -> Nat]

\* "Corruption is never acceptable, only loss" (ringbuf.h): the frames a
\* finished rb_read handed over are exactly the ones at the place the caller
\* computes from out_lost, whatever the producer overwrote meanwhile.
NoCorruption ==
    \A r \in Readers : pc[r] = "idle" =>
        \A j \in 0 .. n[r] - 1 : dst[r][j] = tape[r] - n[r] + j

\* "The exact number of frames that passed it by is reported": a caller that
\* only adds up return values and out_lost is always where rb_reader_pos and
\* rb_reader_lost say, across overruns, retries, jumps, skips and seeks.
LossExact ==
    \A r \in Readers : pc[r] = "idle" => tape[r] = pos[r] /\ told[r] = lost[r]

\* `c - pos` is unsigned arithmetic in every safety decision: no reader may
\* stand ahead of the claim cursor.
NeverAheadOfClaim == \A r \in Readers : pos[r] <= claim

\* Frames are written off only for a reader the producer has really lapped:
\* nothing the ring still holds is ever counted as loss.
LossOnlyWhenLapped == \A r \in Readers : lost[r]' > lost[r] => claim - pos[r] > Cap
NoNeedlessLoss == [][LossOnlyWhenLapped]_vars

\* Everything published and not claimed again is in storage, whatever length
\* the writes had: the half of the contract availability rests on.
HeldIntact ==
    \A f \in Oldest .. write - 1 : f \notin todo => data[Slot(f)] = f

\* The promise in ringbuf.h, with the storage and the retries hidden.
Stream == INSTANCE LossyStream WITH
    born  <- claim,
    ready <- write,
    out   <- [r \in Readers |->
                IF pc[r] = "idle" THEN [j \in 0 .. n[r] - 1 |-> dst[r][j]]
                                  ELSE [j \in {} |-> 0]]

\* Every behaviour of the ring is one of the lossy stream.
ImplementsStream == Stream!Spec

\* "Clamped into what the ring can still serve: no earlier than the oldest
\* frame it still holds" (ringbuf.h, of rb_reader_seek).
SeekHeld ==
    [][\A r \in Readers :
         pc[r] = "seekC" /\ pc[r]' = "idle" => pos[r]' >= Oldest]_vars
=============================================================================
