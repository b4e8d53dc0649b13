--------------------------- MODULE RingBufProofs ---------------------------
(***************************************************************************)
(* For every capacity, retry limit, set of readers and length of history:  *)
(* the ring never hands over a corrupt frame, never miscounts a loss, and  *)
(* implements the lossy stream.  Why, the inductive invariant says: the    *)
(* storage below the claim cursor is intact except where put() is at work, *)
(* and a copy that met overwritten storage has a claim cursor past it.     *)
(***************************************************************************)
EXTENDS RingBuf, TLAPS

-----------------------------------------------------------------------------
(* Slots.                                                                  *)

\* A positive multiple of c is at least c.
LEMMA PositiveMultiple ==
    ASSUME NEW c \in Nat \ {0}, NEW k \in Int, 0 < c * k
    PROVE  c <= c * k
<1>1. CASE k <= 0
  BY <1>1, SMT
<1>2. CASE k >= 1
  BY <1>2, SMT
<1> QED
  BY <1>1, <1>2

\* A frame's slot is a slot of the ring.
LEMMA SlotRange == \A f \in Nat : Slot(f) \in Slots
  BY RingAssumption DEF Slot, Slots

\* Two frames share a slot only when they are at least a capacity apart.
LEMMA SameSlot ==
    ASSUME NEW f \in Nat, NEW g \in Nat, f < g, Slot(f) = Slot(g)
    PROVE  f + Cap <= g
<1> DEFINE qf == f \div Cap
           qg == g \div Cap
<1>1. qf \in Nat /\ qg \in Nat /\ f = Cap * qf + Slot(f) /\ g = Cap * qg + Slot(g)
  BY RingAssumption DEF Slot
<1>2. g - f = Cap * (qg - qf)
  BY <1>1, SlotRange, RingAssumption DEF Slots
<1>3. Cap <= Cap * (qg - qf)
  BY <1>1, <1>2, RingAssumption, PositiveMultiple
<1> QED
  BY <1>2, <1>3, RingAssumption

-----------------------------------------------------------------------------
(* The inductive invariant.                                                *)

\* The producer copies only what it has claimed and not published, and every
\* frame claimed within the last capacity is in storage once it is copied.
RingInv ==
    /\ write <= claim
    /\ claim = write => todo = {}
    /\ \A f \in todo : write <= f /\ f < claim /\ claim <= f + Cap
    /\ \A f \in Nat : f < claim /\ claim <= f + Cap /\ f \notin todo
                         => data[Slot(f)] = f

Lapped(r) == claim > pos[r] + Cap

ReaderInv(r) ==
    /\ pos[r] <= claim
    /\ seen[r] <= write
    /\ tape[r] + passed[r] = pos[r]
    /\ told[r] + passed[r] = lost[r]
    /\ pc[r] \in {"idle", "skipW", "skipC", "seekW", "seekC"} => passed[r] = 0
    /\ pc[r] \in {"skipW", "skipC", "seekW", "seekC"} => n[r] = 0
    /\ pc[r] \in {"readW", "readC"} => max[r] <= MaxRead
    /\ pc[r] \in {"copy", "check"} =>
          /\ max[r] <= MaxRead
          /\ pos[r] + n[r] <= write
          /\ \A j \in 0 .. n[r] - 1 :
                j \notin left[r] => dst[r][j] = pos[r] + j \/ Lapped(r)
    /\ pc[r] = "copy"  => left[r] \subseteq 0 .. n[r] - 1
    /\ pc[r] = "check" => left[r] = {}
    /\ pc[r] = "idle" =>
          \A j \in 0 .. n[r] - 1 : dst[r][j] = pos[r] - n[r] + j

IInv == TypeOK /\ RingInv /\ \A r \in Readers : ReaderInv(r)

-----------------------------------------------------------------------------
LEMMA InitIInv == Init => IInv
  BY RingAssumption
  DEF Init, IInv, TypeOK, RingInv, ReaderInv, Lapped, Frames, PCs, Slots, Offsets, Torn

\* A step of the producer that leaves the readers alone and moves its cursors
\* only forward disturbs no reader.
LEMMA ProducerKeepsReaders ==
    ASSUME IInv, UNCHANGED <<reader, ghost>>,
           claim' \in Nat, write' \in Nat, claim <= claim', write <= write'
    PROVE  \A r \in Readers : ReaderInv(r)'
  BY RingAssumption DEF IInv, TypeOK, ReaderInv, Lapped, reader, ghost

LEMMA ClaimIInv ==
    ASSUME IInv, NEW k \in WriteSizes, Claim(k)
    PROVE  IInv'
<1> USE RingAssumption DEF IInv
<1>1. TypeOK'
  BY DEF Claim, Kept, TypeOK, reader, ghost
<1>2. RingInv'
  <2> SUFFICES ASSUME NEW f \in Nat, f < claim', claim' <= f + Cap, f \notin todo'
               PROVE  data'[Slot(f)] = f
    BY DEF Claim, Kept, TypeOK, RingInv
  <2> QED
    BY DEF Claim, Kept, TypeOK, RingInv
<1>3. \A r \in Readers : ReaderInv(r)'
  BY ProducerKeepsReaders DEF Claim, TypeOK
<1> QED
  BY <1>1, <1>2, <1>3

LEMMA PutIInv ==
    ASSUME IInv, NEW f \in todo, Put(f)
    PROVE  IInv'
<1> USE RingAssumption DEF IInv
<1>0. f \in Nat /\ Slot(f) \in Slots
  BY SlotRange DEF TypeOK
<1>1. TypeOK'
  BY <1>0 DEF Put, TypeOK, Frames, reader, ghost
<1>2. RingInv'
  <2> SUFFICES ASSUME NEW g \in Nat, g < claim, claim <= g + Cap, g \notin todo \ {f}
               PROVE  data'[Slot(g)] = g
    BY DEF Put, RingInv
  <2>1. CASE g = f
    BY <2>1, <1>0 DEF Put, TypeOK
  <2>2. CASE g # f
    <3>1. data[Slot(g)] = g
      BY <2>2 DEF RingInv
    <3>2. Slot(g) # Slot(f)
      BY <2>2, <1>0, SameSlot DEF RingInv, TypeOK
    <3> QED
      BY <3>1, <3>2, <1>0, SlotRange DEF Put, TypeOK
  <2> QED
    BY <2>1, <2>2
<1>3. \A r \in Readers : ReaderInv(r)'
  BY ProducerKeepsReaders DEF Put, TypeOK
<1> QED
  BY <1>1, <1>2, <1>3

LEMMA PublishIInv ==
    ASSUME IInv, Publish
    PROVE  IInv'
<1> USE RingAssumption DEF IInv
<1>1. TypeOK'
  BY DEF Publish, TypeOK, reader, ghost
<1>2. RingInv'
  BY DEF Publish, RingInv, TypeOK
<1>3. \A r \in Readers : ReaderInv(r)'
  BY ProducerKeepsReaders DEF Publish, TypeOK, RingInv
<1> QED
  BY <1>1, <1>2, <1>3

-----------------------------------------------------------------------------
(* Steps of a reader.  None touches the ring.                              *)

LEMMA RingKept == IInv /\ UNCHANGED ring => RingInv'
  BY DEF IInv, RingInv, ring

LEMMA AttachIInv ==
    ASSUME IInv, NEW r \in Readers, Attach(r)
    PROVE  IInv'
<1> USE RingAssumption DEF IInv
<1>1. CASE AttachOldest(r)
  <2>1. TypeOK'
    BY <1>1 DEF AttachOldest, Oldest, TypeOK, ring
  <2>2. ASSUME NEW q \in Readers PROVE ReaderInv(q)'
    BY <1>1 DEF AttachOldest, Oldest, TypeOK, ReaderInv, RingInv, Lapped, ring
  <2> QED
    BY <2>1, <2>2, <1>1, RingKept DEF AttachOldest
<1>2. CASE AttachLatest(r)
  <2>1. TypeOK'
    BY <1>2 DEF AttachLatest, TypeOK, ring
  <2>2. ASSUME NEW q \in Readers PROVE ReaderInv(q)'
    BY <1>2 DEF AttachLatest, TypeOK, ReaderInv, RingInv, Lapped, ring
  <2> QED
    BY <2>1, <2>2, <1>2, RingKept DEF AttachLatest
<1> QED
  BY <1>1, <1>2 DEF Attach

LEMMA CallIInv ==
    ASSUME IInv, NEW r \in Readers, NEW m \in Nat, NEW entry \in {"readW", "skipW", "seekW"},
           entry = "readW" => m <= MaxRead,
           Call(r, entry, m)
    PROVE  IInv'
<1> USE RingAssumption DEF IInv
<1>1. TypeOK'
  BY DEF Call, TypeOK, PCs, Frames, Torn, ring, ghost
<1>2. ASSUME NEW q \in Readers PROVE ReaderInv(q)'
  BY DEF Call, TypeOK, ReaderInv, RingInv, Lapped, ring, ghost
<1> QED
  BY <1>1, <1>2, RingKept DEF Call

LEMMA LoadWIInv ==
    ASSUME IInv, NEW r \in Readers,
           \/ LoadW(r, "readW", "readC")
           \/ LoadW(r, "skipW", "skipC")
           \/ LoadW(r, "seekW", "seekC")
    PROVE  IInv'
<1> USE RingAssumption DEF IInv
<1>1. TypeOK'
  <2>1. seen' \in [Readers -> Nat]
    BY DEF LoadW, TypeOK
  <2>2. pc' \in [Readers -> PCs]
    BY DEF LoadW, TypeOK, PCs
  <2> QED
    BY <2>1, <2>2 DEF LoadW, TypeOK, ring, ghost
<1>2. ASSUME NEW q \in Readers PROVE ReaderInv(q)'
  BY DEF LoadW, TypeOK, ReaderInv, RingInv, Lapped, ring, ghost
<1> QED
  BY <1>1, <1>2, RingKept DEF LoadW

\* What a call may write off and take stays behind the cursors.
LEMMA GoneTake ==
    ASSUME IInv, NEW r \in Readers
    PROVE  /\ Gone(r) \in Nat /\ pos[r] + Gone(r) <= claim
           /\ Take(r) \in Nat /\ Take(r) <= max[r]
           /\ Take(r) > 0 => pos[r] + Gone(r) + Take(r) <= write
<1> USE RingAssumption DEF IInv
<1>1. /\ pos[r] \in Nat /\ seen[r] \in Nat /\ max[r] \in Nat /\ claim \in Nat /\ write \in Nat
      /\ pos[r] <= claim /\ seen[r] <= write
  BY DEF TypeOK, ReaderInv
<1>2. Gone(r) \in Nat /\ pos[r] + Gone(r) <= claim
  BY <1>1 DEF Gone, Overrun
<1> QED
  BY <1>1, <1>2 DEF Take, Least, Avail

LEMMA ReadLoadCIInv ==
    ASSUME IInv, NEW r \in Readers, ReadNothing(r) \/ ReadBegin(r)
    PROVE  IInv'
<1>0. /\ Gone(r) \in Nat /\ pos[r] + Gone(r) <= claim
      /\ Take(r) \in Nat /\ Take(r) <= max[r]
      /\ Take(r) > 0 => pos[r] + Gone(r) + Take(r) <= write
  BY GoneTake
<1> USE <1>0, RingAssumption DEF IInv
<1>1. CASE ReadNothing(r)
  <2>1. TypeOK'
    BY <1>1 DEF ReadNothing, PassedBy, TypeOK, Return, Leave, PCs, ring
  <2>2. ASSUME NEW q \in Readers PROVE ReaderInv(q)'
    BY <1>1 DEF ReadNothing, PassedBy, TypeOK, ReaderInv, RingInv, Lapped, Return, Leave, ring
  <2> QED
    BY <1>1, <2>1, <2>2, RingKept DEF ReadNothing, PassedBy
<1>2. CASE ReadBegin(r)
  <2>1. max[r] <= MaxRead /\ max[r] \in Nat
    BY <1>2 DEF ReadBegin, PassedBy, ReaderInv, TypeOK
  <2>2. Take(r) \in 0 .. MaxRead /\ 0 .. Take(r) - 1 \in SUBSET Offsets
    BY <2>1 DEF Offsets
  <2>3. TypeOK'
    <3>1. left' \in [Readers -> SUBSET Offsets]
      <4> DEFINE all == 0 .. Take(r) - 1
      <4>1. /\ all \in SUBSET Offsets /\ left \in [Readers -> SUBSET Offsets]
            /\ left' = [left EXCEPT ![r] = all]
        BY <1>2, <2>2 DEF ReadBegin, PassedBy, TypeOK
      <4> HIDE DEF all
      <4> QED
        BY <4>1
    <3>2. /\ pos'    = [pos EXCEPT ![r] = @ + Gone(r)]
          /\ lost'   = [lost EXCEPT ![r] = @ + Gone(r)]
          /\ passed' = [passed EXCEPT ![r] = @ + Gone(r)]
          /\ n'      = [n EXCEPT ![r] = Take(r)]
          /\ pc'     = [pc EXCEPT ![r] = "copy"]
          /\ UNCHANGED <<ring, max, seen, attempt, dst, ghost>>
      BY <1>2 DEF ReadBegin, PassedBy
    <3> QED
      BY <2>2, <3>1, <3>2 DEF TypeOK, PCs, ring, ghost
  <2>4. ASSUME NEW q \in Readers PROVE ReaderInv(q)'
    <3>1. CASE q = r
      <4>1. /\ pos'[r] = pos[r] + Gone(r) /\ lost'[r] = lost[r] + Gone(r)
            /\ passed'[r] = passed[r] + Gone(r)
            /\ n'[r] = Take(r) /\ pc'[r] = "copy"
            /\ UNCHANGED <<ring, max, seen, attempt, dst, ghost>>
        BY <1>2 DEF ReadBegin, PassedBy, TypeOK
      <4>2. left'[r] = 0 .. n'[r] - 1
        BY <1>2, <4>1 DEF ReadBegin, PassedBy, TypeOK
      <4>3. /\ left'[r] \subseteq 0 .. n'[r] - 1
            /\ \A j \in 0 .. n'[r] - 1 : j \in left'[r]
        BY <4>2
      <4>4. Take(r) > 0
        BY <1>2 DEF ReadBegin, PassedBy
      <4> QED
        BY <2>1, <3>1, <4>1, <4>3, <4>4 DEF TypeOK, ReaderInv, Lapped, ring, ghost
    <3>2. CASE q # r
      BY <1>2, <3>2 DEF ReadBegin, PassedBy, TypeOK, ReaderInv, Lapped, ring, ghost
    <3> QED
      BY <3>1, <3>2
  <2> QED
    BY <1>2, <2>3, <2>4, RingKept DEF ReadBegin, PassedBy
<1> QED
  BY <1>1, <1>2

LEMMA ReadCopyIInv ==
    ASSUME IInv, NEW r \in Readers, NEW j \in Offsets, ReadCopy(r, j)
    PROVE  IInv'
<1> USE RingAssumption DEF IInv
<1>1. PICK v \in Readable(Slot(pos[r] + j)) : dst' = [dst EXCEPT ![r][j] = v]
  BY DEF ReadCopy
<1>0. pc[r] = "copy" /\ j \in left[r] /\ left[r] \subseteq 0 .. n[r] - 1
  BY DEF ReadCopy, ReaderInv
<1>2. j \in 0 .. n[r] - 1 /\ pos[r] + j \in Nat /\ pos[r] + j < write
  <2>1. pos[r] \in Nat /\ n[r] \in Int /\ write \in Nat
    BY RingAssumption DEF TypeOK
  <2>2. pos[r] + n[r] <= write
    BY <1>0 DEF ReaderInv
  <2>3. j \in 0 .. n[r] - 1
    BY <1>0
  <2> QED
    BY <2>1, <2>2, <2>3
<1>3. v \in Frames
  BY <1>1, <1>2, SlotRange DEF Readable, TypeOK, Frames, Torn
<1>4. v = pos[r] + j \/ Lapped(r)
  <2>1. CASE v = data[Slot(pos[r] + j)]
    BY <2>1, <1>2 DEF RingInv, Lapped, TypeOK, ReaderInv
  <2>2. CASE \E f \in todo : Slot(f) = Slot(pos[r] + j)
    <3>1. PICK f \in todo : Slot(f) = Slot(pos[r] + j)
      BY <2>2
    <3>2. f \in Nat /\ pos[r] + j < f /\ f < claim
      BY <1>2, <3>1 DEF RingInv, TypeOK
    <3>3. pos[r] + j + Cap <= f
      BY <1>2, <3>1, <3>2, SameSlot
    <3> QED
      BY <1>2, <3>2, <3>3 DEF Lapped, TypeOK
  <2> QED
    BY <1>1, <2>1, <2>2 DEF Readable
<1>5. TypeOK'
  BY <1>1, <1>3 DEF ReadCopy, TypeOK, PCs, ring, ghost
<1>6. ASSUME NEW q \in Readers PROVE ReaderInv(q)'
  <2>1. CASE q # r
    BY <1>1, <2>1 DEF ReadCopy, TypeOK, ReaderInv, Lapped, ring, ghost
  <2>2. CASE q = r
    <3>1. \A i \in 0 .. n[r] - 1 : i \notin left[r]' => dst'[r][i] = pos[r] + i \/ Lapped(r)
      BY <1>0, <1>1, <1>2, <1>4 DEF ReadCopy, TypeOK, ReaderInv
    <3>2. /\ pc'[r] = (IF left[r] = {j} THEN "check" ELSE "copy")
          /\ left'[r] = left[r] \ {j}
          /\ UNCHANGED <<ring, pos, lost, max, seen, n, passed, attempt, ghost>>
      BY DEF ReadCopy, TypeOK
    <3> QED
      BY <1>0, <2>2, <3>1, <3>2 DEF TypeOK, ReaderInv, Lapped, ring, ghost
  <2> QED
    BY <2>1, <2>2
<1> QED
  BY <1>5, <1>6, RingKept DEF ReadCopy

LEMMA ReadEndIInv ==
    ASSUME IInv, NEW r \in Readers, ReadDone(r) \/ ReadRetry(r) \/ ReadGiveUp(r)
    PROVE  IInv'
<1> USE RingAssumption DEF IInv
<1>1. CASE ReadDone(r)
  <2>1. TypeOK'
    BY <1>1 DEF ReadDone, Return, Leave, TypeOK, PCs, ring
  <2>2. ASSUME NEW q \in Readers PROVE ReaderInv(q)'
    BY <1>1 DEF ReadDone, StillOurs, Return, Leave, TypeOK, ReaderInv, RingInv, Lapped, ring
  <2> QED
    BY <2>1, <2>2, <1>1, RingKept DEF ReadDone
<1>2. CASE ReadRetry(r)
  <2>1. TypeOK'
    BY <1>2 DEF ReadRetry, MayRetry, TypeOK, PCs, ring, ghost
  <2>2. ASSUME NEW q \in Readers PROVE ReaderInv(q)'
    BY <1>2 DEF ReadRetry, MayRetry, TypeOK, ReaderInv, Lapped, ring, ghost
  <2> QED
    BY <2>1, <2>2, <1>2, RingKept DEF ReadRetry, MayRetry
<1>3. CASE ReadGiveUp(r)
  <2> DEFINE jump == IF GiveUpAt(r) > pos[r] THEN GiveUpAt(r) - pos[r] ELSE 0
  <2>1. jump \in Nat /\ pos[r] + jump <= claim
    BY <1>3 DEF ReadGiveUp, MayRetry, GiveUpAt, StillOurs, TypeOK, ReaderInv
  <2> HIDE DEF jump
  <2>2. /\ pos'  = [pos EXCEPT ![r] = @ + jump]
        /\ lost' = [lost EXCEPT ![r] = @ + jump]
        /\ n'    = [n EXCEPT ![r] = 0]
        /\ Return(r, passed[r] + jump, 0)
        /\ UNCHANGED <<ring, dst>>
    BY <1>3 DEF ReadGiveUp, MayRetry, jump
  <2>3. TypeOK'
    BY <2>1, <2>2 DEF Return, Leave, TypeOK, PCs, ring
  <2>4. ASSUME NEW q \in Readers PROVE ReaderInv(q)'
    BY <2>1, <2>2 DEF Return, Leave, TypeOK, ReaderInv, RingInv, Lapped, ring
  <2> QED
    BY <2>2, <2>3, <2>4, RingKept
<1> QED
  BY <1>1, <1>2, <1>3

LEMMA SkipLoadCIInv ==
    ASSUME IInv, NEW r \in Readers, SkipLoadC(r)
    PROVE  IInv'
<1>0. /\ Gone(r) \in Nat /\ pos[r] + Gone(r) <= claim
      /\ Take(r) \in Nat
      /\ Take(r) > 0 => pos[r] + Gone(r) + Take(r) <= write
  BY GoneTake
<1> USE <1>0, RingAssumption DEF IInv
<1>1. pos[r] + Gone(r) + Take(r) <= claim
  BY DEF TypeOK, RingInv
<1>2. TypeOK'
  BY DEF SkipLoadC, Return, Leave, TypeOK, PCs, ring
<1>3. ASSUME NEW q \in Readers PROVE ReaderInv(q)'
  BY <1>1 DEF SkipLoadC, Return, Leave, TypeOK, ReaderInv, RingInv, Lapped, ring
<1> QED
  BY <1>2, <1>3, RingKept DEF SkipLoadC

LEMMA SeekLoadCIInv ==
    ASSUME IInv, NEW r \in Readers, SeekLoadC(r)
    PROVE  IInv'
<1> USE RingAssumption DEF IInv
<1>1. SeekTarget(max[r], seen[r]) \in Nat /\ SeekTarget(max[r], seen[r]) <= claim
  BY DEF SeekTarget, Oldest, TypeOK, ReaderInv, RingInv
<1>2. TypeOK'
  BY <1>1 DEF SeekLoadC, Leave, TypeOK, PCs, ring
<1>3. ASSUME NEW q \in Readers PROVE ReaderInv(q)'
  BY <1>1 DEF SeekLoadC, Leave, TypeOK, ReaderInv, RingInv, Lapped, ring
<1> QED
  BY <1>2, <1>3, RingKept DEF SeekLoadC

LEMMA NextIInv == IInv /\ [Next]_vars => IInv'
<1> SUFFICES ASSUME IInv, [Next]_vars PROVE IInv'
  OBVIOUS
<1>1. ASSUME Produce PROVE IInv'
  BY <1>1, ClaimIInv, PutIInv, PublishIInv DEF Produce
<1>2. ASSUME NEW r \in Readers, Read(r) PROVE IInv'
  BY <1>2, CallIInv, LoadWIInv, ReadLoadCIInv, ReadCopyIInv, ReadEndIInv, RingAssumption
  DEF Read
<1>3. ASSUME NEW r \in Readers, Skip(r) PROVE IInv'
  BY <1>3, CallIInv, LoadWIInv, SkipLoadCIInv, RingAssumption DEF Skip
<1>4. ASSUME NEW r \in Readers, Seek(r) PROVE IInv'
  BY <1>4, CallIInv, LoadWIInv, SeekLoadCIInv, RingAssumption DEF Seek
<1>5. ASSUME NEW r \in Readers, Attach(r) PROVE IInv'
  BY <1>5, AttachIInv
<1>6. CASE UNCHANGED vars
  BY <1>6 DEF IInv, TypeOK, RingInv, ReaderInv, Lapped, vars, ring, reader, ghost
<1> QED
  BY <1>1, <1>2, <1>3, <1>4, <1>5, <1>6 DEF Next

\* The inductive invariant holds throughout.
THEOREM RingInvariant == Spec => []IInv
  BY InitIInv, NextIInv, PTL DEF Spec

-----------------------------------------------------------------------------
(* What it gives the callers.                                              *)

\* Every variable keeps its type; in particular a read makes at most
\* RB_READ_MAX_RETRIES retries and never fills more of dst than was asked.
THEOREM TypeCorrect == Spec => []TypeOK
  BY RingInvariant, PTL DEF IInv

\* No reader is ever handed a frame other than the one its place names.
THEOREM NeverCorrupt == Spec => []NoCorruption
<1>1. IInv => NoCorruption
  BY DEF IInv, TypeOK, ReaderInv, NoCorruption
<1> QED
  BY <1>1, RingInvariant, PTL

\* out_lost and the return values account for every index a reader passes.
THEOREM LossIsExact == Spec => []LossExact
<1>1. IInv => LossExact
  BY DEF IInv, TypeOK, ReaderInv, LossExact
<1> QED
  BY <1>1, RingInvariant, PTL

\* The unsigned subtraction claim_pos - pos never wraps.
THEOREM ClaimBoundsReaders == Spec => []NeverAheadOfClaim
<1>1. IInv => NeverAheadOfClaim
  BY DEF IInv, ReaderInv, NeverAheadOfClaim
<1> QED
  BY <1>1, RingInvariant, PTL

\* A loss is counted only for a reader the producer has lapped.
THEOREM LossNeedsLapping == Spec => NoNeedlessLoss
<1>1. ASSUME IInv, [Next]_vars PROVE [LossOnlyWhenLapped]_vars
  <2>1. ASSUME NEW r \in Readers, UNCHANGED <<lost>> PROVE ~(lost[r]' > lost[r])
    BY <1>1, <2>1 DEF IInv, TypeOK
  <2>2. ASSUME NEW r \in Readers, Read(r) \/ Skip(r) \/ Seek(r) \/ Attach(r),
               NEW q \in Readers, lost[q]' > lost[q]
        PROVE  claim - pos[q] > Cap
    <3>1. lost' = [lost EXCEPT ![r] = @ + Gone(r)] => q = r /\ Gone(r) > 0
      BY <1>1, <2>2, GoneTake DEF IInv, TypeOK
    <3>2. Gone(r) > 0 => claim - pos[r] > Cap
      BY DEF Gone, Overrun
    <3>3. lost' # [lost EXCEPT ![r] = 0]
      BY <1>1, <2>2 DEF IInv, TypeOK
    <3>4. ReadGiveUp(r) => q = r /\ claim - pos[r] > Cap
      BY <1>1, <2>2, RingAssumption DEF ReadGiveUp, MayRetry, StillOurs, IInv, TypeOK
    <3>5. lost' # lost
      BY <1>1, <2>2 DEF IInv, TypeOK
    <3> QED
      BY <2>2, <3>1, <3>2, <3>3, <3>4, <3>5
      DEF Read, Skip, Seek, Attach, Call, LoadW, ReadNothing, ReadBegin, PassedBy, ReadCopy,
          ReadDone, ReadRetry, MayRetry, SkipLoadC, SeekLoadC, AttachOldest, AttachLatest
  <2>3. Produce => UNCHANGED lost
    BY DEF Produce, Claim, Put, Publish, reader
  <2> QED
    BY <1>1, <2>1, <2>2, <2>3 DEF Next, LossOnlyWhenLapped
<1> QED
  BY <1>1, RingInvariant, PTL DEF Spec, NoNeedlessLoss

\* Published frames stay in storage until they are claimed again.
THEOREM HeldFramesIntact == Spec => []HeldIntact
<1>1. IInv => HeldIntact
  BY RingAssumption DEF IInv, TypeOK, RingInv, HeldIntact, Oldest
<1> QED
  BY <1>1, RingInvariant, PTL

-----------------------------------------------------------------------------
(* The ring implements the lossy stream of module LossyStream.             *)

\* What the stream calls out, of one reader and of all of them.
OutOf(r) == IF pc[r] = "idle" THEN [j \in 0 .. n[r] - 1 |-> dst[r][j]] ELSE [j \in {} |-> 0]
Out      == [r \in Readers |-> OutOf(r)]

\* A call that returned no frames, or has not returned, has handed over nothing.
LEMMA HandsOverNothing ==
    ASSUME NEW r \in Readers, n[r] \in Int, pc[r] = "idle" => n[r] = 0
    PROVE  OutOf(r) = Stream!Nothing
<1>1. CASE pc[r] = "idle"
  <2>1. 0 .. n[r] - 1 = {}
    BY <1>1
  <2> QED
    BY <1>1, <2>1 DEF OutOf, Stream!Nothing
<1>2. CASE pc[r] # "idle"
  BY <1>2 DEF OutOf, Stream!Nothing
<1> QED
  BY <1>1, <1>2

\* The call of one reader is nothing to the others.
LEMMA OthersOut ==
    ASSUME NEW r \in Readers, NEW o, OutOf(r)' = o,
           \A q \in Readers \ {r} : pc'[q] = pc[q] /\ n'[q] = n[q] /\ dst'[q] = dst[q]
    PROVE  Out' = [Out EXCEPT ![r] = o]
<1>1. \A q \in Readers \ {r} : OutOf(q)' = OutOf(q)
  BY DEF OutOf
<1> QED
  BY <1>1 DEF Out

LEMMA InitStream == Init => Stream!Init
<1> SUFFICES ASSUME Init PROVE Stream!Init
  OBVIOUS
<1>1. \A r \in Readers : OutOf(r) = Stream!Nothing
  BY HandsOverNothing DEF Init
<1>2. Out = [r \in Readers |-> Stream!Nothing]
  BY <1>1 DEF Out
<1> QED
  BY <1>2 DEF Init, Stream!Init, Out, OutOf

\* The steps of the stream, in terms of the ring.
LEMMA PassByStep ==
    ASSUME NEW r \in Readers, NEW k \in 0 .. claim, NEW m \in 0 .. write,
           k > 0 => claim - pos[r] > Cap, m > 0 => pos[r] + k + m <= write,
           pos[r] + k <= claim,
           NEW p, p = pos[r] + k + m, pos' = [pos EXCEPT ![r] = p],
           NEW l, l = lost[r] + k, lost' = [lost EXCEPT ![r] = l],
           Out' = [Out EXCEPT ![r] = Stream!Nothing], UNCHANGED <<claim, write>>
    PROVE  Stream!PassBy(r)
  BY DEF Stream!PassBy, Out, OutOf

LEMMA LossStep ==
    ASSUME pos \in [Readers -> Nat], write \in Nat,
           NEW r \in Readers, NEW k \in 0 .. claim, k > 0 => claim - pos[r] > Cap,
           pos[r] + k <= claim,
           pos' = [pos EXCEPT ![r] = pos[r] + k], lost' = [lost EXCEPT ![r] = lost[r] + k],
           Out' = [Out EXCEPT ![r] = Stream!Nothing], UNCHANGED <<claim, write>>
    PROVE  Stream!PassBy(r)
<1> DEFINE m == 0
<1>1. m \in 0 .. write /\ pos[r] + k = pos[r] + k + m /\ ~(m > 0)
  OBVIOUS
<1> HIDE DEF m
<1> QED
  BY <1>1, PassByStep

LEMMA EntryStep ==
    ASSUME pos \in [Readers -> Nat], lost \in [Readers -> Nat], claim \in Nat, write \in Nat,
           NEW r \in Readers, pos[r] <= claim,
           Out' = [Out EXCEPT ![r] = Stream!Nothing], UNCHANGED <<claim, write, pos, lost>>
    PROVE  Stream!PassBy(r)
<1> DEFINE k == 0
<1>1. /\ k \in 0 .. claim /\ pos[r] + k <= claim /\ ~(k > 0)
      /\ pos' = [pos EXCEPT ![r] = pos[r] + k] /\ lost' = [lost EXCEPT ![r] = lost[r] + k]
  OBVIOUS
<1> HIDE DEF k
<1> QED
  BY <1>1, LossStep

LEMMA DeliverStep ==
    ASSUME NEW r \in Readers, NEW m \in 0 .. write, pos[r] + m <= write, claim - pos[r] <= Cap,
           NEW p, p = pos[r] + m, pos' = [pos EXCEPT ![r] = p],
           Out' = [Out EXCEPT ![r] = Stream!Run(pos[r], m)], UNCHANGED <<claim, write, lost>>
    PROVE  Stream!Deliver(r)
  BY DEF Stream!Deliver, Out, OutOf

LEMMA PlaceStep ==
    ASSUME NEW r \in Readers, NEW p \in 0 .. claim, pos' = [pos EXCEPT ![r] = p],
           lost' = lost \/ lost' = [lost EXCEPT ![r] = 0],
           Out' = [Out EXCEPT ![r] = Stream!Nothing], UNCHANGED <<claim, write>>
    PROVE  Stream!Place(r)
  BY DEF Stream!Place, Out, OutOf

LEMMA ProduceStep ==
    ASSUME claim' \in Nat, write' \in Nat, claim <= claim', write <= write', write' <= claim',
           UNCHANGED <<pos, lost, Out>>
    PROVE  Stream!Produce
  BY DEF Stream!Produce, Out, OutOf

LEMMA StreamStutters ==
    ASSUME UNCHANGED <<claim, write, pos, lost, Out>> PROVE UNCHANGED Stream!vars
  BY DEF Stream!vars, Out, OutOf

LEMMA ProducerStreams == ASSUME IInv, IInv', Produce PROVE Stream!Produce \/ UNCHANGED Stream!vars
<1>1. UNCHANGED <<pos, lost, Out>>
  BY DEF Produce, Claim, Put, Publish, reader, Out, OutOf
<1>2. CASE \E k \in WriteSizes : Claim(k)
  <2>1. claim <= claim' /\ write' = write
    BY <1>2, RingAssumption DEF Claim, IInv, TypeOK
  <2> QED
    BY <1>1, <2>1, ProduceStep DEF IInv, TypeOK, RingInv
<1>3. CASE \E f \in todo : Put(f)
  BY <1>1, <1>3, StreamStutters DEF Put
<1>4. CASE Publish
  <2>1. claim' = claim /\ write <= write'
    BY <1>4 DEF Publish, IInv, RingInv
  <2> QED
    BY <1>1, <2>1, ProduceStep DEF IInv, TypeOK, RingInv
<1> QED
  BY <1>2, <1>3, <1>4 DEF Produce

\* A reader that is inside a call after the step, or has been given no frame.
LEMMA HandsNothing ==
    ASSUME IInv', NEW r \in Readers, pc'[r] = "idle" => n'[r] = 0,
           \A q \in Readers \ {r} : pc'[q] = pc[q] /\ n'[q] = n[q] /\ dst'[q] = dst[q]
    PROVE  Out' = [Out EXCEPT ![r] = Stream!Nothing]
<1>1. n'[r] \in Int
  BY DEF IInv, TypeOK
<1>2. OutOf(r)' = Stream!Nothing
  <2>1. CASE pc'[r] = "idle"
    <3>1. 0 .. n'[r] - 1 = {}
      BY <2>1
    <3> QED
      BY <2>1, <3>1 DEF OutOf, Stream!Nothing
  <2>2. CASE pc'[r] # "idle"
    BY <2>2 DEF OutOf, Stream!Nothing
  <2> QED
    BY <2>1, <2>2
<1> QED
  BY <1>2, OthersOut

LEMMA EntryStreams ==
    ASSUME IInv, IInv', NEW r \in Readers, NEW m, NEW entry \in {"readW", "skipW", "seekW"},
           Call(r, entry, m)
    PROVE  Stream!PassBy(r)
<1>1. UNCHANGED <<claim, write, pos, lost>>
  BY DEF Call, ring
<1>2. Out' = [Out EXCEPT ![r] = Stream!Nothing]
  BY HandsNothing DEF Call, IInv, TypeOK
<1>3. /\ pos \in [Readers -> Nat] /\ lost \in [Readers -> Nat]
      /\ claim \in Nat /\ write \in Nat /\ pos[r] <= claim
  BY DEF IInv, TypeOK, ReaderInv
<1> QED
  BY <1>1, <1>2, <1>3, EntryStep

LEMMA InsideStreams ==
    ASSUME IInv, NEW r \in Readers,
           \/ LoadW(r, "readW", "readC") \/ LoadW(r, "skipW", "skipC")
           \/ LoadW(r, "seekW", "seekC") \/ (\E j \in Offsets : ReadCopy(r, j)) \/ ReadRetry(r)
    PROVE  UNCHANGED Stream!vars
<1>1. UNCHANGED <<ring, pos, lost, n>>
  BY DEF LoadW, ReadCopy, ReadRetry
<1>2. /\ pc[r] # "idle" /\ pc'[r] # "idle"
      /\ \A q \in Readers \ {r} : pc'[q] = pc[q] /\ dst'[q] = dst[q]
  BY DEF LoadW, ReadCopy, ReadRetry, IInv, TypeOK
<1>3. \A q \in Readers : OutOf(q)' = OutOf(q)
  BY <1>1, <1>2 DEF OutOf
<1> QED
  BY <1>1, <1>3, StreamStutters DEF Out, ring

\* Losses are written off as the stream allows: only when the reader has been lapped.
LEMMA WriteOffStreams ==
    ASSUME IInv, IInv', NEW r \in Readers, ReadNothing(r) \/ ReadBegin(r) \/ SkipLoadC(r)
    PROVE  Stream!PassBy(r)
<1>1. /\ Gone(r) \in Nat /\ pos[r] + Gone(r) <= claim
      /\ Take(r) \in Nat
      /\ Take(r) > 0 => pos[r] + Gone(r) + Take(r) <= write
  BY GoneTake
<1>2. /\ claim \in Nat /\ write \in Nat /\ pos[r] \in Nat
      /\ Gone(r) \in 0 .. claim /\ (Gone(r) > 0 => claim - pos[r] > Cap)
  BY <1>1, RingAssumption DEF IInv, TypeOK, Gone, Overrun
<1>3. UNCHANGED <<claim, write>> /\ lost' = [lost EXCEPT ![r] = lost[r] + Gone(r)]
  BY DEF ReadNothing, ReadBegin, SkipLoadC, ring
<1>4. Out' = [Out EXCEPT ![r] = Stream!Nothing]
  <2>1. CASE ReadNothing(r)
    BY <2>1, HandsNothing DEF ReadNothing, Return, Leave, IInv, TypeOK
  <2>2. CASE ReadBegin(r)
    BY <2>2, HandsNothing DEF ReadBegin, IInv, TypeOK
  <2>3. CASE SkipLoadC(r)
    <3>1. n[r] = 0 /\ n' = n /\ dst' = dst /\ pc' = [pc EXCEPT ![r] = "idle"]
      BY <2>3 DEF SkipLoadC, Return, Leave, IInv, ReaderInv
    <3> QED
      BY <3>1, HandsNothing DEF IInv, TypeOK
  <2> QED
    BY <2>1, <2>2, <2>3
<1>5. CASE ReadNothing(r) \/ ReadBegin(r)
  <2>1. pos' = [pos EXCEPT ![r] = pos[r] + Gone(r)]
    BY <1>5 DEF ReadNothing, ReadBegin
  <2>2. pos \in [Readers -> Nat]
    BY DEF IInv, TypeOK
  <2> QED
    BY <1>1, <1>2, <1>3, <1>4, <2>1, <2>2, LossStep
<1>6. CASE SkipLoadC(r)
  <2>1. pos' = [pos EXCEPT ![r] = pos[r] + Gone(r) + Take(r)] /\ Take(r) \in 0 .. write
    BY <1>1, <1>2, <1>6 DEF SkipLoadC, IInv, TypeOK
  <2> QED
    BY <1>1, <1>2, <1>3, <1>4, <2>1, PassByStep
<1> QED
  BY <1>5, <1>6

LEMMA GiveUpStreams ==
    ASSUME IInv, IInv', NEW r \in Readers, ReadGiveUp(r) PROVE Stream!PassBy(r)
<1> DEFINE jump == IF GiveUpAt(r) > pos[r] THEN GiveUpAt(r) - pos[r] ELSE 0
<1>1. /\ claim \in Nat /\ write \in Nat /\ pos[r] \in Nat
      /\ claim - pos[r] > Cap
  BY RingAssumption DEF ReadGiveUp, StillOurs, IInv, TypeOK
<1>2. jump \in 0 .. claim /\ pos[r] + jump <= claim
  BY <1>1, RingAssumption DEF GiveUpAt
<1> HIDE DEF jump
<1>3. /\ pos' = [pos EXCEPT ![r] = pos[r] + jump]
      /\ lost' = [lost EXCEPT ![r] = lost[r] + jump]
      /\ UNCHANGED <<claim, write>>
  BY DEF ReadGiveUp, ring, jump
<1>4. Out' = [Out EXCEPT ![r] = Stream!Nothing]
  BY HandsNothing DEF ReadGiveUp, Return, Leave, IInv, TypeOK
<1>5. pos \in [Readers -> Nat]
  BY DEF IInv, TypeOK
<1> QED
  BY <1>1, <1>2, <1>3, <1>4, <1>5, LossStep

\* A copy that the claim cursor has not passed is the frames at the reader's place.
LEMMA DoneStreams ==
    ASSUME IInv, NEW r \in Readers, ReadDone(r) PROVE Stream!Deliver(r)
<1>1. /\ write \in Nat /\ claim \in Nat /\ pos[r] \in Nat /\ n[r] \in 0 .. write
      /\ pos[r] + n[r] <= write /\ claim - pos[r] <= Cap
      /\ pc[r] = "check" /\ left[r] = {} /\ ~Lapped(r)
  BY RingAssumption DEF ReadDone, StillOurs, IInv, TypeOK, ReaderInv, Lapped
<1>2. /\ UNCHANGED <<claim, write, lost, n, dst>> /\ pc' = [pc EXCEPT ![r] = "idle"]
      /\ pos' = [pos EXCEPT ![r] = pos[r] + n[r]]
  BY DEF ReadDone, Return, Leave, ring
<1>3. \A j \in 0 .. n[r] - 1 : dst[r][j] = pos[r] + j
  BY <1>1 DEF IInv, ReaderInv
<1>4. OutOf(r)' = Stream!Run(pos[r], n[r])
  <2>1. pc'[r] = "idle" /\ n'[r] = n[r] /\ dst'[r] = dst[r]
    BY <1>2 DEF IInv, TypeOK
  <2> QED
    BY <1>3, <2>1 DEF OutOf, Stream!Run
<1>5. Out' = [Out EXCEPT ![r] = Stream!Run(pos[r], n[r])]
  BY <1>2, <1>4, OthersOut DEF IInv, TypeOK
<1> QED
  BY <1>1, <1>2, <1>5, DeliverStep

LEMMA PlacingStreams ==
    ASSUME IInv, IInv', NEW r \in Readers, SeekLoadC(r) \/ Attach(r) PROVE Stream!Place(r)
<1>1. claim \in Nat /\ write \in Nat /\ write <= claim
  BY DEF IInv, TypeOK, RingInv
<1>2. Out' = [Out EXCEPT ![r] = Stream!Nothing]
  BY HandsNothing DEF SeekLoadC, Leave, Attach, AttachOldest, AttachLatest, IInv, TypeOK, ReaderInv
<1>3. UNCHANGED <<claim, write>>
  BY DEF SeekLoadC, Attach, AttachOldest, AttachLatest, ring
<1>4. CASE SeekLoadC(r)
  <2>1. SeekTarget(max[r], seen[r]) \in 0 .. claim
    BY <1>1, RingAssumption DEF SeekTarget, Oldest, IInv, TypeOK, ReaderInv
  <2>2. pos' = [pos EXCEPT ![r] = SeekTarget(max[r], seen[r])] /\ lost' = lost
    BY <1>4 DEF SeekLoadC
  <2> QED
    BY <1>2, <1>3, <2>1, <2>2, PlaceStep
<1>5. CASE Attach(r)
  <2>1. Oldest \in 0 .. claim /\ write \in 0 .. claim
    BY <1>1, RingAssumption DEF Oldest
  <2>2. /\ pos' = [pos EXCEPT ![r] = Oldest] \/ pos' = [pos EXCEPT ![r] = write]
        /\ lost' = [lost EXCEPT ![r] = 0]
    BY <1>5 DEF Attach, AttachOldest, AttachLatest
  <2> QED
    BY <1>2, <1>3, <2>1, <2>2, PlaceStep
<1> QED
  BY <1>4, <1>5

LEMMA NextStreams == ASSUME IInv, IInv', [Next]_vars PROVE [Stream!Next]_(Stream!vars)
<1>1. CASE Produce
  BY <1>1, ProducerStreams DEF Stream!Next
<1>2. ASSUME NEW r \in Readers, Read(r) \/ Skip(r) \/ Seek(r) \/ Attach(r)
      PROVE  Stream!PassBy(r) \/ Stream!Deliver(r) \/ Stream!Place(r) \/ UNCHANGED Stream!vars
  BY <1>2, EntryStreams, InsideStreams, WriteOffStreams, GiveUpStreams, DoneStreams,
     PlacingStreams
  DEF Read, Skip, Seek
<1>3. CASE UNCHANGED vars
  BY <1>3, StreamStutters DEF vars, ring, reader, Out, OutOf
<1> QED
  BY <1>1, <1>2, <1>3 DEF Next, Stream!Next

\* Whatever the producer overwrites and however often a read is retried, the callers of the
\* ring see the stream that ringbuf.h promises: nothing is lost but to a reader that was
\* lapped, every loss is counted, and what is handed over is the frames at the reader's place.
THEOREM RingImplementsStream == Spec => ImplementsStream
  BY InitStream, NextStreams, RingInvariant, PTL DEF Spec, Stream!Spec, ImplementsStream
=============================================================================
