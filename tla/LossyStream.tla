---------------------------- MODULE LossyStream ----------------------------
(***************************************************************************)
(* What the one ring buffer promises its callers (include/ringbuf.h),      *)
(* with no storage, no cursors inside a call and no retry: a stream of     *)
(* frames named by their absolute index, and readers that each hold a      *)
(* place in it.  A reader may lose frames only once the writer is more     *)
(* than a capacity ahead of it, every loss is counted, and whatever is     *)
(* delivered is exactly the frames at the reader's place, in order.        *)
(***************************************************************************)
EXTENDS Integers

CONSTANTS Readers, Cap

VARIABLES
    born,     \* frames the writer has begun to write
    ready,    \* frames that are completely written
    pos,      \* pos[r]: the index of the next frame r will be given
    lost,     \* lost[r]: frames that passed r by since it attached
    out       \* out[r]: the frames the last finished call handed to r

vars == <<born, ready, pos, lost, out>>

Nothing == [j \in {} |-> 0]

\* The frames first, first + 1, ..., as they must appear in a buffer.
Run(first, n) == [j \in 0 .. n - 1 |-> first + j]

Init ==
    /\ born = 0 /\ ready = 0
    /\ pos  = [r \in Readers |-> 0]
    /\ lost = [r \in Readers |-> 0]
    /\ out  = [r \in Readers |-> Nothing]

\* The writer never waits for a reader and never takes a frame back.
Produce ==
    /\ born' \in Nat /\ ready' \in Nat
    /\ born <= born' /\ ready <= ready' /\ ready' <= born'
    /\ UNCHANGED <<pos, lost, out>>

\* r learns that k frames passed it by; n more are passed over on purpose.
\* Frames are written off only when the writer has lapped r.
PassBy(r) ==
    \E k \in 0 .. born, n \in 0 .. ready :
        /\ k > 0 => born - pos[r] > Cap
        /\ n > 0 => pos[r] + k + n <= ready
        /\ pos[r] + k <= born
        /\ pos'  = [pos EXCEPT ![r] = @ + k + n]
        /\ lost' = [lost EXCEPT ![r] = @ + k]
        /\ out'  = [out EXCEPT ![r] = Nothing]
        /\ UNCHANGED <<born, ready>>

\* r is handed the n frames at its place, each of them intact.
Deliver(r) ==
    \E n \in 0 .. ready :
        /\ pos[r] + n <= ready
        /\ born - pos[r] <= Cap
        /\ pos' = [pos EXCEPT ![r] = @ + n]
        /\ out' = [out EXCEPT ![r] = Run(pos[r], n)]
        /\ UNCHANGED <<born, ready, lost>>

\* r moves its own place.  That is never loss; attaching afresh forgets it.
Place(r) ==
    /\ \E p \in 0 .. born : pos' = [pos EXCEPT ![r] = p]
    /\ lost' \in {lost, [lost EXCEPT ![r] = 0]}
    /\ out' = [out EXCEPT ![r] = Nothing]
    /\ UNCHANGED <<born, ready>>

Next ==
    \/ Produce
    \/ \E r \in Readers : PassBy(r) \/ Deliver(r) \/ Place(r)

Spec == Init /\ [][Next]_vars
=============================================================================
