------------------------------ MODULE Timeline ------------------------------
(***************************************************************************)
(* When each frame of one process tap was captured, and where it lands in  *)
(* the file.  Four parts agree on that without talking to each other: the  *)
(* capture (wasapi_common.c, capture.c) places packets in the ring and     *)
(* fills the holes it knows of; the source (source.c) remembers when frame *)
(* 0 was captured, and pads the ring while it has no capture; the reader   *)
(* (source.c) picks the ring frame of each output frame; the bus (bus.c,   *)
(* graph.c) says which output frames are due, and moves its origin over a  *)
(* pause.                                                                  *)
(*                                                                         *)
(* Time is counted in frames, so that no conversion of clock.c rounds.     *)
(* Each operation is one step, and so is each block a tick renders: what   *)
(* the producer does within a read is RingBuf's, the worker's and the      *)
(* loop's steps are SourceLink's.  A packet arrives the moment its last    *)
(* frame has been captured, as wasapi_common.h assumes.                    *)
(*                                                                         *)
(* The names every specification has carry the timeline's here, so that    *)
(* one module can speak of it and of the worker (SourceLink) at once.      *)
(***************************************************************************)
EXTENDS Integers, Sequences

CONSTANTS
    Capacity,     \* frames the ring holds
    Block,        \* APR_BUS_BLOCK_FRAMES, the most one pull asks for
    Lookbehind,   \* how far behind the wall clock the bus renders
    MaxTime,      \* bound: the last instant of a behaviour
    MaxTakes,     \* bound: recordings made with one graph
    Unusual       \* events of the environment to include, see Events

\* "gap": the engine loses more frames than the ring holds.  "stamp": the first
\* packet of a recovered capture says its time stamp is wrong.  "early": a pause
\* ends before the source's first frame was due.  "unpolled": a target dies
\* before the loop has seen its anchor.
Events == {"gap", "stamp", "early", "unpolled"}

ASSUME TimelineAssumption ==
    /\ Capacity \in Nat \ {0} /\ Block \in Nat \ {0} /\ Lookbehind \in Nat
    /\ MaxTime \in Nat /\ MaxTakes \in Nat
    /\ Unusual \subseteq Events

Silence == 0      \* a frame that was not captured; instants start at 1
None    == 0      \* an anchor that is not set

VARIABLES
    now,
    ring,       \* the instant at which each frame of the ring was captured
    on,         \* the source has a capture attached
    eng,        \* the instant of the next frame the engine will hand over
    lossy,      \* the engine has lost frames since its last packet
    frames, anchorC,    \* AprWasapiStream: frames delivered, clock.anchor_ticks
    resume,     \* AprCapResume.anchor_ticks until done
    died,       \* the instant the target exited, or None
    anchorS,    \* AprSource.clock.anchor_ticks
    rd,         \* AprSourceReader: begun, rebased, in_need, first_bus, and rr.pos
    graph,      \* the graph: idle, arming, running
    anchorB, fout,      \* AprBus.clock.anchor_ticks, frames_out
    pausedAt,   \* AprGraph.pause_ticks, or None when it is not paused
    block,      \* history: got and due instants of the frames rendered last
    cost,       \* history: the ring index below which a lap may cost held frames
    takes

engine   == <<eng, lossy, died>>
stream   == <<frames, anchorC, resume>>
capture  == <<on, engine, stream>>
bus      == <<graph, anchorB, fout, pausedAt, block, cost, takes>>
lineVars == <<now, ring, capture, anchorS, rd, bus>>

Unbegun == [begun |-> FALSE, rebased |-> FALSE, need |-> 0, first |-> 0, cur |-> 0]

LineInit ==
    /\ now = 1 /\ ring = <<>>
    /\ on = TRUE /\ eng = None /\ lossy = FALSE /\ died = None
    /\ frames = 0 /\ anchorC = None /\ resume = None
    /\ anchorS = None /\ rd = Unbegun
    /\ graph = "idle" /\ anchorB = None /\ fout = 0 /\ pausedAt = None
    /\ block = <<>> /\ cost = 0 /\ takes = 0

Larger(a, b)  == IF a >= b THEN a ELSE b
Smaller(a, b) == IF a <= b THEN a ELSE b
Silent(n)     == [i \in 1..n |-> Silence]

\* apr_clock_expected_frames, which is negative before the anchor.
Expected(anchor, t) == t - anchor

Pass ==
    /\ now < MaxTime
    /\ now' = now + 1
    /\ block' = <<>>
    /\ UNCHANGED <<ring, capture, anchorS, rd, graph, anchorB, fout, pausedAt, cost, takes>>

-----------------------------------------------------------------------------
(* The capture.                                                            *)

\* The target exits; from then on the tap hands over silence.
Die ==
    /\ on /\ eng # None /\ died = None
    /\ died' = now
    /\ UNCHANGED <<now, ring, on, eng, lossy, stream, anchorS, rd, bus>>

Return ==
    /\ ~on /\ died # None
    /\ died' = None
    /\ UNCHANGED <<now, ring, on, eng, lossy, stream, anchorS, rd, bus>>

\* The engine loses m frames and flags its next packet.  Losses that no time
\* stamp measures, of which the code only counts frames, are left out.
Lose(m) ==
    /\ eng # None /\ eng + m <= now
    /\ "gap" \in Unusual \/ anchorC = None
         \/ Expected(anchorC, eng + m) - frames <= Capacity
    /\ anchorC # None \/ frames = 0
    /\ eng' = eng + m /\ lossy' = TRUE
    /\ UNCHANGED <<now, ring, on, died, stream, anchorS, rd, bus>>

\* What n frames from instant t on sound like.
Content(t, n) ==
    [i \in 1..n |-> IF died = None \/ t + i - 1 < died THEN t + i - 1 ELSE Silence]

\* The capture time of frame 0, walking back over what was delivered before.
AnchorAt(bad) == IF anchorC = None /\ ~bad THEN eng - frames ELSE anchorC

\* Mutant of Gap: the gap is measured where the packet ends.
Gap_mutant(bad) ==
    IF anchorC = None \/ ~lossy \/ bad THEN 0
    ELSE Smaller(Larger(Expected(anchorC, now) - frames, 0), Capacity)

\* Frames to fill in before this packet, never more than the ring holds.
Gap(bad) ==
    IF anchorC = None \/ ~lossy \/ bad THEN 0
    ELSE Smaller(Larger(Expected(anchorC, eng) - frames, 0), Capacity)

\* Frames to pad so that a recovered capture joins the timeline of the source.
Rejoin(anchor) ==
    IF resume = None \/ anchor = None \/ anchor <= resume THEN 0
    ELSE Larger(Expected(resume, anchor) - Len(ring), 0)

\* The pump drains a packet: all the engine has captured and not lost.
Packet(bad) ==
    LET n   == now - eng
        gap == Gap(bad)
        pad == Rejoin(AnchorAt(bad)) IN
    /\ on /\ eng # None /\ n > 0
    /\ ~(bad /\ lossy)
    /\ ~(bad /\ resume # None /\ "stamp" \notin Unusual)
    /\ anchorC' = AnchorAt(bad)
    /\ resume' = IF anchorC' = None THEN resume ELSE None
    /\ ring' = ring \o Silent(pad) \o Silent(gap) \o Content(eng, n)
    /\ frames' = frames + gap + n
    /\ eng' = now /\ lossy' = FALSE
    /\ UNCHANGED <<now, on, died, anchorS, rd, bus>>

-----------------------------------------------------------------------------
(* The source and the reconnect worker.                                    *)

\* The worker finds the target dead; what the pump had not drained is lost.
DetachDead ==
    /\ graph = "running" /\ on /\ died # None
    /\ "unpolled" \in Unusual \/ anchorS # None \/ ring = <<>>
    /\ on' = FALSE /\ eng' = None /\ lossy' = FALSE
    /\ frames' = 0 /\ anchorC' = None /\ resume' = None
    /\ UNCHANGED <<now, ring, died, anchorS, rd, bus>>

Missing == Expected(anchorS, now) - Len(ring)

PadTo ==
    /\ graph = "running" /\ ~on /\ anchorS # None /\ Missing > 0
    /\ ring' = ring \o Silent(Missing)
    /\ UNCHANGED <<now, capture, anchorS, rd, bus>>

\* A replacement is told the source's own anchor and is started at once.
Reattach ==
    /\ graph = "running" /\ ~on /\ died = None
    /\ on' = TRUE /\ eng' = now /\ lossy' = FALSE
    /\ frames' = 0 /\ anchorC' = None /\ resume' = anchorS
    /\ UNCHANGED <<now, ring, died, anchorS, rd, bus>>

\* apr_source_poll: the first anchor a capture publishes is the source's.
Polled == IF on /\ anchorS = None THEN anchorC ELSE anchorS

-----------------------------------------------------------------------------
(* The reader.                                                             *)

\* The frames of the ring that can still be read are Oldest .. Len(ring) - 1.
Oldest  == Larger(Len(ring) - Capacity, 0)
Held(i) == Oldest <= i /\ i < Len(ring)

\* rb_reader_seek.
Seek(pos) == Smaller(Larger(pos, Oldest), Len(ring))

\* begin(): where the ring stands on the bus's timeline.
Begun(anchor) ==
    LET f0    == Expected(anchorB, anchor)
        first == IF rd.rebased THEN fout ELSE Larger(f0 + rd.cur, fout)
        base  == IF rd.rebased THEN Larger(fout - f0, 0) ELSE first - f0 IN
    [begun |-> TRUE, rebased |-> FALSE, need |-> base, first |-> first, cur |-> Seek(base)]

\* pull_aligned, the cursor behind: rb_skip takes the cursor to the oldest frame if it has
\* been lapped, and only then skips as many frames as were missing before.
Skipped(r) ==
    IF r.cur < r.need THEN Smaller(Larger(r.cur, Oldest) + r.need - r.cur, Len(ring)) ELSE r.cur

\* Mutant of At: the newest frame is left for the next read.
At_mutant(r, i) ==
    IF Held(Skipped(r)) /\ Skipped(r) <= i /\ i + 1 < Len(ring) THEN ring[i + 1] ELSE Silence

\* What a pull puts at ring index i: silence below the cursor and past the end; and, once a
\* read finds that it was lapped, to the end of the block, for what that read copied came
\* from further on and is thrown away.
At(r, i) ==
    IF Held(Skipped(r)) /\ Skipped(r) <= i /\ i < Len(ring) THEN ring[i + 1] ELSE Silence

\* The cursor after a pull of n frames.  A read that was lapped has moved it past what it
\* copied, held or not.
Passed(r, n) ==
    LET c == Skipped(r) IN
    IF c >= r.need + n THEN c
    ELSE IF c < Oldest THEN Oldest + Smaller(r.need + n - c, Len(ring) - Oldest)
    ELSE Smaller(r.need + n, Len(ring))

\* What the lap this pull finds may cost: a block on top of what was overwritten, or what
\* the reader had gone ahead of the ring.
Cost(r, n) ==
    IF r.cur >= Oldest THEN cost
    ELSE Oldest + (IF r.cur < r.need THEN r.need - r.cur ELSE n)

\* Mutant of Rebased: the reader carries on where it was.
Rebased_mutant == rd

\* apr_source_reader_rebase: the next pull begins again.
Rebased == [rd EXCEPT !.begun = FALSE, !.rebased = TRUE]

-----------------------------------------------------------------------------
(* The bus.                                                                *)

\* apr_bus_start: the origin and the output position, but not the readers.
BusStarts == anchorB' = now /\ fout' = 0 /\ block' = <<>>

\* apr_graph_start reads the clock, then arms the sources, then runs the bus.
Start ==
    /\ graph = "idle" /\ takes < MaxTakes
    /\ graph' = "arming" /\ takes' = takes + 1
    /\ BusStarts /\ pausedAt' = None
    /\ UNCHANGED <<now, ring, capture, anchorS, rd, cost>>

\* The engine may call the first packet after a restart a discontinuity.
Arm ==
    /\ graph = "arming"
    /\ graph' = "running"
    /\ eng' = IF on THEN now ELSE None
    /\ lossy' \in (IF on /\ frames > 0 THEN BOOLEAN ELSE {FALSE})
    /\ UNCHANGED <<now, ring, on, died, stream, anchorS, rd,
                   anchorB, fout, pausedAt, block, cost, takes>>

DueFrames == Expected(anchorB, now - Lookbehind)

\* n frames of silence, for a source with no anchor yet.
RenderNothing(n) ==
    /\ block' = [j \in 1..n |-> [got |-> Silence, due |-> anchorB + fout + j - 1]]
    /\ UNCHANGED <<rd, cost>>

\* apr_source_pull: nothing is read before the reader's first frame is due.
Render(n) ==
    LET r    == IF rd.begun THEN rd ELSE Begun(Polled)
        lead == Smaller(n, Larger(r.first - fout, 0))
        want == n - lead IN
    /\ block' = [j \in 1..n |->
                [got |-> IF j <= lead THEN Silence ELSE At(r, r.need + j - 1 - lead),
                 due |-> anchorB + fout + j - 1]]
    /\ IF want = 0 THEN rd' = r /\ UNCHANGED cost
       ELSE /\ rd' = [r EXCEPT !.need = @ + want, !.cur = Passed(r, want)]
            /\ cost' = Cost(r, want)

\* One block of the loop's turn, and the status of every source.
Turn ==
    LET n == IF pausedAt # None THEN 0 ELSE Smaller(Larger(DueFrames - fout, 0), Block) IN
    /\ graph = "running"
    /\ anchorS' = Polled
    /\ fout' = fout + n
    /\ IF n = 0 THEN UNCHANGED <<rd, block, cost>>
       ELSE IF Polled = None THEN RenderNothing(n) ELSE Render(n)
    /\ UNCHANGED <<now, ring, capture, graph, anchorB, pausedAt, takes>>

Pause ==
    /\ graph = "running" /\ pausedAt = None
    /\ pausedAt' = now
    /\ UNCHANGED <<now, ring, capture, anchorS, rd, graph, anchorB, fout, block, cost, takes>>

\* apr_bus_resume: the origin first, then the readers.
BusResumes ==
    /\ anchorB' = anchorB + (now - pausedAt)
    /\ rd' = Rebased

Resume ==
    /\ graph = "running" /\ pausedAt # None
    /\ "early" \in Unusual
         \/ (Polled # None /\ Polled <= fout + anchorB + now - pausedAt)
    /\ BusResumes /\ pausedAt' = None
    /\ UNCHANGED <<now, ring, capture, anchorS, graph, fout, block, cost, takes>>

\* The actions are finalized and the captures stop; the readers stay as they are.
Stop ==
    /\ graph = "running"
    /\ graph' = "idle" /\ pausedAt' = None
    /\ eng' = None
    /\ UNCHANGED <<now, ring, on, lossy, died, stream, anchorS, rd,
                   anchorB, fout, block, cost, takes>>

-----------------------------------------------------------------------------
LineNext ==
    \/ Pass \/ Die \/ Return
    \/ \E m \in 1..MaxTime : Lose(m)
    \/ \E bad \in BOOLEAN : Packet(bad)
    \/ DetachDead \/ PadTo \/ Reattach
    \/ Start \/ Arm \/ Turn \/ Pause \/ Resume \/ Stop

LineSpec == LineInit /\ [][LineNext]_lineVars

-----------------------------------------------------------------------------
(* The properties.                                                         *)

\* Types, and what the anchors and cursors may be at all.
LineTypeOK ==
    /\ now \in 1..MaxTime /\ ring \in Seq(0..MaxTime)
    /\ on \in BOOLEAN /\ eng \in 0..MaxTime /\ lossy \in BOOLEAN
    /\ died \in 0..MaxTime /\ frames \in Nat
    /\ anchorC \in 0..MaxTime /\ resume \in 0..MaxTime /\ anchorS \in 0..MaxTime
    /\ rd \in [begun : BOOLEAN, rebased : BOOLEAN, need : Nat, first : Nat, cur : Nat]
    /\ graph \in {"idle", "arming", "running"} /\ pausedAt \in 0..MaxTime
    /\ anchorB \in 0..MaxTime /\ fout \in Nat /\ takes \in 0..MaxTakes
    /\ block \in Seq([got : 0..MaxTime, due : 0..MaxTime]) /\ cost \in Nat

\* Every frame of the file that is not silence was captured at the instant the
\* bus assigns to its position, through losses, deaths, recoveries and pauses
\* (bus.h: every position comes from an absolute timestamp).
Aligned == \A k \in DOMAIN block : block[k].got # Silence => block[k].got = block[k].due

\* The ring's index space equals elapsed time since the source's anchor: fills,
\* padding and rejoining put every captured frame where the anchor says.
RingInPlace ==
    anchorS # None =>
        \A i \in DOMAIN ring : ring[i] # Silence => ring[i] = anchorS + i - 1

\* Once the source is anchored, a position of the file is silent only if its frame was not
\* in the ring when it was rendered, or was given up with a lap: one lap costs "at most one
\* pull block of content on top of what was actually overwritten" (source.c), or as much as
\* the reader had gone ahead of a ring that nobody filled.
NoFalseSilence ==
    [][fout' > fout => \A k \in DOMAIN block' :
         block'[k].got = Silence /\ anchorS' # None =>
             \A i \in 0..(Len(ring) - 1) : Held(i) /\ i >= cost' => ring[i + 1] # block'[k].due]_lineVars

\* The comment of pull_aligned as it stands: one block, however far ahead the reader was.
OneBlockAtMost == [][fout' > fout => rd'.cur <= Larger(rd'.need, Oldest + Block)]_lineVars
=============================================================================
