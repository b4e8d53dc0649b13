----------------------------- MODULE FileWriter -----------------------------
(***************************************************************************)
(* One output during one recording: the mixer hands it blocks and never    *)
(* waits, a writer thread of its own takes them from a ring and puts them  *)
(* in the file, and the stop joins that thread and finishes the file       *)
(* (actions/action_wav.c, action_mp3.c, action_ogg.c; the bus's part of it *)
(* is render and close_action of core/bus.c).                              *)
(*                                                                         *)
(* A frame is named by its index in the take.  The ring is what LossyStream*)
(* promises: a reader that is lapped is told how many frames passed it.    *)
(* The encoders are external: the mp3 encoder keeps some frames back, the  *)
(* Opus encoder keeps PreSkip frames back, libogg puts out whole pages     *)
(* when it likes.  The sample rate is the codec's.                         *)
(*                                                                         *)
(* A process that is killed leaves the file of that moment, so an          *)
(* invariant of the file is what every kill leaves.                        *)
(*                                                                         *)
(* The names every specification has carry the writer's here, so that one  *)
(* module can speak of it and of the loop (Runner) at once.                *)
(***************************************************************************)
EXTENDS Integers, FiniteSets, Sequences

CONSTANTS
    Kinds,      \* the formats of this instance: "wav", "mp3", "ogg"
    Cap,        \* frames the write-behind ring holds (4 s)
    Chunk,      \* frames of one read, and of one write of silence
    MaxBlock,   \* frames of one on_audio
    Interval,   \* wav: frames between two header rewrites (1 s)
    Header,     \* wav: bytes the RIFF size counts besides the data
    Short,      \* wav: the largest size a 32-bit field may hold
    Delay,      \* mp3: frames the encoder may keep
    Lead,       \* mp3: silence a player that finds no tag plays first
    Fill,       \* mp3: silence that fills up the last frame
    Packet,     \* ogg: frames of a packet
    PreSkip,    \* ogg: frames the encoder keeps
    MaxFrames   \* bound: frames of the take

ASSUME WriterAssumption ==
    /\ Kinds # {} /\ Kinds \subseteq {"wav", "mp3", "ogg"}
    /\ Cap \in Nat \ {0} /\ Chunk \in Nat \ {0} /\ MaxBlock \in Nat \ {0}
    /\ Interval \in Nat \ {0} /\ Packet \in Nat \ {0}
    /\ Header \in Nat /\ Short \in Nat /\ Header <= Short
    /\ Delay \in Nat /\ Lead \in Nat /\ Fill \in Nat /\ PreSkip \in Nat /\ MaxFrames \in Nat

Silent  == 0 - 1        \* a frame of silence where one was lost
Garbage == 0 - 2        \* what a write that died halfway leaves

VARIABLES
    kind,
    mx,         \* where the mixer's thread is with this output
    fed,        \* frames written to the ring
    told,       \* BusAction.failed: the bus has dropped it, the user is told
    stop, failed,   \* the two flags the threads share
    wt,         \* where the writer's thread is
    last,       \* its copy of stop
    took,       \* its place in the ring
    todo,       \* what it has taken and not passed on yet
    lost,       \* lost_frames
    enc,        \* frames inside the encoder and in pages not put out
    disk,       \* what lies behind the header
    data,       \* data_bytes, mp3_bytes, file_bytes: frames known to be whole
    at,         \* the file pointer: "end", or "front" after a header
    head,       \* wav: the header on disk
    patched,    \* data as of the last header
    tail        \* mp3: the last frame is "padded", then "tagged" as such

mixer  == <<mx, fed, told, stop>>
writer == <<wt, last, took, todo, lost>>
file   == <<enc, disk, data, at, head, patched, tail>>
writerVars   == <<kind, mixer, failed, writer, file>>

Frames == 0 .. MaxFrames - 1
Lesser(a, b)  == IF a <= b THEN a ELSE b
Greater(a, b) == IF a <= b THEN b ELSE a

Silence(n)  == [i \in 1 .. n |-> Silent]
From(f, n)  == [i \in 1 .. n |-> f + i - 1]
First(s, n) == SubSeq(s, 1, n)
Rest(s, n)  == SubSeq(s, n + 1, Len(s))

-----------------------------------------------------------------------------
(* The wav header: sizes of 32 bits, or RF64 with the true size in ds64.   *)

\* Mutant of Long: the promotion is decided by the data alone.
Long_mutant(n) == n > Short
Long(n) == Header + n > Short

Word(n) == n % (Short + 2)

HeaderFor(n) ==
    IF Long(n) THEN [big |-> TRUE, riff |-> Short + 1, short |-> Short + 1, long |-> n]
    ELSE [big |-> FALSE, riff |-> Word(Header + n), short |-> Word(n), long |-> 0]

\* What a player makes of it.
Says(h)  == IF h.big THEN h.long ELSE h.short
Sound(h) == h.big \/ h.riff = Header + h.short

Broken == [big |-> FALSE, riff |-> 0, short |-> 0, long |-> 0]

-----------------------------------------------------------------------------
(* The file.                                                               *)

WriterInit ==
    /\ kind \in Kinds
    /\ mx = "feed" /\ fed = 0 /\ told = FALSE /\ stop = FALSE /\ failed = FALSE
    /\ wt = "look" /\ last = FALSE /\ took = 0 /\ todo = << >> /\ lost = 0
    /\ enc = << >> /\ disk = << >> /\ data = 0 /\ at = "end"
    /\ head = HeaderFor(0) /\ patched = 0 /\ tail = "none"

\* How many of n accepted frames can be on disk: a wav has them all, an
\* encoder keeps some back, and an ogg file ends with a page.
Out(n) ==
    CASE kind = "wav" -> {n}
      [] kind = "mp3" -> {k \in data .. n : n - k <= Delay}
      [] kind = "ogg" -> {k \in data .. n :
                            \E p \in 0 .. n \div Packet : k = Greater(0, p * Packet - PreSkip)}

\* Frames s go where the file pointer is.
Store(s) ==
    IF at = "end" THEN disk' = disk \o s /\ UNCHANGED head
    ELSE disk' = disk /\ head' = IF s = << >> THEN head ELSE Broken

\* The data grows to the first k frames of whole.
Grows(whole, k) ==
    /\ Store(SubSeq(whole, Len(disk) + 1, k))
    /\ enc' = Rest(whole, k)
    /\ data' = k
    /\ UNCHANGED <<at, patched, failed>>

\* A write that fails: some pages may be whole, part of one may be there.
Dies(whole, ks) ==
    /\ \E k \in ks, junk \in {<< >>, <<Garbage>>} :
        /\ Store(SubSeq(whole, Len(disk) + 1, k) \o junk)
        /\ data' = k
        /\ enc' = Rest(whole, k)
    /\ failed' = TRUE
    /\ UNCHANGED <<at, patched>>

\* What is whole after a write that fails: the pages before it, if any.
Saved(n) == IF kind = "ogg" THEN Out(n) ELSE {data}

\* write_payload, encode, push_pcm: s, which is not empty, is passed on.
Pass(s) ==
    IF failed THEN UNCHANGED <<file, failed>>
    ELSE LET whole == disk \o enc \o s
         IN  \/ \E k \in Out(Len(whole)) : Grows(whole, k)
             \/ Dies(whole, Saved(Len(whole)))

\* Mutant of WriteHeader: a way back that fails is not noticed.
WriteHeader_mutant(back) ==
    \/ /\ failed' = TRUE
       /\ UNCHANGED <<head, at, patched>>
    \/ \E written, returned \in BOOLEAN :
        /\ head' = IF written THEN HeaderFor(data) ELSE head
        /\ at' = IF back /\ returned THEN "end" ELSE "front"
        /\ failed' = (failed \/ ~written)
        /\ patched' = data

\* The header says what there is, if the seek and the write succeed; `back`
\* returns to the end.  Appending anywhere else would spoil what is good, so
\* a way back that fails is a failure.
WriteHeader(back) ==
    \/ /\ failed' = TRUE                \* the first seek fails: nothing is done
       /\ UNCHANGED <<head, at, patched>>
    \/ \E written, returned \in BOOLEAN :
        /\ head' = IF written THEN HeaderFor(data) ELSE head
        /\ at' = IF back /\ returned THEN "end" ELSE "front"
        /\ failed' = (failed \/ ~written \/ (back /\ ~returned))
        /\ patched' = data

-----------------------------------------------------------------------------
(* The mixer's thread: blocks while the take lasts, then the end of it.    *)

Moves(from, to) == mx = from /\ mx' = to

\* render and on_audio: a block goes into the ring, whatever the disk does.
Feed ==
    /\ ~told /\ Moves("feed", "answer")
    /\ \E n \in 1 .. MaxBlock : fed + n <= MaxFrames /\ fed' = fed + n
    /\ UNCHANGED <<kind, told, stop, failed, writer, file>>

\* What on_audio returns, and what the bus makes of it.
Answer ==
    /\ Moves("answer", "feed")
    /\ told' = failed
    /\ UNCHANGED <<kind, fed, stop, failed, writer, file>>

\* close_action: the writer is asked to wind up.
Finalize ==
    /\ Moves("feed", "join")
    /\ stop' = TRUE
    /\ UNCHANGED <<kind, fed, told, failed, writer, file>>

\* The wait for the thread is INFINITE.
Join ==
    /\ wt = "gone" /\ Moves("join", "flush")
    /\ UNCHANGED <<kind, fed, told, stop, failed, writer, file>>

\* Mutant of LastGranule: the encoder is not primed with silence.
LastGranule_mutant(n) == Lesser((n \div Packet + 1) * Packet, PreSkip + n)

\* The end-of-stream page: the encoder is topped up to all it must give, the
\* last packet padded, and the position capped at the audio there is.
LastGranule(n) ==
    LET need == PreSkip + n
    IN  Lesser((need \div Packet + 1) * Packet, need)

\* What the encoder still holds; that of an mp3 ends with a full frame.
Flush ==
    /\ Moves("flush", "seal")
    /\ IF kind = "wav" \/ failed THEN UNCHANGED <<file, failed>>
       ELSE LET whole == disk \o enc
                n == Len(whole)
                all == IF kind = "ogg" THEN LastGranule(n) - PreSkip ELSE n
            IN  \/ /\ Grows(whole, Greater(all, data))
                   /\ tail' = IF kind = "mp3" THEN "padded" ELSE tail
                \/ Dies(whole, Saved(n)) /\ UNCHANGED tail
    /\ UNCHANGED <<kind, fed, told, stop, writer>>

\* The mp3 tag goes over the frame that was reserved for it, which until then
\* is a frame of silence; LAME has none for some streams, and then the file is
\* left as it is.
StampTag ==
    \/ tail' = "tagged" /\ at' = "front" /\ UNCHANGED failed
    \/ failed' = TRUE /\ at' \in {"front", "end"} /\ UNCHANGED tail
    \/ UNCHANGED <<tail, at, failed>>

\* The wav header once more, also after a failure; the mp3 tag only without.
Seal ==
    /\ Moves("seal", "trim")
    /\ \/ kind = "wav" /\ WriteHeader(FALSE) /\ UNCHANGED tail
       \/ kind = "mp3" /\ ~failed /\ StampTag /\ UNCHANGED <<head, patched>>
       \/ (kind = "ogg" \/ (kind = "mp3" /\ failed)) /\ UNCHANGED <<at, head, patched, tail, failed>>
    /\ UNCHANGED <<kind, fed, told, stop, writer, enc, disk, data>>

\* What finalize returns is an error.
Verdict == failed \/ lost > 0

\* What a write left unfinished is cut off, if the system lets it; the file
\* is closed and the verdict is the bus's.
Trim ==
    /\ Moves("trim", "closed")
    /\ disk' \in {disk, First(disk, data)}
    /\ told' = (told \/ Verdict)
    /\ UNCHANGED <<kind, fed, stop, failed, writer, enc, data, at, head, patched, tail>>

-----------------------------------------------------------------------------
(* The writer's thread.                                                    *)

WriterGoes(from, to) == wt \in from /\ wt' = to

\* The flag is read before the ring is drained.
Look ==
    /\ WriterGoes({"look"}, "read")
    /\ last' = stop
    /\ UNCHANGED <<kind, mixer, failed, took, todo, lost, file>>

\* Frames that passed the reader by, and those it takes instead.
Takes(passed, n) ==
    /\ todo' = Silence(passed) \o From(took + passed, n)
    /\ took' = took + passed + n
    /\ lost' = lost + passed

Read ==
    LET behind == fed - took
        passed == Greater(0, behind - Cap)
        n == Lesser(Chunk, behind - passed)
    IN  /\ WriterGoes({"read"}, IF n = 0 THEN "patch" ELSE "push")
        /\ Takes(passed, n)
        /\ UNCHANGED <<kind, mixer, failed, last, file>>

\* The mixer is writing a block and outruns every attempt: the reader jumps
\* to half a ring behind it, has nothing, and the drain ends.
ReadGivesUp ==
    /\ mx = "answer" /\ fed - took > Cap
    /\ WriterGoes({"read"}, "pushLast")
    /\ Takes(fed - took - Cap \div 2, 0)
    /\ UNCHANGED <<kind, mixer, failed, last, file>>

\* One write or one call of the encoder: silence first, a chunk at a time.
Push ==
    LET silent == {i \in DOMAIN todo : todo[i] = Silent}
        n == IF silent = {} THEN Len(todo) ELSE Lesser(Chunk, Cardinality(silent))
    IN  /\ todo # << >>
        /\ wt \in {"push", "pushLast"}
        /\ Pass(First(todo, n))
        /\ todo' = Rest(todo, n)
        /\ wt' = IF n < Len(todo) THEN wt ELSE IF wt = "push" THEN "read" ELSE "patch"
        /\ UNCHANGED <<kind, mixer, last, took, lost, tail>>

\* Mutant of Patch: the flag is read after the drain.
Patch_mutant ==
    /\ WriterGoes({"patch"}, IF stop THEN "gone" ELSE "look")
    /\ IF kind = "wav" /\ data - patched >= Interval THEN WriteHeader(TRUE)
       ELSE UNCHANGED <<head, at, patched, failed>>
    /\ UNCHANGED <<kind, mixer, last, took, todo, lost, enc, disk, data, tail>>

\* The end of a drain: about once a second of audio the wav header is
\* rewritten; a writer that has seen the flag before the drain is done.
Patch ==
    /\ WriterGoes({"patch"}, IF last THEN "gone" ELSE "look")
    /\ IF kind = "wav" /\ data - patched >= Interval THEN WriteHeader(TRUE)
       ELSE UNCHANGED <<head, at, patched, failed>>
    /\ UNCHANGED <<kind, mixer, last, took, todo, lost, enc, disk, data, tail>>

WriterNext ==
    \/ Feed \/ Answer \/ Finalize \/ Join \/ Flush \/ Seal \/ Trim
    \/ Look \/ Read \/ ReadGivesUp \/ Push \/ Patch

WriterSpec == WriterInit /\ [][WriterNext]_writerVars

-----------------------------------------------------------------------------
(* Properties.                                                             *)

Headers == [big : BOOLEAN, riff : Nat, short : Nat, long : Nat]

WriterTypeOK ==
    /\ kind \in Kinds
    /\ mx \in {"feed", "answer", "join", "flush", "seal", "trim", "closed"}
    /\ wt \in {"look", "read", "push", "pushLast", "patch", "gone"}
    /\ {told, stop, failed, last} \subseteq BOOLEAN
    /\ fed \in 0 .. MaxFrames /\ took \in 0 .. fed /\ lost \in 0 .. took
    /\ \A s \in {todo, enc, disk} : s \in Seq(Frames \cup {Silent, Garbage})
    /\ data \in 0 .. MaxFrames /\ patched \in 0 .. data
    /\ at \in {"end", "front"} /\ head \in Headers
    /\ tail \in {"none", "padded", "tagged"} /\ (kind # "mp3" => tail = "none")

\* The frames of the take a player finds in the file as it is: of a wav what
\* its header says, of the others up to the first thing that is not whole.
Heard ==
    LET bad == {i \in DOMAIN disk : disk[i] = Garbage}
        end == IF kind = "wav" THEN Says(head)
               ELSE IF bad = {} THEN Len(disk)
               ELSE (CHOOSE i \in bad : \A j \in bad : i <= j) - 1
    IN  First(disk, Lesser(end, Len(disk)))

\* What an mp3 without its tag plays besides: before the first frame the reserved
\* frame and the encoder's delay, behind the last one what fills it up.
Untagged == kind = "mp3" /\ tail # "tagged"
Before   == IF Untagged /\ (disk # << >> \/ tail = "padded") THEN Lead ELSE 0
After    == IF Untagged /\ tail = "padded" THEN Fill ELSE 0

Plays == Silence(Before) \o Heard \o Silence(After)

\* action_wav.c: "THE FILE IS PLAYABLE AT EVERY INSTANT, NOT JUST AFTER
\* FINALIZE".  Killed at any moment, the file opens, its header never claims
\* what is not there, and each frame is the one that belongs at its place or
\* the silence that stands for it, through every failure of the disk.  Only an
\* mp3 killed before its tag plays the take later, behind some silence
\* (action_mp3.c, "24 ms at the head"), and all of it by as much.
AlwaysPlays ==
    /\ kind = "wav" => Sound(head) /\ Says(head) <= Len(disk)
    /\ \A i \in DOMAIN Plays :
         Plays[i] = Silent \/ (i > Before /\ Plays[i] = i - 1 - Before)

\* What of the take would be left by a kill is never less, and never other, than
\* what a kill before would have left: no rewrite of a header, no flush, no tag,
\* no cut at the end takes back a frame.
NeverTakenBack ==
    [][ /\ Len(Heard) <= Len(Heard')
        /\ \A i \in DOMAIN Heard : Heard'[i] = Heard[i] ]_writerVars

\* "still lines up sample-for-sample with every other bus": a file that was
\* finished without a failure is as long as what the mixer produced, however
\* far the disk fell behind, and has one silent frame for each one lost.  An
\* mp3 of which LAME makes no tag is longer by what the tag would have said.
AsLongAsTheTake ==
    mx = "closed" /\ ~failed =>
        /\ Len(Plays) = Before + fed + After
        /\ Cardinality({i \in DOMAIN Heard : Heard[i] = Silent}) = lost

\* "nothing is silently swallowed": when the user has been told of nothing,
\* the finished file plays every frame of the take, in its place unless LAME
\* made no tag.
UntoldIsWhole ==
    mx = "closed" /\ ~told => Plays = Silence(Before) \o From(0, fed) \o Silence(After)

\* action_wav.c:46-48, "a kill -9 at any moment leaves a file that opens, and
\* that contains everything up to at most the last second": what is on disk
\* is described up to an interval and the chunk being written.
HeaderKeepsUp ==
    kind = "wav" => data - Says(head) <= Interval + Chunk
=============================================================================
