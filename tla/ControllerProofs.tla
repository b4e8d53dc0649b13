-------------------------- MODULE ControllerProofs --------------------------
(***************************************************************************)
(* However many takes, dialogs and lost notices there are, the window is   *)
(* not destroyed under a take.  The flag allow_close lets a close through  *)
(* without looking at the recording; what makes that safe is that it is    *)
(* set with a close already posted, and that a take is started by input,   *)
(* which waits until what is posted has been taken.  An update waits for   *)
(* the take, and the pause that is shown is the one that is written.       *)
(***************************************************************************)
EXTENDS Controller, TLAPS

Posts  == {"paused", "resumed", "finishing", "stopped", "update", "close"}
Places == {"none", "begin", "arming", "running", "tell", "finishing", "closed", "told", "ended"}

Types ==
    /\ recording \in BOOLEAN /\ allow \in BOOLEAN
    /\ q \in Seq(Posts)
    /\ loop \in [at : Places, want : BOOLEAN, gp : BOOLEAN]

CloseIsPosted == \E i \in 1 .. Len(q) : q[i] = "close"

\* The flag and the thread come and go together.
FlagIsTrue == win = "open" /\ ~recording => loop.at = "none"

\* A close that nothing stops any more is on its way, and nothing is recorded.
AllowedIsSafe == win = "open" /\ allow => ~recording /\ CloseIsPosted

\* Once the window is gone there is no thread.
GoneIsOver == win \in {"gone", "quit"} => loop.at = "none"

IInv == Types /\ FlagIsTrue /\ AllowedIsSafe /\ GoneIsOver

LEMMA InitIInv == Init => IInv
<1> SUFFICES ASSUME Init PROVE IInv
  OBVIOUS
<1>1. recording = FALSE /\ allow = FALSE /\ loop = Idle /\ win = "open"
  BY DEF Init
<1>2. q \in Seq(Posts)
  BY DEF Init
<1>3. Idle \in [at : Places, want : BOOLEAN, gp : BOOLEAN] /\ Idle.at = "none"
  BY DEF Idle, Places
<1> QED
  BY <1>1, <1>2, <1>3 DEF IInv, Types, FlagIsTrue, AllowedIsSafe, GoneIsOver

-----------------------------------------------------------------------------
(* The queue.                                                              *)

\* What is taken from the front leaves the close where it is, unless it is one.
LEMMA TailKeepsClose ==
  ASSUME q \in Seq(Posts), q # <<>>, q' = Tail(q)
  PROVE  /\ q' \in Seq(Posts)
         /\ Head(q) # "close" /\ CloseIsPosted => CloseIsPosted'
<1>1. Len(q') = Len(q) - 1 /\ \A i \in 1 .. Len(q) - 1 : q'[i] = q[i + 1]
  OBVIOUS
<1>2. ASSUME Head(q) # "close", CloseIsPosted PROVE CloseIsPosted'
  <2>1. PICK i \in 1 .. Len(q) : q[i] = "close"
    BY <1>2 DEF CloseIsPosted
  <2>2. i # 1
    BY <1>2, <2>1
  <2>3. i - 1 \in 1 .. Len(q') /\ q'[i - 1] = "close"
    BY <1>1, <2>1, <2>2
  <2> QED
    BY <2>3 DEF CloseIsPosted
<1> QED
  BY <1>2

\* What is added at the end leaves what is there.
LEMMA AppendKeepsClose ==
  ASSUME q \in Seq(Posts), NEW m \in Posts, q' = Append(q, m)
  PROVE  /\ q' \in Seq(Posts)
         /\ CloseIsPosted \/ m = "close" => CloseIsPosted'
<1>1. Len(q') = Len(q) + 1 /\ q'[Len(q) + 1] = m /\ \A i \in 1 .. Len(q) : q'[i] = q[i]
  OBVIOUS
<1>2. CloseIsPosted => CloseIsPosted'
  BY <1>1 DEF CloseIsPosted
<1>3. m = "close" => CloseIsPosted'
  BY <1>1 DEF CloseIsPosted
<1> QED
  BY <1>2, <1>3

-----------------------------------------------------------------------------
(* The steps.                                                              *)

\* Steps that touch none of what the invariant speaks of.
Apart == UNCHANGED <<recording, allow, q, win>> /\ UNCHANGED loop.at /\ loop' \in
            [at : Places, want : BOOLEAN, gp : BOOLEAN]

LEMMA ApartKeeps == ASSUME IInv, Apart PROVE IInv'
  BY DEF IInv, Types, FlagIsTrue, AllowedIsSafe, GoneIsOver, CloseIsPosted, Apart

LEMMA CommandKeeps == ASSUME IInv, Ask \/ Cancel \/ Recording PROVE IInv'
<1>1. CASE Ask \/ Cancel
  <2>1. Apart
    BY <1>1 DEF Ask, Cancel, Apart, IInv, Types, flags, take, queue, surface
  <2> QED
    BY <2>1, ApartKeeps
<1>2. CASE Start
  <2>1. win = "open" /\ q = <<>> /\ UNCHANGED <<allow, q, win>>
    BY <1>2 DEF Start, AtTray, Pumping, queue
  <2>2. ~allow
    BY <2>1 DEF IInv, AllowedIsSafe, CloseIsPosted
  <2>3. recording' = TRUE /\ loop' = [Idle EXCEPT !.at = "begin"]
    BY <1>2 DEF Start
  <2> QED
    BY <2>1, <2>2, <2>3
    DEF IInv, Types, FlagIsTrue, AllowedIsSafe, GoneIsOver, Idle, Places
<1>3. CASE Stop \/ Pause \/ Resume \/ TickClock
  <2>1. Apart
    BY <1>3 DEF Stop, Pause, Resume, TickClock, Apart, IInv, Types, flags, take, queue, surface,
                AtTray, Pumping
  <2> QED
    BY <2>1, ApartKeeps
<1> QED
  BY <1>1, <1>2, <1>3 DEF Recording

\* Posting, or failing to.
LEMMA PostKeeps ==
  ASSUME IInv, NEW m \in Posts, Post(m)
  PROVE  q' \in Seq(Posts) /\ (CloseIsPosted => CloseIsPosted')
  BY AppendKeepsClose DEF Post, IInv, Types, CloseIsPosted, queue

LEMMA RecorderKeeps == ASSUME IInv, Recorder PROVE IInv'
<1>1. UNCHANGED <<recording, allow, win>>
  BY DEF Recorder, Begin, Arm, ApplyPause, TellPause, Break, CloseFiles, TellStopped, EndThread,
         flags, surface
<1>2. q' \in Seq(Posts) /\ (CloseIsPosted => CloseIsPosted')
  <2>1. CASE UNCHANGED q
    BY <2>1 DEF IInv, Types, CloseIsPosted
  <2>2. CASE \E m \in Posts : Post(m)
    BY <2>2, PostKeeps
  <2>3. UNCHANGED q \/ \E m \in Posts : Post(m)
    BY DEF Recorder, Begin, Arm, ApplyPause, TellPause, Break, CloseFiles, TellStopped, EndThread,
           queue, Posts
  <2> QED
    BY <2>1, <2>2, <2>3
<1>3. loop.at # "none" /\ loop' \in [at : Places, want : BOOLEAN, gp : BOOLEAN]
  BY DEF Recorder, Begin, Arm, ApplyPause, TellPause, Break, CloseFiles, TellStopped, EndThread,
         LoopGoes, IInv, Types, Places
<1> QED
  BY <1>1, <1>2, <1>3 DEF IInv, Types, FlagIsTrue, AllowedIsSafe, GoneIsOver
LEMMA TakingKeeps == ASSUME IInv, Messages PROVE IInv'
<1>1. CASE TakePaused \/ TakeResumed \/ TakeFinishing \/ TakeStopped \/ TakeUpdate
  <2>1. q # <<>> /\ Head(q) # "close" /\ q' = Tail(q)
    BY <1>1 DEF TakePaused, TakeResumed, TakePauseNotice, TakeFinishing, TakeStopped, TakeUpdate,
                Takes
  <2>2. UNCHANGED <<recording, allow, loop, win>>
    BY <1>1 DEF TakePaused, TakeResumed, TakePauseNotice, TakeFinishing, TakeStopped, TakeUpdate,
                flags, take, surface
  <2> QED
    BY <2>1, <2>2, TailKeepsClose DEF IInv, Types, FlagIsTrue, AllowedIsSafe, GoneIsOver
<1>2. CASE FinishTake
  <2>1. loop.at = "ended" /\ loop' = Idle /\ recording' = FALSE /\ win' = win
    BY <1>2 DEF FinishTake
  <2>2. CASE closing
    <3>1. q' = Append(q, "close")
      BY <1>2, <2>2 DEF FinishTake
    <3>2. q' \in Seq(Posts) /\ CloseIsPosted'
      BY <3>1, AppendKeepsClose DEF IInv, Types, Posts
    <3>3. allow' = TRUE
      BY <1>2, <2>2 DEF FinishTake
    <3> QED
      BY <2>1, <3>2, <3>3 DEF IInv, Types, FlagIsTrue, AllowedIsSafe, GoneIsOver, Idle, Places
  <2>3. CASE ~closing
    <3>1. UNCHANGED <<allow, q>>
      BY <1>2, <2>3 DEF FinishTake
    <3> QED
      BY <2>1, <3>1
      DEF IInv, Types, FlagIsTrue, AllowedIsSafe, GoneIsOver, CloseIsPosted, Idle, Places
  <2> QED
    BY <2>2, <2>3
<1>3. CASE TakeClose
  <2>1. q # <<>> /\ win = "open" /\ UNCHANGED <<recording, allow, loop>>
    BY <1>3 DEF TakeClose, Takes, Pumping, flags, take
  <2>2. CASE allow \/ ~recording
    <3>1. win' = "gone" /\ q' = <<>> /\ loop.at = "none"
      BY <1>3, <2>1, <2>2 DEF TakeClose, OnClose, Destroyed, IInv, FlagIsTrue, AllowedIsSafe
    <3> QED
      BY <2>1, <3>1 DEF IInv, Types, FlagIsTrue, AllowedIsSafe, GoneIsOver
  <2>3. CASE ~allow /\ recording
    <3>1. win' = win /\ q' = Tail(q)
      BY <1>3, <2>3 DEF TakeClose, OnClose
    <3>2. q' \in Seq(Posts)
      BY <2>1, <3>1, TailKeepsClose DEF IInv, Types
    <3> QED
      BY <2>1, <2>3, <3>1, <3>2 DEF IInv, Types, FlagIsTrue, AllowedIsSafe, GoneIsOver
  <2> QED
    BY <2>2, <2>3
<1> QED
  BY <1>1, <1>2, <1>3 DEF Messages

\* What closes the window finds either no recording or the flag, and then there is none.
LEMMA ClosingKeeps == ASSUME IInv, Close \/ StopAndClose \/ WaitDone PROVE IInv'
<1>1. win = "open" /\ UNCHANGED <<recording, loop>>
  BY DEF Close, StopAndClose, WaitDone, At, AtTray, Pumping, flags, take
<1>2. CASE win' = "gone" /\ q' = <<>> /\ (allow \/ ~recording)
  <2>1. loop.at = "none" /\ allow' \in BOOLEAN
    BY <1>1, <1>2 DEF Close, StopAndClose, WaitDone, flags, IInv, Types, FlagIsTrue, AllowedIsSafe
  <2> QED
    BY <1>1, <1>2, <2>1 DEF IInv, Types, FlagIsTrue, AllowedIsSafe, GoneIsOver
<1>3. CASE UNCHANGED <<win, q, allow>>
  BY <1>1, <1>3 DEF IInv, Types, FlagIsTrue, AllowedIsSafe, GoneIsOver, CloseIsPosted
<1>4. CASE Close
  BY <1>2, <1>3, <1>4 DEF Close, OnClose, Destroyed, flags
<1>5. CASE StopAndClose
  BY <1>2, <1>3, <1>5 DEF StopAndClose, Destroyed
<1>6. CASE WaitDone
  BY <1>2, <1>6 DEF WaitDone, Destroyed
<1> QED
  BY <1>4, <1>5, <1>6

LEMMA WindowKeeps == ASSUME IInv, Window PROVE IInv'
<1>1. CASE Close \/ StopAndClose \/ WaitDone
  BY <1>1, ClosingKeeps
<1>2. CASE RecreateTaskbar \/ HideToTray \/ Show \/ CloseToTray \/ WaitExpires
  <2>1. Apart
    BY <1>2 DEF RecreateTaskbar, HideToTray, Show, CloseToTray, WaitExpires, Apart, IInv, Types,
                flags, take, queue, surface
  <2> QED
    BY <2>1, ApartKeeps
<1>3. CASE EndSession \/ Killed
  <2>1. UNCHANGED <<recording, allow, q, loop>> /\ (win' = win \/ win' = "killed")
    BY <1>3 DEF EndSession, Killed, flags, take, queue
  <2> QED
    BY <2>1 DEF IInv, Types, FlagIsTrue, AllowedIsSafe, GoneIsOver, CloseIsPosted
<1>4. CASE Quit
  <2>1. win = "gone" /\ win' = "quit" /\ UNCHANGED <<recording, allow, q, loop>>
    BY <1>4 DEF Quit, flags, queue
  <2> QED
    BY <2>1 DEF IInv, Types, FlagIsTrue, AllowedIsSafe, GoneIsOver
<1>5. CASE Destroy
  <2>1. win' = "over" /\ recording' = FALSE /\ loop' = Idle /\ UNCHANGED <<allow, q>>
    BY <1>5 DEF Destroy, queue
  <2> QED
    BY <2>1 DEF IInv, Types, FlagIsTrue, AllowedIsSafe, GoneIsOver, Idle, Places
<1> QED
  BY <1>1, <1>2, <1>3, <1>4, <1>5 DEF Window

LEMMA NextKeeps == ASSUME IInv, [Next]_vars PROVE IInv'
<1>1. CASE Ask \/ Cancel \/ Recording
  BY <1>1, CommandKeeps
<1>2. CASE Recorder
  BY <1>2, RecorderKeeps
<1>3. CASE Messages
  BY <1>3, TakingKeeps
<1>4. CASE FindUpdate
  <2>1. q' = Append(q, "update") /\ UNCHANGED <<recording, allow, loop, win>>
    BY <1>4 DEF FindUpdate, flags, take, surface
  <2> QED
    BY <2>1, AppendKeepsClose DEF IInv, Types, FlagIsTrue, AllowedIsSafe, GoneIsOver, Posts
<1>5. CASE InstallUpdate
  <2>1. Apart
    BY <1>5 DEF InstallUpdate, Apart, IInv, Types, flags, take, queue, surface
  <2> QED
    BY <2>1, ApartKeeps
<1>6. CASE Window
  BY <1>6, WindowKeeps
<1>7. CASE UNCHANGED vars
  <2>1. Apart
    BY <1>7 DEF vars, Apart, IInv, Types, flags, take, queue, surface
  <2> QED
    BY <2>1, ApartKeeps
<1> QED
  BY <1>1, <1>2, <1>3, <1>4, <1>5, <1>6, <1>7 DEF Next

-----------------------------------------------------------------------------
\* The flag recording and the recording thread come and go together; a close that
\* is allowed has been posted, and finds no recording (recording_finished).
THEOREM ControllerInvariant == Spec => []IInv
  BY InitIInv, NextKeeps, PTL DEF Spec

\* The window is never destroyed under a take (on_close, wait_for_files).
THEOREM NothingIsLost == Spec => []CloseLosesNothing
<1>1. IInv => CloseLosesNothing
  BY DEF IInv, GoneIsOver, CloseLosesNothing, Unfinished
<1> QED
  BY <1>1, ControllerInvariant, PTL

-----------------------------------------------------------------------------
(* Updates.                                                                *)

StagedTyped == staged \in BOOLEAN

LEMMA StagedIsBoolean == Spec => []StagedTyped
<1>1. Init => StagedTyped
  BY DEF Init, StagedTyped
<1>2. StagedTyped /\ [Next]_vars => StagedTyped'
  <2> SUFFICES ASSUME staged \in BOOLEAN, [Next]_vars PROVE staged' \in BOOLEAN
    BY DEF StagedTyped
  <2>1. CASE InstallUpdate \/ Destroy
    BY <2>1 DEF InstallUpdate, Destroy
  <2>2. CASE UNCHANGED vars
    BY <2>2 DEF vars, update
  <2>3. CASE Ask \/ Cancel \/ Recording \/ FindUpdate
    BY <2>3 DEF Ask, Cancel, Recording, Start, Stop, Pause, Resume, TickClock, FindUpdate, update
  <2>4. CASE Recorder
    BY <2>4 DEF Recorder, Begin, Arm, ApplyPause, TellPause, Break, CloseFiles, TellStopped,
                EndThread, update
  <2>5. CASE Messages
    BY <2>5 DEF Messages, TakePaused, TakeResumed, TakePauseNotice, TakeFinishing, TakeStopped,
                FinishTake, TakeUpdate, TakeClose, update
  <2>6. CASE Window /\ ~Destroy
    BY <2>6 DEF Window, RecreateTaskbar, HideToTray, Show, Close, CloseToTray, StopAndClose,
                WaitDone, WaitExpires, EndSession, Killed, Quit, update
  <2> QED
    BY <2>1, <2>2, <2>3, <2>4, <2>5, <2>6 DEF Next
<1> QED
  BY <1>1, <1>2, PTL DEF Spec

\* An update that was agreed to in a dialog is taken only when no recording was started
\* while the dialog was open, and put in place after the thread was joined
\* (apply_update, apr_controller_destroy).
THEOREM UpdateComesAfter == Spec => UpdateWaitsForTheTake
<1>1. IInv /\ StagedTyped /\ [Next]_vars
        => [(staged' # staged \/ swapped' # swapped) => ~Unfinished]_vars
  <2> SUFFICES ASSUME IInv, staged \in BOOLEAN, Next, staged' # staged \/ swapped' # swapped
               PROVE  ~Unfinished
    BY DEF StagedTyped
  <2>1. CASE InstallUpdate
    <3>1. ~recording /\ win = "open"
      BY <2>1 DEF InstallUpdate, At, AtTray, Pumping
    <3> QED
      BY <3>1 DEF IInv, FlagIsTrue, Unfinished
  <2>2. CASE Destroy
    BY <2>2 DEF Destroy, Unfinished
  <2>3. CASE Ask \/ Cancel \/ Recording \/ FindUpdate
    BY <2>3 DEF Ask, Cancel, Recording, Start, Stop, Pause, Resume, TickClock, FindUpdate, update
  <2>4. CASE Recorder
    BY <2>4 DEF Recorder, Begin, Arm, ApplyPause, TellPause, Break, CloseFiles, TellStopped,
                EndThread, update
  <2>5. CASE Messages
    BY <2>5 DEF Messages, TakePaused, TakeResumed, TakePauseNotice, TakeFinishing, TakeStopped,
                FinishTake, TakeUpdate, TakeClose, update
  <2>6. CASE Window /\ ~Destroy
    BY <2>6 DEF Window, RecreateTaskbar, HideToTray, Show, Close, CloseToTray, StopAndClose,
                WaitDone, WaitExpires, EndSession, Killed, Quit, update
  <2> QED
    BY <2>1, <2>2, <2>3, <2>4, <2>5, <2>6 DEF Next
<1> QED
  BY <1>1, ControllerInvariant, StagedIsBoolean, PTL DEF Spec, UpdateWaitsForTheTake

-----------------------------------------------------------------------------
(* What the window says of a pause.                                        *)

PauseWords == {"paused", "resumed"}
Word(v)    == IF v THEN "paused" ELSE "resumed"

\* Whoever knows the pause as p and reads the messages s to their end knows it as v.
Tells(s, p, v) ==
    /\ (\A i \in 1 .. Len(s) : s[i] \notin PauseWords) => p = v
    /\ \A i \in 1 .. Len(s) :
          s[i] \in PauseWords /\ (\A j \in 1 .. Len(s) : j > i => s[j] \notin PauseWords)
            => s[i] = Word(v)

\* Another message at the end, or at the front, says nothing of a pause.
LEMMA OthersTellNothing ==
    ASSUME NEW s \in Seq(Posts), NEW p, NEW v, Tells(s, p, v), NEW m \in Posts \ PauseWords
    PROVE  /\ Tells(Append(s, m), p, v)
           /\ s # <<>> /\ Head(s) \notin PauseWords => Tells(Tail(s), p, v)
<1>1. Tells(Append(s, m), p, v)
  <2> DEFINE t == Append(s, m)
  <2>1. /\ Len(t) = Len(s) + 1 /\ t[Len(s) + 1] = m /\ Len(s) \in Nat
        /\ \A i \in 1 .. Len(s) : t[i] = s[i]
    OBVIOUS
  <2> HIDE DEF t
  <2>2. ASSUME \A i \in 1 .. Len(t) : t[i] \notin PauseWords PROVE p = v
    <3>1. \A i \in 1 .. Len(s) : s[i] \notin PauseWords
      BY <2>1, <2>2
    <3> QED
      BY <3>1 DEF Tells
  <2>3. ASSUME NEW i \in 1 .. Len(t), t[i] \in PauseWords,
               \A j \in 1 .. Len(t) : j > i => t[j] \notin PauseWords
        PROVE  t[i] = Word(v)
    <3>1. i \in 1 .. Len(s)
      BY <2>1, <2>3
    <3>2. \A j \in 1 .. Len(s) : j > i => s[j] \notin PauseWords
      BY <2>1, <2>3
    <3> QED
      BY <2>1, <2>3, <3>1, <3>2 DEF Tells
  <2>4. Tells(t, p, v)
    BY <2>2, <2>3 DEF Tells
  <2> QED
    BY <2>4 DEF t
<1>2. ASSUME s # <<>>, Head(s) \notin PauseWords PROVE Tells(Tail(s), p, v)
  <2> DEFINE t == Tail(s)
  <2>1. /\ Len(t) = Len(s) - 1 /\ s[1] \notin PauseWords /\ Len(s) \in Nat
        /\ \A i \in 1 .. Len(s) - 1 : t[i] = s[i + 1]
    BY <1>2
  <2> HIDE DEF t
  <2>2. ASSUME \A i \in 1 .. Len(t) : t[i] \notin PauseWords PROVE p = v
    <3>1. ASSUME NEW i \in 1 .. Len(s) PROVE s[i] \notin PauseWords
      <4>1. CASE i = 1
        BY <2>1, <4>1
      <4>2. CASE i # 1
        <5>1. i - 1 \in 1 .. Len(t) /\ t[i - 1] = s[i]
          BY <2>1, <4>2
        <5> QED
          BY <2>2, <5>1
      <4> QED
        BY <4>1, <4>2
    <3> QED
      BY <3>1 DEF Tells
  <2>3. ASSUME NEW i \in 1 .. Len(t), t[i] \in PauseWords,
               \A j \in 1 .. Len(t) : j > i => t[j] \notin PauseWords
        PROVE  t[i] = Word(v)
    <3>1. i + 1 \in 1 .. Len(s) /\ s[i + 1] = t[i]
      BY <2>1
    <3>2. ASSUME NEW j \in 1 .. Len(s), j > i + 1 PROVE s[j] \notin PauseWords
      <4>1. j - 1 \in 1 .. Len(t) /\ t[j - 1] = s[j] /\ j - 1 > i
        BY <2>1, <3>2
      <4> QED
        BY <2>3, <4>1
    <3> QED
      BY <2>3, <3>1, <3>2 DEF Tells
  <2>4. Tells(t, p, v)
    BY <2>2, <2>3 DEF Tells
  <2> QED
    BY <2>4 DEF t
<1> QED
  BY <1>1, <1>2

\* What is told last is what is known in the end.
LEMMA LastIsTold ==
    ASSUME NEW s \in Seq(Posts), NEW p, NEW v \in BOOLEAN
    PROVE  Tells(Append(s, Word(v)), p, v)
<1> DEFINE t == Append(s, Word(v))
<1>1. Len(t) = Len(s) + 1 /\ t[Len(t)] = Word(v) /\ Len(s) \in Nat
  BY DEF Word, Posts
<1>2. Word(v) \in PauseWords
  BY DEF Word, PauseWords
<1> HIDE DEF t
<1>3. ~\A i \in 1 .. Len(t) : t[i] \notin PauseWords
  BY <1>1, <1>2
<1>4. ASSUME NEW i \in 1 .. Len(t), \A j \in 1 .. Len(t) : j > i => t[j] \notin PauseWords
      PROVE  t[i] = Word(v)
  <2>1. Len(t) \in 1 .. Len(t) /\ t[Len(t)] \in PauseWords
    BY <1>1, <1>2
  <2>2. i = Len(t)
    BY <1>1, <1>4, <2>1
  <2> QED
    BY <1>1, <2>2
<1>5. Tells(t, p, v)
  BY <1>3, <1>4 DEF Tells
<1> QED
  BY <1>5 DEF t

\* Taking one is knowing what it says.
LEMMA FirstIsKnown ==
    ASSUME NEW s \in Seq(Posts), s # <<>>, NEW p, NEW v \in BOOLEAN, Tells(s, p, v),
           NEW x \in BOOLEAN, Head(s) = Word(x)
    PROVE  Tells(Tail(s), x, v)
<1> DEFINE t == Tail(s)
<1>1. /\ Len(t) = Len(s) - 1 /\ s[1] = Word(x) /\ Len(s) \in Nat /\ 1 \in 1 .. Len(s)
      /\ \A i \in 1 .. Len(s) - 1 : t[i] = s[i + 1]
  OBVIOUS
<1> HIDE DEF t
<1>2. ASSUME \A i \in 1 .. Len(t) : t[i] \notin PauseWords PROVE x = v
  <2>1. ASSUME NEW j \in 1 .. Len(s), j > 1 PROVE s[j] \notin PauseWords
    <3>1. j - 1 \in 1 .. Len(t) /\ t[j - 1] = s[j]
      BY <1>1, <2>1
    <3> QED
      BY <1>2, <3>1
  <2>2. s[1] \in PauseWords
    BY <1>1 DEF Word, PauseWords
  <2>3. Word(x) = Word(v)
    BY <1>1, <2>1, <2>2 DEF Tells
  <2> QED
    BY <2>3 DEF Word
<1>3. ASSUME NEW i \in 1 .. Len(t), t[i] \in PauseWords,
             \A j \in 1 .. Len(t) : j > i => t[j] \notin PauseWords
      PROVE  t[i] = Word(v)
  <2>1. i + 1 \in 1 .. Len(s) /\ s[i + 1] = t[i]
    BY <1>1
  <2>2. ASSUME NEW j \in 1 .. Len(s), j > i + 1 PROVE s[j] \notin PauseWords
    <3>1. j - 1 \in 1 .. Len(t) /\ t[j - 1] = s[j] /\ j - 1 > i
      BY <1>1, <2>2
    <3> QED
      BY <1>3, <3>1
  <2> QED
    BY <1>3, <2>1, <2>2 DEF Tells
<1>4. Tells(t, x, v)
  BY <1>2, <1>3 DEF Tells
<1> QED
  BY <1>4 DEF t

\* What the window and the messages say between them, and what is being written.
Known(s, p, l) ==
    /\ l.at \in {"begin", "arming", "running"} => Tells(s, p, l.gp)
    /\ l.at = "tell" => Tells(s, p, ~l.gp)

PauseInv == lost \in Nat /\ (win = "open" /\ lost = 0 => Known(q, paused, loop))

\* Steps that change none of it, or after which there is no window.
Quiet ==
    /\ UNCHANGED lost
    /\ win' = "open" =>
          UNCHANGED <<q, paused, win>> /\ loop'.at = loop.at /\ loop'.gp = loop.gp

LEMMA QuietKeeps == ASSUME PauseInv, Quiet PROVE PauseInv'
  BY DEF PauseInv, Known, Tells, Quiet

LEMMA RecordingTells == ASSUME IInv, PauseInv, Recording PROVE PauseInv'
<1>1. CASE Start
  <2>1. /\ q' = <<>> /\ paused' = FALSE /\ UNCHANGED <<lost, win>>
        /\ loop'.at = "begin" /\ loop'.gp = FALSE
    BY <1>1 DEF Start, AtTray, queue, Idle
  <2>2. Tells(<<>>, FALSE, FALSE)
    <3>1. 1 .. Len(<<>>) = {}
      OBVIOUS
    <3> QED
      BY <3>1 DEF Tells
  <2> QED
    BY <2>1, <2>2 DEF PauseInv, Known
<1>2. CASE Stop \/ TickClock
  <2>1. Quiet
    BY <1>2 DEF Stop, TickClock, Quiet, flags, take, queue
  <2> QED
    BY <2>1, QuietKeeps
<1>3. CASE Pause \/ Resume
  <2>1. UNCHANGED <<q, lost, paused, win>>
    BY <1>3 DEF Pause, Resume, flags, queue, surface
  <2>2. loop'.at = loop.at /\ loop'.gp = loop.gp
    BY <1>3 DEF Pause, Resume, IInv, Types
  <2> QED
    BY <2>1, <2>2, QuietKeeps DEF Quiet
<1> QED
  BY <1>1, <1>2, <1>3 DEF Recording

LEMMA RecorderTells == ASSUME IInv, PauseInv, Recorder PROVE PauseInv'
<1>1. UNCHANGED <<paused, win>>
  BY DEF Recorder, Begin, Arm, ApplyPause, TellPause, Break, CloseFiles, TellStopped, EndThread,
         flags, surface
<1>2. CASE Begin \/ Arm
  <2>1. /\ UNCHANGED queue /\ loop'.gp = loop.gp
        /\ {loop.at, loop'.at} \subseteq {"begin", "arming", "running"}
    BY <1>2 DEF Begin, Arm, LoopGoes, IInv, Types
  <2> QED
    BY <1>1, <2>1 DEF PauseInv, Known, queue
<1>3. CASE ApplyPause
  <2>1. UNCHANGED queue /\ loop.at = "running" /\ loop'.at = "tell" /\ loop.gp = ~loop'.gp
    BY <1>3 DEF ApplyPause, IInv, Types
  <2> QED
    BY <1>1, <2>1 DEF PauseInv, Known, queue
<1>4. CASE TellPause
  <2>1. loop'.at = "running" /\ loop'.gp = loop.gp /\ Post(Word(loop.gp))
    BY <1>4 DEF TellPause, LoopGoes, IInv, Types, Word
  <2>2. CASE win = "open" /\ q' = Append(q, Word(loop.gp)) /\ UNCHANGED lost
    <3>1. Tells(q', paused, loop.gp)
      BY <2>2, LastIsTold DEF IInv, Types
    <3> QED
      BY <1>1, <2>1, <2>2, <3>1 DEF PauseInv, Known
  <2>3. CASE win = "open" /\ lost' = lost + 1
    BY <2>3 DEF PauseInv
  <2>4. CASE win # "open" /\ UNCHANGED queue
    BY <1>1, <2>4 DEF PauseInv, queue
  <2> QED
    BY <2>1, <2>2, <2>3, <2>4 DEF Post
<1>5. CASE Break \/ CloseFiles \/ TellStopped \/ EndThread
  <2>1. loop'.at \in {"finishing", "closed", "told", "ended"}
    BY <1>5 DEF Break, CloseFiles, TellStopped, EndThread, LoopGoes, IInv, Types
  <2>2. lost' = lost \/ lost' = lost + 1
    BY <1>5 DEF Break, CloseFiles, TellStopped, EndThread, Post, queue
  <2> QED
    BY <2>1, <2>2 DEF PauseInv, Known
<1> QED
  BY <1>2, <1>3, <1>4, <1>5 DEF Recorder

\* A message that is taken says nothing of a pause, or what is known from then on.
LEMMA TakingTells == ASSUME IInv, PauseInv, Messages PROVE PauseInv'
<1>1. UNCHANGED lost
  BY DEF Messages, TakePaused, TakeResumed, TakePauseNotice, TakeFinishing, TakeStopped,
         FinishTake, TakeUpdate, TakeClose
<1>2. ASSUME NEW now \in BOOLEAN, TakePauseNotice(Word(now), now) PROVE PauseInv'
  <2>1. /\ q # <<>> /\ Head(q) = Word(now) /\ q' = Tail(q) /\ paused' = now
        /\ UNCHANGED <<loop, win>>
    BY <1>2 DEF TakePauseNotice, Takes, take
  <2>2. ASSUME NEW v \in BOOLEAN, Tells(q, paused, v) PROVE Tells(q', paused', v)
    BY <2>1, <2>2, FirstIsKnown DEF IInv, Types
  <2>3. loop.gp \in BOOLEAN /\ (~loop.gp) \in BOOLEAN
    BY DEF IInv, Types
  <2> QED
    BY <1>1, <2>1, <2>2, <2>3 DEF PauseInv, Known
<1>3. CASE TakeFinishing \/ TakeStopped \/ TakeUpdate \/ (TakeClose /\ win' = win)
  <2>1. /\ q # <<>> /\ Head(q) \in {"finishing", "stopped", "update", "close"} /\ q' = Tail(q)
    BY <1>3 DEF TakeFinishing, TakeStopped, TakeUpdate, TakeClose, Takes, OnClose
  <2>2. UNCHANGED <<paused, loop, win>>
    BY <1>3 DEF TakeFinishing, TakeStopped, TakeUpdate, TakeClose, flags, take, surface
  <2>3. "update" \in Posts \ PauseWords /\ Head(q) \notin PauseWords
    BY <2>1 DEF Posts, PauseWords
  <2>4. ASSUME NEW v \in BOOLEAN, Tells(q, paused, v) PROVE Tells(q', paused, v)
    BY <2>1, <2>3, <2>4, OthersTellNothing DEF IInv, Types
  <2>5. loop.gp \in BOOLEAN /\ (~loop.gp) \in BOOLEAN
    BY DEF IInv, Types
  <2> QED
    BY <1>1, <2>2, <2>4, <2>5 DEF PauseInv, Known
<1>4. CASE FinishTake
  <2>1. loop'.at = "none"
    BY <1>4 DEF FinishTake, Idle
  <2> QED
    BY <1>1, <2>1 DEF PauseInv, Known
<1>5. CASE TakeClose /\ win' # win
  <2>1. win' # "open"
    BY <1>5 DEF TakeClose, OnClose, Destroyed
  <2> QED
    BY <1>1, <2>1 DEF PauseInv
<1>6. CASE TakePaused
  BY <1>2, <1>6 DEF TakePaused, Word
<1>7. CASE TakeResumed
  BY <1>2, <1>7 DEF TakeResumed, Word
<1> QED
  BY <1>3, <1>4, <1>5, <1>6, <1>7 DEF Messages

LEMMA WindowTells == ASSUME PauseInv, Window PROVE PauseInv'
<1>1. CASE RecreateTaskbar \/ HideToTray \/ Show \/ CloseToTray \/ WaitExpires \/ Killed
  <2>1. Quiet
    BY <1>1 DEF RecreateTaskbar, HideToTray, Show, CloseToTray, WaitExpires, Killed, Quiet,
                flags, take, queue, surface
  <2> QED
    BY <2>1, QuietKeeps
<1>2. CASE Close \/ StopAndClose \/ WaitDone
  <2>1. Quiet
    BY <1>2 DEF Close, StopAndClose, WaitDone, OnClose, Destroyed, At, AtTray, Pumping, Quiet,
                flags, take
  <2> QED
    BY <2>1, QuietKeeps
<1>3. CASE EndSession \/ Quit \/ Destroy
  <2>1. Quiet
    BY <1>3 DEF EndSession, Quit, Destroy, Pumping, Quiet, flags, take, queue
  <2> QED
    BY <2>1, QuietKeeps
<1> QED
  BY <1>1, <1>2, <1>3 DEF Window

LEMMA NextTells == ASSUME IInv, PauseInv, [Next]_vars PROVE PauseInv'
<1>1. CASE Ask \/ Cancel \/ InstallUpdate \/ UNCHANGED vars
  <2>1. Quiet
    BY <1>1 DEF Ask, Cancel, InstallUpdate, vars, Quiet, flags, take, queue, surface
  <2> QED
    BY <2>1, QuietKeeps
<1>2. CASE FindUpdate
  <2>1. q' = Append(q, "update") /\ UNCHANGED <<paused, loop, lost, win>>
    BY <1>2 DEF FindUpdate, flags, take, surface
  <2>2. "update" \in Posts \ PauseWords /\ loop.gp \in BOOLEAN /\ (~loop.gp) \in BOOLEAN
    BY DEF Posts, PauseWords, IInv, Types
  <2>3. ASSUME NEW v \in BOOLEAN, Tells(q, paused, v) PROVE Tells(q', paused, v)
    BY <2>1, <2>2, <2>3, OthersTellNothing DEF IInv, Types
  <2> QED
    BY <2>1, <2>2, <2>3 DEF PauseInv, Known
<1> QED
  BY <1>1, <1>2, RecordingTells, RecorderTells, TakingTells, WindowTells DEF Next

\* The pause that the window shows is the one that is being written, once the notices
\* on their way have been taken: they arrive in the order in which the recording thread
\* paused and resumed, and the next take begins with none left (recording_callback,
\* start_recording).
THEOREM PauseIsTold == Spec => []PauseIsWhatItSays
<1>1. Init => PauseInv
  BY DEF Init, Idle, PauseInv, Known
<1>2. IInv /\ PauseInv => PauseIsWhatItSays
  <2> SUFFICES ASSUME IInv, PauseInv, loop.at = "running", win = "open", lost = 0,
                      \A i \in DOMAIN q : q[i] \notin {"paused", "resumed"}
               PROVE  paused = loop.gp
    BY DEF PauseIsWhatItSays
  <2>1. Tells(q, paused, loop.gp)
    BY DEF PauseInv, Known
  <2>2. DOMAIN q = 1 .. Len(q)
    BY DEF IInv, Types
  <2> QED
    BY <2>1, <2>2 DEF Tells, PauseWords
<1> QED
  BY <1>1, <1>2, NextTells, ControllerInvariant, PTL DEF Spec
=============================================================================
