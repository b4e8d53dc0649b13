------------------------- MODULE CaptureThreadProofs -------------------------
(***************************************************************************)
(* For any number of clients, of operations, of wedged drains and of       *)
(* closes: the critical section is exclusive, every answer is for the      *)
(* thread that waits for it, and nothing is freed under a live thread; and *)
(* where one thread starts and stops, a stop silences the pump.            *)
(*                                                                         *)
(* The protocol is inductive because a job, the thread at work on it and   *)
(* its answer are one token: it exists only while the holder of the lock   *)
(* waits for it, and it is never in two places.                            *)
(***************************************************************************)
EXTENDS CaptureThread, TLAPS

\* Where the holder of the lock waits for its job.
Awaiting == {"callWait", "runWait", "closeWait", "quitWait"}

Serving == th \in {"work", "starting", "failed"}

\* Somebody may still answer, or has: the holder of the lock waits for it.
Pending == doneEv \/ (th # "gone" /\ (jobEv \/ Serving))

Token ==
    /\ Pending => lock # None /\ pc[lock] \in Awaiting
    /\ doneEv => answered = lock /\ ~jobEv /\ ~Serving
    /\ Serving => ~jobEv

Out == th \in {"none", "gone"}

\* No handle, no thread; a close that has not failed has seen it leave.
Retired ==
    /\ ~handle => Out
    /\ pc[Owner] \in {"muteStop", "muteJoin"} /\ ~late => Out
    /\ pc[Owner] = "freed" => Out /\ mute = "none"

LEMMA InitKept == Init => Places /\ Token /\ Retired
  BY CaptureAssumption
  DEF Init, Places, Token, Retired, Pending, Serving, Out, Posters, PCs, Waiting, Inside, Outside,
      Resting, Alive, Pumping

-----------------------------------------------------------------------------
(* Types and the lock.                                                     *)

LEMMA PlacesThread == ASSUME Places, ThreadStep PROVE Places'
<1> USE CaptureAssumption DEF Places, Posters, PCs, Waiting, Inside, Outside, Resting,
            Alive, Pumping, Goes, Turns, events, flags, thread, closing, bounds,
            posters, waits, other
<1>1. CASE Boot
  BY <1>1 DEF Boot
<1>2. CASE TakeCall
  BY <1>2 DEF TakeCall
<1>3. CASE Work
  BY <1>3 DEF Work
<1>4. CASE TakeQuit
  BY <1>4 DEF TakeQuit
<1>5. CASE Leave
  BY <1>5 DEF Leave
<1>6. CASE TakeRun
  BY <1>6 DEF TakeRun
<1>7. CASE StartFails
  BY <1>7 DEF StartFails
<1>8. CASE AnswerFailure
  BY <1>8 DEF AnswerFailure
<1>9. CASE StartPump
  BY <1>9 DEF StartPump
<1>10. CASE SeesStop
  BY <1>10 DEF SeesStop
<1>11. CASE Drain
  BY <1>11 DEF Drain
<1>12. CASE Drained
  BY <1>12 DEF Drained
<1>13. CASE Idle
  BY <1>13 DEF Idle
<1> QED
  BY <1>1, <1>2, <1>3, <1>4, <1>5, <1>6, <1>7, <1>8, <1>9, <1>10, <1>11, <1>12,
     <1>13 DEF ThreadStep

LEMMA PlacesPoster == ASSUME Places, NEW p \in Posters, PosterStep(p) PROVE Places'
<1> USE CaptureAssumption DEF Places, Posters, PCs, Waiting, Inside, Outside, Resting,
            Alive, Pumping, Goes, Turns, events, flags, thread, closing, bounds,
            posters, waits, other
<1>1. CASE Enter(p)
  BY <1>1 DEF Enter, Enters
<1>2. CASE Refuse(p)
  BY <1>2 DEF Refuse, AfterCall
<1>3. CASE PostCall(p)
  BY <1>3 DEF PostCall, Post, AfterCall
<1>4. CASE CallReturns(p)
  BY <1>4 DEF CallReturns, Answered, TakeAnswer, Failed, AfterCall
<1>5. CASE Raise(p)
  BY <1>5 DEF Raise
<1>6. CASE ResetStop(p)
  BY <1>6 DEF ResetStop
<1>7. CASE ResetIdle(p)
  BY <1>7 DEF ResetIdle
<1>8. CASE PostRun(p)
  BY <1>8 DEF PostRun, Post
<1>9. CASE RunReturns(p)
  BY <1>9 DEF RunReturns, Answered, TakeAnswer, Failed
<1>10. CASE Undo(p)
  BY <1>10 DEF Undo
<1>11. CASE Undone(p)
  BY <1>11 DEF Undone
<1>12. CASE Lower(p)
  BY <1>12 DEF Lower
<1>13. CASE Signal(p)
  BY <1>13 DEF Signal, AfterStop
<1>14. CASE StopSeesIdle(p)
  BY <1>14 DEF StopSeesIdle, AfterStop
<1>15. CASE StopGivesUp(p)
  BY <1>15 DEF StopGivesUp, AfterStop
<1> QED
  BY <1>1, <1>2, <1>3, <1>4, <1>5, <1>6, <1>7, <1>8, <1>9, <1>10, <1>11, <1>12,
     <1>13, <1>14, <1>15 DEF PosterStep

LEMMA PlacesOwner == ASSUME Places, OwnerStep PROVE Places'
<1> USE CaptureAssumption DEF Places, Posters, PCs, Waiting, Inside, Outside, Resting,
            Alive, Pumping, Goes, Turns, events, flags, thread, closing, bounds,
            posters, waits, other
<1>1. CASE OpenThread
  BY <1>1 DEF OpenThread
<1>2. CASE OpenReady
  BY <1>2 DEF OpenReady
<1>3. CASE OpenMute
  BY <1>3 DEF OpenMute
<1>4. CASE Judge
  BY <1>4 DEF Judge
<1>5. CASE PostClose
  BY <1>5 DEF PostClose, Post
<1>6. CASE CloseAnswered
  BY <1>6 DEF CloseAnswered, Answered, TakeAnswer
<1>7. CASE PostQuit
  BY <1>7 DEF PostQuit, Post
<1>8. CASE QuitAnswered
  BY <1>8 DEF QuitAnswered, Answered, TakeAnswer
<1>9. CASE Joined
  BY <1>9 DEF Joined
<1>10. CASE JoinGivesUp
  BY <1>10 DEF JoinGivesUp
<1>11. CASE CloseMute
  BY <1>11 DEF CloseMute, Verdict
<1>12. CASE MuteJoined
  BY <1>12 DEF MuteJoined, Verdict
<1>13. CASE MuteGivesUp
  BY <1>13 DEF MuteGivesUp, Verdict
<1> QED
  BY <1>1, <1>2, <1>3, <1>4, <1>5, <1>6, <1>7, <1>8, <1>9, <1>10, <1>11, <1>12,
     <1>13 DEF OwnerStep

LEMMA PlacesStep == Places /\ [Next]_vars => Places'
<1> SUFFICES ASSUME Places, [Next]_vars PROVE Places'
  OBVIOUS
<1>1. CASE ThreadStep
  BY <1>1, PlacesThread
<1>2. ASSUME NEW p \in Posters, PosterStep(p) PROVE Places'
  BY <1>2, PlacesPoster
<1>3. CASE OwnerStep
  BY <1>3, PlacesOwner
<1> USE CaptureAssumption DEF Places, Posters, PCs, Waiting, Inside, Outside, Resting,
            Alive, Pumping, Goes, Turns, events, flags, thread, closing, bounds,
            posters, waits, other
<1>4. CASE Wedge \/ Unwedge \/ MuteLeaves
  BY <1>4 DEF Wedge, Unwedge, MuteLeaves
<1>5. ASSUME NEW c \in Clients, Call(c) \/ Start(c) \/ Stop(c) PROVE Places'
  BY <1>5 DEF Call, Start, Stop, MayBegin
<1>6. CASE Close
  BY <1>6 DEF Close
<1>7. CASE UNCHANGED vars
  BY <1>7 DEF vars
<1> QED
  BY <1>1, <1>2, <1>3, <1>4, <1>5, <1>6, <1>7 DEF Next

-----------------------------------------------------------------------------
(* One job, one answer, one waiter.                                        *)

LEMMA TokenThread == ASSUME Places, Token, ThreadStep PROVE Token'
<1> USE CaptureAssumption
    DEF Places, Token, Pending, Serving, Awaiting, Posters, PCs, Waiting, Inside, Outside,
        Resting, Alive, Pumping, Goes, Turns, events, flags, thread, closing, bounds, posters,
        waits, other
<1>1. CASE Boot
  BY <1>1 DEF Boot
<1>2. CASE TakeCall
  BY <1>2 DEF TakeCall
<1>3. CASE Work
  BY <1>3 DEF Work
<1>4. CASE TakeQuit
  BY <1>4 DEF TakeQuit
<1>5. CASE Leave
  BY <1>5 DEF Leave
<1>6. CASE TakeRun
  BY <1>6 DEF TakeRun
<1>7. CASE StartFails
  BY <1>7 DEF StartFails
<1>8. CASE AnswerFailure
  BY <1>8 DEF AnswerFailure
<1>9. CASE StartPump
  BY <1>9 DEF StartPump
<1>10. CASE SeesStop
  BY <1>10 DEF SeesStop
<1>11. CASE Drain
  BY <1>11 DEF Drain
<1>12. CASE Drained
  BY <1>12 DEF Drained
<1>13. CASE Idle
  BY <1>13 DEF Idle
<1> QED
  BY <1>1, <1>2, <1>3, <1>4, <1>5, <1>6, <1>7, <1>8, <1>9, <1>10, <1>11, <1>12,
     <1>13 DEF ThreadStep

LEMMA TokenPoster == ASSUME Places, Token, NEW p \in Posters, PosterStep(p) PROVE Token'
<1> USE CaptureAssumption
    DEF Places, Token, Pending, Serving, Awaiting, Posters, PCs, Waiting, Inside, Outside,
        Resting, Alive, Pumping, Goes, Turns, events, flags, thread, closing, bounds, posters,
        waits, other
<1>1. CASE Enter(p)
  BY <1>1 DEF Enter, Enters
<1>2. CASE Refuse(p)
  BY <1>2 DEF Refuse, AfterCall
<1>3. CASE PostCall(p)
  BY <1>3 DEF PostCall, Post, AfterCall
<1>4. CASE CallReturns(p)
  BY <1>4 DEF CallReturns, Answered, TakeAnswer, Failed, AfterCall
<1>5. CASE Raise(p)
  BY <1>5 DEF Raise
<1>6. CASE ResetStop(p)
  BY <1>6 DEF ResetStop
<1>7. CASE ResetIdle(p)
  BY <1>7 DEF ResetIdle
<1>8. CASE PostRun(p)
  BY <1>8 DEF PostRun, Post
<1>9. CASE RunReturns(p)
  BY <1>9 DEF RunReturns, Answered, TakeAnswer, Failed
<1>10. CASE Undo(p)
  BY <1>10 DEF Undo
<1>11. CASE Undone(p)
  BY <1>11 DEF Undone
<1>12. CASE Lower(p)
  BY <1>12 DEF Lower
<1>13. CASE Signal(p)
  BY <1>13 DEF Signal, AfterStop
<1>14. CASE StopSeesIdle(p)
  BY <1>14 DEF StopSeesIdle, AfterStop
<1>15. CASE StopGivesUp(p)
  BY <1>15 DEF StopGivesUp, AfterStop
<1> QED
  BY <1>1, <1>2, <1>3, <1>4, <1>5, <1>6, <1>7, <1>8, <1>9, <1>10, <1>11, <1>12,
     <1>13, <1>14, <1>15 DEF PosterStep

LEMMA TokenOwner == ASSUME Places, Token, OwnerStep PROVE Token'
<1> USE CaptureAssumption
    DEF Places, Token, Pending, Serving, Awaiting, Posters, PCs, Waiting, Inside, Outside,
        Resting, Alive, Pumping, Goes, Turns, events, flags, thread, closing, bounds, posters,
        waits, other
<1>1. CASE OpenThread
  BY <1>1 DEF OpenThread
<1>2. CASE OpenReady
  BY <1>2 DEF OpenReady
<1>3. CASE OpenMute
  BY <1>3 DEF OpenMute
<1>4. CASE Judge
  BY <1>4 DEF Judge
<1>5. CASE PostClose
  BY <1>5 DEF PostClose, Post
<1>6. CASE CloseAnswered
  BY <1>6 DEF CloseAnswered, Answered, TakeAnswer
<1>7. CASE PostQuit
  BY <1>7 DEF PostQuit, Post
<1>8. CASE QuitAnswered
  BY <1>8 DEF QuitAnswered, Answered, TakeAnswer
<1>9. CASE Joined
  BY <1>9 DEF Joined
<1>10. CASE JoinGivesUp
  BY <1>10 DEF JoinGivesUp
<1>11. CASE CloseMute
  BY <1>11 DEF CloseMute, Verdict
<1>12. CASE MuteJoined
  BY <1>12 DEF MuteJoined, Verdict
<1>13. CASE MuteGivesUp
  BY <1>13 DEF MuteGivesUp, Verdict
<1> QED
  BY <1>1, <1>2, <1>3, <1>4, <1>5, <1>6, <1>7, <1>8, <1>9, <1>10, <1>11, <1>12,
     <1>13 DEF OwnerStep

LEMMA TokenStep == Places /\ Token /\ [Next]_vars => Token'
<1> SUFFICES ASSUME Places, Token, [Next]_vars PROVE Token'
  OBVIOUS
<1>1. CASE ThreadStep
  BY <1>1, TokenThread
<1>2. ASSUME NEW p \in Posters, PosterStep(p) PROVE Token'
  BY <1>2, TokenPoster
<1>3. CASE OwnerStep
  BY <1>3, TokenOwner
<1> USE CaptureAssumption
    DEF Places, Token, Pending, Serving, Awaiting, Posters, PCs, Waiting, Inside, Outside,
        Resting, Alive, Pumping, Goes, Turns, events, flags, thread, closing, bounds, posters,
        waits, other
<1>4. CASE Wedge \/ Unwedge \/ MuteLeaves
  BY <1>4 DEF Wedge, Unwedge, MuteLeaves
<1>5. ASSUME NEW c \in Clients, Call(c) \/ Start(c) \/ Stop(c) PROVE Token'
  BY <1>5 DEF Call, Start, Stop, MayBegin
<1>6. CASE Close
  BY <1>6 DEF Close
<1>7. CASE UNCHANGED vars
  BY <1>7 DEF vars
<1> QED
  BY <1>1, <1>2, <1>3, <1>4, <1>5, <1>6, <1>7 DEF Next

-----------------------------------------------------------------------------
(* Nothing is freed early.                                                 *)

LEMMA RetiredThread == ASSUME Places, Retired, ThreadStep PROVE Retired'
<1> USE CaptureAssumption
    DEF Places, Retired, Out, Posters, PCs, Waiting, Inside, Outside, Resting, Alive, Pumping,
        Goes, Turns, events, flags, thread, closing, bounds, posters, waits, other
<1>1. CASE Boot
  BY <1>1 DEF Boot
<1>2. CASE TakeCall
  BY <1>2 DEF TakeCall
<1>3. CASE Work
  BY <1>3 DEF Work
<1>4. CASE TakeQuit
  BY <1>4 DEF TakeQuit
<1>5. CASE Leave
  BY <1>5 DEF Leave
<1>6. CASE TakeRun
  BY <1>6 DEF TakeRun
<1>7. CASE StartFails
  BY <1>7 DEF StartFails
<1>8. CASE AnswerFailure
  BY <1>8 DEF AnswerFailure
<1>9. CASE StartPump
  BY <1>9 DEF StartPump
<1>10. CASE SeesStop
  BY <1>10 DEF SeesStop
<1>11. CASE Drain
  BY <1>11 DEF Drain
<1>12. CASE Drained
  BY <1>12 DEF Drained
<1>13. CASE Idle
  BY <1>13 DEF Idle
<1> QED
  BY <1>1, <1>2, <1>3, <1>4, <1>5, <1>6, <1>7, <1>8, <1>9, <1>10, <1>11, <1>12,
     <1>13 DEF ThreadStep

LEMMA RetiredPoster == ASSUME Places, Retired, NEW p \in Posters, PosterStep(p) PROVE Retired'
<1> USE CaptureAssumption
    DEF Places, Retired, Out, Posters, PCs, Waiting, Inside, Outside, Resting, Alive, Pumping,
        Goes, Turns, events, flags, thread, closing, bounds, posters, waits, other
<1>1. CASE Enter(p)
  BY <1>1 DEF Enter, Enters
<1>2. CASE Refuse(p)
  BY <1>2 DEF Refuse, AfterCall
<1>3. CASE PostCall(p)
  BY <1>3 DEF PostCall, Post, AfterCall
<1>4. CASE CallReturns(p)
  BY <1>4 DEF CallReturns, Answered, TakeAnswer, Failed, AfterCall
<1>5. CASE Raise(p)
  BY <1>5 DEF Raise
<1>6. CASE ResetStop(p)
  BY <1>6 DEF ResetStop
<1>7. CASE ResetIdle(p)
  BY <1>7 DEF ResetIdle
<1>8. CASE PostRun(p)
  BY <1>8 DEF PostRun, Post
<1>9. CASE RunReturns(p)
  BY <1>9 DEF RunReturns, Answered, TakeAnswer, Failed
<1>10. CASE Undo(p)
  BY <1>10 DEF Undo
<1>11. CASE Undone(p)
  BY <1>11 DEF Undone
<1>12. CASE Lower(p)
  BY <1>12 DEF Lower
<1>13. CASE Signal(p)
  BY <1>13 DEF Signal, AfterStop
<1>14. CASE StopSeesIdle(p)
  BY <1>14 DEF StopSeesIdle, AfterStop
<1>15. CASE StopGivesUp(p)
  BY <1>15 DEF StopGivesUp, AfterStop
<1> QED
  BY <1>1, <1>2, <1>3, <1>4, <1>5, <1>6, <1>7, <1>8, <1>9, <1>10, <1>11, <1>12,
     <1>13, <1>14, <1>15 DEF PosterStep

LEMMA RetiredOwner == ASSUME Places, Retired, OwnerStep PROVE Retired'
<1> USE CaptureAssumption
    DEF Places, Retired, Out, Posters, PCs, Waiting, Inside, Outside, Resting, Alive, Pumping,
        Goes, Turns, events, flags, thread, closing, bounds, posters, waits, other
<1>1. CASE OpenThread
  BY <1>1 DEF OpenThread
<1>2. CASE OpenReady
  BY <1>2 DEF OpenReady
<1>3. CASE OpenMute
  BY <1>3 DEF OpenMute
<1>4. CASE Judge
  BY <1>4 DEF Judge
<1>5. CASE PostClose
  BY <1>5 DEF PostClose, Post
<1>6. CASE CloseAnswered
  BY <1>6 DEF CloseAnswered, Answered, TakeAnswer
<1>7. CASE PostQuit
  BY <1>7 DEF PostQuit, Post
<1>8. CASE QuitAnswered
  BY <1>8 DEF QuitAnswered, Answered, TakeAnswer
<1>9. CASE Joined
  BY <1>9 DEF Joined
<1>10. CASE JoinGivesUp
  BY <1>10 DEF JoinGivesUp
<1>11. CASE CloseMute
  BY <1>11 DEF CloseMute, Verdict
<1>12. CASE MuteJoined
  BY <1>12 DEF MuteJoined, Verdict
<1>13. CASE MuteGivesUp
  BY <1>13 DEF MuteGivesUp, Verdict
<1> QED
  BY <1>1, <1>2, <1>3, <1>4, <1>5, <1>6, <1>7, <1>8, <1>9, <1>10, <1>11, <1>12,
     <1>13 DEF OwnerStep

LEMMA RetiredStep == Places /\ Retired /\ [Next]_vars => Retired'
<1> SUFFICES ASSUME Places, Retired, [Next]_vars PROVE Retired'
  OBVIOUS
<1>1. CASE ThreadStep
  BY <1>1, RetiredThread
<1>2. ASSUME NEW p \in Posters, PosterStep(p) PROVE Retired'
  BY <1>2, RetiredPoster
<1>3. CASE OwnerStep
  BY <1>3, RetiredOwner
<1> USE CaptureAssumption
    DEF Places, Retired, Out, Posters, PCs, Waiting, Inside, Outside, Resting, Alive, Pumping,
        Goes, Turns, events, flags, thread, closing, bounds, posters, waits, other
<1>4. CASE Wedge \/ Unwedge \/ MuteLeaves
  BY <1>4 DEF Wedge, Unwedge, MuteLeaves
<1>5. ASSUME NEW c \in Clients, Call(c) \/ Start(c) \/ Stop(c) PROVE Retired'
  BY <1>5 DEF Call, Start, Stop, MayBegin
<1>6. CASE Close
  BY <1>6 DEF Close
<1>7. CASE UNCHANGED vars
  BY <1>7 DEF vars
<1> QED
  BY <1>1, <1>2, <1>3, <1>4, <1>5, <1>6, <1>7 DEF Next

-----------------------------------------------------------------------------
(* The Boolean variables.                                                  *)

LEMMA FlagsThread == ASSUME Flags, ThreadStep PROVE Flags'
<1> USE DEF Flags, events, flags, thread, closing, waits, other, posters
<1>1. CASE Boot
  BY <1>1, Zenon DEF Boot
<1>2. CASE TakeCall
  BY <1>2, Zenon DEF TakeCall
<1>3. CASE Work
  BY <1>3, Zenon DEF Work
<1>4. CASE TakeQuit
  BY <1>4, Zenon DEF TakeQuit
<1>5. CASE Leave
  BY <1>5, Zenon DEF Leave
<1>6. CASE TakeRun
  BY <1>6, Zenon DEF TakeRun
<1>7. CASE StartFails
  BY <1>7, Zenon DEF StartFails
<1>8. CASE AnswerFailure
  BY <1>8, Zenon DEF AnswerFailure
<1>9. CASE StartPump
  BY <1>9, Zenon DEF StartPump
<1>10. CASE SeesStop
  BY <1>10, Zenon DEF SeesStop
<1>11. CASE Drain
  BY <1>11, Zenon DEF Drain
<1>12. CASE Drained
  BY <1>12, Zenon DEF Drained
<1>13. CASE Idle
  BY <1>13, Zenon DEF Idle
<1> QED
  BY <1>1, <1>2, <1>3, <1>4, <1>5, <1>6, <1>7, <1>8, <1>9, <1>10, <1>11, <1>12,
     <1>13 DEF ThreadStep

LEMMA FlagsPoster == ASSUME Flags, NEW p \in Posters, PosterStep(p) PROVE Flags'
<1> USE DEF Flags, events, flags, thread, closing, waits, other, posters
<1>1. CASE Enter(p)
  BY <1>1, Zenon DEF Enter, Enters
<1>2. CASE Refuse(p)
  BY <1>2, Zenon DEF Refuse
<1>3. CASE PostCall(p)
  BY <1>3, Zenon DEF PostCall, Post
<1>4. CASE CallReturns(p)
  BY <1>4, Zenon DEF CallReturns, TakeAnswer
<1>5. CASE Raise(p)
  BY <1>5, Zenon DEF Raise
<1>6. CASE ResetStop(p)
  BY <1>6, Zenon DEF ResetStop
<1>7. CASE ResetIdle(p)
  BY <1>7, Zenon DEF ResetIdle
<1>8. CASE PostRun(p)
  BY <1>8, Zenon DEF PostRun, Post
<1>9. CASE RunReturns(p)
  BY <1>9, Zenon DEF RunReturns, TakeAnswer
<1>10. CASE Undo(p)
  BY <1>10, Zenon DEF Undo
<1>11. CASE Undone(p)
  BY <1>11, Zenon DEF Undone
<1>12. CASE Lower(p)
  BY <1>12, Zenon DEF Lower
<1>13. CASE Signal(p)
  BY <1>13, Zenon DEF Signal
<1>14. CASE StopSeesIdle(p)
  BY <1>14, Zenon DEF StopSeesIdle
<1>15. CASE StopGivesUp(p)
  BY <1>15, Zenon DEF StopGivesUp
<1> QED
  BY <1>1, <1>2, <1>3, <1>4, <1>5, <1>6, <1>7, <1>8, <1>9, <1>10, <1>11, <1>12,
     <1>13, <1>14, <1>15 DEF PosterStep

LEMMA FlagsOwner == ASSUME Flags, OwnerStep PROVE Flags'
<1> USE DEF Flags, events, flags, thread, closing, waits, other, posters
<1>1. CASE OpenThread
  BY <1>1, Zenon DEF OpenThread
<1>2. CASE OpenReady
  BY <1>2, Zenon DEF OpenReady
<1>3. CASE OpenMute
  BY <1>3, Zenon DEF OpenMute
<1>4. CASE Judge
  BY <1>4, Zenon DEF Judge
<1>5. CASE PostClose
  BY <1>5, Zenon DEF PostClose, Post
<1>6. CASE CloseAnswered
  BY <1>6, Zenon DEF CloseAnswered, TakeAnswer
<1>7. CASE PostQuit
  BY <1>7, Zenon DEF PostQuit, Post
<1>8. CASE QuitAnswered
  BY <1>8, Zenon DEF QuitAnswered, TakeAnswer
<1>9. CASE Joined
  BY <1>9, Zenon DEF Joined
<1>10. CASE JoinGivesUp
  BY <1>10, Zenon DEF JoinGivesUp
<1>11. CASE CloseMute
  BY <1>11, Zenon DEF CloseMute
<1>12. CASE MuteJoined
  BY <1>12, Zenon DEF MuteJoined
<1>13. CASE MuteGivesUp
  BY <1>13, Zenon DEF MuteGivesUp
<1> QED
  BY <1>1, <1>2, <1>3, <1>4, <1>5, <1>6, <1>7, <1>8, <1>9, <1>10, <1>11, <1>12,
     <1>13 DEF OwnerStep

LEMMA FlagsStep == Flags /\ [Next]_vars => Flags'
<1> SUFFICES ASSUME Flags, [Next]_vars PROVE Flags'
  OBVIOUS
<1>1. CASE ThreadStep
  BY <1>1, FlagsThread
<1>2. ASSUME NEW p \in Posters, PosterStep(p) PROVE Flags'
  BY <1>2, FlagsPoster
<1>3. CASE OwnerStep
  BY <1>3, FlagsOwner
<1> USE DEF Flags, events, flags, thread, closing, waits, other, posters
<1>4. CASE Wedge \/ Unwedge \/ MuteLeaves
  <2>1. CASE Wedge
    BY <2>1, Zenon DEF Wedge
  <2>2. CASE Unwedge
    BY <2>2, Zenon DEF Unwedge
  <2>3. CASE MuteLeaves
    BY <2>3, Zenon DEF MuteLeaves
  <2> QED
    BY <1>4, <2>1, <2>2, <2>3
<1>5. ASSUME NEW c \in Clients, Call(c) \/ Start(c) \/ Stop(c) PROVE Flags'
  <2>1. CASE Call(c)
    BY <2>1, Zenon DEF Call
  <2>2. CASE Start(c)
    BY <2>2, Zenon DEF Start
  <2>3. CASE Stop(c)
    BY <2>3, Zenon DEF Stop
  <2> QED
    BY <1>5, <2>1, <2>2, <2>3
<1>6. CASE Close
  BY <1>6, Zenon DEF Close
<1>7. CASE UNCHANGED vars
  BY <1>7, Zenon DEF vars
<1> QED
  BY <1>1, <1>2, <1>3, <1>4, <1>5, <1>6, <1>7 DEF Next
-----------------------------------------------------------------------------
(* The pump, when at most one thread starts and stops the capture and      *)
(* nobody begins anything after a stop that was given up: where the        *)
(* starter is says whether the pump may be running, and whether it has     *)
(* been told to stop.                                                      *)

Single == (\A c, d \in Starters : c = d) /\ AfterStuck = FALSE

Starting == {"enter", "resetStop", "resetIdle", "postRun"}
Stopping == {"stop", "signal", "await", "idleWait"}

\* Who may be where, and that nobody withdraws the stop of a close.
Roles ==
    /\ \A c \in Clients :
        /\ pc[c] # "idle" => pc[Owner] = "open"
        /\ pc[c] \in {"cas", "runWait", "undo", "undone"} \cup Starting \cup Stopping
            => c \in Starters
    /\ pc[Owner] \notin {"idle", "cas", "runWait", "undo", "undone"} \cup Starting
    /\ pc[Owner] \in {"await", "idleWait", "judge", "shut", "postClose", "closeWait", "postQuit"}
        => stopEv

\* A run that is posted, or taken and not yet begun.
RunPending == th = "starting" \/ (jobEv /\ job = "run" /\ th # "gone")

\* What is known of the pump when c is where it is.
At(c) ==
    /\ pc[c] \in {"undo", "undone"} \cup Starting => th \notin Pumping
    /\ pc[c] \in {"runWait"} \cup Starting => running /\ ~quiet
    /\ pc[c] \in {"signal", "await", "idleWait", "undone"} => ~running
    /\ pc[c] = "cas" => ~stuck
    /\ (/\ pc[c] \in {"idle", "cas", "call", "test", "callWait"}
        /\ pc[Owner] = "open" /\ ~stuck /\ ~running) => th \notin Pumping
    /\ pc[c] = "postRun" => ~idleEv
    /\ pc[c] = "runWait" /\ th \in Pumping => doneEv /\ ok

Starter == \A c \in Starters : At(c)

Pump ==
    /\ pc[Owner] \in {"new", "boot", "call", "test", "callWait", "muteStart"} => th \notin Pumping
    /\ RunPending => ~idleEv /\ \E c \in Starters : pc[c] = "runWait"
    /\ th \in Pumping => ~idleEv /\ ~quiet
    /\ th \in Pumping /\ ~running => stopEv \/ \E p \in Posters : pc[p] = "signal"

PumpInv == Roles /\ Starter /\ Pump /\ NobodyWaitsOnThePump

LEMMA InitPump == Init => PumpInv
  BY CaptureAssumption
  DEF Init, PumpInv, Roles, Starter, At, Pump, RunPending, NobodyWaitsOnThePump, Starting,
      Stopping, Posters, Pumping

LEMMA PumpThread ==
    ASSUME Single, Places, Flags, Token, Retired, PumpInv, ThreadStep
    PROVE  PumpInv'
<1> USE CaptureAssumption
    DEF Places, Flags, Token, Pending, Serving, Awaiting, Retired, Out, PumpInv, Roles,
        Starter, At, Pump, RunPending, NobodyWaitsOnThePump, Single, Starting, Stopping,
        Posters, Inside, Alive, Pumping, Goes, Turns, events, flags, thread, closing, bounds,
        posters, waits, other
<1>1. CASE Boot
  BY <1>1 DEF Boot
<1>2. CASE TakeCall
  BY <1>2 DEF TakeCall
<1>3. CASE Work
  BY <1>3 DEF Work
<1>4. CASE TakeQuit
  BY <1>4 DEF TakeQuit
<1>5. CASE Leave
  BY <1>5 DEF Leave
<1>6. CASE TakeRun
  BY <1>6 DEF TakeRun
<1>7. CASE StartFails
  BY <1>7 DEF StartFails
<1>8. CASE AnswerFailure
  BY <1>8 DEF AnswerFailure
<1>9. CASE StartPump
  <2>1. Roles'
    BY <1>9 DEF StartPump
  <2>2. Starter'
    <3>1. PICK c \in Starters : pc[c] = "runWait"
      BY <1>9 DEF StartPump
    <3>2. \A d \in Starters : d = c
      BY DEF Single
    <3>3. At(c)'
      BY <1>9, <3>1 DEF StartPump
    <3> QED
      BY <3>2, <3>3
  <2>3. Pump'
    BY <1>9 DEF StartPump
  <2>4. NobodyWaitsOnThePump'
    BY <1>9 DEF StartPump
  <2> QED
    BY <2>1, <2>2, <2>3, <2>4
<1>10. CASE SeesStop
  BY <1>10 DEF SeesStop
<1>11. CASE Drain
  BY <1>11 DEF Drain
<1>12. CASE Drained
  BY <1>12 DEF Drained
<1>13. CASE Idle
  BY <1>13 DEF Idle
<1> QED
  BY <1>1, <1>2, <1>3, <1>4, <1>5, <1>6, <1>7, <1>8, <1>9, <1>10, <1>11, <1>12, <1>13 DEF ThreadStep

LEMMA PumpPoster ==
    ASSUME Single, Places, Flags, Token, Retired, PumpInv, NEW p \in Posters, PosterStep(p)
    PROVE  PumpInv'
<1> USE CaptureAssumption
    DEF Places, Flags, Token, Pending, Serving, Awaiting, Retired, Out, PumpInv, Roles,
        Starter, At, Pump, RunPending, NobodyWaitsOnThePump, Single, Starting, Stopping,
        Posters, Inside, Alive, Pumping, Goes, Turns, events, flags, thread, closing, bounds,
        posters, waits, other
<1>1. CASE Enter(p)
  BY <1>1 DEF Enter, Enters
<1>2. CASE Refuse(p)
  BY <1>2 DEF Refuse, AfterCall
<1>3. CASE PostCall(p)
  BY <1>3 DEF PostCall, Post
<1>4. CASE CallReturns(p)
  <2>1. Roles'
    BY <1>4 DEF CallReturns, Answered, TakeAnswer, AfterCall
  <2>2. Starter'
    BY <1>4 DEF CallReturns, Answered, TakeAnswer, AfterCall
  <2>3. Pump'
    BY <1>4 DEF CallReturns, Answered, TakeAnswer, AfterCall
  <2>4. NobodyWaitsOnThePump'
    BY <1>4 DEF CallReturns, Answered, TakeAnswer, AfterCall
  <2> QED
    BY <2>1, <2>2, <2>3, <2>4
<1>5. CASE Raise(p)
  <2>1. Roles'
    BY <1>5 DEF Raise
  <2>2. Starter'
    <3>1. p \in Starters /\ \A d \in Starters : d = p
      BY <1>5 DEF Raise
    <3>2. At(p)'
      BY <1>5, <3>1 DEF Raise
    <3> QED
      BY <3>1, <3>2
  <2>3. Pump'
    BY <1>5 DEF Raise
  <2>4. NobodyWaitsOnThePump'
    BY <1>5 DEF Raise
  <2> QED
    BY <2>1, <2>2, <2>3, <2>4
<1>6. CASE ResetStop(p)
  BY <1>6 DEF ResetStop
<1>7. CASE ResetIdle(p)
  BY <1>7 DEF ResetIdle
<1>8. CASE PostRun(p)
  BY <1>8 DEF PostRun, Post
<1>9. CASE RunReturns(p)
  BY <1>9 DEF RunReturns, Answered, TakeAnswer, Failed
<1>10. CASE Undo(p)
  <2>1. Roles'
    BY <1>10 DEF Undo
  <2>2. Starter'
    <3>1. p \in Starters /\ \A d \in Starters : d = p
      BY <1>10 DEF Undo
    <3>2. At(p)'
      BY <1>10, <3>1 DEF Undo
    <3> QED
      BY <3>1, <3>2
  <2>3. Pump'
    BY <1>10 DEF Undo
  <2>4. NobodyWaitsOnThePump'
    BY <1>10 DEF Undo
  <2> QED
    BY <2>1, <2>2, <2>3, <2>4
<1>11. CASE Undone(p)
  BY <1>11 DEF Undone
<1>12. CASE Lower(p)
  <2>1. Roles'
    BY <1>12 DEF Lower
  <2>2. Starter'
    <3>1. CASE p = Owner
      BY <1>12, <3>1 DEF Lower
    <3>2. CASE p # Owner
      <4>1. p \in Starters /\ \A d \in Starters : d = p
        BY <1>12, <3>2 DEF Lower
      <4>2. At(p)'
        BY <1>12, <3>2, <4>1 DEF Lower
      <4> QED
        BY <4>1, <4>2
    <3> QED
      BY <3>1, <3>2
  <2>3. Pump'
    BY <1>12 DEF Lower
  <2>4. NobodyWaitsOnThePump'
    BY <1>12 DEF Lower
  <2> QED
    BY <2>1, <2>2, <2>3, <2>4
<1>13. CASE Signal(p)
  <2>1. Roles'
    BY <1>13 DEF Signal, AfterStop
  <2>2. Starter'
    <3>1. CASE p = Owner
      BY <1>13, <3>1 DEF Signal, AfterStop
    <3>2. CASE p # Owner
      <4>1. p \in Starters /\ \A d \in Starters : d = p
        BY <1>13, <3>2 DEF Signal, AfterStop
      <4>2. At(p)'
        BY <1>13, <3>2, <4>1 DEF Signal, AfterStop
      <4> QED
        BY <4>1, <4>2
    <3> QED
      BY <3>1, <3>2
  <2>3. Pump'
    BY <1>13 DEF Signal, AfterStop
  <2>4. NobodyWaitsOnThePump'
    BY <1>13 DEF Signal, AfterStop
  <2> QED
    BY <2>1, <2>2, <2>3, <2>4
<1>14. CASE StopSeesIdle(p)
  BY <1>14 DEF StopSeesIdle, AfterStop
<1>15. CASE StopGivesUp(p)
  <2>1. Roles'
    BY <1>15 DEF StopGivesUp, AfterStop
  <2>2. Starter'
    <3>1. CASE p = Owner
      BY <1>15, <3>1 DEF StopGivesUp, AfterStop
    <3>2. CASE p # Owner
      <4>1. p \in Starters /\ \A d \in Starters : d = p
        BY <1>15, <3>2 DEF StopGivesUp, AfterStop
      <4>2. At(p)'
        BY <1>15, <3>2, <4>1 DEF StopGivesUp, AfterStop
      <4> QED
        BY <4>1, <4>2
    <3> QED
      BY <3>1, <3>2
  <2>3. Pump'
    BY <1>15 DEF StopGivesUp, AfterStop
  <2>4. NobodyWaitsOnThePump'
    BY <1>15 DEF StopGivesUp, AfterStop
  <2> QED
    BY <2>1, <2>2, <2>3, <2>4
<1> QED
  BY <1>1, <1>2, <1>3, <1>4, <1>5, <1>6, <1>7, <1>8, <1>9, <1>10, <1>11, <1>12, <1>13, <1>14, <1>15
  DEF PosterStep

LEMMA PumpOwner ==
    ASSUME Single, Places, Flags, Token, Retired, PumpInv, OwnerStep
    PROVE  PumpInv'
<1> USE CaptureAssumption
    DEF Places, Flags, Token, Pending, Serving, Awaiting, Retired, Out, PumpInv, Roles,
        Starter, At, Pump, RunPending, NobodyWaitsOnThePump, Single, Starting, Stopping,
        Posters, Inside, Alive, Pumping, Goes, Turns, events, flags, thread, closing, bounds,
        posters, waits, other
<1>1. CASE OpenThread
  BY <1>1 DEF OpenThread
<1>2. CASE OpenReady
  BY <1>2 DEF OpenReady
<1>3. CASE OpenMute
  <2>1. Roles'
    BY <1>3 DEF OpenMute
  <2>2. Starter'
    BY <1>3 DEF OpenMute
  <2>3. Pump'
    BY <1>3 DEF OpenMute
  <2>4. NobodyWaitsOnThePump'
    BY <1>3 DEF OpenMute
  <2> QED
    BY <2>1, <2>2, <2>3, <2>4
<1>4. CASE Judge
  BY <1>4 DEF Judge
<1>5. CASE PostClose
  BY <1>5 DEF PostClose, Post
<1>6. CASE CloseAnswered
  BY <1>6 DEF CloseAnswered, TakeAnswer
<1>7. CASE PostQuit
  BY <1>7 DEF PostQuit, Post
<1>8. CASE QuitAnswered
  BY <1>8 DEF QuitAnswered, TakeAnswer
<1>9. CASE Joined
  BY <1>9 DEF Joined
<1>10. CASE JoinGivesUp
  BY <1>10 DEF JoinGivesUp
<1>11. CASE CloseMute
  BY <1>11 DEF CloseMute, Verdict
<1>12. CASE MuteJoined
  BY <1>12 DEF MuteJoined, Verdict
<1>13. CASE MuteGivesUp
  BY <1>13 DEF MuteGivesUp, Verdict
<1> QED
  BY <1>1, <1>2, <1>3, <1>4, <1>5, <1>6, <1>7, <1>8, <1>9, <1>10, <1>11, <1>12, <1>13 DEF OwnerStep

LEMMA PumpRest ==
    ASSUME Single, Places, Flags, Token, Retired, PumpInv,
           Wedge \/ Unwedge \/ MuteLeaves \/ Close \/ UNCHANGED vars
    PROVE  PumpInv'
<1> USE CaptureAssumption
    DEF Places, Flags, Token, Pending, Serving, Awaiting, Retired, Out, PumpInv, Roles,
        Starter, At, Pump, RunPending, NobodyWaitsOnThePump, Single, Starting, Stopping,
        Posters, Inside, Alive, Pumping, Goes, Turns, events, flags, thread, closing, bounds,
        posters, waits, other
<1>1. CASE Wedge
  BY <1>1 DEF Wedge
<1>2. CASE Unwedge
  BY <1>2 DEF Unwedge
<1>3. CASE MuteLeaves
  BY <1>3 DEF MuteLeaves
<1>4. CASE Close
  BY <1>4 DEF Close
<1>5. CASE UNCHANGED vars
  BY <1>5 DEF vars
<1> QED
  BY <1>1, <1>2, <1>3, <1>4, <1>5

LEMMA PumpBegins ==
    ASSUME Single, Places, Flags, Token, Retired, PumpInv, NEW c \in Clients,
           Call(c) \/ Start(c) \/ Stop(c)
    PROVE  PumpInv'
<1> USE CaptureAssumption
    DEF Places, Flags, Token, Pending, Serving, Awaiting, Retired, Out, PumpInv, Roles,
        Starter, At, Pump, RunPending, NobodyWaitsOnThePump, Single, Starting, Stopping,
        Posters, Inside, Alive, Pumping, Goes, Turns, events, flags, thread, closing, bounds,
        posters, waits, other
<1>1. CASE Call(c)
  BY <1>1 DEF Call, MayBegin
<1>2. CASE Start(c)
  <2>1. Roles'
    BY <1>2 DEF Start, MayBegin
  <2>2. Starter'
    <3>1. c \in Starters /\ \A d \in Starters : d = c
      BY <1>2 DEF Start, MayBegin
    <3>2. At(c)'
      BY <1>2, <3>1 DEF Start, MayBegin
    <3> QED
      BY <3>1, <3>2
  <2>3. Pump'
    BY <1>2 DEF Start, MayBegin
  <2>4. NobodyWaitsOnThePump'
    BY <1>2 DEF Start, MayBegin
  <2> QED
    BY <2>1, <2>2, <2>3, <2>4
<1>3. CASE Stop(c)
  BY <1>3 DEF Stop, MayBegin
<1> QED
  BY <1>1, <1>2, <1>3

LEMMA PumpStep ==
    ASSUME Single, Places, Flags, Token, Retired, PumpInv, [Next]_vars
    PROVE  PumpInv'
<1>1. CASE ThreadStep
  BY <1>1, PumpThread
<1>2. ASSUME NEW p \in Posters, PosterStep(p) PROVE PumpInv'
  BY <1>2, PumpPoster
<1>3. CASE OwnerStep
  BY <1>3, PumpOwner
<1>4. ASSUME NEW c \in Clients, Call(c) \/ Start(c) \/ Stop(c) PROVE PumpInv'
  BY <1>4, PumpBegins
<1>5. CASE Wedge \/ Unwedge \/ MuteLeaves \/ Close \/ UNCHANGED vars
  BY <1>5, PumpRest
<1> QED
  BY <1>1, <1>2, <1>3, <1>4, <1>5 DEF Next

-----------------------------------------------------------------------------
(* The theorems.                                                           *)

\* Types; and the critical section of a capture holds one thread, which is
\* the one that owns its lock (wasapi_common.c).
THEOREM TypeCorrect == Spec => []TypeOK
<1>1. Init => Places
  BY InitKept
<1>2. Init => Flags
  BY Zenon DEF Init, Flags
<1> QED
  BY <1>1, <1>2, PlacesStep, FlagsStep, PTL DEF Spec, TypeOK

\* done_ev, which every caller shares, is only ever set for the caller that
\* holds the lock: no answer is left behind for the next one (post()).
THEOREM AnswersAreForTheHolder == Spec => []AnswersHolder
<1>1. Init => Token
  BY InitKept
<1>2. Token => AnswersHolder
  BY DEF Token, Pending, AnswersHolder
<1> QED
  BY <1>1, <1>2, TypeCorrect, TokenStep, PTL DEF Spec, TypeOK

\* Neither a wedged pump nor a wedged poller has memory freed under it, after
\* any number of waits given up and closes retried (capture.h, join.h).
THEOREM NothingFreedUnderAThread == Spec => []NotFreedUnderThread
<1>1. Init => Retired
  BY InitKept
<1>2. Retired => NotFreedUnderThread
  BY DEF Retired, Out, NotFreedUnderThread
<1> QED
  BY <1>1, <1>2, TypeCorrect, RetiredStep, PTL DEF Spec, TypeOK

LEMMA PumpInvariant == ASSUME Single PROVE Spec => []PumpInv
<1>1. Init => Token /\ Retired /\ PumpInv
  BY InitKept, InitPump
<1>2. Places /\ Flags /\ Token /\ Retired /\ PumpInv /\ [Next]_vars => PumpInv'
  BY PumpStep
<1> QED
  BY <1>1, <1>2, TypeCorrect, TokenStep, RetiredStep, PTL DEF Spec, TypeOK

\* With one thread that starts and stops, and stops honoured: once stop() has
\* seen idle_ev, the pump writes nothing more until the next start().
THEOREM AStopIsAStop == ASSUME Single PROVE Spec => []StoppedIsQuiet
<1>1. PumpInv => StoppedIsQuiet
  BY Zenon DEF PumpInv, Pump, StoppedIsQuiet
<1> QED
  BY <1>1, PumpInvariant, PTL

\* Under the same assumption a job that was accepted always completes: it is
\* posted to a pump only when stop_ev is set or about to be (post(), stop()).
THEOREM AcceptedJobsComplete == ASSUME Single PROVE Spec => []NobodyWaitsOnThePump
<1>1. PumpInv => NobodyWaitsOnThePump
  BY DEF PumpInv
<1> QED
  BY <1>1, PumpInvariant, PTL
=============================================================================
