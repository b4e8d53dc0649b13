----------------------------- MODULE Controller -----------------------------
(***************************************************************************)
(* The window of the recorder (ui/controller.c, on ui/app.c's frame,       *)
(* ui/tray.c's icon and ui/dialogs.c's dialogs) and what it talks to: the  *)
(* recording thread, whose notices it gets as posted messages, and the     *)
(* update check, whose result comes the same way.                          *)
(*                                                                         *)
(* One thread runs every handler, but a handler that asks something does   *)
(* it in a modal dialog, which pumps messages: the handlers that are       *)
(* suspended form a stack, and whatever a message may do is done between   *)
(* two of their lines.  A modal dialog disables the frame; the             *)
(* notification area is another window's, and its menu keeps working.      *)
(*                                                                         *)
(* Posted messages are taken before input.  Windows destroys the dialogs   *)
(* of a window that is destroyed; their handlers return as if cancelled,   *)
(* and change nothing.  What is edited and opened is in module Documents.  *)
(***************************************************************************)
EXTENDS Integers, Sequences

CONSTANTS
    MaxTakes,   \* bound: recordings
    MaxAsks,    \* bound: pauses and resumes asked for
    MaxChecks,  \* bound: updates found
    MaxLost,    \* bound: notices that cannot be posted
    MaxDepth    \* bound: dialogs that the user has open inside one another

ASSUME ControllerAssumption ==
    {MaxTakes, MaxAsks, MaxChecks, MaxLost, MaxDepth} \subseteq Nat

VARIABLES
    recording, paused, closing, allow,  \* flags of AprController; allow is allow_close
    loop,           \* the recording thread: where it is, and its pause
    stopReq,        \* the runner's stop_event
    q,              \* messages posted to the frame
    stack,          \* handlers that wait for an answer, outermost first
    win,            \* the frame: open, gone, then the process quitting, over, killed
    hidden, icon, tip,  \* the window is hidden; its icon is there, and what it says
    staged, swapped,    \* an update waits for the exit; it has been put in place
    lost,           \* notices that were dropped
    takes, asks, checks

flags   == <<recording, paused, closing, allow>>
take    == <<loop, stopReq>>
queue   == <<q, lost>>
surface == <<win, hidden, icon, tip>>
update  == <<staged, swapped>>
bounds  == <<takes, asks, checks>>
vars    == <<flags, take, queue, stack, surface, update, bounds>>

Idle == [at |-> "none", want |-> FALSE, gp |-> FALSE]

Init ==
    /\ recording = FALSE /\ paused = FALSE /\ closing = FALSE /\ allow = FALSE
    /\ loop = Idle /\ stopReq = FALSE /\ q = <<>> /\ stack = <<>>
    /\ win = "open" /\ hidden = FALSE /\ icon \in BOOLEAN /\ tip = "idle"
    /\ staged = FALSE /\ swapped = FALSE /\ lost = 0
    /\ takes = 0 /\ asks = 0 /\ checks = 0

-----------------------------------------------------------------------------
(* The thread of the window.                                               *)

Top   == stack[Len(stack)]
Below == SubSeq(stack, 1, Len(stack) - 1)
Is(k) == stack # <<>> /\ Top = k

\* Nothing is dispatched while the thread is blocked in a wait of its own.
Blocking == Is("join") \/ Is("endwait")
Pumping  == win = "open" /\ ~Blocking

\* Input: to the icon's menu, to the dialog on top, or to the frame, which is
\* enabled when no dialog is open.
AtTray  == Pumping /\ q = <<>>
AtFrame == AtTray /\ \A i \in DOMAIN stack : stack[i] = "wait"
At(k)   == AtTray /\ Is(k)

Asks(k) == Len(stack) < MaxDepth /\ stack' = Append(stack, k)
Then(k) == stack' = Append(Below, k)
Returns == stack' = Below

\* The window is destroyed, and with it its messages and its dialogs.
Destroyed == win' = "gone" /\ stack' = <<>> /\ q' = <<>>

\* A command that asks something, or explains it; what becomes of the answer is
\* in Documents.  The icon's menu has one, which is refused while recording.
Ask ==
    /\ AtTray /\ (AtFrame \/ ~recording) /\ Asks("ask")
    /\ UNCHANGED <<flags, take, queue, surface, update, bounds>>

\* Every dialog can be cancelled, and its handler returns.
Cancel ==
    /\ AtTray /\ stack # <<>> /\ Top # "wait" /\ Returns
    /\ UNCHANGED <<flags, take, queue, surface, update, bounds>>

-----------------------------------------------------------------------------
(* Recording.                                                              *)

Start ==
    /\ AtTray /\ ~recording
    /\ takes < MaxTakes /\ takes' = takes + 1
    /\ recording' = TRUE /\ paused' = FALSE /\ tip' = "recording"
    /\ loop' = [Idle EXCEPT !.at = "begin"] /\ stopReq' = FALSE
    /\ UNCHANGED <<closing, allow, queue, stack, win, hidden, icon, update>>
    /\ UNCHANGED <<asks, checks>>

Stop ==
    /\ AtTray /\ recording /\ stopReq' = TRUE /\ tip' = "finishing"
    /\ UNCHANGED <<flags, loop, queue, stack, win, hidden, icon, update, bounds>>

\* Mutant of Pause: the flag does not wait for the notice.
Pause_mutant ==
    /\ AtTray /\ recording /\ ~paused
    /\ asks < MaxAsks /\ asks' = asks + 1
    /\ loop' = [loop EXCEPT !.want = TRUE] /\ paused' = TRUE
    /\ UNCHANGED <<recording, closing, allow, stopReq, queue, stack, surface, update>>
    /\ UNCHANGED <<takes, checks>>

Pause ==
    /\ AtTray /\ recording /\ ~paused
    /\ asks < MaxAsks /\ asks' = asks + 1
    /\ loop' = [loop EXCEPT !.want = TRUE]
    /\ UNCHANGED <<flags, stopReq, queue, stack, surface, update, takes, checks>>

Resume ==
    /\ AtTray /\ recording /\ paused
    /\ asks < MaxAsks /\ asks' = asks + 1
    /\ loop' = [loop EXCEPT !.want = FALSE]
    /\ UNCHANGED <<flags, stopReq, queue, stack, surface, update, takes, checks>>

\* tick_clock: once a second the icon says what the flags say.
TickClock ==
    /\ AtTray /\ recording
    /\ tip' = IF paused THEN "paused" ELSE "recording"
    /\ UNCHANGED <<flags, take, queue, stack, win, hidden, icon, update, bounds>>

-----------------------------------------------------------------------------
(* The recording thread.  Its observer copies a notice and posts it; when  *)
(* that fails the notice is dropped.  After the window is gone it fails.   *)

LoopGoes(from, to) == loop.at = from /\ loop' = [loop EXCEPT !.at = to]

Post(m) ==
    \/ win = "open" /\ q' = Append(q, m) /\ UNCHANGED lost
    \/ win = "open" /\ lost < MaxLost /\ lost' = lost + 1 /\ UNCHANGED q
    \/ win # "open" /\ UNCHANGED queue

\* Mutant of Delivered: the notice is sent, and the thread waits for its handler.
Delivered_mutant == q = <<>> /\ Pumping

\* A posted notice is waited for by nobody.
Delivered == TRUE

Begin ==
    /\ loop.at = "begin" /\ loop' = [loop EXCEPT !.at = "arming", !.want = FALSE]
    /\ UNCHANGED <<flags, stopReq, queue, stack, surface, update, bounds>>

\* apr_graph_start ends: the graph says from here on that it runs.
Arm ==
    /\ LoopGoes("arming", "running")
    /\ UNCHANGED <<flags, stopReq, queue, stack, surface, update, bounds>>

ApplyPause ==
    /\ loop.at = "running" /\ loop.want # loop.gp
    /\ loop' = [loop EXCEPT !.at = "tell", !.gp = loop.want]
    /\ UNCHANGED <<flags, stopReq, queue, stack, surface, update, bounds>>

TellPause ==
    /\ LoopGoes("tell", "running") /\ Post(IF loop.gp THEN "paused" ELSE "resumed")
    /\ UNCHANGED <<flags, stopReq, stack, surface, update, bounds>>

Break ==
    /\ stopReq /\ LoopGoes("running", "finishing") /\ Post("finishing")
    /\ UNCHANGED <<flags, stopReq, stack, surface, update, bounds>>

\* apr_graph_stop finalizes the files; the run is paused no more.
CloseFiles ==
    /\ loop.at = "finishing"
    /\ loop' = [loop EXCEPT !.at = "closed", !.gp = FALSE, !.want = FALSE]
    /\ UNCHANGED <<flags, stopReq, queue, stack, surface, update, bounds>>

TellStopped ==
    /\ LoopGoes("closed", "told") /\ Post("stopped")
    /\ UNCHANGED <<flags, stopReq, stack, surface, update, bounds>>

EndThread ==
    /\ Delivered /\ LoopGoes("told", "ended")
    /\ UNCHANGED <<flags, stopReq, queue, stack, surface, update, bounds>>

Recorder ==
    /\ win # "killed"
    /\ \/ Begin \/ Arm \/ ApplyPause \/ TellPause \/ Break \/ CloseFiles \/ TellStopped
       \/ EndThread

-----------------------------------------------------------------------------
(* Messages.  Whichever loop is running, a dialog's or the program's,      *)
(* dispatches them.                                                        *)

Takes(m) == Pumping /\ q # <<>> /\ Head(q) = m

\* update_commands and the views follow the flags; the readout is redone at once.
TakePauseNotice(m, now) ==
    /\ Takes(m) /\ q' = Tail(q)
    /\ paused' = now
    /\ tip' = IF ~recording THEN tip ELSE IF now THEN "paused" ELSE "recording"
    /\ UNCHANGED <<recording, closing, allow, take, lost, stack, win, hidden, icon>>
    /\ UNCHANGED <<update, bounds>>

TakePaused  == TakePauseNotice("paused", TRUE)
TakeResumed == TakePauseNotice("resumed", FALSE)

TakeFinishing ==
    /\ Takes("finishing") /\ q' = Tail(q) /\ tip' = "finishing"
    /\ UNCHANGED <<flags, take, lost, stack, win, hidden, icon, update, bounds>>

\* recording_finished destroys the runner, which joins its thread.
TakeStopped ==
    /\ Takes("stopped") /\ q' = Tail(q)
    /\ stack' = Append(stack, "join") /\ stopReq' = TRUE
    /\ UNCHANGED <<flags, loop, lost, surface, update, bounds>>

\* The rest of it.  A close that waited for the files can proceed.
FinishTake ==
    /\ Is("join") /\ loop.at = "ended" /\ Returns
    /\ loop' = Idle /\ recording' = FALSE /\ paused' = FALSE /\ tip' = "idle"
    /\ IF closing THEN allow' = TRUE /\ closing' = FALSE /\ q' = Append(q, "close")
                  ELSE UNCHANGED <<closing, allow, q>>
    /\ UNCHANGED <<stopReq, lost, win, hidden, icon, update, bounds>>

\* The check's own thread posts a release that is available; any of the
\* triggers may have started it.
FindUpdate ==
    /\ win = "open" /\ checks < MaxChecks /\ checks' = checks + 1
    /\ q' = Append(q, "update")
    /\ UNCHANGED <<flags, take, lost, stack, surface, update, takes, asks>>

TakeUpdate ==
    /\ Takes("update") /\ q' = Tail(q) /\ stack' = Append(stack, "update")
    /\ UNCHANGED <<flags, take, lost, surface, update, bounds>>

\* Mutant of InstallUpdate: what holds when the question is asked is not
\* looked at when it is answered.
InstallUpdate_mutant ==
    /\ At("update") /\ Returns /\ staged' = TRUE
    /\ UNCHANGED <<flags, take, queue, surface, swapped, bounds>>

\* apply_update: the take wins.  A download that fails is a Cancel here.
InstallUpdate ==
    /\ At("update") /\ Returns
    /\ staged' = (staged \/ ~recording)
    /\ UNCHANGED <<flags, take, queue, surface, swapped, bounds>>

-----------------------------------------------------------------------------
(* Showing, hiding and closing.                                            *)

\* The shell has restarted; the icon is added again, or is not.
RecreateTaskbar ==
    /\ Pumping /\ icon' \in BOOLEAN
    /\ UNCHANGED <<flags, take, queue, stack, win, hidden, tip, update, bounds>>

HideToTray ==
    /\ AtFrame /\ icon /\ hidden' = TRUE
    /\ UNCHANGED <<flags, take, queue, stack, win, icon, tip, update, bounds>>

Show ==
    /\ AtTray /\ icon /\ hidden' = FALSE
    /\ UNCHANGED <<flags, take, queue, stack, win, icon, tip, update, bounds>>

\* on_close, asked by the user, by the icon's menu or by recording_finished.
OnClose ==
    IF allow \/ ~recording THEN Destroyed ELSE Asks("close") /\ UNCHANGED win

Close ==
    /\ AtTray /\ (hidden => icon) /\ OnClose
    /\ (win' = win => UNCHANGED q)
    /\ UNCHANGED <<flags, take, lost, hidden, icon, tip, update, bounds>>

TakeClose ==
    /\ Takes("close") /\ OnClose /\ (win' = win => q' = Tail(q))
    /\ UNCHANGED <<flags, take, lost, hidden, icon, tip, update, bounds>>

CloseToTray ==
    /\ At("close") /\ Returns
    /\ hidden' = (hidden \/ icon)
    /\ UNCHANGED <<flags, take, queue, win, icon, tip, update, bounds>>

\* Stop and close: the files are waited for, and messages pumped meanwhile.
StopAndClose ==
    /\ At("close") /\ closing' = TRUE
    /\ stopReq' = (stopReq \/ recording)
    /\ IF recording THEN Then("wait") /\ UNCHANGED <<allow, q, win>>
                    ELSE allow' = TRUE /\ Destroyed
    /\ UNCHANGED <<recording, paused, loop, lost, hidden, icon, tip, update, bounds>>

\* Mutant of WaitDone: the wait is over when its time is.
WaitDone_mutant ==
    /\ Is("wait") /\ Pumping /\ allow' = TRUE /\ Destroyed
    /\ UNCHANGED <<recording, paused, closing, take, lost, hidden, icon, tip>>
    /\ UNCHANGED <<update, bounds>>

WaitDone ==
    /\ Is("wait") /\ Pumping /\ ~recording /\ allow' = TRUE /\ Destroyed
    /\ UNCHANGED <<recording, paused, closing, take, lost, hidden, icon, tip>>
    /\ UNCHANGED <<update, bounds>>

WaitExpires ==
    /\ Is("wait") /\ Pumping /\ recording
    /\ closing' = FALSE /\ Returns
    /\ UNCHANGED <<recording, paused, allow, take, queue, surface, update, bounds>>

\* WM_ENDSESSION is sent, not posted.  The handler blocks until the run is over
\* or its time is; then Windows kills the process.
EndSession ==
    /\ Pumping
    /\ IF recording THEN /\ stack' = Append(stack, "endwait") /\ stopReq' = TRUE
                         /\ UNCHANGED <<loop, win>>
       ELSE win' = "killed" /\ UNCHANGED <<stack, take>>
    /\ UNCHANGED <<flags, queue, hidden, icon, tip, update, bounds>>

Killed ==
    /\ Is("endwait") /\ win = "open" /\ win' = "killed"
    /\ UNCHANGED <<flags, take, queue, stack, hidden, icon, tip, update, bounds>>

\* apr_controller_destroy: stop, and join.
Quit ==
    /\ win = "gone" /\ win' = "quit"
    /\ stopReq' = (stopReq \/ recording)
    /\ UNCHANGED <<flags, loop, queue, stack, hidden, icon, tip, update, bounds>>

\* The swap, the icon and the graph come after the join.
Destroy ==
    /\ win = "quit" /\ loop.at \in {"none", "ended"} /\ win' = "over"
    /\ recording' = FALSE /\ paused' = FALSE /\ swapped' = staged /\ staged' = FALSE
    /\ loop' = Idle /\ icon' = FALSE
    /\ UNCHANGED <<closing, allow, stopReq, queue, stack, hidden, tip, bounds>>

-----------------------------------------------------------------------------
Recording == Start \/ Stop \/ Pause \/ Resume \/ TickClock

Messages ==
    \/ TakePaused \/ TakeResumed \/ TakeFinishing \/ TakeStopped \/ FinishTake \/ TakeUpdate
    \/ TakeClose

Window ==
    \/ RecreateTaskbar \/ HideToTray \/ Show \/ Close \/ CloseToTray \/ StopAndClose
    \/ WaitDone \/ WaitExpires \/ EndSession \/ Killed \/ Quit \/ Destroy

Next ==
    \/ Ask \/ Cancel \/ Recording \/ Recorder \/ Messages
    \/ FindUpdate \/ InstallUpdate \/ Window

Spec == Init /\ [][Next]_vars

\* The recording thread goes on, and so does the one that pumps.
Fairness == WF_vars(Recorder) /\ WF_vars(Messages)

FairSpec == Spec /\ Fairness

-----------------------------------------------------------------------------
(* Properties.                                                             *)

\* The files of a take that are not finalized yet.
Unfinished == loop.at \in {"begin", "arming", "running", "tell", "finishing"}

TypeOK ==
    /\ {recording, paused, closing, allow, stopReq, hidden, icon} \subseteq BOOLEAN
    /\ {staged, swapped} \subseteq BOOLEAN
    /\ win \in {"open", "gone", "quit", "over", "killed"}
    /\ tip \in {"idle", "recording", "paused", "finishing"}

\* However the close is asked for, from inside whichever dialog, and however
\* long the files take, the window is not destroyed while one is not finalized
\* (ui_controller.h: no path reaches DestroyWindow with an action unfinalized).
CloseLosesNothing == win \in {"gone", "quit"} => ~Unfinished

\* What the window says of a pause is what is being written, but for a notice
\* that is on its way or was dropped.
PauseIsWhatItSays ==
    loop.at = "running" /\ win = "open" /\ lost = 0 =>
        (paused = loop.gp \/ \E i \in DOMAIN q : q[i] \in {"paused", "resumed"})

\* An update is downloaded and put in place only between takes (update.h, rule 1).
UpdateWaitsForTheTake ==
    [][(staged' # staged \/ swapped' # swapped) => ~Unfinished]_vars

\* A take that was told to stop is over for the window too, whatever dialogs
\* are open, unless its notice was dropped or Windows ended the session.
StopIsSeen ==
    recording /\ stopReq ~> (~recording \/ lost > 0 \/ win = "killed" \/ Is("endwait"))
=============================================================================
