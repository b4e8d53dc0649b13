# A verification project for apprecorder

apprecorder records the sound of running applications and of capture devices
into files, several sources and several files at once, all aligned to the
microsecond clock of the machine.  This directory holds TLA+ modules that model
the parts of it where a mistake would be hard to see and harder to test, the
TLC configurations that check them, and proofs for TLAPS.

Paths below are relative to the repository (`core/source.c` is
`src/core/source.c`).  `PROJECT.json` maps every definition to the lines it
stands for.

## 1. Inventory: the system and its parts

```
 target app        capture threads             one thread             front end
 or device    ->   wasapi_common.c   -> ring -> runner.c             window, CLI
                   capture_*.c         (SPMC)   graph, buses, mixer -> files
                        ^                ^          |  ^
                        |   reconnect.c--+          |  +-- pause, stop, destroy
                        +--- (worker) ---- source.c +---- notices
```

| part | state it keeps | operations | meets the others by |
|---|---|---|---|
| **ring buffer** `core/ringbuf.c` | frames; two cursors of the producer; a cursor per reader | write, write silence, read, skip, seek, attach | two atomic cursors, no lock; one producer, many readers |
| **source** `core/source.c` | the capture pointer and its user count, a cached status, an anchor, the ring | create, destroy, start, stop, poll, detach, reattach, pad, pull | called by the loop and by the worker at once |
| **reconnect worker** `core/reconnect.c` | per source: link state, last pid, back-off | a pass every 100 ms: notice, tear down, pad, search, reattach | its own thread, between `graph_start` and `graph_stop` |
| **runner** `core/runner.c` | flags (in_run, running, stop, pause), two events, one thread handle, one slot per source and file | run, run_async, request stop/pause/resume, destroy | the loop thread, any number of front-end threads, the owner |
| **capture** `capture/wasapi_common.c`, `capture_process.c`, `capture_device.c`, `capture.c` | a thread, a job slot, five events, a lock; a mute poller; client clock, frames delivered | open, call, start, stop, status, close | the job protocol; the ring; the status cell |
| **clock** `core/clock.c` | an anchor | expected frames, frames at, shift | arithmetic on ticks |
| **bus** `core/bus.c`, `mix.c` | origin, frames out, readers, actions | start, tick, resume, stop | the loop thread only |
| **graph** `core/graph.c`, `registry.c` | sources, buses, connections, ids, running, paused | add, remove, connect, arm, start, tick, pause, resume, stop | the loop thread and, between takes, the front end |
| **file writers** `actions/*.c` | a ring of four seconds, a thread, an encoder, a file handle, counts of what is whole on disk, the first error | create, on_audio, finalize, destroy | called by a bus on the loop thread; two flags and the ring to the writer's thread; the disk |
| **log** `platform/log.c` | a bounded queue, a thread | write, flush, shutdown | every thread |
| **updater** `platform/update*.c` | the executable, its `.new` and its `.old`; a record in the registry | check, stage, swap, start-up clean-up | the server, the file system, other and later processes |
| **sessions** `session/*.c` | a JSON file; a report of what became of each source | load, save, resolve, describe | the file system; the audio engine's list and the process table |
| **output paths** `platform/outpath.c` | names of existing files | expand, resolve, open new | the disk, which other recorders write to |
| **window controller** `ui/controller.c` | the graph, its file, what is unsaved; recording, paused, closing; a staged update; the icon | commands, notices, dialogs, close, the end of the Windows session | the runner's thread by posted messages; every dialog pumps them |
| **views** `ui/canvas.c`, `tree_panel.c`, `node_window.c` | copies of the graph; the current node; a half-made edge; the caret | keys, clicks, rebuild | the graph and the controller |
| **command line** `cli/cli.c` | a plan; a runner; a keyboard thread; a control handler | record, dry run, save-session, lists, update | sessions, paths, graph, runner; three threads |
| **start-up** `app/*.c` | | choose a front end, ask for the Windows it needs | the updater |

What is hard in it:

* **Concurrency without locks.** The ring is overwritten while it is read; a
  capture is freed while the loop asks it for its status; a runner is
  destroyed while a run leaves it; a capture thread serves jobs of any thread
  with one shared "done" event.
* **Four clocks' worth of agreement.** Where a frame lands is decided in four
  places (capture, source, reader, bus) that never talk to each other. Losses,
  deaths, recoveries and pauses must move all four alike.
* **Failure half-way.** Every wait for a thread is bounded and may give up:
  what is then leaked, what must not be freed, and what must be tried again.
* **Silence as failure.** A tap whose target died goes on delivering silence;
  an "everything but X" tap whose X died records X when it comes back.
* **A thread that pumps.** The window's handlers are suspended in dialogs while
  the icon's menu, notices, an update and the end of the session go on.
* **What was looked at, and when.** A session is searched, asked about and searched
  again; a name that was free is created later; a plan is checked and then recorded.
* **Things that must happen.** A lost source is looked for again for ever; a
  pause is applied; a stop closes the files; a destroy ends.

What makes each part correct:

* ring: what is read is what was written there; every frame not delivered is
  counted as lost; nothing is lost that was still held.
* source and worker: one producer per ring; no use of a freed capture; nothing
  leaked but what was abandoned; recovery, and the user's being told of it.
* runner: one loop; files finalized whatever happens; no frame while paused;
  nothing freed under a thread.
* timeline: every frame of a file was captured at the instant its position says.
* capture: nothing freed under the pump; each answer for its caller; nobody
  waits on a thread that does not listen; a stop leaves silence.
* outputs: whatever fails and whenever the process is killed, the file plays and
  plays no less than before; a finished one is as long as the take; whatever is
  missing has been told; its name was nobody else's.
* log (planned): no record torn or out of order; flush means written; a full
  queue drops and says so.
* sessions: what was saved is what is found while it is there; nothing is recorded
  that was not agreed to; what is missing is said.
* window: no file is lost however it is closed; what it says of a pause is true; the
  graph under a recording stays; views, menus and graph agree.
* command line: the exit code tells a script the truth; Windows and the keyboard
  never outrun the files.
* updater: wherever it is killed, a build that comes up is left; what is put in
  place is what was promised; a release is not forgotten because it was half
  published.

`PROJECT.json` lists every component with its status, and under `hazards` the
places where it could go wrong.

## 2. Modules

| module | models | against |
|---|---|---|
| `LossyStream` | what the ring promises: frames in order, some passed by and counted | `include/ringbuf.h` |
| `RingBuf` | the ring, one action per cursor access and per frame copied | refines `LossyStream` |
| `SourceLink` | one source, the reconnect worker, the loop's polling, the captures, the target | |
| `Runner` | the recording loop, its callers, and the owner that destroys it | |
| `Timeline` | capture, source, reader and bus of one process tap on one file, time in frames | |
| `CaptureThread` | a capture's thread and everybody who uses it, from open to free | |
| `FileWriter` | one output of a take: the mixer, the writer's thread, the file on disk | the ring as `LossyStream` has it |
| `Update` | the processes of one installation: check, download, swap, start-up, kills | |
| `Controller` | the window's handlers and dialogs, its close, the recording thread's notices, a staged update, the icon | |
| `Documents` | the window's document: new, open, save, edits, nested in one another's dialogs, beside a recording | |
| `Canvas` | the two views and the menus against the graph; the gesture that makes an edge | |
| `Session` | session files: read, written, searched for on a machine that changes; the window that opens and saves one | |
| `Outputs` | the names of the files of a recording, against others who create files | |
| `CommandLine` | the grammar of the command line | |
| `Cli` | a command from its words to its exit code: EXTENDS `Session`, `Outputs`, `CommandLine` | |
| `RingBufProofs`, `SourceProofs` (of `SourceLink` and `Timeline`), `RecordingProofs` (of `Runner` and `FileWriter`), `CaptureThreadProofs`, `UpdateProofs`, `ControllerProofs`, `WindowProofs` (of `Documents` and `Canvas`), `CliProofs` | the theorems | |
| `MC...` | the instances TLC checks | |

The modules divide the program by granularity. `RingBuf` splits the accesses of
one read; `SourceLink` splits the hand-over of a capture and takes a ring write
as given; `Timeline` takes whole operations as steps and looks at what they
compute; `Runner` sees of the graph only whether the files are open and whether
a block is written; `CaptureThread` sees of a drain only that it happens. Each
assumption one makes is what another checks: `Timeline` relies on a single
producer (`SourceLink`), the single producer on a close that tells the truth
(`CaptureThread`, `NotFreedUnderThread`), the worker's being gone before the
graph stops on `Runner` (`WatchedOnlyWhileOpen`, proved), and the starts and stops of a
capture's coming from one thread at a time on the same. `Controller` and `Cli` see of a
recording that it is armed, runs, is paused and finishes: `Runner` is what they rely on.
`Documents` splits the commands `Controller` treats as one dialog, `Canvas` takes each
handler as one step, and `Session` splits the opening and saving of one file down to
each source.

### RingBuf

`claim`, `write`, `data` are `claim_pos`, `write_pos` and the storage; a frame is
the number of its position, so an overwritten copy is visible. A write is
`Claim`, a `Put` per frame in any order (a memcpy promises none) and `Publish`.
A read is `LoadW`, `ReadBegin` (or `ReadNothing`), a `ReadCopy` per frame in any
order, then `ReadDone`, `ReadRetry` or `ReadGiveUp` on the claim cursor it reads
again. `tape` and `told` are the position and loss a caller computes from return
values alone. Cursors are 64 bits wide and cannot wrap in the life of a machine;
they are natural numbers here and `NeverAheadOfClaim` is what keeps the unsigned
subtractions in range.

### SourceLink

`cap`, `users`, `started`, `stAlive` are fields of `AprSource`; `link`, `lastPid`,
`backoff`, `wait` of the worker's slot; `wpc`, `wptr` and `lpc`, `lptr` say where
worker and loop are and which pointer they hold. The gate of `source.c` (raise
`cap_users`, read the pointer; clear the pointer, wait for the count) is four
actions. A retirement may be abandoned at any time. When it was the capture's thread that
was given up (`stuck`; `half` for one that never finished opening), it is for good:
`pump_stuck` is never cleared, every later close is abandoned again, and the source keeps that
capture to the end (`GivenUp`). A mute poller that was late (`muted`) may be joined by the
next try. An open may fail, or fail with a thread that cannot be retired, and a start may
fail. An incarnation of the
target has a pid of its own: pids that Windows uses again are outside what the
code can tell apart. A death is noticed at any time after it happens.

### Runner

`pc[t]` walks a thread through `apr_runner_run`, one action per access to a flag
or event. `files` is the graph's outputs; `beat` changes with every block
rendered; `heard` is the last notice. `own` is where `apr_runner_destroy` is. A
thread that calls `run()` itself is not joined, which is why `in_run` and
`loop_left` exist.

### Timeline

A frame in `ring` is the instant it was captured, or silence; a frame in `block`
is what was written with the instant its place in the file stands for. `Packet`
is one round of `drain()`: anchoring (`AnchorAt`), the gap (`Gap`), rejoining
(`Rejoin`), the frames. `DetachDead`, `PadTo`, `Reattach` are the worker; `Turn` is one
block of a tick of the loop (`apr_bus_tick` renders as many as are due, then
`apr_source_poll`); `Begun`, `At`, `Passed` and `Rebased` are the reader. `rd.cur` is the
ring cursor: a loop that is late by more than the ring finds it lapped, `rb_read` takes it to the
oldest frame and past what it copied, and `pull_aligned` throws that copy away (`At` is
silent, though the ring holds the frame); `rb_skip` takes a reader that is behind
its place to the oldest frame before it skips. `cost` remembers below which ring index a
lap may cost held frames. What the producer does between two accesses of one read is
`RingBuf`'s. One frame is one tick of the clock, so
no conversion rounds: what `clock.c` rounds is left to a module of its own. The
buses of a graph share nothing but the ring, so one stands for all.

Left out: losses of which no time stamp tells (the code can only count frames
then), and packets that arrive late (the header says "captured before that" and
measures at arrival). Device drift is a floating-point loop and is not modelled.

### CaptureThread

`th` is the capture thread: `wait` reads jobs, `pump` and `drain` are the two halves
of its loop, `wedged` is a drain that WASAPI does not give back. `pc[p]` is where each
client and the owner is; `Enter` is `EnterCriticalSection` for all. `mute` is the
poller of a process capture. Every bounded wait may give up while what it waits
for has not happened. `quiet` remembers that a stop has seen the pump out;
`answered` whose job the answer is for. The branches for calls made on the capture
thread itself are left out: the only callback, `proc_tick`, "deliberately does NOT
stop the pump" (`capture_process.c`).

### FileWriter

One module for the three formats, because `action_wav.c`, `action_mp3.c` and
`action_ogg.c` have one shape and differ in how much of what was accepted is on
disk (`Out`), in the header (`WriteHeader`, wav), in what the encoder is made to
give up at the end (`Flush`) and in the tag (`StampTag`, mp3). `mx` is the loop's thread:
`Feed` is `render` and the ring write of `on_audio`, `Answer` what `on_audio` returns,
then `Finalize` to `Trim` are `close_action` and the shutdown. `wt` is the writer's
thread: `Look` reads the stop flag, `Read` the ring, `Push` is one write or one call of
the encoder, `Patch` the end of a drain. `disk` is what lies behind the header, frame
by frame; `data` is `data_bytes`, `mp3_bytes` or `file_bytes`; `at` is the file pointer.
`Heard` is what a player finds of the take, `Plays` all it plays: an mp3
whose tag is not written yet has `Lead` silent frames in front (the frame reserved for the tag,
the encoder's delay) and, once it was flushed, `Fill` behind, so a killed mp3 has the whole
take later by `Lead`; the properties say so where a wav and an ogg have each frame in place. The
tag may be refused by the disk, which is a failure, or not be made by LAME, which is not.
A write may fail with part of it on disk, every seek may fail, and the cut at the
end may. A write that overwrites the header in place is taken to happen or not to
happen. The process may be killed at any state, so an invariant of the file is what
every kill leaves; power failures, which lose what the system has not flushed, are
outside what the code promises.

The codecs are external: mp3 keeps up to `Delay` frames, Opus keeps `PreSkip`, libogg
puts out pages when it likes. Rates other than the codec's (the resampler) and an
`on_audio` after the stop, which the bus never makes, are left out. `create` that
fails has no state and is dropped by the bus at once.

### Update

A document, a signature and an executable are the number of the release they
belong to. `release` and `up` are the server: three uploads in any order. `disk` is
`apprecorder.exe`, `.new` and `.old`; `runs[p]` is which of them process p was started
from, which a rename takes along. `reg` is the record in the registry and `st[p]` the
copy a check works on: `BeginCheck` loads it whole, every answer of the server
(`NotModified`, `NoDocument`, `Unsigned`, `Verified`) saves it whole. `ui[p]` is where
the front end's thread is: `Launch` to `MeetsFloor` are `apr_update_startup` and the
floor test of `main.c`, `Accept` to `VerifyPayload` are `apr_update_stage`, `ExitStaged`
to `Record` the two renames, the undo and the marker. Every rename, deletion and
request may fail. Windows is external: it refuses to replace or delete the image of
a running process and renames it.

A build may be `Broken` (it ends before `main`) or `Refusing` (it ends after
`apr_update_startup`, in `floor_refused`). Left out: the five-minute spacing of checks
(a user may ask at any time), two checks at once in one process, the four registry
values' being written one by one, and what could fall between the load and the save of
the marker or of the toggle, which are one step each.  `--install` of the command line takes the same
steps as the window with the exit at once. Any number of processes may stage (`Stagers`), and
nothing keeps the second from writing over the `.new` the first has verified: `overtaken`, a history
variable no step reads, remembers whose file that has happened to. Kills are not bounded.

### Controller

`stack` holds the handlers that wait for an answer, outermost first: a handler that asks
runs a message loop, so whatever a message may do happens between two of its lines.
`q` is the posted messages, taken before input (`AtTray` needs it empty); a dialog
disables the frame and not the icon, whose menu starts, pauses and stops recordings. `loop`
is the recording thread as `Runner` leaves it, one step per notice. `closing` and `allow`
are the two halves of a close: WM_CLOSE under a recording asks for a stop and waits,
and `recording_finished` posts it again. WM_ENDSESSION waits for the files with a bound
and Windows may then end the process (`killed`), which is outside what the program can
promise. `MaxLost` notices cannot be posted. Left out: what is said, the icon's balloon,
languages.

### Documents

A document is the file whose session it is until it is edited, how many outputs it has
and whether it records the whole system. Commands look at the recording, ask, and act on
the answer; `stack` is as in `Controller`. `gid` counts graphs, `taken` is the one that is
recorded, `unsaved` remembers changes that are in no file and that nobody agreed to lose,
`stale` and `strayed` a bus of a graph that was destroyed and an adoption of something else
than what was asked about (`g_session` is a static that every load and every save writes).
The graph runs from `Arm` to `Halt`, steps of the recording thread, which come also between
the test and the edit of a handler (`AddOutput` then `AddAction`, `AskGraph` then
`EditCanvas`); the window pumps no messages there.

### Canvas

`graph` is sources, buses with the edges into them, and how many outputs each has. `canvas`
and `tree` are what the views have copied, `offered` what the menus show. Every handler is one
step, since none of them pumps messages: an edit by a key, a click, a command, a notice.
`Rebuilt` finds the current node, the end of a half-made edge and the caret again by identity.
`told` is what the last handler said of the half-made edge. Text is abstracted to the facts of
the graph it states. `Keys` is the logical order of the nodes, in which `find_node` looks for them.

### Session

`procs` is the process table with what the audio engine knows (`heard`), `file` the session
on the disk, field for field but for names and levels; `Foreign` files are those no build of
this version wrote. `Load` meets faults in the order of the code. `ResolveProcess` is path, then
name, then number; the number and the window's class choose among several. Window and command
line search separately and treat the report differently: the window shows the one of a first
search without consent and searches again, the command line searches once.

`session` and `report` are the statics `g_session` and `g_resolve_rep` of `controller.c`, which every
opening writes. The dialogs pump messages, so the icon can begin another opening inside one that
waits: `at` is where the innermost is, `below` the dialogs of those outside it. An answer acts on
what the statics hold by then, whoever put it there (`WindowAccepts` on the report, `Adopts` on the
session), also when the opening inside failed half-way through its file (`WindowOpensInVain`). So an
outer consent question may adopt the exclusion of an inner file whose own question was declined:
`Consented` asks that somebody agreed after that session was read, which the code ensures, and
`AskedEveryTime`, that an opening asked, is in section 5. `Inside` bounds the files opened from
inside a dialog, `MaxNested` how deep. Opening is refused while a recording runs, which is
`Documents`'s; the candidates of one search are all kept, where the code keeps 64
(`session_load.c:1092`).

### Outputs, CommandLine

A name is the template's expansion and the numbers put behind it. `Resolves` looks, `Creates`
makes the file, and others create in between (`OthersCreate`). A word of the command line has
two readings, the option it names and the value it is for the option before it: `ReadWord`
folds over them, `Prescan` looks for `--json` first.

### Cli

`at` walks through `apr_cli_run`: read, planned, checked, recording, unwinding, ended. The
machine may change until the plan is checked; from then on it is `SourceLink`'s. `keys` and
`handler` are the two other threads. `troubles` says what went wrong of what `RunState.incomplete`
only says that something did: an output not created, a source not started, something while it ran, a
file not closed. Abstracted: gains, formats and bit rates (an encoder
may refuse at either place, with 2 or 4), partial matches of names, the order in which several
faults of one plan are met. Ctrl+C, the duration and an empty graph are all `CliStops`.

## 3. What is checked

Every property is broken by at least one mutant of the code (`PROJECT.json`,
`mutants`; each mutant is defined before the definition it replaces).

| run | instance | states | shows |
|---|---|---|---|
| `ring` | ring of 4, one reader, writes of 1, 3, 5, nine frames | 0.65 M | no mixed frame is handed out; loss is counted exactly; `LossyStream` is implemented |
| `link` | two capture objects, three incarnations, two faults, starts that fail, fair | 0.61 M | no freed capture is used; a held exclusion records nothing; a stale one is torn down; a source comes back; the user is told |
| `runner` | one run, four requests, two give-ups, fair | 10 k | files are never freed open; a pause holds; pause, stop and destroy get there |
| `timeline` | ring of 3, blocks of 2, seven instants, one take | 6.3 M | every frame is where it belongs; none the ring holds is silent but for what a lap costs |
| `file` | a ring of 3, chunks of 2, seven frames, wav, mp3 and ogg, any seek and write failing | 0.20 M | a kill leaves a file that plays, and never less (an mp3 before its tag: later by its lead); no length is lost; nothing is missing untold |
| `capture` | one starter, two callers, six operations, two wedges, three closes, fair | 90 k | nothing freed under a thread; a stop leaves silence; calls return |
| `update` | two processes, both of which update, three releases of which one does not come up and one refuses, any number of kills | 5.6 M | a build that comes up is always left; what is put in place was promised, unless the other has begun to stage since; a half published release is seen again |
| `controller` | two takes, two pauses or resumes, one update, one dropped notice, dialogs two deep, fair | 0.97 M | no close loses a file; a pause is what it is called; an update waits; a stop is seen |
| `documents` | two session files, two outputs, dialogs two deep | 0.50 M | the graph outlives its take; changes are lost only if the user agreed |
| `canvas` | two sources, two buses, one edge and one output each, one notice | 0.52 M | views, menus and graph agree; a half-made edge is never begun or ended in silence |
| `cli` | three processes of which two live, two programs of one name, a microphone, 16 files of others, 23 command lines, two buses, three takes, one rival, openings two deep | 1.7 M | consent; the right process; the exit code; no file taken over; nothing pulled away |
| `session_loss` | as `cli` | (violation) | what was lost in the second search is not shown: section 5 |

Why the bounds are enough. The ring needs a write longer than it, a read that
spans the wrap, a reader lapped once and again while copying: four frames, writes
of five and nine frames in all give each. A source has at most one capture
attached and one being made; a third object is reached only by the faults the
runs count. The timeline's ring of three is lapped, padded and joined
again within seven instants with a pause among them. The capture's six operations
let a stop be given up, a start follow a start, and calls wait in between. The
writer of three frames' ring is lapped by blocks of four within seven frames, more
than once; the 32-bit limit is passed by the header alone at five frames and by the
data at seven; packets of three and a pre-skip of two end on and off a boundary.
Three releases let one be published while another is downloaded, and a swap follow a
swap; a second process starts, checks, stages, swaps and cleans up beside the first, and runs from
the file that is moved. Two dialogs inside one another are the least that lets a command act
on an answer given before another one acted; a third adds a copy of the same. Two takes
let the notices of one meet the next. One edge per bus, two sources and two buses let every
list be full, and a node that is current, pending or under the caret go before, after and
between its neighbours. Three processes of two programs and two folders give each verdict of
the search: two that match, one that has moved, one known only by its number.

The `cli` run uses a VIEW and a symmetry. The view drops what the rest of a command cannot
read: a process that was found is looked for again by its number only, the file is read again
only to tell what the graph has lost, nothing looks at the machine once the sources are
open, and no step looks at what the user was told; in the window's dialogs a file of `Foreign` is as
good as another, since it is in the session. The processes `p2` and `p3`, which no command line names,
are interchangeable. The files opened from inside a dialog are three: one that asks for an
exclusion, one found whatever runs, and one with a fault behind its sources. The `update` run takes
its two processes for interchangeable.

Deadlock is checked in `update`, where the opt-out can always be toggled, and in `documents`
and `canvas`, where the user can always do something more. Elsewhere every behaviour may stop
(a recording ends, a command exits, bounds are reached).

The type invariants are proved or were checked on these instances, and so were
`NeverAheadOfClaim`, `NoNeedlessLoss` and `HeldIntact` of the ring, `SingleProducer`,
`NoCaptureLost` and `LiveIsAttached` of the source, `OneLoop`, `WatchedOnlyWhileOpen` and `JoinedBeforeFree` of the
runner, `EdgesHaveEnds` of the canvas: section 4 names the theorems.

### Fairness

* `RingBuf`, `Timeline`, `FileWriter`, `Update`, `Documents`, `Canvas`, `Cli`: none; nothing there
  has to happen.
* `SourceLink`: weak fairness of the worker, the loop and time, as Windows
  schedules threads; strong fairness of `Spin`, because the loop holds the gate only
  for one `status()` per tick, so a waiting worker finds it open again and again;
  weak fairness of the target's return, under which `Recovers` says "unless it is
  gone for good" and excepts a start that failed (section 5) and a capture whose thread was given
  up, after which no recovery is possible. Faults are bounded: for ever
  failing, nothing recovers.
* `Runner`: weak fairness of threads inside a run and of a destroy once begun.
  Nobody has to ask for anything; a recording need not end.
* `CaptureThread`: weak fairness of the thread, of each caller inside an operation
  and of the owner inside open and close. A wedged drain need not ever return, and
  `CallsReturn` allows for it.

* `Controller`: weak fairness of the recording thread and of the window's taking of posted
  messages, since both are threads that Windows schedules. The user need not answer any
  dialog, ever, and `StopIsSeen` holds with one open: a modal dialog pumps.

### Environment assumed

* `timeline` excludes four events of the environment (`Unusual`), each of which
  breaks the alignment: see section 5.
* `capture` has one starter, because `source.c` starts and stops from one thread at a
  time, and clients that leave a capture alone once a stop was given up
  (`AfterStuck`); the owner closes when the clients are done.
* `runner`: a front end with a bounded number of requests.
* `controller`: `StopIsSeen` excepts a notice that was dropped and the end of the Windows
  session, `PauseIsWhatItSays` a notice that is on its way or was dropped.
* `cli`: `ExitIsTrue` is not asked of a process that Windows ended after a close.

## 4. What is proved

For every value of the constants that meets the named assumption of the module.

* **RingBufProofs** (`RingInvariant`, then seven theorems). The invariant says of the
  ring: each frame published and not claimed again is in its slot, and frames being
  written lie between the cursors; and of each reader, at each line of a call, that
  unless it has been lapped (`claim > pos + Cap`) what it has copied is right. The
  check of `claim` after the copy therefore decides: not lapped now means not lapped
  then. Assumed: `Cap` is positive. From it follows the refinement (`RingImplementsStream`):
  each step of the ring is a step of `LossyStream` or a stutter.
* **SourceProofs**, the worker (`OwnershipInvariant`). Each capture that is not freed is
  attached, in the worker's hand, or both at one line; the loop's pointer is valid
  while the count is raised, because the worker destroys only what it took before
  seeing the count at zero. `NoUseAfterFree` follows, and that there is one producer.
  With `Silent` (a link that is not LIVE, nor about to be, has no capture that pumps) so
  does `HeldIsSilent`.
* **SourceProofs**, the timeline (`RingInvariant`). Four counters must agree: what the capture has
  delivered since its own anchor (`Anchored`), what a capture that is not anchored yet stands for
  (`Unanchored`), what the padding has reached (`Detached`), and the index space of the ring
  (`InPlace`, from `Origin`). They do so at every step, so each fill is exactly as long as what is
  missing, and `RingInPlace` follows. Of the reader, `Reads` says that the next frame it takes is
  the one due at the first position it does not keep silent; `Aligned` follows. `NoFalseSilence`
  (theorem `NothingHeldIsSkipped`) needs also that wherever the cursor stands beyond the place of
  the reader, what lies between is overwritten or below `cost` (`Excused`): a pull that is
  lapped passes by at most a block more, and every other pull leaves its cursor where it reads on.
  For every size of ring, lookbehind, length and loss, one recording (`MaxTakes = 1`) and none of the
  events in `Unusual` (`RingInPlace` allows the short pause, "early"): each of these hypotheses is
  needed, as the counterexamples of section 5 show.
* **RecordingProofs**, the loop (`RunnerInvariant`). `in_run` is the mutex of the run; with each
  line of the run go the state of the files and of the worker. For `NoFrameWhilePaused`,
  `PauseInv` says at which lines the graph, the flag and the sentence about the pause agree;
  that nobody else is in the run comes from `OneLoop`. `NeverFreedOpen` is proved for
  `MaxRuns = 1`: `SoloInv` says that `loop_left` is clear while anybody is inside, so an owner that stops waiting
  has nobody to wait for; a second run may break that (section 5).
* **RecordingProofs**, the writer (`FileInvariant`). Everything the writer has taken (`Whole`: disk,
  then encoder, then what it holds) is one sequence, and until something fails that sequence is
  the take with a silent frame for each that was lost; a failure ends this, but not that the
  first `data` frames of the disk are right, which is what a player is told of. From it: every
  kill leaves a prefix of the take (`AlwaysPlays`; behind silence in an untagged mp3), never a shorter one than a kill before
  (`NeverTakenBack`). A finished file is whole because the stop flag is read before the ring is
  drained, so what the last drain left was nothing (`AsLongAsTheTake`, `UntoldIsWhole`). For every
  size of ring, chunk, packet and delay, and every failure of the disk.
* **CaptureThreadProofs**. `Token`: a job, the thread at work on it and its answer are
  one token, which exists only while the holder of the lock waits; hence no answer is
  left for the next caller. `Retired`: no handle, no thread; a close that reaches its
  verdict without an error has seen the thread leave. `PumpInv`: where the starter is says
  whether the pump may run and whether it has been told to stop; hence `StoppedIsQuiet` and
  `NobodyWaitsOnThePump`, assuming `Single`: at most one thread starts and stops a capture,
  and nobody begins anything after a stop that was given up. Section 5 has what happens
  without it.
* **UpdateProofs** (`UpdateInvariant`: `Types`, `Running`, `Kept`, `Signed`). That a good
  build is left (`AlwaysOneThatStarts`) is not inductive: why should the `.old` that a swap
  overwrites not have been the only good one? Because who moves files runs from one
  of them (`Running`), which Windows does not let go and which came up, and what is
  moved aside was running, so it is good (`Kept`). That no half published release is
  remembered (`NothingSilenced`) needs the same of every copy of the record on its way
  (`Signed`), since a slow check writes back what it loaded. Proved for any number of
  processes, all of which may stage, releases and kills; assumed: the first release
  comes up, and neither kind of bad build is the first. For `InPlaceAsPromised`, `Promised` says that what was
  promised is remembered to the end of the swap (`Wants`), that who was not overtaken finds `.new` as it
  was verified, or deleted (`Verbatim`), that at most one process writes `.new` (`Writer`) and at most one is between its two renames (`Mover`);
  no assumption is made on how many stage (section 5 has what `overtaken` excepts).
* **ControllerProofs** (`ControllerInvariant`). The flag `recording` and the recording thread
  come and go together, a close that is allowed has been posted and finds no recording, and
  when the frame is gone the thread is. `CloseLosesNothing` follows for any number of takes,
  dialogs and dropped notices, and so does `UpdateWaitsForTheTake`. `PauseIsWhatItSays` needs
  the queue (`PauseInv`): whoever knows the pause as the window does and reads the notices on
  their way to the end knows what is being written, or, between a change and its notice, the
  opposite (`Tells`, with a lemma each for a notice posted, one taken and any other message).
* **WindowProofs**, the document (`TakeKeepsItsGraph`, `NothingIsLostUnasked`). Every command that adopts
  a graph asks again whether it records after its last dialog; the invariant is inductive as it
  stands. The question about unsaved changes is asked once, before the dialogs of an open, so that
  nothing is lost needs to know who could change the document until they are answered: `Guarded`
  says that only an open ever waits on top of another handler (`Shape`), so a handler that edits
  has nothing below it, and that no open that has asked waits while there are changes.
  For dialogs nested to any depth.
* **WindowProofs**, the views (`Agreed`, `Told`; `ViewsOfOneGraph`, `NoSilentGesture`). Most handlers
  rebuild both views from the graph; `do_gain` writes the text of one node again, and `ViewsAgree`
  then needs that no other node states a level (`LevelIsStatedOnce`) and that no other node is that
  source's: a list in order of a finite set has each member at one place (`InOrderLists`: as many
  ranks as members). So `Agreed` carries that the graph is finite and has the shape the edits keep,
  and that the current node exists, without which what Delete removes is unknown. For
  `GestureIsTold`: nothing held stays nothing held over a rebuild, since no node is found where there
  was none. For graphs, lists and levels of any size.
* **CliProofs**, five arguments. `Consented`: a search without consent finds no usable
  exclusion (`UnusableWithoutConsent`), and the session in memory, whichever opening put it there, was
  last searched with the consent that `agreed` remembers (`AgreedBefore`, and `AgreedPlan` on the command
  line); openings may nest to any depth, of which only their dialogs matter (`WaitsInv`). `SavedIsFound`: the number is looked at before the window. `NeverOverwritten`: names are
  claimed among those nobody has. `NothingIsPulledAway` (`EndingInv`): which places a runner, an open
  file and the finished event can be in. `ExitIsTrue` (`ExitInv`): plan, graph and outputs are
  related from the reading of the plan to the exit, and the code is computed from the outputs and `troubles`. It
  assumes `ParseExits`, that parsing ends in one of three codes: parsing is a fold over the words,
  whose result for every word list needs an induction over data; TLC evaluates it on the `cli`
  instance. For any sets of processes, files, command lines and rivals.

Only model-checked: liveness (the prover has no fairness nor ENABLED): `Recovers`, `RecoveryIsTold`,
`StaleExclusionTornDown`, `PauseIsApplied`, `StopFinishes`, `DestroyEnds`, `CallsReturn`, `StopIsSeen`. Every
invariant and every action property that a passing run checks is a theorem. `EdgesHaveEnds` of the
canvas is not: what is left of a list of edges when one is cut needs an induction over data.

## 5. Where the code and its words differ

With a run of its own:

* `session_loss`: the window shows the report of a first search, which looks for no exclusion
  because nothing was agreed to yet; after the consent it searches again, and nobody looks at what
  that finds. An exclusion whose target does not run is left out of the recording, without a
  word; `ui/controller.c:866` says "THE REPORT IS SHOWN WHENEVER IT HAS ANYTHING TO SAY".

Stated in the modules and refuted by TLC with the constants given, without a
standing run:

| property | constants | behaviour |
|---|---|---|
| `RecoveredIsPumping` (SourceLink) | `SourceLink.cfg` | a start that fails inside a reattach is never made up for; the link is LIVE and records nothing (`source.c:381`) |
| `Aligned` (Timeline) | `Timeline.cfg`, `MaxTakes = 2` | a second take through one graph begins with the tail of the first: readers keep their place, the source its anchor and ring |
| `UpToDateIsTrue` (Update) | `Procs`, `Stagers = {p1}`, `MaxVersion = 2`, `Broken`, `Refusing = {}`, no symmetry | the ETag of a release is remembered when it is offered, not when it is installed; put off or lost with the process it is answered 304 from then on, though `docs/updating.md` says "the newer version is kept and will be installed then" |
| `SeekHeld` (RingBuf) | `RingBuf.cfg` | during a write longer than the ring, the second clamp of `rb_reader_seek` undoes the first; the next read counts the difference as lost |
| `OneBlockAtMost` (Timeline) | `Timeline.cfg` | a source that nobody filled for longer than the ring has a reader ahead of it; once it is lapped, `rb_skip` reaps first and then skips all it was behind, so the lap costs what the reader was ahead and not "at most one pull block" (`source.c:512`) |
| `ExclusionNeverDies` (SourceLink) | `SourceLink.cfg`, `ExcludeKinds <- ExcludeOnly`, `StartFaults = FALSE`, `MaxFaults = 0` | a tick between the detach and the store of HELD announces a death |
| `NoTouchAfterFree` (Runner) | `Runner.cfg`, `MaxAsks`, `MaxGiveUps = 0` | the loop's last statement signals an event of a runner that may have been freed: `in_run = 0` comes first, though `runner.c` calls it "LAST" |
| `PauseIsRemembered` (Runner) | `Runner.cfg`, `MaxAsks = 1`, `MaxGiveUps = 0` | a pause asked for between the publication of the run and the clearing of the flags is lost |
| `FinishedIsKept` (Runner) | `Runner.cfg`, `Callers = {c1, c2}`, `MaxRuns = 2`, `MaxAsks`, `MaxGiveUps = 0` | a run that is refused resets the finished event the run before has just set |
| `NeverFreedOpen` (Runner) | the same | a run that begins while another leaves keeps the other's `loop_left`, so destroy does not wait |
| `RingInPlace` (Timeline) | `Timeline.cfg`, `Unusual = {"unpolled"}` | a target that dies before its anchor was polled leaves frames in front of the timeline |
| `RingInPlace` (Timeline) | `Timeline.cfg`, `MaxTime = 8`, `Unusual = {"stamp"}` | a recovered capture whose first packet has no usable time stamp is written before the hole is filled |
| `Aligned` (Timeline) | `Timeline.cfg`, `Lookbehind = 2`, `Unusual = {"early"}` | a pause that ends before the source's first frame was due places it too early |
| `RingInPlace` (Timeline) | `Timeline.cfg`, `Capacity = 2`, `Unusual = {"gap"}` | a reported loss longer than the ring is filled with one ring of silence, and the rest of the recording is early |
| `HeaderKeepsUp` (FileWriter) | `Kinds = {"wav"}`, `Cap = 6`, `Chunk`, `Interval`, `Packet = 1`, `MaxBlock = 4`, `Header = 2`, `Short = 20`, `Delay`, `PreSkip = 0`, `MaxFrames = 6` | the header is patched only when a drain has emptied the ring, so while the writer catches up a kill loses more than "the last second" (`action_wav.c:52`) |
| `NobodyWaitsOnThePump` (CaptureThread) | `CaptureThread.cfg`, `AfterStuck = TRUE` | a start after a stop that was given up posts to a wedged thread and waits for ever with the lock held |
| `RetryRecovers` (CaptureThread) | `CaptureThread.cfg`, `Clients`, `Starters = {c1}`, `MaxOps = 2`, `MaxWedges = 1`, `MaxCloses = 2` | once a wait for the pump was given up, `close` can never succeed again, though `capture.h` describes the retry as the way out; the test of it uses the fake capture, which has no such flag |
| `StoppedIsQuiet` (CaptureThread) | `CaptureThread.cfg`, `Starters = {c1, c2}` | a start that runs into a stop resets the stop event |
| `OptOutPersists` (Update) | as `UpToDateIsTrue` | `--disable` while a check waits for the server: the check writes back the record it loaded, opt-out included (`update.c:730`) |
| `AlwaysOneThatServes` (Update) | the same, `Refusing = {2}` | the start-up that retires the `.old` comes before `floor_refused` (`main.c:298`): what is left is a build that refuses this Windows |
| `AlwaysAsPromised` (Update) | `Update.cfg` | between the hash and the rename of one process, another downloads over the same `.new`; killed there, it leaves the torn file the first puts in place |
| `FrozenWhileRecording` (Documents) | `Documents.cfg` | between the start of a recording and the arming of its graph a dialog opened before adds to it or renames in it (`ui_controller.h`: the graph is not touched) |
| `NothingJoinsARunningTake` (Documents) | `Documents.cfg` | an output is added to a graph that runs: `apr_graph_add_action` and `apr_bus_add_action` test the flag (`graph.c:361`, `bus.c:343`), the recording thread sets it (`graph.c:411`), and the add goes on (the same between `canvas_busy` and an edit by a key) |
| `AsAgreed` (Documents) | `Documents.cfg` | a session opened from inside the report of another overwrites the static both use: the answer to the first adopts the second's sources |
| `NoStaleBus` (Documents) | `Documents.cfg` | the bus an output dialog was opened for is gone with its graph when the answer comes |
| `CleanMeansSaved` (Documents) | `Documents.cfg` | File > New, answered once a recording has started, clears the name and the unsaved changes of a document that stays |
| `AskedEveryTime` (Session) | `Cli_loss.cfg` with `VIEW MCView` | a file with an exclusion is opened and agreed to inside the report of another; the answer to that report finds the second search's report, asks nothing and takes the exclusion over, though `controller.c:884` has it "asked EVERY time" |
| `UnclosedIsFour` (Cli) | the same | a file that could not be closed ends with 6; `command-line.md:199` and `cli.h:72` have it under 4 (`cli.c:2571`) |
| `UnstartedIsFive` (Cli) | the same | a source that would not start ends with 6; `command-line.md:200` and `cli.h:73` have it under 5 (`runner.c:399-405`) |
| `TreeSaysRecording` (Canvas) | `Canvas.cfg` | the tree is rebuilt for the notice of the start, before the buses are armed, and not again: no row says "recording" (`controller.c:1271`) |

Met while modelling, where the model says what the code does and no property is stated:

* `--json` prints `exitCode` 0 while the process exits with 6 when a session's source or bus was left
  out (`cli.c:2587` against `docs/command-line.md:201`); a dry run does the same.
* An mp3 of which LAME makes no tag (or one that does not fit) is finished without an error, longer than
  the take and late by the reserved frame and the encoder's delay (`action_mp3.c:468-478` only warns),
  against "a recording with a four-second hole still lines up sample-for-sample" (`action_mp3.c:47`).
* A search takes another instance as the exact one while the process that was saved is alive and
  has made no sound; it takes a process of the saved name and number at another path without calling it
  a substitution; two sources may be found as one process.
* Saving from the window describes the sources as they are by then: one that has exited loses
  everything but its number; the health of fake sources and the duration are lost.
* The command line opens a source of a session once per bus it feeds, and a source typed twice on
  one bus is saved as a doubled edge, which the window refuses.
* When a create loses its name to another recorder the bus keeps the name it asked for, though
  `outpath.h` says "NOTHING IS SILENT ABOUT IT".
* A half-made edge survives a replacement of the graph in which its source's number exists
  (`canvas.c` near 930); outputs are identified by their index, so removing an earlier one moves the
  current node; removing an output has no check of its own that the graph runs.
* A dropped STOPPED notice leaves the window recording for ever; the timer overwrites "finishing"; a
  window hidden when the notification area restarts without room for the icon is out of reach; a close
  does not ask about unsaved changes; a resume pressed before the PAUSED notice arrives is refused.

## 6. Not modelled

Floating-point code (mixing, resampling, drift), wording and layout, drawing, themes and
accessibility objects, COM calls, JSON text, HTTP and signatures, codecs, elapsed-time displays,
the lists of the command line, languages, matching a restarted application by its image path and
title during a recording, pids used again. The reason for each component is in `PROJECT.json`.

## 7. Plan

In this order, the most important behaviour first:

1. `LogRing`: the queue of `log.c`, many writers, one thread; flush and shutdown. After a shutdown
   that was given up `log.h`'s promise to "carry on" is the property to state first.
2. `Clock`: ticks to frames with floor and ceiling, as functions; theorems that
   `Expected` is monotone and exact on whole frames.
3. `Runner` composed with `Controller` and with `Cli` in place of the loop they abstract.
