-------------------------------- MODULE Cli --------------------------------
(***************************************************************************)
(* A command line, from its first word to the exit code (cli/cli.c).  A    *)
(* plan comes from what is typed or from a session file; it is checked     *)
(* against the machine as it is by then; it is written down, rehearsed or  *)
(* recorded; and one number tells a script what became of it.              *)
(*                                                                         *)
(* Three threads meet in a recording.  The main thread runs the loop and   *)
(* closes the files.  A thread reads the keyboard for the key that pauses, *)
(* and reaches the runner through a pointer.  Windows runs the control     *)
(* handler on a thread of its own and ends the process when it returns     *)
(* from a close.                                                           *)
(***************************************************************************)
EXTENDS Session, Outputs, CommandLine

CONSTANTS
    CommandLines,       \* what is typed: a command and its words
    Rivals,             \* names other recorders create files under
    MaxRivals           \* bound: files they create

VARIABLES
    plan,       \* AprCliPlan: [cmd, json, dry, missing, incomplete], the graph apart
    troubles,   \* what went wrong while it ran; RunState.incomplete says whether anything did
    runner,     \* "none", "live", "freed"
    keys,       \* the keyboard thread: "none", "waiting", "using"
    finished,   \* g_finished_event
    handler,    \* the control handler: "out", "in", "blocked" in a close, "back" from it
    exit,       \* the exit code
    printed     \* the exit code in the JSON document, Untyped when none was printed

signals == <<finished, handler>>
run     == <<troubles, runner, keys>>
verdict == <<exit, printed>>
files   == <<disk, outs>>
cliVars == <<plan, run, signals, verdict, files>>
vars    == <<machine, file, at, opening, cliVars>>

NoPlan == [cmd |-> "none", json |-> FALSE, dry |-> FALSE, missing |-> FALSE, incomplete |-> FALSE]

Init ==
    /\ SessionInit
    /\ plan = NoPlan /\ troubles = {} /\ runner = "none" /\ keys = "none"
    /\ finished = FALSE /\ handler = "out"
    /\ exit = OK /\ printed = Untyped /\ disk = <<>> /\ outs = <<>>

\* The command ends with this code.  A failure prints its JSON document, a success has
\* printed its own.
Ends(code) ==
    /\ at' = "ended" /\ exit' = code
    /\ printed' = IF ~plan'.json THEN Untyped ELSE code

----------------------------------------------------------------------------
(* The plan. *)

Key(b, i) == (b - 1) * MaxSources + i

\* Sources are nested in the buses they were typed for.
TypedGraph(p) ==
    LET keysOf(b) == {Key(b, i) : i \in DOMAIN p.buses[b].sources} IN
    [sources |-> [k \in UNION {keysOf(b) : b \in DOMAIN p.buses} |->
                    LET b == (k - 1) \div MaxSources + 1 IN
                    p.buses[b].sources[k - (b - 1) * MaxSources]],
     buses   |-> [b \in DOMAIN p.buses |->
                    [edges |-> keysOf(b),
                     out   |-> IF p.buses[b].outs = <<>> THEN Nothing ELSE p.buses[b].outs[1]]]]

PlanOf(p) == [cmd |-> p.cmd, json |-> p.json, dry |-> p.dry, missing |-> p.missing,
              incomplete |-> FALSE]

\* Every fault of a file is a plan that cannot be made, except that it is not there.
FaultCode(fault) == IF fault = "FILE_MISSING" THEN NOT_FOUND ELSE CONFIG

\* Consent is a configuration answer, not a missing thing.
Worst(rep, missing) ==
    CASE AsksForConsent(rep)                              -> CONFIG
      [] ~AsksForConsent(rep) /\ Hard(rep, missing) # {}  -> NOT_FOUND
      [] OTHER                                            -> OK

\* What apr_cli_parse makes of the command lines.
Plans == {Parse(line.cmd, line.words) : line \in CommandLines}

\* load_session.
Reads(p)     == p.exit = OK /\ p.cmd = "record" /\ p.session
LoadFault(p) == IF Reads(p) THEN Load(file) ELSE NONE
ReportOf(p)  == IF Reads(p) /\ LoadFault(p) = NONE THEN Resolve(file, p.consent) ELSE <<>>
PlanCode(p)  ==
    CASE p.exit # OK                         -> p.exit
      [] p.exit = OK /\ LoadFault(p) # NONE  -> FaultCode(LoadFault(p))
      [] OTHER                               -> Worst(ReportOf(p), p.missing)

\* apr_cli_run, as far as the plan; plan_from_session makes one of what was found.
CliReads(p) ==
    /\ at = "idle"
    /\ report' = ReportOf(p) /\ told' = report'
    /\ session' = IF Reads(p) /\ LoadFault(p) = NONE THEN Searched(file, report') ELSE Unread
    /\ plan' = [PlanOf(p) EXCEPT !.incomplete = Lost(report') # {}]
    /\ \/ /\ PlanCode(p) # OK \/ p.cmd \notin {"record", "save-session"}
          /\ Ends(PlanCode(p)) /\ UNCHANGED <<graph, agreed>>
       \/ /\ PlanCode(p) = OK /\ p.cmd \in {"record", "save-session"}
          /\ graph' = IF Reads(p) THEN GraphOf(session') ELSE TypedGraph(p)
          /\ agreed' = \/ p.consent
                       \/ ~Reads(p) /\ \E k \in DOMAIN graph'.sources :
                                         graph'.sources[k].kind = "exclude"
          /\ at' = "planned" /\ UNCHANGED verdict
    /\ UNCHANGED <<machine, file, below, run, signals, files>>

----------------------------------------------------------------------------
(* apr_cli_resolve: the plan against the machine. *)

\* Under --allow-missing a bus that nothing is left of is dropped with its output.
Dropped(buses) ==
    {b \in DOMAIN buses : plan.missing /\ plan.cmd = "record" /\ buses[b].edges = {}}
Kept(buses) ==
    IF Dropped(buses) = {} THEN buses ELSE SelectSeq(buses, LAMBDA b : b.edges # {})

\* A number is a process or it is not; a name is looked for among the processes that make
\* a sound, and an endpoint by its id before its name.
Found(s) ==
    CASE s.kind \in {"process", "exclude"} -> {s.what} \cap Running
      [] s.kind = "exe"                    -> {p \in Heard : NameOf[procs[p].path] = s.what}
      [] s.kind \in {"device", "named"}    -> IF s.what \in plugged THEN {s.what}
                                              ELSE {e \in plugged : LabelOf[e] = s.what}
      [] OTHER                             -> {s.what}

Pinned(s) ==
    [kind |-> CASE s.kind = "exe" -> "process" [] s.kind = "named" -> "device" [] OTHER -> s.kind,
     what |-> TheOne(Found(s))]

Feeding(buses) == UNION {buses[b].edges : b \in DOMAIN buses}
Fed(buses)     == {k \in DOMAIN graph.sources : k \in Feeding(buses)}

Refusals(buses) ==
    IF DOMAIN buses = {} \/ \E b \in DOMAIN buses : buses[b].edges = {} \/ buses[b].out = Nothing
    THEN {CONFIG}
    ELSE (IF \E k \in Feeding(buses) : Cardinality(Found(graph.sources[k])) # 1
            THEN {NOT_FOUND} ELSE {})
         \cup (IF Duplicates(buses) THEN {CONFIG} ELSE {})

\* An output can be refused too: by its encoder, or because nothing can be created where
\* it goes.  Which fault is met first depends on the order they were typed in.
CliChecks ==
    /\ at = "planned"
    /\ LET buses == Kept(graph.buses)
           bad   == Refusals(buses)
       IN  /\ plan' = [plan EXCEPT !.incomplete = @ \/ Dropped(graph.buses) # {}]
           /\ \/ /\ bad = {} /\ at' = "checked"
                 /\ graph' = [sources |-> [k \in Fed(buses) |-> Pinned(graph.sources[k])],
                              buses   |-> buses]
                 /\ UNCHANGED verdict
              \/ /\ \E code \in IF bad = {} THEN {CONFIG, OUTPUT} ELSE bad : Ends(code)
                 /\ UNCHANGED graph
    /\ UNCHANGED <<machine, file, below, session, report, told, agreed, run, signals, files>>

----------------------------------------------------------------------------
(* save-session, and --dry-run. *)

\* The file has each source once, whatever buses it was typed for.
Interned(g) ==
    LET alike(k) == {j \in DOMAIN g.sources : g.sources[j] = g.sources[k]}
        first(k) == CHOOSE j \in alike(k) : \A i \in alike(k) : j <= i
    IN
    [sources |-> [k \in {first(j) : j \in DOMAIN g.sources} |-> g.sources[k]],
     buses   |-> [b \in DOMAIN g.buses |->
                    [g.buses[b] EXCEPT !.edges = {first(k) : k \in @}]]]

CliSaves ==
    /\ at = "checked" /\ plan.cmd = "save-session"
    /\ SaveSession(Interned(graph).sources, Interned(graph).buses)
    /\ \E wrote \in BOOLEAN :
          /\ ~wrote => file' = file
          /\ UNCHANGED plan /\ Ends(IF wrote THEN OK ELSE OUTPUT)
    /\ UNCHANGED <<machine, opening, run, signals, files>>

\* do_dry_run and the end of apr_cli_run: the document says 0, whatever was left out.
CliDryRun ==
    /\ at = "checked" /\ plan.cmd = "record" /\ plan.dry
    /\ at' = "ended"
    /\ printed' = IF plan.json THEN OK ELSE Untyped
    /\ exit' = IF plan.incomplete THEN INCOMPLETE ELSE OK
    /\ UNCHANGED <<machine, file, opening, plan, run, signals, files>>

----------------------------------------------------------------------------
(* Recording. *)

\* stop_signal_open and build_graph: a source that cannot be opened ends it.  The keyboard
\* is read when there is one.
CliRecords ==
    /\ at = "checked" /\ plan.cmd = "record" /\ ~plan.dry
    /\ finished' = FALSE /\ handler' = "in"
    /\ \/ /\ at' = "opening" /\ outs' = [b \in DOMAIN graph.buses |-> Pending]
          /\ runner' = "live" /\ keys' \in {"none", "waiting"} /\ UNCHANGED exit
       \/ /\ at' = "unwinding" /\ exit' \in {CAPTURE, CONFIG, INTERNAL}
          /\ UNCHANGED <<outs, runner, keys>>
    /\ UNCHANGED <<machine, file, opening, plan, troubles, printed, disk>>

\* The outputs are opened bus by bus, each named and then created.
CliOpens(b) ==
    /\ at = "opening" /\ \A c \in DOMAIN outs : c < b => outs[c].state \in {"open", "failed"}
    /\ Resolves(b, graph.buses[b].out) \/ Creates(b)
    /\ UNCHANGED <<machine, file, at, opening, plan, run, signals, verdict>>

OthersRecord(n) ==
    /\ at = "opening" /\ Cardinality({m \in DOMAIN disk : disk[m] = 0}) < MaxRivals
    /\ OthersCreate(n)
    /\ UNCHANGED <<machine, file, at, opening, plan, run, signals, verdict>>

\* An output that would not open, or a source that would not start, is said and left out
\* (apr_runner_run).
CliStarts ==
    /\ at = "opening" /\ \A b \in DOMAIN outs : outs[b].state \in {"open", "failed"}
    /\ at' = "recording"
    /\ LET failed == IF \E b \in DOMAIN outs : outs[b].state = "failed" THEN {"create"} ELSE {}
       IN  troubles' \in {failed, failed \cup {"start"}}
    /\ UNCHANGED <<machine, file, opening, plan, runner, keys, signals, verdict, files>>

\* A source dies, or an output stops taking audio; what it has is kept.
Trouble ==
    /\ at = "recording" /\ "run" \notin troubles /\ troubles' = troubles \cup {"run"}
    /\ UNCHANGED <<machine, file, at, opening, plan, runner, keys, signals, verdict, files>>

Closed == [b \in DOMAIN outs |->
             IF outs[b].state = "open" THEN [outs[b] EXCEPT !.state = "closed"] ELSE outs[b]]

\* The time is up, or Ctrl+C or a close was seen: the loop closes every file.  A close may fail.
CliStops ==
    /\ at = "recording" /\ at' = "stopped" /\ outs' = Closed
    /\ troubles' \in {troubles, troubles \cup {"close"}}
    /\ UNCHANGED <<machine, file, opening, plan, runner, keys, signals, verdict, disk>>

\* Mutant of KeysClose: the keyboard thread is told to stop and not waited for.
KeysClose_mutant ==
    /\ at = "stopped" /\ at' = "unkeyed"
    /\ UNCHANGED <<machine, file, opening, plan, troubles, runner, keys, signals, verdict, files>>

\* console_keys_close: the keyboard thread is waited for before the runner is freed.
KeysClose ==
    /\ at = "stopped" /\ keys \in {"none", "waiting"}
    /\ keys' = "none" /\ at' = "unkeyed"
    /\ UNCHANGED <<machine, file, opening, plan, troubles, runner, signals, verdict, files>>

\* Mutant of Result: trouble is looked at before whether anything was opened.
Result_mutant == IF troubles # {} THEN INCOMPLETE ELSE IF Opened = {} THEN OUTPUT ELSE OK

\* The worst of what happened, and the summary that goes with it.
Result ==
    CASE Opened = {} /\ outs # <<>>             -> OUTPUT
      [] Opened # {} /\ troubles # {}           -> INCOMPLETE
      [] OTHER                                  -> OK

CliReports ==
    /\ at = "unkeyed" /\ runner' = "freed" /\ at' = "unwinding"
    /\ exit' = Result /\ printed' = IF plan.json THEN Result ELSE Untyped
    /\ UNCHANGED <<machine, file, opening, plan, troubles, keys, signals, files>>

\* An access violation anywhere in the recording: the handler of main makes it unwind.
CliFaults ==
    /\ at \in {"opening", "recording"} /\ at' = "unwinding" /\ exit' = INTERNAL
    /\ UNCHANGED <<machine, file, opening, plan, run, signals, printed, files>>

\* The __finally of do_record: the graph goes first, and closes what is open.
CliUnwinds ==
    /\ at = "unwinding" /\ outs' = Closed /\ at' = "closed"
    /\ UNCHANGED <<machine, file, opening, plan, run, signals, verdict, disk>>

\* stop_signal_close, and the end of apr_cli_run: what a session lost is told last.
CliLeaves ==
    /\ at = "closed" /\ finished' = TRUE
    /\ handler' = IF handler = "in" THEN "out" ELSE handler
    /\ exit' = IF exit = OK /\ plan.incomplete THEN INCOMPLETE ELSE exit
    /\ at' = "ended"
    /\ UNCHANGED <<machine, file, opening, plan, run, printed, files>>

\* Another command, after one that wrote a session file.
CliAgain ==
    /\ at = "ended" /\ plan.cmd = "save-session"
    /\ ToIdle /\ plan' = NoPlan /\ exit' = OK /\ printed' = Untyped
    /\ UNCHANGED <<machine, file, run, signals, files>>

----------------------------------------------------------------------------
(* The other threads. *)

\* The pointer to the runner is read; it is used after that.
KeyPressed ==
    /\ keys = "waiting" /\ runner = "live" /\ keys' = "using"
    /\ UNCHANGED <<machine, file, at, opening, plan, troubles, runner, signals, verdict, files>>

KeyUsed ==
    /\ keys = "using" /\ keys' = "waiting"
    /\ UNCHANGED <<machine, file, at, opening, plan, troubles, runner, signals, verdict, files>>

\* A close, a logoff or a shutdown.
CloseEvent ==
    /\ handler = "in" /\ handler' = "blocked"
    /\ UNCHANGED <<machine, file, at, opening, plan, run, finished, verdict, files>>

\* The handler returns when the files are closed, without a timeout; Windows ends the
\* process then.
HandlerReturns ==
    /\ handler = "blocked" /\ finished /\ handler' = "back" /\ at' = "ended"
    /\ UNCHANGED <<machine, file, opening, plan, run, finished, verdict, files>>

----------------------------------------------------------------------------
Next ==
    \/ SessionNext /\ UNCHANGED cliVars
    \/ \E p \in Plans : CliReads(p)
    \/ CliChecks \/ CliSaves \/ CliDryRun \/ CliRecords
    \/ \E b \in DOMAIN outs : CliOpens(b)
    \/ \E n \in Rivals : OthersRecord(n)
    \/ CliStarts \/ Trouble \/ CliStops \/ KeysClose \/ CliReports \/ CliFaults
    \/ CliUnwinds \/ CliLeaves \/ CliAgain
    \/ KeyPressed \/ KeyUsed \/ CloseEvent \/ HandlerReturns

Spec == Init /\ [][Next]_vars

----------------------------------------------------------------------------
(* Properties. *)

\* What was asked for is what is on the disk: no source was left out, of a file or of the
\* graph it became, and every output has its file.
Complete(g) ==
    /\ Opened = DOMAIN g.buses
    /\ report # <<>> => /\ DOMAIN g.buses = DOMAIN file.buses
                        /\ \A b \in DOMAIN g.buses : g.buses[b].edges = file.buses[b].edges

\* A command that recorded, which Windows has not ended.
Recorded == at = "ended" /\ plan.cmd = "record" /\ ~plan.dry /\ handler # "back"

\* A script that looks at nothing but the exit code is not misled about the files: 0 is
\* the whole recording, without trouble; 6 has something to play; with 1 to 5 there is
\* nothing, and nothing half made.  So a file that could not be closed and a source that
\* would not start end with 6 when there is a file, not with the 4 and the 5 that
\* command-line.md and cli.h have for them.
ExitIsTrue ==
    Recorded =>
        /\ exit = OK => troubles = {} /\ Complete(graph)
        /\ exit = INCOMPLETE => Opened # {}
        /\ exit \in {USAGE, CONFIG, NOT_FOUND, OUTPUT, CAPTURE} => Opened = {}
        /\ troubles \cap {"start", "close"} # {} /\ Opened # {} => exit \in {INCOMPLETE, INTERNAL}

\* "A file could not be created or closed", "a source could not be opened or started"
\* (cli.h, command-line.md): 4 and 5.
UnclosedIsFour == Recorded /\ "close" \in troubles => exit \in {OUTPUT, INTERNAL}
UnstartedIsFive == Recorded /\ "start" \in troubles => exit \in {CAPTURE, INTERNAL}

\* A command line is refused as one that cannot be read, or that cannot be recorded
\* (cli.h: 1 and 2).
ParseExits == \A p \in Plans : p.exit \in {OK, USAGE, CONFIG}

\* The process is not let go while a file is open, and the keyboard thread never holds a
\* runner that is gone: a close blocks until the files are closed, and the reader is
\* joined before the runner is freed (cli.c).
NothingIsPulledAway ==
    /\ handler = "back" => Writing = {}
    /\ keys = "using" => runner # "freed"

=============================================================================
