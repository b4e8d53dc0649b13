----------------------------- MODULE CliProofs -----------------------------
(***************************************************************************)
(* Theorems about Cli, for any set of processes, files, command lines and  *)
(* names, and openings nested to any depth: nothing is recorded of         *)
(* everything but one process unless that was agreed to after the session  *)
(* was read; a source that is still there is found again; no file on the   *)
(* disk is taken over; nothing is pulled away from under the thread that   *)
(* reads the keyboard or the one Windows waits for; and the exit code is   *)
(* true.                                                                   *)
(***************************************************************************)
EXTENDS Cli, SequenceTheorems, TLAPS

----------------------------------------------------------------------------
(* The window. *)

\* Every opening that waits does so in one of its dialogs.
WaitsInv == below \in Seq(Dialogs)

Windowed == {"idle", "asking", "consenting", "shown"}

LEMMA WaitsTyped == WaitsInv => Waits \in Seq(Dialogs)
  BY EmptySeq, AppendProperties DEF WaitsInv, Waits

\* An opening returns to the window, or to a dialog outside it.
LEMMA ReturnsInside ==
    ASSUME NEW waits \in Seq(Dialogs), ReturnsTo(waits, "shown")
    PROVE  below' \in Seq(Dialogs) /\ at' \in Windowed
  <1>1. CASE waits = <<>>
    BY <1>1 DEF ReturnsTo, Windowed
  <1>2. CASE waits # <<>>
    <2>1. Len(waits) \in 1..Len(waits)
      BY <1>2, EmptySeq
    <2>2. waits[Len(waits)] \in Dialogs
      BY <2>1, ElementOfSeq
    <2>3. SubSeq(waits, 1, Len(waits) - 1) \in Seq(Dialogs)
      BY <2>1, SubSeqProperties
    <2> QED  BY <1>2, <2>2, <2>3 DEF ReturnsTo, Windowed, Dialogs
  <1> QED  BY <1>1, <1>2

\* The machine changes nothing of an opening, and the window stays the window.
LEMMA WindowStep ==
    ASSUME WaitsInv, SessionNext
    PROVE  /\ WaitsInv'
           /\ UNCHANGED <<file, at, opening>> \/ (at \in Windowed /\ at' \in Windowed)
  <1>1. CASE \/ \E p \in Pids, path \in Paths, class \in Classes \cup {Nothing} :
                   Start(p, path, class)
             \/ \E p \in Pids : Sound(p) \/ Exit(p)
             \/ \E e \in Endpoints : Plug(e)
    BY <1>1 DEF Start, Sound, Exit, Plug, opening, WaitsInv
  <1>2. CASE \E f \in Foreign : Edited(f)
    BY <1>2 DEF Edited, opening, WaitsInv, Windowed
  <1>3. ASSUME NEW f, WindowOpens(f)
        PROVE  WaitsInv' /\ at \in Windowed /\ at' \in Windowed
    <2>1. at \in Windowed
      BY <1>3 DEF WindowOpens, Windowed, Dialogs
    <2>2. CASE ReturnsTo(Waits, "shown")
      BY <2>1, <2>2, WaitsTyped, ReturnsInside DEF WaitsInv
    <2>3. CASE at' = "asking" /\ below' = Waits
      BY <2>1, <2>3, WaitsTyped DEF WaitsInv, Windowed
    <2> QED  BY <1>3, <2>2, <2>3 DEF WindowOpens
  <1>4. ASSUME NEW f, WindowOpensInVain(f)
        PROVE  WaitsInv' /\ at \in Windowed /\ at' \in Windowed
    BY <1>4 DEF WindowOpensInVain, WaitsInv, Windowed, Dialogs
  <1>5. CASE WindowAccepts
    <2>1. CASE at' = "consenting" /\ UNCHANGED below
      BY <1>5, <2>1 DEF WindowAccepts, WaitsInv, Windowed
    <2>2. CASE ReturnsTo(below, "shown")
      BY <1>5, <2>2, ReturnsInside DEF WindowAccepts, WaitsInv, Windowed
    <2> QED  BY <1>5, <2>1, <2>2 DEF WindowAccepts
  <1>6. CASE WindowConsents
    BY <1>6, ReturnsInside DEF WindowConsents, WaitsInv, Windowed
  <1>7. CASE WindowDeclines
    <2>1. CASE ToIdle
      BY <1>7, <2>1 DEF WindowDeclines, ToIdle, WaitsInv, Windowed, Dialogs
    <2>2. CASE ReturnsTo(below, "shown")
      BY <1>7, <2>2, ReturnsInside DEF WindowDeclines, WaitsInv, Windowed, Dialogs
    <2> QED  BY <1>7, <2>1, <2>2 DEF WindowDeclines
  <1>8. CASE WindowSaves
    BY <1>8 DEF WindowSaves, ToIdle, WaitsInv, Windowed
  <1> QED  BY <1>1, <1>2, <1>3, <1>4, <1>5, <1>6, <1>7, <1>8 DEF SessionNext

LEMMA WaitsInit == Init => WaitsInv
  BY EmptySeq DEF Init, SessionInit, WaitsInv

LEMMA WaitsStep == WaitsInv /\ [Next]_vars => WaitsInv'
  <1> SUFFICES ASSUME WaitsInv, [Next]_vars PROVE WaitsInv'
    OBVIOUS
  <1>1. CASE SessionNext
    BY <1>1, WindowStep
  <1>2. CASE UNCHANGED below
    BY <1>2 DEF WaitsInv
  <1>3. CASE CliAgain
    BY <1>3 DEF CliAgain, ToIdle, WaitsInv
  <1>4. CASE (\E p \in Plans : CliReads(p)) \/ CliChecks \/ CliSaves \/ CliDryRun \/ CliRecords
    BY <1>2, <1>4 DEF CliReads, CliChecks, CliSaves, CliDryRun, CliRecords, opening
  <1>5. CASE (\E b \in DOMAIN outs : CliOpens(b)) \/ (\E n \in Rivals : OthersRecord(n))
    BY <1>2, <1>5 DEF CliOpens, OthersRecord, opening
  <1>6. CASE CliStarts \/ Trouble \/ CliStops \/ KeysClose \/ CliReports \/ CliFaults
    BY <1>2, <1>6 DEF CliStarts, Trouble, CliStops, KeysClose, CliReports, CliFaults, opening
  <1>7. CASE CliUnwinds \/ CliLeaves \/ KeyPressed \/ KeyUsed \/ CloseEvent \/ HandlerReturns
    BY <1>2, <1>7
       DEF CliUnwinds, CliLeaves, KeyPressed, KeyUsed, CloseEvent, HandlerReturns, opening
  <1>8. CASE UNCHANGED vars
    BY <1>2, <1>8 DEF vars, opening
  <1> QED  BY <1>1, <1>3, <1>4, <1>5, <1>6, <1>7, <1>8 DEF Next

----------------------------------------------------------------------------
(* Consent. *)

Usables(doc) == DOMAIN doc.found \ Lost(doc.found)

\* In a dialog, an exclusion of the session was found only if it was agreed to since the
\* session was read; and so with the plan of a command.
AgreedBefore ==
    at \in Dialogs => \A k \in Usables(session) : session.sources[k].kind = "exclude" => agreed
AgreedPlan == at = "planned" /\ Excludes(graph) => agreed

ConsentInv == AgreedBefore /\ AgreedPlan

\* Without consent no source that excludes a process is usable.
LEMMA UnusableWithoutConsent ==
    ASSUME NEW doc, NEW c, ~c, NEW k \in Usables(Searched(doc, Resolve(doc, c)))
    PROVE  doc.sources[k].kind # "exclude"
  <1>1. k \in DOMAIN doc.sources /\ Resolve(doc, c)[k] = ResolveSource(doc.sources[k], c)
    BY DEF Usables, Searched, Resolve
  <1>2. Resolve(doc, c)[k].status \in Usable
    BY DEF Usables, Searched, Lost
  <1>3. Resolve(doc, c)[k].status # "NEEDS_CONSENT"
    BY <1>2 DEF Usable
  <1> QED  BY <1>1, <1>3 DEF ResolveSource, Is

\* A graph has an exclusion where its session has one that was found.
LEMMA ExcludedIsFound ==
    ASSUME NEW doc, Excludes(GraphOf(doc))
    PROVE  \E k \in Usables(doc) : doc.sources[k].kind = "exclude"
  BY DEF Excludes, GraphOf, Usables

\* What is found without consent has nothing in it that needs one.
LEMMA GraphWithoutConsent ==
    ASSUME NEW doc, NEW c, ~c
    PROVE  ~Excludes(GraphOf(Searched(doc, Resolve(doc, c))))
  <1> SUFFICES ASSUME Excludes(GraphOf(Searched(doc, Resolve(doc, c)))) PROVE FALSE
    OBVIOUS
  <1>1. PICK k \in Usables(Searched(doc, Resolve(doc, c))) :
              Searched(doc, Resolve(doc, c)).sources[k].kind = "exclude"
    BY ExcludedIsFound
  <1> QED  BY <1>1, UnusableWithoutConsent DEF Searched

LEMMA NoGraphExcludesNothing == ~Excludes(NoGraph)
  BY DEF Excludes, NoGraph

\* What a step that decides nothing leaves alone.
LEMMA ConsentUndecided ==
    ASSUME ConsentInv, UNCHANGED <<session, agreed, graph>>,
           at' \notin Dialogs \cup {"planned"} \/ at' = at
    PROVE  ConsentInv'
  BY DEF ConsentInv, AgreedBefore, AgreedPlan, Usables, Lost, Excludes

LEMMA ConsentIdle == ToIdle => ConsentInv'
  BY DEF ToIdle, ConsentInv, AgreedBefore, AgreedPlan, Dialogs

LEMMA ConsentInit == Init => ConsentInv
  BY DEF Init, SessionInit, ConsentInv, AgreedBefore, AgreedPlan, Dialogs

\* What a step takes over was agreed to.
Agrees == graph' # graph /\ Excludes(graph') => agreed'

LEMMA ConsentSession ==
    ASSUME WaitsInv, ConsentInv, SessionNext
    PROVE  ConsentInv' /\ Agrees
  <1>0. at' # "planned" \/ UNCHANGED <<file, at, opening>>
    BY WindowStep DEF Windowed
  <1>1. CASE UNCHANGED <<file, at, opening>>
    BY <1>1, ConsentUndecided DEF opening, Agrees
  <1>2. CASE \E f \in Foreign : Edited(f)
    BY <1>2, ConsentUndecided DEF Edited, opening, Agrees
  <1>3. ASSUME NEW f, WindowOpens(f)
        PROVE  ConsentInv' /\ Agrees
    <2>1. session' = Searched(f, Resolve(f, FALSE))
      BY <1>3 DEF WindowOpens
    <2>2. \A k \in Usables(session)' : session'.sources[k].kind # "exclude"
      BY <2>1, UnusableWithoutConsent DEF Usables, Searched
    <2>3. AgreedBefore'
      BY <2>2 DEF AgreedBefore
    <2>4. graph' = graph \/ ~Excludes(graph')
      BY <1>3, <2>1, GraphWithoutConsent DEF WindowOpens, Adopts
    <2>5. CASE at' # "planned"
      BY <2>3, <2>4, <2>5 DEF ConsentInv, AgreedPlan, Agrees
    <2> QED  BY <1>0, <1>1, <2>5
  <1>4. ASSUME NEW f, WindowOpensInVain(f)
        PROVE  ConsentInv' /\ Agrees
    <2>1. at' = at /\ at \in Dialogs /\ graph' = graph
      BY <1>4 DEF WindowOpensInVain
    <2>2. CASE UNCHANGED <<session, agreed>>
      BY <2>1, <2>2, ConsentUndecided DEF Agrees
    <2>3. CASE session' \in ReadUpToFault(f)
      <3>1. session'.found = <<>>
        BY <2>3 DEF ReadUpToFault, Unread, Searched
      <3>2. Usables(session)' = {}
        BY <3>1 DEF Usables
      <3> QED  BY <2>1, <3>2 DEF ConsentInv, AgreedBefore, AgreedPlan, Dialogs, Agrees
    <2> QED  BY <1>4, <2>2, <2>3 DEF WindowOpensInVain
  <1>5. CASE WindowAccepts
    <2>1. at = "asking" /\ UNCHANGED <<session, agreed>>
      BY <1>5 DEF WindowAccepts
    <2>2. AgreedBefore'
      BY <2>1 DEF ConsentInv, AgreedBefore, Dialogs, Usables, Lost
    <2>3. graph' = graph \/ graph' = GraphOf(session)
      BY <1>5 DEF WindowAccepts, Adopts
    <2>4. Agrees
      BY <2>1, <2>3, ExcludedIsFound DEF Agrees, ConsentInv, AgreedBefore, Dialogs
    <2>5. CASE at' # "planned"
      BY <2>2, <2>4, <2>5 DEF ConsentInv, AgreedPlan
    <2> QED  BY <1>0, <1>1, <2>5
  <1>6. CASE WindowConsents
    BY <1>6 DEF WindowConsents, ConsentInv, AgreedBefore, AgreedPlan, Agrees
  <1>7. CASE ToIdle
    BY <1>7, ConsentIdle, NoGraphExcludesNothing DEF ToIdle, Agrees
  <1>8. CASE WindowDeclines
    <2>1. CASE UNCHANGED <<session, report, told, agreed, graph>>
      <3>1. at \in Dialogs
        BY <1>8 DEF WindowDeclines
      <3>2. CASE at' # "planned"
        BY <2>1, <3>1, <3>2 DEF ConsentInv, AgreedBefore, AgreedPlan, Usables, Lost, Agrees
      <3> QED  BY <1>0, <1>1, <3>2
    <2> QED  BY <1>7, <1>8, <2>1 DEF WindowDeclines
  <1>9. CASE WindowSaves
    BY <1>7, <1>9 DEF WindowSaves
  <1>10. CASE \/ \E p \in Pids, path \in Paths, class \in Classes \cup {Nothing} :
                    Start(p, path, class)
              \/ \E p \in Pids : Sound(p) \/ Exit(p)
              \/ \E e \in Endpoints : Plug(e)
    BY <1>1, <1>10 DEF Start, Sound, Exit, Plug
  <1> QED  BY <1>2, <1>3, <1>4, <1>5, <1>6, <1>8, <1>9, <1>10 DEF SessionNext

\* A plan of the command line, and one from a file that was read.
LEMMA ConsentReads ==
    ASSUME ConsentInv, NEW p, CliReads(p)
    PROVE  ConsentInv' /\ Agrees
  <1>1. at' \in {"planned", "ended"}
    BY DEF CliReads, Ends
  <1>2. CASE UNCHANGED <<graph, agreed>> /\ at' = "ended"
    BY <1>2 DEF ConsentInv, AgreedBefore, AgreedPlan, Dialogs, Agrees
  <1>3. CASE /\ PlanCode(p) = OK
             /\ graph' = IF Reads(p) THEN GraphOf(session') ELSE TypedGraph(p)
             /\ agreed' = \/ p.consent
                          \/ ~Reads(p) /\ \E k \in DOMAIN graph'.sources :
                                            graph'.sources[k].kind = "exclude"
    <2>1. Excludes(graph') => agreed'
      <3>1. CASE ~Reads(p) \/ p.consent
        BY <1>3, <3>1 DEF Excludes
      <3>2. CASE Reads(p) /\ ~p.consent
        <4>1. LoadFault(p) = NONE
          BY <1>3, <3>2 DEF PlanCode, Reads, FaultCode, OK, NOT_FOUND, CONFIG
        <4>2. session' = Searched(file, Resolve(file, p.consent))
          BY <3>2, <4>1 DEF CliReads, ReportOf
        <4> QED  BY <1>3, <3>2, <4>2, GraphWithoutConsent
      <3> QED  BY <3>1, <3>2
    <2> QED  BY <1>1, <2>1 DEF ConsentInv, AgreedBefore, AgreedPlan, Dialogs, Agrees, Excludes
  <1> QED  BY <1>2, <1>3 DEF CliReads, Ends

\* The plan that passed is made of the sources it had: what excludes a process still does.
LEMMA ConsentChecks ==
    ASSUME ConsentInv, CliChecks
    PROVE  ConsentInv' /\ Agrees
  <1>1. at = "planned" /\ at' \in {"checked", "ended"} /\ agreed' = agreed
    BY DEF CliChecks, Ends
  <1>2. ConsentInv'
    BY <1>1 DEF ConsentInv, AgreedBefore, AgreedPlan, Dialogs
  <1>3. CASE UNCHANGED graph
    BY <1>2, <1>3 DEF Agrees
  <1>4. CASE \E buses : graph' = [sources |-> [k \in Fed(buses) |-> Pinned(graph.sources[k])],
                                  buses   |-> buses]
    <2>1. PICK buses : graph' = [sources |-> [k \in Fed(buses) |-> Pinned(graph.sources[k])],
                                 buses   |-> buses]
      BY <1>4
    <2>2. ASSUME NEW k \in DOMAIN graph'.sources, graph'.sources[k].kind = "exclude"
          PROVE  agreed'
      <3>1. k \in DOMAIN graph.sources /\ graph'.sources[k] = Pinned(graph.sources[k])
        BY <2>1, <2>2 DEF Fed
      <3>2. graph.sources[k].kind = "exclude"
        BY <2>2, <3>1 DEF Pinned
      <3> QED  BY <1>1, <3>1, <3>2 DEF ConsentInv, AgreedPlan, Excludes
    <2> QED  BY <1>2, <2>2 DEF Agrees, Excludes
  <1> QED  BY <1>3, <1>4 DEF CliChecks

LEMMA ConsentStep ==
    ASSUME WaitsInv, ConsentInv, [Next]_vars
    PROVE  ConsentInv' /\ Agrees
  <1>1. CASE SessionNext
    BY <1>1, ConsentSession
  <1>2. CASE \E p \in Plans : CliReads(p)
    BY <1>2, ConsentReads
  <1>3. CASE CliChecks
    BY <1>3, ConsentChecks
  <1>4. CASE CliAgain
    BY <1>4, ConsentIdle, NoGraphExcludesNothing DEF CliAgain, ToIdle, Agrees
  <1>5. CASE /\ UNCHANGED <<session, agreed, graph>>
             /\ at' \notin Dialogs \cup {"planned"} \/ at' = at
    BY <1>5, ConsentUndecided DEF Agrees
  <1>6. CASE CliSaves \/ CliDryRun \/ CliRecords
    BY <1>5, <1>6 DEF CliSaves, CliDryRun, CliRecords, Ends, opening, Dialogs
  <1>7. CASE (\E b \in DOMAIN outs : CliOpens(b)) \/ (\E n \in Rivals : OthersRecord(n))
    BY <1>5, <1>7 DEF CliOpens, OthersRecord, opening
  <1>8. CASE CliStarts \/ Trouble \/ CliStops \/ KeysClose \/ CliReports \/ CliFaults
    BY <1>5, <1>8
       DEF CliStarts, Trouble, CliStops, KeysClose, CliReports, CliFaults, opening, Dialogs
  <1>9. CASE CliUnwinds \/ CliLeaves \/ KeyPressed \/ KeyUsed \/ CloseEvent \/ HandlerReturns
    BY <1>5, <1>9 DEF CliUnwinds, CliLeaves, KeyPressed, KeyUsed, CloseEvent, HandlerReturns,
                      opening, Dialogs
  <1>10. CASE UNCHANGED vars
    BY <1>5, <1>10 DEF vars, opening
  <1> QED  BY <1>1, <1>2, <1>3, <1>4, <1>6, <1>7, <1>8, <1>9, <1>10 DEF Next

\* Nothing is recorded of everything but one process unless that was agreed to after the
\* session was read, whoever opens, whatever is in the file, whatever the machine does
\* meanwhile and however many openings are nested in each other's dialogs, over one session
\* and one report (apr_session_resolve, load_session, apr_controller_open_session).
THEOREM AlwaysConsented == Spec => Consented
  <1>1. WaitsInv /\ ConsentInv /\ [Next]_vars
        => [graph' # graph /\ Excludes(graph') => agreed']_<<file, at, opening>>
    BY ConsentStep DEF Agrees
  <1>2. WaitsInv /\ ConsentInv /\ [Next]_vars => ConsentInv'
    BY ConsentStep
  <1> QED  BY <1>1, <1>2, WaitsInit, WaitsStep, ConsentInit, PTL DEF Spec, Consented

----------------------------------------------------------------------------
(* A source that is there is found. *)

\* Its own process is one of those that match, so its number settles it.
LEMMA OwnProcessMatches ==
    ASSUME NEW s, s.pid \in Heard, SameImage(s, s.pid)
    PROVE  ResolveProcess(s) = Is("SAME_PROCESS", s.pid)
  <1>1. s.pid \in Matches(s)
    BY DEF SameImage, Matches, ByPath, ByName, Heard, Running
  <1> QED  BY <1>1 DEF ResolveProcess

LEMMA ResolvedIsFound ==
    ASSUME NEW doc, NEW c, NEW k \in DOMAIN doc.sources,
           doc.sources[k].kind \in {"process", "exclude"},
           doc.sources[k].pid \in Heard, SameImage(doc.sources[k], doc.sources[k].pid)
    PROVE  \/ Resolve(doc, c)[k] = Is("SAME_PROCESS", doc.sources[k].pid)
           \/ /\ Resolve(doc, c)[k] = Is("NEEDS_CONSENT", Nothing)
              /\ doc.sources[k].kind = "exclude"
  <1> DEFINE s == doc.sources[k]
  <1>1. Resolve(doc, c)[k] = ResolveSource(s, c)
    BY DEF Resolve
  <1>2. ResolveProcess(s) = Is("SAME_PROCESS", s.pid)
    BY OwnProcessMatches
  <1>3. CASE s.kind = "exclude" /\ ~c
    BY <1>1, <1>3 DEF ResolveSource
  <1>4. CASE ~(s.kind = "exclude" /\ ~c)
    BY <1>1, <1>2, <1>4 DEF ResolveSource
  <1> QED  BY <1>3, <1>4

\* A report is made by a search for the sources that are in memory, or thrown away.
ReportOfSession == \E doc, c : report' = Resolve(doc, c) /\ session'.sources = doc.sources

LEMMA ReportIsResolved ==
    ASSUME [Next]_vars, report' # report
    PROVE  report' = <<>> \/ ReportOfSession
  <1>1. CASE UNCHANGED vars
    BY <1>1 DEF vars, opening
  <1>2. CASE SessionNext
    <2>1. ASSUME NEW f, WindowOpens(f)
          PROVE  report' = Resolve(f, FALSE) /\ session'.sources = f.sources
      BY <2>1 DEF WindowOpens, Searched
    <2>2. CASE WindowConsents
      BY <2>2 DEF WindowConsents, Searched, ReportOfSession
    <2>3. CASE WindowAccepts \/ WindowDeclines \/ WindowSaves
      BY <2>3 DEF WindowAccepts, WindowDeclines, WindowSaves, ToIdle
    <2>4. CASE \E f \in Inside : WindowOpensInVain(f)
      BY <2>4 DEF WindowOpensInVain
    <2>5. ASSUME UNCHANGED opening
          PROVE  FALSE
      BY <2>5 DEF opening
    <2>6. CASE \E f \in Inside \cup {file} : WindowOpens(f)
      <3>1. PICK f : WindowOpens(f)
        BY <2>6
      <3>2. report' = Resolve(f, FALSE) /\ session'.sources = f.sources
        BY <2>1, <3>1
      <3> QED  BY <3>2, Zenon DEF ReportOfSession
    <2> QED  BY <1>2, <2>2, <2>3, <2>4, <2>5, <2>6
             DEF SessionNext, Start, Sound, Exit, Plug, Edited
  <1>3. CASE \E p \in Plans : CliReads(p)
    <2>1. PICK p \in Plans : CliReads(p)
      BY <1>3
    <2>2. CASE Reads(p) /\ LoadFault(p) = NONE
      BY <2>1, <2>2 DEF CliReads, ReportOf, Searched, ReportOfSession
    <2>3. CASE ~(Reads(p) /\ LoadFault(p) = NONE)
      BY <2>1, <2>3 DEF CliReads, ReportOf
    <2> QED  BY <2>2, <2>3
  <1>4. CASE CliChecks \/ CliSaves \/ CliDryRun \/ CliRecords \/ CliAgain
    BY <1>4 DEF CliChecks, CliSaves, CliDryRun, CliRecords, CliAgain, ToIdle, opening
  <1>5. CASE (\E b \in DOMAIN outs : CliOpens(b)) \/ (\E n \in Rivals : OthersRecord(n))
    BY <1>5 DEF CliOpens, OthersRecord, opening
  <1>6. CASE CliStarts \/ Trouble \/ CliStops \/ KeysClose \/ CliReports \/ CliFaults
    BY <1>6 DEF CliStarts, Trouble, CliStops, KeysClose, CliReports, CliFaults, opening
  <1>7. CASE CliUnwinds \/ CliLeaves \/ KeyPressed \/ KeyUsed \/ CloseEvent \/ HandlerReturns
    BY <1>7 DEF CliUnwinds, CliLeaves, KeyPressed, KeyUsed, CloseEvent, HandlerReturns, opening
  <1> QED  BY <1>1, <1>2, <1>3, <1>4, <1>5, <1>6, <1>7 DEF Next

\* A source whose process still runs under its number, with the image it was saved with and
\* with a sound, is that process, however many others there are like it (resolve_process).
THEOREM AlwaysFound == Spec => SavedIsFound
  <1> DEFINE Finds ==
        \A k \in DOMAIN report' :
            LET s == session'.sources[k] IN
            (/\ report' # report /\ s.kind \in {"process", "exclude"}
             /\ s.pid \in Heard /\ SameImage(s, s.pid))
            => \/ report'[k] = Is("SAME_PROCESS", s.pid)
               \/ report'[k] = Is("NEEDS_CONSENT", Nothing) /\ s.kind = "exclude"
  <1>1. ASSUME [Next]_vars
        PROVE  [Finds]_<<machine, file, at, opening>>
    <2>1. CASE report' = report
      BY <2>1
    <2>2. CASE report' = <<>>
      BY <2>2
    <2>3. CASE report' # report /\ ReportOfSession
      <3>1. PICK doc, c : report' = Resolve(doc, c) /\ session'.sources = doc.sources
        BY <2>3 DEF ReportOfSession
      <3>2. DOMAIN report' = DOMAIN doc.sources
        BY <3>1 DEF Resolve
      <3> QED  BY <3>1, <3>2, ResolvedIsFound
    <2> QED  BY <1>1, <2>1, <2>2, <2>3, ReportIsResolved
  <1> QED  BY <1>1, PTL DEF Spec, SavedIsFound

----------------------------------------------------------------------------
(* Files that are on the disk. *)

\* A create takes a name nobody has.
LEMMA CreateKeeps ==
    ASSUME NEW b, Creates(b)
    PROVE  \A n \in DOMAIN disk : n \in DOMAIN disk' /\ disk'[n] = disk[n]
  <1>1. \A n \in Claims(b) : n \notin DOMAIN disk
    BY DEF Claims, FirstFree, Free, Exists
  <1> QED  BY <1>1 DEF Creates

LEMMA DiskStep ==
    ASSUME [Next]_vars
    PROVE  \A n \in DOMAIN disk : n \in DOMAIN disk' /\ disk'[n] = disk[n]
  <1>1. CASE UNCHANGED vars
    BY <1>1 DEF vars, cliVars, files
  <1>2. CASE SessionNext /\ UNCHANGED cliVars
    BY <1>2 DEF cliVars, files
  <1>3. CASE \E p \in Plans : CliReads(p)
    BY <1>3 DEF CliReads, files
  <1>4. CASE CliChecks \/ CliSaves \/ CliDryRun \/ CliRecords \/ CliAgain
    BY <1>4 DEF CliChecks, CliSaves, CliDryRun, CliRecords, CliAgain, files
  <1>5. CASE \E b \in DOMAIN outs : CliOpens(b)
    BY <1>5, CreateKeeps DEF CliOpens, Resolves
  <1>6. CASE \E n \in Rivals : OthersRecord(n)
    BY <1>6 DEF OthersRecord, OthersCreate, Exists
  <1>7. CASE CliStarts \/ Trouble \/ CliStops \/ KeysClose \/ CliReports \/ CliFaults
    BY <1>7 DEF CliStarts, Trouble, CliStops, KeysClose, CliReports, CliFaults, files
  <1>8. CASE CliUnwinds \/ CliLeaves \/ KeyPressed \/ KeyUsed \/ CloseEvent \/ HandlerReturns
    BY <1>8 DEF CliUnwinds, CliLeaves, KeyPressed, KeyUsed, CloseEvent, HandlerReturns, files
  <1> QED  BY <1>1, <1>2, <1>3, <1>4, <1>5, <1>6, <1>7, <1>8 DEF Next

\* No take that is on the disk is taken over, whatever names are asked for and whoever
\* creates files between the look and the create (apr_out_resolve, apr_out_open_new).
THEOREM TakesAreKept == Spec => NeverOverwritten
  <1>1. [Next]_vars => [\A n \in DOMAIN disk : n \in DOMAIN disk' /\ disk'[n] = disk[n]]_<<disk, outs>>
    BY DiskStep
  <1> QED  BY <1>1, PTL DEF Spec, NeverOverwritten

----------------------------------------------------------------------------
(* The other threads. *)

\* The phases of a recording, and those in which a file may be open.
Phases   == {"opening", "recording", "stopped", "unkeyed", "unwinding", "closed"}
Unclosed == {"opening", "recording", "unwinding"}

EndingInv ==
    /\ finished => at = "ended" /\ plan.cmd = "record"
    /\ handler = "back" => finished
    /\ at \in Phases => plan.cmd = "record"
    /\ at \notin Unclosed => Writing = {}
    /\ at = "unkeyed" => keys = "none"
    /\ runner = "freed" => keys = "none"

LEMMA EndingInit ==
    ASSUME Init
    PROVE  EndingInv
  BY DEF Init, SessionInit, EndingInv, Phases, Unclosed, Writing

LEMMA ClosedIsClosed == outs' = Closed => Writing' = {}
  BY DEF Closed, Writing

\* The window, and the machine.
LEMMA EndingSession ==
    ASSUME WaitsInv, EndingInv, SessionNext, UNCHANGED cliVars
    PROVE  EndingInv'
  <1>1. at' = at \/ (at \in Windowed /\ at' \in Windowed)
    BY WindowStep
  <1> QED  BY <1>1 DEF EndingInv, Phases, Unclosed, Windowed, Writing, cliVars, run, signals, files

LEMMA EndingStep ==
    ASSUME WaitsInv, EndingInv, [Next]_vars
    PROVE  EndingInv'
  <1>1. CASE UNCHANGED vars
    BY <1>1 DEF vars, cliVars, run, signals, files, EndingInv, Writing
  <1>2. CASE SessionNext /\ UNCHANGED cliVars
    BY <1>2, EndingSession
  <1>3. CASE \E p \in Plans : CliReads(p)
    <2>1. at = "idle" /\ at' \in {"planned", "ended"} /\ UNCHANGED <<run, signals, files>>
      BY <1>3 DEF CliReads, Ends
    <2> QED  BY <2>1 DEF run, signals, files, EndingInv, Phases, Unclosed, Writing
  <1>4. CASE CliChecks
    <2>1. at = "planned" /\ at' \in {"checked", "ended"} /\ UNCHANGED <<run, signals, files>>
      BY <1>4 DEF CliChecks, Ends
    <2> QED  BY <2>1 DEF run, signals, files, EndingInv, Phases, Unclosed, Writing
  <1>5. CASE CliSaves \/ CliDryRun
    BY <1>5 DEF CliSaves, CliDryRun, Ends, run, signals, files, EndingInv, Phases, Unclosed, Writing
  <1>6. CASE CliRecords
    BY <1>6 DEF CliRecords, EndingInv, Phases, Unclosed
  <1>7. CASE \E b \in DOMAIN outs : CliOpens(b)
    BY <1>7 DEF CliOpens, run, signals, EndingInv, Phases, Unclosed
  <1>8. CASE \E n \in Rivals : OthersRecord(n)
    BY <1>8 DEF OthersRecord, run, signals, EndingInv, Phases, Unclosed
  <1>9. CASE CliStarts \/ Trouble \/ CliFaults
    <2>1. at \in Unclosed /\ at' \in Unclosed /\ UNCHANGED <<plan, runner, keys, finished, handler>>
      BY <1>9 DEF CliStarts, Trouble, CliFaults, run, signals, Unclosed
    <2> QED  BY <2>1 DEF EndingInv, Phases, Unclosed
  <1>10. CASE CliStops
    BY <1>10, ClosedIsClosed DEF CliStops, run, signals, EndingInv, Phases, Unclosed
  <1>11. CASE KeysClose
    BY <1>11 DEF KeysClose, signals, files, EndingInv, Phases, Unclosed, Writing
  <1>12. CASE CliReports
    BY <1>12 DEF CliReports, signals, files, EndingInv, Phases, Unclosed
  <1>13. CASE CliUnwinds
    BY <1>13, ClosedIsClosed DEF CliUnwinds, run, signals, EndingInv, Phases, Unclosed
  <1>14. CASE CliLeaves
    BY <1>14 DEF CliLeaves, run, files, EndingInv, Phases, Unclosed, Writing
  <1>15. CASE CliAgain
    BY <1>15 DEF CliAgain, ToIdle, run, signals, files, EndingInv, Phases, Unclosed, Writing
  <1>16. CASE KeyPressed \/ KeyUsed
    BY <1>16 DEF KeyPressed, KeyUsed, signals, files, EndingInv, Writing
  <1>17. CASE CloseEvent \/ HandlerReturns
    BY <1>17 DEF CloseEvent, HandlerReturns, run, files, EndingInv, Phases, Unclosed, Writing
  <1> QED  BY <1>1, <1>2, <1>3, <1>4, <1>5, <1>6, <1>7, <1>8, <1>9, <1>10, <1>11, <1>12, <1>13,
              <1>14, <1>15, <1>16, <1>17 DEF Next

\* Windows does not get the process back while a file is open, and the keyboard thread does
\* not hold a runner that is freed, whatever faults and whenever the console is closed
\* (ctrl_handler, do_record, record_loop).
THEOREM NeverPulledAway == Spec => []NothingIsPulledAway
  <1>1. EndingInv => NothingIsPulledAway
    BY DEF EndingInv, NothingIsPulledAway, Phases, Unclosed
  <1> QED  BY <1>1, WaitsInit, WaitsStep, EndingInit, EndingStep, PTL DEF Spec

----------------------------------------------------------------------------
(* The exit code. *)

\* Where nothing has been opened yet, where files are opened and closed, and where what
\* became of them has been said.
Before == {"idle", "asking", "consenting", "shown", "planned", "checked"}
Live   == {"opening", "recording", "stopped", "unkeyed"}

\* What the exit code says of the files.
WellSaid ==
    /\ exit \in {OK, USAGE, CONFIG, NOT_FOUND, OUTPUT, CAPTURE, INCOMPLETE, INTERNAL}
    /\ exit = OK => troubles = {} /\ Opened = DOMAIN graph.buses /\ Opened # {}
    /\ exit = INCOMPLETE => Opened # {}
    /\ exit \in {USAGE, CONFIG, NOT_FOUND, OUTPUT, CAPTURE} => Opened = {}

\* A plan that is not known to be incomplete has all that was in its file.
PlanWhole ==
    report # <<>> /\ ~plan.incomplete =>
        /\ DOMAIN graph.buses = DOMAIN file.buses
        /\ \A b \in DOMAIN graph.buses : graph.buses[b].edges = file.buses[b].edges

IsName(s) == \E S : s \in Seq(S) /\ s # <<>>

\* An output that is being opened: its name is one, and what it wrote is what it opened.
OutputsOpening ==
    \A b \in DOMAIN outs :
        /\ outs[b].state \in {"pending", "named", "open", "failed"}
        /\ outs[b].state = "named" => IsName(outs[b].current)
        /\ outs[b].state = "open" => outs[b].wrote # <<>>

ExitInv ==
    /\ at \in Before \/ (at = "ended" /\ plan.cmd # "record") => outs = <<>>
    /\ at \in {"planned", "checked"} \cup Phases /\ plan.cmd = "record" => PlanWhole
    /\ at = "planned" => {"cmd", "incomplete"} \subseteq DOMAIN plan
    /\ at = "checked" => DOMAIN graph.buses # {}
    /\ at \in Live => DOMAIN outs = DOMAIN graph.buses /\ DOMAIN outs # {}
    /\ at = "opening" => OutputsOpening
    /\ at \in Live \ {"opening"} /\ troubles = {} => Opened = DOMAIN outs
    /\ at \in {"unwinding", "closed"} => WellSaid
    /\ at = "ended" /\ plan.cmd = "record" /\ ~plan.dry /\ handler # "back" =>
          WellSaid /\ (exit = OK => ~plan.incomplete /\ PlanWhole)

\* Names: what a template expands to, and what is counted behind it.
LEMMA ExpandIsName == ASSUME NEW t, NEW b, NEW k PROVE IsName(Expand(t, b, k))
  <1>1. <<t.stem, k>> \in Seq({t.stem, k}) /\ <<t.stem, k>> # <<>>
    OBVIOUS
  <1>2. <<t.stem, b>> \in Seq({t.stem, b}) /\ <<t.stem, b>> # <<>>
    OBVIOUS
  <1>3. <<t.stem>> \in Seq({t.stem}) /\ <<t.stem>> # <<>>
    OBVIOUS
  <1> QED  BY <1>1, <1>2, <1>3 DEF Expand, IsName

LEMMA TakeIsName == ASSUME NEW s, IsName(s), NEW k PROVE IsName(TakeName(s, k))
  <1>1. PICK S : s \in Seq(S) /\ s # <<>>
    BY DEF IsName
  <1>2. s \in Seq(S \cup {k})
    BY <1>1
  <1>3. Append(s, k) \in Seq(S \cup {k}) /\ Len(Append(s, k)) = Len(s) + 1 /\ Len(s) \in Nat
    BY <1>2
  <1>4. Append(s, k) # <<>>
    BY <1>3
  <1> QED  BY <1>1, <1>3, <1>4 DEF TakeName, IsName

LEMMA OpensKeepNames ==
    ASSUME OutputsOpening, NEW b \in DOMAIN outs, NEW t, Resolves(b, t) \/ Creates(b)
    PROVE  OutputsOpening' /\ DOMAIN outs' = DOMAIN outs
  <1>1. CASE Resolves(b, t)
    <2>1. ASSUME NEW k \in Takes PROVE IsName(Ladder(t, b)[k])
      BY ExpandIsName, TakeIsName DEF Ladder
    <2>2. CASE outs' = [outs EXCEPT ![b].state = "failed"]
      BY <2>2 DEF OutputsOpening
    <2>3. CASE \E k \in FirstFree(Ladder(t, b)) :
                 outs' = [outs EXCEPT ![b].state = "named", ![b].current = Ladder(t, b)[k],
                                      ![b].renamed = ~Numbered(t) /\ k # 1]
      <3>1. PICK k \in Takes :
                 outs' = [outs EXCEPT ![b].state = "named", ![b].current = Ladder(t, b)[k],
                                      ![b].renamed = ~Numbered(t) /\ k # 1]
        BY <2>3 DEF FirstFree, Free
      <3> QED  BY <2>1, <3>1 DEF OutputsOpening
    <2> QED  BY <1>1, <2>2, <2>3 DEF Resolves
  <1>2. CASE Creates(b)
    <2>1. CASE outs' = [outs EXCEPT ![b].state = "failed"]
      BY <2>1 DEF OutputsOpening
    <2>2. CASE \E n \in Claims(b) : outs' = [outs EXCEPT ![b].state = "open", ![b].wrote = n]
      <3>1. PICK n \in Claims(b) : outs' = [outs EXCEPT ![b].state = "open", ![b].wrote = n]
        BY <2>2
      <3>2. IsName(outs[b].current)
        BY <1>2 DEF Creates, OutputsOpening
      <3>3. \E k \in Takes : n = TakeName(outs[b].current, k)
        BY DEF Claims, FirstFree, Free
      <3>4. n # <<>>
        BY <3>2, <3>3, TakeIsName DEF IsName
      <3> QED  BY <3>1, <3>4 DEF OutputsOpening
    <2> QED  BY <1>2, <2>1, <2>2 DEF Creates
  <1> QED  BY <1>1, <1>2

\* Closing takes nothing from what was opened.
LEMMA ClosedIsOpened == outs' = Closed => Opened' = Opened /\ DOMAIN outs' = DOMAIN outs
  BY DEF Closed, Opened

LEMMA ExitInit == Init => ExitInv
  BY DEF Init, SessionInit, ExitInv, Before, Live, Phases

LEMMA ExitSession ==
    ASSUME WaitsInv, ExitInv, SessionNext, UNCHANGED cliVars
    PROVE  ExitInv'
  <1>1. CASE UNCHANGED <<file, at, opening>>
    BY <1>1 DEF opening, cliVars, run, signals, verdict, files, ExitInv, Before, Live, Phases,
                PlanWhole,
                WellSaid, Opened, OutputsOpening
  <1>2. CASE at \in Windowed /\ at' \in Windowed
    BY <1>2 DEF cliVars, files, ExitInv, Before, Live, Phases, Windowed
  <1> QED  BY <1>1, <1>2, WindowStep

\* A file that loads has no edge that names a source it does not have.
LEMMA LoadedIsLinked ==
    ASSUME NEW f, Load(f) = NONE
    PROVE  LinkEdges(f) = NONE
  <1> DEFINE faults == <<IF f.text = "whole" THEN NONE ELSE f.text, ReadHeader(f.header),
                         ReadSessionBlock(f.odd.session), ReadSource(f.odd.source),
                         ReadBus(f.odd), LinkEdges(f)>>
             met    == {i \in DOMAIN faults : faults[i] # NONE}
             first  == CHOOSE i \in met : \A j \in met : i <= j
  <1>1. First(faults) = NONE
    BY DEF Load, LoadUtf8, NONE
  <1>2. met \subseteq 1..6
    OBVIOUS
  <1>3. met = {}
    <2> SUFFICES ASSUME met # {} PROVE FALSE
      OBVIOUS
    <2>1. \E i \in met : \A j \in met : i <= j
      <3> HIDE DEF met
      <3>1. CASE 1 \in met
        BY <1>2, <3>1
      <3>2. CASE 1 \notin met /\ 2 \in met
        BY <1>2, <3>2
      <3>3. CASE {1, 2} \cap met = {} /\ 3 \in met
        BY <1>2, <3>3
      <3>4. CASE {1, 2, 3} \cap met = {} /\ 4 \in met
        BY <1>2, <3>4
      <3>5. CASE {1, 2, 3, 4} \cap met = {} /\ 5 \in met
        BY <1>2, <3>5
      <3>6. CASE {1, 2, 3, 4, 5} \cap met = {}
        <4>1. \A m \in met : m = 6
          BY <1>2, <3>6
        <4> QED  BY <4>1
      <3> QED  BY <3>1, <3>2, <3>3, <3>4, <3>5, <3>6
    <2>2. first \in met
      BY <2>1
    <2>3. First(faults) = faults[first]
      BY DEF First
    <2> QED  BY <1>1, <2>2, <2>3
  <1>4. 6 \in DOMAIN faults /\ faults[6] = LinkEdges(f)
    OBVIOUS
  <1> QED  BY <1>3, <1>4

\* The plan: of a file it has everything, unless something was lost.
LEMMA ExitReads ==
    ASSUME ParseExits, ExitInv, NEW p \in Plans, CliReads(p)
    PROVE  ExitInv'
  <1>1. at = "idle" /\ UNCHANGED <<file, run, files>> /\ outs = <<>>
    BY DEF CliReads, ExitInv, Before
  <1>2. /\ plan'.cmd = p.cmd /\ {"cmd", "incomplete"} \subseteq DOMAIN plan'
        /\ plan'.incomplete = (Lost(report') # {}) /\ report' = ReportOf(p)
    BY DEF CliReads, PlanOf
  <1>3. CASE /\ PlanCode(p) # OK \/ p.cmd \notin {"record", "save-session"}
             /\ Ends(PlanCode(p))
    <2>1. PlanCode(p) \in {OK, USAGE, CONFIG, NOT_FOUND}
      BY DEF ParseExits, PlanCode, FaultCode, Worst
    <2>2. Opened' = {}
      BY <1>1 DEF files, Opened
    <2>3. at' = "ended" /\ exit' = PlanCode(p)
      BY <1>3 DEF Ends
    <2> QED  BY <1>1, <1>2, <1>3, <2>1, <2>2, <2>3
             DEF files, ExitInv, Before, Live, Phases, WellSaid, OK, USAGE, CONFIG, NOT_FOUND,
                 OUTPUT,
                 CAPTURE, INCOMPLETE
  <1>4. CASE /\ PlanCode(p) = OK /\ at' = "planned"
             /\ graph' = IF Reads(p) THEN GraphOf(session') ELSE TypedGraph(p)
    <2>1. ASSUME report' # <<>>, ~plan'.incomplete
          PROVE  /\ DOMAIN graph'.buses = DOMAIN file'.buses
                 /\ \A b \in DOMAIN graph'.buses : graph'.buses[b].edges = file'.buses[b].edges
      <3>1. Reads(p) /\ LoadFault(p) = NONE
        BY <1>2, <2>1 DEF ReportOf
      <3>2. graph' = GraphOf(session') /\ session' = Searched(file, report') /\ Lost(report') = {}
        BY <1>2, <1>4, <2>1, <3>1 DEF CliReads
      <3>3. /\ DOMAIN graph'.buses = DOMAIN file.buses
            /\ \A b \in DOMAIN graph'.buses :
                  graph'.buses[b].edges = file.buses[b].edges \cap DOMAIN report'
        BY <3>2 DEF GraphOf, Searched
      <3>4. DOMAIN report' = DOMAIN file.sources
        BY <1>2, <3>1 DEF ReportOf, Resolve
      <3>5. LinkEdges(file) = NONE
        BY <3>1, LoadedIsLinked DEF LoadFault
      <3> QED  BY <1>1, <3>3, <3>4, <3>5 DEF LinkEdges, NONE
    <2> QED  BY <1>1, <1>2, <1>4, <2>1 DEF files, ExitInv, Before, Live, Phases, PlanWhole
  <1> QED  BY <1>3, <1>4 DEF CliReads

\* The plan against the machine: a bus that is dropped is remembered.
LEMMA ExitChecks ==
    ASSUME ExitInv, CliChecks
    PROVE  ExitInv'
  <1> DEFINE buses == Kept(graph.buses)
  <1>1. /\ at = "planned" /\ outs = <<>> /\ {"cmd", "incomplete"} \subseteq DOMAIN plan
        /\ plan.cmd = "record" => PlanWhole
        /\ UNCHANGED <<file, report, run, files>>
        /\ plan' = [plan EXCEPT !.incomplete = @ \/ Dropped(graph.buses) # {}]
    BY DEF CliChecks, ExitInv, Before
  <1>2. CASE \E code \in IF Refusals(buses) = {} THEN {CONFIG, OUTPUT} ELSE Refusals(buses) :
               Ends(code)
    <2>1. at' = "ended" /\ exit' \in {CONFIG, OUTPUT, NOT_FOUND}
      BY <1>2 DEF Ends, Refusals
    <2>2. Opened' = {} /\ outs' = <<>>
      BY <1>1 DEF files, Opened
    <2> QED  BY <2>1, <2>2 DEF ExitInv, Before, Live, Phases, WellSaid, OK, CONFIG, NOT_FOUND,
                               OUTPUT,
                               INCOMPLETE
  <1>3. CASE /\ Refusals(buses) = {} /\ at' = "checked"
             /\ graph' = [sources |-> [k \in Fed(buses) |-> Pinned(graph.sources[k])],
                          buses   |-> buses]
    <2>1. DOMAIN graph'.buses # {}
      BY <1>3 DEF Refusals
    <2>2. plan'.cmd = plan.cmd /\ plan.cmd = "record" => PlanWhole'
      <3> SUFFICES ASSUME plan.cmd = "record", report' # <<>>, ~plan'.incomplete
                   PROVE  /\ plan'.cmd = plan.cmd
                          /\ DOMAIN graph'.buses = DOMAIN file'.buses
                          /\ \A b \in DOMAIN graph'.buses :
                                graph'.buses[b].edges = file'.buses[b].edges
        BY <1>1 DEF PlanWhole
      <3>1. plan'.cmd = plan.cmd /\ ~plan.incomplete /\ Dropped(graph.buses) = {}
        BY <1>1
      <3>2. graph'.buses = graph.buses
        BY <1>3, <3>1 DEF Kept
      <3> QED  BY <1>1, <3>1, <3>2 DEF PlanWhole
    <2>3. outs' = <<>>
      BY <1>1 DEF files
    <2> QED  BY <1>1, <1>3, <2>1, <2>2, <2>3 DEF ExitInv, Before, Live, Phases
  <1> QED  BY <1>2, <1>3 DEF CliChecks

\* Steps that touch neither the plan, nor the files, nor where the command is.
LEMMA ExitKept ==
    ASSUME ExitInv, UNCHANGED <<file, at, opening, plan, troubles, exit, outs>>,
           handler = "back" => handler' = "back"
    PROVE  ExitInv'
  BY DEF opening, ExitInv, Before, Live, Phases, PlanWhole, WellSaid, Opened, OutputsOpening

LEMMA ExitRecords ==
    ASSUME ExitInv, CliRecords
    PROVE  ExitInv'
  <1>1. /\ at = "checked" /\ plan.cmd = "record" /\ outs = <<>> /\ DOMAIN graph.buses # {}
        /\ UNCHANGED <<file, opening, plan, troubles>> /\ PlanWhole
    BY DEF CliRecords, ExitInv, Before
  <1>2. PlanWhole'
    BY <1>1 DEF opening, PlanWhole
  <1>3. CASE at' = "opening" /\ outs' = [b \in DOMAIN graph.buses |-> Pending]
    BY <1>1, <1>2, <1>3 DEF opening, ExitInv, Before, Live, Phases, OutputsOpening, Pending
  <1>4. CASE at' = "unwinding" /\ exit' \in {CAPTURE, CONFIG, INTERNAL} /\ UNCHANGED outs
    <2>1. Opened' = {}
      BY <1>1, <1>4 DEF Opened
    <2> QED  BY <1>2, <1>4, <2>1 DEF ExitInv, Before, Live, Phases, WellSaid, CAPTURE, CONFIG,
                                     INTERNAL, OK,
                                INCOMPLETE
  <1> QED  BY <1>3, <1>4 DEF CliRecords

LEMMA ExitOpens ==
    ASSUME ExitInv, NEW b \in DOMAIN outs, CliOpens(b)
    PROVE  ExitInv'
  <1>1. at = "opening" /\ OutputsOpening /\ UNCHANGED <<file, at, opening, plan>>
    BY DEF CliOpens, ExitInv
  <1>2. OutputsOpening' /\ DOMAIN outs' = DOMAIN outs
    BY <1>1, OpensKeepNames DEF CliOpens
  <1> QED  BY <1>1, <1>2 DEF opening, ExitInv, Before, Live, Phases, PlanWhole

LEMMA ExitLive ==
    ASSUME ExitInv, CliStarts \/ Trouble \/ CliStops \/ KeysClose \/ CliFaults
    PROVE  ExitInv'
  <1> USE DEF ExitInv, Before, Live, Phases, PlanWhole, opening
  <1>1. CASE CliStarts
    <2>1. troubles' = {} => \A b \in DOMAIN outs : outs[b].state = "open"
      BY <1>1 DEF CliStarts
    <2>2. at = "opening" /\ OutputsOpening
      BY <1>1 DEF CliStarts
    <2>3. troubles' = {} => Opened' = DOMAIN outs'
      BY <1>1, <2>1, <2>2 DEF CliStarts, files, Opened, OutputsOpening
    <2> QED  BY <1>1, <2>3 DEF CliStarts, files
  <1>2. CASE Trouble
    BY <1>2 DEF Trouble, files
  <1>3. CASE CliStops
    BY <1>3, ClosedIsOpened DEF CliStops
  <1>4. CASE KeysClose
    BY <1>4 DEF KeysClose, files, Opened
  <1>5. CASE CliFaults
    BY <1>5 DEF CliFaults, WellSaid, INTERNAL, OK, INCOMPLETE, USAGE, CONFIG, NOT_FOUND, OUTPUT,
                CAPTURE
  <1> QED  BY <1>1, <1>2, <1>3, <1>4, <1>5

LEMMA ExitCloses ==
    ASSUME ExitInv, EndingInv, CliReports \/ CliUnwinds \/ CliLeaves
    PROVE  ExitInv'
  <1> USE DEF ExitInv, Before, Live, Phases, PlanWhole, opening
  <1>1. CASE CliReports
    <2>1. /\ DOMAIN outs = DOMAIN graph.buses /\ DOMAIN outs # {} /\ outs # <<>>
          /\ troubles = {} => Opened = DOMAIN outs
      BY <1>1 DEF CliReports
    <2>2. Opened' = Opened /\ graph' = graph /\ troubles' = troubles /\ exit' = Result
      BY <1>1 DEF CliReports, files, Opened
    <2>3. WellSaid'
      BY <2>1, <2>2 DEF Result, WellSaid, OK, INCOMPLETE, USAGE, CONFIG, NOT_FOUND, OUTPUT, CAPTURE
    <2> QED  BY <1>1, <2>3 DEF CliReports
  <1>2. CASE CliUnwinds
    BY <1>2, ClosedIsOpened DEF CliUnwinds, run, verdict, WellSaid
  <1>3. CASE CliLeaves
    <2>1. WellSaid /\ UNCHANGED <<outs, graph, troubles, plan, file, report>>
      BY <1>3 DEF CliLeaves, files, run
    <2>2. WellSaid' /\ (exit' = OK => ~plan.incomplete)
      BY <1>3, <2>1 DEF CliLeaves, WellSaid, Opened, OK, INCOMPLETE, USAGE, CONFIG, NOT_FOUND,
                        OUTPUT, CAPTURE
    <2>3. plan.cmd = "record" /\ at = "closed" /\ at' = "ended" /\ PlanWhole'
      BY <1>3, <2>1 DEF CliLeaves, EndingInv
    <2> QED  BY <2>1, <2>2, <2>3
  <1> QED  BY <1>1, <1>2, <1>3

LEMMA ExitStep ==
    ASSUME ParseExits, WaitsInv, ExitInv, EndingInv, [Next]_vars
    PROVE  ExitInv'
  <1>1. CASE UNCHANGED vars
    BY <1>1, ExitKept DEF vars, cliVars, run, signals, verdict, files
  <1>2. CASE SessionNext /\ UNCHANGED cliVars
    BY <1>2, ExitSession
  <1>3. CASE \E p \in Plans : CliReads(p)
    BY <1>3, ExitReads
  <1>4. CASE CliChecks
    BY <1>4, ExitChecks
  <1>5. CASE CliSaves
    BY <1>5 DEF CliSaves, Ends, files, ExitInv, Before, Live, Phases
  <1>6. CASE CliDryRun
    BY <1>6 DEF CliDryRun, files, ExitInv, Before, Live, Phases
  <1>7. CASE CliRecords
    BY <1>7, ExitRecords
  <1>8. CASE \E b \in DOMAIN outs : CliOpens(b)
    BY <1>8, ExitOpens
  <1>9. CASE \E n \in Rivals : OthersRecord(n)
    BY <1>9, ExitKept DEF OthersRecord, OthersCreate, run, signals, verdict
  <1>10. CASE CliStarts \/ Trouble \/ CliStops \/ KeysClose \/ CliFaults
    BY <1>10, ExitLive
  <1>11. CASE CliReports \/ CliUnwinds \/ CliLeaves
    BY <1>11, ExitCloses
  <1>12. CASE CliAgain
    BY <1>12 DEF CliAgain, ToIdle, files, ExitInv, Before, Live, Phases
  <1>13. CASE KeyPressed \/ KeyUsed \/ CloseEvent
    BY <1>13, ExitKept DEF KeyPressed, KeyUsed, CloseEvent, run, signals, verdict, files
  <1>14. CASE HandlerReturns
    <2>1. finished /\ at' = "ended" /\ handler' = "back" /\ UNCHANGED <<plan, outs>>
      BY <1>14 DEF HandlerReturns, files
    <2> QED  BY <2>1 DEF EndingInv, ExitInv, Before, Live, Phases
  <1> QED  BY <1>1, <1>2, <1>3, <1>4, <1>5, <1>6, <1>7, <1>8, <1>9, <1>10, <1>11, <1>12, <1>13,
              <1>14 DEF Next

\* A script that looks at nothing but the exit code is not misled, whatever machine, file and
\* words the command met, whichever of its outputs, sources and closes failed, and whoever
\* else was creating files (apr_cli_resolve, do_record, apr_cli_run).  That a command line is
\* refused as a usage or a configuration error only is what parsing it computes.
THEOREM ExitTellsTheTruth == ASSUME ParseExits PROVE Spec => []ExitIsTrue
  <1>1. ExitInv => ExitIsTrue
    BY DEF ExitInv, ExitIsTrue, Recorded, WellSaid, PlanWhole, Complete, OK, USAGE, CONFIG,
           NOT_FOUND, OUTPUT, CAPTURE, INCOMPLETE, INTERNAL
  <1> QED  BY <1>1, WaitsInit, WaitsStep, ExitInit, ExitStep, EndingInit, EndingStep, PTL DEF Spec

=============================================================================
