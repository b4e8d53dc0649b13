------------------------------- MODULE Canvas -------------------------------
(***************************************************************************)
(* The two views of the session: the canvas (ui/canvas.c, a window per     *)
(* node in ui/node_window.c) and the tree (ui/tree_panel.c), with the part *)
(* of ui/controller.c that keeps them and the menus true to core/graph.c.  *)
(*                                                                         *)
(* Both views copy the graph and are rebuilt from it.  What survives a     *)
(* rebuild (the current node, the end of a half-made edge, the caret) is   *)
(* found again by the identity of what it names.  An edit made by a key    *)
(* never passes the controller, which hears of it from the canvas.         *)
(*                                                                         *)
(* One handler is one step: none of them pumps messages.  Dialogs, which   *)
(* do, are in modules Controller and Documents.  Text is abstracted to the *)
(* facts of the graph it states.                                           *)
(***************************************************************************)
EXTENDS Integers, Sequences, FiniteSets, SequencesExt

CONSTANTS
    MaxSources, MaxBuses,   \* APR_MAX_SOURCES, APR_MAX_BUSES
    MaxEdges, MaxOutputs,   \* APR_MAX_SOURCES_PER_BUS, APR_MAX_ACTIONS_PER_BUS
    MinLevel, MaxLevel,                 \* the range of a level, in steps; 0 is unity
    MaxIds,         \* bound: sources, and buses, ever added to one graph
    MaxNotices      \* bound: notices of a recording that refresh the views

ASSUME CanvasAssumption ==
    /\ {MaxSources, MaxBuses, MaxEdges, MaxOutputs} \subseteq Nat
    /\ {MaxLevel, MaxIds, MaxNotices} \subseteq Nat
    /\ -MinLevel \in Nat

VARIABLES
    graph,      \* sources: ids; buses: id, the edges into it, how many outputs
    ids,        \* next_source_id and next_bus_id
    canvas,     \* CanvasState: nodes, cur, pending (indices, 0 for none), cut
    tree,       \* TreePanel: rows, and the row the caret is on, 0 for none
    offered,    \* the menus' and the icon's Start Recording
    told,       \* what this handler said of the half-made edge
    recording,  \* the controller's flag
    loop,       \* the recording thread; the graph says that it runs in "running"
    notices     \* posted, and not handled yet

graphVars == <<graph, ids>>
views     == <<canvas, tree, offered>>
takeVars  == <<recording, loop, notices>>
viewsVars == <<graphVars, views, told, takeVars>>

-----------------------------------------------------------------------------
(* The graph.  Ids count up, so the order of a list of them is their own.  *)

EmptyGraph == [sources |-> {}, in |-> <<>>, out |-> <<>>]

Buses(g) == DOMAIN g.in

InOrder(S, Before(_, _)) ==
    CHOOSE f \in [1 .. Cardinality(S) -> S] :
        \A i, j \in DOMAIN f : i < j => Before(f[i], f[j])

Ordered(S) == InOrder(S, LAMBDA a, b : a < b)

Sources(b)         == {b[i].source : i \in DOMAIN b}
Connected(g, s, b) == s \in Sources(g.in[b])
BusesOf(g, s)      == {b \in Buses(g) : Connected(g, s, b)}
Lowest(S)          == CHOOSE x \in S : \A y \in S : x <= y
LevelOn(b, s)      == b[CHOOSE i \in DOMAIN b : b[i].source = s].level
HasOutput(g)       == \E b \in Buses(g) : g.out[b] > 0

Cut(b, s) == SelectSeq(b, LAMBDA e : e.source # s)

WithEdge(g, s, b)    == [g EXCEPT !.in[b] = Append(@, [source |-> s, level |-> 0])]
WithoutEdge(g, s, b) == [g EXCEPT !.in[b] = Cut(@, s)]

\* apr_graph_remove_source: every edge goes first.
WithoutSource(g, s) ==
    [g EXCEPT !.sources = @ \ {s}, !.in = [b \in Buses(g) |-> Cut(@[b], s)]]

WithoutBus(g, b) ==
    [g EXCEPT !.in  = [x \in Buses(g) \ {b} |-> @[x]],
              !.out = [x \in Buses(g) \ {b} |-> @[x]]]

WithSource(g, s) == [g EXCEPT !.sources = @ \cup {s}]
WithBus(g, b) ==
    [g EXCEPT !.in  = [x \in Buses(g) \cup {b} |-> IF x = b THEN <<>> ELSE @[x]],
              !.out = [x \in Buses(g) \cup {b} |-> IF x = b THEN 0 ELSE @[x]]]

\* Outputs are named by their index: the ones after it move down.
WithoutOutput(g, b) == [g EXCEPT !.out[b] = @ - 1]
WithOutput(g, b)    == [g EXCEPT !.out[b] = @ + 1]

\* do_gain writes one level to every edge of a source.
WithLevel(g, s, n) ==
    [g EXCEPT !.in = [b \in Buses(g) |->
        [i \in DOMAIN @[b] |->
            [source |-> @[b][i].source,
             level  |-> IF @[b][i].source = s THEN n ELSE @[b][i].level]]]]

\* What the canvas presents as the level of a source: that of its first edge.
Level(g, s) ==
    IF BusesOf(g, s) = {} THEN 0 ELSE LevelOn(g.in[Lowest(BusesOf(g, s))], s)

-----------------------------------------------------------------------------
(* The canvas: a node for each source, bus and output, and what its name   *)
(* and description state.                                                  *)

Key(n) == <<n.kind, n.id, n.sub>>

Says(g, k) ==
    CASE k[1] = "source" -> <<Ordered(BusesOf(g, k[2])), Level(g, k[2])>>
      [] k[1] = "bus"    -> <<[i \in DOMAIN g.in[k[2]] |-> g.in[k[2]][i].source], g.out[k[2]]>>
      [] k[1] = "output" -> <<<<k[2]>>, k[3]>>

Node(g, k) == [kind |-> k[1], id |-> k[2], sub |-> k[3], says |-> Says(g, k)]

Outputs(g) == UNION {{<<"output", b, i>> : i \in 1 .. g.out[b]} : b \in Buses(g)}

\* Logical order: sources, then buses, then each bus's outputs.
Lower(j, k) == j[2] < k[2] \/ (j[2] = k[2] /\ j[3] < k[3])

Keys(g) ==
    InOrder({<<"source", s, 0>> : s \in g.sources}, Lower)
    \o InOrder({<<"bus", b, 0>> : b \in Buses(g)}, Lower)
    \o InOrder(Outputs(g), Lower)

Nodes(g) == [i \in DOMAIN Keys(g) |-> Node(g, Keys(g)[i])]

\* find_node: the index of a node, 0 when there is none.
FindNode(nodes, key) ==
    IF \E i \in DOMAIN nodes : Key(nodes[i]) = key
    THEN CHOOSE i \in DOMAIN nodes : Key(nodes[i]) = key ELSE 0

NodeAt(c, i) == IF i \in DOMAIN c.nodes THEN Key(c.nodes[i]) ELSE <<"none", 0, 0>>

Dropped(c) == [c EXCEPT !.pending = 0, !.cut = FALSE]

\* apr_canvas_rebuild: where the user was, and the end they hold, are found again.
Rebuilt(c, g) ==
    LET new  == Nodes(g)
        cur  == FindNode(new, NodeAt(c, c.cur))
        held == FindNode(new, NodeAt(c, c.pending))
    IN  [nodes   |-> new,
         cur     |-> IF cur = 0 /\ new # <<>> THEN 1 ELSE cur,
         pending |-> held,
         cut     |-> held # 0 /\ c.cut]

-----------------------------------------------------------------------------
(* The tree: under each bus its sources, then its outputs; then the        *)
(* sources that feed nothing.  A label states counts and, of a bus, that   *)
(* it is recording.                                                        *)

Row(kind, bus, source, output, says) ==
    [sel |-> <<kind, bus, source, output>>, says |-> says]

BusRows(g, b, run) ==
    <<Row("bus", b, 0, 0, <<Len(g.in[b]), g.out[b], run>>)>>
    \o [i \in DOMAIN g.in[b] |->
            LET s == g.in[b][i].source
            IN  Row("source", b, s, 0, <<Cardinality(BusesOf(g, s)) - 1>>)]
    \o [i \in 1 .. g.out[b] |-> Row("output", b, 0, i, <<>>)]

Rows(g, run) ==
    LET alone == Ordered({s \in g.sources : BusesOf(g, s) = {}})
    IN  IF Buses(g) = {} /\ g.sources = {} THEN <<Row("empty", 0, 0, 0, <<>>)>>
        ELSE FlattenSeq([i \in 1 .. Cardinality(Buses(g)) |->
                             BusRows(g, Ordered(Buses(g))[i], run)])
             \o (IF alone = <<>> THEN <<>> ELSE <<Row("unassigned", 0, 0, 0, <<>>)>>)
             \o [i \in DOMAIN alone |-> Row("source", 0, alone[i], 0, <<>>)]

FindRow(rows, sel) ==
    IF \E i \in DOMAIN rows : rows[i].sel = sel
    THEN CHOOSE i \in DOMAIN rows : rows[i].sel = sel ELSE 0

\* tp_build: the caret is put back on the row of the same object, if there is one.
Refreshed(t, g, run) ==
    LET new == Rows(g, run)
    IN  [rows |-> new, caret |-> IF t.caret = 0 THEN 0 ELSE FindRow(new, t.rows[t.caret].sel)]

\* canvas_node_for: the key of the node that a row names.
NodeKey(sel) ==
    CASE sel[1] = "bus"    -> <<"bus", sel[2], 0>>
      [] sel[1] = "source" -> <<"source", sel[3], 0>>
      [] sel[1] = "output" -> <<"output", sel[2], sel[4]>>
      [] OTHER             -> <<"none", 0, 0>>

Running == loop = "running"

ViewsInit ==
    /\ graph = EmptyGraph /\ ids = <<1, 1>>
    /\ canvas = [nodes |-> <<>>, cur |-> 0, pending |-> 0, cut |-> FALSE]
    /\ tree = [rows |-> Rows(EmptyGraph, FALSE), caret |-> 0]
    /\ offered = FALSE /\ told = {}
    /\ recording = FALSE /\ loop = "none" /\ notices = <<>>

-----------------------------------------------------------------------------
(* What every handler ends with.                                           *)

\* Mutant of Lost: a rebuild does not say that the held end is gone.
Lost_mutant(c, d) == {}

\* What apr_canvas_rebuild says.
Lost(c, d) == IF c.pending # 0 /\ d.pending = 0 THEN {"cancelled"} ELSE {}

RefreshTree(run) == tree' = Refreshed(tree, graph', run)
Menus(rec)       == offered' = (~rec /\ HasOutput(graph'))

\* refresh_views.
RefreshViews(run) ==
    /\ canvas' = Rebuilt(canvas, graph') /\ told' = Lost(canvas, canvas') /\ RefreshTree(run)

\* Mutant of CanvasEdit: the tree does not hear of an edit made by a key.
CanvasEdit_mutant == UNCHANGED tree /\ Menus(recording)

\* on_canvas_edit.
CanvasEdit == RefreshTree(Running) /\ Menus(recording)

-----------------------------------------------------------------------------
(* Edits that the controller makes.                                        *)

GraphEdit(g) ==
    ~recording /\ graph' = g /\ RefreshViews(Running) /\ Menus(FALSE) /\ UNCHANGED takeVars

SourceAdded ==
    /\ Cardinality(graph.sources) < MaxSources /\ ids[1] <= MaxIds
    /\ GraphEdit(WithSource(graph, ids[1]))
    /\ ids' = [ids EXCEPT ![1] = @ + 1]

BusAdded ==
    /\ Cardinality(Buses(graph)) < MaxBuses /\ ids[2] <= MaxIds
    /\ GraphEdit(WithBus(graph, ids[2]))
    /\ ids' = [ids EXCEPT ![2] = @ + 1]

OutputAdded ==
    /\ \E b \in Buses(graph) : graph.out[b] < MaxOutputs /\ GraphEdit(WithOutput(graph, b))
    /\ UNCHANGED ids

\* current_bus: that of the caret's row, or the first.
CurrentBus ==
    IF tree.caret # 0 /\ tree.rows[tree.caret].sel[2] # 0
    THEN tree.rows[tree.caret].sel[2] ELSE Lowest(Buses(graph))

OutputRemoved ==
    /\ Buses(graph) # {} /\ graph.out[CurrentBus] > 0
    /\ GraphEdit(WithoutOutput(graph, CurrentBus)) /\ UNCHANGED ids

\* ctl_adopt_graph, for a new session and for one that was loaded.
Loaded == WithOutput(WithEdge(WithBus(WithSource(EmptyGraph, 1), 1), 1, 1), 1)

GraphAdopted ==
    /\ ~recording
    /\ \/ graph' = EmptyGraph /\ ids' = <<1, 1>>
       \/ graph' = Loaded /\ ids' = <<2, 2>>
    /\ canvas' = Rebuilt([canvas EXCEPT !.cur = 0], graph')
    /\ told' = Lost(canvas, canvas') /\ RefreshTree(Running) /\ Menus(FALSE)
    /\ UNCHANGED takeVars

-----------------------------------------------------------------------------
(* Operations of the canvas.  One that comes as a command of the frame is  *)
(* refused by the controller while it records, and ends in refresh_views.  *)

\* apr_canvas_perform starts from the first node when there is no current one.
Here    == IF canvas.cur = 0 THEN [canvas EXCEPT !.cur = 1] ELSE canvas
Kind(c) == NodeAt(c, c.cur)[1]
Id(c)   == NodeAt(c, c.cur)[2]

Shows(c, command) ==
    /\ canvas' = IF command THEN Rebuilt(c, graph') ELSE c
    /\ IF command THEN RefreshTree(Running) ELSE UNCHANGED tree

\* First press: a source is held.
HoldEnd(command, cut) ==
    /\ canvas.nodes # <<>> /\ ~Running /\ (command => ~recording)
    /\ canvas.pending = 0 /\ Kind(Here) = "source"
    /\ told' = {"start"} /\ UNCHANGED <<graphVars, takeVars, offered>>
    /\ Shows([Here EXCEPT !.pending = Here.cur, !.cut = cut], command)

\* Every text is rewritten, and focus goes to the source.
Restated(c, g, s) ==
    LET new == Nodes(g)
    IN  [Dropped(c) EXCEPT !.nodes = new, !.cur = FindNode(new, <<"source", s, 0>>)]

\* Second press: the edge is made or cut, as the first press said.
MakeEdge(c, command) ==
    LET s == NodeAt(c, c.pending)[2]
        b == Id(c)
    IN  /\ Connected(graph, s, b) = c.cut
        /\ IF ~c.cut /\ Len(graph.in[b]) = MaxEdges
           THEN /\ told' = {"failed"} /\ UNCHANGED <<graph, offered>>
                /\ Shows(Dropped(c), command)
           ELSE /\ told' = {"done"}
                /\ graph' = IF c.cut THEN WithoutEdge(graph, s, b) ELSE WithEdge(graph, s, b)
                /\ canvas' = Restated(c, graph', s) /\ CanvasEdit

EdgeIsThereOrNot(c, command) ==
    /\ Connected(graph, NodeAt(c, c.pending)[2], Id(c)) # c.cut
    /\ told' = {IF c.cut THEN "none" ELSE "already"}
    /\ UNCHANGED <<graph, offered>> /\ Shows(Dropped(c), command)

FinishEdge(c, command) ==
    /\ ~Running /\ (command => ~recording)
    /\ c.pending # 0 /\ Kind(c) = "bus"
    /\ MakeEdge(c, command) \/ EdgeIsThereOrNot(c, command)
    /\ UNCHANGED <<ids, takeVars>>

\* A key of the canvas is refused only once the graph runs.
RefuseEdge(c) ==
    /\ canvas.nodes # <<>> /\ Running
    /\ canvas' = Dropped(c) /\ told' = {"busy"}
    /\ UNCHANGED <<graphVars, tree, offered, takeVars>>

ConnectCommand    == HoldEnd(TRUE, FALSE) \/ FinishEdge(Here, TRUE)
DisconnectCommand == HoldEnd(TRUE, TRUE)
DisconnectKey     == HoldEnd(FALSE, TRUE) \/ FinishEdge(Here, FALSE) \/ RefuseEdge(Here)

\* A click gives a node the keyboard; while an end is held it is the second press.
Click ==
    \E i \in DOMAIN canvas.nodes :
        LET c == [canvas EXCEPT !.cur = i]
        IN  \/ c.pending # 0 /\ (FinishEdge(c, FALSE) \/ RefuseEdge(c))
            \/ /\ c.pending = 0 \/ (~Running /\ Kind(c) # "bus")
               /\ canvas' = c /\ told' = {}
               /\ UNCHANGED <<graphVars, tree, offered, takeVars>>

\* Delete is a command.
RemoveNode ==
    /\ canvas.nodes # <<>> /\ ~recording
    /\ graph' = CASE Kind(Here) = "source" -> WithoutSource(graph, Id(Here))
                  [] Kind(Here) = "bus"    -> WithoutBus(graph, Id(Here))
                  [] Kind(Here) = "output" -> WithoutOutput(graph, Id(Here))
    /\ canvas' = Rebuilt([canvas EXCEPT !.cur = 0], graph')
    /\ told' = Lost(canvas, canvas') /\ CanvasEdit
    /\ UNCHANGED <<ids, takeVars>>

Restate(c, g) == [c EXCEPT !.nodes[c.cur].says = Says(g, NodeAt(c, c.cur))]

\* do_gain, from the level that is presented.
Gain(step) ==
    /\ canvas.nodes # <<>> /\ ~Running
    /\ Kind(Here) = "source" /\ BusesOf(graph, Id(Here)) # {}
    /\ LET n == Level(graph, Id(Here)) + step
       IN  graph' = WithLevel(graph, Id(Here), IF n < MinLevel THEN MinLevel
                                               ELSE IF n > MaxLevel THEN MaxLevel ELSE n)
    /\ canvas' = Restate(Here, graph') /\ CanvasEdit
    /\ told' = {} /\ UNCHANGED <<ids, takeVars>>

CancelEdge ==
    /\ canvas.pending # 0 /\ canvas' = Dropped(canvas) /\ told' = {"cancelled"}
    /\ UNCHANGED <<graphVars, tree, offered, takeVars>>

-----------------------------------------------------------------------------
(* Moving.                                                                 *)

Downstream(c) ==
    CASE Kind(c) = "source" /\ BusesOf(graph, Id(c)) # {} ->
             FindNode(c.nodes, <<"bus", Lowest(BusesOf(graph, Id(c))), 0>>)
      [] Kind(c) = "bus" -> FindNode(c.nodes, <<"output", Id(c), 1>>)
      [] OTHER -> 0

Upstream(c) ==
    CASE Kind(c) = "output" -> FindNode(c.nodes, <<"bus", Id(c), 0>>)
      [] Kind(c) = "bus" /\ graph.in[Id(c)] # <<>> ->
             FindNode(c.nodes, <<"source", graph.in[Id(c)][1].source, 0>>)
      [] OTHER -> 0

\* Up and down stay in the column of a kind.
InColumn(c) ==
    {i \in {c.cur - 1, c.cur + 1} \cap DOMAIN c.nodes : c.nodes[i].kind = Kind(c)}

Move ==
    /\ canvas.nodes # <<>>
    /\ \E i \in {1, Len(canvas.nodes), Here.cur - 1, Here.cur + 1,
                 Downstream(Here), Upstream(Here)} \cup InColumn(Here) :
           i \in DOMAIN canvas.nodes /\ canvas' = [canvas EXCEPT !.cur = i]
    /\ told' = {}
    /\ UNCHANGED <<graphVars, tree, offered, takeVars>>

\* on_tree_select: the current node follows the caret, and not the keyboard.
Follow(sel) ==
    LET i == FindNode(canvas.nodes, NodeKey(sel))
    IN  canvas' = IF i = 0 THEN canvas ELSE [canvas EXCEPT !.cur = i]

MoveCaret ==
    /\ tree.caret # 0
    /\ \E i \in DOMAIN tree.rows : tree' = [tree EXCEPT !.caret = i] /\ Follow(tree.rows[i].sel)
    /\ told' = {} /\ UNCHANGED <<graphVars, offered, takeVars>>

ActivateRow ==
    /\ tree.caret # 0 /\ Follow(tree.rows[tree.caret].sel)
    /\ told' = {} /\ UNCHANGED <<graphVars, tree, offered, takeVars>>

\* cycle_pane.  A tree without a caret puts it on its first row.
ToTree ==
    /\ tree.caret = 0 /\ tree' = [tree EXCEPT !.caret = 1] /\ Follow(tree.rows[1].sel)
    /\ told' = {} /\ UNCHANGED <<graphVars, offered, takeVars>>

ToCanvas ==
    /\ canvas.nodes # <<>> /\ canvas' = Here
    /\ told' = {} /\ UNCHANGED <<graphVars, tree, offered, takeVars>>

-----------------------------------------------------------------------------
(* Recording, as the views see it.                                         *)

\* The thread is made before the views are rebuilt, and may arm the graph before it.
StartRecording ==
    /\ offered /\ ~recording /\ recording' = TRUE
    /\ \E armed \in BOOLEAN :
           /\ loop' = IF armed THEN "running" ELSE "arming"
           /\ notices' = IF armed THEN <<"started">> ELSE <<>>
           /\ graph' = graph /\ RefreshViews(armed) /\ Menus(TRUE)
    /\ UNCHANGED ids

Posts(from, to, m) ==
    /\ loop = from /\ loop' = to /\ notices' = Append(notices, m)
    /\ told' = {} /\ UNCHANGED <<graphVars, views, recording>>

Run    == Posts("arming", "running", "started")
Notice == Len(notices) < MaxNotices /\ Posts("running", "running", "other")
EndRun == Posts("running", "over", "stopped")

\* handle_notice has no case for the start.
TakeStarted ==
    /\ notices # <<>> /\ Head(notices) = "started" /\ notices' = Tail(notices)
    /\ told' = {} /\ UNCHANGED <<graphVars, views, recording, loop>>

TakeNotice ==
    /\ notices # <<>> /\ Head(notices) = "other" /\ notices' = Tail(notices)
    /\ graph' = graph /\ RefreshViews(Running)
    /\ UNCHANGED <<ids, offered, recording, loop>>

TakeStopped ==
    /\ notices # <<>> /\ Head(notices) = "stopped" /\ notices' = Tail(notices)
    /\ recording' = FALSE /\ loop' = "none"
    /\ graph' = graph /\ RefreshViews(Running) /\ Menus(FALSE)
    /\ UNCHANGED ids

-----------------------------------------------------------------------------
Edits    == SourceAdded \/ BusAdded \/ OutputAdded \/ OutputRemoved \/ GraphAdopted
Edges    == ConnectCommand \/ DisconnectCommand \/ DisconnectKey \/ Click \/ CancelEdge
Moves    == Move \/ MoveCaret \/ ActivateRow \/ ToTree \/ ToCanvas
Recorder == Run \/ Notice \/ EndRun \/ TakeStarted \/ TakeNotice \/ TakeStopped

ViewsNext ==
    \/ Edits \/ Edges \/ RemoveNode \/ (\E step \in {-1, 1} : Gain(step)) \/ Moves
    \/ StartRecording \/ Recorder

ViewsSpec == ViewsInit /\ [][ViewsNext]_viewsVars

-----------------------------------------------------------------------------
(* Properties.                                                             *)

\* After every handler the nodes, what each of them states, the rows of the tree
\* and the menus are those of the graph, whichever way it was edited (a view is
\* a projection, and a key's edit does not pass the controller).
ViewsAgree ==
    /\ canvas.nodes = Nodes(graph)
    /\ \E run \in BOOLEAN : tree.rows = Rows(graph, run)
    /\ offered = (~recording /\ HasOutput(graph))

\* No bus has an edge from a source that is not in the graph
\* (apr_graph_remove_source: every edge goes first).
EdgesHaveEnds == \A b \in Buses(graph) : Sources(graph.in[b]) \subseteq graph.sources

\* Neither the start of a half-made edge nor its end goes without a sentence,
\* whoever ends it (canvas.c: a mode that ends without a word).
GestureIsTold ==
    [][/\ canvas.pending = 0 /\ canvas'.pending # 0 => told' = {"start"}
       /\ canvas.pending # 0 /\ canvas'.pending = 0 =>
              told' \cap {"done", "failed", "none", "already", "busy", "cancelled"} # {}]_viewsVars

\* While it records, the row of a bus says so, once the notices have been handled
\* (controller.c, start_recording: the "recording" clauses exist for this moment).
TreeSaysRecording ==
    Running /\ notices = <<>> =>
        \A i \in DOMAIN tree.rows : tree.rows[i].sel[1] = "bus" => tree.rows[i].says[3]
=============================================================================
