---------------------------- MODULE WindowProofs ----------------------------
(***************************************************************************)
(* The window keeps to the graph it shows.                                 *)
(*                                                                         *)
(* Documents: however many files and dialogs there are, the graph that is  *)
(* recorded is never replaced under its recording: whoever adopts a graph  *)
(* looks at the recording in the same handler, after its last question.    *)
(* Nor is a graph replaced that holds changes nobody agreed to lose: the   *)
(* open asks first and replaces last, but while its dialogs wait there is  *)
(* no handler left that edits, since the frame is disabled and a command   *)
(* that edits has nothing below it.                                        *)
(*                                                                         *)
(* Canvas: both views are those of the graph after every handler.  Most    *)
(* handlers rebuild them; the one that does not (do_gain) writes the text  *)
(* of the current node again, and a level is stated by no other node,      *)
(* since a list in order has each source of the graph at one place.        *)
(***************************************************************************)
EXTENDS Documents, Canvas, FiniteSetTheorems, SequenceTheorems, TLAPS

LEMMA EditKeeps == ASSUME GraphOutlivesTake, Edit PROVE GraphOutlivesTake'
<1>1. UNCHANGED <<take, taken>>
  BY DEF Edit, AskForSource, AskForOutput, AskForName, AskWhichOutput, AddSource, AddOutput,
         AddAction, RenameBus, RemoveOutput, AskGraph, EditCanvas
<1>2. UNCHANGED gid
  BY DEF Edit, AskForSource, AskForOutput, AskForName, AskWhichOutput, AddSource, AddOutput,
         AddAction, RenameBus, RemoveOutput, AskGraph, EditCanvas, ChangeBus, Edited, model
<1> QED
  BY <1>1, <1>2 DEF GraphOutlivesTake, Recording

LEMMA SessionKeeps == ASSUME GraphOutlivesTake, Session PROVE GraphOutlivesTake'
<1>1. UNCHANGED <<take, taken>>
  BY DEF Session, New, MakeNew, AskToDiscard, DiscardForNew, Open, DiscardForOpen, LoadFails,
         AcceptReport, Consent, Save, SaveTo, AskWhereToSave, Load, SaveAs
<1>2. ~Recording \/ UNCHANGED gid
  BY DEF Session, New, MakeNew, AskToDiscard, DiscardForNew, Open, DiscardForOpen, LoadFails,
         AcceptReport, Consent, Save, SaveTo, AskWhereToSave, Load, SaveAs, Adopt, model
<1> QED
  BY <1>1, <1>2 DEF GraphOutlivesTake, Recording

\* No command, however its dialogs are nested, replaces or destroys the graph
\* under a recording (apr_controller_set_graph, ctl_adopt_graph).
THEOREM TakeKeepsItsGraph == Spec => []GraphOutlivesTake
<1>1. Init => GraphOutlivesTake
  BY DEF Init, GraphOutlivesTake, Recording
<1>2. GraphOutlivesTake /\ [Next]_vars => GraphOutlivesTake'
  <2> SUFFICES ASSUME GraphOutlivesTake, [Next]_vars PROVE GraphOutlivesTake'
    OBVIOUS
  <2>1. CASE Edit
    BY <2>1, EditKeeps
  <2>2. CASE Session
    BY <2>2, SessionKeeps
  <2>3. CASE Cancel \/ Take \/ UNCHANGED vars
    BY <2>3 DEF Cancel, Take, Start, Arm, Halt, Finish, vars, model, GraphOutlivesTake, Recording
  <2> QED
    BY <2>1, <2>2, <2>3 DEF Next
<1> QED
  BY <1>1, <1>2, PTL DEF Spec

-----------------------------------------------------------------------------
(* Documents: the handlers that wait.                                      *)

Opens     == {"discard", "choose", "report", "consent"}
Replacing == Opens \ {"discard"}

\* What the handlers wait in.
Waits(s) == {s[i].k : i \in 1 .. Len(s)}

\* Only an open waits on top of another handler.
Shape(s) ==
    /\ \E S : s \in Seq(S)
    /\ \A i \in 1 .. Len(s) : i > 1 => s[i].k \in Opens

\* An open that has asked has nothing to ask about.
Guarded ==
    /\ Shape(stack)
    /\ unsaved => dirty /\ Waits(stack) \cap Replacing = {}

LEMMA ShapeBelow ==
    ASSUME NEW s, Shape(s), s # <<>>, NEW r, r = SubSeq(s, 1, Len(s) - 1)
    PROVE  /\ Shape(r) /\ Waits(r) \subseteq Waits(s)
           /\ s[Len(s)].k \in Waits(s)
           /\ Len(r) = 0 => r = <<>>
           /\ s[Len(s)].k \notin Opens => r = <<>>
<1>1. PICK S : s \in Seq(S)
  BY DEF Shape
<1>2. Len(s) \in Nat \ {0}
  BY <1>1, EmptySeq
<1>3. r \in Seq(S) /\ Len(r) = Len(s) - 1 /\ \A i \in 1 .. Len(r) : r[i] = s[i]
  <2>1. PICK n \in Nat : Len(s) = n + 1
    <3>1. Len(s) - 1 \in Nat /\ Len(s) = (Len(s) - 1) + 1
      BY <1>2
    <3> QED
      BY <3>1
  <2>2. r = SubSeq(s, 1, n) /\ \A i \in 1 .. n : s[i] \in S
    BY <1>1, <2>1, ElementOfSeq
  <2>3. /\ r \in Seq(S)
        /\ Len(r) = IF 1 <= n THEN n - 1 + 1 ELSE 0
        /\ \A i \in 1 .. n - 1 + 1 : r[i] = s[1 + i - 1]
    BY <2>2, SubSeqProperties
  <2>4. Len(r) = n
    BY <2>3
  <2>5. \A i \in 1 .. n : r[i] = s[i]
    BY <2>3
  <2> QED
    BY <2>1, <2>3, <2>4, <2>5
<1>4. s[Len(s)].k \notin Opens => Len(r) = 0
  BY <1>2, <1>3 DEF Shape
<1>5. Len(r) = 0 => r = <<>>
  BY <1>3, EmptySeq
<1>6. Shape(r)
  <2>1. \A i \in 1 .. Len(r) : i > 1 => r[i].k \in Opens
    BY <1>2, <1>3 DEF Shape
  <2> QED
    BY <1>3, <2>1 DEF Shape
<1>7. Waits(r) \subseteq Waits(s) /\ s[Len(s)].k \in Waits(s)
  BY <1>2, <1>3 DEF Waits
<1> QED
  BY <1>4, <1>5, <1>6, <1>7

LEMMA ShapeAbove ==
    ASSUME NEW r, Shape(r), NEW k, NEW a, r = <<>> \/ k \in Opens
    PROVE  LET s == Append(r, [k |-> k, a |-> a])
           IN  Shape(s) /\ Waits(s) \subseteq Waits(r) \cup {k}
<1> DEFINE x == [k |-> k, a |-> a]
           s == Append(r, x)
<1>1. PICK S : r \in Seq(S)
  BY DEF Shape
<1>2. Len(r) \in Nat /\ \A i \in 1 .. Len(r) : r[i] \in S
  BY <1>1
<1>3. r \in Seq(S \cup {x})
  BY <1>1
<1>4. s \in Seq(S \cup {x}) /\ Len(s) = Len(r) + 1 /\ s[Len(s)] = x
  BY <1>3
<1>5. \A i \in 1 .. Len(r) : s[i] = r[i]
  BY <1>3
<1>6. x.k = k
  OBVIOUS
<1>7. r = <<>> => Len(r) = 0
  OBVIOUS
<1>8. ASSUME NEW i \in 1 .. Len(s) PROVE i \in 1 .. Len(r) \/ i = Len(s)
  BY <1>2, <1>4
<1>9. Shape(s)
  <2>1. ASSUME NEW i \in 1 .. Len(s), i > 1 PROVE s[i].k \in Opens
    <3>1. CASE i \in 1 .. Len(r)
      BY <2>1, <3>1, <1>5 DEF Shape
    <3>2. CASE i = Len(s)
      BY <2>1, <3>2, <1>4, <1>6, <1>7
    <3> QED
      BY <1>8, <3>1, <3>2
  <2> QED
    BY <2>1, <1>4 DEF Shape
<1>10. Waits(s) \subseteq Waits(r) \cup {k}
  BY <1>4, <1>5, <1>6, <1>8 DEF Waits
<1> QED
  BY <1>9, <1>10

LEMMA Bottom == Shape(<<>>) /\ Waits(<<>>) = {}
<1>1. <<>> \in Seq({}) /\ Len(<<>>) = 0
  OBVIOUS
<1> QED
  BY <1>1 DEF Shape, Waits

\* What a step does to the handlers that wait.
LEMMA Returning ==
    ASSUME Shape(stack), stack # <<>>, Returns
    PROVE  Shape(stack') /\ Waits(stack') \subseteq Waits(stack) /\ Top.k \in Waits(stack)
BY ShapeBelow DEF Returns, Below, Top

LEMMA Going ==
    ASSUME Shape(stack), stack # <<>>, NEW k \in Opens, NEW a, Then(k, a)
    PROVE  /\ Shape(stack') /\ Waits(stack') \subseteq Waits(stack) \cup {k}
           /\ Top.k \in Waits(stack)
<1>1. Shape(Below) /\ Waits(Below) \subseteq Waits(stack) /\ Top.k \in Waits(stack)
  BY ShapeBelow DEF Below, Top
<1>2. Shape(stack') /\ Waits(stack') \subseteq Waits(Below) \cup {k}
  BY <1>1, ShapeAbove DEF Then
<1> QED
  BY <1>1, <1>2

LEMMA Asking ==
    ASSUME Shape(stack), NEW k, NEW a, AtFrame \/ k \in Opens, Asks(k, a)
    PROVE  Shape(stack') /\ Waits(stack') \subseteq Waits(stack) \cup {k}
BY ShapeAbove DEF Asks, AtFrame

\* A handler that edits has nothing below it.
LEMMA EditingAlone ==
    ASSUME Shape(stack), stack # <<>>, Top.k \notin Opens
    PROVE  /\ Returns => stack' = <<>>
           /\ \A k, a : Then(k, a) => stack' = Append(<<>>, [k |-> k, a |-> a])
<1>1. Below = <<>>
  BY ShapeBelow DEF Below, Top
<1> QED
  BY <1>1 DEF Returns, Then

LEMMA EditGuarded == ASSUME Guarded, Edit PROVE Guarded' /\ UNCHANGED gid
<1>1. UNCHANGED gid /\ (unsaved' => dirty')
  BY DEF Edit, AskForSource, AskForOutput, AskForName, AskWhichOutput, AddSource, AddOutput,
         AddAction, RenameBus, RemoveOutput, AskGraph, EditCanvas, ChangeBus, Edited, model,
         file, Guarded
<1> DEFINE Asked == {"source", "output", "rename", "remove", "adding", "editing"}
<1>2. stack' = <<>> \/ \E k \in Asked : \E a : stack' = Append(<<>>, [k |-> k, a |-> a])
  <2>1. CASE AskForSource \/ AskForOutput \/ AskForName \/ AskWhichOutput \/ AskGraph
    BY <2>1 DEF AskForSource, AskForOutput, AskForName, AskWhichOutput, AskGraph, Asks, AtFrame
  <2>2. CASE AddSource \/ AddAction \/ RenameBus \/ RemoveOutput \/ EditCanvas
    <3>1. stack # <<>> /\ Top.k \notin Opens /\ Returns
      BY <2>2 DEF AddSource, AddAction, RenameBus, RemoveOutput, EditCanvas, At, Opens
    <3> QED
      BY <3>1, EditingAlone DEF Guarded
  <2>3. CASE AddOutput
    <3>1. stack # <<>> /\ Top.k \notin Opens /\ (Returns \/ Then("adding", 0))
      BY <2>3 DEF AddOutput, At, Opens
    <3> QED
      BY <3>1, EditingAlone DEF Guarded
  <2> QED
    BY <2>1, <2>2, <2>3 DEF Edit
<1>3. Shape(stack') /\ Waits(stack') \subseteq Asked
  <2>1. CASE stack' = <<>>
    BY <2>1, Bottom
  <2>2. ASSUME NEW k \in Asked, NEW a, stack' = Append(<<>>, [k |-> k, a |-> a])
        PROVE  Shape(stack') /\ Waits(stack') \subseteq Asked
    <3>1. Shape(stack') /\ Waits(stack') \subseteq Waits(<<>>) \cup {k}
      BY <2>2, Bottom, ShapeAbove
    <3> QED
      BY <3>1, Bottom
  <2> QED
    BY <1>2, <2>1, <2>2
<1>4. Asked \cap Replacing = {}
  BY DEF Replacing, Opens
<1> QED
  BY <1>1, <1>3, <1>4 DEF Guarded

LEMMA SessionGuarded ==
    ASSUME Guarded, Session PROVE Guarded' /\ (gid' # gid => ~unsaved \/ At("new"))
<1> USE DEF Guarded
<1>1. CASE New \/ Save
  BY <1>1 DEF New, MakeNew, Save, SaveTo, file, model
<1>2. CASE AskToDiscard \/ AskWhereToSave
  <2>1. PICK k \in {"new", "save"} : AtFrame /\ Asks(k, 0) /\ UNCHANGED <<gid, file>>
    BY <1>2 DEF AskToDiscard, AskWhereToSave, model
  <2>2. Shape(stack') /\ Waits(stack') \subseteq Waits(stack) \cup {k}
    BY <2>1, Asking
  <2>3. k \notin Replacing
    BY DEF Replacing, Opens
  <2> QED
    BY <2>1, <2>2, <2>3 DEF file
<1>3. CASE DiscardForNew
  <2>1. At("new") /\ ~unsaved' /\ stack # <<>> /\ Returns
    BY <1>3 DEF DiscardForNew, MakeNew, At
  <2> QED
    BY <2>1, Returning
<1>4. CASE Open
  <2>1. PICK k \in Opens : Asks(k, 0) /\ UNCHANGED <<gid, file>> /\ (dirty => k = "discard")
    BY <1>4 DEF Open, Opens, model
  <2>2. Shape(stack') /\ Waits(stack') \subseteq Waits(stack) \cup {k}
    BY <2>1, Asking
  <2>3. k = "discard" => k \notin Replacing
    BY DEF Replacing
  <2> QED
    BY <2>1, <2>2, <2>3 DEF file
<1>5. CASE DiscardForOpen
  <2>1. stack # <<>> /\ Then("choose", 0) /\ ~unsaved' /\ UNCHANGED gid
    BY <1>5 DEF DiscardForOpen, At, model
  <2> QED
    BY <2>1, Going DEF Opens
<1>6. CASE AcceptReport \/ Consent \/ LoadFails \/ \E f \in Files : Load(f)
  <2>1. stack # <<>> /\ Top.k \in Replacing
    BY <1>6 DEF AcceptReport, Consent, LoadFails, Load, At, Replacing, Opens
  <2>2. Top.k \in Waits(stack)
    BY <2>1, ShapeBelow DEF Top
  <2>3. ~unsaved
    BY <2>1, <2>2
  <2>4. ~unsaved'
    BY <2>3, <1>6 DEF AcceptReport, Consent, LoadFails, Load, Adopt, file
  <2>5. Returns \/ \E k \in Opens : \E a : Then(k, a)
    BY <1>6 DEF AcceptReport, Consent, LoadFails, Load, Opens
  <2>6. Shape(stack')
    BY <2>1, <2>5, Returning, Going
  <2> QED
    BY <2>3, <2>4, <2>6
<1>7. CASE \E f \in Files : SaveAs(f)
  <2>1. stack # <<>> /\ Returns /\ UNCHANGED gid /\ (UNCHANGED file \/ ~unsaved')
    BY <1>7 DEF SaveAs, SaveTo, At, model
  <2> QED
    BY <2>1, Returning DEF file
<1> QED
  BY <1>1, <1>2, <1>3, <1>4, <1>5, <1>6, <1>7 DEF Session

LEMMA AlwaysGuarded == Spec => []Guarded
<1>1. Init => Guarded
  BY Bottom DEF Init, Guarded
<1>2. Guarded /\ [Next]_vars => Guarded'
  <2> SUFFICES ASSUME Guarded, [Next]_vars PROVE Guarded'
    OBVIOUS
  <2>1. CASE Edit
    BY <2>1, EditGuarded
  <2>2. CASE Session
    BY <2>2, SessionGuarded
  <2>3. CASE Cancel
    BY <2>3, Returning DEF Cancel, Guarded, file
  <2>4. CASE Take \/ UNCHANGED vars
    BY <2>4 DEF Take, Start, Arm, Halt, Finish, vars, file, Guarded
  <2> QED
    BY <2>1, <2>2, <2>3, <2>4 DEF Next
<1> QED
  BY <1>1, <1>2, PTL DEF Spec

\* However many files are opened inside one another, and whatever is answered in
\* which order, no graph with changes is replaced unless the user agreed to lose
\* them (may_discard, apr_controller_open_session).
THEOREM NothingIsLostUnasked == Spec => NothingLostUnasked
<1>1. Guarded /\ [Next]_vars => [gid' # gid => ~unsaved \/ At("new")]_vars
  <2> SUFFICES ASSUME Guarded, Next, gid' # gid PROVE ~unsaved \/ At("new")
    OBVIOUS
  <2>1. CASE Edit
    BY <2>1, EditGuarded
  <2>2. CASE Session
    BY <2>2, SessionGuarded
  <2>3. CASE Cancel \/ Take
    BY <2>3 DEF Cancel, Take, Start, Arm, Halt, Finish, model
  <2> QED
    BY <2>1, <2>2, <2>3 DEF Next
<1> QED
  BY <1>1, AlwaysGuarded, PTL DEF Spec, NothingLostUnasked

-----------------------------------------------------------------------------
(* Canvas: lists in order.                                                 *)

\* A list has a place for each member of a finite set.
Lists(f, S) ==
    /\ f \in [1 .. Cardinality(S) -> S] /\ Cardinality(S) \in Nat
    /\ \A i, j \in 1 .. Cardinality(S) : f[i] = f[j] => i = j

Kinds   == {"source", "bus", "output"}
Triples == Kinds \X Nat \X Nat

\* The keys of one kind.
OfKind(S, kind) == S \in SUBSET Triples /\ IsFiniteSet(S) /\ \A k \in S : k[1] = kind

LEMMA LowerIsTotal ==
    ASSUME NEW S, NEW kind, OfKind(S, kind)
    PROVE  /\ \A j, k \in S : j = k \/ Lower(j, k) \/ Lower(k, j)
           /\ \A k \in S : ~Lower(k, k)
           /\ \A i, j, k \in S : Lower(i, j) /\ Lower(j, k) => Lower(i, k)
<1>1. \A k \in S : k = <<k[1], k[2], k[3]>> /\ k[2] \in Nat /\ k[3] \in Nat /\ k[1] = kind
  BY DEF OfKind, Triples
<1> QED
  BY <1>1 DEF Lower

LEMMA InOrderLists ==
    ASSUME NEW S, NEW kind, OfKind(S, kind)
    PROVE  Lists(InOrder(S, Lower), S)
<1> DEFINE n        == Cardinality(S)
           below(x) == {y \in S : Lower(y, x)}
           rank     == [x \in S |-> Cardinality(below(x)) + 1]
<1>1. IsFiniteSet(S) /\ n \in Nat
  BY FS_CardinalityType DEF OfKind
<1>2. \A x \in S : below(x) \in SUBSET (S \ {x})
  BY LowerIsTotal
<1>3. \A x \in S : IsFiniteSet(S \ {x}) /\ Cardinality(S \ {x}) = n - 1
  BY <1>1, FS_RemoveElement
<1>4. \A x \in S : /\ IsFiniteSet(below(x)) /\ Cardinality(below(x)) <= n - 1
                   /\ Cardinality(below(x)) \in Nat
  <2> TAKE x \in S
  <2>1. IsFiniteSet(below(x)) /\ Cardinality(below(x)) <= Cardinality(S \ {x})
    BY <1>2, <1>3, FS_Subset
  <2> QED
    BY <2>1, <1>3, FS_CardinalityType
<1>5. rank \in [S -> 1 .. n]
  <2> SUFFICES ASSUME NEW x \in S PROVE Cardinality(below(x)) + 1 \in 1 .. n
    OBVIOUS
  <2> HIDE DEF below, n
  <2> QED
    BY <1>4, <1>1
<1> HIDE DEF n
<1>5a. \A x \in S : rank[x] = Cardinality(below(x)) + 1
  OBVIOUS
<1>6. \A x, y \in S : Lower(x, y) => rank[x] < rank[y]
  <2> SUFFICES ASSUME NEW x \in S, NEW y \in S, Lower(x, y)
               PROVE  Cardinality(below(x)) < Cardinality(below(y))
    <3> HIDE DEF rank, below
    <3> QED
      BY <1>4, <1>5a
  <2>1. below(x) \in SUBSET below(y) /\ x \in below(y) /\ x \notin below(x)
    BY LowerIsTotal
  <2> HIDE DEF below
  <2>2. /\ Cardinality(below(x)) <= Cardinality(below(y))
        /\ Cardinality(below(y)) = Cardinality(below(x)) => below(y) = below(x)
    BY <2>1, <1>4, FS_Subset
  <2> QED
    BY <2>1, <2>2, <1>4
<1> HIDE DEF rank, below
<1>7. \A x, y \in S : rank[x] = rank[y] => x = y
  BY <1>5, <1>6, <1>1, LowerIsTotal
<1>8. rank \in Surjection(S, 1 .. n)
  <2>1. rank \in Injection(S, 1 .. n)
    BY <1>5, <1>7 DEF Injection, IsInjective
  <2>2. IsFiniteSet(1 .. n) /\ Cardinality(1 .. n) = n
    BY <1>1, FS_Interval
  <2> QED
    BY <2>1, <2>2, FS_Injection DEF n
<1> DEFINE f == [i \in 1 .. n |-> CHOOSE x \in S : rank[x] = i]
<1>9. \A i \in 1 .. n : f[i] \in S /\ rank[f[i]] = i
  BY <1>8 DEF Surjection
<1>10. \A i, j \in 1 .. n : i < j => Lower(f[i], f[j])
  <2> SUFFICES ASSUME NEW i \in 1 .. n, NEW j \in 1 .. n, i < j PROVE Lower(f[i], f[j])
    OBVIOUS
  <2> HIDE DEF f
  <2>1. f[i] # f[j] /\ ~Lower(f[j], f[i])
    BY <1>9, <1>6
  <2> QED
    BY <2>1, <1>9, LowerIsTotal
<1>11. f \in [1 .. n -> S] /\ \A i, j \in DOMAIN f : i < j => Lower(f[i], f[j])
  BY <1>9, <1>10
<1> HIDE DEF f
<1> DEFINE o == InOrder(S, Lower)
<1>12. o \in [1 .. n -> S] /\ \A i, j \in DOMAIN o : i < j => Lower(o[i], o[j])
  BY <1>11 DEF InOrder, n
<1> HIDE DEF o
<1>13. \A i, j \in 1 .. n : o[i] = o[j] => i = j
  <2> SUFFICES ASSUME NEW i \in 1 .. n, NEW j \in 1 .. n, i # j PROVE o[i] # o[j]
    OBVIOUS
  <2>1. i < j \/ j < i
    BY <1>1
  <2>2. Lower(o[i], o[j]) \/ Lower(o[j], o[i])
    BY <2>1, <1>12
  <2> QED
    BY <2>2, <1>12, LowerIsTotal
<1> QED
  BY <1>1, <1>12, <1>13 DEF Lists, o, n

\* What the handlers keep of the graph.
Shaped(g) ==
    /\ g = [sources |-> g.sources, in |-> g.in, out |-> g.out]
    /\ g.sources \in SUBSET Nat /\ IsFiniteSet(g.sources)
    /\ Buses(g) \in SUBSET Nat /\ IsFiniteSet(Buses(g))
    /\ g.out \in [Buses(g) -> Int]

LEMMA ImageIsFinite ==
    ASSUME NEW S, IsFiniteSet(S), NEW T, NEW f \in [S -> T], \A y \in T : \E x \in S : f[x] = y
    PROVE  IsFiniteSet(T)
<1>1. f \in Surjection(S, T)
  BY DEF Surjection
<1> QED
  BY <1>1, FS_Surjection

LEMMA OutputsOfBus ==
    ASSUME NEW b, NEW n \in Int PROVE IsFiniteSet({<<"output", b, i>> : i \in 1 .. n})
<1> DEFINE S == 1 .. n
           T == {<<"output", b, i>> : i \in S}
           f == [i \in S |-> <<"output", b, i>>]
<1>1. IsFiniteSet(S)
  BY FS_Interval
<1>2. f \in [S -> T] /\ \A y \in T : \E i \in S : f[i] = y
  OBVIOUS
<1> HIDE DEF S, T, f
<1>3. IsFiniteSet(T)
  BY <1>1, <1>2, ImageIsFinite
<1> QED
  BY <1>3 DEF S, T

LEMMA OutputsAreKeys ==
    ASSUME NEW g, Shaped(g) PROVE OfKind(Outputs(g), "output")
<1> DEFINE of   == [b \in Buses(g) |-> {<<"output", b, i>> : i \in 1 .. g.out[b]}]
           sets == {{<<"output", b, i>> : i \in 1 .. g.out[b]} : b \in Buses(g)}
<1>1. IsFiniteSet(sets)
  <2>1. of \in [Buses(g) -> sets] /\ \A T \in sets : \E b \in Buses(g) : of[b] = T
    OBVIOUS
  <2>2. IsFiniteSet(Buses(g))
    BY DEF Shaped
  <2> HIDE DEF of, sets
  <2> QED
    BY <2>1, <2>2, ImageIsFinite
<1>2. \A T \in sets : IsFiniteSet(T)
  <2> SUFFICES ASSUME NEW b \in Buses(g)
               PROVE  IsFiniteSet({<<"output", b, i>> : i \in 1 .. g.out[b]})
    OBVIOUS
  <2> DEFINE n == g.out[b]
  <2>1. n \in Int
    BY DEF Shaped
  <2> HIDE DEF n
  <2>2. IsFiniteSet({<<"output", b, i>> : i \in 1 .. n})
    BY <2>1, OutputsOfBus
  <2> QED
    BY <2>2 DEF n
<1>3. IsFiniteSet(Outputs(g))
  <2> HIDE DEF sets
  <2>1. IsFiniteSet(UNION sets)
    BY <1>1, <1>2, FS_UNION
  <2> QED
    BY <2>1 DEF Outputs, sets
<1>4. \A k \in Outputs(g) : k \in Triples /\ k[1] = "output"
  <2> SUFFICES ASSUME NEW b \in Buses(g), NEW i \in 1 .. g.out[b]
               PROVE  <<"output", b, i>> \in Triples
    BY DEF Outputs
  <2>1. b \in Nat /\ g.out[b] \in Int
    BY DEF Shaped
  <2>2. i \in Nat
    BY <2>1
  <2> QED
    BY <2>1, <2>2 DEF Triples, Kinds
<1> QED
  BY <1>3, <1>4 DEF OfKind

LEMMA NamesAreKeys ==
    ASSUME NEW S \in SUBSET Nat, IsFiniteSet(S), NEW kind \in Kinds, NEW T,
           \A s \in S : <<kind, s, 0>> \in T, \A k \in T : \E s \in S : k = <<kind, s, 0>>
    PROVE  OfKind(T, kind)
<1> DEFINE f == [s \in S |-> <<kind, s, 0>>]
<1>1. f \in [S -> T] /\ \A y \in T : \E s \in S : f[s] = y
  OBVIOUS
<1>2. \A k \in T : k[1] = kind /\ k \in Triples
  BY DEF Triples
<1> HIDE DEF f
<1>3. IsFiniteSet(T)
  BY <1>1, ImageIsFinite
<1> QED
  BY <1>2, <1>3 DEF OfKind

LEMMA ListIsSequence ==
    ASSUME NEW f, NEW S, Lists(f, S)
    PROVE  f \in Seq(S) /\ Len(f) = Cardinality(S) /\ DOMAIN f = 1 .. Len(f)
  BY DEF Lists

\* The nodes: their kinds, and that no two of them stand for one source.
KeysAgree(g, keys) ==
    /\ keys \in Seq(Triples)
    /\ \A i \in DOMAIN keys : keys[i][1] \in {"source", "bus", "output"}
    /\ \A i \in DOMAIN keys : keys[i][1] = "source" => keys[i][3] = 0
    /\ \A i \in DOMAIN keys : keys[i][1] = "bus" => keys[i][2] \in Buses(g)
    /\ \A i, j \in DOMAIN keys : keys[i] = keys[j] /\ keys[i][1] = "source" => i = j

LEMMA KeysOfGraph == ASSUME NEW g, Shaped(g) PROVE KeysAgree(g, Keys(g))
<1> DEFINE A == {<<"source", s, 0>> : s \in g.sources}
           B == {<<"bus", b, 0>> : b \in Buses(g)}
           C == Outputs(g)
           a == InOrder(A, Lower)
           b == InOrder(B, Lower)
           c == InOrder(C, Lower)
<1>1. OfKind(A, "source") /\ OfKind(B, "bus") /\ OfKind(C, "output")
  <2>1. /\ g.sources \in SUBSET Nat /\ IsFiniteSet(g.sources)
        /\ Buses(g) \in SUBSET Nat /\ IsFiniteSet(Buses(g))
    BY DEF Shaped
  <2>2. OfKind(A, "source")
    <3>1. /\ \A s \in g.sources : <<"source", s, 0>> \in A
          /\ \A k \in A : \E s \in g.sources : k = <<"source", s, 0>>
      OBVIOUS
    <3> HIDE DEF A
    <3> QED
      BY <2>1, <3>1, NamesAreKeys DEF Kinds
  <2>3. OfKind(B, "bus")
    <3>1. /\ \A s \in Buses(g) : <<"bus", s, 0>> \in B
          /\ \A k \in B : \E s \in Buses(g) : k = <<"bus", s, 0>>
      OBVIOUS
    <3> HIDE DEF B
    <3> QED
      BY <2>1, <3>1, NamesAreKeys DEF Kinds
  <2> QED
    BY <2>2, <2>3, OutputsAreKeys
<1>2. Lists(a, A) /\ Lists(b, B) /\ Lists(c, C)
  <2> HIDE DEF A, B, C
  <2> QED
    BY <1>1, InOrderLists
<1>3. Keys(g) = a \o b \o c
  BY DEF Keys
<1>4. (\A k \in A : k[3] = 0) /\ (\A k \in B : k[2] \in Buses(g))
  OBVIOUS
<1> HIDE DEF A, B, C, a, b, c
<1>5. /\ a \in Seq(A) /\ Len(a) \in Nat /\ DOMAIN a = 1 .. Len(a)
      /\ b \in Seq(B) /\ Len(b) \in Nat /\ DOMAIN b = 1 .. Len(b)
      /\ c \in Seq(C) /\ Len(c) \in Nat /\ DOMAIN c = 1 .. Len(c)
  BY <1>2, ListIsSequence
<1>6. /\ \A i \in DOMAIN a : a[i] \in A /\ a[i] \in Triples /\ a[i][1] = "source" /\ a[i][3] = 0
      /\ \A i \in DOMAIN b : b[i] \in B /\ b[i] \in Triples /\ b[i][1] = "bus"
                            /\ b[i][2] \in Buses(g)
      /\ \A i \in DOMAIN c : c[i] \in C /\ c[i] \in Triples /\ c[i][1] = "output"
  BY <1>1, <1>4, <1>5 DEF OfKind
<1>7. \A i, j \in DOMAIN a : a[i] = a[j] => i = j
  BY <1>2, <1>5, ListIsSequence DEF Lists
<1> DEFINE ab == a \o b
           k  == ab \o c
<1>8. /\ a \in Seq(Triples) /\ b \in Seq(Triples) /\ c \in Seq(Triples)
  BY <1>1, <1>5 DEF OfKind
<1>9. /\ ab \in Seq(Triples) /\ Len(ab) = Len(a) + Len(b)
      /\ \A i \in 1 .. Len(ab) : ab[i] = IF i <= Len(a) THEN a[i] ELSE b[i - Len(a)]
  BY <1>8
<1> HIDE DEF ab
<1>10. /\ k \in Seq(Triples) /\ Len(k) = Len(ab) + Len(c)
       /\ \A i \in 1 .. Len(k) : k[i] = IF i <= Len(ab) THEN ab[i] ELSE c[i - Len(ab)]
  <2>1. ab \in Seq(Triples) /\ c \in Seq(Triples)
    BY <1>8, <1>9
  <2> QED
    BY <2>1
<1> HIDE DEF k
<1>11. \A i \in 1 .. Len(k) : \/ i \in DOMAIN a /\ k[i] = a[i]
                              \/ i - Len(a) \in DOMAIN b /\ k[i] = b[i - Len(a)]
                              \/ i - Len(ab) \in DOMAIN c /\ k[i] = c[i - Len(ab)]
  BY <1>5, <1>9, <1>10
<1>12. KeysAgree(g, k)
  <2>1. DOMAIN k = 1 .. Len(k)
    BY <1>10
  <2>2. \A i \in DOMAIN k : k[i][1] \in {"source", "bus", "output"}
    BY <2>1, <1>11, <1>6
  <2>3. \A i \in DOMAIN k : k[i][1] = "source" => i \in DOMAIN a /\ k[i] = a[i]
    BY <2>1, <1>11, <1>6
  <2>4. \A i \in DOMAIN k : k[i][1] = "bus" => k[i][2] \in Buses(g)
    BY <2>1, <1>11, <1>6
  <2> QED
    BY <2>2, <2>3, <2>4, <1>6, <1>7, <1>10 DEF KeysAgree
<1> QED
  BY <1>3, <1>12 DEF ab, k

LEMMA LowestIsThere == ASSUME NEW S \in SUBSET Nat, S # {} PROVE Lowest(S) \in S
<1>1. PICK x \in S : \A y \in S : ~(<<y, x>> \in OpToRel(<, Nat))
  BY WFMin, NatLessThanWellFounded
<1>2. \A y \in S : x <= y
  <2> SUFFICES ASSUME NEW y \in S, y < x PROVE FALSE
    OBVIOUS
  <2>1. <<y, x>> \in OpToRel(<, Nat)
    BY DEF OpToRel
  <2> QED
    BY <1>1, <2>1
<1> QED
  BY <1>1, <1>2 DEF Lowest

Leveled(b, s, n) ==
    [i \in DOMAIN b |-> [source |-> b[i].source,
                         level  |-> IF b[i].source = s THEN n ELSE b[i].level]]

LEMMA OtherLevelKept ==
    ASSUME NEW b, NEW s, NEW n, NEW t, t # s, t \in Sources(b)
    PROVE  LevelOn(Leveled(b, s, n), t) = LevelOn(b, t)
<1> DEFINE d == Leveled(b, s, n)
           P(i) == i \in DOMAIN b /\ b[i].source = t
           Q(i) == i \in DOMAIN d /\ d[i].source = t
           p == CHOOSE i : P(i)
           q == CHOOSE i : Q(i)
<1>1. \A i : P(i) <=> Q(i)
  BY DEF Leveled
<1>2. p = q
  <2> HIDE DEF P, Q
  <2> QED
    BY <1>1
<1>3. P(p)
  <2>1. \E i : P(i)
    BY DEF Sources
  <2> HIDE DEF P
  <2> QED
    BY <2>1
<1>4. d[p].level = b[p].level
  <2> HIDE DEF p
  <2> QED
    BY <1>3 DEF Leveled
<1>5. LevelOn(d, t) = d[q].level /\ LevelOn(b, t) = b[p].level
  BY DEF LevelOn
<1> HIDE DEF d, p, q
<1>6. LevelOn(d, t) = LevelOn(b, t)
  BY <1>2, <1>4, <1>5
<1> QED
  BY <1>6 DEF d

\* A level is stated by the node of its source alone.
LEMMA LevelIsStatedOnce ==
    ASSUME NEW g, Shaped(g), NEW s, NEW n
    PROVE  /\ Shaped(WithLevel(g, s, n)) /\ Keys(WithLevel(g, s, n)) = Keys(g)
           /\ \A k \in Triples :
                  ~(k[1] = "source" /\ k[2] = s) /\ (k[1] = "bus" => k[2] \in Buses(g)) =>
                  Says(WithLevel(g, s, n), k) = Says(g, k)
<1> DEFINE h == WithLevel(g, s, n)
<1> DEFINE in == [b \in Buses(g) |-> Leveled(g.in[b], s, n)]
<1>0. h = [g EXCEPT !.in = in]
  BY DEF WithLevel, Leveled
<1> HIDE DEF in
<1>1. /\ h.sources = g.sources /\ h.out = g.out /\ h.in = in
      /\ h = [sources |-> h.sources, in |-> h.in, out |-> h.out]
  <2> HIDE DEF h
  <2>1. g = [sources |-> g.sources, in |-> g.in, out |-> g.out]
    BY DEF Shaped
  <2> QED
    BY <1>0, <2>1
<1>2. Buses(h) = Buses(g) /\ \A b \in Buses(g) : h.in[b] = Leveled(g.in[b], s, n)
  <2> HIDE DEF h
  <2> QED
    BY <1>1 DEF in, Buses
<1> HIDE DEF h
<1>3. Shaped(h)
  BY <1>1, <1>2 DEF Shaped
<1>4. Keys(h) = Keys(g)
  BY <1>1, <1>2 DEF Keys, Outputs
<1>5. ASSUME NEW b \in Buses(g) PROVE Sources(h.in[b]) = Sources(g.in[b])
  <2> DEFINE e == g.in[b]
             d == h.in[b]
  <2>1. d = Leveled(e, s, n)
    BY <1>2
  <2> HIDE DEF d, e
  <2>2. DOMAIN d = DOMAIN e /\ \A i \in DOMAIN e : d[i].source = e[i].source
    BY <2>1 DEF Leveled
  <2>3. Sources(d) = Sources(e)
    BY <2>2 DEF Sources
  <2> QED
    BY <2>3 DEF d, e
<1>6. \A t : BusesOf(h, t) = BusesOf(g, t)
  BY <1>2, <1>5 DEF BusesOf, Connected
<1>7. ASSUME NEW t, t # s PROVE Level(h, t) = Level(g, t)
  <2>1. CASE BusesOf(g, t) = {}
    BY <2>1, <1>6 DEF Level
  <2>2. CASE BusesOf(g, t) # {}
    <3> DEFINE b == Lowest(BusesOf(g, t))
    <3>1. b \in BusesOf(g, t)
      <4>1. BusesOf(g, t) \in SUBSET Nat
        BY DEF BusesOf, Shaped
      <4> QED
        BY <2>2, <4>1, LowestIsThere
    <3> HIDE DEF b
    <3>2. b \in Buses(g) /\ t \in Sources(g.in[b])
      BY <3>1 DEF BusesOf, Connected
    <3>3. LevelOn(h.in[b], t) = LevelOn(g.in[b], t)
      BY <3>2, <1>2, <1>7, OtherLevelKept
    <3>4. Level(h, t) = LevelOn(h.in[b], t) /\ Level(g, t) = LevelOn(g.in[b], t)
      BY <2>2, <1>6 DEF Level, b
    <3> QED
      BY <3>3, <3>4
  <2> QED
    BY <2>1, <2>2
<1>8. ASSUME NEW b \in Buses(g)
      PROVE  [i \in DOMAIN h.in[b] |-> h.in[b][i].source]
                 = [i \in DOMAIN g.in[b] |-> g.in[b][i].source]
  <2> DEFINE e == g.in[b]
             d == h.in[b]
  <2>1. d = Leveled(e, s, n)
    BY <1>2
  <2> HIDE DEF d, e
  <2>2. DOMAIN d = DOMAIN e /\ \A i \in DOMAIN e : d[i].source = e[i].source
    BY <2>1 DEF Leveled
  <2>3. [i \in DOMAIN d |-> d[i].source] = [i \in DOMAIN e |-> e[i].source]
    BY <2>2
  <2> QED
    BY <2>3 DEF d, e
<1>9. ASSUME NEW k \in Triples, ~(k[1] = "source" /\ k[2] = s),
             k[1] = "bus" => k[2] \in Buses(g)
      PROVE  Says(h, k) = Says(g, k)
  <2>1. CASE k[1] = "source"
    BY <2>1, <1>6, <1>7, <1>9 DEF Says
  <2>2. CASE k[1] = "bus"
    BY <2>2, <1>1, <1>8, <1>9 DEF Says
  <2>3. CASE k[1] = "output"
    BY <2>3 DEF Says
  <2> QED
    BY <2>1, <2>2, <2>3 DEF Triples, Kinds
<1> QED
  BY <1>3, <1>4, <1>9 DEF h

LEMMA NodesOfGraph ==
    ASSUME NEW g, Shaped(g)
    PROVE  /\ DOMAIN Nodes(g) = DOMAIN Keys(g) /\ 0 \notin DOMAIN Nodes(g)
           /\ Nodes(g) # <<>> => 1 \in DOMAIN Nodes(g)
           /\ \A i \in DOMAIN Keys(g) :
                  /\ Keys(g)[i] \in Triples /\ Nodes(g)[i] = Node(g, Keys(g)[i])
                  /\ Key(Nodes(g)[i]) = Keys(g)[i]
<1>1. KeysAgree(g, Keys(g))
  BY KeysOfGraph
<1>2. /\ DOMAIN Nodes(g) = DOMAIN Keys(g)
      /\ \A i \in DOMAIN Keys(g) : Nodes(g)[i] = Node(g, Keys(g)[i])
  BY DEF Nodes
<1>3. 0 \notin DOMAIN Keys(g) /\ \A i \in DOMAIN Keys(g) : Keys(g)[i] \in Triples
  BY <1>1 DEF KeysAgree
<1>4. \A k \in Triples : Key(Node(g, k)) = k
  BY DEF Key, Node, Triples
<1>5. ASSUME Nodes(g) # <<>> PROVE 1 \in DOMAIN Keys(g)
  <2>1. Keys(g) \in Seq(Triples)
    BY <1>1 DEF KeysAgree
  <2>2. Keys(g) # <<>>
    BY <1>5 DEF Nodes
  <2> QED
    BY <2>1, <2>2
<1> QED
  BY <1>2, <1>3, <1>4, <1>5

\* No node is found where there was none.
LEMMA NoneIsNotFound ==
    ASSUME NEW g, Shaped(g) PROVE FindNode(Nodes(g), <<"none", 0, 0>>) = 0
<1>1. \A k \in Triples : k # <<"none", 0, 0>>
  BY DEF Triples, Kinds
<1> QED
  BY <1>1, NodesOfGraph DEF FindNode

IsCanvas(c) == c = [nodes |-> c.nodes, cur |-> c.cur, pending |-> c.pending, cut |-> c.cut]
IsTree(t)   == t = [rows |-> t.rows, caret |-> t.caret]

LEMMA RestateAgrees ==
    ASSUME NEW g, Shaped(g), NEW c, IsCanvas(c), c.nodes = Nodes(g),
           NodeAt(c, c.cur)[1] = "source", NEW n, NEW h, h = WithLevel(g, NodeAt(c, c.cur)[2], n)
    PROVE  Restate(c, h).nodes = Nodes(h)
<1> DEFINE s == NodeAt(c, c.cur)[2]
           keys == Keys(g)
           new == [c.nodes EXCEPT ![c.cur].says = Says(h, NodeAt(c, c.cur))]
<1>1. /\ Shaped(h) /\ Keys(h) = keys
      /\ \A k \in Triples :
             ~(k[1] = "source" /\ k[2] = s) /\ (k[1] = "bus" => k[2] \in Buses(g)) =>
             Says(h, k) = Says(g, k)
  BY LevelIsStatedOnce
<1>2. KeysAgree(g, keys)
  BY KeysOfGraph
<1>3. /\ DOMAIN Nodes(g) = DOMAIN keys /\ DOMAIN Nodes(h) = DOMAIN keys
      /\ \A i \in DOMAIN keys : /\ keys[i] \in Triples
                                /\ Nodes(g)[i] = Node(g, keys[i]) /\ Nodes(h)[i] = Node(h, keys[i])
                                /\ Key(Nodes(g)[i]) = keys[i]
  BY <1>1, NodesOfGraph
<1>4. c.cur \in DOMAIN keys /\ NodeAt(c, c.cur) = keys[c.cur]
  BY <1>3 DEF NodeAt
<1>5. keys[c.cur][1] = "source" /\ keys[c.cur][2] = s /\ keys[c.cur][3] = 0
  BY <1>4, <1>2 DEF KeysAgree
<1> HIDE DEF s, keys
<1>6. ASSUME NEW i \in DOMAIN keys, i # c.cur PROVE Nodes(h)[i] = Nodes(g)[i]
  <2>1. ~(keys[i][1] = "source" /\ keys[i][2] = s)
    <3> SUFFICES ASSUME keys[i][1] = "source", keys[i][2] = s PROVE FALSE
      OBVIOUS
    <3>1. keys[i][3] = 0
      BY <1>2 DEF KeysAgree
    <3>2. keys[i] = <<"source", s, 0>> /\ keys[c.cur] = <<"source", s, 0>>
      BY <3>1, <1>3, <1>4, <1>5 DEF Triples
    <3> QED
      BY <3>2, <1>2, <1>4, <1>6 DEF KeysAgree
  <2>2. Says(h, keys[i]) = Says(g, keys[i])
    BY <2>1, <1>1, <1>2, <1>3 DEF KeysAgree
  <2> QED
    BY <2>2, <1>3 DEF Node
<1>7. Nodes(h)[c.cur] = [Nodes(g)[c.cur] EXCEPT !.says = Says(h, keys[c.cur])]
  <2> DEFINE k == keys[c.cur]
  <2>1. \A v : [Node(g, k) EXCEPT !.says = v]
                = [kind |-> k[1], id |-> k[2], sub |-> k[3], says |-> v]
    BY DEF Node
  <2>2. Nodes(g)[c.cur] = Node(g, k) /\ Nodes(h)[c.cur] = Node(h, k)
    BY <1>3, <1>4
  <2>3. Node(h, k) = [kind |-> k[1], id |-> k[2], sub |-> k[3], says |-> Says(h, k)]
    BY DEF Node
  <2> HIDE DEF k
  <2> QED
    BY <2>1, <2>2, <2>3 DEF k
<1>8. Nodes(h) = new
  <2>1. DOMAIN new = DOMAIN keys /\ DOMAIN Nodes(h) = DOMAIN keys
    BY <1>3
  <2>2. \A i \in DOMAIN keys : new[i] = Nodes(h)[i]
    BY <1>3, <1>4, <1>6, <1>7
  <2>3. Nodes(h) = [i \in DOMAIN keys |-> Nodes(h)[i]] /\ new = [i \in DOMAIN keys |-> new[i]]
    BY <2>1 DEF Nodes
  <2> QED
    BY <2>2, <2>3
<1>9. Restate(c, h).nodes = new
  BY DEF Restate, IsCanvas
<1> QED
  BY <1>8, <1>9

LEMMA ShapeOf ==
    ASSUME NEW S \in SUBSET Nat, IsFiniteSet(S), NEW f, DOMAIN f \in SUBSET Nat,
           IsFiniteSet(DOMAIN f), NEW o \in [DOMAIN f -> Int],
           NEW h, h = [sources |-> S, in |-> f, out |-> o]
    PROVE  Shaped(h)
  BY DEF Shaped, Buses

\* Every edit keeps the shape of the graph.
LEMMA EditsKeepShape ==
    ASSUME NEW g, Shaped(g), NEW s \in Nat, NEW b \in Nat, NEW x, NEW y
    PROVE  /\ Shaped(WithSource(g, s)) /\ Shaped(WithoutSource(g, x))
           /\ Shaped(WithBus(g, b)) /\ Shaped(WithoutBus(g, x))
           /\ Shaped(WithEdge(g, x, y)) /\ Shaped(WithoutEdge(g, x, y))
           /\ Shaped(WithOutput(g, x)) /\ Shaped(WithoutOutput(g, x))
<1>1. /\ g = [sources |-> g.sources, in |-> g.in, out |-> g.out]
      /\ g.sources \in SUBSET Nat /\ IsFiniteSet(g.sources)
      /\ DOMAIN g.in \in SUBSET Nat /\ IsFiniteSet(DOMAIN g.in)
      /\ g.out \in [DOMAIN g.in -> Int]
  BY DEF Shaped, Buses
<1>2. Shaped(WithSource(g, s))
  <2> DEFINE S == g.sources \cup {s}
  <2>1. IsFiniteSet(S) /\ S \in SUBSET Nat
    BY <1>1, FS_AddElement
  <2>2. WithSource(g, s) = [sources |-> S, in |-> g.in, out |-> g.out]
    BY <1>1 DEF WithSource
  <2> HIDE DEF S
  <2> QED
    BY <1>1, <2>1, <2>2, ShapeOf
<1>3. Shaped(WithoutSource(g, x))
  <2> DEFINE S == g.sources \ {x}
             f == [c \in DOMAIN g.in |-> Cut(g.in[c], x)]
  <2>1. IsFiniteSet(S) /\ S \in SUBSET Nat /\ DOMAIN f = DOMAIN g.in
    BY <1>1, FS_RemoveElement
  <2>2. WithoutSource(g, x) = [g EXCEPT !.sources = S, !.in = f]
    BY DEF WithoutSource, Buses
  <2> HIDE DEF S, f
  <2>3. WithoutSource(g, x) = [sources |-> S, in |-> f, out |-> g.out]
    BY <1>1, <2>2
  <2> QED
    BY <1>1, <2>1, <2>3, ShapeOf
<1>4. Shaped(WithBus(g, b))
  <2> DEFINE B == DOMAIN g.in \cup {b}
             f == [c \in B |-> IF c = b THEN <<>> ELSE g.in[c]]
             o == [c \in B |-> IF c = b THEN 0 ELSE g.out[c]]
  <2>1. IsFiniteSet(B) /\ B \in SUBSET Nat
    BY <1>1, FS_AddElement
  <2>2. DOMAIN f = B /\ o \in [B -> Int]
    BY <1>1
  <2>3. WithBus(g, b) = [g EXCEPT !.in = f, !.out = o]
    BY DEF WithBus, Buses
  <2> HIDE DEF B, f, o
  <2>4. WithBus(g, b) = [sources |-> g.sources, in |-> f, out |-> o]
    BY <1>1, <2>3
  <2> QED
    BY <1>1, <2>1, <2>2, <2>4, ShapeOf
<1>5. Shaped(WithoutBus(g, x))
  <2> DEFINE B == DOMAIN g.in \ {x}
             f == [c \in B |-> g.in[c]]
             o == [c \in B |-> g.out[c]]
  <2>1. IsFiniteSet(B) /\ B \in SUBSET Nat
    BY <1>1, FS_RemoveElement
  <2>2. DOMAIN f = B /\ o \in [B -> Int]
    BY <1>1
  <2>3. WithoutBus(g, x) = [g EXCEPT !.in = f, !.out = o]
    BY DEF WithoutBus, Buses
  <2> HIDE DEF B, f, o
  <2>4. WithoutBus(g, x) = [sources |-> g.sources, in |-> f, out |-> o]
    BY <1>1, <2>3
  <2> QED
    BY <1>1, <2>1, <2>2, <2>4, ShapeOf
<1>6. \A e : Shaped([g EXCEPT !.in[y] = e])
  <2> TAKE e
  <2> DEFINE f == [g.in EXCEPT ![y] = e]
  <2>1. DOMAIN f = DOMAIN g.in
    OBVIOUS
  <2>2. [g EXCEPT !.in[y] = e] = [sources |-> g.sources, in |-> f, out |-> g.out]
    BY <1>1
  <2> HIDE DEF f
  <2> QED
    BY <1>1, <2>1, <2>2, ShapeOf
<1>7. Shaped(WithEdge(g, x, y)) /\ Shaped(WithoutEdge(g, x, y))
  BY <1>6 DEF WithEdge, WithoutEdge
<1>8. ASSUME NEW n, x \in DOMAIN g.in => n \in Int PROVE Shaped([g EXCEPT !.out[x] = n])
  <2> DEFINE o == [g.out EXCEPT ![x] = n]
  <2>1. o \in [DOMAIN g.in -> Int]
    BY <1>1, <1>8
  <2>2. [g EXCEPT !.out[x] = n] = [sources |-> g.sources, in |-> g.in, out |-> o]
    BY <1>1
  <2> HIDE DEF o
  <2> QED
    BY <1>1, <2>1, <2>2, ShapeOf
<1>9. x \in DOMAIN g.in => g.out[x] + 1 \in Int /\ g.out[x] - 1 \in Int
  BY <1>1
<1>10. Shaped(WithOutput(g, x)) /\ Shaped(WithoutOutput(g, x))
  BY <1>8, <1>9 DEF WithOutput, WithoutOutput
<1> QED
  BY <1>2, <1>3, <1>4, <1>5, <1>7, <1>10

LEMMA EmptyIsShaped == Shaped(EmptyGraph) /\ Nodes(EmptyGraph) = <<>>
<1> DEFINE g == EmptyGraph
<1>1. g = [sources |-> {}, in |-> <<>>, out |-> <<>>] /\ IsFiniteSet({}) /\ Cardinality({}) = 0
  BY FS_EmptySet DEF EmptyGraph
<1>2. DOMAIN <<>> = {} /\ <<>> \in [{} -> Int]
  OBVIOUS
<1>3. Shaped(g) /\ g.sources = {} /\ Buses(g) = {}
  <2>1. {} \in SUBSET Nat
    OBVIOUS
  <2> QED
    BY <1>1, <1>2, <2>1, ShapeOf DEF Buses
<1>4. Outputs(g) = {} /\ {<<"source", s, 0>> : s \in g.sources} = {}
      /\ {<<"bus", b, 0>> : b \in Buses(g)} = {}
  BY <1>3 DEF Outputs
<1>5. Keys(g) = InOrder({}, Lower) \o InOrder({}, Lower) \o InOrder({}, Lower)
  BY <1>4 DEF Keys
<1>6. InOrder({}, Lower) = <<>>
  <2> DEFINE o == InOrder({}, Lower)
  <2>1. Lists(o, {})
    <3>1. OfKind({}, "source")
      BY <1>1 DEF OfKind
    <3> QED
      BY <3>1, InOrderLists
  <2> HIDE DEF o
  <2>2. o \in [{} -> {}]
    BY <2>1, <1>1 DEF Lists
  <2>3. o = <<>>
    BY <2>2
  <2> QED
    BY <2>3 DEF o
<1>7. Keys(g) = <<>>
  BY <1>5, <1>6
<1>8. Nodes(g) = <<>>
  BY <1>7 DEF Nodes
<1> QED
  BY <1>3, <1>8

InPlace(c) == c.cur = 0 \/ c.cur \in DOMAIN c.nodes

\* The inductive invariant, and what a step says of the half-made edge.
Agreed ==
    /\ Shaped(graph) /\ ids \in Nat \X Nat
    /\ IsCanvas(canvas) /\ InPlace(canvas) /\ IsTree(tree) /\ ViewsAgree

Told ==
    /\ canvas.pending = 0 /\ canvas'.pending # 0 => told' = {"start"}
    /\ canvas.pending # 0 /\ canvas'.pending = 0 =>
           told' \cap {"done", "failed", "none", "already", "busy", "cancelled"} # {}

LEMMA RebuiltAgrees ==
    ASSUME NEW g, Shaped(g), NEW c
    PROVE  /\ IsCanvas(Rebuilt(c, g)) /\ InPlace(Rebuilt(c, g)) /\ Rebuilt(c, g).nodes = Nodes(g)
           /\ c.pending = 0 /\ 0 \notin DOMAIN c.nodes => Rebuilt(c, g).pending = 0
<1>1. \A key : FindNode(Nodes(g), key) = 0 \/ FindNode(Nodes(g), key) \in DOMAIN Nodes(g)
  <2> TAKE key
  <2>1. CASE \E i \in DOMAIN Nodes(g) : Key(Nodes(g)[i]) = key
    BY <2>1 DEF FindNode
  <2>2. CASE ~ \E i \in DOMAIN Nodes(g) : Key(Nodes(g)[i]) = key
    BY <2>2 DEF FindNode
  <2> QED
    BY <2>1, <2>2
<1> DEFINE d == Rebuilt(c, g)
           cur == FindNode(Nodes(g), NodeAt(c, c.cur))
           held == FindNode(Nodes(g), NodeAt(c, c.pending))
<1>2. d = [nodes |-> Nodes(g), cur |-> IF cur = 0 /\ Nodes(g) # <<>> THEN 1 ELSE cur,
           pending |-> held, cut |-> held # 0 /\ c.cut]
  BY DEF Rebuilt
<1>3. c.pending = 0 /\ 0 \notin DOMAIN c.nodes => held = 0
  BY NoneIsNotFound DEF NodeAt
<1>4. cur = 0 \/ cur \in DOMAIN Nodes(g)
  BY <1>1
<1>5. Nodes(g) # <<>> => 1 \in DOMAIN Nodes(g)
  BY NodesOfGraph
<1> HIDE DEF d, cur, held
<1>6. IsCanvas(d)
  BY <1>2 DEF IsCanvas
<1>7. InPlace(d)
  BY <1>2, <1>4, <1>5 DEF InPlace
<1>8. d.nodes = Nodes(g) /\ (c.pending = 0 /\ 0 \notin DOMAIN c.nodes => d.pending = 0)
  BY <1>2, <1>3
<1> QED
  BY <1>6, <1>7, <1>8 DEF d

LEMMA RefreshedAgrees ==
    ASSUME NEW t, NEW g, NEW run
    PROVE  IsTree(Refreshed(t, g, run)) /\ Refreshed(t, g, run).rows = Rows(g, run)
  BY DEF Refreshed, IsTree

LEMMA NoNodeZero == ASSUME Agreed PROVE 0 \notin DOMAIN canvas.nodes
  BY NodesOfGraph DEF Agreed, ViewsAgree

RowsAgree(t, g) == \E run \in BOOLEAN : t.rows = Rows(g, run)

\* A handler that ends in refresh_views, wherever the canvas looks for its place.
LEMMA RefreshAgrees ==
    ASSUME Agreed, Shaped(graph'), ids' \in Nat \X Nat,
           NEW c, c.nodes = canvas.nodes, c.pending = canvas.pending, canvas' = Rebuilt(c, graph'),
           told' = Lost(canvas, canvas'), NEW run \in BOOLEAN, RefreshTree(run),
           Menus(recording')
    PROVE  Agreed' /\ Told
<1>1. IsCanvas(canvas)' /\ InPlace(canvas)' /\ canvas'.nodes = Nodes(graph')
      /\ (canvas.pending = 0 => canvas'.pending = 0)
  BY RebuiltAgrees, NoNodeZero DEF IsCanvas, InPlace
<1>2. IsTree(tree)' /\ tree'.rows = Rows(graph', run)
  BY RefreshedAgrees DEF RefreshTree, IsTree
<1>3. ViewsAgree'
  BY <1>1, <1>2 DEF ViewsAgree, Menus
<1>4. Told
  BY <1>1 DEF Told, Lost
<1> QED
  BY <1>1, <1>2, <1>3, <1>4 DEF Agreed, Shaped

LEMMA EditAgrees ==
    ASSUME Agreed, NEW g, Shaped(g), GraphEdit(g), ids' \in Nat \X Nat PROVE Agreed' /\ Told
<1>1. /\ graph' = g /\ canvas' = Rebuilt(canvas, graph') /\ told' = Lost(canvas, canvas')
      /\ RefreshTree(Running) /\ Menus(FALSE) /\ ~recording'
  BY DEF GraphEdit, RefreshViews, takeVars
<1>2. Running \in BOOLEAN /\ Shaped(graph') /\ Menus(recording')
  BY <1>1 DEF Running, Menus
<1> QED
  BY <1>1, <1>2, RefreshAgrees

LEMMA EditsAgree == ASSUME Agreed, Edits PROVE Agreed' /\ Told
<1>1. ids[1] \in Nat /\ ids[2] \in Nat /\ Shaped(graph)
  BY DEF Agreed
<1>2. CASE SourceAdded
  <2>1. Shaped(WithSource(graph, ids[1]))
    BY <1>1, EditsKeepShape
  <2>2. GraphEdit(WithSource(graph, ids[1])) /\ ids' = [ids EXCEPT ![1] = @ + 1]
    BY <1>2 DEF SourceAdded
  <2>3. ids' \in Nat \X Nat
    BY <2>2 DEF Agreed
  <2> QED
    BY <2>1, <2>2, <2>3, EditAgrees
<1>3. CASE BusAdded
  <2>1. Shaped(WithBus(graph, ids[2]))
    BY <1>1, EditsKeepShape
  <2>2. GraphEdit(WithBus(graph, ids[2])) /\ ids' = [ids EXCEPT ![2] = @ + 1]
    BY <1>3 DEF BusAdded
  <2>3. ids' \in Nat \X Nat
    BY <2>2 DEF Agreed
  <2> QED
    BY <2>1, <2>2, <2>3, EditAgrees
<1>4. CASE OutputAdded
  <2>1. PICK b \in Buses(graph) : GraphEdit(WithOutput(graph, b))
    BY <1>4 DEF OutputAdded
  <2>2. Shaped(WithOutput(graph, b)) /\ ids' \in Nat \X Nat
    BY <1>1, <1>4, EditsKeepShape DEF OutputAdded, Agreed
  <2> QED
    BY <2>1, <2>2, EditAgrees
<1>5. CASE OutputRemoved
  <2>1. GraphEdit(WithoutOutput(graph, CurrentBus))
    BY <1>5 DEF OutputRemoved
  <2>2. Shaped(WithoutOutput(graph, CurrentBus)) /\ ids' \in Nat \X Nat
    BY <1>1, <1>5, EditsKeepShape DEF OutputRemoved, Agreed
  <2> QED
    BY <2>1, <2>2, EditAgrees
<1>6. CASE GraphAdopted
  <2>1. Shaped(EmptyGraph) /\ Shaped(Loaded)
    <3>1. Shaped(WithSource(EmptyGraph, 1))
      BY EmptyIsShaped, EditsKeepShape
    <3>2. Shaped(WithBus(WithSource(EmptyGraph, 1), 1))
      BY <3>1, EditsKeepShape
    <3>3. Shaped(WithEdge(WithBus(WithSource(EmptyGraph, 1), 1), 1, 1))
      BY <3>2, EditsKeepShape
    <3> QED
      BY <3>3, EmptyIsShaped, EditsKeepShape DEF Loaded
  <2>2. Shaped(graph') /\ ids' \in Nat \X Nat
    BY <1>6, <2>1 DEF GraphAdopted
  <2> DEFINE c == [canvas EXCEPT !.cur = 0]
  <2>3. /\ canvas' = Rebuilt(c, graph') /\ told' = Lost(canvas, canvas')
        /\ RefreshTree(Running) /\ Menus(recording') /\ Running \in BOOLEAN
    BY <1>6 DEF GraphAdopted, takeVars, Menus, Running
  <2>4. c.nodes = canvas.nodes /\ c.pending = canvas.pending
    BY DEF Agreed, IsCanvas
  <2> HIDE DEF c
  <2> QED
    BY <2>2, <2>3, <2>4, RefreshAgrees
<1> QED
  BY <1>2, <1>3, <1>4, <1>5, <1>6 DEF Edits

\* The canvas of a handler that has moved the current node and nothing else.
Stands(c) ==
    IsCanvas(c) /\ InPlace(c) /\ c.nodes = canvas.nodes /\ c.pending = canvas.pending

LEMMA HereStands ==
    ASSUME Agreed, canvas.nodes # <<>> PROVE Stands(Here) /\ Here.cur \in DOMAIN canvas.nodes
<1>1. IsCanvas(canvas) /\ InPlace(canvas) /\ 1 \in DOMAIN canvas.nodes
  BY NodesOfGraph DEF Agreed, ViewsAgree
<1> QED
  BY <1>1 DEF Here, Stands, IsCanvas, InPlace

LEMMA MovedStands ==
    ASSUME Agreed, NEW i \in DOMAIN canvas.nodes PROVE Stands([canvas EXCEPT !.cur = i])
  BY DEF Agreed, Stands, IsCanvas, InPlace

\* A handler that edits nothing: the canvas keeps its nodes, the tree its rows.
LEMMA IdleAgrees ==
    ASSUME Agreed, UNCHANGED graphVars, UNCHANGED <<offered, recording>>,
           IsCanvas(canvas'), InPlace(canvas'), canvas'.nodes = canvas.nodes,
           IsTree(tree'), tree'.rows = tree.rows
    PROVE  Agreed'
<1>1. ViewsAgree'
  BY DEF Agreed, ViewsAgree, graphVars, HasOutput, Buses
<1> QED
  BY <1>1 DEF Agreed, graphVars, Shaped, Buses, IsCanvas, InPlace, IsTree

\* A handler that shows a canvas, and rebuilds both views when it was a command.
LEMMA ShowsAgree ==
    ASSUME Agreed, UNCHANGED graphVars, UNCHANGED <<offered, recording>>,
           NEW c, IsCanvas(c), InPlace(c), c.nodes = canvas.nodes, NEW command, Shows(c, command)
    PROVE  Agreed' /\ (c.pending = 0 => canvas'.pending = 0)
<1>1. CASE command
  <2>1. canvas' = Rebuilt(c, graph') /\ RefreshTree(Running) /\ Shaped(graph')
    BY <1>1 DEF Shows, Agreed, graphVars
  <2>2. /\ IsCanvas(canvas') /\ InPlace(canvas') /\ canvas'.nodes = Nodes(graph')
        /\ (c.pending = 0 => canvas'.pending = 0)
    BY <2>1, RebuiltAgrees, NoNodeZero
  <2>3. IsTree(tree') /\ tree'.rows = Rows(graph', Running) /\ Running \in BOOLEAN
    BY <2>1, RefreshedAgrees DEF RefreshTree, Running
  <2>4. ViewsAgree'
    BY <2>2, <2>3 DEF Agreed, ViewsAgree, graphVars, HasOutput, Buses
  <2> QED
    BY <2>1, <2>2, <2>3, <2>4 DEF Agreed, graphVars, IsCanvas, InPlace, IsTree, Shaped, Buses
<1>2. CASE ~command
  BY <1>2, IdleAgrees DEF Shows, Agreed, IsTree
<1> QED
  BY <1>1, <1>2

LEMMA EndDropped ==
    ASSUME NEW c, IsCanvas(c), NEW d, d = [c EXCEPT !.pending = 0, !.cut = FALSE]
    PROVE  IsCanvas(d) /\ d.nodes = c.nodes /\ d.cur = c.cur /\ d.pending = 0
  BY DEF IsCanvas

LEMMA EndHeld ==
    ASSUME NEW c, IsCanvas(c), NEW cut, NEW d, d = [c EXCEPT !.pending = c.cur, !.cut = cut]
    PROVE  IsCanvas(d) /\ d.nodes = c.nodes /\ d.cur = c.cur
  BY DEF IsCanvas

LEMMA HoldAgrees ==
    ASSUME Agreed, NEW command, NEW cut, HoldEnd(command, cut) PROVE Agreed' /\ Told
<1> DEFINE c == [Here EXCEPT !.pending = Here.cur, !.cut = cut]
<1>1. Stands(Here) /\ Here.cur \in DOMAIN canvas.nodes
  BY HereStands DEF HoldEnd
<1>2. IsCanvas(c) /\ InPlace(c) /\ c.nodes = canvas.nodes
  <2> DEFINE h == Here
  <2>1. IsCanvas(h) /\ h.nodes = canvas.nodes /\ h.cur \in DOMAIN h.nodes
    BY <1>1 DEF Stands
  <2> HIDE DEF h
  <2> DEFINE d == [h EXCEPT !.pending = h.cur, !.cut = cut]
  <2>2. IsCanvas(d) /\ d.nodes = h.nodes /\ d.cur = h.cur
    BY <2>1, EndHeld
  <2> HIDE DEF d
  <2>3. IsCanvas(d) /\ InPlace(d) /\ d.nodes = canvas.nodes
    BY <2>1, <2>2 DEF InPlace
  <2> QED
    BY <2>3 DEF d, h
<1>3. /\ canvas.pending = 0 /\ told' = {"start"} /\ UNCHANGED graphVars
      /\ UNCHANGED <<offered, recording>> /\ Shows(c, command)
  BY DEF HoldEnd, takeVars
<1> HIDE DEF c
<1>4. Agreed'
  BY <1>2, <1>3, ShowsAgree
<1>5. Told
  BY <1>3 DEF Told
<1> QED
  BY <1>4, <1>5

LEMMA DroppedStands ==
    ASSUME NEW c, IsCanvas(c), InPlace(c)
    PROVE  /\ IsCanvas(Dropped(c)) /\ InPlace(Dropped(c)) /\ Dropped(c).nodes = c.nodes
           /\ Dropped(c).pending = 0
<1> DEFINE d == Dropped(c)
<1>1. d = [c EXCEPT !.pending = 0, !.cut = FALSE]
  BY DEF Dropped
<1> HIDE DEF d
<1>2. IsCanvas(d) /\ d.nodes = c.nodes /\ d.cur = c.cur /\ d.pending = 0
  BY <1>1, EndDropped
<1> QED
  BY <1>2 DEF d, InPlace

\* A second press that edits nothing says why.
LEMMA DropAgrees ==
    ASSUME Agreed, NEW c, Stands(c), NEW command, Shows(Dropped(c), command),
           UNCHANGED graphVars, UNCHANGED <<offered, recording>>,
           told' \in {{"failed"}, {"none"}, {"already"}, {"busy"}, {"cancelled"}}
    PROVE  Agreed' /\ Told
<1> DEFINE d == Dropped(c)
<1>1. IsCanvas(d) /\ InPlace(d) /\ d.nodes = canvas.nodes /\ d.pending = 0
  BY DroppedStands DEF Stands
<1> HIDE DEF d
<1>2. Shows(d, command)
  BY DEF d
<1>3. Agreed' /\ canvas'.pending = 0
  BY <1>1, <1>2, ShowsAgree
<1>4. Told
  BY <1>3 DEF Told
<1> QED
  BY <1>3, <1>4

\* A second press that makes or cuts the edge.
LEMMA EdgeAgrees ==
    ASSUME Agreed, NEW c, Stands(c), Shaped(graph'), UNCHANGED <<ids, recording>>,
           NEW s, canvas' = Restated(c, graph', s), CanvasEdit, told' = {"done"}
    PROVE  Agreed' /\ Told
<1> DEFINE d == Dropped(c)
           new == Nodes(graph')
           cur == FindNode(new, <<"source", s, 0>>)
<1>1. IsCanvas(d) /\ d.pending = 0
  BY DroppedStands DEF Stands
<1>2. canvas' = [d EXCEPT !.nodes = new, !.cur = cur]
  BY DEF Restated
<1>3. cur = 0 \/ cur \in DOMAIN new
  <2> HIDE DEF new
  <2> DEFINE key == <<"source", s, 0>>
  <2> HIDE DEF key
  <2>1. FindNode(new, key) = 0 \/ FindNode(new, key) \in DOMAIN new
    <3>1. CASE \E i \in DOMAIN new : Key(new[i]) = key
      BY <3>1 DEF FindNode
    <3>2. CASE ~ \E i \in DOMAIN new : Key(new[i]) = key
      BY <3>2 DEF FindNode
    <3> QED
      BY <3>1, <3>2
  <2> QED
    BY <2>1 DEF key
<1> HIDE DEF d, new, cur
<1>4. IsCanvas(canvas') /\ InPlace(canvas') /\ canvas'.nodes = new /\ canvas'.pending = 0
  BY <1>1, <1>2, <1>3 DEF IsCanvas, InPlace
<1>5. /\ IsTree(tree') /\ tree'.rows = Rows(graph', Running) /\ Running \in BOOLEAN
      /\ offered' = (~recording' /\ HasOutput(graph'))
  BY RefreshedAgrees DEF CanvasEdit, RefreshTree, Running, Menus
<1>6. ViewsAgree'
  BY <1>4, <1>5 DEF ViewsAgree, new
<1>7. Told
  BY <1>4 DEF Told
<1> QED
  BY <1>4, <1>5, <1>6, <1>7 DEF Agreed, Shaped, IsCanvas, InPlace, IsTree

LEMMA FinishAgrees ==
    ASSUME Agreed, NEW c, Stands(c), NEW command, FinishEdge(c, command) PROVE Agreed' /\ Told
<1>1. UNCHANGED <<ids, recording>> /\ (MakeEdge(c, command) \/ EdgeIsThereOrNot(c, command))
  BY DEF FinishEdge, takeVars
<1> DEFINE s == NodeAt(c, c.pending)[2]
           b == Id(c)
<1>2. CASE /\ MakeEdge(c, command) /\ told' = {"failed"} /\ UNCHANGED <<graph, offered>>
           /\ Shows(Dropped(c), command)
  BY <1>1, <1>2, DropAgrees DEF graphVars
<1>3. CASE /\ told' = {"done"} /\ canvas' = Restated(c, graph', s) /\ CanvasEdit
           /\ graph' = IF c.cut THEN WithoutEdge(graph, s, b) ELSE WithEdge(graph, s, b)
  <2>1. Shaped(WithoutEdge(graph, s, b)) /\ Shaped(WithEdge(graph, s, b))
    <3> HIDE DEF s, b
    <3>1. Shaped(graph) /\ 0 \in Nat
      BY DEF Agreed
    <3> QED
      BY <3>1, EditsKeepShape
  <2>2. Shaped(graph')
    BY <1>3, <2>1
  <2> HIDE DEF s, b
  <2> QED
    BY <1>1, <1>3, <2>2, EdgeAgrees
<1>4. CASE EdgeIsThereOrNot(c, command)
  BY <1>1, <1>4, DropAgrees DEF EdgeIsThereOrNot, graphVars
<1>5. MakeEdge(c, command) =>
          \/ /\ told' = {"failed"} /\ UNCHANGED <<graph, offered>> /\ Shows(Dropped(c), command)
          \/ /\ told' = {"done"} /\ canvas' = Restated(c, graph', s) /\ CanvasEdit
             /\ graph' = IF c.cut THEN WithoutEdge(graph, s, b) ELSE WithEdge(graph, s, b)
  BY DEF MakeEdge
<1> QED
  BY <1>1, <1>2, <1>3, <1>4, <1>5

LEMMA RefuseAgrees ==
    ASSUME Agreed, NEW c, Stands(c), RefuseEdge(c) PROVE Agreed' /\ Told
<1>1. Shows(Dropped(c), FALSE)
  BY DEF RefuseEdge, Shows
<1> QED
  BY <1>1, DropAgrees DEF RefuseEdge, takeVars

\* A handler that moves, and says nothing.
LEMMA MovesAgree ==
    ASSUME Agreed, UNCHANGED <<graphVars, offered, takeVars>>,
           canvas' = canvas \/ (\E c : Stands(c) /\ canvas' = c),
           tree' = tree \/ (\E i : tree' = [tree EXCEPT !.caret = i])
    PROVE  Agreed' /\ Told
<1>1. /\ IsCanvas(canvas') /\ InPlace(canvas') /\ canvas'.nodes = canvas.nodes
      /\ canvas'.pending = canvas.pending
  BY DEF Agreed, Stands
<1>2. IsTree(tree') /\ tree'.rows = tree.rows
  BY DEF Agreed, IsTree
<1>3. Agreed'
  BY <1>1, <1>2, IdleAgrees DEF takeVars
<1>4. Told
  BY <1>1 DEF Told
<1> QED
  BY <1>3, <1>4

LEMMA CancelAgrees == ASSUME Agreed, CancelEdge PROVE Agreed' /\ Told
<1>1. Stands(canvas) /\ Shows(Dropped(canvas), FALSE)
  BY DEF Agreed, Stands, CancelEdge, Shows
<1> QED
  BY <1>1, DropAgrees DEF CancelEdge, takeVars

LEMMA ClickAgrees == ASSUME Agreed, Click PROVE Agreed' /\ Told
<1> PICK i \in DOMAIN canvas.nodes :
        LET c == [canvas EXCEPT !.cur = i]
        IN  \/ c.pending # 0 /\ (FinishEdge(c, FALSE) \/ RefuseEdge(c))
            \/ /\ c.pending = 0 \/ (~Running /\ Kind(c) # "bus")
               /\ canvas' = c /\ told' = {}
               /\ UNCHANGED <<graphVars, tree, offered, takeVars>>
  BY DEF Click
<1> DEFINE c == [canvas EXCEPT !.cur = i]
<1>1. Stands(c)
  BY MovedStands
<1> HIDE DEF c
<1>2. \/ FinishEdge(c, FALSE) \/ RefuseEdge(c)
      \/ canvas' = c /\ UNCHANGED <<graphVars, tree, offered, takeVars>>
  BY DEF c
<1> QED
  BY <1>1, <1>2, FinishAgrees, RefuseAgrees, MovesAgree

LEMMA EdgesAgree == ASSUME Agreed, Edges PROVE Agreed' /\ Told
<1>1. CASE ConnectCommand \/ DisconnectCommand \/ DisconnectKey
  <2>1. CASE \E command \in BOOLEAN, cut \in BOOLEAN : HoldEnd(command, cut)
    BY <2>1, HoldAgrees
  <2>2. CASE \E command \in BOOLEAN : FinishEdge(Here, command)
    <3>1. PICK command \in BOOLEAN : FinishEdge(Here, command)
      BY <2>2
    <3>2. CASE canvas.nodes # <<>>
      BY <3>1, <3>2, HereStands, FinishAgrees
    <3>3. CASE canvas.nodes = <<>>
      \* Nothing is held without a node: the press has no first one.
      <4>1. ~(1 \in DOMAIN canvas.nodes)
        BY <3>3
      <4>2. Here.cur \notin DOMAIN canvas.nodes /\ Here.nodes = canvas.nodes
        BY <3>3 DEF Agreed, IsCanvas, InPlace, Here
      <4>3. Kind(Here) = "none"
        BY <4>2 DEF Kind, NodeAt
      <4> QED
        BY <3>1, <4>3 DEF FinishEdge
    <3> QED
      BY <3>2, <3>3
  <2>3. CASE RefuseEdge(Here)
    BY <2>3, HereStands, RefuseAgrees DEF RefuseEdge
  <2> QED
    BY <1>1, <2>1, <2>2, <2>3 DEF ConnectCommand, DisconnectCommand, DisconnectKey
<1> QED
  BY <1>1, ClickAgrees, CancelAgrees DEF Edges

LEMMA RemoveAgrees == ASSUME Agreed, RemoveNode PROVE Agreed' /\ Told
<1> DEFINE c == [canvas EXCEPT !.cur = 0]
           id == Id(Here)
<1>1. Kind(Here) \in Kinds
  <2>1. Stands(Here) /\ Here.cur \in DOMAIN canvas.nodes
    BY HereStands DEF RemoveNode
  <2>2. canvas.nodes = Nodes(graph) /\ Shaped(graph)
    BY DEF Agreed, ViewsAgree
  <2>3. NodeAt(Here, Here.cur) \in Triples
    BY <2>1, <2>2, NodesOfGraph DEF NodeAt, Stands
  <2> QED
    BY <2>3 DEF Kind, Triples
<1>2. Shaped(graph')
  <2>1. /\ Shaped(WithoutSource(graph, id)) /\ Shaped(WithoutBus(graph, id))
        /\ Shaped(WithoutOutput(graph, id))
    <3> HIDE DEF id
    <3>1. Shaped(graph) /\ 0 \in Nat
      BY DEF Agreed
    <3> QED
      BY <3>1, EditsKeepShape
  <2>2. graph' \in {WithoutSource(graph, id), WithoutBus(graph, id), WithoutOutput(graph, id)}
    BY <1>1 DEF RemoveNode, Kinds
  <2> QED
    BY <2>1, <2>2
<1>3. /\ canvas' = Rebuilt(c, graph') /\ told' = Lost(canvas, canvas')
      /\ RefreshTree(Running) /\ Menus(recording') /\ Running \in BOOLEAN
      /\ ids' \in Nat \X Nat
  BY DEF RemoveNode, takeVars, CanvasEdit, Menus, Running, Agreed
<1>4. c.nodes = canvas.nodes /\ c.pending = canvas.pending
  BY DEF Agreed, IsCanvas
<1> HIDE DEF c
<1> QED
  BY <1>2, <1>3, <1>4, RefreshAgrees

LEMMA GainAgrees == ASSUME Agreed, NEW step \in {-1, 1}, Gain(step) PROVE Agreed' /\ Told
<1> DEFINE h == Here
           s == NodeAt(h, h.cur)[2]
<1>1. Stands(h) /\ h.cur \in DOMAIN canvas.nodes
  BY HereStands DEF Gain
<1>2. PICK n : graph' = WithLevel(graph, s, n)
  BY DEF Gain, Id
<1>3. NodeAt(h, h.cur)[1] = "source" /\ canvas' = Restate(h, graph') /\ CanvasEdit
      /\ UNCHANGED <<ids, recording>>
  BY DEF Gain, Kind, takeVars
<1>4. h.nodes = Nodes(graph) /\ Shaped(graph) /\ IsCanvas(h)
  BY <1>1 DEF Stands, Agreed, ViewsAgree
<1> HIDE DEF h
<1>5. canvas'.nodes = Nodes(graph')
  BY <1>2, <1>3, <1>4, RestateAgrees
<1>6. Shaped(graph')
  <2> HIDE DEF s
  <2> QED
    BY <1>2, <1>4, LevelIsStatedOnce
<1>7. IsCanvas(canvas') /\ InPlace(canvas') /\ canvas'.pending = canvas.pending
  <2> DEFINE new == [h.nodes EXCEPT ![h.cur].says = Says(graph', NodeAt(h, h.cur))]
  <2>1. canvas' = [h EXCEPT !.nodes = new]
    BY <1>3 DEF Restate
  <2>2. DOMAIN new = DOMAIN h.nodes
    OBVIOUS
  <2> HIDE DEF new
  <2> QED
    BY <1>1, <1>4, <2>1, <2>2 DEF IsCanvas, InPlace, Stands
<1>8. /\ IsTree(tree') /\ tree'.rows = Rows(graph', Running) /\ Running \in BOOLEAN
      /\ offered' = (~recording' /\ HasOutput(graph'))
  BY <1>3, RefreshedAgrees DEF CanvasEdit, RefreshTree, Running, Menus
<1>9. ViewsAgree'
  BY <1>5, <1>8 DEF ViewsAgree
<1>10. Told
  BY <1>7 DEF Told
<1> QED
  BY <1>3, <1>6, <1>7, <1>8, <1>9, <1>10 DEF Agreed, Shaped, IsCanvas, InPlace, IsTree

LEMMA FollowStands ==
    ASSUME Agreed, NEW sel, Follow(sel) PROVE canvas' = canvas \/ \E c : Stands(c) /\ canvas' = c
<1> DEFINE i == FindNode(canvas.nodes, NodeKey(sel))
           key == NodeKey(sel)
<1> HIDE DEF key
<1>1. FindNode(canvas.nodes, key) = 0 \/ FindNode(canvas.nodes, key) \in DOMAIN canvas.nodes
  <2>1. CASE \E j \in DOMAIN canvas.nodes : Key(canvas.nodes[j]) = key
    BY <2>1 DEF FindNode
  <2>2. CASE ~ \E j \in DOMAIN canvas.nodes : Key(canvas.nodes[j]) = key
    BY <2>2 DEF FindNode
  <2> QED
    BY <2>1, <2>2
<1>2. i = 0 \/ i \in DOMAIN canvas.nodes
  BY <1>1 DEF key
<1>3. canvas' = IF i = 0 THEN canvas ELSE [canvas EXCEPT !.cur = i]
  BY DEF Follow
<1> HIDE DEF i
<1> QED
  BY <1>2, <1>3, MovedStands

LEMMA AllMovesAgree == ASSUME Agreed, Moves PROVE Agreed' /\ Told
<1>1. CASE Move
  <2>1. PICK i \in DOMAIN canvas.nodes : canvas' = [canvas EXCEPT !.cur = i]
    BY <1>1 DEF Move
  <2> DEFINE c == [canvas EXCEPT !.cur = i]
  <2>2. Stands(c) /\ canvas' = c
    BY <2>1, MovedStands
  <2> HIDE DEF c
  <2> QED
    BY <1>1, <2>2, MovesAgree DEF Move
<1>2. CASE MoveCaret
  <2>1. PICK i \in DOMAIN tree.rows : tree' = [tree EXCEPT !.caret = i] /\ Follow(tree.rows[i].sel)
    BY <1>2 DEF MoveCaret
  <2>2. canvas' = canvas \/ \E c : Stands(c) /\ canvas' = c
    BY <2>1, FollowStands
  <2> QED
    BY <1>2, <2>1, <2>2, MovesAgree DEF MoveCaret
<1>3. CASE ActivateRow
  <2>1. canvas' = canvas \/ \E c : Stands(c) /\ canvas' = c
    BY <1>3, FollowStands DEF ActivateRow
  <2> QED
    BY <1>3, <2>1, MovesAgree DEF ActivateRow
<1>4. CASE ToTree
  <2>1. canvas' = canvas \/ \E c : Stands(c) /\ canvas' = c
    BY <1>4, FollowStands DEF ToTree
  <2> QED
    BY <1>4, <2>1, MovesAgree DEF ToTree
<1>5. CASE ToCanvas
  <2>1. Stands(Here) /\ canvas' = Here
    BY <1>5, HereStands DEF ToCanvas
  <2> QED
    BY <1>5, <2>1, MovesAgree DEF ToCanvas
<1> QED
  BY <1>1, <1>2, <1>3, <1>4, <1>5 DEF Moves

\* The views are refreshed, and the graph is as it was.
LEMMA RefreshOnly ==
    ASSUME Agreed, UNCHANGED graphVars, NEW run \in BOOLEAN, RefreshViews(run), Menus(recording')
    PROVE  Agreed' /\ Told
<1>1. Shaped(graph') /\ ids' \in Nat \X Nat
  BY DEF Agreed, graphVars
<1> QED
  BY <1>1, RefreshAgrees DEF RefreshViews

LEMMA StartAgrees == ASSUME Agreed, StartRecording PROVE Agreed' /\ Told
<1>1. PICK armed \in BOOLEAN : graph' = graph /\ RefreshViews(armed) /\ Menus(TRUE)
  BY DEF StartRecording
<1>2. Menus(recording') /\ UNCHANGED graphVars
  BY <1>1 DEF StartRecording, graphVars
<1> QED
  BY <1>1, <1>2, RefreshOnly

LEMMA RecorderAgrees == ASSUME Agreed, Recorder PROVE Agreed' /\ Told
<1>1. CASE Run \/ Notice \/ EndRun \/ TakeStarted
  <2>1. UNCHANGED <<graphVars, views, recording>>
    BY <1>1 DEF Run, Notice, EndRun, TakeStarted, Posts
  <2>2. Agreed'
    BY <2>1, IdleAgrees DEF views, Agreed
  <2>3. Told
    BY <2>1 DEF Told, views
  <2> QED
    BY <2>2, <2>3
<1>2. CASE TakeNotice
  <2>1. Menus(recording') /\ UNCHANGED graphVars /\ RefreshViews(Running) /\ Running \in BOOLEAN
    BY <1>2 DEF TakeNotice, graphVars, Agreed, ViewsAgree, Menus, Running
  <2> QED
    BY <2>1, RefreshOnly
<1>3. CASE TakeStopped
  <2>1. Menus(recording') /\ UNCHANGED graphVars /\ RefreshViews(Running) /\ Running \in BOOLEAN
    BY <1>3 DEF TakeStopped, graphVars, Menus, Running
  <2> QED
    BY <2>1, RefreshOnly
<1> QED
  BY <1>1, <1>2, <1>3 DEF Recorder

LEMMA StepAgrees == ASSUME Agreed, ViewsNext PROVE Agreed' /\ Told
  BY EditsAgree, EdgesAgree, RemoveAgrees, GainAgrees, AllMovesAgree, StartAgrees,
     RecorderAgrees DEF ViewsNext

LEMMA Stutters == ASSUME Agreed, UNCHANGED viewsVars PROVE Agreed' /\ Told
<1>1. UNCHANGED <<graphVars, offered, recording, canvas, tree, told>>
  BY DEF viewsVars, views, takeVars
<1>2. Agreed'
  BY <1>1, IdleAgrees DEF Agreed
<1> QED
  BY <1>1, <1>2 DEF Told

LEMMA StartsAgreed == ViewsInit => Agreed
<1> SUFFICES ASSUME ViewsInit PROVE Agreed
  OBVIOUS
<1>1. graph = EmptyGraph /\ ids = <<1, 1>> /\ ~recording /\ ~offered
      /\ canvas = [nodes |-> <<>>, cur |-> 0, pending |-> 0, cut |-> FALSE]
      /\ tree = [rows |-> Rows(EmptyGraph, FALSE), caret |-> 0]
  BY DEF ViewsInit
<1>2. ~HasOutput(graph)
  BY <1>1 DEF HasOutput, Buses, EmptyGraph
<1>3. IsCanvas(canvas) /\ InPlace(canvas) /\ IsTree(tree)
  BY <1>1 DEF IsCanvas, InPlace, IsTree
<1>4. ViewsAgree
  <2>1. canvas.nodes = Nodes(graph)
    BY <1>1, EmptyIsShaped
  <2>2. tree.rows = Rows(graph, FALSE)
    BY <1>1
  <2>3. offered = (~recording /\ HasOutput(graph))
    BY <1>2 DEF ViewsInit
  <2> QED
    BY <2>1, <2>2, <2>3 DEF ViewsAgree
<1> QED
  BY <1>1, <1>3, <1>4, EmptyIsShaped DEF Agreed

\* Whichever way the session is edited, and whatever its recording does, the nodes,
\* what each of them states, the rows of the tree and the menus are those of the
\* graph (canvas.c, do_gain: the text of one node alone is written again).
THEOREM ViewsOfOneGraph == ViewsSpec => []ViewsAgree
<1>1. Agreed /\ [ViewsNext]_viewsVars => Agreed'
  BY StepAgrees, Stutters
<1>2. Agreed => ViewsAgree
  BY DEF Agreed
<1> QED
  BY <1>1, <1>2, StartsAgreed, PTL DEF ViewsSpec

\* A half-made edge neither begins nor ends without a sentence, whoever ends it
\* (canvas.c, apr_canvas_rebuild; controller.c, on_canvas_say).
THEOREM NoSilentGesture == ViewsSpec => GestureIsTold
<1>1. Agreed /\ [ViewsNext]_viewsVars => Agreed' /\ Told
  BY StepAgrees, Stutters
<1>2. ViewsSpec => [][Told]_viewsVars
  BY <1>1, StartsAgreed, PTL DEF ViewsSpec
<1> QED
  BY <1>2 DEF GestureIsTold, Told
=============================================================================
