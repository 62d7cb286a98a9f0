--------------------------- MODULE BuilderProofs ----------------------------
(***************************************************************************)
(* Theorems about module Builder: what the editor saves, whatever the      *)
(* nodes, the labels and the graphs it is opened on, and however often it  *)
(* is edited, saved and reopened.                                          *)
(*                                                                         *)
(* The argument: a saved graph is either one that was opened, of which     *)
(* BuilderAssumption says that its branches are those drawn, or one that   *)
(* serializeGraph made, which makes them so (Derived); and the default of  *)
(* a condition on the canvas, if it has one, is the one saved (Loaded).    *)
(***************************************************************************)
EXTENDS Builder, WellFoundedInduction, TLAPS

\* The routes drawn out of a condition.
Routed(g, n) == {RouteOf(g.edges[i]) : i \in Labelled(g, n)}

\* A condition with a labelled edge has the labels drawn as its branches, and a default.
Derived(g) ==
  \A n \in g.nodes \cap Conditions :
    Labelled(g, n) # {} => g.data[n].branches = Routed(g, n) /\ g.data[n].default # None

\* Positions of edges are bounded, so that there is a last one.
Numbered(g) == \E k \in Nat : DOMAIN g.edges \subseteq 0 .. k

\* A default on the canvas is the one saved: saving keeps it.
Loaded(c) ==
  \A n \in Conditions : c.data[n].default # None => saved.data[n].default = c.data[n].default

BuilderInv ==
  /\ TypeOK
  /\ Numbered(canvas) /\ Numbered(saved)
  /\ Derived(saved)
  /\ Loaded(canvas)

-----------------------------------------------------------------------------
(* The first and the last edge.                                            *)

Less == {p \in Nat \X Nat : p[1] < p[2]}

LEMMA LessIsWellFounded == IsWellFoundedOn(Less, Nat)
<1>1. OpToRel(<, Nat) = Less
  BY DEF OpToRel, Less
<1> QED
  BY <1>1, NatLessThanWellFounded, Zenon

LEMMA LessPairs ==
  ASSUME NEW x \in Nat, NEW y \in Nat, <<y, x>> \notin Less
  PROVE  x =< y
<1>1. <<y, x>> \in Nat \X Nat /\ <<y, x>>[1] = y /\ <<y, x>>[2] = x
  OBVIOUS
<1>2. ~ (y < x)
  BY <1>1, Zenon DEF Less
<1> QED
  BY <1>2

LEMMA LeastExists ==
  ASSUME NEW S \in SUBSET Nat, S # {}
  PROVE  Min(S) \in S
<1>1. PICK x \in S : \A y \in S : <<y, x>> \notin Less
  BY WFMin, LessIsWellFounded, Zenon
<1>2. \A y \in S : x =< y
  BY <1>1, LessPairs
<1> QED
  BY <1>2 DEF Min

LEMMA GreatestExists ==
  ASSUME NEW S \in SUBSET Nat, S # {}, NEW k \in Nat, S \subseteq 0 .. k
  PROVE  Max(S) \in S
<1> DEFINE D == {k - i : i \in S}
<1>1. D \subseteq Nat /\ D # {}
  <2>1. \A i \in S : i \in 0 .. k /\ k - i \in Nat
    OBVIOUS
  <2> QED
    BY <2>1
<1>2. PICK x \in D : \A y \in D : <<y, x>> \notin Less
  BY <1>1, WFMin, LessIsWellFounded, Zenon
<1>3. \A y \in D : x =< y
  BY <1>1, <1>2, LessPairs
<1>4. PICK i \in S : x = k - i
  OBVIOUS
<1>5. \A j \in S : i >= j
  <2> TAKE j \in S
  <2>1. k - j \in D
    OBVIOUS
  <2> QED
    BY <2>1, <1>3, <1>4
<1> QED
  BY <1>5 DEF Max

-----------------------------------------------------------------------------
(* Routes and conversions.                                                 *)

LEMMA RouteType ==
  ASSUME NEW r \in EdgeType
  PROVE  RouteOf(r) \in Labels \cup {None}
BY DEF RouteOf, EdgeType

\* buildRF keeps nodes, data, and what each edge stands for.
LEMMA BuildRFKeeps ==
  ASSUME NEW g, IsGraph(g), NEW b, b = BuildRF(g)
  PROVE  /\ b.nodes = g.nodes /\ b.data = g.data
         /\ DOMAIN b.edges = DOMAIN g.edges
         /\ \A i \in DOMAIN g.edges :
              /\ b.edges[i] \in EdgeType
              /\ b.edges[i].source = g.edges[i].source
              /\ b.edges[i].target = g.edges[i].target
              /\ RouteOf(b.edges[i]) = RouteOf(g.edges[i])
         /\ IsGraph(b)
<1> DEFINE made(i) == [g.edges[i] EXCEPT !.when = None, !.label = RouteOf(g.edges[i])]
           all == [i \in DOMAIN g.edges |-> made(i)]
<1>1. \A i \in DOMAIN g.edges :
        /\ made(i) \in EdgeType
        /\ made(i).source = g.edges[i].source
        /\ made(i).target = g.edges[i].target
        /\ made(i).when = None
        /\ made(i).label = RouteOf(g.edges[i])
  <2> TAKE i \in DOMAIN g.edges
  <2>1. g.edges[i] \in EdgeType
    BY DEF IsGraph
  <2> QED
    BY <2>1, RouteType DEF EdgeType
<1>2. \A i \in DOMAIN g.edges : RouteOf(made(i)) = RouteOf(g.edges[i])
  BY <1>1 DEF RouteOf
<1>3. b = [nodes |-> g.nodes, edges |-> all, data |-> g.data]
  BY DEF BuildRF, IsGraph
<1> HIDE DEF made
<1>4. /\ b.nodes = g.nodes /\ b.data = g.data /\ b.edges = all
      /\ b = [nodes |-> b.nodes, edges |-> b.edges, data |-> b.data]
  BY <1>3
<1>5. DOMAIN all = DOMAIN g.edges /\ \A i \in DOMAIN g.edges : all[i] = made(i)
  OBVIOUS
<1> HIDE DEF all
<1>6. all \in [DOMAIN all -> EdgeType]
  BY <1>1, <1>5 DEF all
<1> QED
  BY <1>1, <1>2, <1>4, <1>5, <1>6 DEF IsGraph

\* Conditions and their edges mean the same on two graphs whose edges do.
LEMMA SameEdges ==
  ASSUME NEW g, NEW b, Numbered(g), DOMAIN b.edges = DOMAIN g.edges,
         \A i \in DOMAIN g.edges :
           /\ b.edges[i].source = g.edges[i].source
           /\ b.edges[i].target = g.edges[i].target
           /\ RouteOf(b.edges[i]) = RouteOf(g.edges[i]),
         NEW n
  PROVE  /\ Out(b, n) = Out(g, n) /\ Labelled(b, n) = Labelled(g, n)
         /\ Covered(b, n) = Covered(g, n) /\ Routed(b, n) = Routed(g, n)
         /\ PathMap(b, n) = PathMap(g, n) /\ Targets(b, n) = Targets(g, n)
<1>1. Out(b, n) = Out(g, n) /\ Out(g, n) \subseteq DOMAIN g.edges
  BY DEF Out
<1>2. Labelled(b, n) = Labelled(g, n) /\ Labelled(g, n) \subseteq DOMAIN g.edges
  BY <1>1 DEF Labelled
<1>3. Covered(b, n) = Covered(g, n) /\ Targets(b, n) = Targets(g, n)
  BY <1>1 DEF Covered, Targets
<1>4. Routed(b, n) = Routed(g, n)
  BY <1>2 DEF Routed
<1>5. PathMap(b, n) = PathMap(g, n)
  <2> DEFINE last(h, r) == {i \in Out(h, n) : RouteOf(h.edges[i]) = r}
  <2>1. \A r : last(b, r) = last(g, r)
    BY <1>1
  <2> SUFFICES ASSUME NEW r \in Covered(g, n)
               PROVE  b.edges[Max(last(b, r))].target = g.edges[Max(last(g, r))].target
    BY <1>3 DEF PathMap
  <2>2. last(g, r) # {} /\ last(g, r) \subseteq DOMAIN g.edges
    BY <1>1 DEF Covered
  <2>3. PICK k \in Nat : DOMAIN g.edges \subseteq 0 .. k
    BY DEF Numbered
  <2> HIDE DEF last
  <2>4. last(g, r) \in SUBSET Nat /\ last(g, r) \subseteq 0 .. k
    BY <2>2, <2>3
  <2>5. Max(last(g, r)) \in last(g, r)
    BY <2>2, <2>4, GreatestExists
  <2> QED
    BY <2>1, <2>2, <2>5
<1> QED
  BY <1>1, <1>2, <1>3, <1>4, <1>5

\* serializeGraph writes nothing but the data of the conditions, and makes it Derived.
LEMMA SerializeKeeps ==
  ASSUME NEW c, IsGraph(c), NEW g, g = SerializeGraph(c)
  PROVE  /\ g.nodes = c.nodes /\ g.edges = c.edges
         /\ \A n \in c.nodes \cap Conditions :
              g.data[n] = [branches |-> Drawn(c, n),
                           default |-> IF c.data[n].default # None
                                       THEN c.data[n].default ELSE First(c, n)]
         /\ \A n \in Conditions \ c.nodes : g.data[n] = c.data[n]
         /\ IsGraph(g)
         /\ Derived(g)
<1> DEFINE made(n) == [branches |-> Drawn(c, n),
                       default |-> IF c.data[n].default # None
                                   THEN c.data[n].default ELSE First(c, n)]
           all == [n \in Conditions |-> IF n \in c.nodes THEN made(n) ELSE c.data[n]]
<1>1. g = [nodes |-> c.nodes, edges |-> c.edges, data |-> all]
  BY DEF SerializeGraph, IsGraph
<1> HIDE DEF all
<1>2. /\ g.nodes = c.nodes /\ g.edges = c.edges /\ g.data = all
      /\ g = [nodes |-> g.nodes, edges |-> g.edges, data |-> g.data]
  BY <1>1
<1>3. \A n \in Conditions :
        /\ n \in c.nodes => all[n] = made(n)
        /\ n \notin c.nodes => all[n] = c.data[n]
  BY DEF all
<1>4. \A n : \A i \in Labelled(c, n) :
        i \in DOMAIN c.edges /\ i \in Nat /\ RouteOf(c.edges[i]) \in Labels
  <2> TAKE n
  <2> TAKE i \in Labelled(c, n)
  <2>1. i \in DOMAIN c.edges /\ RouteOf(c.edges[i]) # None
    BY DEF Labelled, Out
  <2>2. c.edges[i] \in EdgeType /\ i \in Nat
    BY <2>1 DEF IsGraph
  <2> QED
    BY <2>1, <2>2, RouteType
<1>5. \A n : /\ Labelled(c, n) # {} => First(c, n) \in Labels
             /\ Labelled(c, n) = {} => First(c, n) = None
  <2> TAKE n
  <2>1. CASE Labelled(c, n) # {}
    <3>1. Min(Labelled(c, n)) \in Labelled(c, n)
      BY <1>4, <2>1, LeastExists
    <3> QED
      BY <1>4, <2>1, <3>1 DEF First
  <2> QED
    BY <2>1 DEF First
<1>6. \A n \in Conditions : /\ c.data[n] \in DataType
                            /\ c.data[n].branches \subseteq Labels
                            /\ c.data[n].default \in Labels \cup {None}
  BY DEF IsGraph, DataType
<1>7. \A n \in Conditions : Drawn(c, n) \subseteq Labels
  BY <1>4, <1>6 DEF Drawn
<1>8. \A n \in Conditions : made(n) \in DataType
  BY <1>5, <1>6, <1>7 DEF DataType
<1>9. IsGraph(g)
  <2> HIDE DEF made
  <2>1. all \in [Conditions -> DataType]
    BY <1>3, <1>6, <1>8 DEF all
  <2> QED
    BY <1>2, <2>1 DEF IsGraph
<1>10. Derived(g)
  <2> SUFFICES ASSUME NEW n \in c.nodes \cap Conditions, Labelled(g, n) # {}
               PROVE  g.data[n].branches = Routed(g, n) /\ g.data[n].default # None
    BY <1>2 DEF Derived
  <2>1. Labelled(g, n) = Labelled(c, n) /\ Routed(g, n) = Routed(c, n)
    BY <1>2 DEF Labelled, Out, Routed
  <2>2. Drawn(c, n) = Routed(c, n)
    BY <2>1 DEF Drawn, Routed
  <2>3. First(c, n) # None
    BY <1>5, <2>1, CompilerAssumption
  <2>4. g.data[n] = made(n)
    BY <1>2, <1>3
  <2>5. made(n).branches = Drawn(c, n) /\ made(n).default # None
    BY <2>3
  <2> QED
    BY <2>1, <2>2, <2>4, <2>5
<1> QED
  BY <1>2, <1>3, <1>9, <1>10

-----------------------------------------------------------------------------
(* The invariant.                                                          *)

LEMMA OpenedGraphs ==
  ASSUME NEW g \in Opened
  PROVE  IsGraph(g) /\ Numbered(g) /\ Derived(g)
<1>1. Fresh(g)
  BY BuilderAssumption
<1>2. Numbered(g)
  <2>1. DOMAIN g.edges = 1 .. Len(g.edges) /\ Len(g.edges) \in Nat
    BY <1>1 DEF Fresh
  <2> QED
    BY <2>1 DEF Numbered
<1>3. Derived(g)
  <2> SUFFICES ASSUME NEW n \in g.nodes \cap Conditions
               PROVE  g.data[n].branches = Routed(g, n) /\ g.data[n].default # None
    BY DEF Derived
  <2>1. /\ g.data[n].branches = Covered(g, n) /\ g.data[n].default # None
        /\ g.data[n].branches \subseteq Labels
    BY <1>1 DEF Fresh, IsGraph, DataType
  <2>2. Labelled(g, n) = Out(g, n)
    BY <2>1, CompilerAssumption DEF Covered, Labelled
  <2> QED
    BY <2>1, <2>2 DEF Covered, Routed
<1> QED
  BY <1>1, <1>2, <1>3 DEF Fresh

LEMMA Reopened ==
  ASSUME NEW g, IsGraph(g), Numbered(g)
  PROVE  IsGraph(BuildRF(g)) /\ Numbered(BuildRF(g)) /\ BuildRF(g).data = g.data
BY BuildRFKeeps DEF Numbered

LEMMA Saved ==
  ASSUME NEW c, IsGraph(c), Numbered(c)
  PROVE  LET g == SerializeGraph(c)
         IN  /\ IsGraph(g) /\ Numbered(g) /\ Derived(g)
             /\ \A n \in Conditions :
                  c.data[n].default # None => g.data[n].default = c.data[n].default
<1> DEFINE g == SerializeGraph(c)
<1>1. /\ IsGraph(g) /\ Derived(g) /\ g.edges = c.edges
      /\ \A n \in c.nodes \cap Conditions :
           g.data[n] = [branches |-> Drawn(c, n),
                        default |-> IF c.data[n].default # None
                                    THEN c.data[n].default ELSE First(c, n)]
      /\ \A n \in Conditions \ c.nodes : g.data[n] = c.data[n]
  BY SerializeKeeps
<1> HIDE DEF g
<1>2. \A n \in Conditions : c.data[n].default # None => g.data[n].default = c.data[n].default
  <2> TAKE n \in Conditions
  <2> DEFINE d == IF c.data[n].default # None THEN c.data[n].default ELSE First(c, n)
  <2>1. CASE n \in c.nodes
    <3>1. g.data[n] = [branches |-> Drawn(c, n), default |-> d]
      BY <1>1, <2>1
    <3> QED
      BY <3>1
  <2>2. CASE n \notin c.nodes
    BY <1>1, <2>2
  <2> QED
    BY <2>1, <2>2
<1> QED
  BY <1>1, <1>2 DEF g, Numbered

\* What an edit of the canvas must leave to the next one.
Editable(c) == IsGraph(c) /\ Numbered(c) /\ Loaded(c)

LEMMA ResetData ==
  ASSUME NEW d \in [Conditions -> DataType], NEW n
  PROVE  LET r == [m \in Conditions |-> IF m = n THEN NoData ELSE d[m]]
         IN  /\ r \in [Conditions -> DataType]
             /\ \A m \in Conditions : r[m].default # None => r[m] = d[m]
BY DEF NoData, DataType

LEMMA AddNodeEditable ==
  ASSUME Editable(canvas), NEW n \in Nodes, AddNode(n)
  PROVE  Editable(canvas)'
<1> DEFINE data == [m \in Conditions |-> IF m = n THEN NoData ELSE canvas.data[m]]
<1>1. canvas' = [nodes |-> canvas.nodes \cup {n}, edges |-> canvas.edges, data |-> data]
  BY DEF AddNode, Edit, Editable, IsGraph
<1>2. /\ data \in [Conditions -> DataType]
      /\ \A m \in Conditions : data[m].default # None => data[m] = canvas.data[m]
  BY ResetData DEF Editable, IsGraph
<1> HIDE DEF data
<1>3. saved' = saved
  BY DEF AddNode, Edit
<1> QED
  BY <1>1, <1>2, <1>3 DEF Editable, IsGraph, Numbered, Loaded

LEMMA RemoveNodeEditable ==
  ASSUME Editable(canvas), NEW n \in Nodes, RemoveNode(n)
  PROVE  Editable(canvas)'
<1> DEFINE data == [m \in Conditions |-> IF m = n THEN NoData ELSE canvas.data[m]]
           kept == {i \in DOMAIN canvas.edges :
                      n \notin {canvas.edges[i].source, canvas.edges[i].target}}
           edges == [i \in kept |-> canvas.edges[i]]
<1>1. canvas' = [nodes |-> canvas.nodes \ {n}, edges |-> edges, data |-> data]
  BY DEF RemoveNode, Edit, Editable, IsGraph, Restrict
<1>2. /\ data \in [Conditions -> DataType]
      /\ \A m \in Conditions : data[m].default # None => data[m] = canvas.data[m]
  BY ResetData DEF Editable, IsGraph
<1>3. /\ DOMAIN edges \subseteq DOMAIN canvas.edges
      /\ \A i \in DOMAIN edges : edges[i] = canvas.edges[i]
      /\ edges \in [DOMAIN edges -> EdgeType]
  BY DEF Editable, IsGraph
<1> HIDE DEF data, edges
<1>4. saved' = saved
  BY DEF RemoveNode, Edit
<1> QED
  BY <1>1, <1>2, <1>3, <1>4 DEF Editable, IsGraph, Numbered, Loaded

LEMMA RemoveEdgeEditable ==
  ASSUME Editable(canvas), NEW j, RemoveEdge(j)
  PROVE  Editable(canvas)'
<1> DEFINE edges == [i \in DOMAIN canvas.edges \ {j} |-> canvas.edges[i]]
<1>1. canvas' = [nodes |-> canvas.nodes, edges |-> edges, data |-> canvas.data]
  BY DEF RemoveEdge, Edit, Editable, IsGraph, Restrict
<1>2. /\ DOMAIN edges \subseteq DOMAIN canvas.edges
      /\ \A i \in DOMAIN edges : edges[i] = canvas.edges[i]
      /\ edges \in [DOMAIN edges -> EdgeType]
  BY DEF Editable, IsGraph
<1> HIDE DEF edges
<1>3. saved' = saved
  BY DEF RemoveEdge, Edit
<1> QED
  BY <1>1, <1>2, <1>3 DEF Editable, IsGraph, Numbered, Loaded

LEMMA ConnectEditable ==
  ASSUME Editable(canvas), NEW a \in Nodes, NEW b \in Nodes, NEW l \in Labels \cup {None},
         Connect(a, b, l)
  PROVE  Editable(canvas)'
<1> DEFINE k == Max(DOMAIN canvas.edges \cup {0}) + 1
           new == [source |-> a, target |-> b, when |-> l, label |-> l]
           edges == [i \in DOMAIN canvas.edges \cup {k} |-> IF i = k THEN new ELSE canvas.edges[i]]
<1>1. canvas' = [nodes |-> canvas.nodes, edges |-> edges, data |-> canvas.data]
  BY DEF Connect, Edit, WithEdge, Editable, IsGraph
<1>2. PICK top \in Nat : DOMAIN canvas.edges \subseteq 0 .. top
  BY DEF Editable, Numbered
<1>3. k \in Nat
  <2> DEFINE S == DOMAIN canvas.edges \cup {0}
  <2>1. S \in SUBSET Nat /\ S # {} /\ S \subseteq 0 .. top
    BY <1>2
  <2> HIDE DEF S
  <2>2. Max(S) \in S
    BY <2>1, GreatestExists
  <2> QED
    BY <2>1, <2>2 DEF S
<1>4. new \in EdgeType
  BY DEF Connect, EdgeType
<1> HIDE DEF k, new
<1>5. /\ DOMAIN edges = DOMAIN canvas.edges \cup {k}
      /\ edges[k] = new
      /\ \A i \in DOMAIN canvas.edges : i # k => edges[i] = canvas.edges[i]
      /\ edges \in [DOMAIN edges -> EdgeType]
  BY <1>4 DEF Editable, IsGraph
<1> HIDE DEF edges
<1>6. Numbered(canvas)'
  <2>1. top + k \in Nat /\ DOMAIN edges \subseteq 0 .. top + k
    BY <1>2, <1>3, <1>5
  <2> QED
    BY <1>1, <2>1 DEF Numbered
<1>7. Loaded(canvas)'
  BY <1>1 DEF Connect, Edit, Loaded, Editable
<1> QED
  BY <1>1, <1>3, <1>5, <1>6, <1>7 DEF Editable, IsGraph

LEMMA EditStep ==
  ASSUME NEW c, Edit(c), BuilderInv
  PROVE  /\ UNCHANGED <<saved, agents>>
         /\ edits' \in 0 .. MaxEdits
BY BuilderAssumption DEF Edit, BuilderInv, TypeOK

LEMMA BuilderInit == Init => BuilderInv
<1> SUFFICES ASSUME Init
             PROVE  BuilderInv
  OBVIOUS
<1>1. IsGraph(saved) /\ Numbered(saved) /\ Derived(saved)
  BY OpenedGraphs DEF Init
<1>2. IsGraph(canvas) /\ Numbered(canvas) /\ canvas.data = saved.data
  BY <1>1, Reopened DEF Init
<1>3. agents \subseteq Workers /\ edits \in 0 .. MaxEdits
  BY BuilderAssumption DEF Init
<1> QED
  BY <1>1, <1>2, <1>3 DEF BuilderInv, TypeOK, Loaded

LEMMA BuilderStep == BuilderInv /\ [Next]_vars => BuilderInv'
<1> SUFFICES ASSUME BuilderInv, [Next]_vars
             PROVE  BuilderInv'
  OBVIOUS
<1>1. Editable(canvas)
  BY DEF BuilderInv, TypeOK, Editable
<1>2. ASSUME Editable(canvas)', UNCHANGED <<saved, agents>>, edits' \in 0 .. MaxEdits
      PROVE  BuilderInv'
  BY <1>2 DEF BuilderInv, TypeOK, Editable, Loaded, Numbered, Derived, Labelled, Routed, Out
<1>3. ASSUME NEW n \in Nodes, AddNode(n)
      PROVE  BuilderInv'
  BY <1>1, <1>2, <1>3, AddNodeEditable, EditStep DEF AddNode
<1>4. ASSUME NEW n \in Nodes, RemoveNode(n)
      PROVE  BuilderInv'
  BY <1>1, <1>2, <1>4, RemoveNodeEditable, EditStep DEF RemoveNode
<1>5. ASSUME NEW i \in DOMAIN canvas.edges, RemoveEdge(i)
      PROVE  BuilderInv'
  BY <1>1, <1>2, <1>5, RemoveEdgeEditable, EditStep DEF RemoveEdge
<1>6. ASSUME NEW a \in Nodes, NEW b \in Nodes, NEW l \in Labels \cup {None}, Connect(a, b, l)
      PROVE  BuilderInv'
  BY <1>1, <1>2, <1>6, ConnectEditable, EditStep DEF Connect
<1>7. CASE Save
  BY <1>7, Saved DEF Save, BuilderInv, TypeOK, Loaded
<1>8. CASE Reopen
  BY <1>8, Reopened DEF Reopen, BuilderInv, TypeOK, Loaded
<1>9. ASSUME NEW n \in Workers, DeleteAgent(n)
      PROVE  BuilderInv'
  BY <1>9, BuilderAssumption DEF DeleteAgent, BuilderInv, TypeOK, Loaded
<1>10. CASE UNCHANGED vars
  BY <1>10 DEF vars, BuilderInv, TypeOK, Loaded, Numbered, Derived, Labelled, Routed, Out
<1> QED
  BY <1>3, <1>4, <1>5, <1>6, <1>7, <1>8, <1>9, <1>10 DEF Next

LEMMA BuilderInvariant == Spec => []BuilderInv
BY BuilderInit, BuilderStep, PTL DEF Spec

-----------------------------------------------------------------------------
(* The theorems.                                                           *)

\* The canvas and the saved graph keep their types through any editing.
THEOREM BuilderTypes == Spec => []TypeOK
<1>1. BuilderInv => TypeOK
  BY DEF BuilderInv
<1> QED
  BY <1>1, BuilderInvariant, PTL

\* However a workflow is edited, saved and reopened: if it validates, every branch of
\* a condition that has an edge has one (validate of compiler.py, serializeGraph).
THEOREM EveryBranchHasAnEdge == Spec => []BranchesHaveEdges
<1>1. ASSUME BuilderInv
      PROVE  BranchesHaveEdges
  <2> SUFFICES ASSUME NEW n \in saved.nodes \cap Conditions,
                      Valid(saved, agents), Out(saved, n) # {}
               PROVE  saved.data[n].branches \subseteq Covered(saved, n)
    BY DEF BranchesHaveEdges
  <2>1. PICK i \in Out(saved, n) : TRUE
    OBVIOUS
  <2>2. RouteOf(saved.edges[i]) \in saved.data[n].branches
    BY <2>1 DEF Valid, BranchesFit, Covered
  <2>3. saved.data[n].branches \subseteq Labels
    BY <1>1 DEF BuilderInv, TypeOK, IsGraph, DataType
  <2>4. i \in Labelled(saved, n)
    BY <2>1, <2>2, <2>3, CompilerAssumption DEF Labelled
  <2>5. saved.data[n].branches = Routed(saved, n)
    BY <1>1, <2>4 DEF BuilderInv, Derived
  <2> QED
    BY <2>5 DEF Routed, Labelled, Covered
<1> QED
  BY <1>1, BuilderInvariant, PTL

\* Opening and saving a workflow never changes the routes, the edges and the defaults
\* it is compiled to (buildRF, serializeGraph).
THEOREM SavingKeepsTheMeaning == Spec => []RoundTrip
<1>1. ASSUME BuilderInv
      PROVE  RoundTrip
  <2> DEFINE b == BuildRF(saved)
             g == SerializeGraph(b)
  <2>1. IsGraph(saved) /\ Numbered(saved) /\ Derived(saved)
    BY <1>1 DEF BuilderInv, TypeOK
  <2>2. /\ b.nodes = saved.nodes /\ b.data = saved.data
        /\ DOMAIN b.edges = DOMAIN saved.edges
        /\ \A i \in DOMAIN saved.edges :
             /\ b.edges[i].source = saved.edges[i].source
             /\ b.edges[i].target = saved.edges[i].target
             /\ RouteOf(b.edges[i]) = RouteOf(saved.edges[i])
        /\ IsGraph(b)
    BY <2>1, BuildRFKeeps
  <2> HIDE DEF b
  <2>3. /\ g.nodes = b.nodes /\ g.edges = b.edges
        /\ \A n \in b.nodes \cap Conditions :
             g.data[n] = [branches |-> Drawn(b, n),
                          default |-> IF b.data[n].default # None
                                      THEN b.data[n].default ELSE First(b, n)]
    BY <2>2, SerializeKeeps
  <2> HIDE DEF g
  <2>4. \A n : /\ PathMap(g, n) = PathMap(saved, n)
               /\ Targets(g, n) = Targets(saved, n)
               /\ Labelled(b, n) = Labelled(saved, n)
               /\ Routed(b, n) = Routed(saved, n)
    <3> TAKE n
    <3>1. Numbered(saved) /\ DOMAIN g.edges = DOMAIN saved.edges
      BY <2>1, <2>2, <2>3
    <3>2. PathMap(g, n) = PathMap(saved, n) /\ Targets(g, n) = Targets(saved, n)
      BY <2>2, <2>3, <3>1, SameEdges
    <3>3. Labelled(b, n) = Labelled(saved, n) /\ Routed(b, n) = Routed(saved, n)
      BY <2>1, <2>2, SameEdges
    <3> QED
      BY <3>2, <3>3
  <2>5. \A n \in saved.nodes \cap Conditions : g.data[n] = saved.data[n]
    <3> TAKE n \in saved.nodes \cap Conditions
    <3>1. Drawn(b, n) = saved.data[n].branches
      BY <2>1, <2>2, <2>4 DEF Drawn, Derived, Routed
    <3>2. saved.data[n].default = None => First(b, n) = None
      BY <2>1, <2>4 DEF First, Derived
    <3>3. saved.data[n] = [branches |-> saved.data[n].branches, default |-> saved.data[n].default]
      BY <2>1 DEF IsGraph, DataType
    <3> QED
      BY <2>2, <2>3, <3>1, <3>2, <3>3
  <2>6. Meaning(g) = Meaning(saved)
    <3>1. g.nodes = saved.nodes
      BY <2>2, <2>3
    <3>2. [n \in g.nodes \cap Conditions |-> [data |-> g.data[n], map |-> PathMap(g, n)]]
          = [n \in saved.nodes \cap Conditions |->
               [data |-> saved.data[n], map |-> PathMap(saved, n)]]
      BY <2>4, <2>5, <3>1
    <3>3. [n \in g.nodes \ Conditions |-> Targets(g, n)]
          = [n \in saved.nodes \ Conditions |-> Targets(saved, n)]
      BY <2>4, <3>1
    <3> QED
      BY <3>1, <3>2, <3>3 DEF Meaning
  <2> QED
    BY <2>6 DEF RoundTrip, g, b
<1> QED
  BY <1>1, BuilderInvariant, PTL

\* However a workflow is edited, saved and reopened: no save makes a default that has no
\* edge, but for one that was saved before (the loaded default of serializeGraph).
THEOREM DeadDefaultsAreOld == Spec => DeadDefaultIsOld
<1>1. ASSUME BuilderInv, BuilderInv', [Next]_vars
      PROVE  \A n \in Conditions :
               DeadDefault(n)' => saved'.data[n].default = saved.data[n].default
  <2> SUFFICES ASSUME NEW n \in Conditions, DeadDefault(n)'
               PROVE  saved'.data[n].default = saved.data[n].default
    OBVIOUS
  <2>1. CASE UNCHANGED saved
    BY <2>1
  <2>2. CASE Save
    <3> DEFINE g == SerializeGraph(canvas)
    <3>1. /\ g.nodes = canvas.nodes /\ g.edges = canvas.edges
          /\ n \in canvas.nodes =>
               g.data[n] = [branches |-> Drawn(canvas, n),
                            default |-> IF canvas.data[n].default # None
                                        THEN canvas.data[n].default ELSE First(canvas, n)]
      BY <1>1, SerializeKeeps DEF BuilderInv, TypeOK
    <3>2. saved' = g
      BY <2>2 DEF Save
    <3> HIDE DEF g
    <3>3. n \in canvas.nodes /\ Out(g, n) # {} /\ g.data[n].default \notin Covered(g, n)
      BY <3>1, <3>2 DEF DeadDefault
    <3>4. CASE canvas.data[n].default # None
      BY <1>1, <3>1, <3>2, <3>3, <3>4 DEF BuilderInv, Loaded
    <3>5. CASE canvas.data[n].default = None
      <4>1. PICK i \in Out(g, n) : TRUE
        BY <3>3
      <4>2. RouteOf(g.edges[i]) \in g.data[n].branches
        BY <3>1, <3>2, <3>3, <4>1 DEF DeadDefault, Valid, BranchesFit, Covered
      <4>3. g.data[n].branches \subseteq Labels
        BY <1>1, <3>2 DEF BuilderInv, TypeOK, IsGraph, DataType
      <4>4. i \in Labelled(canvas, n)
        BY <3>1, <4>1, <4>2, <4>3, CompilerAssumption DEF Labelled, Out
      <4>5. Labelled(canvas, n) \in SUBSET Nat /\ Labelled(canvas, n) \subseteq Out(canvas, n)
        BY <1>1 DEF Labelled, Out, BuilderInv, TypeOK, IsGraph
      <4>6. Min(Labelled(canvas, n)) \in Labelled(canvas, n)
        BY <4>4, <4>5, LeastExists
      <4>7. First(canvas, n) \in Covered(g, n)
        BY <3>1, <4>4, <4>5, <4>6 DEF First, Covered, Out
      <4> QED
        BY <3>1, <3>3, <3>5, <4>7
    <3> QED
      BY <3>4, <3>5
  <2> QED
    BY <1>1, <2>1, <2>2
    DEF Next, vars, AddNode, RemoveNode, RemoveEdge, Connect, Edit, Reopen, DeleteAgent
<1> QED
  BY <1>1, BuilderInvariant, PTL DEF Spec, DeadDefaultIsOld
=============================================================================
