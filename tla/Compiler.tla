------------------------------ MODULE Compiler ------------------------------
(***************************************************************************)
(* What a workflow drawn as a graph means: validate and compile_graph of   *)
(* backend/app/runtime/compiler.py, and the two conversions of the editor, *)
(* buildRF and serializeGraph of frontend/src/features/WorkflowBuilder.tsx.*)
(*                                                                         *)
(* The type of a node is the set of constants it belongs to.  Every node   *)
(* of an agent has an agent of its own, and a set of agents is the set of  *)
(* the nodes whose agent exists.  Edges have an order, that of the numbers *)
(* they are indexed with: of two edges of a condition with one label the   *)
(* later one counts.  The branches of a condition are a set, which leaves  *)
(* out that the runtime falls back on labels[0] when there is no default:  *)
(* the editor, the templates and the generator give a default to every     *)
(* condition that has branches.  Names, prompts, places on the canvas and  *)
(* the tools of tool nodes are left out.                                   *)
(***************************************************************************)
EXTENDS Integers, Sequences, FiniteSets, FiniteSetsExt, Functions

CONSTANTS
  Starts,      \* nodes of type start
  Ends,        \* nodes of type end
  Workers,     \* nodes of type agent and deepagent
  Plain,       \* nodes of type human and tool
  Conditions,  \* nodes of type condition
  Labels,      \* branch labels
  None

Nodes == Starts \cup Ends \cup Workers \cup Plain \cup Conditions

ASSUME CompilerAssumption ==
  /\ None \notin Labels
  /\ Starts \cap (Ends \cup Workers \cup Plain \cup Conditions) = {}
  /\ Ends \cap (Workers \cup Plain \cup Conditions) = {}
  /\ Conditions \cap (Workers \cup Plain) = {}
  /\ Workers \cap Plain = {}

EdgeType == [source : Nodes, target : Nodes,
             when : Labels \cup {None}, label : Labels \cup {None}]
DataType == [branches : SUBSET Labels, default : Labels \cup {None}]

\* graph_json; data is that of the condition nodes.
IsGraph(g) ==
  /\ g = [nodes |-> g.nodes, edges |-> g.edges, data |-> g.data]
  /\ g.nodes \subseteq Nodes
  /\ g.edges \in [DOMAIN g.edges -> EdgeType] /\ DOMAIN g.edges \subseteq Nat
  /\ g.data \in [Conditions -> DataType]


\* e.data.get("when") or e.label
RouteOf(e) == IF e.when # None THEN e.when ELSE e.label

Out(g, n) == {i \in DOMAIN g.edges : g.edges[i].source = n}
Covered(g, n) == {RouteOf(g.edges[i]) : i \in Out(g, n)}

-----------------------------------------------------------------------------
(* validate.                                                               *)

Attached(g) == \A i \in DOMAIN g.edges : {g.edges[i].source, g.edges[i].target} \subseteq g.nodes

\* A branch may go without an edge if the default is another one.
BranchesFit(g, n) ==
  LET d == g.data[n]
      uncovered == d.branches \ Covered(g, n)
  IN /\ Cardinality(d.branches) >= 2
     /\ Covered(g, n) \subseteq d.branches
     /\ uncovered # {} => d.default # None /\ d.default \notin uncovered

Valid(g, agents) ==
  /\ Cardinality(g.nodes \cap Starts) = 1
  /\ g.nodes \cap Ends # {}
  /\ Attached(g)
  /\ g.nodes \cap Workers \subseteq agents
  /\ \A n \in g.nodes \cap Conditions : BranchesFit(g, n)

-----------------------------------------------------------------------------
(* compile_graph.                                                          *)

\* The path_map of a condition, and the targets of any other node.
PathMap(g, n) == [r \in Covered(g, n) |->
  g.edges[Max({i \in Out(g, n) : RouteOf(g.edges[i]) = r})].target]
Targets(g, n) == {g.edges[i].target : i \in Out(g, n)}

\* What the compiler makes of a graph.
Meaning(g) ==
  [nodes |-> g.nodes,
   routes |-> [n \in g.nodes \cap Conditions |-> [data |-> g.data[n], map |-> PathMap(g, n)]],
   next |-> [n \in g.nodes \ Conditions |-> Targets(g, n)]]

-----------------------------------------------------------------------------
(* The conversions of the editor.  A canvas has the shape of a graph.      *)

\* Mutant of BuildRF: the label of an edge is taken from edge.label only.
BuildRFLabelOnly(g) ==
  [g EXCEPT !.edges = [i \in DOMAIN g.edges |-> [g.edges[i] EXCEPT !.when = None]]]

\* buildRF keeps the data of the nodes; an edge keeps its route, as its label.
BuildRF(g) ==
  [g EXCEPT !.edges = [i \in DOMAIN g.edges |->
     [g.edges[i] EXCEPT !.when = None, !.label = RouteOf(g.edges[i])]]]

\* Edges from n that have a label.
Labelled(c, n) == {i \in Out(c, n) : RouteOf(c.edges[i]) # None}

\* Mutants: the branches are those loaded; the default is a node, not a label.
DrawnAsLoaded(c, n) == c.data[n].branches
FirstTarget(c, n) == IF Labelled(c, n) = {} THEN None ELSE c.edges[Min(Labelled(c, n))].target

\* The branches of a condition are the labels drawn, or those loaded if none is.
Drawn(c, n) == IF Labelled(c, n) = {} THEN c.data[n].branches
               ELSE {RouteOf(c.edges[i]) : i \in Labelled(c, n)}

\* labels[0]; without a labelled edge there is none, or the default is the loaded one.
First(c, n) == IF Labelled(c, n) = {} THEN None ELSE RouteOf(c.edges[Min(Labelled(c, n))])

\* serializeGraph.
SerializeGraph(c) ==
  [c EXCEPT !.data = [n \in Conditions |->
     IF n \in c.nodes
     THEN [branches |-> Drawn(c, n),
           default |-> IF c.data[n].default # None THEN c.data[n].default ELSE First(c, n)]
     ELSE c.data[n]]]
=============================================================================
