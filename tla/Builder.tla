------------------------------- MODULE Builder -------------------------------
(***************************************************************************)
(* The workflow editor, frontend/src/features/WorkflowBuilder.tsx, and the *)
(* graph_json it saves through PATCH /api/workflows/{id}.  A user draws on *)
(* the canvas, saves, comes back to the saved graph, and draws on; the     *)
(* saved graph is what is validated, compiled and run.                     *)
(*                                                                         *)
(* A node that is added gets a fresh id: here, one not on the canvas.  The *)
(* edits React Flow makes by itself (deletion together with the connected  *)
(* edges, no second edge between two nodes, edges only from a source       *)
(* handle to a target handle) are modelled from their use.  A save is one  *)
(* step: two saves that overtake each other on the way to the server are   *)
(* left out.                                                               *)
(***************************************************************************)
EXTENDS Compiler

CONSTANTS
  Opened,    \* the graphs an editor may be opened on: a new workflow, templates
  MaxEdits   \* bound of the model: changes of the canvas, agents deleted

VARIABLES
  canvas,    \* nodes, edges and node data of the editor
  saved,     \* workflows.graph_json
  agents,    \* the agent nodes whose agent exists
  edits

vars == <<canvas, saved, agents, edits>>

\* data of a new condition node
NoData == [branches |-> {}, default |-> None]

\* A graph of the new-workflow button or of POST /api/templates/{id}/instantiate:
\* the edges are numbered from 1, every branch of a condition has an edge, and one
\* branch is its default.
Fresh(g) ==
  /\ IsGraph(g) /\ g.edges \in Seq(EdgeType) /\ Attached(g)
  /\ \A n \in g.nodes \cap Conditions :
       g.data[n].branches = Covered(g, n) /\ g.data[n].default \in Covered(g, n) \ {None}
  /\ \A n \in Conditions \ g.nodes : g.data[n] = NoData

ASSUME BuilderAssumption ==
  /\ MaxEdits \in Nat
  /\ \A g \in Opened : Fresh(g)

Init ==
  /\ saved \in Opened
  /\ canvas = BuildRF(saved)
  /\ agents = Workers
  /\ edits = 0

Edit(c) ==
  /\ edits < MaxEdits
  /\ edits' = edits + 1
  /\ canvas' = c
  /\ UNCHANGED <<saved, agents>>

\* Mutant of AddNode: a new condition comes with a default.
AddNodePreset(n) ==
  LET preset == [NoData EXCEPT !.default = CHOOSE l \in Labels : TRUE] IN
  /\ n \notin canvas.nodes
  /\ Edit([canvas EXCEPT !.nodes = @ \cup {n},
                         !.data = [m \in Conditions |-> IF m = n THEN preset ELSE @[m]]])

\* addNode.
AddNode(n) ==
  /\ n \notin canvas.nodes
  /\ Edit([canvas EXCEPT !.nodes = @ \cup {n},
       !.data = [m \in Conditions |-> IF m = n THEN NoData ELSE @[m]]])

\* onNodesChange and onEdgesChange: a node goes with its edges.
RemoveNode(n) ==
  /\ n \in canvas.nodes
  /\ Edit([canvas EXCEPT
       !.nodes = @ \ {n},
       !.edges = Restrict(@, {i \in DOMAIN @ : n \notin {@[i].source, @[i].target}}),
                         !.data = [m \in Conditions |-> IF m = n THEN NoData ELSE @[m]]])

RemoveEdge(i) ==
  /\ i \in DOMAIN canvas.edges
  /\ Edit([canvas EXCEPT !.edges = Restrict(@, DOMAIN @ \ {i})])

Drawable(a, b) ==
  \A i \in DOMAIN canvas.edges : <<canvas.edges[i].source, canvas.edges[i].target>> # <<a, b>>

\* addEdge: the new edge comes after all others.
WithEdge(c, a, b, l) ==
  LET k == Max(DOMAIN c.edges \cup {0}) + 1
      e == [source |-> a, target |-> b, when |-> l, label |-> l]
  IN [c EXCEPT !.edges = [i \in DOMAIN c.edges \cup {k} |-> IF i = k THEN e ELSE c.edges[i]]]

\* onConnect: the user is asked for a label when the source is a condition, and
\* may give none.
Connect(a, b, l) ==
  /\ {a, b} \subseteq canvas.nodes
  /\ a \notin Ends /\ b \notin Starts /\ Drawable(a, b)
  /\ l # None => a \in Conditions
  /\ Edit(WithEdge(canvas, a, b, l))

Save ==
  /\ saved' = SerializeGraph(canvas)
  /\ UNCHANGED <<canvas, agents, edits>>

\* The effect of opening the workflow: what was not saved is gone.
Reopen ==
  /\ canvas' = BuildRF(saved)
  /\ UNCHANGED <<saved, agents, edits>>

\* DELETE /api/agents/{id} does not look for workflows that use the agent.
DeleteAgent(n) ==
  /\ edits < MaxEdits
  /\ n \in agents
  /\ agents' = agents \ {n}
  /\ edits' = edits + 1
  /\ UNCHANGED <<canvas, saved>>

Next ==
  \/ \E n \in Nodes : AddNode(n) \/ RemoveNode(n)
  \/ \E i \in DOMAIN canvas.edges : RemoveEdge(i)
  \/ \E a, b \in Nodes, l \in Labels \cup {None} : Connect(a, b, l)
  \/ Save \/ Reopen
  \/ \E n \in Workers : DeleteAgent(n)

Spec == Init /\ [][Next]_vars

-----------------------------------------------------------------------------

\* The graphs and node data keep their types; saved data belongs to condition nodes.
TypeOK ==
  /\ IsGraph(canvas) /\ IsGraph(saved)
  /\ agents \subseteq Workers
  /\ edits \in 0..MaxEdits

\* validate lets a branch go without an edge if the default is another one, but the
\* editor never saves such a graph: once a condition has an edge and the graph is
\* valid, every branch it may choose leads somewhere, however the graph was edited.
BranchesHaveEdges ==
  \A n \in saved.nodes \cap Conditions :
    Valid(saved, agents) /\ Out(saved, n) # {} => saved.data[n].branches \subseteq Covered(saved, n)

\* Opening a workflow and saving it as it is does not change what it compiles to:
\* buildRF turns an edge's when into a label and serializeGraph derives the branches
\* and the default again, from labels that came from either place.
RoundTrip == Meaning(SerializeGraph(BuildRF(saved))) = Meaning(saved)

\* The graph validates, and the condition may still return a route that has no edge:
\* the node falls back on a default that validate has not looked at.
DeadDefault(n) ==
  /\ n \in saved.nodes /\ Valid(saved, agents) /\ Out(saved, n) # {}
  /\ saved.data[n].default \notin Covered(saved, n)

\* A default leads nowhere only if it is one that was saved before and has lost its edge
\* since: whatever is drawn, removed and drawn again, no save makes a new default that
\* no edge has.  serializeGraph takes the loaded default first and the labels drawn
\* second, and does not compare the two.
DeadDefaultIsOld ==
  [][\A n \in Conditions : DeadDefault(n)' => saved'.data[n].default = saved.data[n].default]_vars
=============================================================================
