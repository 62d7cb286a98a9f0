------------------------------ MODULE MCBuilder ------------------------------
(* The instance of Builder that TLC checks: a new workflow, and the shapes   *)
(* of the templates of backend/app/templates/seed.py.                        *)
EXTENDS Builder

CONSTANTS start, end, agent1, agent2, human, route, yes, no, maybe

Edge(a, b, l) == [source |-> a, target |-> b, when |-> l, label |-> None]

Graph(nodes, edges, data) ==
  [nodes |-> nodes, edges |-> edges, data |-> [n \in Conditions |-> data]]

NewWorkflow == Graph({start, end}, <<>>, NoData)

\* payments support triage: two branches that join
Triage == Graph({start, end, agent1, agent2, route},
  <<Edge(start, route, None), Edge(route, agent1, yes), Edge(route, agent2, no),
    Edge(agent1, end, None), Edge(agent2, end, None)>>,
  [branches |-> {yes, no}, default |-> no])

\* research, draft, review: a cycle
Review == Graph({start, end, agent1, route},
  <<Edge(start, agent1, None), Edge(agent1, route, None),
    Edge(route, agent1, no), Edge(route, end, yes)>>,
  [branches |-> {yes, no}, default |-> yes])

\* refund with approval: a human between two agents
Approval == Graph({start, end, agent1, human, agent2},
  <<Edge(start, agent1, None), Edge(agent1, human, None), Edge(human, agent2, None),
    Edge(agent2, end, None)>>, NoData)

\* lead qualification: three branches, the middle one the default
Lead == Graph({start, end, agent1, agent2, route},
  <<Edge(start, route, None), Edge(route, agent1, yes), Edge(route, agent2, maybe),
    Edge(route, end, no), Edge(agent1, end, None)>>,
  [branches |-> {yes, no, maybe}, default |-> maybe])

MCOpened == {NewWorkflow, Triage, Review, Approval, Lead}
=============================================================================
