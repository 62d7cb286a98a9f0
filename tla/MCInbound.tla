------------------------------ MODULE MCInbound ------------------------------
(* The instances of Inbound that TLC checks.  Chats and tasks are            *)
(* interchangeable.                                                          *)
EXTENDS Inbound, TLC

CONSTANTS w1, w2

Binding(n, w, role) == [at |-> n, wf |-> w, role |-> role, token |-> TRUE]

\* Two workflows, each with a bot for its customers; the first has an approver's bot.
TwoShops == {Binding(1, w1, "customer"), Binding(2, w1, "approval"), Binding(3, w2, "customer")}

\* One workflow with two bots for its customers.
TwoDoors == {Binding(1, w1, "customer"), Binding(2, w1, "customer")}

\* Every chat is found out by the bots.
Nobody == [b \in Bindings |-> None]

InboundSymmetry == Permutations(Chats) \cup Permutations(Tasks)
=============================================================================
