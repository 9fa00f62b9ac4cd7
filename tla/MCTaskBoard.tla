---------------------------- MODULE MCTaskBoard ----------------------------
(* Instances of TaskBoard for TLC. *)
EXTENDS TaskBoard, TLC

\* A card for any worker, one for a given worker, and one for the orchestrator.
AnyAgent == [agentId |-> None, assigneeType |-> "agent", assigneeId |-> None]
For(a) == [agentId |-> a, assigneeType |-> "agent", assigneeId |-> a]
SomeOwners == {AnyAgent} \cup {For(a) : a \in Agents}
Symmetry == Permutations(Ids) \cup Permutations(Agents)
=============================================================================
