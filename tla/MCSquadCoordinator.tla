------------------------- MODULE MCSquadCoordinator -------------------------
(* Instances of SquadCoordinator for TLC. *)
EXTENDS SquadCoordinator

\* Every plan of N tasks: chains, forks, joins, cycles, self-dependencies, ids
\* that name no task, in any listing order.
AllPlans == [Tasks -> SUBSET (Tasks \cup {Ghost})]

AllSquads == SUBSET Tasks
=============================================================================
