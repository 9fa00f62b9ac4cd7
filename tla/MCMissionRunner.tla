--------------------------- MODULE MCMissionRunner ---------------------------
(* Instances of MissionRunner for TLC. *)
EXTENDS MissionRunner, TLC

\* Runners are interchangeable: nothing orders them.
Symmetry == Permutations(Runners)
=============================================================================
