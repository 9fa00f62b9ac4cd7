--------------------------- MODULE MCLivingFiles ---------------------------
(* Instances of LivingFiles for TLC. *)
EXTENDS LivingFiles

\* Every file is registered with one owner and the shorter cadence; patches
\* change both.
SomeFiles == {[filePath |-> p, ownerAgentId |-> CHOOSE a \in Agents : TRUE,
               expectedUpdateHours |-> 4, intentionallyStatic |-> FALSE] : p \in Paths}
=============================================================================
