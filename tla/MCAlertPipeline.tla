-------------------------- MODULE MCAlertPipeline --------------------------
(* Instances of AlertPipeline for TLC. *)
EXTENDS AlertPipeline, TLC

CONSTANTS ops, boss

OneOrTwo == <<1, 2>>
OpsThenBoss == <<{ops}, {boss}>>
\* Ops are told of everything, recoveries too; the boss of what is at least a warning.
Mins == (ops :> 0) @@ (boss :> 1)
=============================================================================
