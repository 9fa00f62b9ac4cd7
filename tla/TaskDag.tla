------------------------------ MODULE TaskDag ------------------------------
(***************************************************************************)
(* What a squad coordinator promises about a plan, whatever the way it     *)
(* schedules it: a task is launched only when every task it depends on has *)
(* succeeded, a task is skipped only while one of them has not, what has   *)
(* been decided about a task is never revised, and the call only returns   *)
(* once everything has been decided.  SquadCoordinator implements it.      *)
(***************************************************************************)
CONSTANTS Tasks,    \* the tasks of the plan
          Ghost     \* stands for a dependency on an id that is no task

VARIABLES deps,     \* deps[t]: the ids task t depends on; never changes
          state,    \* state[t]: what is known of task t
          answer    \* "open" until executePlan returns or throws

vars == <<deps, state, answer>>

Succeeded == {t \in Tasks : state[t] = "succeeded"}

Init == /\ deps \in [Tasks -> SUBSET (Tasks \cup {Ghost})]
        /\ state = [t \in Tasks |-> "waiting"]
        /\ answer = "open"

\* Ready tasks are launched together; those of a role nobody plays fail at once.
Launch(S, unmanned) ==
  /\ answer = "open"
  /\ S # {} /\ \A t \in S : state[t] = "waiting" /\ deps[t] \subseteq Succeeded
  /\ state' = [t \in Tasks |-> IF t \notin S THEN state[t]
                               ELSE IF t \in unmanned THEN "failed" ELSE "running"]
  /\ UNCHANGED <<deps, answer>>

\* An agent settles.  Also after the call has thrown: nobody cancels it.
Finish(t, outcome) ==
  /\ state[t] = "running"
  /\ state' = [state EXCEPT ![t] = outcome]
  /\ UNCHANGED <<deps, answer>>

\* Waiting tasks are given up, each with a dependency that has not succeeded.
Skip(S) ==
  /\ \A t \in S : state[t] = "waiting" /\ ~(deps[t] \subseteq Succeeded)
  /\ state' = [t \in Tasks |-> IF t \in S THEN "skipped" ELSE state[t]]
  /\ UNCHANGED <<deps, answer>>

Return == /\ answer = "open"
          /\ \A t \in Tasks : state[t] \in {"succeeded", "failed", "skipped"}
          /\ answer' = "returned"
          /\ UNCHANGED <<deps, state>>

Throw == /\ answer = "open"
         /\ \E t \in Tasks : state[t] = "failed"
         /\ answer' = "threw"
         /\ UNCHANGED <<deps, state>>

Next == \/ \E S \in SUBSET Tasks : Skip(S) \/ \E unmanned \in SUBSET S : Launch(S, unmanned)
        \/ \E t \in Tasks, outcome \in {"succeeded", "failed"} : Finish(t, outcome)
        \/ Return \/ Throw

Spec == Init /\ [][Next]_vars
=============================================================================
