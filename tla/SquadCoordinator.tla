-------------------------- MODULE SquadCoordinator --------------------------
(***************************************************************************)
(* One call of SquadCoordinator.executePlan (lib/squad-coordinator.ts): the *)
(* tasks of a plan are dispatched to agents, one after the other or in     *)
(* parallel waves, and the dependents of what fails are skipped.  Every    *)
(* "await" of the code is a point where other tasks of the wave run, so    *)
(* runOne is cut into one action per await.                                *)
(*                                                                         *)
(* Tasks are numbered in plan order.  Titles, summaries, artifacts and     *)
(* timestamps are left out; results keeps, for each task, the statuses     *)
(* pushed for it (their order across tasks is left out).                   *)
(***************************************************************************)
EXTENDS Naturals, Sequences, FiniteSets

CONSTANTS N,        \* number of tasks in the plan
          Plans,    \* the dependency functions to consider
          Squads    \* the sets of tasks whose role has a registered agent

Tasks == 1..N
Ghost == 0          \* a dependsOnTaskIds entry that names no task of the plan

ASSUME NAssumption == N \in Nat
ASSUME PlansAssumption == Plans \subseteq [Tasks -> SUBSET (Tasks \cup {Ghost})]
ASSUME SquadsAssumption == Squads \subseteq SUBSET Tasks

VARIABLES deps,               \* task.dependsOnTaskIds
          manned,             \* tasks t with agentsById.get(t.role) defined
          parallelize,
          continueOnFailure,
          taskStatus,
          results,
          at,                 \* where each task's runOne stands
          call,               \* where executePlan itself stands
          cursor,             \* next task of the sequential loop
          pending             \* the pending set of the parallel loop

plan == <<deps, manned, parallelize, continueOnFailure>>
vars == <<plan, taskStatus, results, at, call, cursor, pending>>

Status == {"pending", "running", "succeeded", "failed", "skipped"}
Final  == {"succeeded", "failed", "skipped"}

\* idle: runOne not called; starting / agent / completing: awaiting onTaskStart,
\* runTask, onTaskComplete; done / threw: runOne's promise has settled.
Point == {"idle", "starting", "agent", "completing", "done", "threw"}

TypeOK ==
  /\ deps \in [Tasks -> SUBSET (Tasks \cup {Ghost})]
  /\ manned \in SUBSET Tasks
  /\ parallelize \in BOOLEAN
  /\ continueOnFailure \in BOOLEAN
  /\ taskStatus \in [Tasks -> Status]
  /\ results \in [Tasks -> Seq({"succeeded", "failed"})]
  /\ at \in [Tasks -> Point]
  /\ call \in {"loop", "await", "break", "returned", "threw"}
  /\ cursor \in 1..(N + 1)
  /\ pending \in SUBSET Tasks

Init ==
  /\ deps \in Plans
  /\ manned \in Squads
  /\ parallelize \in BOOLEAN
  /\ continueOnFailure \in BOOLEAN
  /\ taskStatus = [t \in Tasks |-> "pending"]
  /\ results = [t \in Tasks |-> <<>>]
  /\ at = [t \in Tasks |-> "idle"]
  /\ call = "loop"
  /\ cursor = 1
  /\ pending = Tasks

-----------------------------------------------------------------------------
(* The dependency graph *)

Succeeded == {t \in Tasks : taskStatus[t] = "succeeded"}

\* Mutant: one satisfied dependency is enough ("some" for "every").
CanRunAny(t) == deps[t] = {} \/ deps[t] \cap Succeeded # {}

\* An id that is no task has an undefined status, so it never counts.
canRun(t) == deps[t] \subseteq Succeeded

\* The tasks markSkippedDependents visits from root: the least set that holds
\* root and every pending or skipped dependent of one of its members.
Closed(C, st) == \A t \in Tasks :
                   st[t] \in {"pending", "skipped"} /\ deps[t] \cap C # {} => t \in C
Downstream(root, st) ==
  {t \in Tasks : \A C \in SUBSET Tasks : root \in C /\ Closed(C, st) => t \in C}

\* Mutant: whatever has not run yet is skipped.
SkipAll(root, st) == [t \in Tasks |-> IF st[t] = "pending" THEN "skipped" ELSE st[t]]

markSkippedDependents(root, st) ==
  [t \in Tasks |-> IF st[t] = "pending" /\ t \in Downstream(root, st) THEN "skipped" ELSE st[t]]

-----------------------------------------------------------------------------
(* runOne *)

\* Mutant: a task without agent is skipped, not failed.
RunOneSkips(S) ==
  /\ taskStatus' = [t \in Tasks |-> IF t \in S \ manned THEN "skipped" ELSE taskStatus[t]]
  /\ at' = [t \in Tasks |-> IF t \notin S THEN at[t]
                            ELSE IF t \in manned THEN "starting" ELSE "done"]
  /\ UNCHANGED results

\* runOne up to its first await, for all tasks of S in one synchronous run of
\* map: a task without agent has failed and is reported before its hook is
\* awaited; the others await onTaskStart, still "pending".
RunOne(S) ==
  /\ taskStatus' = [t \in Tasks |-> IF t \in S \ manned THEN "failed" ELSE taskStatus[t]]
  /\ results' = [t \in Tasks |-> IF t \in S \ manned THEN Append(results[t], "failed") ELSE results[t]]
  /\ at' = [t \in Tasks |-> IF t \notin S THEN at[t]
                            ELSE IF t \in manned THEN "starting" ELSE "completing"]

\* onTaskStart has settled (its errors are ignored); runTask is called.
TaskStarts(t) ==
  /\ at[t] = "starting"
  /\ at' = [at EXCEPT ![t] = "agent"]
  /\ taskStatus' = [taskStatus EXCEPT ![t] = "running"]
  /\ UNCHANGED <<plan, results, call, cursor, pending>>

\* runTask resolves or rejects; the result is pushed, onTaskComplete is called.
AgentSettles(t, outcome) ==
  /\ at[t] = "agent"
  /\ at' = [at EXCEPT ![t] = "completing"]
  /\ taskStatus' = [taskStatus EXCEPT ![t] = outcome]
  /\ results' = [results EXCEPT ![t] = Append(@, outcome)]
  /\ UNCHANGED <<plan, call, cursor, pending>>

\* Mutant: runOne never settles after a failure.
TaskCompletesHangs(t) ==
  /\ at[t] = "completing" /\ taskStatus[t] = "succeeded"
  /\ at' = [at EXCEPT ![t] = "done"]
  /\ UNCHANGED <<plan, taskStatus, results, call, cursor, pending>>

\* onTaskComplete has settled; a failure is propagated to the dependents and,
\* unless continueOnFailure, to the caller.
TaskCompletes(t) ==
  /\ at[t] = "completing"
  /\ IF taskStatus[t] = "succeeded"
       THEN at' = [at EXCEPT ![t] = "done"] /\ UNCHANGED taskStatus
       ELSE /\ taskStatus' = markSkippedDependents(t, taskStatus)
            /\ at' = [at EXCEPT ![t] = IF continueOnFailure THEN "done" ELSE "threw"]
  /\ UNCHANGED <<plan, results, call, cursor, pending>>

-----------------------------------------------------------------------------
(* executePlan, one task at a time *)

SequentialPass ==    \* not pending any more, or not runnable: skipped
  /\ call = "loop" /\ ~parallelize /\ cursor <= N
  /\ taskStatus[cursor] # "pending" \/ ~canRun(cursor)
  /\ taskStatus' = IF taskStatus[cursor] # "pending" THEN taskStatus
                   ELSE markSkippedDependents(cursor, [taskStatus EXCEPT ![cursor] = "skipped"])
  /\ cursor' = cursor + 1
  /\ UNCHANGED <<plan, results, at, call, pending>>

SequentialRun ==
  /\ call = "loop" /\ ~parallelize /\ cursor <= N
  /\ taskStatus[cursor] = "pending" /\ canRun(cursor)
  /\ RunOne({cursor})
  /\ call' = "await"
  /\ cursor' = cursor + 1
  /\ UNCHANGED <<plan, pending>>

(* executePlan, in waves *)

Open == {t \in pending : taskStatus[t] = "pending"}   \* what the scan leaves in pending
Runnable == {t \in Open : canRun(t)}

WaveRun ==
  /\ call = "loop" /\ parallelize /\ Runnable # {}
  /\ RunOne(Runnable)
  /\ pending' = Open \ Runnable
  /\ call' = "await"
  /\ UNCHANGED <<plan, cursor>>

WaveNone ==          \* nothing can run: what is left is skipped, and break
  /\ call = "loop" /\ parallelize /\ pending # {} /\ Runnable = {}
  /\ taskStatus' = [t \in Tasks |-> IF t \in Open THEN "skipped" ELSE taskStatus[t]]
  /\ pending' = Open
  /\ call' = "break"
  /\ UNCHANGED <<plan, results, at, cursor>>

\* The awaited promises have all been fulfilled.
AwaitResolves ==
  /\ call = "await" /\ \A t \in Tasks : at[t] \in {"idle", "done"}
  /\ call' = "loop"
  /\ UNCHANGED <<plan, taskStatus, results, at, cursor, pending>>

\* One of them was rejected; the others of the wave run on.
AwaitRejects ==
  /\ call = "await" /\ \E t \in Tasks : at[t] = "threw"
  /\ call' = "threw"
  /\ UNCHANGED <<plan, taskStatus, results, at, cursor, pending>>

Return ==
  /\ \/ call = "break"
     \/ call = "loop" /\ IF parallelize THEN pending = {} ELSE cursor > N
  /\ call' = "returned"
  /\ UNCHANGED <<plan, taskStatus, results, at, cursor, pending>>

Coordinator == \/ SequentialPass \/ SequentialRun \/ WaveRun \/ WaveNone
               \/ AwaitResolves \/ AwaitRejects \/ Return

Task(t) == \/ TaskStarts(t) \/ TaskCompletes(t)
           \/ \E outcome \in {"succeeded", "failed"} : AgentSettles(t, outcome)

Next == Coordinator \/ \E t \in Tasks : Task(t)

Spec == Init /\ [][Next]_vars

\* The event loop runs every continuation, and hooks and agents settle.
FairSpec == Spec /\ WF_vars(Coordinator) /\ \A t \in Tasks : WF_vars(Task(t))

-----------------------------------------------------------------------------
(* Properties *)

InFlight(t) == at[t] \in {"starting", "agent", "completing"}

\* A task whose runOne was called has only dependencies that succeeded, at every
\* later moment too (canRun is tested before the wave's awaits, and used after them).
DepsRespected == \A t \in Tasks : at[t] # "idle" => deps[t] \subseteq Succeeded

\* A skipped task was never handed to an agent and reports nothing, although a
\* task that awaits its onTaskStart hook still reads "pending" to a sibling that
\* fails and skips its dependents.
SkippedNeverRan == \A t \in Tasks : taskStatus[t] = "skipped" => at[t] = "idle" /\ results[t] = <<>>

\* No step revises what was decided about a task, and none reports it twice.
DecisionsAreFinal ==
  [][\A t \in Tasks : /\ taskStatus[t] \in Final => taskStatus'[t] = taskStatus[t]
                      /\ results[t] # <<>> => results'[t] = results[t]]_vars

\* When executePlan returns, nothing is in flight, every task is decided, and the
\* execution reports each task that ran exactly once, with the status recorded.
ReturnedComplete ==
  call = "returned" =>
    \A t \in Tasks : /\ ~InFlight(t)
                     /\ taskStatus[t] \in Final
                     /\ results[t] = IF taskStatus[t] = "skipped" THEN <<>> ELSE <<taskStatus[t]>>

Ordered == \A t \in Tasks : deps[t] \subseteq 1..(t - 1)   \* dependencies come first in the plan

\* In a returned execution a task is skipped exactly when a dependency did not
\* succeed: in waves for any plan, one at a time for plans listed in order.
SkippedIffBlocked ==
  call = "returned" /\ (parallelize \/ Ordered) =>
    \A t \in Tasks : taskStatus[t] = "skipped" <=> ~(deps[t] \subseteq Succeeded)

\* The task-results gate only looks at failed tasks; for a plan in order that is
\* enough, since nothing is skipped unless something failed.
FailureVisible ==
  call = "returned" /\ Ordered /\ (\A t \in Tasks : taskStatus[t] # "failed") =>
    \A t \in Tasks : taskStatus[t] = "succeeded"

\* executePlan answers, and no runOne is left in flight for ever, its orphans
\* after a throw included.
Settles == <>[](call \in {"returned", "threw"} /\ \A t \in Tasks : ~InFlight(t))

\* Refinement: the waiting tasks are those never handed to runOne.
AbsState == [t \in Tasks |-> IF taskStatus[t] # "pending" THEN taskStatus[t]
                             ELSE IF at[t] = "idle" THEN "waiting" ELSE "running"]
AbsAnswer == IF call \in {"returned", "threw"} THEN call ELSE "open"

Abstract == INSTANCE TaskDag WITH state <- AbsState, answer <- AbsAnswer

\* executePlan implements TaskDag, however it schedules the plan.
ImplementsTaskDag == Abstract!Spec
=============================================================================
