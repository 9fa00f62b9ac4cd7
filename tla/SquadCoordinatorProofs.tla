----------------------- MODULE SquadCoordinatorProofs -----------------------
(***************************************************************************)
(* Proofs about SquadCoordinator, for plans of any size and shape and any  *)
(* squad.  IndInv is the inductive invariant: what the status and the      *)
(* results of a task are at each point of its runOne, what the two loops   *)
(* still have to look at, and why each skipped task was skipped.  That     *)
(* executePlan implements TaskDag follows from it step by step.            *)
(***************************************************************************)
EXTENDS SquadCoordinator, WellFoundedInduction, TLAPS

\* The status and the results of a task go with the point its runOne has reached.
StatusByPoint ==
  \A t \in Tasks :
    /\ at[t] = "idle" => taskStatus[t] \in {"pending", "skipped"} /\ results[t] = <<>>
    /\ at[t] = "starting" => taskStatus[t] = "pending" /\ results[t] = <<>>
    /\ at[t] = "agent" => taskStatus[t] = "running" /\ results[t] = <<>>
    /\ at[t] \in {"completing", "done", "threw"} =>
         taskStatus[t] \in {"succeeded", "failed"} /\ results[t] = <<taskStatus[t]>>
    /\ at[t] = "threw" => taskStatus[t] = "failed"

\* What the loops have not looked at yet has not been dispatched, and what they
\* have looked at is dispatched or decided.
Loops ==
  /\ call \in {"loop", "break", "returned"} => \A t \in Tasks : at[t] \in {"idle", "done"}
  /\ call \in {"break", "returned"} => \A t \in Tasks : taskStatus[t] # "pending"
  /\ parallelize => /\ \A t \in pending : at[t] = "idle"
                    /\ \A t \in Tasks : at[t] = "idle" /\ taskStatus[t] = "pending" => t \in pending
  /\ ~parallelize => /\ \A t \in Tasks : t >= cursor => at[t] = "idle"
                     /\ \A t \in Tasks : t < cursor /\ at[t] = "idle" => taskStatus[t] # "pending"

\* A task is skipped because of an unknown id or of a task that failed or was skipped.
SkipReason(t) == Ghost \in deps[t] \/ \E d \in deps[t] \cap Tasks : taskStatus[d] \in {"failed", "skipped"}
SkipsExplained == parallelize \/ Ordered => \A t \in Tasks : taskStatus[t] = "skipped" => SkipReason(t)

IndInv == TypeOK /\ DepsRespected /\ StatusByPoint /\ Loops /\ SkipsExplained

-----------------------------------------------------------------------------
(* markSkippedDependents *)

\* The tasks that markSkippedDependents visits are the root and pending or skipped
\* tasks, each of which depends on a visited one.
LEMMA DownstreamLinked ==
  ASSUME NEW root \in Tasks, NEW st, NEW t \in Downstream(root, st), t # root
  PROVE  st[t] \in {"pending", "skipped"} /\ deps[t] \cap Downstream(root, st) # {}
<1> DEFINE D == Downstream(root, st)
           C == {root} \cup {x \in D : st[x] \in {"pending", "skipped"} /\ deps[x] \cap D # {}}
<1>1. root \in D /\ D \subseteq Tasks
  BY DEF Downstream
<1>2. \A x \in Tasks : st[x] \in {"pending", "skipped"} /\ deps[x] \cap D # {} => x \in D
  BY DEF Downstream, Closed
<1>3. C \subseteq D
  BY <1>1
<1>4. Closed(C, st)
  BY <1>1, <1>2, <1>3 DEF Closed
<1>5. t \in C
  BY <1>1, <1>3, <1>4 DEF Downstream
<1> QED
  BY <1>5

\* markSkippedDependents turns pending tasks to skipped and leaves the others
\* alone, and each task it skips depends on one that failed or is skipped.
LEMMA MarkSkipped ==
  ASSUME NEW root \in Tasks, NEW st \in [Tasks -> Status], st[root] \in {"failed", "skipped"},
         NEW st2, st2 = markSkippedDependents(root, st)
  PROVE  /\ st2 \in [Tasks -> Status]
         /\ \A t \in Tasks : \/ st2[t] = st[t]
                             \/ /\ st[t] = "pending" /\ st2[t] = "skipped"
                                /\ \E d \in deps[t] \cap Tasks : st2[d] \in {"failed", "skipped"}
<1>1. st2 \in [Tasks -> Status]
  BY DEF markSkippedDependents, Status
<1>2. ASSUME NEW t \in Tasks, st2[t] # st[t]
      PROVE  /\ st[t] = "pending" /\ st2[t] = "skipped"
             /\ \E d \in deps[t] \cap Tasks : st2[d] \in {"failed", "skipped"}
  <2>1. st[t] = "pending" /\ t \in Downstream(root, st) /\ st2[t] = "skipped"
    BY <1>2 DEF markSkippedDependents
  <2>2. t # root
    BY <2>1
  <2>3. PICK d \in deps[t] : d \in Downstream(root, st)
    BY <2>1, <2>2, DownstreamLinked
  <2>4. d \in Tasks
    BY <2>3 DEF Downstream
  <2>5. d = root \/ st[d] \in {"pending", "skipped"}
    BY <2>3, DownstreamLinked
  <2>6. st2[d] \in {"failed", "skipped"}
    BY <2>3, <2>4, <2>5 DEF markSkippedDependents
  <2> QED
    BY <2>1, <2>3, <2>4, <2>6
<1> QED
  BY <1>1, <1>2

-----------------------------------------------------------------------------
(* Steps *)

\* No decision about a task is revised.
FinalKept == \A t \in Tasks : taskStatus[t] \in Final => taskStatus'[t] = taskStatus[t]

\* While decisions are kept, what could run still can, and reasons to skip remain.
LEMMA Monotone ==
  ASSUME TypeOK, UNCHANGED plan, FinalKept, NEW t \in Tasks
  PROVE  (canRun(t) => canRun(t)') /\ (SkipReason(t) => SkipReason(t)')
BY DEF TypeOK, plan, FinalKept, canRun, Succeeded, SkipReason, Final

\* Every plan starts in a state of the invariant.
LEMMA InitInv == Init => IndInv
BY NAssumption, PlansAssumption, SquadsAssumption
   DEF Init, IndInv, TypeOK, DepsRespected, StatusByPoint, Loops, SkipsExplained, Tasks, Status, Point

\* The type invariant is preserved by every step.
LEMMA TypeStep == IndInv /\ [Next]_vars => TypeOK'
<1> SUFFICES ASSUME IndInv, [Next]_vars PROVE TypeOK'
  OBVIOUS
<1>0. TypeOK
  BY DEF IndInv
<1>1. CASE UNCHANGED vars
  BY <1>0, <1>1 DEF TypeOK, vars, plan
<1>2. ASSUME NEW t \in Tasks, TaskStarts(t) PROVE TypeOK'
  BY <1>0, <1>2 DEF TypeOK, TaskStarts, plan, Status, Point
<1>3. ASSUME NEW t \in Tasks, NEW o \in {"succeeded", "failed"}, AgentSettles(t, o) PROVE TypeOK'
  BY <1>0, <1>3 DEF TypeOK, AgentSettles, plan, Status, Point
<1>4. ASSUME NEW t \in Tasks, TaskCompletes(t) PROVE TypeOK'
  <2>1. taskStatus' \in [Tasks -> Status]
    BY <1>0, <1>4 DEF TypeOK, TaskCompletes, markSkippedDependents, Status
  <2> QED
    BY <1>0, <1>4, <2>1 DEF TypeOK, TaskCompletes, plan, Point
<1>5. CASE SequentialPass
  <2>1. taskStatus' \in [Tasks -> Status]
    BY <1>0, <1>5 DEF TypeOK, SequentialPass, markSkippedDependents, Status
  <2>2. cursor' \in 1..(N + 1)
    BY <1>0, <1>5, NAssumption DEF TypeOK, SequentialPass
  <2> QED
    BY <1>0, <1>5, <2>1, <2>2 DEF TypeOK, SequentialPass, plan
<1>6. CASE SequentialRun
  <2>1. cursor' \in 1..(N + 1)
    BY <1>0, <1>6, NAssumption DEF TypeOK, SequentialRun
  <2> QED
    BY <1>0, <1>6, <2>1 DEF TypeOK, SequentialRun, RunOne, plan, Status, Point
<1>7. CASE WaveRun
  BY <1>0, <1>7 DEF TypeOK, WaveRun, RunOne, Open, plan, Status, Point
<1>8. CASE WaveNone
  BY <1>0, <1>8 DEF TypeOK, WaveNone, Open, plan, Status
<1>9. CASE AwaitResolves \/ AwaitRejects \/ Return
  BY <1>0, <1>9 DEF TypeOK, AwaitResolves, AwaitRejects, Return, plan
<1> QED
  BY <1>1, <1>2, <1>3, <1>4, <1>5, <1>6, <1>7, <1>8, <1>9 DEF Next, Coordinator, Task

\* Every step keeps the plan and the decisions taken so far.
LEMMA KeepStep == IndInv /\ [Next]_vars => (UNCHANGED plan /\ FinalKept)
<1> SUFFICES ASSUME IndInv, [Next]_vars PROVE UNCHANGED plan /\ FinalKept
  OBVIOUS
<1>0. TypeOK /\ StatusByPoint /\ Loops
  BY DEF IndInv
<1>1. CASE UNCHANGED vars
  BY <1>1 DEF vars, plan, FinalKept
<1>2. ASSUME NEW t \in Tasks, TaskStarts(t) PROVE UNCHANGED plan /\ FinalKept
  BY <1>0, <1>2 DEF TypeOK, StatusByPoint, TaskStarts, plan, FinalKept, Final
<1>3. ASSUME NEW t \in Tasks, NEW o \in {"succeeded", "failed"}, AgentSettles(t, o)
      PROVE  UNCHANGED plan /\ FinalKept
  BY <1>0, <1>3 DEF TypeOK, StatusByPoint, AgentSettles, plan, FinalKept, Final
<1>4. ASSUME NEW t \in Tasks, TaskCompletes(t) PROVE UNCHANGED plan /\ FinalKept
  BY <1>0, <1>4 DEF TypeOK, TaskCompletes, markSkippedDependents, plan, FinalKept, Final
<1>5. CASE SequentialPass
  <2>1. cursor \in Tasks
    BY <1>0, <1>5, NAssumption DEF TypeOK, SequentialPass, Tasks
  <2> QED
    BY <1>0, <1>5, <2>1 DEF TypeOK, SequentialPass, markSkippedDependents, plan, FinalKept, Final
<1>6. CASE SequentialRun
  BY <1>0, <1>6 DEF TypeOK, SequentialRun, RunOne, plan, FinalKept, Final
<1>7. CASE WaveRun
  BY <1>0, <1>7 DEF TypeOK, WaveRun, RunOne, Runnable, Open, plan, FinalKept, Final
<1>8. CASE WaveNone
  BY <1>0, <1>8 DEF TypeOK, WaveNone, Open, plan, FinalKept, Final
<1>9. CASE AwaitResolves \/ AwaitRejects \/ Return
  BY <1>9 DEF AwaitResolves, AwaitRejects, Return, plan, FinalKept
<1> QED
  BY <1>1, <1>2, <1>3, <1>4, <1>5, <1>6, <1>7, <1>8, <1>9 DEF Next, Coordinator, Task

\* A task that is dispatched can run, and what was dispatched still can.
LEMMA DepsStep == IndInv /\ [Next]_vars => DepsRespected'
<1> SUFFICES ASSUME IndInv, [Next]_vars, NEW t \in Tasks, at'[t] # "idle"
             PROVE  canRun(t)'
  BY DEF DepsRespected, canRun
<1>0. TypeOK /\ DepsRespected /\ UNCHANGED plan /\ FinalKept
  BY KeepStep DEF IndInv
<1>1. SUFFICES canRun(t)
  BY <1>0, Monotone
<1>2. CASE at[t] # "idle"
  BY <1>0, <1>2 DEF DepsRespected, canRun
<1>3. CASE at[t] = "idle" /\ SequentialRun
  BY <1>0, <1>3 DEF TypeOK, SequentialRun, RunOne
<1>4. CASE at[t] = "idle" /\ WaveRun
  BY <1>0, <1>4 DEF TypeOK, WaveRun, RunOne, Runnable
<1>5. CASE at[t] = "idle" /\ (UNCHANGED vars \/ SequentialPass \/ WaveNone \/ AwaitResolves
                                \/ AwaitRejects \/ Return)
  BY <1>5 DEF vars, SequentialPass, WaveNone, AwaitResolves, AwaitRejects, Return
<1>6. CASE at[t] = "idle" /\ \E q \in Tasks : Task(q)
  BY <1>0, <1>6 DEF TypeOK, Task, TaskStarts, TaskCompletes, AgentSettles
<1> QED
  BY <1>2, <1>3, <1>4, <1>5, <1>6 DEF Next, Coordinator

\* The first result pushed for a task is its only one.
LEMMA AppendToEmpty == ASSUME NEW x PROVE Append(<<>>, x) = <<x>>
OBVIOUS

\* Dispatching idle pending tasks puts each at its first await.
LEMMA RunOneStatus ==
  ASSUME TypeOK, StatusByPoint, NEW S, RunOne(S),
         \A q \in S : at[q] = "idle" /\ taskStatus[q] = "pending"
  PROVE  StatusByPoint'
<1> SUFFICES ASSUME NEW q \in Tasks
             PROVE  /\ at'[q] = "idle" => taskStatus'[q] \in {"pending", "skipped"} /\ results'[q] = <<>>
                    /\ at'[q] = "starting" => taskStatus'[q] = "pending" /\ results'[q] = <<>>
                    /\ at'[q] = "agent" => taskStatus'[q] = "running" /\ results'[q] = <<>>
                    /\ at'[q] \in {"completing", "done", "threw"} =>
                         taskStatus'[q] \in {"succeeded", "failed"} /\ results'[q] = <<taskStatus'[q]>>
                    /\ at'[q] = "threw" => taskStatus'[q] = "failed"
  BY DEF StatusByPoint
<1>1. CASE q \notin S
  BY <1>1 DEF RunOne, StatusByPoint
<1>2. CASE q \in S \ manned
  <2>1. results[q] = <<>>
    BY <1>2 DEF StatusByPoint
  <2>2. results'[q] = <<"failed">>
    BY <1>2, <2>1, AppendToEmpty DEF RunOne
  <2> QED
    BY <1>2, <2>2 DEF RunOne
<1>3. CASE q \in S \cap manned
  BY <1>3 DEF RunOne, StatusByPoint
<1> QED
  BY <1>1, <1>2, <1>3

\* The status and the results of a task keep going with the point its runOne has
\* reached; the hard case is a sibling that fails while others await their start hook.
LEMMA StatusStep == IndInv /\ [Next]_vars => StatusByPoint'
<1> SUFFICES ASSUME IndInv, [Next]_vars PROVE StatusByPoint'
  OBVIOUS
<1>0. TypeOK /\ DepsRespected /\ StatusByPoint /\ Loops
  BY DEF IndInv
<1>1. CASE UNCHANGED vars
  BY <1>0, <1>1 DEF StatusByPoint, vars
<1>2. ASSUME NEW t \in Tasks, TaskStarts(t) PROVE StatusByPoint'
  BY <1>0, <1>2 DEF TypeOK, StatusByPoint, TaskStarts
<1>3. ASSUME NEW t \in Tasks, NEW o \in {"succeeded", "failed"}, AgentSettles(t, o)
      PROVE  StatusByPoint'
  <2>1. results'[t] = <<o>> /\ \A q \in Tasks \ {t} : results'[q] = results[q]
    BY <1>0, <1>3, AppendToEmpty DEF TypeOK, StatusByPoint, AgentSettles
  <2> QED
    BY <1>0, <1>3, <2>1 DEF TypeOK, StatusByPoint, AgentSettles
\* A sibling that awaits its onTaskStart hook reads "pending": it is not among the
\* tasks skipped, because a skipped one has a dependency that did not succeed.
<1>4. ASSUME NEW t \in Tasks, TaskCompletes(t) PROVE StatusByPoint'
  <2>1. CASE taskStatus[t] = "succeeded"
    BY <1>0, <1>4, <2>1 DEF TypeOK, StatusByPoint, TaskCompletes
  <2>2. CASE taskStatus[t] # "succeeded"
    <3>1. taskStatus[t] = "failed"
      BY <1>0, <1>4, <2>2 DEF StatusByPoint, TaskCompletes
    <3>2. taskStatus' = markSkippedDependents(t, taskStatus)
      BY <1>4, <2>2 DEF TaskCompletes
    <3>3. \A q \in Tasks : \/ taskStatus'[q] = taskStatus[q]
                           \/ /\ taskStatus[q] = "pending" /\ taskStatus'[q] = "skipped"
                              /\ \E d \in deps[q] \cap Tasks : taskStatus'[d] \in {"failed", "skipped"}
      BY <1>0, <3>1, <3>2, MarkSkipped DEF TypeOK
    <3>4. FinalKept
      BY KeepStep
    <3>5. \A q \in Tasks : taskStatus'[q] # taskStatus[q] => at[q] = "idle"
      BY <1>0, <3>3, <3>4 DEF DepsRespected, Succeeded, FinalKept, Final
    <3> QED
      BY <1>0, <1>4, <2>2, <3>3, <3>5 DEF TypeOK, StatusByPoint, TaskCompletes
  <2> QED
    BY <2>1, <2>2
<1>5. CASE SequentialPass
  <2>1. cursor \in Tasks
    BY <1>0, <1>5, NAssumption DEF TypeOK, SequentialPass, Tasks
  <2>2. \A q \in Tasks : taskStatus'[q] = taskStatus[q] \/ (taskStatus[q] = "pending" /\ taskStatus'[q] = "skipped")
    BY <1>0, <1>5, <2>1 DEF TypeOK, SequentialPass, markSkippedDependents
  <2>3. \A q \in Tasks : at[q] \in {"idle", "done"} /\ at' = at /\ results' = results
    BY <1>0, <1>5 DEF Loops, SequentialPass
  <2> QED
    BY <1>0, <2>2, <2>3 DEF StatusByPoint
<1>6. CASE SequentialRun
  <2>1. cursor \in Tasks
    BY <1>0, <1>6, NAssumption DEF TypeOK, SequentialRun, Tasks
  <2>2. at[cursor] = "idle"
    BY <1>0, <1>6, <2>1 DEF SequentialRun, TypeOK, StatusByPoint, Loops
  <2>3. taskStatus[cursor] = "pending"
    BY <1>6 DEF SequentialRun
  <2>4. RunOne({cursor})
    BY <1>6 DEF SequentialRun
  <2> QED
    BY <1>0, <2>2, <2>3, <2>4, RunOneStatus
<1>7. CASE WaveRun
  <2>1. RunOne(Runnable) /\ Runnable \subseteq Tasks
    BY <1>0, <1>7 DEF TypeOK, WaveRun, Runnable, Open
  <2>2. \A q \in Runnable : at[q] = "idle" /\ taskStatus[q] = "pending"
    BY <1>0, <1>7 DEF WaveRun, Runnable, Open, Loops
  <2> QED
    BY <1>0, <2>1, <2>2, RunOneStatus
<1>8. CASE WaveNone
  BY <1>0, <1>8 DEF TypeOK, WaveNone, Open, StatusByPoint, Loops
<1>9. CASE AwaitResolves \/ AwaitRejects \/ Return
  BY <1>0, <1>9 DEF AwaitResolves, AwaitRejects, Return, StatusByPoint
<1> QED
  BY <1>1, <1>2, <1>3, <1>4, <1>5, <1>6, <1>7, <1>8, <1>9 DEF Next, Coordinator, Task

\* Neither loop loses sight of a task: what is dispatched or decided is no longer
\* ahead of the loop, and the rest still is.
LEMMA LoopsStep == IndInv /\ [Next]_vars => Loops'
<1> SUFFICES ASSUME IndInv, [Next]_vars PROVE Loops'
  OBVIOUS
<1>0. TypeOK /\ StatusByPoint /\ Loops /\ FinalKept
  BY KeepStep DEF IndInv
<1>1. CASE UNCHANGED vars
  BY <1>0, <1>1 DEF Loops, vars, plan
\* A task's own steps start from a point where executePlan is awaiting or has thrown.
<1>2. ASSUME NEW t \in Tasks, Task(t) PROVE Loops'
  <2>1. /\ call' = call /\ cursor' = cursor /\ pending' = pending /\ parallelize' = parallelize
        /\ call \in {"await", "threw"} /\ at[t] # "idle" /\ at'[t] # "idle"
        /\ \A q \in Tasks \ {t} : at'[q] = at[q]
    BY <1>0, <1>2 DEF TypeOK, Loops, Task, TaskStarts, TaskCompletes, AgentSettles, plan
  <2>2. \A q \in Tasks : taskStatus'[q] = "pending" => taskStatus[q] = "pending"
    BY <1>0, <1>2 DEF TypeOK, Task, TaskStarts, TaskCompletes, AgentSettles, markSkippedDependents
  <2> QED
    BY <1>0, <2>1, <2>2 DEF TypeOK, Loops
<1>3. CASE SequentialPass
  <2>1. cursor \in Tasks
    BY <1>0, <1>3, NAssumption DEF TypeOK, SequentialPass, Tasks
  <2>2. \A q \in Tasks : taskStatus'[q] = "pending" => taskStatus[q] = "pending" /\ q # cursor
    BY <1>0, <1>3, <2>1 DEF TypeOK, SequentialPass, markSkippedDependents
  <2>3. \A q \in Tasks : q < cursor' => q < cursor \/ q = cursor
    BY <1>0, <1>3 DEF TypeOK, SequentialPass, Tasks
  <2>4. \A q \in Tasks : q >= cursor' => q >= cursor
    BY <1>0, <1>3 DEF TypeOK, SequentialPass, Tasks
  <2> QED
    BY <1>0, <1>3, <2>2, <2>3, <2>4 DEF SequentialPass, Loops, plan
<1>4. CASE SequentialRun
  <2>1. \A q \in Tasks : q < cursor' => q < cursor \/ q = cursor
    BY <1>0, <1>4 DEF TypeOK, SequentialRun, Tasks
  <2>2. \A q \in Tasks : q >= cursor' => q >= cursor /\ q # cursor
    BY <1>0, <1>4 DEF TypeOK, SequentialRun, Tasks
  <2> QED
    BY <1>0, <1>4, <2>1, <2>2 DEF TypeOK, SequentialRun, RunOne, Loops, plan
<1>5. CASE WaveRun
  BY <1>0, <1>5 DEF TypeOK, WaveRun, RunOne, Runnable, Open, Loops, plan
<1>6. CASE WaveNone
  BY <1>0, <1>6 DEF TypeOK, WaveNone, Open, StatusByPoint, Loops, plan
<1>7. CASE AwaitResolves \/ AwaitRejects
  BY <1>0, <1>7 DEF AwaitResolves, AwaitRejects, Loops, plan
<1>8. CASE Return
  <2>1. CASE parallelize
    BY <1>0, <1>8, <2>1 DEF Return, Loops, StatusByPoint, plan
  <2>2. CASE ~parallelize /\ call = "loop"
    <3>1. \A q \in Tasks : q < cursor
      BY <1>0, <1>8, <2>2, NAssumption DEF TypeOK, Return, Tasks
    <3> QED
      BY <1>0, <1>8, <2>2, <3>1 DEF Return, Loops, StatusByPoint, plan
  <2>3. CASE ~parallelize /\ call = "break"
    BY <1>0, <1>8, <2>3 DEF Return, Loops, plan
  <2> QED
    BY <1>8, <2>1, <2>2, <2>3 DEF Return
<1> QED
  BY <1>1, <1>2, <1>3, <1>4, <1>5, <1>6, <1>7, <1>8 DEF Next, Coordinator

\* Whatever is skipped, one at a time, in waves or downstream of a failure, has a
\* dependency that cannot succeed any more.
LEMMA SkipStep == IndInv /\ [Next]_vars => SkipsExplained'
<1> SUFFICES ASSUME IndInv, [Next]_vars, (parallelize \/ Ordered)', NEW t \in Tasks,
                    taskStatus'[t] = "skipped"
             PROVE  SkipReason(t)'
  BY DEF SkipsExplained
<1>0. TypeOK /\ StatusByPoint /\ Loops /\ SkipsExplained /\ UNCHANGED plan /\ FinalKept
  BY KeepStep DEF IndInv
<1>1. parallelize \/ Ordered
  BY <1>0 DEF plan, Ordered
<1>2. CASE taskStatus[t] = "skipped"
  BY <1>0, <1>1, <1>2, Monotone DEF SkipsExplained
<1>3. CASE taskStatus[t] # "skipped" /\ \E q \in Tasks : Task(q)
  <2>1. PICK q \in Tasks : Task(q)
    BY <1>3
  <2>2. taskStatus[q] = "failed" /\ taskStatus' = markSkippedDependents(q, taskStatus)
    BY <1>0, <1>3, <2>1 DEF TypeOK, StatusByPoint, Task, TaskStarts, AgentSettles, TaskCompletes
  <2>3. \A x \in Tasks : \/ taskStatus'[x] = taskStatus[x]
                         \/ /\ taskStatus[x] = "pending" /\ taskStatus'[x] = "skipped"
                            /\ \E d \in deps[x] \cap Tasks : taskStatus'[d] \in {"failed", "skipped"}
    <3>1. taskStatus \in [Tasks -> Status]
      BY <1>0 DEF TypeOK
    <3> QED
      BY <2>2, <3>1, MarkSkipped
  <2>4. \E d \in deps[t] \cap Tasks : taskStatus'[d] \in {"failed", "skipped"}
    BY <1>3, <2>3
  <2> QED
    BY <1>0, <2>4 DEF SkipReason, plan
<1>4. CASE taskStatus[t] # "skipped" /\ SequentialPass
  <2>1. cursor \in Tasks
    BY <1>0, <1>4, NAssumption DEF TypeOK, SequentialPass, Tasks
  <2> DEFINE st == [taskStatus EXCEPT ![cursor] = "skipped"]
  <2>2. taskStatus' = markSkippedDependents(cursor, st) /\ taskStatus[cursor] = "pending"
    BY <1>4 DEF SequentialPass
  <2>3. st \in [Tasks -> Status] /\ st[cursor] \in {"failed", "skipped"}
    BY <1>0, <2>1 DEF TypeOK, Status
  <2>4. CASE t # cursor
    <3>1. taskStatus'[t] # st[t]
      BY <1>0, <1>4, <2>4 DEF TypeOK
    <3> HIDE DEF st
    <3>2. \E d \in deps[t] \cap Tasks : taskStatus'[d] \in {"failed", "skipped"}
      BY <2>1, <2>2, <2>3, <3>1, MarkSkipped
    <3> QED
      BY <1>0, <3>2 DEF SkipReason, plan
  \* The dependency that keeps cursor from running has been looked at already.
  <2>5. CASE t = cursor
    <3>1. Ordered
      BY <1>1, <1>4 DEF SequentialPass
    <3>2. PICK d \in deps[cursor] : d \notin Succeeded
      BY <1>4, <2>2 DEF SequentialPass, canRun
    <3>3. d \in Tasks /\ d < cursor
      BY <1>0, <2>1, <3>1, <3>2, NAssumption DEF Ordered, TypeOK, Tasks
    <3>4. at[d] \in {"idle", "done"} /\ (at[d] = "idle" => taskStatus[d] # "pending")
      BY <1>0, <1>4, <3>3 DEF Loops, SequentialPass
    <3>5. taskStatus[d] \in {"failed", "skipped"}
      BY <1>0, <3>2, <3>3, <3>4 DEF StatusByPoint, Succeeded
    <3> QED
      BY <1>0, <2>5, <3>2, <3>3, <3>5 DEF SkipReason, FinalKept, Final, plan
  <2> QED
    BY <2>4, <2>5
<1>5. CASE taskStatus[t] # "skipped" /\ WaveNone
  <2>1. t \in Open /\ ~canRun(t)
    BY <1>0, <1>5 DEF TypeOK, WaveNone, Runnable
  <2>2. PICK d \in deps[t] : d \notin Succeeded
    BY <2>1 DEF canRun
  <2>3. CASE d = Ghost
    BY <1>0, <2>2, <2>3 DEF SkipReason, plan
  <2>4. CASE d \in Tasks
    <3>1. at[d] \in {"idle", "done"} /\ (at[d] = "idle" /\ taskStatus[d] = "pending" => d \in Open)
      BY <1>0, <1>5, <2>4 DEF Loops, WaveNone, Open
    <3>2. taskStatus'[d] \in {"failed", "skipped"}
      BY <1>0, <1>5, <2>2, <2>4, <3>1 DEF TypeOK, StatusByPoint, Succeeded, WaveNone
    <3> QED
      BY <1>0, <2>2, <2>4, <3>2 DEF SkipReason, plan
  <2> QED
    BY <1>0, <2>2, <2>3, <2>4 DEF TypeOK
<1>6. CASE taskStatus[t] # "skipped" /\ (UNCHANGED vars \/ SequentialRun \/ WaveRun \/ AwaitResolves
                                          \/ AwaitRejects \/ Return)
  BY <1>0, <1>6 DEF TypeOK, vars, SequentialRun, WaveRun, RunOne, AwaitResolves, AwaitRejects, Return
<1> QED
  BY <1>2, <1>3, <1>4, <1>5, <1>6 DEF Next, Coordinator

-----------------------------------------------------------------------------
(* Theorems *)

\* IndInv is an inductive invariant of executePlan.
THEOREM Inductive == Spec => []IndInv
<1>1. IndInv /\ [Next]_vars => IndInv'
  BY TypeStep, DepsStep, StatusStep, LoopsStep, SkipStep DEF IndInv
<1> QED
  BY InitInv, <1>1, PTL DEF Spec

\* Whatever the plan, the squad and the schedule: the state is well-typed, and no
\* task is ever handed to an agent before all its dependencies have succeeded.
THEOREM DependenciesHold == Spec => [](TypeOK /\ DepsRespected)
<1>1. IndInv => TypeOK /\ DepsRespected
  BY DEF IndInv
<1> QED
  BY Inductive, <1>1, PTL

\* A skipped task was never dispatched and reports nothing.
THEOREM SkippedStaySkipped == Spec => []SkippedNeverRan
<1>1. IndInv => SkippedNeverRan
  BY DEF IndInv, TypeOK, StatusByPoint, SkippedNeverRan, Point
<1> QED
  BY Inductive, <1>1, PTL

\* A returned execution is complete: nothing in flight, everything decided, and
\* exactly one result for each task that ran.
THEOREM ReturnIsComplete == Spec => []ReturnedComplete
<1>1. IndInv => ReturnedComplete
  BY DEF IndInv, TypeOK, StatusByPoint, Loops, ReturnedComplete, InFlight, Final, Status
<1> QED
  BY Inductive, <1>1, PTL

\* In a returned execution the skipped tasks are exactly those with a dependency
\* that did not succeed (in waves, or for a plan listed in order).
THEOREM SkipsAreExact == Spec => []SkippedIffBlocked
<1>1. IndInv => SkippedIffBlocked
  <2> SUFFICES ASSUME IndInv, call = "returned", parallelize \/ Ordered, NEW t \in Tasks
               PROVE  taskStatus[t] = "skipped" <=> ~(deps[t] \subseteq Succeeded)
    BY DEF SkippedIffBlocked
  <2>1. taskStatus[t] = "skipped" => ~(deps[t] \subseteq Succeeded)
    BY DEF IndInv, SkipsExplained, SkipReason, Succeeded, Ghost, Tasks
  <2>2. taskStatus[t] # "skipped" => deps[t] \subseteq Succeeded
    BY DEF IndInv, TypeOK, StatusByPoint, Loops, DepsRespected, Status
  <2> QED
    BY <2>1, <2>2
<1> QED
  BY Inductive, <1>1, PTL

\* Decisions about tasks are final and reported once.
THEOREM DecisionsStay == Spec => DecisionsAreFinal
<1>1. IndInv /\ [Next]_vars =>
        [\A t \in Tasks : /\ taskStatus[t] \in Final => taskStatus'[t] = taskStatus[t]
                          /\ results[t] # <<>> => results'[t] = results[t]]_vars
  <2> SUFFICES ASSUME IndInv, Next, NEW t \in Tasks, results[t] # <<>>
               PROVE  results'[t] = results[t]
    BY KeepStep DEF FinalKept
  <2>1. at[t] \in {"completing", "done", "threw"} /\ TypeOK /\ Loops /\ StatusByPoint
    BY DEF IndInv, TypeOK, StatusByPoint, Point
  <2>2. CASE \E q \in Tasks : Task(q)
    BY <2>1, <2>2 DEF TypeOK, Task, TaskStarts, AgentSettles, TaskCompletes
  <2>3. CASE SequentialRun
    <3>1. t # cursor
      BY <2>1, <2>3 DEF SequentialRun, StatusByPoint, TypeOK
    <3> QED
      BY <2>1, <2>3, <3>1 DEF TypeOK, SequentialRun, RunOne
  <2>4. CASE WaveRun
    BY <2>1, <2>4 DEF TypeOK, StatusByPoint, WaveRun, RunOne, Runnable, Open
  <2>5. CASE SequentialPass \/ WaveNone \/ AwaitResolves \/ AwaitRejects \/ Return
    BY <2>5 DEF SequentialPass, WaveNone, AwaitResolves, AwaitRejects, Return
  <2> QED
    BY <2>2, <2>3, <2>4, <2>5 DEF Next, Coordinator
<1> QED
  BY Inductive, <1>1, PTL DEF Spec, DecisionsAreFinal

-----------------------------------------------------------------------------
(* What a returned execution shows of its failures, and the refinement of TaskDag *)

\* A set of tasks that is not empty has a first one in plan order.
LEMMA FirstTask ==
  ASSUME NEW S \in SUBSET Tasks, S # {}
  PROVE  \E t \in S : \A u \in S : ~(u < t)
<1> DEFINE R == {ss \in Nat \X Nat : ss[1] < ss[2]}
<1>1. IsWellFoundedOn(R, Nat)
  BY NatLessThanWellFounded DEF OpToRel
<1>2. S \subseteq Nat
  BY NAssumption DEF Tasks
<1>3. \A u, t \in Nat : u < t => <<u, t>> \in R
  OBVIOUS
<1> HIDE DEF R
<1>4. \E x \in S : \A y \in S : ~(<<y, x>> \in R)
  BY <1>1, <1>2, WFMin
<1> QED
  BY <1>2, <1>3, <1>4

\* In a returned execution of a plan in order nothing is skipped unless something
\* failed, so a gate that counts failed tasks misses nothing: the first skipped task
\* depends on an earlier one that failed.
THEOREM FailuresShow == Spec => []FailureVisible
<1>1. IndInv => FailureVisible
  <2> SUFFICES ASSUME IndInv, call = "returned", Ordered,
                      \A t \in Tasks : taskStatus[t] # "failed",
                      NEW u \in Tasks, taskStatus[u] # "succeeded"
               PROVE  FALSE
    BY DEF FailureVisible
  <2> DEFINE S == {t \in Tasks : taskStatus[t] = "skipped"}
  <2>1. taskStatus[u] = "skipped"
    BY DEF IndInv, TypeOK, Loops, StatusByPoint, Status
  <2>2. PICK t \in S : \A v \in S : ~(v < t)
    BY <2>1, FirstTask
  <2>3. Ghost \notin deps[t]
    BY DEF Ordered, Ghost, Tasks
  <2>4. PICK d \in deps[t] \cap Tasks : taskStatus[d] \in {"failed", "skipped"}
    BY <2>2, <2>3 DEF IndInv, SkipsExplained, SkipReason
  <2>5. d < t
    BY <2>2, <2>4, NAssumption DEF Ordered, Tasks
  <2> QED
    BY <2>2, <2>4, <2>5
<1> QED
  BY Inductive, <1>1, PTL

-----------------------------------------------------------------------------
(* executePlan implements TaskDag *)

\* What TaskDag knows of a task, by the point its runOne has reached.
LEMMA MapByPoint ==
  ASSUME TypeOK, StatusByPoint, NEW t \in Tasks
  PROVE  /\ at[t] = "idle" => AbsState[t] = IF taskStatus[t] = "skipped" THEN "skipped" ELSE "waiting"
         /\ at[t] \in {"starting", "agent"} => AbsState[t] = "running"
         /\ at[t] \in {"completing", "done", "threw"} => AbsState[t] = taskStatus[t]
         /\ AbsState[t] = "succeeded" <=> taskStatus[t] = "succeeded"
         /\ AbsState[t] = "failed" <=> taskStatus[t] = "failed"
BY DEF TypeOK, StatusByPoint, AbsState, Point

\* The tasks that have succeeded are the same in both specifications.
LEMMA SameSucceeded ==
  ASSUME TypeOK, StatusByPoint
  PROVE  Abstract!Succeeded = Succeeded
BY MapByPoint DEF Abstract!Succeeded, Succeeded

\* A step that turns idle, pending, blocked tasks to skipped and leaves the others
\* alone is a Skip of TaskDag.
LEMMA SkipsMap ==
  ASSUME TypeOK, StatusByPoint, UNCHANGED <<deps, AbsAnswer>>,
         \A t \in Tasks : at'[t] = "idle" <=> at[t] = "idle",
         \A t \in Tasks : \/ taskStatus'[t] = taskStatus[t]
                          \/ /\ taskStatus[t] = "pending" /\ taskStatus'[t] = "skipped" /\ at[t] = "idle"
                             /\ ~(deps[t] \subseteq Succeeded)
  PROVE  Abstract!Next
<1> DEFINE S == {t \in Tasks : taskStatus'[t] # taskStatus[t]}
<1>1. \A t \in S : AbsState[t] = "waiting" /\ ~(deps[t] \subseteq Abstract!Succeeded)
  BY SameSucceeded DEF AbsState
<1>2. AbsState' = [t \in Tasks |-> IF t \in S THEN "skipped" ELSE AbsState[t]]
  BY DEF AbsState
<1> QED
  BY <1>1, <1>2 DEF Abstract!Next, Abstract!Skip

\* Dispatching idle, pending, runnable tasks is a Launch of TaskDag.
LEMMA RunOneMaps ==
  ASSUME TypeOK, StatusByPoint, UNCHANGED deps, call = "loop", call' = "await",
         NEW S \in SUBSET Tasks, S # {}, RunOne(S),
         \A t \in S : at[t] = "idle" /\ taskStatus[t] = "pending" /\ canRun(t)
  PROVE  Abstract!Next
<1>1. \A t \in S : AbsState[t] = "waiting" /\ deps[t] \subseteq Abstract!Succeeded
  BY SameSucceeded DEF AbsState, canRun
<1>2. AbsState' = [t \in Tasks |-> IF t \notin S THEN AbsState[t]
                                   ELSE IF t \in S \ manned THEN "failed" ELSE "running"]
  BY DEF AbsState, RunOne
<1>3. AbsAnswer = "open" /\ UNCHANGED AbsAnswer
  BY DEF AbsAnswer
<1>4. S \ manned \in SUBSET S
  OBVIOUS
<1>5. Abstract!Launch(S, S \ manned)
  BY <1>1, <1>2, <1>3 DEF Abstract!Launch
<1> QED
  BY <1>4, <1>5 DEF Abstract!Next

\* A task that a failing sibling or the sequential loop gives up is idle and pending,
\* and has a dependency that has not succeeded.
LEMMA NewlySkipped ==
  ASSUME IndInv, IndInv', FinalKept, UNCHANGED plan, NEW t \in Tasks,
         at'[t] = "idle" <=> at[t] = "idle",
         taskStatus[t] # "skipped", taskStatus'[t] = "skipped",
         \/ ~(deps[t] \subseteq Succeeded)
         \/ \E d \in deps[t] \cap Tasks : taskStatus'[d] \in {"failed", "skipped"}
  PROVE  at[t] = "idle" /\ taskStatus[t] = "pending" /\ ~(deps[t] \subseteq Succeeded)
<1>1. at[t] = "idle" /\ taskStatus[t] = "pending"
  BY DEF IndInv, TypeOK, StatusByPoint, Point
<1> QED
  BY <1>1 DEF FinalKept, Final, Succeeded

\* Every step of executePlan is a step of TaskDag or leaves its state alone.
LEMMA StepMaps ==
  ASSUME IndInv, IndInv', [Next]_vars
  PROVE  [Abstract!Next]_(Abstract!vars)
<1>0. TypeOK /\ StatusByPoint /\ Loops /\ DepsRespected /\ TypeOK' /\ UNCHANGED plan /\ FinalKept
  BY KeepStep DEF IndInv
<1> USE <1>0
<1>1. CASE UNCHANGED vars
  BY <1>1 DEF vars, plan, AbsState, AbsAnswer, Abstract!vars
<1>2. ASSUME NEW t \in Tasks, TaskStarts(t) PROVE UNCHANGED Abstract!vars
  BY <1>2 DEF TypeOK, StatusByPoint, TaskStarts, plan, AbsState, AbsAnswer, Abstract!vars
<1>3. ASSUME NEW t \in Tasks, NEW o \in {"succeeded", "failed"}, AgentSettles(t, o)
      PROVE  Abstract!Next
  <2>1. AbsState[t] = "running" /\ AbsState' = [AbsState EXCEPT ![t] = o]
    BY <1>3 DEF TypeOK, StatusByPoint, AgentSettles, AbsState
  <2>2. UNCHANGED <<deps, AbsAnswer>>
    BY <1>3 DEF AgentSettles, plan, AbsAnswer
  <2> QED
    BY <2>1, <2>2 DEF Abstract!Next, Abstract!Finish
<1>4. ASSUME NEW t \in Tasks, TaskCompletes(t) PROVE [Abstract!Next]_(Abstract!vars)
  <2>1. CASE taskStatus[t] = "succeeded"
    BY <1>4, <2>1 DEF TypeOK, TaskCompletes, plan, AbsState, AbsAnswer, Abstract!vars
  <2>2. CASE taskStatus[t] # "succeeded"
    <3>1. taskStatus[t] = "failed" /\ taskStatus' = markSkippedDependents(t, taskStatus)
      BY <1>4, <2>2 DEF StatusByPoint, TaskCompletes
    <3>2. \A q \in Tasks : \/ taskStatus'[q] = taskStatus[q]
                           \/ /\ taskStatus[q] = "pending" /\ taskStatus'[q] = "skipped"
                              /\ \E d \in deps[q] \cap Tasks : taskStatus'[d] \in {"failed", "skipped"}
      <4>1. taskStatus \in [Tasks -> Status]
        BY DEF TypeOK
      <4> QED
        BY <3>1, <4>1, MarkSkipped
    <3>3. \A q \in Tasks : at'[q] = "idle" <=> at[q] = "idle"
      BY <1>4, <2>2 DEF TypeOK, TaskCompletes
    <3>4. UNCHANGED <<deps, AbsAnswer>>
      BY <1>4 DEF TaskCompletes, plan, AbsAnswer
    <3>5. Abstract!Next
      BY <3>2, <3>3, <3>4, NewlySkipped, SkipsMap
    <3> QED
      BY <3>5
  <2> QED
    BY <2>1, <2>2
<1>5. CASE SequentialPass
  <2>1. cursor \in Tasks
    BY <1>5, NAssumption DEF TypeOK, SequentialPass, Tasks
  <2>2. UNCHANGED <<deps, at, AbsAnswer>>
    BY <1>5 DEF SequentialPass, plan, AbsAnswer
  <2>3. CASE taskStatus[cursor] # "pending"
    BY <1>5, <2>2, <2>3 DEF SequentialPass, AbsState, Abstract!vars
  <2>4. CASE taskStatus[cursor] = "pending"
    <3> DEFINE st == [taskStatus EXCEPT ![cursor] = "skipped"]
    <3>1. taskStatus' = markSkippedDependents(cursor, st) /\ ~(deps[cursor] \subseteq Succeeded)
      BY <1>5, <2>4 DEF SequentialPass, canRun
    <3>2. st \in [Tasks -> Status] /\ st[cursor] = "skipped" /\ \A q \in Tasks \ {cursor} : st[q] = taskStatus[q]
      BY <2>1 DEF TypeOK, Status
    <3> HIDE DEF st
    <3>3. \A q \in Tasks : \/ taskStatus'[q] = st[q]
                           \/ /\ st[q] = "pending" /\ taskStatus'[q] = "skipped"
                              /\ \E d \in deps[q] \cap Tasks : taskStatus'[d] \in {"failed", "skipped"}
      BY <2>1, <3>1, <3>2, MarkSkipped
    <3>4. taskStatus'[cursor] = "skipped"
      BY <2>1, <3>2, <3>3
    <3>5. \A q \in Tasks : \/ taskStatus'[q] = taskStatus[q]
                           \/ /\ taskStatus[q] = "pending" /\ taskStatus'[q] = "skipped"
                              /\ at[q] = "idle" /\ ~(deps[q] \subseteq Succeeded)
      BY <2>1, <2>2, <2>4, <3>1, <3>2, <3>3, <3>4, NewlySkipped
    <3>6. Abstract!Next
      BY <2>2, <3>5, SkipsMap
    <3> QED
      BY <3>6
  <2> QED
    BY <2>3, <2>4
<1>6. CASE SequentialRun
  <2>1. cursor \in Tasks /\ at[cursor] = "idle"
    BY <1>6, NAssumption DEF TypeOK, SequentialRun, Loops, Tasks
  <2> QED
    BY <1>6, <2>1, RunOneMaps DEF SequentialRun, plan
<1>7. CASE WaveRun
  <2>1. Runnable \subseteq Tasks /\ \A t \in Runnable : at[t] = "idle" /\ taskStatus[t] = "pending" /\ canRun(t)
    BY <1>7 DEF TypeOK, WaveRun, Loops, Runnable, Open
  <2> QED
    BY <1>7, <2>1, RunOneMaps DEF WaveRun, plan
<1>8. CASE WaveNone
  <2>1. \A t \in Open : at[t] = "idle" /\ taskStatus[t] = "pending" /\ ~(deps[t] \subseteq Succeeded)
    BY <1>8 DEF WaveNone, Loops, Open, Runnable, canRun
  <2>2. \A t \in Tasks : \/ taskStatus'[t] = taskStatus[t]
                         \/ taskStatus'[t] = "skipped" /\ t \in Open
    BY <1>8 DEF WaveNone
  <2>3. UNCHANGED <<deps, at, AbsAnswer>>
    BY <1>8 DEF WaveNone, plan, AbsAnswer
  <2> QED
    BY <2>1, <2>2, <2>3, SkipsMap
<1>9. CASE AwaitResolves
  BY <1>9 DEF AwaitResolves, plan, AbsState, AbsAnswer, Abstract!vars
<1>10. CASE AwaitRejects
  <2>1. PICK t \in Tasks : at[t] = "threw"
    BY <1>10 DEF AwaitRejects
  <2>2. AbsState[t] = "failed"
    BY <2>1 DEF StatusByPoint, AbsState
  <2>3. AbsAnswer = "open" /\ AbsAnswer' = "threw" /\ UNCHANGED <<deps, AbsState>>
    BY <1>10 DEF AwaitRejects, plan, AbsState, AbsAnswer
  <2> QED
    BY <2>1, <2>2, <2>3 DEF Abstract!Next, Abstract!Throw
<1>11. CASE Return
  <2>1. \A t \in Tasks : AbsState[t] \in {"succeeded", "failed", "skipped"}
    <3>1. call' = "returned" /\ UNCHANGED <<taskStatus, at>>
      BY <1>11 DEF Return
    <3>2. \A t \in Tasks : at'[t] \in {"idle", "done"} /\ taskStatus'[t] # "pending"
      BY <3>1 DEF IndInv, Loops
    <3> QED
      BY <3>1, <3>2 DEF StatusByPoint, AbsState
  <2>2. AbsAnswer = "open" /\ AbsAnswer' = "returned" /\ UNCHANGED <<deps, AbsState>>
    BY <1>11 DEF Return, plan, AbsState, AbsAnswer
  <2> QED
    BY <2>1, <2>2 DEF Abstract!Next, Abstract!Return
<1> QED
  BY <1>1, <1>2, <1>3, <1>4, <1>5, <1>6, <1>7, <1>8, <1>9, <1>10, <1>11 DEF Next, Coordinator, Task

\* executePlan implements TaskDag, for every plan, squad and way to schedule it.
THEOREM Implements == Spec => ImplementsTaskDag
<1>1. Init => Abstract!Init
  BY PlansAssumption DEF Init, Abstract!Init, AbsState, AbsAnswer
<1>2. IndInv /\ IndInv' /\ [Next]_vars => [Abstract!Next]_(Abstract!vars)
  BY StepMaps
<1> QED
  BY Inductive, <1>1, <1>2, PTL DEF Spec, ImplementsTaskDag, Abstract!Spec
=============================================================================
