--------------------------- MODULE WorkflowMacros ---------------------------
(***************************************************************************)
(* One run of a workflow macro (lib/workflow-macros.ts): steps one after   *)
(* the other, their commands in sequence or in parallel, batches of items  *)
(* taken by concurrent workers, retries, the cache of idempotent commands, *)
(* the abort signal, and the rollback of what was executed.                *)
(*                                                                         *)
(* A step of plain commands is a batch of one item here.  Commands, their  *)
(* parameters and results are left out; a command, and its rollback        *)
(* command, is known by its idempotency key.  Commands resolve, are tried  *)
(* at least once and settle; progress listeners do not throw.              *)
(***************************************************************************)
EXTENDS Naturals, Sequences, SequencesExt

CONSTANTS Workflows,   \* each [steps, rollbackOnFailure]
          MaxSteps, MaxItems, MaxCommands   \* bounds of theirs

\* The default key is the command's name with the step and the item.  A reference may
\* give a key of its own, the same for the whole run or for each item.
Key == [text : STRING, scope : {"step", "item", "run"}]
\* backoff: there is a delay (backoffMs > 0) before it is tried again.
Command == [key : Key, idempotent : BOOLEAN, maxAttempts : Nat \ {0}, backoff : BOOLEAN,
            undo : {"none", "handler", "command"}, undoKey : Key]
Step == [parallel : BOOLEAN, commands : Seq(Command), items : 0..MaxItems,
         concurrency : Nat \ {0}, continueOnItemFailure : BOOLEAN, rollback : BOOLEAN,
         onError : {"abort", "continue", "rollback"}]

ASSUME BoundAssumption == {MaxSteps, MaxItems, MaxCommands} \subseteq Nat \ {0}
ASSUME WorkflowAssumption ==
  \A w \in Workflows :
    /\ w.rollbackOnFailure \in BOOLEAN /\ w.steps \in Seq(Step) /\ Len(w.steps) \in 1..MaxSteps
    /\ \A i \in DOMAIN w.steps : Len(w.steps[i].commands) \in 1..MaxCommands

VARIABLES workflow, dryRun,
          phase,      \* "between" steps, in a "step", in the "rollback", "returned"
          at,         \* the current step
          nextIndex, active, hardFailure, failed,   \* BatchWorkflowProcessor.run: the items
          records,    \* allRecords: the commands of the items that succeeded
          cache,      \* idempotencyCache; item 0 is the rollback's
          executedStack,
          rollback,   \* [attempted, errors] of the result
          outcome,    \* outcome[i]: the status of step i in the result
          aborted,    \* signal.aborted
          done, undone   \* history: the commands that had their effect; undone, in order

batch == <<nextIndex, active, hardFailure, failed, records>>
history == <<done, undone>>
vars == <<workflow, dryRun, phase, at, batch, cache, executedStack, rollback, outcome, aborted, history>>

steps == workflow.steps
step == steps[at]
Invocation == (1..MaxSteps) \X (1..MaxItems) \X (1..MaxCommands)
CommandOf(inv) == steps[inv[1]].commands[inv[3]]
KeyFor(key, i, k) == <<IF key.scope = "step" THEN i ELSE 0, IF key.scope = "run" THEN 0 ELSE k, key.text>>
idempotencyKey(inv) == KeyFor(CommandOf(inv).key, inv[1], inv[2])
\* A rollback's default key is the same for every item.
rollbackKey(inv) ==
  LET key == CommandOf(inv).undoKey
  IN KeyFor(key, inv[1], IF key.scope = "step" THEN 0 ELSE inv[2])

TypeOK ==
  /\ workflow \in Workflows /\ dryRun \in BOOLEAN
  /\ phase \in {"between", "step", "rollback", "returned"}
  /\ at \in 1..(Len(steps) + 1) /\ (phase = "step" => at <= Len(steps))
  /\ nextIndex \in 1..(MaxItems + 1) /\ DOMAIN active \subseteq 1..(nextIndex - 1)
  /\ \A k \in DOMAIN active :
       /\ active[k].todo \subseteq DOMAIN step.commands
       /\ active[k].bad \in BOOLEAN
       /\ \A r \in active[k].running \cup active[k].waiting :
            r[1] \in DOMAIN step.commands /\ r[2] \in 1..step.commands[r[1]].maxAttempts
       /\ \A r \in active[k].waiting : r[2] < step.commands[r[1]].maxAttempts
  /\ hardFailure \in BOOLEAN /\ failed \in 0..MaxItems
  /\ records \in Seq(Invocation)
  /\ \A key \in cache : key[1] \in 0..MaxSteps /\ key[2] \in 0..MaxItems /\ key[3] \in STRING
  /\ executedStack \in Seq([step : 1..MaxSteps, own : BOOLEAN, records : Seq(Invocation)])
  /\ rollback \in [attempted : BOOLEAN, errors : BOOLEAN]
  /\ outcome \in [1..Len(steps) -> {"none", "skipped", "succeeded", "failed"}]
  /\ aborted \in BOOLEAN /\ done \subseteq Invocation /\ undone \in Seq(Invocation)

-----------------------------------------------------------------------------
(* Steps *)

\* After the last step the run has succeeded; between two steps an abort ends it.
RunEnds ==
  /\ phase = "between" /\ (aborted \/ at > Len(steps))
  /\ phase' = "returned"
  /\ UNCHANGED <<workflow, dryRun, at, batch, cache, executedStack, rollback, outcome, aborted, history>>

StepSkipped ==   \* its condition does not hold, or this is a dry run
  /\ phase = "between" /\ ~aborted /\ at <= Len(steps)
  /\ at' = at + 1 /\ outcome' = [outcome EXCEPT ![at] = "skipped"]
  /\ UNCHANGED <<workflow, dryRun, phase, batch, cache, executedStack, rollback, aborted, history>>

StepBegins ==
  /\ phase = "between" /\ ~aborted /\ at <= Len(steps) /\ ~dryRun
  /\ phase' = "step"
  /\ nextIndex' = 1 /\ active' = << >> /\ hardFailure' = FALSE /\ failed' = 0 /\ records' = <<>>
  /\ UNCHANGED <<workflow, dryRun, at, cache, executedStack, rollback, outcome, aborted, history>>

-----------------------------------------------------------------------------
(* Items: a worker takes the next one when it has finished its last *)

TakeItem ==
  /\ phase = "step" /\ ~hardFailure /\ nextIndex <= step.items
  /\ Cardinality(DOMAIN active) < step.concurrency
  /\ nextIndex' = nextIndex + 1
  /\ active' = [k \in DOMAIN active \cup {nextIndex} |->
       IF k # nextIndex THEN active[k]
       ELSE [todo |-> DOMAIN step.commands, running |-> {}, waiting |-> {}, bad |-> FALSE]]
  /\ UNCHANGED <<workflow, dryRun, phase, at, hardFailure, failed, records, cache, executedStack,
                 rollback, outcome, aborted, history>>

\* A command whose key the cache has is not executed again.
Cached(inv) == CommandOf(inv).idempotent /\ idempotencyKey(inv) \in cache

\* In sequence one command begins, the one before it having succeeded; in
\* parallel all begin at once.
Beginning(k) == IF step.parallel THEN active[k].todo
                ELSE {j \in active[k].todo : \A i \in active[k].todo : j <= i}

CommandsBegin(k) ==
  LET hit == {j \in Beginning(k) : Cached(<<at, k, j>>)}
  IN /\ phase = "step" /\ k \in DOMAIN active
     /\ active[k].todo # {} /\ active[k].running = {} /\ active[k].waiting = {} /\ ~active[k].bad
     /\ active' = [active EXCEPT ![k] =
          IF aborted THEN [@ EXCEPT !.bad = TRUE]
          ELSE [todo |-> @.todo \ Beginning(k), bad |-> FALSE, waiting |-> {},
                running |-> {<<j, 1>> : j \in Beginning(k) \ hit}]]
     /\ UNCHANGED <<workflow, dryRun, phase, at, nextIndex, hardFailure, failed, records, cache,
                    executedStack, rollback, outcome, aborted, history>>

CommandSucceeds(k, r) ==
  /\ phase = "step" /\ k \in DOMAIN active /\ r \in active[k].running
  /\ active' = [active EXCEPT ![k].running = @ \ {r}]
  /\ done' = done \cup {<<at, k, r[1]>>}
  /\ cache' = IF step.commands[r[1]].idempotent THEN cache \cup {idempotencyKey(<<at, k, r[1]>>)} ELSE cache
  /\ UNCHANGED <<workflow, dryRun, phase, at, nextIndex, hardFailure, failed, records,
                 executedStack, rollback, outcome, aborted, undone>>

\* The attempt r is over, and what goes on executing or waiting of its command is
\* given, if anything: otherwise it has failed.
Goes(k, r, executing, delayed) ==
  /\ phase = "step" /\ k \in DOMAIN active
  /\ active' = [active EXCEPT ![k] = [todo |-> @.todo, bad |-> @.bad \/ executing \cup delayed = {},
                                     running |-> (@.running \ {r}) \cup executing,
                                     waiting |-> (@.waiting \ {r}) \cup delayed]]
  /\ UNCHANGED <<workflow, dryRun, phase, at, nextIndex, hardFailure, failed, records, cache,
                 executedStack, rollback, outcome, aborted, history>>

\* The next attempt begins, unless the signal is aborted.
NextAttempt(k, r) == Goes(k, r, IF aborted THEN {} ELSE {<<r[1], r[2] + 1>>}, {})

\* Mutant: the attempts are counted anew.
FailsUncounted(k, r) ==
  /\ r \in active[k].running
  /\ Goes(k, r, {}, IF step.commands[r[1]].maxAttempts > 1 THEN {<<r[1], 1>>} ELSE {})

CommandFails(k, r) ==
  LET command == step.commands[r[1]]
  IN /\ r \in active[k].running
     /\ \/ r[2] >= command.maxAttempts /\ Goes(k, r, {}, {})
        \/ r[2] < command.maxAttempts /\ command.backoff /\ Goes(k, r, {}, {r})
        \/ r[2] < command.maxAttempts /\ ~command.backoff /\ NextAttempt(k, r)

\* Mutant: the signal is not looked at again after the delay.
DelayEndsUnseen(k, r) == r \in active[k].waiting /\ Goes(k, r, {<<r[1], r[2] + 1>>}, {})

DelayEnds(k, r) == r \in active[k].waiting /\ NextAttempt(k, r)

\* The records of item k, all of whose commands have succeeded: one for each, in
\* their order.
RecordsOf(k) == [j \in DOMAIN step.commands |-> <<at, k, j>>]

ItemEnds(k) ==
  /\ phase = "step" /\ k \in DOMAIN active /\ active[k].running = {} /\ active[k].waiting = {}
  /\ active[k].todo = {} \/ active[k].bad
  /\ active' = [x \in DOMAIN active \ {k} |-> active[x]]
  /\ IF active[k].bad
       THEN /\ failed' = failed + 1 /\ hardFailure' = (hardFailure \/ ~step.continueOnItemFailure)
            /\ UNCHANGED records
       ELSE records' = records \o RecordsOf(k) /\ UNCHANGED <<failed, hardFailure>>
  /\ UNCHANGED <<workflow, dryRun, phase, at, nextIndex, cache, executedStack, rollback, outcome,
                 aborted, history>>

-----------------------------------------------------------------------------
(* The end of a step *)

\* Mutant: the first failure ends the step.
SettledAtOnce == hardFailure \/ (active = << >> /\ nextIndex > step.items)

\* All workers have returned.
Settled == active = << >> /\ (hardFailure \/ nextIndex > step.items)

StepSucceeds ==   \* items that failed and may fail do not fail the run
  /\ phase = "step" /\ Settled /\ ~hardFailure
  /\ executedStack' = Append(executedStack, [step |-> at, own |-> step.rollback, records |-> records])
  /\ outcome' = [outcome EXCEPT ![at] = IF failed > 0 THEN "failed" ELSE "succeeded"]
  /\ phase' = "between" /\ at' = at + 1
  /\ UNCHANGED <<workflow, dryRun, batch, cache, rollback, aborted, history>>

StepFails ==   \* what it has executed is not entered in the stack
  /\ phase = "step" /\ Settled /\ hardFailure
  /\ outcome' = [outcome EXCEPT ![at] = "failed"]
  /\ \/ /\ step.onError = "continue"
        /\ phase' = "between" /\ at' = at + 1 /\ UNCHANGED rollback
     \/ /\ step.onError = "rollback" \/ (step.onError = "abort" /\ workflow.rollbackOnFailure)
        /\ phase' = "rollback" /\ rollback' = [rollback EXCEPT !.attempted = TRUE] /\ UNCHANGED at
     \/ /\ step.onError = "abort" /\ ~workflow.rollbackOnFailure
        /\ phase' = "returned" /\ UNCHANGED <<at, rollback>>
  /\ UNCHANGED <<workflow, dryRun, batch, cache, executedStack, aborted, history>>

-----------------------------------------------------------------------------
(* rollbackStack *)

Without(e) == \* the stack with its entry e changed, or dropped when nothing is left of it
  IF ~e.own /\ e.records = <<>> THEN Front(executedStack) ELSE Front(executedStack) \o <<e>>

\* The step's own rollback commands come first; their failure is an error.
StepRollback(ok) ==
  LET e == Last(executedStack)
  IN /\ phase = "rollback" /\ ~aborted /\ executedStack # <<>> /\ e.own
     /\ executedStack' = Without([e EXCEPT !.own = FALSE])
     /\ rollback' = [rollback EXCEPT !.errors = @ \/ ~ok]
     /\ UNCHANGED <<workflow, dryRun, phase, at, batch, cache, outcome, aborted, history>>

NextToUndo(records_) == Last(records_)

\* Mutant: what a rollback handler throws is dropped.
NoUndoError(cmd, ok) == FALSE

UndoError(cmd, ok) == cmd.undo = "handler" /\ ~ok

\* A rollback command goes through the cache, and its failure is no error.
Undo(ok) ==
  LET e == Last(executedStack)
      inv == NextToUndo(e.records)
      cmd == CommandOf(inv)
      tried == cmd.undo = "handler" \/ (cmd.undo = "command" /\ rollbackKey(inv) \notin cache)
  IN /\ phase = "rollback" /\ ~aborted /\ executedStack # <<>> /\ ~e.own /\ e.records # <<>>
     /\ executedStack' = Without([e EXCEPT !.records = Front(@)])
     /\ undone' = IF tried /\ ok THEN Append(undone, inv) ELSE undone
     /\ cache' = IF tried /\ ok /\ cmd.undo = "command" THEN cache \cup {rollbackKey(inv)} ELSE cache
     /\ rollback' = [rollback EXCEPT !.errors = @ \/ UndoError(cmd, ok)]
     /\ UNCHANGED <<workflow, dryRun, phase, at, batch, outcome, aborted, done>>

NothingToUndo ==
  LET e == Last(executedStack)
  IN /\ phase = "rollback" /\ ~aborted /\ executedStack # <<>> /\ ~e.own /\ e.records = <<>>
     /\ executedStack' = Front(executedStack)
     /\ UNCHANGED <<workflow, dryRun, phase, at, batch, cache, rollback, outcome, aborted, history>>

\* An abort leaves the rest as it is, and the errors met so far are lost with it.
RollbackEnds ==
  /\ phase = "rollback" /\ (executedStack = <<>> \/ aborted)
  /\ phase' = "returned"
  /\ rollback' = [rollback EXCEPT !.errors = @ /\ executedStack = <<>>]
  /\ UNCHANGED <<workflow, dryRun, at, batch, cache, executedStack, outcome, aborted, history>>

Abort ==
  /\ phase # "returned" /\ ~aborted
  /\ aborted' = TRUE
  /\ UNCHANGED <<workflow, dryRun, phase, at, batch, cache, executedStack, rollback, outcome, history>>

-----------------------------------------------------------------------------
Init ==
  /\ workflow \in Workflows /\ dryRun \in BOOLEAN
  /\ phase = "between" /\ at = 1
  /\ nextIndex = 1 /\ active = << >> /\ hardFailure = FALSE /\ failed = 0 /\ records = <<>>
  /\ cache = {} /\ executedStack = <<>>
  /\ rollback = [attempted |-> FALSE, errors |-> FALSE]
  /\ outcome = [i \in 1..Len(steps) |-> "none"]
  /\ aborted = FALSE /\ done = {} /\ undone = <<>>

Runs ==
  \/ RunEnds \/ StepSkipped \/ StepBegins \/ TakeItem \/ StepSucceeds \/ StepFails
  \/ \E k \in 1..MaxItems : CommandsBegin(k) \/ ItemEnds(k)
  \/ \E k \in DOMAIN active : \E r \in active[k].running : CommandSucceeds(k, r) \/ CommandFails(k, r)
  \/ \E k \in DOMAIN active : \E r \in active[k].waiting : DelayEnds(k, r)
  \/ \E ok \in BOOLEAN : StepRollback(ok) \/ Undo(ok)
  \/ NothingToUndo \/ RollbackEnds

Next == Runs \/ Abort

Spec == Init /\ [][Next]_vars
FairSpec == Spec /\ WF_vars(Runs)

-----------------------------------------------------------------------------
(* Properties *)

\* The state is well typed.  Nothing is undone, and no result returned, while a
\* command of another batch worker or a parallel command is still executing, and
\* "Rollback executes in reverse order" (docs/WORKFLOW_MACROS.md:113): later steps
\* before earlier ones, and an item's later commands before its earlier ones.
RollbackOrderly ==
  /\ TypeOK
  /\ phase \in {"rollback", "returned"} => active = << >>
  /\ \A m, n \in DOMAIN undone :
       m < n => \/ undone[m][1] > undone[n][1]
                \/ undone[m][1] = undone[n][1] /\ (undone[m][2] = undone[n][2] => undone[m][3] > undone[n][3])

\* The command was executed, or, if it is idempotent, one with the same key.
Served(inv) ==
  \/ inv \in done
  \/ /\ CommandOf(inv).idempotent
     /\ \E e \in done : CommandOf(e).idempotent /\ idempotencyKey(e) = idempotencyKey(inv)

\* The result is true.  A step reported as succeeded has executed each command for
\* each item, but for the idempotent ones that share their key with one executed, in
\* whichever step.  A failed run whose result says that its rollback succeeded, and
\* that was not aborted, leaves standing only commands of steps it reports as failed,
\* commands without a rollback, and those that have a rollback command: the result
\* does not show that one failing, nor being skipped for its key.
ResultIsTrue ==
  /\ \A i \in DOMAIN steps : outcome[i] = "succeeded" =>
       \A k \in 1..steps[i].items, j \in DOMAIN steps[i].commands : Served(<<i, k, j>>)
  /\ phase = "returned" /\ rollback.attempted /\ ~rollback.errors /\ ~aborted =>
       \A inv \in done : \/ \E n \in DOMAIN undone : undone[n] = inv
                         \/ outcome[inv[1]] = "failed"
                         \/ CommandOf(inv).undo # "handler"

\* After the abort no attempt begins, by whichever worker: neither a command's first,
\* nor one whose delay began before the abort and ends after it.
AbortStops ==
  [][aborted => \A k \in DOMAIN active' :
       active'[k].running \subseteq (IF k \in DOMAIN active THEN active[k].running ELSE {})]_vars

\* Every run returns a result: no worker waits for another, and retries end, also
\* when the abort comes in a delay, which is slept out.
RunReturns == <>(phase = "returned")
=============================================================================
