# VentureOS: a TLA+ verification project

VentureOS runs missions with squads of agents and shows their work on a
dashboard. This directory models the parts of it in which state, concurrency and
failure meet. TLC checks small instances of every module; TLAPS proves every safety
property that holds, and the refinement, for every value of the constants.

`PROJECT.json` lists every component, run, mutant, finding, hazard and theorem,
and the source lines each definition stands for.

## 1. The system

### Modelled

| component | state | operations | talks to |
|---|---|---|---|
| SquadCoordinator | status per task, results, the pending set or the loop's position | `executePlan`: `runOne` per task, skipping of dependents, sequential loop or waves | called by MissionRunner; calls agents and hooks and awaits them |
| MissionStateMachine + JsonFileMissionStore | one JSON record per mission, and a `.tmp` file | `createMission`, `transition`, `fail`, `rollback`, `load`, `save` | called by MissionRunner; several processes may share the directory |
| MissionRunner | the record of the call in progress | `runFromBrief`, `resume`, `rollback`, the phases of `runFromPhase` | all of the above and below |
| GateChecks | none | `runAll` over the default gates | reads the execution, calls `approve()` |
| ArtifactCollector | version directories with files and a manifest | `collectFromResults` | file system, shared by runners |
| ProposalLifecycle | proposals, missions, running loops, one store file | submit, review, start, the mission loop, persist, restart | HTTP handlers, timers |
| Conversation engine + HITL | one stored state per conversation, a lock per conversation, alerts in memory | `startConversation`, `sendMessage`, `setStatus`, `addParticipant`; `checkMessage` | agents and humans; SQLite or file store; rate limiter |
| Rate limiter | sliding windows per agent, conversation and pair | `checkAll`, `recordMessage`, `recordChallenge`, `prune` | all conversations share one |
| Alert webhooks | last severity, last delivery per target, deliveries in the background | transition check, `selectTargets`, `deliverWebhook` with retries | polled by dashboards; external targets |
| Escalation policy | clock of the severity, last tier and time | `evaluateEscalation`, `updateEscalationState`, deliveries of a tier | runs in the same poll |
| Task board, active-task tracker, startup recovery | `task-board.json`, `active-tasks.md` | create, patch, delete, retry, batches, heartbeat pickup, report, resume; recovery in `server.ts` | clients, heartbeat workers, living files |
| Living files | registry, triggers, one store file | register, update, unregister, acknowledge, resolve, staleness check | timer and requests; puts cards on the task board |
| Workflow macros | a run: steps, batch workers, cache, stack of what was executed | steps, batches, retries, abort, rollback | external commands |

### Hard behaviours

* **Awaits.** Every `await` of `runOne` lets the rest of the wave run; a task
  awaiting its start hook still reads `pending`. With `continueOnFailure` off the
  call throws while siblings run on. `sendMessage` checks the rate limit before its
  awaits and records after them, under a lock that does not cover other
  conversations. Batch workers and parallel commands go on while one has failed.
* **Crashes.** A runner dies between truncating, writing and renaming; the proposal
  engine, the file store of conversations, the task board, its tracker and the
  living files are written in place, and a process may die in the middle.
* **Two files.** The board and its tracker, and the board and the trigger store, are
  saved one after the other: a crash in between, or an error of the second write, which
  the board's code drops, leaves them in disagreement.
* **Stale values.** The catch clauses of the runner hold the record the call began
  with; a stored verdict outlives the approval it asked for.
* **Sharing.** Two runners save through one temporary file name and number delivery
  directories by reading the directory first.
* **Long sequences.** Fail, roll back, run, fail again; pause, reactivate,
  challenge; queue, run, crash, recover, report late.
* **Lost messages and timeouts.** A webhook may fail, or arrive and be retried; a
  severity may change while deliveries of the previous one are in flight, and a late
  "all is well" overtake an alert. A worker may never learn of the card it was given,
  or never report on it; the dashboard has no timeout for either. An abort may come
  while a command waits to be tried again.

What makes each component correct: a coordinator respects dependencies, decides
every task once and says so; a persisted mission is readable, lies on the
documented diagram, keeps its payloads, and closes only when verified; a delivery
is complete and owned by one runner; proposals run only when approved, in
dependency order, one step at a time, to a verdict, and survive a restart; no
message is delivered that HITL should have stopped; limits are kept up to a known
overshoot; a lasting alert reaches whoever a tier names; a card has one worker, moves
along its diagram and does not wait for ever; a stale file is on its owner's list
once; a rollback undoes in reverse what it says it has undone.

### Not modelled

Left out because they are pure text or number processing, user interface, or plumbing
around external services: QA framework, sanitizers, voice rules, token accounting, arena,
affinity scores, observation pipeline, progression (its state is delegated to
SQLite transactions), code factory, policy and role-card decisions, alert rules
and histories, HTTP routing and the aggregation of external tools in
`server.ts` and `bridge.ts`, dashboard clients, tactical map, operational scripts. The
task queue and its migration are called by tests and a one-off script only. The
runtime conversation bridge and the trackers of the model router are planned (section 8).
`PROJECT.json` gives the reason for each. Most of the repository's lines are in these parts,
so the map covers a small share of all lines and most of those of the parts above.

## 2. Modules

| module | what it is |
|---|---|
| `TaskDag` | abstract contract of a coordinator: launch, finish, skip, return, throw |
| `SquadCoordinator` | one call of `executePlan`, one action per segment between awaits |
| `MissionRunner` | one mission: runners, record, state file, gates, delivery directories, crashes, errors, operator |
| `ProposalLifecycle` | the proposal engine with its handlers, timers and store file |
| `Conversation` | one conversation: its lock, the operations cut at their awaits, HITL, both stores, crashes |
| `RateLimiter` | the windows that all conversations share, checked and recorded around awaits |
| `AlertPipeline` | alert transitions, webhooks in flight with retries, escalation tiers, a clock, restarts |
| `TaskBoard` | the board and its tracker, clients, heartbeat workers and what becomes of them, recovery, failing writes, crashes |
| `LivingFiles` | registry, checks, triggers, and the cards they put on the board; both files with faults |
| `WorkflowMacros` | one run of a workflow with its workers, retries, keys, abort and rollback |
| `MC...` | the constants of each module for TLC |
| `SquadCoordinatorProofs`, `MissionRunnerProofs`, `ProposalLifecycleProofs`, `ConversationProofs`, `AlertPipelineProofs`, `TaskBoardProofs`, `LivingFilesProofs`, `WorkflowMacrosProofs` | theorems about the module of that name, and their proofs; `ConversationProofs` is about `RateLimiter` too, whose names for that reason begin with `Limiter` where the two would clash |

`MissionRunner` uses of `SquadCoordinator` only its verdict: the execution is
*clean*, *failed* or *leaky* (an artifact trips the secret scan), or the call
throws. `FailureVisible` is the link: the task gate looks at failed tasks only, and
for plans in dependency order, the ones `createPlanFromBrief` makes, that is enough.
`Conversation` and `RateLimiter` meet in `sendMessage`: the one takes the limiter's
verdict as a choice, the other abstracts a message to its check, its record or its
being dropped. `LivingFiles` and `TaskBoard` share the board:
`TaskBoard!enqueueTaskForTrigger` is the card a check creates, saved without the
tracker, and the actions `CardFinished`, `CardReopened`, `CardMoves` and `CardRemoved`
of `LivingFiles` are what the board's clients and workers do to such a card.

### How states and actions correspond to the code

**SquadCoordinator.** `taskStatus`, `results`, `pending` are the code's; `cursor` is
the `for` loop's position; `at[t]` is the await `runOne` of task `t` stands at; `call`
is where `executePlan` stands. `RunOne` is the synchronous prefix of `runOne`,
for all tasks of a wave at once, since `map` calls them without yielding.
`TaskStarts`, `AgentSettles` and `TaskCompletes` are the segments after the three
awaits. `Downstream` is the closure the breadth-first search computes, stated as the
least closed set.

**MissionRunner.** `disk` and `tmp` are the state file and its temporary file.
`fd[r]` is the file that runner `r`'s `writeFile` holds open, by the name it has *now*:
when another runner renames the temporary file, `r` goes on writing into the state
file. `m[r]` is the local record, `base[r]` the one the catch clause holds, `out[r]`
the one being saved, `stage[r]` the next step. `Raise` sends an exception to the
catch clause or to the caller, by `mode[r]`. A write into a file that is shared or
not empty leaves the record or garbage (`Written`). The operator's choice of rollback target
is the constant `RollbackPolicy`: `any` is whatever the code admits, `prior` a phase
not later than the failure, `suggested` what the error record suggests. `dirs[v]` is a delivery
directory: absent, partial (made, no manifest yet) or complete.

**ProposalLifecycle.** Node runs a handler to completion, so `turn` is the rest of the
current handler: rounds of `runMission`, and the two halves of each `writeFileSync`
(truncated, written), between which the process may die. `delays` are the timers
that let other handlers in. `store` is memory, `disk` the file. `Slug` is what
`sanitizeId` does to labels; it may map two labels to one id.

**Conversation.** `disk` is what the store holds (`Missing` or torn at times), `op` the
operation that holds the lock with the state it has loaded, `starts` the
`startConversation` calls under way, which take no lock. `SendLoads` is `sendMessage` up
to the load and its early returns, `SendChecks` the security pipeline with HITL
and all the ways it ends in a save, `SaveTruncates` and `SaveCompletes` the file
store's write (SQLite has only the second). `appendMessage` and `maybeSummarize` trim
the message list and fold the counters, as in the code. `sent` bounds the messages. A
*cast* is what a caller starts a conversation with: members and a first speaker, who need not
be one of them (`conversation-engine.ts:357`); the record's `opener` remembers whom it named.

**RateLimiter.** The three families of windows hold times; `sending[c]` is the
message of conversation `c` that has been checked and not yet recorded. Time is a
counter; an event exactly as old as the window counts, as in `SlidingWindow.count`.

**AlertPipeline.** `Poll` is one request for the alerts: the transition check with its
cooldown and the start of deliveries, then `maybeEscalate`, in this order and
without an await in between. `flights` are the deliveries going on in the background;
`AttemptFails(f, received, final)` is a failed or timed-out attempt that the
target may nevertheless have received, with a retry unless the error is final or was the
last. `Tick` is time; ages stop at the largest limit they are compared with.
`Restart` forgets what both modules keep in memory. `told`, `calm` and `sinceTier` are
history variables for the properties.

**TaskBoard.** `board` is `task-board.json` or `Torn`, `tracker` the ids that
`active-tasks.md` lists. Handlers are synchronous, so each request is one action;
`Save` writes the board and then the tracker. Either write may fail and leave its file as it
was or cut short: with a crash, with an error that the server answers (`BoardFails`;
at startup it is dropped, `server.ts:262`), or with one that the save itself drops
(`TrackerFails`, `task-board.ts:291-296`). `work[a]` is what worker `a` was handed and will
report on, which a recovery does not take away. `Vanish` is the rest of the world: an answer
to a pickup, a worker or a report gets lost, and nobody tells the dashboard. `StartUp` is
the recovery at startup, which re-queues at most `RecoveryLimit` cards (50 in
`server.ts:257`), the oldest first, which without times are any. History variables are `moved`
(given another owner by a client), `lost` (running cards that the last, failed write kept
out of the tracker) and `stray` (cards that ran with nobody to report on them: set
running by a client, vanished, or left by a recovery).

**LivingFiles.** `store` is the engine's memory, `disk` its file, `board` the cards that stem
from triggers, `age` how old each watched file is. A check is synchronous, but saves
the board once for every trigger and its own store at the end: `CheckCompletes`,
`CheckThrows(n)` and `CheckCrashes(n)` are a check that gets through, one whose
write fails after `n` files (memory keeps the triggers), and a crash there. `Persist` is the
write of the store at the end of every handler, which may fail as well.

**WorkflowMacros.** `active[k]` is the item `k` a worker is busy with: which of its
commands are still to begin, which run and in which attempt, and whether one was given up.
A command that failed and may be tried again waits out its delay (`waiting`) if it has
one; `DelayEnds` looks at the signal and begins the next attempt. A command's idempotency
key is the default one, with step and item, or one of its own, which may be the same for
each step or for the whole run (`KeyFor`).
`RecordsOf` are the records of an item that succeeded, one for each of its commands, in
their order. `records` and
`executedStack` are what the code keeps for the rollback, `cache` the idempotency
keys. `Abort` may come at any moment; what it stops is in the guards, as
`assertNotAborted` is in the code.

## 3. Runs

| run | instance | shows |
|---|---|---|
| `squad_any` | 3 tasks, all 4096 graphs (cycles, self-dependencies, unknown ids), all squads, both schedulers and failure modes, fair | `SkippedIffBlocked`, `FailureVisible`, `Settles`, `ImplementsTaskDag` |
| `mission_solo` | 1 runner, 1 crash, 2 thrown errors, rollbacks to prior phases, fair | `ClosedIsVerified`, `AnswerIsDurable`, `ApprovalHonoured`, `DiskFollowsDiagram`, `HistoryKept`, `RunsSettle` |
| `mission_duo` | 2 runners on one mission, 1 thrown error | `MissionSound`, `DeliveryIntact` |
| `mission_rollback` | 1 runner, rollbacks to any phase of the history | violates `ClosedIsVerified`, see below |
| `proposal_plans` | 1 proposal, all graphs on 3 steps with at most one failing, patching reviews, 1 crash | `DependencyOrder`, `VerdictSound`, `ApprovalGate`, `IdleIsPersisted` |
| `proposal_pair` | 2 proposals, twin ids, cycle, fork, failing step, no crash, fair | `OneStepAtATime`, `MissionsFinish` |
| `conversation` | 2 agents, a human and the system, four kinds of message, either store, 1 crash, a second start, a first speaker from outside | `DeliveredIsCleared`, `NoLostUpdate`, `StopHasAlert`, `TurnHolderPresent` |
| `rate_limits` | 2 agents, 2 conversations, limits of one to three messages | `LimitsHold`, `RetryAfterHonest` |
| `alerts` | 2 targets, one told of recoveries too, a tier for each, every setting of the switches, 2 deliveries in flight, 1 restart, fair | `TypeOK`, `TiersPaced`, `EveryTierServed`, `EscalationCoversLoss` |
| `task_board` | 2 workers, cards with and without owners, dependencies and pipelines, a recovery of 1 card at a time, 2 faults (crash, failed write, something vanishes), fair | `NoTwoWorkers`, `RestartRequeues`, `FollowsDiagram`, `EveryQueuedRuns` |
| `workflow_macros` | 4 workflows with batches, parallel and repeated commands, retries with and without delay, keys of their own, every kind of undo, an abort, fair | `RollbackOrderly`, `ResultIsTrue`, `AbortStops`, `RunReturns` |
| `living_files` | 2 files, 2 agents, a history of 2 triggers, 1 fault in a check, a write or outside, cards changed by hand, fair | `OneOpenTrigger`, `NoDuplicateCards`, `TriggerHadCard`, `TriggersCatchUp` |

A run has few properties, so related facts are conjuncts of one: `LimitsHold` is the
caps of agents, of conversations and the cooldown of challenges; `RollbackOrderly` that
nothing runs once the undoing begins and that it goes in reverse; `ResultIsTrue` that a step
reported as succeeded was executed and that a rollback reported as clean undid what it could; `TiersPaced` that a
flapping severity does not climb the tiers and that two tiers keep their distance;
`DiskFollowsDiagram` that the state file stays readable and moves along the documented
diagram. `TypeOK` is checked by `alerts` and is a conjunct of `IdleIsPersisted`,
`TurnHolderPresent`, `LimitsHold` (there `LimiterTypeOK`), `NoTwoWorkers`, `RollbackOrderly` and
`OneOpenTrigger`;
for the squad and the missions it is part of the proved invariants (section 5).

`mission_rollback` ends in a violation: the mission reaches `deliver`, fails, goes
back, fails its gates, and is rolled back to `deliver`, which the history contains;
`resume` closes it. With rollbacks to prior phases the property holds
(`mission_solo`, theorem `ClosedStaysVerified`).

**Bounds.** `N` (tasks), `MaxErrors` (errors in a history before rollbacks stop),
`MaxCrashes`, `MaxThrows`, `MaxVersions` (delivery directories) and the sets of plans
and submissions. Three tasks give every graph with a cycle, a fork, a join, a chain
and an independent sibling, and the theorems cover any number. Two errors let a mission
fail, be rolled back and fail again, the shortest way to a stale payload. One crash
reaches every intermediate state of the files (six directories are then enough
for every attempt at delivery, so that the bound stops no call), and the state after it is
one from which a new call starts, so that a second crash adds no new kind of file.
Two runners give every race on the temporary file and on `mkdir`; `mission_duo` has no
rollbacks (`MaxErrors = 0`), and the theorems cover them for any number of runners.
In the other modules: `MaxMessages` is above the challenge limit, the score window and
the token budget, so that every counter passes its threshold; `MaxTime` lets the longest
window pass, and `MaxRecords` is above the limits; `MaxSteps`, `MaxItems` and
`MaxCommands` are what the four workflows need;
`MaxFlights` is two, one delivery overtaking another; `MaxEdits` is the number of
requests of clients, three on the board (create, make dependent, change) and four for the
living files; `MaxFaults` is one for the living files and two on the board, so that a
recovery after a crash can fail too or find what another fault has hidden; `MaxRestarts` is
one. `RecoveryLimit` is one with two cards, so that the limit bites. The target that is told of
recoveries (its `minSeverity` is `ok`) may get an alert and a later recovery in either order. Runners, agents,
conversations and cards are symmetric where no liveness is checked. Deadlock checking is
off everywhere, since calls end and the system may rest.

**Fairness.** `SquadCoordinator`: the event loop runs every continuation, and hooks
and agents settle (there is no timeout in the code; an agent that never settles blocks its
mission, which the model assumes away). `MissionRunner`: a call that was begun goes
on or throws; calls, crashes and approvals need not happen. `ProposalLifecycle`: the
handler in progress ends, the process is restarted, and a timer that is due
again and again eventually fires (strong fairness, since other handlers keep
disabling it and the event loop looks at timers in each round). `AlertPipeline`: time
passes, an open dashboard polls, attempts end, and a target that is tried again and again
is reached some time. `TaskBoard`: the dashboard is restarted, workers
send their heartbeat pickups and report on what has not vanished; faults are finitely many,
and no recovery is assumed beside the one at startup.
`WorkflowMacros`: the run goes on; commands settle. `LivingFiles`: the engine is loaded and
its timer's checks come, some without a fault.

## 4. Where the code and its documents disagree

Beside `mission_rollback`, modelling met the following. The properties of the passing
runs except exactly these cases, and name the exception in their comments.

* The catch clause of `runFromBrief` (`mission-runner.ts:138`) fails the record
  the call began with: phases that were saved meanwhile disappear from the
  history (`HistoryKept` excepts that save).
* Run one at a time, a plan that is not in dependency order skips a task whose
  dependency would succeed later (`squad-coordinator.ts:306`; `SkippedIffBlocked`
  speaks of waves and of plans in order, `FailureVisible` of plans in order).
* A mission refused for want of approval, then approved and rolled back to `verify`
  as its error suggests, is refused again: the stored verdict is read
  (`mission-runner.ts:232`; `ApprovalHonoured`).
* Two runners on one mission share `<file>.tmp` (`mission-state-machine.ts:204`): one
  may rename what the other has just truncated (`DiskFollowsDiagram` is for one runner).
* The default chain of a proposal's steps is added after the given dependencies:
  step 1 depending on step 2 closes a cycle (`proposal-lifecycle.ts:284`;
  the part of `VerdictSound` about blocked plans speaks of those whose dependencies point backwards).
* A store cut short by a crash is read as empty (`proposal-lifecycle.ts:768`, and in
  the same way the board and the living files). A proposal's mission that was running
  at a crash stays "running" and nothing starts it again (`proposal-lifecycle.ts:484`).
* `hitl.ts:19` says that a pause lasts "until acknowledged". Acknowledging an alert does not
  touch the conversation, and setting it active does not reset the counters: the
  next message pauses it again.
* `alert-webhook.ts:60` says of `enabled`: "When false, no webhooks are sent".
  `maybeEscalate` does not look at it (`escalation-policy.ts:757`).
* `escalation-policy.ts:44` says that a tier "requires the prior to have been
  reached"; the highest tier that is due fires, whether lower ones did or not.
* `docs/CRASH_RECOVERY_ACTIVE_TASKS.md:10` promises "restart recovery that re-queues
  running work". Recovery believes the tracker (`task-board-operations.ts:398`): a running
  card that a cut or failed write kept out of it stays running and holds up its agent
  (`lost` in `RestartRequeues`). So do those beyond the limit, and all of them when the
  recovery's own save fails, which is not reported (`server.ts:262`).
* An agent with a running card is given nothing (`task-board-operations.ts:290`), and nothing
  but a report, a client or a recovery ends a card's run: after a lost answer or the death of
  a worker its agent waits (`stray` in `EveryQueuedRuns`).
* `POST /conversations` passes `currentTurn` on unchecked (`conversation-api.ts:173`,
  `conversation-engine.ts:357`): the first turn may be held by somebody who does not take
  part (`opener` in `TurnHolderPresent`).
* `docs/WORKFLOW_MACROS.md:112` speaks of rolling back prior successful steps. A
  rollback command that fails is not reported, and the key of a rollback command has no
  item, so that the undo of a second item is answered from the cache, as is one whose own
  key an executed command shares (`ResultIsTrue` is stated for rollback handlers). A step whose
  idempotent command shares its key with an earlier one is reported as succeeded
  without executing it (`Served`).
* `docs/LIVING_FILES.md:16` says that remediation tasks "are queued in task board
  automatically". An open trigger suppresses a new card also when its card has been finished
  or removed and the file is still stale (`TriggersCatchUp` excepts `ended` cards).

## 5. What is proved

For all values of the constants. The assumptions are the ones in the modules, which TLC
evaluates on every run: `N` a natural number, plans and squads of the right type; bounds,
limits and spans natural numbers, positive where the code divides time or stores by them;
markers such as `Missing` and `Torn` distinct from what they stand beside
(`FileAssumption`, `MissingAssumption`); tags of handlers distinct from ids of
proposals (`NameAssumption`); inputs, casts and owners of the right type, a cast's
members not none; escalation tiers numbered from 1 with growing delays
(`TierAssumption`); workflows of at least one step, whose steps have a command and a worker
and whose commands are tried at least once (`WorkflowAssumption`). Four theorems have a hypothesis of their own, which the table gives.

| module | theorem | states |
|---|---|---|
| `SquadCoordinatorProofs` | `SkipsAreExact`, `FailuresShow` | `SkippedIffBlocked`, `FailureVisible` |
| | `Implements` | `ImplementsTaskDag` (Spec => TaskDag's) |
| | `DependenciesHold`, `SkippedStaySkipped`, `ReturnIsComplete`, `DecisionsStay` | `DepsRespected`, `SkippedNeverRan`, `ReturnedComplete`, `DecisionsAreFinal`, which no run repeats |
| `MissionRunnerProofs` | `MissionStaysSound`, `DeliveriesStayIntact`, `ApprovalIsHonoured` | `MissionSound`, `DeliveryIntact`, `ApprovalHonoured`, for any number of runners and any rollback policy; also `WellTyped` |
| | `ClosedStaysVerified` | `ClosedIsVerified`, if `RollbackPolicy = "prior"` |
| | `AnswersAreDurable`, `DiskMovesAlongDiagram`, `HistoryIsKept` | `AnswerIsDurable`, `DiskFollowsDiagram`, `HistoryKept`, if no two runners share the mission (`Alone`) |
| `ProposalLifecycleProofs` | `StepsInOrder`, `NothingRunsUnapproved`, `VerdictsAreSound`, `OneLoopPerMission`, `IdleEnginesArePersisted` | `DependencyOrder`, `ApprovalGate`, `VerdictSound`, `OneStepAtATime`, `IdleIsPersisted` |
| `ConversationProofs` | `NothingSlipsThrough`, `UpdatesAreKept`, `StopsAreAlerted`, `TurnsAreHeld` | `DeliveredIsCleared`, `NoLostUpdate`, `StopHasAlert`, `TurnHolderPresent` |
| | `LimitsAreKept`, `RetryAfterIsHonest` | `LimitsHold`, `RetryAfterHonest` |
| `AlertPipelineProofs` | `WellTyped`, `TiersArePaced` | `TypeOK`, `TiersPaced` |
| `TaskBoardProofs` | `OneWorkerPerCard`, `CardsFollowDiagram`, `RestartLeavesNoneRunning` | `NoTwoWorkers`, `FollowsDiagram`, `RestartRequeues` |
| `LivingFilesProofs` | `TriggersAreSingle`, `CardsAreSingle`, `TriggersHaveCards` | `OneOpenTrigger`, `NoDuplicateCards`, `TriggerHadCard` |
| `WorkflowMacrosProofs` | `RollbacksAreOrderly`, `ResultsAreTrue`, `AbortsStop` | `RollbackOrderly`, `ResultIsTrue`, `AbortStops` |

Each module has a theorem `Inductive` (and `MissionRunnerProofs` also `SoloInductive`,
`ConversationProofs` also `LimiterInductive`): its
`IndInv` holds initially and is kept by every action. The rest follows from it.

**The squad's invariant.** The properties are not inductive as they stand. `IndInv`
adds `StatusByPoint` (the await a task stands at fixes its status and its results),
`Loops` (what `pending`, `cursor` and `call` say about the tasks not yet handed to
`runOne`) and `SkipsExplained` (a skipped task has a dependency that failed, was
skipped, or names no task, for waves and for plans in order). A task that awaits its start hook is safe from a
failing sibling because all its dependencies have succeeded, while every task
`markSkippedDependents` visits depends on a visited one that has not.
`Downstream` is used through that lemma, so no induction over the search is needed.
`FailuresShow` takes the first task of the plan that did not succeed (the least
element of a set of naturals).

**The mission's invariants.** `MissionSound` speaks of the state file only, but what
reaches the file comes from any record in play: the local records, the catch
clauses' stale ones, those being saved, the temporary file. `IndInv` says of *every*
record in play that it is sound (history, payloads, error), that `prior` rollbacks
leave no record beyond verification without a passing verdict, and that delivery
directories are owned by the runner that fills them and complete once recorded. The
lemma `Provenance` lists where the records of the next state come from (a record
already in play, a new one, one entered, failed or rolled back), so that
preservation is shown once per origin rather than once per action and variable.
`ApprovalInv` adds that only a failed record carries an error and that what a call works on or
saves asks for an approval it had only if the record it began with was past its gates and did.
`SoloInv` is for a runner without rivals: the temporary file is complete when it is
renamed, the record a call works on or has answered is the one in the file, what it saves may
follow that one and prolongs its history, and the file still begins with the history the call
found, which is why the catch clause, stale as it is, makes a move of the diagram and drops
nothing from before the call.

**The proposals' invariant.** Every entry, in memory and on disk, is shaped like its plan,
has its started steps behind completed ones, and has the verdict its steps call for; a
loop, a timer or a round in progress exists only for a running mission, and only one of
them; when no handler is in progress memory and disk agree, but for the fields a
review patched before it threw, unless a crash tore the file. The disk has to be included
because a restart makes it the memory. That a plan in dependency order never
blocks is the lemma `OrderedIsReady`: its first pending step is ready.

**The conversation's invariant.** Beside the types: in the record stored and in the one an
operation has loaded, the counters HITL reads (tokens, challenges in a row, the window of scores) are
those of the messages since the conversation began, and no message was delivered past a
limit (`RecordsSound`); the verdict an operation carries is the
one on the record it holds (`VerdictCurrent`); alerts stay as long as the process
does (`AlertsKept`); and with the SQLite store a second start drops no message that an operation
has loaded (`RowsKept`).
`NoLostUpdate` is inductive together with these.

**The limiter's invariant** is `LimitsHold` itself plus the order of the challenge windows: the
cooldown looks at the last challenge only, which says something about the others only when
they are sorted. A send in flight counts with the conversation that checked it, which gives the
overshoot: one message per conversation sharing the limiter.

**The alerts' invariant** relates the clocks: the policy's clock of a lasting alert is never
ahead of the time since a request last saw the alert gone (`ClockBehind`), and since a tier
last fired its cooldown has passed, or the clock was reset and started again, or the policy
still remembers the tier (`FiringRemembered`).

**The board's invariant** says that a worker who holds a card that nobody gave
away is its owner, that it has one holder, and that a tracker that is not empty (an empty one makes the recovery
go through the whole board) has every running card but those a failed write kept out of it
(`HolderOwns`, `OneHolder`, `Tracked`).

**The living files' invariant** says of memory and file alike that a file has one
open trigger and that each trigger's card was saved, and of the board that the
engine has no two open cards for one file and owner. A check is a loop, in the model a recursive function. Its
induction is done by hand, on the least number of files after which something would be wrong
(`PassExists` for the function itself, `AfterSound` for what it keeps), so that the theorems
cover a check cut after any number of files.

**The workflow's invariant.** The order of the undone commands alone is not inductive: it
depends on what is still on the stack. `StackSound` says that the stack holds earlier steps, each
once and in their order, and each with records in which an item's commands stand in their order,
however the workers interleaved; `UndoneSound` that whatever has been undone comes before all that is
left, and that a rollback that was not aborted returns with nothing left. `ItemsSound` counts:
the items that failed and those in progress were all taken, so that no worker is busy outside a
step. For the result, `ExecutedSound` says that until the rollback every key in the cache
stems from a command that was executed, and that a command of an item
that has not failed is executed, served by one with its key, or about to be; `DoneSound` says where each executed command
is: with an item in progress, in the records, on the stack, undone, or among
what a rollback could not or need not undo. An abort that drops the errors met so
far (`RollbackEnds`) is one of these cases, and the reason why `ResultIsTrue` excepts
aborted runs. `RecordsKnown`, that a record names a command of its step, is kept beside it for the
keys of the rollback commands. The ways in which a command of an item
moves on (it begins, succeeds, fails, waits, is tried again) share one description, `ItemAdvances`, and the three that shorten the stack share
`RollbackStep`; each is shown once to keep the invariant. `AbortsStop` follows from `ItemAdvances` too.

## 6. What is only model-checked

Liveness (`Settles`, `RunsSettle`, `MissionsFinish`, `EveryTierServed`,
`EscalationCoversLoss`, `EveryQueuedRuns`, `RunReturns`,
`TriggersCatchUp`) is out of the prover's reach: it needs fairness and ENABLED. The
violation of `mission_rollback` is TLC's.

## 7. What the models leave out

Texts, costs, timestamps, metrics, event logs and report contents; lifecycle hooks
of the runner (their errors are swallowed and they do not touch the record); custom gates; the
single files of a delivery; disk-level durability (`fsync`); the order of results
across tasks. Missions are independent files, so one mission is modelled.
`createPlanFromBrief` contributes the shape of its plans. In conversations, affinity,
voice rules and role cards contribute the verdicts they may give; the life of a HITL
alert after it was fired, resets and configuration changes of the limiter have no
caller. Of the alert pipeline, configuration files and test pings; of the board, titles,
priorities, results and exports; of the workflows, registration, parameter binding and progress events.

## 8. Plan

1. A composition of `MissionRunner`'s phases with `Conversation` through the runtime
   conversation bridge, with a restart in between.
2. The files of a delivery (`ArtifactCollector`), and the budget and health trackers of
   the model router.
