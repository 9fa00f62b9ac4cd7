----------------------------- MODULE TaskBoard -----------------------------
(***************************************************************************)
(* The dashboard's task board (dashboard/server/routes/task-board.ts with  *)
(* task-board-operations.ts and task-board-templates.ts), the workers that *)
(* pick cards up from it, and the recovery at startup, which reads the     *)
(* tracker in memory/active-tasks.md (active-tasks.ts).                    *)
(*                                                                         *)
(* A handler loads the board, changes it and saves it without an await in  *)
(* between: requests do not interleave, but a write may fail and a crash   *)
(* may cut it.  Both files are written in place.  Titles, results and      *)
(* times are left out, so which of the cards that may be picked up or      *)
(* resumed come first (by priority, by age) is open.  A PATCH of several   *)
(* fields is several in a row.                                             *)
(***************************************************************************)
EXTENDS Naturals, FiniteSets

CONSTANTS Ids, Agents, None,
          Owners,            \* the owners clients give: [agentId, assigneeType, assigneeId]
          NewStatuses,       \* the statuses clients create cards with
          Torn,              \* a board file cut short
          PickupLimit, RecoveryLimit,
          MaxEdits, MaxFaults    \* bounds

Status == {"backlog", "queued", "running", "blocked", "review", "done", "failed"}
Owner  == [agentId : Agents \cup {None}, assigneeType : {"human", "nexus", "agent"},
           assigneeId : Agents \cup {None}]
Card   == [status : Status, owner : Owner, dependencies : SUBSET Ids]

ASSUME InputAssumption == Owners \subseteq Owner /\ NewStatuses \subseteq Status
ASSUME NameAssumption == None \notin Agents /\ IsFiniteSet(Ids)
ASSUME LimitAssumption == /\ PickupLimit \in Nat \ {0} /\ RecoveryLimit \in Nat \ {0}
                          /\ MaxEdits \in Nat /\ MaxFaults \in Nat

VARIABLES board,     \* task-board.json: the cards by their ids, or Torn
          tracker,   \* the ids under "Active Tasks" in active-tasks.md
          up,        \* the dashboard runs
          work,      \* work[a]: the cards a was handed and has not reported on
          used,      \* ids ever given to a card
          moved,     \* history: the cards a client gave another owner
          stray,     \* history: cards that ran, at some time, with nobody to report on them
          lost,      \* history: running cards that the last, failed write left out of the tracker
          edits, faults

vars == <<board, tracker, up, work, used, moved, stray, lost, edits, faults>>

Boards == UNION {[S -> Card] : S \in SUBSET Ids}

TypeOK ==
  /\ board \in {Torn} \cup Boards
  /\ tracker \subseteq used /\ used \subseteq Ids /\ moved \cup stray \cup lost \subseteq used
  /\ board # Torn => DOMAIN board \subseteq used
  /\ up \in BOOLEAN /\ work \in [Agents -> SUBSET used]
  /\ edits \in 0..MaxEdits /\ faults \in 0..MaxFaults

TRANSITIONS ==
  [backlog |-> {"queued", "blocked", "review", "done"},
   queued  |-> {"running", "blocked", "backlog", "done"},
   running |-> {"review", "blocked", "done", "failed"},
   blocked |-> {"queued", "running", "review", "done"},
   review  |-> {"running", "done", "blocked"},
   done    |-> {"backlog"},
   failed  |-> {"backlog", "queued", "blocked"}]

\* Mutant: the target alone is looked at.
AnyTransition(from, to) == to \in Status

isValidTransition(from, to) == to \in TRANSITIONS[from]

-----------------------------------------------------------------------------
(* The files *)

\* A file that cannot be parsed is an empty board.
tasks == IF board = Torn THEN [c \in {} |-> 0] ELSE board

\* Mutant: the tracker keeps what waits, not what runs.
WaitingCards(b) == {c \in DOMAIN b : b[c].status \in {"queued", "blocked", "review"}}

activeCards(b) == {c \in DOMAIN b : b[c].status \in {"running", "queued", "blocked", "review"}}

Running(b) == {c \in DOMAIN b : b[c].status = "running"}

Fault == faults < MaxFaults /\ faults' = faults + 1

\* The board's file is left as it was or cut short: by a crash, or by an error
\* that the caller catches (the server answers 500, startup goes on).
BoardFails == Fault /\ board' \in {board, Torn} /\ up' \in BOOLEAN /\ UNCHANGED <<tracker, lost>>

SaveTasks(b) ==   \* the board alone
  \/ board' = b /\ up' = TRUE /\ UNCHANGED <<tracker, lost, faults>>
  \/ BoardFails

\* The board is saved and the tracker's write fails: a crash cuts it, or the
\* error is dropped.  A tracker that is cut short is read as far as it goes.
TrackerFails(b) ==
  /\ Fault /\ board' = b /\ up' \in BOOLEAN
  /\ tracker' \in {tracker} \cup SUBSET activeCards(b)
  /\ lost' = IF tracker' = {} THEN {} ELSE Running(b) \ tracker'

\* saveTasksWithActiveTracker: the board, then the tracker.
Save(b) ==
  \/ board' = b /\ tracker' = activeCards(b) /\ up' = TRUE /\ lost' = {} /\ UNCHANGED faults
  \/ BoardFails
  \/ TrackerFails(b)

-----------------------------------------------------------------------------
(* Clients *)

Edit == up /\ edits < MaxEdits /\ edits' = edits + 1
With(b, cards) == [c \in DOMAIN b \cup DOMAIN cards |-> IF c \in DOMAIN cards THEN cards[c] ELSE b[c]]
Without(b, S) == [c \in DOMAIN b \ S |-> b[c]]
Set(b, S, status) == [c \in DOMAIN b |-> IF c \in S THEN [b[c] EXCEPT !.status = status] ELSE b[c]]

Create(c, status, owner, deps) ==
  /\ Edit /\ c \notin used /\ used' = used \cup {c}
  /\ Save(With(tasks, [x \in {c} |-> [status |-> status, owner |-> owner, dependencies |-> deps]]))
  /\ stray' = IF status = "running" THEN stray \cup {c} ELSE stray
  /\ UNCHANGED <<work, moved>>

\* instantiatePipelineFromTemplate, for a template of two stages.
CreatePipeline(c, d, first, second) ==
  /\ Edit /\ c # d /\ {c, d} \cap used = {} /\ used' = used \cup {c, d}
  /\ Save(With(tasks, [x \in {c, d} |->
       IF x = c THEN [status |-> "queued", owner |-> first, dependencies |-> {}]
                ELSE [status |-> "backlog", owner |-> second, dependencies |-> {c}]]))
  /\ UNCHANGED <<work, moved, stray>>

\* LivingFileEngine.enqueueTaskForTrigger writes the board and not the tracker.
enqueueTaskForTrigger(c, a) ==
  /\ Edit /\ c \notin used /\ used' = used \cup {c}
  /\ SaveTasks(With(tasks, [x \in {c} |->
       [status |-> "queued", dependencies |-> {},
        owner |-> [agentId |-> a, assigneeType |-> "agent", assigneeId |-> a]]]))
  /\ UNCHANGED <<work, moved, stray>>

PatchStatus(c, status) ==
  /\ Edit /\ c \in DOMAIN tasks /\ isValidTransition(tasks[c].status, status)
  /\ Save(Set(tasks, {c}, status))
  /\ stray' = IF status = "running" THEN stray \cup {c} ELSE stray
  /\ UNCHANGED <<work, used, moved>>

PatchOwner(c, owner) ==
  /\ Edit /\ c \in DOMAIN tasks
  /\ Save([tasks EXCEPT ![c].owner = owner])
  /\ moved' = moved \cup {c}
  /\ UNCHANGED <<work, used, stray>>

PatchDependencies(c, deps) ==
  /\ Edit /\ c \in DOMAIN tasks
  /\ Save([tasks EXCEPT ![c].dependencies = deps])
  /\ UNCHANGED <<work, used, moved, stray>>

Delete(c) ==
  /\ Edit /\ c \in DOMAIN tasks
  /\ Save(Without(tasks, {c}))
  /\ UNCHANGED <<work, used, moved, stray>>

Retry(c) ==
  /\ Edit /\ c \in DOMAIN tasks /\ tasks[c].status = "failed"
  /\ Save(Set(tasks, {c}, "queued"))
  /\ UNCHANGED <<work, used, moved, stray>>

\* A batch does what it can: cards it cannot move are reported and left alone.
BatchTransition(S, status) ==
  /\ Edit /\ S # {}
  /\ Save(Set(tasks, {c \in S \cap DOMAIN tasks : isValidTransition(tasks[c].status, status)}, status))
  /\ stray' = IF status = "running" THEN stray \cup S ELSE stray
  /\ UNCHANGED <<work, used, moved>>

BatchArchive(S) ==
  LET gone == {c \in S \cap DOMAIN tasks : tasks[c].status \in {"done", "failed"}}
  IN /\ Edit /\ gone # {}
     /\ Save(Without(tasks, gone))
     /\ UNCHANGED <<work, used, moved, stray>>

-----------------------------------------------------------------------------
(* Workers *)

OwnedBy(o, a) == o.agentId = a \/ (o.assigneeType = "agent" /\ o.assigneeId = a)

canRunByDependency(c) == \A d \in tasks[c].dependencies : d \in DOMAIN tasks /\ tasks[d].status = "done"

\* Mutant: whoever asks gets the card.
AvailableToAll(a) ==
  {c \in DOMAIN tasks : /\ tasks[c].status = "queued" /\ tasks[c].owner.assigneeType = "agent"
                        /\ canRunByDependency(c)}

available(a) ==
  {c \in DOMAIN tasks :
     /\ tasks[c].status = "queued"
     /\ tasks[c].owner.assigneeType = "agent"
     /\ tasks[c].owner.agentId \in {None, a} /\ tasks[c].owner.assigneeId \in {None, a}
     /\ canRunByDependency(c)}

\* Mutant: a card that waits for a review or an answer counts as running.
UnfinishedOf(a) == {c \in DOMAIN tasks : /\ tasks[c].status \in {"running", "blocked", "review"}
                                        /\ OwnedBy(tasks[c].owner, a)}

RunningOf(a) == {c \in DOMAIN tasks : tasks[c].status = "running" /\ OwnedBy(tasks[c].owner, a)}

\* The worker has its cards once they are saved; whether it learns of them is
\* another matter (Vanish).
Pickup(a, allowParallel, limit) ==
  /\ up /\ (allowParallel \/ RunningOf(a) = {})
  /\ \E picked \in SUBSET available(a) :
       LET b == [c \in DOMAIN tasks |->
                  IF c \in picked
                    THEN [tasks[c] EXCEPT !.status = "running",
                                          !.owner = [agentId |-> a, assigneeType |-> "agent", assigneeId |-> a]]
                    ELSE tasks[c]]
       IN /\ picked # {}
          /\ Cardinality(picked) = limit \/ (picked = available(a) /\ Cardinality(picked) < limit)
          /\ Save(b)
          /\ IF up' /\ board' = b
               THEN work' = [work EXCEPT ![a] = @ \cup picked] /\ stray' = stray \ picked
               ELSE UNCHANGED <<work, stray>>
  /\ UNCHANGED <<used, moved, edits>>

\* A worker reports with a PATCH.  It is done with the card even if the card is
\* gone, was moved where the report does not apply, or could not be saved.
Report(a, c, status) ==
  /\ up /\ c \in work[a]
  /\ work' = [work EXCEPT ![a] = @ \ {c}]
  /\ IF c \in DOMAIN tasks /\ isValidTransition(tasks[c].status, status)
       THEN Save(Set(tasks, {c}, status))
       ELSE UNCHANGED <<board, tracker, up, lost, faults>>
  /\ stray' = IF up' /\ c \in Running(tasks') THEN stray \cup {c} ELSE stray
  /\ UNCHANGED <<used, moved, edits>>

\* The answer to a pickup does not arrive, the worker dies or hangs, or its
\* report is lost: nobody will report on these cards, and the dashboard, which
\* waits for no worker, does not notice.
Vanish(a) ==
  /\ Fault
  /\ \E S \in SUBSET work[a] :
       S # {} /\ work' = [work EXCEPT ![a] = @ \ S] /\ stray' = stray \cup S
  /\ UNCHANGED <<board, tracker, up, used, moved, lost, edits>>

-----------------------------------------------------------------------------
(* Crash and recovery *)

\* The running cards the tracker knows of; all of them when it is empty.
Resumable(S) ==
  {c \in DOMAIN tasks : tasks[c].status = "running" /\ (S = {} \/ c \in S)}

\* What resumeRunningTasksFromSnapshot may re-queue, for all agents or for one.
ResumeChoices(mine) ==
  {R \in SUBSET (Resumable(tracker) \cap mine) :
     \/ Cardinality(R) = RecoveryLimit
     \/ R = Resumable(tracker) \cap mine /\ Cardinality(R) < RecoveryLimit}

Resume(a) ==   \* POST /recovery/resume, which any client may call at any time
  LET mine == {c \in DOMAIN tasks : a \in {None, tasks[c].owner.agentId, tasks[c].owner.assigneeId}}
  IN /\ Edit
     /\ \E R \in ResumeChoices(mine) : R # {} /\ Save(Set(tasks, R, "queued"))
     /\ stray' = stray \cap Running(tasks')
     /\ UNCHANGED <<work, used, moved>>

Crash ==
  /\ up /\ Fault /\ up' = FALSE
  /\ UNCHANGED <<board, tracker, work, used, moved, stray, lost, edits>>

\* The server starts; recovery is part of it, and an error of the recovery's
\* save does not keep the server from starting.  Cards that recovery looked for
\* and left running, or could not find, may have nobody to report on them.
StartUp ==
  /\ ~up
  /\ \E R \in ResumeChoices(Ids) :
       IF R = {} THEN up' = TRUE /\ UNCHANGED <<board, tracker, lost, faults>>
       ELSE Save(Set(tasks, R, "queued"))
  /\ stray' = (stray \cup lost \cup Resumable(tracker)) \cap Running(tasks')
  /\ UNCHANGED <<work, used, moved, edits>>

Recovery == StartUp \/ \E a \in Agents \cup {None} : Resume(a)

-----------------------------------------------------------------------------
Init ==
  /\ board = [c \in {} |-> 0] /\ tracker = {} /\ up = TRUE
  /\ work = [a \in Agents |-> {}] /\ used = {} /\ moved = {}
  /\ stray = {} /\ lost = {} /\ edits = 0 /\ faults = 0

Client ==
  \/ \E c \in Ids, s \in NewStatuses, o \in Owners, d \in SUBSET DOMAIN tasks : Create(c, s, o, d)
  \/ \E c, d \in Ids, o, p \in Owners : CreatePipeline(c, d, o, p)
  \/ \E c \in Ids, a \in Agents : enqueueTaskForTrigger(c, a)
  \/ \E c \in Ids : Delete(c) \/ Retry(c)
  \/ \E c \in Ids, s \in Status : PatchStatus(c, s)
  \/ \E c \in Ids, o \in Owners : PatchOwner(c, o)
  \/ \E c \in Ids, d \in SUBSET used : PatchDependencies(c, d)
  \/ \E S \in SUBSET used, s \in Status : BatchTransition(S, s)
  \/ \E S \in SUBSET used : BatchArchive(S)
  \/ \E a \in Agents \cup {None} : Resume(a)

Worker(a) == \/ Vanish(a)
             \/ \E p \in BOOLEAN, n \in 1..PickupLimit : Pickup(a, p, n)
             \/ \E c \in Ids, s \in {"review", "blocked", "done", "failed"} : Report(a, c, s)

Next == Client \/ (\E a \in Agents : Worker(a)) \/ Crash \/ StartUp
Spec == Init /\ [][Next]_vars

\* A dashboard that is down is started again; workers keep sending heartbeats,
\* and what has not vanished is reported on.
FairSpec ==
  /\ Spec /\ WF_vars(StartUp)
  /\ \A a \in Agents :
       /\ WF_vars(Pickup(a, FALSE, 1))
       /\ WF_vars(\E c \in Ids : Report(a, c, "done") \/ Report(a, c, "failed"))

-----------------------------------------------------------------------------
(* Properties *)

\* The state is well typed, and a card stays with the worker it was handed to:
\* re-queued by a recovery or a retry, while the first worker may still be busy
\* with it, it is not handed to another, unless a client gave it another owner.
NoTwoWorkers == TypeOK /\ \A c \in Ids \ moved : Cardinality({a \in Agents : c \in work[a]}) <= 1

Requeued == {c \in DOMAIN tasks \cap DOMAIN tasks' : tasks[c].status = "running" /\ tasks'[c].status = "queued"}

\* When the dashboard has started, recovery has re-queued every card that was
\* running, but for those that a failed write had left out of the tracker;
\* otherwise it re-queued as many as its limit, or its own write of the board
\* failed and left the board as it was.
RestartRequeues ==
  [][~up /\ up' => \/ Running(tasks') \subseteq lost
                   \/ Cardinality(Requeued) = RecoveryLimit
                   \/ board' = board /\ faults' = faults + 1]_vars

\* Whatever order of requests, batches, reports, recoveries and faults, a card
\* moves along the diagram; only a recovery takes it from running to queued.
FollowsDiagram ==
  [][\A c \in DOMAIN tasks \cap DOMAIN tasks' :
       \/ tasks[c].status = tasks'[c].status
       \/ tasks'[c].status \in TRANSITIONS[tasks[c].status]
       \/ tasks[c].status = "running" /\ tasks'[c].status = "queued" /\ Recovery]_vars

\* No card waits for ever for a worker that may have it, unless the worker is
\* held up by a stray card: one that runs on the board with nobody to report on
\* it, because a client set it running, an answer or a report was lost, its
\* worker died, or the last recovery failed, was cut by its limit or did not
\* find it in the tracker.  A recovery that works takes the cards it re-queues
\* out of this set, so a restart or a resume frees the worker.
EveryQueuedRuns ==
  \A a \in Agents, c \in Ids : ~<>[](c \in available(a) /\ RunningOf(a) \cap stray = {})
=============================================================================
