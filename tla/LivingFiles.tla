----------------------------- MODULE LivingFiles -----------------------------
(***************************************************************************)
(* The living-files engine (dashboard/server/living-files.ts, requests in  *)
(* routes/living-files.ts): a registry of files with an owner and an       *)
(* expected cadence, staleness checks run by a timer or by a request,      *)
(* triggers for stale files, and the cards they put on the task board.     *)
(*                                                                         *)
(* A request and a check run without an await, so that they do not         *)
(* interleave; a crash or a failing write can cut them.  A check saves the *)
(* board once per new card and the engine's own store at the end, both in  *)
(* place.  Either file, cut short, is read as empty by whoever reads it    *)
(* next.  The engine exists from the first request after a start.  Notes,  *)
(* reasons, times and the log of check runs are left out.  Of a card only  *)
(* what the engine looks at is kept; TaskBoard models the rest.            *)
(***************************************************************************)
EXTENDS Integers, FiniteSets, Sequences, SequencesExt

CONSTANTS Paths, Agents,
          Ages,              \* hours since a file was written
          Hours,             \* cadences clients ask for
          NewFiles,          \* what clients register: [filePath, ownerAgentId, ...]
          Missing,           \* the age of a file that is not there
          MAX_TRIGGER_HISTORY,
          MaxFiles, MaxEdits, MaxFaults   \* bounds

ASSUME AgeAssumption == Ages \subseteq Nat /\ Missing \notin Ages /\ Hours \subseteq Nat \ {0}
ASSUME InputAssumption ==
  NewFiles \subseteq [filePath : Paths, ownerAgentId : Agents,
                      expectedUpdateHours : Hours, intentionallyStatic : BOOLEAN]
ASSUME BoundAssumption == /\ MaxFiles \in Nat /\ MaxEdits \in Nat /\ MaxFaults \in Nat
                          /\ MAX_TRIGGER_HISTORY \in Nat \ {0}

VARIABLES age,       \* age[p]: of the file itself
          loaded,    \* the engine exists
          store,     \* its memory
          disk,      \* living-files.json
          board,     \* task-board.json: the cards of the engine, by id
          files, made,       \* file and trigger ids given out
          boarded,   \* history: cards that were on a saved board
          touched,   \* history: cards reopened or given to another agent
          ended,     \* history: cards finished, removed, given away or lost with the board
          edits, faults

vars == <<age, loaded, store, disk, board, files, made, boarded, touched, ended, edits, faults>>

Entry == [fileId : 1..MaxFiles, filePath : Paths, ownerAgentId : Agents,
          expectedUpdateHours : Hours, intentionallyStatic : BOOLEAN]
TriggerStatus == {"queued", "acknowledged", "resolved"}
Card == [filePath : Paths, assigneeId : Agents, open : BOOLEAN]
EmptyStore == [files |-> <<>>, triggers |-> <<>>]
NoCards == [c \in {} |-> 0]

isOpenTriggerStatus(s) == s \in {"queued", "acknowledged"}
OpenOf(s, f) == {i \in DOMAIN s.triggers : /\ s.triggers[i].fileId = f
                                           /\ isOpenTriggerStatus(s.triggers[i].status)}
-----------------------------------------------------------------------------
(* Files *)

evaluateSnapshot(e) ==
  LET a == age[e.filePath]
  IN CASE e.intentionallyStatic -> "static"
       [] ~e.intentionallyStatic /\ a = Missing -> "missing"
       [] OTHER -> IF a <= e.expectedUpdateHours THEN "fresh"
                   ELSE IF 4 * a <= 5 * e.expectedUpdateHours THEN "warning" ELSE "stale"

Unhealthy(e) == evaluateSnapshot(e) \in {"stale", "missing"}

FileChanges(p, a) ==   \* somebody writes or removes the file, or time passes
  /\ edits < MaxEdits /\ edits' = edits + 1
  /\ a # age[p] /\ age' = [age EXCEPT ![p] = a]
  /\ UNCHANGED <<loaded, store, disk, board, files, made, boarded, touched, ended, faults>>

-----------------------------------------------------------------------------
(* Requests *)

\* persist, at the end of every handler.  A crash in it leaves half a file; when
\* it throws, the handler fails with the file as it was or half written, and the
\* server goes on with what it has in memory.
Persist(s) ==
  \/ store' = s /\ disk' = s /\ UNCHANGED <<loaded, faults>>
  \/ /\ faults < MaxFaults /\ faults' = faults + 1
     /\ \/ store' = EmptyStore /\ disk' = EmptyStore /\ loaded' = FALSE
        \/ store' = s /\ disk' \in {disk, EmptyStore} /\ UNCHANGED loaded

Request == loaded /\ edits < MaxEdits /\ edits' = edits + 1
NoTask  == UNCHANGED <<age, board, made, boarded, touched, ended>>

registerFile(f) ==
  LET new(id) == [fileId |-> id, filePath |-> f.filePath, ownerAgentId |-> f.ownerAgentId,
                  expectedUpdateHours |-> f.expectedUpdateHours,
                  intentionallyStatic |-> f.intentionallyStatic]
      same == {i \in DOMAIN store.files : store.files[i].filePath = f.filePath}
  IN /\ Request /\ NoTask
     /\ \/ \E i \in same : Persist([store EXCEPT !.files[i] = new(@.fileId)]) /\ UNCHANGED files
        \/ /\ same = {} /\ files < MaxFiles /\ files' = files + 1
           /\ Persist([store EXCEPT !.files = Append(@, new(files + 1))])

\* A patch of one field; a patch of several is several in a row.
Patched(e) == {[e EXCEPT !.ownerAgentId = a] : a \in Agents}
              \cup {[e EXCEPT !.expectedUpdateHours = h] : h \in Hours}
              \cup {[e EXCEPT !.intentionallyStatic = s] : s \in BOOLEAN}

updateFile(i, new) ==
  /\ Request /\ NoTask /\ UNCHANGED files
  /\ Persist([store EXCEPT !.files[i] = new])

unregisterFile(i) ==
  /\ Request /\ NoTask /\ UNCHANGED files
  /\ Persist([store EXCEPT !.files = RemoveAt(@, i)])

acknowledgeTrigger(i) ==
  /\ Request /\ NoTask /\ UNCHANGED files
  /\ store.triggers[i].status = "queued"
  /\ Persist([store EXCEPT !.triggers[i].status = "acknowledged"])

resolveTrigger(i) ==
  /\ Request /\ NoTask /\ UNCHANGED files
  /\ store.triggers[i].status # "resolved"
  /\ Persist([store EXCEPT !.triggers[i].status = "resolved"])

-----------------------------------------------------------------------------
(* Staleness checks.  An accumulator [triggers, board, made] goes through the
   registered files in order. *)

resolveOpenTriggersForFile(ts, f) ==
  [i \in DOMAIN ts |-> IF ts[i].fileId = f /\ isOpenTriggerStatus(ts[i].status)
                         THEN [ts[i] EXCEPT !.status = "resolved"] ELSE ts[i]]

\* Mutant: every trigger gets a card of its own.
NoneExisting(b, e) == {}

openExisting(b, e) ==
  {c \in DOMAIN b : b[c].open /\ b[c].filePath = e.filePath /\ b[c].assigneeId = e.ownerAgentId}

enqueueTaskForTrigger(b, e, id) ==
  [task  |-> IF openExisting(b, e) = {} THEN id
                              ELSE CHOOSE c \in openExisting(b, e) : \A d \in openExisting(b, e) : c <= d,
   board |-> IF openExisting(b, e) # {} THEN b
             ELSE [c \in DOMAIN b \cup {id} |->
                     IF c = id THEN [filePath |-> e.filePath, assigneeId |-> e.ownerAgentId, open |-> TRUE]
                     ELSE b[c]]]

Trimmed(ts) == IF Len(ts) > MAX_TRIGGER_HISTORY
                 THEN SubSeq(ts, Len(ts) - MAX_TRIGGER_HISTORY + 1, Len(ts)) ELSE ts

createTrigger(acc, e) ==
  LET id == acc.made + 1
      q  == enqueueTaskForTrigger(acc.board, e, id)
      t  == [triggerId |-> id, fileId |-> e.fileId, ownerAgentId |-> e.ownerAgentId,
             status |-> "queued", taskId |-> q.task]
  IN [triggers |-> Trimmed(Append(acc.triggers, t)), board |-> q.board, made |-> id]

\* Mutants: an acknowledged trigger does not count, or a resolved one does.
HasQueued(acc, e) == \E i \in DOMAIN acc.triggers : /\ acc.triggers[i].fileId = e.fileId
                                                   /\ acc.triggers[i].status = "queued"
HasAny(acc, e) == \E i \in DOMAIN acc.triggers : acc.triggers[i].fileId = e.fileId

HasOpen(acc, e) == \E i \in DOMAIN acc.triggers : /\ acc.triggers[i].fileId = e.fileId
                                                 /\ isOpenTriggerStatus(acc.triggers[i].status)

Checked(acc, e) ==
  IF ~Unhealthy(e) THEN [acc EXCEPT !.triggers = resolveOpenTriggersForFile(@, e.fileId)]
  ELSE IF HasOpen(acc, e) THEN acc
  ELSE createTrigger(acc, e)

After(n) ==
  LET run[k \in 0..n] ==
        IF k = 0 THEN [triggers |-> store.triggers, board |-> board, made |-> made]
        ELSE Checked(run[k - 1], store.files[k])
  IN run[n]

SavesBoard(acc) == /\ board' = acc.board /\ made' = acc.made
                   /\ boarded' = boarded \cup DOMAIN acc.board

\* runStalenessCheck with autoTrigger.
CheckCompletes ==
  LET acc == After(Len(store.files))
  IN /\ loaded
     /\ SavesBoard(acc) /\ Persist([store EXCEPT !.triggers = acc.triggers])
     /\ UNCHANGED <<age, files, touched, ended, edits>>

\* A board that cannot be opened for writing, or a file gone between existsSync
\* and statSync, throws: the server goes on with what was done in memory.
CheckThrows(n) ==
  LET acc == After(n)
  IN /\ loaded /\ n < Len(store.files) /\ faults < MaxFaults /\ faults' = faults + 1
     /\ SavesBoard(acc) /\ store' = [store EXCEPT !.triggers = acc.triggers]
     /\ UNCHANGED <<age, loaded, disk, files, touched, ended, edits>>

Down == faults < MaxFaults /\ faults' = faults + 1 /\ loaded' = FALSE /\ store' = EmptyStore
BoardLost(b) == /\ board' = NoCards /\ ended' = ended \cup DOMAIN b
                /\ boarded' = boarded \cup DOMAIN b

\* Mutant: the store is persisted before the board.
CrashesStoreFirst(n) ==
  LET acc == After(n)
  IN /\ loaded /\ Down /\ disk' = [store EXCEPT !.triggers = acc.triggers] /\ made' = acc.made
     /\ UNCHANGED <<age, board, boarded, files, touched, ended, edits>>

\* The process dies after n files, or while it saves the board for one.
CheckCrashes(n) ==
  LET acc == After(n)
  IN /\ loaded /\ Down
     /\ \/ SavesBoard(acc) /\ UNCHANGED ended
        \/ BoardLost(acc.board) /\ made' = acc.made
     /\ UNCHANGED <<age, disk, files, touched, edits>>

\* A check without autoTrigger only notes what it saw and persists.
CheckOnly == loaded /\ NoTask /\ UNCHANGED <<files, edits>> /\ Persist(store)

-----------------------------------------------------------------------------
(* The rest of the dashboard *)

BoardRequest == edits < MaxEdits /\ edits' = edits + 1
                /\ UNCHANGED <<age, loaded, store, disk, files, made, boarded, faults>>

CardFinished(c) ==
  /\ BoardRequest /\ board[c].open /\ board' = [board EXCEPT ![c].open = FALSE]
  /\ ended' = ended \cup {c} /\ UNCHANGED touched

CardReopened(c) ==
  /\ BoardRequest /\ ~board[c].open /\ board' = [board EXCEPT ![c].open = TRUE]
  /\ touched' = touched \cup {c} /\ UNCHANGED ended

CardMoves(c, a) ==
  /\ BoardRequest /\ board[c].assigneeId # a /\ board' = [board EXCEPT ![c].assigneeId = a]
  /\ touched' = touched \cup {c} /\ ended' = ended \cup {c}

CardRemoved(c) ==
  /\ BoardRequest /\ board' = [d \in DOMAIN board \ {c} |-> board[d]]
  /\ ended' = ended \cup {c} /\ UNCHANGED touched

\* The process dies elsewhere, perhaps in a save of the board.
Crash ==
  /\ Down
  /\ UNCHANGED <<board, boarded, ended>> \/ BoardLost(board)
  /\ UNCHANGED <<age, disk, files, made, touched, edits>>

\* getLivingFileEngine, at the first request after a start.
Load ==
  /\ ~loaded /\ loaded' = TRUE /\ store' = disk
  /\ UNCHANGED <<disk, files, edits, faults>> /\ NoTask

-----------------------------------------------------------------------------
Init ==
  /\ age \in [Paths -> Ages \cup {Missing}]
  /\ loaded = FALSE /\ store = EmptyStore /\ disk = EmptyStore /\ board = NoCards
  /\ files = 0 /\ made = 0 /\ boarded = {} /\ touched = {} /\ ended = {} /\ edits = 0 /\ faults = 0

Requests ==
  \/ \E f \in NewFiles : registerFile(f)
  \/ \E i \in DOMAIN store.files : unregisterFile(i)
  \/ \E i \in DOMAIN store.files : \E new \in Patched(store.files[i]) : updateFile(i, new)
  \/ \E i \in DOMAIN store.triggers : acknowledgeTrigger(i) \/ resolveTrigger(i)
  \/ CheckOnly

Others ==
  \/ \E p \in Paths, a \in Ages \cup {Missing} : FileChanges(p, a)
  \/ \E c \in DOMAIN board : CardFinished(c) \/ CardReopened(c) \/ CardRemoved(c)
  \/ \E c \in DOMAIN board, a \in Agents : CardMoves(c, a)

Check == CheckCompletes \/ \E n \in 0..Len(store.files) : CheckThrows(n) \/ CheckCrashes(n)
Next == Requests \/ Others \/ Check \/ Crash \/ Load
Spec == Init /\ [][Next]_vars

\* Requests keep coming, so that the engine is loaded, and its timer keeps firing.
FairSpec == Spec /\ WF_vars(Load) /\ WF_vars(CheckCompletes)

-----------------------------------------------------------------------------
(* Properties *)

StoreOK(s) ==
  /\ s.files \in Seq(Entry) /\ Len(s.triggers) <= MAX_TRIGGER_HISTORY
  /\ \A i \in DOMAIN s.files : s.files[i].fileId <= files
  /\ \A i \in DOMAIN s.triggers :
       /\ s.triggers[i].triggerId \in 1..made /\ s.triggers[i].status \in TriggerStatus
       /\ s.triggers[i].taskId \in 1..made

TypeOK ==
  /\ age \in [Paths -> Ages \cup {Missing}] /\ loaded \in BOOLEAN
  /\ StoreOK(store) /\ StoreOK(disk)
  /\ DOMAIN board \subseteq 1..made /\ \A c \in DOMAIN board : board[c] \in Card
  /\ files \in 0..MaxFiles /\ boarded \cup touched \cup ended \subseteq 1..made
  /\ edits \in 0..MaxEdits /\ faults \in 0..MaxFaults

\* The state is well typed (the history keeps within its limit), and a file has at
\* most one open trigger, in memory and on disk, whatever is registered again,
\* resolved, trimmed from the history or read back.
OneOpenTrigger ==
  TypeOK /\ \A s \in {store, disk}, f \in 1..MaxFiles : Cardinality(OpenOf(s, f)) <= 1

\* However often a check is repeated after it was cut, the engine never puts a
\* second open card for a file on its owner's list: the card saved before the
\* crash is found again.  Cards reopened or reassigned by hand are excepted.
NoDuplicateCards ==
  \A p \in Paths, a \in Agents :
    Cardinality({c \in DOMAIN board \ touched :
                   board[c].open /\ board[c].filePath = p /\ board[c].assigneeId = a}) <= 1

\* A trigger on disk names a card that had been saved before it: no crash leaves
\* a trigger that waits for a card nobody was given.
TriggerHadCard == \A i \in DOMAIN disk.triggers : disk.triggers[i].taskId \in boarded

Registered(f) == {e \in Range(store.files) : e.fileId = f}

\* An open trigger of the file has its card waiting on the board, or that card was
\* finished, removed or lost with the board.
Assigned(f) ==
  \E i \in OpenOf(store, f) :
    LET c == store.triggers[i].taskId
    IN c \in ended \/ (c \in DOMAIN board /\ board[c].open)

\* Triggers catch up with the files, again and again: a registered file that is
\* stale or missing has a trigger and its card, a healthy one has no open trigger.
TriggersCatchUp ==
  \A f \in 1..MaxFiles :
    []<>(\A e \in Registered(f) : IF Unhealthy(e) THEN Assigned(f) ELSE OpenOf(store, f) = {})
=============================================================================
