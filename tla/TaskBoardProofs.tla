-------------------------- MODULE TaskBoardProofs --------------------------
(***************************************************************************)
(* No card has two workers, every card follows the diagram, and a restart  *)
(* re-queues what was interrupted, for any cards, workers, owners and      *)
(* number of crashes, failed writes and lost answers.                      *)
(***************************************************************************)
EXTENDS TaskBoard, FiniteSetTheorems, TLAPS

Mine(a) == [agentId |-> a, assigneeType |-> "agent", assigneeId |-> a]

\* A worker that holds a card owns it on the board, unless a client moved the card.
HolderOwns == \A a \in Agents : \A c \in work[a] \ moved : c \in DOMAIN tasks => tasks[c].owner = Mine(a)

OneHolder == \A a, b \in Agents : \A c \in Ids \ moved : c \in work[a] /\ c \in work[b] => a = b

\* A tracker that is not empty knows every running card, but for those a failed write left out.
Tracked == \A c \in DOMAIN tasks \ lost : tasks[c].status = "running" /\ tracker # {} => c \in tracker

IndInv == TypeOK /\ HolderOwns /\ OneHolder /\ Tracked

-----------------------------------------------------------------------------
(* Boards *)

LEMMA BoardIntro ==
  ASSUME NEW S \in SUBSET Ids, NEW b \in [S -> Card]
  PROVE  b \in Boards
BY DEF Boards

LEMMA BoardElim ==
  ASSUME NEW b \in Boards
  PROVE  DOMAIN b \in SUBSET Ids /\ b \in [DOMAIN b -> Card]
BY DEF Boards

LEMMA CardFields ==
  ASSUME NEW card \in Card
  PROVE  card.status \in Status /\ card.owner \in Owner /\ card.dependencies \in SUBSET Ids
BY DEF Card

\* What a handler loads is a board of cards that were created once.
LEMMA Loaded ==
  ASSUME TypeOK
  PROVE  /\ tasks \in Boards /\ DOMAIN tasks \subseteq used /\ DOMAIN tasks \subseteq Ids
         /\ \A c \in DOMAIN tasks : tasks[c] \in Card
<1>1. CASE board = Torn
  <2>1. tasks = [c \in {} |-> 0] /\ DOMAIN tasks = {}
    BY <1>1 DEF tasks
  <2>2. tasks \in [{} -> Card]
    BY <2>1
  <2> QED
    BY <2>1, <2>2, BoardIntro
<1>2. CASE board # Torn
  BY <1>2, BoardElim DEF TypeOK, tasks
<1> QED
  BY <1>1, <1>2

-----------------------------------------------------------------------------
(* What a request may make of the board *)

MovesAlong(from, to) ==
  from = to \/ to \in TRANSITIONS[from] \/ (from = "running" /\ to = "queued" /\ Recovery)

\* New cards have new ids; a card moves along the diagram, and has a new owner only if
\* a client moved it or a worker that may have it picked it up.
Legal(b) ==
  /\ b \in Boards /\ DOMAIN b \subseteq used'
  /\ \A c \in DOMAIN b \ DOMAIN tasks : c \notin used
  /\ \A c \in DOMAIN b \cap DOMAIN tasks :
       /\ MovesAlong(tasks[c].status, b[c].status)
       /\ \/ b[c].owner = tasks[c].owner
          \/ c \in moved'
          \/ \E a \in Agents : c \in available(a) /\ b[c].owner = Mine(a)

\* A save of the board alone is of one whose running cards were on the board before.
Saved(b) == \/ Save(b)
            \/ SaveTasks(b) /\ \A c \in DOMAIN b : b[c].status = "running" => c \in DOMAIN tasks /\ tasks[c] = b[c]

FilesKept == UNCHANGED <<board, tracker, lost>> /\ up' \in BOOLEAN /\ faults' \in 0..MaxFaults

\* What every step does to the rest.
Counts == /\ used \subseteq used' /\ used' \subseteq Ids /\ moved \subseteq moved'
          /\ moved' \cup stray' \subseteq used' /\ edits' \in 0..MaxEdits

LEMMA EditCounts ==
  ASSUME TypeOK, Edit
  PROVE  edits' \in 0..MaxEdits
BY LimitAssumption DEF TypeOK, Edit

\* A board in which the cards of S have another status, all of them legally.
LEMMA SetLegal ==
  ASSUME TypeOK, used \subseteq used', NEW S, NEW s \in Status,
         \A c \in S \cap DOMAIN tasks : MovesAlong(tasks[c].status, s)
  PROVE  Legal(Set(tasks, S, s))
<1> DEFINE b == Set(tasks, S, s)
<1>1. /\ tasks \in Boards /\ DOMAIN tasks \subseteq used /\ DOMAIN tasks \subseteq Ids
      /\ \A c \in DOMAIN tasks : tasks[c] \in Card
  BY Loaded
<1> HIDE DEF tasks
<1>2. DOMAIN b = DOMAIN tasks
  BY DEF Set
<1>3. ASSUME NEW c \in DOMAIN tasks
      PROVE  b[c] \in Card /\ b[c].owner = tasks[c].owner /\ MovesAlong(tasks[c].status, b[c].status)
  <2>1. CASE c \in S
    <3>1. b[c] = [tasks[c] EXCEPT !.status = s]
      BY <2>1 DEF Set
    <3>2. tasks[c] \in Card
      BY <1>1
    <3>3. b[c] \in Card /\ b[c].owner = tasks[c].owner /\ b[c].status = s
      BY <3>1, <3>2 DEF Card
    <3> QED
      BY <2>1, <3>3
  <2>2. CASE c \notin S
    BY <1>1, <2>2 DEF Set, MovesAlong
  <2> QED
    BY <2>1, <2>2
<1>4. b \in [DOMAIN tasks -> Card]
  BY <1>3 DEF Set
<1>5. b \in Boards
  BY <1>1, <1>4, BoardIntro
<1> HIDE DEF b
<1> QED
  BY <1>1, <1>2, <1>3, <1>5 DEF Legal, b

LEMMA WithoutLegal ==
  ASSUME TypeOK, used \subseteq used', NEW S
  PROVE  Legal(Without(tasks, S))
<1> DEFINE b == Without(tasks, S)
<1>1. /\ tasks \in Boards /\ DOMAIN tasks \subseteq used /\ DOMAIN tasks \subseteq Ids
      /\ \A c \in DOMAIN tasks : tasks[c] \in Card
  BY Loaded
<1> HIDE DEF tasks
<1>2. DOMAIN b = DOMAIN tasks \ S /\ \A c \in DOMAIN tasks \ S : b[c] = tasks[c]
  BY DEF Without
<1>3. b \in [DOMAIN tasks \ S -> Card]
  BY <1>1 DEF Without
<1>4. b \in Boards
  BY <1>1, <1>3, BoardIntro
<1> HIDE DEF b
<1> QED
  BY <1>1, <1>2, <1>4 DEF Legal, MovesAlong, b

\* A board with new cards on it.
LEMMA WithLegal ==
  ASSUME TypeOK, used \subseteq used', used' \subseteq Ids, NEW S \in SUBSET (used' \ used), NEW cards \in [S -> Card]
  PROVE  /\ Legal(With(tasks, cards))
         /\ \A c \in DOMAIN tasks : With(tasks, cards)[c] = tasks[c]
         /\ \A c \in DOMAIN With(tasks, cards) \ DOMAIN tasks : c \in S /\ With(tasks, cards)[c] = cards[c]
<1> DEFINE b == With(tasks, cards)
<1>1. /\ tasks \in Boards /\ DOMAIN tasks \subseteq used /\ DOMAIN tasks \subseteq Ids
      /\ \A c \in DOMAIN tasks : tasks[c] \in Card
  BY Loaded
<1> HIDE DEF tasks
<1>2. /\ DOMAIN b = DOMAIN tasks \cup S
      /\ \A c \in DOMAIN b : b[c] = IF c \in S THEN cards[c] ELSE tasks[c]
  BY DEF With
<1>3. b \in [DOMAIN tasks \cup S -> Card]
  BY <1>1 DEF With
<1>4. b \in Boards
  BY <1>1, <1>3, BoardIntro
<1> HIDE DEF b
<1>5. Legal(b)
  BY <1>1, <1>2, <1>4 DEF Legal, MovesAlong
<1> QED
  BY <1>1, <1>2, <1>5 DEF b

-----------------------------------------------------------------------------
(* Every step, as a save of a legal board or none *)

LEMMA CreateSaves ==
  ASSUME TypeOK,
         \/ \E c \in Ids, s \in NewStatuses, o \in Owners, d \in SUBSET DOMAIN tasks : Create(c, s, o, d)
         \/ \E c, d \in Ids, o, p \in Owners : CreatePipeline(c, d, o, p)
         \/ \E c \in Ids, a \in Agents : enqueueTaskForTrigger(c, a)
  PROVE  Counts /\ \E b : Legal(b) /\ Saved(b)
<1>0. DOMAIN tasks \subseteq Ids
  BY Loaded
<1>1. ASSUME NEW c \in Ids, NEW s \in NewStatuses, NEW o \in Owners, NEW d \in SUBSET DOMAIN tasks,
             Create(c, s, o, d)
      PROVE  Counts /\ \E b : Legal(b) /\ Saved(b)
  <2> DEFINE cards == [x \in {c} |-> [status |-> s, owner |-> o, dependencies |-> d]]
  <2>1. cards \in [{c} -> Card]
    BY <1>0, InputAssumption DEF Card
  <2>2. Edit /\ c \notin used /\ used' = used \cup {c} /\ Save(With(tasks, cards)) /\ UNCHANGED moved
        /\ stray' \subseteq stray \cup {c}
    BY <1>1 DEF Create
  <2> HIDE DEF cards
  <2>3. used \subseteq used' /\ used' \subseteq Ids /\ {c} \in SUBSET (used' \ used)
    BY <2>2 DEF TypeOK
  <2>4. Counts
    BY <2>2, <2>3, EditCounts DEF TypeOK, Counts
  <2>5. Legal(With(tasks, cards))
    BY <2>1, <2>3, WithLegal
  <2> QED
    BY <2>2, <2>4, <2>5 DEF Saved
<1>2. ASSUME NEW c \in Ids, NEW d \in Ids, NEW o \in Owners, NEW p \in Owners, CreatePipeline(c, d, o, p)
      PROVE  Counts /\ \E b : Legal(b) /\ Saved(b)
  <2> DEFINE cards == [x \in {c, d} |->
       IF x = c THEN [status |-> "queued", owner |-> o, dependencies |-> {}]
                ELSE [status |-> "backlog", owner |-> p, dependencies |-> {c}]]
  <2>1. cards \in [{c, d} -> Card]
    BY InputAssumption DEF Card, Status
  <2>2. /\ Edit /\ {c, d} \cap used = {} /\ used' = used \cup {c, d} /\ Save(With(tasks, cards))
        /\ UNCHANGED <<moved, stray>>
    BY <1>2 DEF CreatePipeline
  <2> HIDE DEF cards
  <2>3. used \subseteq used' /\ used' \subseteq Ids /\ {c, d} \in SUBSET (used' \ used)
    BY <2>2 DEF TypeOK
  <2>4. Counts
    BY <2>2, <2>3, EditCounts DEF TypeOK, Counts
  <2>5. Legal(With(tasks, cards))
    BY <2>1, <2>3, WithLegal
  <2> QED
    BY <2>2, <2>4, <2>5 DEF Saved
<1>3. ASSUME NEW c \in Ids, NEW a \in Agents, enqueueTaskForTrigger(c, a)
      PROVE  Counts /\ \E b : Legal(b) /\ Saved(b)
  <2> DEFINE cards == [x \in {c} |-> [status |-> "queued", dependencies |-> {},
                         owner |-> [agentId |-> a, assigneeType |-> "agent", assigneeId |-> a]]]
             b == With(tasks, cards)
  <2>1. cards \in [{c} -> Card] /\ \A x \in {c} : cards[x].status = "queued"
    BY DEF Card, Status, Owner
  <2>2. Edit /\ c \notin used /\ used' = used \cup {c} /\ SaveTasks(b) /\ UNCHANGED <<moved, stray>>
    BY <1>3 DEF enqueueTaskForTrigger
  <2> HIDE DEF cards
  <2>3. used \subseteq used' /\ used' \subseteq Ids /\ {c} \in SUBSET (used' \ used)
    BY <2>2 DEF TypeOK
  <2>4. Counts
    BY <2>2, <2>3, EditCounts DEF TypeOK, Counts
  <2>5. /\ Legal(b) /\ \A x \in DOMAIN tasks : b[x] = tasks[x]
        /\ \A x \in DOMAIN b \ DOMAIN tasks : x \in {c} /\ b[x] = cards[x]
    BY <2>1, <2>3, WithLegal
  <2> HIDE DEF b
  <2>6. \A x \in DOMAIN b : b[x].status = "running" => x \in DOMAIN tasks /\ tasks[x] = b[x]
    BY <2>1, <2>5
  <2> QED
    BY <2>2, <2>4, <2>5, <2>6 DEF Saved
<1> QED
  BY <1>1, <1>2, <1>3

LEMMA PatchSaves ==
  ASSUME TypeOK, NEW c \in Ids,
         \/ Delete(c) \/ Retry(c)
         \/ \E s \in Status : PatchStatus(c, s)
         \/ \E o \in Owners : PatchOwner(c, o)
         \/ \E d \in SUBSET used : PatchDependencies(c, d)
  PROVE  Counts /\ \E b : Legal(b) /\ Saved(b)
<1>0. /\ tasks \in Boards /\ DOMAIN tasks \subseteq used /\ DOMAIN tasks \subseteq Ids
      /\ \A x \in DOMAIN tasks : tasks[x] \in Card
  BY Loaded
<1> HIDE DEF tasks
<1>1. CASE Delete(c)
  <2>1. Edit /\ Save(Without(tasks, {c})) /\ UNCHANGED <<used, moved, stray>>
    BY <1>1 DEF Delete
  <2>2. Counts
    BY <2>1, EditCounts DEF TypeOK, Counts
  <2>3. Legal(Without(tasks, {c}))
    BY <2>1, WithoutLegal
  <2> QED
    BY <2>1, <2>2, <2>3 DEF Saved
<1>2. CASE Retry(c)
  <2>1. /\ Edit /\ c \in DOMAIN tasks /\ tasks[c].status = "failed" /\ Save(Set(tasks, {c}, "queued"))
        /\ UNCHANGED <<used, moved, stray>>
    BY <1>2 DEF Retry
  <2>2. Counts
    BY <2>1, EditCounts DEF TypeOK, Counts
  <2>3. \A x \in {c} \cap DOMAIN tasks : MovesAlong(tasks[x].status, "queued")
    BY <2>1 DEF MovesAlong, TRANSITIONS
  <2>4. Legal(Set(tasks, {c}, "queued"))
    BY <2>1, <2>3, SetLegal DEF Status
  <2> QED
    BY <2>1, <2>2, <2>4 DEF Saved
<1>3. ASSUME NEW s \in Status, PatchStatus(c, s) PROVE Counts /\ \E b : Legal(b) /\ Saved(b)
  <2>1. /\ Edit /\ c \in DOMAIN tasks /\ isValidTransition(tasks[c].status, s) /\ Save(Set(tasks, {c}, s))
        /\ stray' \subseteq stray \cup {c} /\ UNCHANGED <<used, moved>>
    BY <1>3 DEF PatchStatus
  <2>2. Counts
    BY <1>0, <2>1, EditCounts DEF TypeOK, Counts
  <2>3. \A x \in {c} \cap DOMAIN tasks : MovesAlong(tasks[x].status, s)
    BY <2>1 DEF MovesAlong, isValidTransition
  <2>4. Legal(Set(tasks, {c}, s))
    BY <2>1, <2>3, SetLegal
  <2> QED
    BY <2>1, <2>2, <2>4 DEF Saved
<1>4. ASSUME NEW o \in Owners, PatchOwner(c, o) PROVE Counts /\ \E b : Legal(b) /\ Saved(b)
  <2> DEFINE b == [tasks EXCEPT ![c].owner = o]
  <2>1. /\ Edit /\ c \in DOMAIN tasks /\ Save(b) /\ moved' = moved \cup {c} /\ UNCHANGED <<used, stray>>
    BY <1>4 DEF PatchOwner
  <2>2. Counts
    BY <1>0, <2>1, EditCounts DEF TypeOK, Counts
  <2>3. [tasks[c] EXCEPT !.owner = o] \in Card /\ [tasks[c] EXCEPT !.owner = o].status = tasks[c].status
    BY <1>0, <2>1, InputAssumption DEF Card
  <2>4. /\ DOMAIN b = DOMAIN tasks /\ b[c] = [tasks[c] EXCEPT !.owner = o]
        /\ \A x \in DOMAIN tasks : x # c => b[x] = tasks[x]
    BY <1>0, <2>1
  <2>5. b \in [DOMAIN tasks -> Card]
    BY <1>0, <2>1, <2>3
  <2> HIDE DEF b
  <2>6. b \in Boards
    BY <1>0, <2>5, BoardIntro
  <2>7. Legal(b)
    BY <1>0, <2>1, <2>3, <2>4, <2>6 DEF Legal, MovesAlong
  <2> QED
    BY <2>1, <2>2, <2>7 DEF Saved
<1>5. ASSUME NEW d \in SUBSET used, PatchDependencies(c, d) PROVE Counts /\ \E b : Legal(b) /\ Saved(b)
  <2> DEFINE b == [tasks EXCEPT ![c].dependencies = d]
  <2>1. /\ Edit /\ c \in DOMAIN tasks /\ Save(b) /\ UNCHANGED <<used, moved, stray>>
    BY <1>5 DEF PatchDependencies
  <2>2. Counts
    BY <1>0, <2>1, EditCounts DEF TypeOK, Counts
  <2>3. d \in SUBSET Ids
    BY DEF TypeOK
  <2>4. /\ [tasks[c] EXCEPT !.dependencies = d] \in Card
        /\ [tasks[c] EXCEPT !.dependencies = d].status = tasks[c].status
        /\ [tasks[c] EXCEPT !.dependencies = d].owner = tasks[c].owner
    BY <1>0, <2>1, <2>3 DEF Card
  <2>5. /\ DOMAIN b = DOMAIN tasks /\ b[c] = [tasks[c] EXCEPT !.dependencies = d]
        /\ \A x \in DOMAIN tasks : x # c => b[x] = tasks[x]
    BY <1>0, <2>1
  <2>6. b \in [DOMAIN tasks -> Card]
    BY <1>0, <2>1, <2>4
  <2> HIDE DEF b
  <2>7. b \in Boards
    BY <1>0, <2>6, BoardIntro
  <2>8. Legal(b)
    BY <1>0, <2>1, <2>4, <2>5, <2>7 DEF Legal, MovesAlong
  <2> QED
    BY <2>1, <2>2, <2>8 DEF Saved
<1> QED
  BY <1>1, <1>2, <1>3, <1>4, <1>5

LEMMA BatchSaves ==
  ASSUME TypeOK,
         \/ \E S \in SUBSET used, s \in Status : BatchTransition(S, s)
         \/ \E S \in SUBSET used : BatchArchive(S)
         \/ \E a \in Agents \cup {None} : Resume(a)
  PROVE  Counts /\ \E b : Legal(b) /\ Saved(b)
<1>1. ASSUME NEW S \in SUBSET used, NEW s \in Status, BatchTransition(S, s)
      PROVE  Counts /\ \E b : Legal(b) /\ Saved(b)
  <2> DEFINE M == {c \in S \cap DOMAIN tasks : isValidTransition(tasks[c].status, s)}
  <2>1. /\ Edit /\ Save(Set(tasks, M, s)) /\ stray' \subseteq stray \cup S /\ UNCHANGED <<used, moved>>
    BY <1>1 DEF BatchTransition
  <2>2. Counts
    BY <2>1, EditCounts DEF TypeOK, Counts
  <2>3. \A x \in M \cap DOMAIN tasks : MovesAlong(tasks[x].status, s)
    BY DEF MovesAlong, isValidTransition
  <2> HIDE DEF M
  <2>4. Legal(Set(tasks, M, s))
    BY <2>1, <2>3, SetLegal
  <2> QED
    BY <2>1, <2>2, <2>4 DEF Saved
<1>2. ASSUME NEW S \in SUBSET used, BatchArchive(S) PROVE Counts /\ \E b : Legal(b) /\ Saved(b)
  <2> DEFINE gone == {c \in S \cap DOMAIN tasks : tasks[c].status \in {"done", "failed"}}
  <2>1. /\ Edit /\ Save(Without(tasks, gone)) /\ UNCHANGED <<used, moved, stray>>
    BY <1>2 DEF BatchArchive
  <2> HIDE DEF gone
  <2>2. Counts
    BY <2>1, EditCounts DEF TypeOK, Counts
  <2>3. Legal(Without(tasks, gone))
    BY <2>1, WithoutLegal
  <2> QED
    BY <2>1, <2>2, <2>3 DEF Saved
<1>3. ASSUME NEW a \in Agents \cup {None}, Resume(a) PROVE Counts /\ \E b : Legal(b) /\ Saved(b)
  <2> DEFINE mine == {c \in DOMAIN tasks : a \in {None, tasks[c].owner.agentId, tasks[c].owner.assigneeId}}
  <2>1. /\ Edit /\ UNCHANGED <<used, moved>> /\ stray' \subseteq stray
        /\ \E R \in ResumeChoices(mine) : R # {} /\ Save(Set(tasks, R, "queued"))
    BY <1>3 DEF Resume
  <2> HIDE DEF mine
  <2>2. PICK R \in ResumeChoices(mine) : Save(Set(tasks, R, "queued"))
    BY <2>1
  <2>3. Counts
    BY <2>1, EditCounts DEF TypeOK, Counts
  <2>4. \A x \in R \cap DOMAIN tasks : MovesAlong(tasks[x].status, "queued")
    BY <1>3 DEF MovesAlong, ResumeChoices, Resumable, Recovery
  <2>5. Legal(Set(tasks, R, "queued"))
    BY <2>1, <2>4, SetLegal DEF Status
  <2> QED
    BY <2>2, <2>3, <2>5 DEF Saved
<1> QED
  BY <1>1, <1>2, <1>3

LEMMA WorkerSaves ==
  ASSUME TypeOK, NEW a \in Agents, Worker(a)
  PROVE  Counts /\ (FilesKept \/ \E b : Legal(b) /\ Saved(b))
<1>0. /\ tasks \in Boards /\ DOMAIN tasks \subseteq used /\ DOMAIN tasks \subseteq Ids
      /\ \A x \in DOMAIN tasks : tasks[x] \in Card
  BY Loaded
<1> HIDE DEF tasks
<1>1. Counts
  <2>1. /\ UNCHANGED <<used, moved, edits>> /\ work[a] \subseteq used
        /\ stray' \subseteq stray \cup work[a]
    BY DEF TypeOK, Worker, Pickup, Report, Vanish
  <2> QED
    BY <2>1 DEF TypeOK, Counts
<1>2. ASSUME NEW p \in BOOLEAN, NEW n \in 1..PickupLimit, Pickup(a, p, n)
      PROVE  \E b : Legal(b) /\ Saved(b)
  <2>1. PICK picked \in SUBSET available(a) : Save([c \in DOMAIN tasks |->
            IF c \in picked
              THEN [tasks[c] EXCEPT !.status = "running",
                                    !.owner = [agentId |-> a, assigneeType |-> "agent", assigneeId |-> a]]
              ELSE tasks[c]])
    BY <1>2 DEF Pickup
  <2> DEFINE new(c) == [tasks[c] EXCEPT !.status = "running", !.owner = Mine(a)]
             b == [c \in DOMAIN tasks |-> IF c \in picked THEN new(c) ELSE tasks[c]]
  <2>2. Save(b)
    BY <2>1 DEF Mine
  <2>3. \A c \in picked : c \in DOMAIN tasks /\ c \in available(a) /\ tasks[c].status = "queued"
    BY DEF available
  <2>4. Mine(a) \in Owner
    BY DEF Mine, Owner
  <2>5. ASSUME NEW c \in picked
        PROVE  new(c) \in Card /\ new(c).status = "running" /\ new(c).owner = Mine(a)
    BY <1>0, <2>3, <2>4 DEF Card, Status
  <2> HIDE DEF new
  <2>6. b \in [DOMAIN tasks -> Card]
    BY <1>0, <2>5
  <2>7. DOMAIN b = DOMAIN tasks /\ \A c \in DOMAIN tasks : b[c] = IF c \in picked THEN new(c) ELSE tasks[c]
    OBVIOUS
  <2> HIDE DEF b
  <2>8. b \in Boards
    BY <1>0, <2>6, BoardIntro
  <2>9. MovesAlong("queued", "running") /\ \A s : MovesAlong(s, s)
    BY DEF MovesAlong, TRANSITIONS
  <2>10. Legal(b)
    BY <1>0, <1>1, <2>3, <2>5, <2>7, <2>8, <2>9 DEF Legal, Counts
  <2> QED
    BY <2>2, <2>10 DEF Saved
<1>3. ASSUME NEW c \in Ids, NEW s \in {"review", "blocked", "done", "failed"}, Report(a, c, s)
      PROVE  FilesKept \/ \E b : Legal(b) /\ Saved(b)
  <2>1. CASE c \in DOMAIN tasks /\ isValidTransition(tasks[c].status, s)
    <3>1. Save(Set(tasks, {c}, s))
      BY <1>3, <2>1 DEF Report
    <3>2. \A x \in {c} \cap DOMAIN tasks : MovesAlong(tasks[x].status, s)
      BY <2>1 DEF MovesAlong, isValidTransition
    <3>3. Legal(Set(tasks, {c}, s))
      BY <1>1, <3>2, SetLegal DEF Status, Counts
    <3> QED
      BY <3>1, <3>3 DEF Saved
  <2>2. CASE ~(c \in DOMAIN tasks /\ isValidTransition(tasks[c].status, s))
    BY <1>3, <2>2 DEF TypeOK, Report, FilesKept
  <2> QED
    BY <2>1, <2>2
<1>4. CASE Vanish(a)
  <2>1. UNCHANGED <<board, tracker, lost, up>> /\ faults' \in 0..MaxFaults
    BY <1>4, LimitAssumption DEF TypeOK, Vanish, Fault
  <2> QED
    BY <1>1, <2>1 DEF TypeOK, FilesKept
<1> QED
  BY <1>1, <1>2, <1>3, <1>4 DEF Worker

LEMMA StartUpSaves ==
  ASSUME TypeOK, StartUp
  PROVE  Counts /\ (FilesKept \/ \E b : Legal(b) /\ Saved(b))
<1>0. Resumable(tracker) \subseteq used
  BY Loaded DEF Resumable
<1>1. Counts
  BY <1>0 DEF TypeOK, StartUp, Counts
<1>2. PICK R \in ResumeChoices(Ids) :
        IF R = {} THEN up' = TRUE /\ UNCHANGED <<board, tracker, lost, faults>>
        ELSE Save(Set(tasks, R, "queued"))
  BY DEF StartUp
<1>3. CASE R = {}
  BY <1>1, <1>2, <1>3 DEF TypeOK, FilesKept
<1>4. CASE R # {}
  <2>1. \A x \in R \cap DOMAIN tasks : MovesAlong(tasks[x].status, "queued")
    BY DEF MovesAlong, ResumeChoices, Resumable, Recovery
  <2>2. Legal(Set(tasks, R, "queued"))
    BY <1>1, <2>1, SetLegal DEF Status, Counts
  <2> QED
    BY <1>1, <1>2, <1>4, <2>2 DEF Saved
<1> QED
  BY <1>3, <1>4

LEMMA EveryStepSaves ==
  ASSUME TypeOK, [Next]_vars
  PROVE  Counts /\ (FilesKept \/ \E b : Legal(b) /\ Saved(b))
<1>1. CASE UNCHANGED vars
  BY <1>1 DEF TypeOK, vars, Counts, FilesKept
<1>2. CASE Crash
  <2>1. faults' \in 0..MaxFaults
    BY <1>2, LimitAssumption DEF TypeOK, Crash, Fault
  <2>2. up' \in BOOLEAN /\ UNCHANGED <<board, tracker, used, moved, stray, lost, edits>>
    BY <1>2 DEF Crash
  <2> QED
    BY <2>1, <2>2 DEF TypeOK, Counts, FilesKept
<1>3. CASE Client
  <2>1. CASE \E c \in Ids : \/ Delete(c) \/ Retry(c)
                            \/ \E s \in Status : PatchStatus(c, s)
                            \/ \E o \in Owners : PatchOwner(c, o)
                            \/ \E d \in SUBSET used : PatchDependencies(c, d)
    BY <2>1, PatchSaves
  <2>2. CASE \/ \E c \in Ids, s \in NewStatuses, o \in Owners, d \in SUBSET DOMAIN tasks : Create(c, s, o, d)
             \/ \E c, d \in Ids, o, p \in Owners : CreatePipeline(c, d, o, p)
             \/ \E c \in Ids, a \in Agents : enqueueTaskForTrigger(c, a)
    BY <2>2, CreateSaves
  <2>3. CASE \/ \E S \in SUBSET used, s \in Status : BatchTransition(S, s)
             \/ \E S \in SUBSET used : BatchArchive(S)
             \/ \E a \in Agents \cup {None} : Resume(a)
    BY <2>3, BatchSaves
  <2> QED
    BY <1>3, <2>1, <2>2, <2>3 DEF Client
<1> QED
  BY <1>1, <1>2, <1>3, WorkerSaves, StartUpSaves DEF Next

-----------------------------------------------------------------------------
(* What a save leaves on disk *)

LEMMA FaultCounts ==
  ASSUME TypeOK, Fault
  PROVE  faults' \in 0..MaxFaults
BY LimitAssumption DEF TypeOK, Fault

LEMMA SaveTasksLeaves ==
  ASSUME TypeOK, NEW b, SaveTasks(b)
  PROVE  /\ board' \in {b, board, Torn} /\ tracker' = tracker /\ lost' = lost
         /\ up' \in BOOLEAN /\ faults' \in 0..MaxFaults
<1>1. BoardFails => faults' \in 0..MaxFaults
  BY FaultCounts DEF BoardFails
<1> QED
  BY <1>1 DEF TypeOK, SaveTasks, BoardFails

\* A save that fails counts as a fault and leaves the old board, the new one or none.  The
\* tracker knows of what runs on the new one, or is empty, or its cards are lost to recovery.
LEMMA SaveLeaves ==
  ASSUME TypeOK, NEW b, Save(b)
  PROVE  /\ \/ board' \in {board, Torn} /\ tracker' = tracker /\ lost' = lost /\ faults' = faults + 1
            \/ /\ board' = b /\ tracker' \subseteq tracker \cup DOMAIN b /\ lost' \subseteq DOMAIN b
               /\ \A c \in Running(b) \ lost' : tracker' # {} => c \in tracker'
         /\ up' \in BOOLEAN /\ faults' \in 0..MaxFaults
<1>1. CASE board' = b /\ tracker' = activeCards(b) /\ up' = TRUE /\ lost' = {} /\ UNCHANGED faults
  BY <1>1 DEF TypeOK, activeCards, Running
<1>2. CASE BoardFails
  BY <1>2, FaultCounts DEF BoardFails, Fault
<1>3. CASE TrackerFails(b)
  BY <1>3, FaultCounts DEF TrackerFails, activeCards, Running
<1> QED
  BY <1>1, <1>2, <1>3 DEF Save

LEMMA FilesStep ==
  ASSUME TypeOK, Tracked, NEW b, Legal(b), Saved(b), Counts
  PROVE  /\ board' \in {b, board, Torn}
         /\ board' \in {Torn} \cup Boards
         /\ tracker' \subseteq used' /\ lost' \subseteq used'
         /\ board' # Torn => DOMAIN board' \subseteq used'
         /\ up' \in BOOLEAN /\ faults' \in 0..MaxFaults
         /\ Tracked'
<1>1. /\ b \in Boards /\ DOMAIN b \subseteq used' /\ tracker \subseteq used' /\ lost \subseteq used'
      /\ board \in {Torn} \cup Boards /\ (board # Torn => DOMAIN board \subseteq used')
  BY DEF TypeOK, Legal, Counts
<1>2. board' = Torn => Tracked'
  BY DEF Tracked, tasks
<1>3. board' # Torn => tasks' = board'
  BY DEF tasks
<1>4. board' = board /\ tracker' = tracker /\ lost' = lost => Tracked'
  BY DEF Tracked, tasks
<1>5. CASE Save(b)
  <2>1. CASE board' \in {board, Torn} /\ tracker' = tracker /\ lost' = lost
    BY <1>1, <1>2, <1>4, <1>5, <2>1, SaveLeaves
  <2>2. CASE /\ board' = b /\ tracker' \subseteq tracker \cup DOMAIN b /\ lost' \subseteq DOMAIN b
             /\ \A c \in Running(b) \ lost' : tracker' # {} => c \in tracker'
    <3>1. Tracked'
      BY <1>2, <1>3, <2>2 DEF Tracked, Running
    <3> QED
      BY <1>1, <1>5, <2>2, <3>1, SaveLeaves
  <2> QED
    BY <1>5, <2>1, <2>2, SaveLeaves
<1>6. CASE /\ SaveTasks(b)
           /\ \A c \in DOMAIN b : b[c].status = "running" => c \in DOMAIN tasks /\ tasks[c] = b[c]
  <2>1. /\ board' \in {b, board, Torn} /\ tracker' = tracker /\ lost' = lost
        /\ up' \in BOOLEAN /\ faults' \in 0..MaxFaults
    BY <1>6, SaveTasksLeaves
  <2>2. Tracked'
    <3>1. CASE board' = b
      BY <1>2, <1>3, <1>6, <2>1, <3>1 DEF Tracked
    <3> QED
      BY <1>2, <1>4, <2>1, <3>1
  <2> QED
    BY <1>1, <2>1, <2>2
<1> QED
  BY <1>5, <1>6 DEF Saved

-----------------------------------------------------------------------------
(* The workers *)

\* A worker's hands hold what they held, or what it has just picked up.
LEMMA WorkStep ==
  ASSUME TypeOK, [Next]_vars
  PROVE  /\ work' \in [Agents -> SUBSET used]
         /\ \A a \in Agents : \A c \in work'[a] :
              \/ c \in work[a]
              \/ c \in available(a) /\ c \in DOMAIN board' /\ board'[c].owner = Mine(a)
<1>0. work \in [Agents -> SUBSET used] /\ DOMAIN tasks \subseteq used
  BY Loaded DEF TypeOK
<1>1. CASE work' = work
  BY <1>0, <1>1
<1>2. ASSUME NEW a \in Agents, NEW p \in BOOLEAN, NEW n \in 1..PickupLimit, Pickup(a, p, n), ~(work' = work)
      PROVE  /\ work' \in [Agents -> SUBSET used]
             /\ \A x \in Agents : \A c \in work'[x] :
                  \/ c \in work[x]
                  \/ c \in available(x) /\ c \in DOMAIN board' /\ board'[c].owner = Mine(x)
  <2> DEFINE b(picked) == [c \in DOMAIN tasks |->
            IF c \in picked THEN [tasks[c] EXCEPT !.status = "running", !.owner = Mine(a)] ELSE tasks[c]]
  <2>1. PICK picked \in SUBSET available(a) : board' = b(picked) /\ work' = [work EXCEPT ![a] = @ \cup picked]
    BY <1>2 DEF Pickup, Mine
  <2>2. board' = b(picked)
    BY <2>1
  <2>3. available(a) \subseteq DOMAIN tasks /\ \A c \in DOMAIN tasks : tasks[c] \in Card
    BY Loaded DEF available
  <2>4. ASSUME NEW c \in picked PROVE c \in DOMAIN board' /\ board'[c].owner = Mine(a)
    <3>1. c \in DOMAIN tasks /\ tasks[c] \in Card
      BY <2>3
    <3>2. board'[c] = [tasks[c] EXCEPT !.status = "running", !.owner = Mine(a)] /\ c \in DOMAIN board'
      BY <2>2, <3>1
    <3> QED
      BY <3>1, <3>2 DEF Card
  <2>5. work' \in [Agents -> SUBSET used]
    BY <1>0, <2>1, <2>3
  <2> QED
    BY <1>0, <2>1, <2>4, <2>5
<1>3. ASSUME NEW a \in Agents, NEW c \in Ids, NEW s \in {"review", "blocked", "done", "failed"}, Report(a, c, s)
      PROVE  work' \in [Agents -> SUBSET used] /\ \A x \in Agents : work'[x] \subseteq work[x]
  BY <1>0, <1>3 DEF Report
<1>4. ASSUME NEW a \in Agents, Vanish(a)
      PROVE  work' \in [Agents -> SUBSET used] /\ \A x \in Agents : work'[x] \subseteq work[x]
  BY <1>0, <1>4 DEF Vanish
<1>5. CASE Client \/ Crash \/ StartUp \/ UNCHANGED vars
  BY <1>1, <1>5 DEF Client, Create, CreatePipeline, enqueueTaskForTrigger, Delete, Retry, PatchStatus, PatchOwner,
       PatchDependencies, BatchTransition, BatchArchive, Resume, Crash, StartUp, vars
<1> QED
  BY <1>1, <1>2, <1>3, <1>4, <1>5 DEF Next, Worker

-----------------------------------------------------------------------------
(* The inductive invariant *)

LEMMA StepInv ==
  ASSUME IndInv, [Next]_vars
  PROVE  IndInv'
<1>0. TypeOK /\ HolderOwns /\ OneHolder /\ Tracked
  BY DEF IndInv
<1>1. Counts
  BY <1>0, EveryStepSaves
<1>2. /\ work' \in [Agents -> SUBSET used]
      /\ \A a \in Agents : \A c \in work'[a] :
           \/ c \in work[a]
           \/ c \in available(a) /\ c \in DOMAIN board' /\ board'[c].owner = Mine(a)
  BY <1>0, WorkStep
<1>3. work' \in [Agents -> SUBSET used']
  BY <1>1, <1>2 DEF Counts
\* A card that a worker holds and another may pick up was moved by a client.
<1>4. ASSUME NEW a \in Agents, NEW b \in Agents, NEW c \in work[a] \ moved, c \in available(b)
      PROVE  a = b
  <2>1. c \in DOMAIN tasks /\ tasks[c].owner.agentId \in {None, b}
    BY <1>4 DEF available
  <2>2. tasks[c].owner = Mine(a)
    BY <1>0, <2>1 DEF HolderOwns
  <2>3. tasks[c].owner.agentId = a
    BY <2>2 DEF Mine
  <2> QED
    BY <2>1, <2>3, NameAssumption
<1>5. OneHolder'
  <2> SUFFICES ASSUME NEW a \in Agents, NEW b \in Agents, NEW c \in Ids \ moved', c \in work'[a], c \in work'[b]
               PROVE  a = b
    BY DEF OneHolder
  <2>1. c \notin moved
    BY <1>1 DEF Counts
  <2>2. CASE c \in work[a] /\ c \in work[b]
    BY <1>0, <2>1, <2>2 DEF OneHolder
  <2>3. CASE c \in work[a] /\ c \in available(b)
    BY <1>4, <2>1, <2>3
  <2>4. CASE c \in work[b] /\ c \in available(a)
    BY <1>4, <2>1, <2>4
  <2>5. CASE c \in available(a) /\ c \in available(b) /\ board'[c].owner = Mine(a) /\ board'[c].owner = Mine(b)
    BY <2>5 DEF Mine
  <2> QED
    BY <1>2, <2>2, <2>3, <2>4, <2>5
<1>6. CASE FilesKept
  <2>1. UNCHANGED <<board, tracker, lost, tasks>> /\ up' \in BOOLEAN /\ faults' \in 0..MaxFaults
    BY <1>6 DEF FilesKept, tasks
  <2>2. TypeOK'
    BY <1>0, <1>1, <1>3, <2>1 DEF TypeOK, Counts
  <2>3. HolderOwns'
    <3> SUFFICES ASSUME NEW a \in Agents, NEW c \in work'[a] \ moved', c \in DOMAIN tasks
                 PROVE  tasks[c].owner = Mine(a)
      BY <2>1 DEF HolderOwns
    <3>1. c \notin moved
      BY <1>1 DEF Counts
    <3>2. board # Torn => tasks = board
      BY DEF tasks
    <3>3. board = Torn => DOMAIN tasks = {}
      BY DEF tasks
    <3> QED
      BY <1>0, <1>2, <2>1, <3>1, <3>2, <3>3 DEF HolderOwns
  <2>4. Tracked'
    BY <1>0, <2>1 DEF Tracked
  <2> QED
    BY <1>5, <2>2, <2>3, <2>4 DEF IndInv
<1>7. ASSUME NEW b, Legal(b), Saved(b) PROVE IndInv'
  <2>1. /\ board' \in {b, board, Torn}
        /\ board' \in {Torn} \cup Boards
        /\ tracker' \subseteq used' /\ lost' \subseteq used'
        /\ board' # Torn => DOMAIN board' \subseteq used'
        /\ up' \in BOOLEAN /\ faults' \in 0..MaxFaults
        /\ Tracked'
    BY <1>0, <1>1, <1>7, FilesStep
  <2>2. TypeOK'
    BY <1>1, <1>3, <2>1 DEF TypeOK, Counts
  <2>3. HolderOwns'
    <3> SUFFICES ASSUME NEW a \in Agents, NEW c \in work'[a] \ moved', c \in DOMAIN tasks'
                 PROVE  tasks'[c].owner = Mine(a)
      BY DEF HolderOwns
    <3>1. tasks' = board' /\ (tasks' = b \/ tasks' = tasks)
      BY <2>1 DEF tasks
    <3>2. CASE board'[c].owner = Mine(a)
      BY <3>1, <3>2
    <3>3. CASE c \in work[a] /\ tasks' = tasks
      BY <1>0, <1>1, <3>3 DEF HolderOwns, Counts
    <3>4. CASE c \in work[a] /\ tasks' = b
      <4>1. c \in used /\ c \notin moved
        BY <1>0, <1>1, <3>4 DEF TypeOK, Counts
      <4>2. c \in DOMAIN tasks
        BY <1>7, <3>4, <4>1 DEF Legal
      <4>3. tasks[c].owner = Mine(a)
        BY <1>0, <3>4, <4>1, <4>2 DEF HolderOwns
      <4>4. \/ b[c].owner = tasks[c].owner
            \/ \E x \in Agents : c \in available(x) /\ b[c].owner = Mine(x)
        BY <1>7, <3>4, <4>2 DEF Legal
      <4> QED
        BY <1>4, <3>4, <4>1, <4>3, <4>4
    <3> QED
      BY <1>2, <3>1, <3>2, <3>3, <3>4
  <2> QED
    BY <1>5, <2>1, <2>2, <2>3 DEF IndInv
<1> QED
  BY <1>0, <1>6, <1>7, EveryStepSaves

\* IndInv is an inductive invariant of the board, its files and its workers.
THEOREM Inductive == Spec => []IndInv
<1>1. Init => IndInv
  <2> SUFFICES ASSUME Init PROVE IndInv
    OBVIOUS
  <2>1. board = [c \in {} |-> 0] /\ DOMAIN tasks = {}
    BY DEF Init, tasks
  <2>2. board \in Boards /\ DOMAIN board = {}
    <3>1. board \in [{} -> Card]
      BY <2>1
    <3> QED
      BY <2>1, <3>1, BoardIntro
  <2>3. edits \in 0..MaxEdits /\ faults \in 0..MaxFaults
    BY LimitAssumption DEF Init
  <2>4. TypeOK
    BY <2>2, <2>3 DEF Init, TypeOK
  <2> QED
    BY <2>1, <2>4 DEF Init, IndInv, HolderOwns, OneHolder, Tracked
<1>2. IndInv /\ [Next]_vars => IndInv'
  BY StepInv
<1> QED
  BY <1>1, <1>2, PTL DEF Spec

\* The board is well typed, and a card is in the hands of at most one worker unless a
\* client gave it another owner, through every re-queue, retry, crash and restart.
THEOREM OneWorkerPerCard == Spec => []NoTwoWorkers
<1>1. IndInv => NoTwoWorkers
  <2> SUFFICES ASSUME IndInv, NEW c \in Ids \ moved
               PROVE  Cardinality({a \in Agents : c \in work[a]}) <= 1
    BY DEF NoTwoWorkers, IndInv
  <2> DEFINE H == {a \in Agents : c \in work[a]}
  <2>1. \A a, b \in H : a = b
    BY DEF IndInv, OneHolder
  <2> HIDE DEF H
  <2>2. CASE H = {}
    <3>1. Cardinality(H) = 0
      BY <2>2, FS_EmptySet
    <3> QED
      BY <3>1 DEF H
  <2>3. CASE H # {}
    <3>1. PICK a \in H : TRUE
      BY <2>3
    <3>2. H = {a}
      BY <2>1, <3>1
    <3>3. Cardinality(H) = 1
      BY <3>2, FS_Singleton
    <3> QED
      BY <3>3 DEF H
  <2> QED
    BY <2>2, <2>3
<1> QED
  BY Inductive, <1>1, PTL

\* Whatever requests, batches, reports, recoveries and faults come, a card moves along
\* the diagram of the board; only a recovery takes it from running to queued.
THEOREM CardsFollowDiagram == Spec => FollowsDiagram
<1>1. IndInv /\ [Next]_vars =>
        [\A c \in DOMAIN tasks \cap DOMAIN tasks' :
           \/ tasks[c].status = tasks'[c].status
           \/ tasks'[c].status \in TRANSITIONS[tasks[c].status]
           \/ tasks[c].status = "running" /\ tasks'[c].status = "queued" /\ Recovery]_vars
  <2> SUFFICES ASSUME IndInv, [Next]_vars, NEW c \in DOMAIN tasks \cap DOMAIN tasks'
               PROVE  MovesAlong(tasks[c].status, tasks'[c].status)
    BY DEF MovesAlong
  <2>0. TypeOK /\ Tracked
    BY DEF IndInv
  <2>1. CASE FilesKept
    <3>1. tasks' = tasks
      BY <2>1 DEF FilesKept, tasks
    <3> QED
      BY <3>1 DEF MovesAlong
  <2>2. ASSUME NEW b, Legal(b), Saved(b), Counts PROVE MovesAlong(tasks[c].status, tasks'[c].status)
    <3>1. board' \in {b, board, Torn}
      BY <2>0, <2>2, FilesStep
    <3>2. tasks' = b \/ tasks' = tasks
      BY <3>1 DEF tasks
    <3> QED
      BY <2>2, <3>2 DEF Legal, MovesAlong
  <2> QED
    BY <2>0, <2>1, <2>2, EveryStepSaves
<1> QED
  BY Inductive, <1>1, PTL DEF Spec, FollowsDiagram

\* Once the dashboard has started, every card still running was left out of the tracker by
\* a failed write, unless recovery re-queued as many cards as its limit allows or its own
\* write of the board failed.
THEOREM RestartLeavesNoneRunning == Spec => RestartRequeues
<1> DEFINE Done == \/ Running(tasks') \subseteq lost
                   \/ Cardinality(Requeued) = RecoveryLimit
                   \/ board' = board /\ faults' = faults + 1
<1>1. IndInv /\ [Next]_vars => [~up /\ up' => Done]_vars
  <2> SUFFICES ASSUME IndInv, Next, ~up, up'
               PROVE  Done
    BY DEF vars
  <2>0. TypeOK /\ Tracked
    BY DEF IndInv
  <2>1. StartUp
    BY DEF Next, Client, Create, CreatePipeline, enqueueTaskForTrigger, Delete, Retry, PatchStatus, PatchOwner,
         PatchDependencies, BatchTransition, BatchArchive, Resume, Edit, Worker, Pickup, Report, Vanish, Crash
  <2>2. PICK R \in ResumeChoices(Ids) :
          IF R = {} THEN up' = TRUE /\ UNCHANGED <<board, tracker, lost, faults>>
          ELSE Save(Set(tasks, R, "queued"))
    BY <2>1 DEF StartUp
  <2>3. DOMAIN tasks \subseteq Ids /\ \A x \in DOMAIN tasks : tasks[x] \in Card
    BY <2>0, Loaded
  <2>4. R \subseteq Resumable(tracker) /\ (R = Resumable(tracker) \/ Cardinality(R) = RecoveryLimit)
    BY <2>3 DEF ResumeChoices, Resumable
  <2>5. Running(tasks) \ lost \subseteq Resumable(tracker)
    BY <2>0 DEF Tracked, Resumable, Running
  <2>6. CASE R = {}
    <3>1. Cardinality(R) # RecoveryLimit
      BY <2>6, LimitAssumption, FS_EmptySet
    <3>2. tasks' = tasks
      BY <2>2, <2>6 DEF tasks
    <3> QED
      BY <2>4, <2>5, <2>6, <3>1, <3>2
  <2>7. CASE R # {}
    <3> DEFINE b == Set(tasks, R, "queued")
    <3>1. \/ board' \in {board, Torn} /\ faults' = faults + 1
          \/ board' = b
      BY <2>0, <2>2, <2>7, SaveLeaves
    <3>2. CASE board' = Torn
      BY <3>2 DEF tasks, Running
    <3>3. CASE board' = b /\ board' # Torn
      <4>1. tasks' = b
        BY <3>3 DEF tasks
      <4>2. DOMAIN b = DOMAIN tasks /\ \A c \in DOMAIN tasks : c \notin R => b[c] = tasks[c]
        BY DEF Set
      <4>3. ASSUME NEW c \in R PROVE c \in Running(tasks) /\ b[c].status = "queued"
        <5>1. c \in DOMAIN tasks /\ tasks[c].status = "running"
          BY <2>4 DEF Resumable
        <5>2. b[c] = [tasks[c] EXCEPT !.status = "queued"]
          BY <5>1 DEF Set
        <5> QED
          BY <2>3, <5>1, <5>2 DEF Card, Running
      <4> HIDE DEF b
      <4>4. CASE R = Resumable(tracker)
        BY <2>5, <4>1, <4>2, <4>3, <4>4 DEF Running
      <4>5. CASE Cardinality(R) = RecoveryLimit
        <5>1. Requeued = R
          BY <4>1, <4>2, <4>3 DEF Requeued, Running
        <5> QED
          BY <4>5, <5>1
      <4> QED
        BY <2>4, <4>4, <4>5
    <3> QED
      BY <3>1, <3>2, <3>3
  <2> QED
    BY <2>6, <2>7
<1> QED
  BY Inductive, <1>1, PTL DEF Spec, RestartRequeues
=============================================================================
