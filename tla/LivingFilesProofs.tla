------------------------- MODULE LivingFilesProofs -------------------------
(***************************************************************************)
(* Proofs about LivingFiles, for any files, agents, limits and faults.     *)
(* A check is a loop over the registered files: what holds of the          *)
(* accumulator before a file holds after it, hence after any number of     *)
(* files, wherever a fault cuts the loop.                                  *)
(***************************************************************************)
EXTENDS LivingFiles, FiniteSetTheorems, SequenceTheorems, WellFoundedInduction, TLAPS

Trigger == [triggerId : Nat, fileId : 1..MaxFiles, ownerAgentId : Agents, status : TriggerStatus, taskId : Nat]
Store == [files : Seq(Entry), triggers : Seq(Trigger)]
Boards == UNION {[D -> Card] : D \in SUBSET Nat}

\* No file has two open triggers.
OpenOnce(ts) ==
  \A i, j \in DOMAIN ts :
    ts[i].fileId = ts[j].fileId /\ isOpenTriggerStatus(ts[i].status) /\ isOpenTriggerStatus(ts[j].status) => i = j

\* Triggers within the limit, with ids up to n and cards of the given set.
TriggersSound(ts, n, cards) ==
  /\ ts \in Seq(Trigger) /\ Len(ts) <= MAX_TRIGGER_HISTORY
  /\ OpenOnce(ts)
  /\ \A i \in DOMAIN ts : ts[i].triggerId \in 1..n /\ ts[i].taskId \in 1..n /\ ts[i].taskId \in cards

FilesSound(fs, n) == fs \in Seq(Entry) /\ \A i \in DOMAIN fs : fs[i].fileId <= n

StoreSound(s) == s \in Store /\ FilesSound(s.files, files) /\ TriggersSound(s.triggers, made, boarded)

\* No agent has two open cards for a file, but for those changed by hand.
OneCard(b) ==
  \A c, d \in DOMAIN b \ touched :
    b[c].open /\ b[d].open /\ b[c].filePath = b[d].filePath /\ b[c].assigneeId = b[d].assigneeId => c = d

BoardSound(b, n) == b \in Boards /\ DOMAIN b \subseteq 1..n /\ OneCard(b)

Counters ==
  /\ age \in [Paths -> Ages \cup {Missing}] /\ loaded \in BOOLEAN
  /\ files \in 0..MaxFiles /\ made \in Nat
  /\ boarded \subseteq 1..made /\ touched \subseteq 1..made /\ ended \subseteq 1..made
  /\ edits \in 0..MaxEdits /\ faults \in 0..MaxFaults

IndInv == Counters /\ StoreSound(store) /\ StoreSound(disk) /\ BoardSound(board, made)

\* The same for what a check has done so far.
Acc == [triggers : Seq(Trigger), board : Boards, made : Nat]
AccSound(acc) ==
  /\ acc \in Acc /\ made <= acc.made
  /\ BoardSound(acc.board, acc.made)
  /\ TriggersSound(acc.triggers, acc.made, boarded \cup DOMAIN acc.board)

-----------------------------------------------------------------------------
(* A check as a loop *)

\* A set of naturals that is not empty has a least element.
LEMMA Least ==
  ASSUME NEW S \in SUBSET Nat, S # {}
  PROVE  \E x \in S : \A y \in S : ~(y < x)
<1> DEFINE R == {ss \in Nat \X Nat : ss[1] < ss[2]}
<1>1. IsWellFoundedOn(R, Nat)
  BY NatLessThanWellFounded DEF OpToRel
<1>2. \A u, t \in Nat : u < t => <<u, t>> \in R
  OBVIOUS
<1> HIDE DEF R
<1>3. \E x \in S : \A y \in S : ~(<<y, x>> \in R)
  BY <1>1, WFMin
<1> QED
  BY <1>2, <1>3

\* What a check starts from.
Start == [triggers |-> store.triggers, board |-> board, made |-> made]

\* f is a check that goes through the first n files.
Passes(n, f) == f = [k \in 0..n |-> IF k = 0 THEN Start ELSE Checked(f[k - 1], store.files[k])]

\* There is such a function for every n.
LEMMA PassExists ==
  ASSUME NEW n \in Nat
  PROVE  \E f : Passes(n, f)
<1> DEFINE S == {x \in Nat : ~\E f : Passes(x, f)}
<1>0. SUFFICES S = {}
  OBVIOUS
<1>1. SUFFICES ASSUME S # {} PROVE FALSE
  OBVIOUS
<1>2. PICK x \in S : \A y \in S : ~(y < x)
  BY <1>1, Least
<1>3. CASE x = 0
  <2>1. Passes(0, [k \in 0..0 |-> Start])
    BY DEF Passes
  <2> QED
    BY <1>2, <1>3, <2>1
<1>4. CASE x # 0
  <2>1. x - 1 \in Nat /\ x - 1 < x /\ x \in Nat
    BY <1>4
  <2>2. PICK f : Passes(x - 1, f)
    BY <1>2, <2>1
  <2> DEFINE g == [k \in 0..x |-> IF k = x THEN Checked(f[x - 1], store.files[x]) ELSE f[k]]
  <2>3. ASSUME NEW k \in 0..x
        PROVE  g[k] = IF k = 0 THEN Start ELSE Checked(g[k - 1], store.files[k])
    <3>1. CASE k = x
      BY <2>1, <3>1, <1>4
    <3>2. CASE k # x
      <4>1. k \in 0..(x - 1) /\ g[k] = f[k] /\ (k # 0 => k - 1 \in 0..(x - 1) /\ g[k - 1] = f[k - 1])
        BY <2>1, <3>2
      <4>2. f[k] = IF k = 0 THEN Start ELSE Checked(f[k - 1], store.files[k])
        BY <2>2, <4>1 DEF Passes
      <4> QED
        BY <4>1, <4>2
    <3> QED
      BY <3>1, <3>2
  <2>4. Passes(x, g)
    <3>1. g = [k \in 0..x |-> g[k]]
      OBVIOUS
    <3> HIDE DEF g
    <3> QED
      BY <2>3, <3>1 DEF Passes
  <2> QED
    BY <1>2, <2>4
<1> QED
  BY <1>3, <1>4

\* What After computes.
LEMMA AfterIsPass ==
  ASSUME NEW n \in Nat
  PROVE  \E f : Passes(n, f) /\ After(n) = f[n]
<1> DEFINE f == CHOOSE h : Passes(n, h)
<1>1. Passes(n, f)
  BY PassExists
<1>2. After(n) = f[n]
  BY DEF After, Passes, Start
<1> QED
  BY <1>1, <1>2

-----------------------------------------------------------------------------
(* Triggers *)

\* Triggers stay sound when more ids and cards have been given out.
LEMMA MoreIds ==
  ASSUME NEW ts, NEW n \in Nat, NEW n2 \in Nat, n <= n2, NEW cards, NEW cards2, cards \subseteq cards2,
         TriggersSound(ts, n, cards)
  PROVE  TriggersSound(ts, n2, cards2)
BY DEF TriggersSound

\* Trimming drops the oldest triggers.
LEMMA TrimmedShape ==
  ASSUME NEW ts \in Seq(Trigger), Len(ts) <= MAX_TRIGGER_HISTORY + 1
  PROVE  \E k \in {0, 1} : /\ Trimmed(ts) \in Seq(Trigger) /\ Len(Trimmed(ts)) + k = Len(ts)
                           /\ Len(Trimmed(ts)) <= MAX_TRIGGER_HISTORY
                           /\ \A i \in 1..Len(Trimmed(ts)) : i + k \in 1..Len(ts) /\ Trimmed(ts)[i] = ts[i + k]
<1>1. CASE Len(ts) <= MAX_TRIGGER_HISTORY
  <2>1. Trimmed(ts) = ts
    BY <1>1, BoundAssumption DEF Trimmed
  <2>2. Len(ts) \in Nat /\ Len(ts) + 0 = Len(ts) /\ \A i \in 1..Len(ts) : i + 0 \in 1..Len(ts) /\ ts[i] = ts[i + 0]
    OBVIOUS
  <2> QED
    BY <1>1, <2>1, <2>2
<1>2. CASE ~(Len(ts) <= MAX_TRIGGER_HISTORY)
  <2> DEFINE n == Len(ts)
             t == SubSeq(ts, 2, n)
  <2>1. n = MAX_TRIGGER_HISTORY + 1 /\ n \in Nat /\ n >= 2 /\ n - MAX_TRIGGER_HISTORY + 1 = 2
    BY <1>2, BoundAssumption
  <2>2. Trimmed(ts) = t
    BY <1>2, <2>1, BoundAssumption DEF Trimmed
  <2>3. t \in Seq(Trigger) /\ Len(t) = n - 1 /\ \A i \in 1..(n - 1) : t[i] = ts[i + 1]
    <3>1. \A i \in 2..n : i \in 1..Len(ts)
      BY <2>1
    <3>2. t \in Seq(Trigger)
      BY <2>1, SubSeqProperties, <3>1
    <3>3. Len(t) = n - 1
      BY <2>1, SubSeqProperties, <3>1
    <3>4. \A i \in 1..(n - 1) : t[i] = ts[i + 1]
      BY <2>1
    <3> QED
      BY <3>2, <3>3, <3>4
  <2> HIDE DEF n, t
  <2>4. Len(t) + 1 = n /\ Len(t) <= MAX_TRIGGER_HISTORY /\ \A i \in 1..Len(t) : i + 1 \in 1..n /\ t[i] = ts[i + 1]
    BY <2>1, <2>3, BoundAssumption
  <2> QED
    BY <2>2, <2>3, <2>4 DEF n
<1> QED
  BY <1>1, <1>2

\* A new trigger for a file that has none open keeps the triggers sound, whether or not
\* it pushes the oldest out of the history.
LEMMA Triggered ==
  ASSUME NEW ts, NEW n \in Nat, NEW cards, TriggersSound(ts, n, cards), NEW t \in Trigger,
         t.triggerId \in 1..n, t.taskId \in 1..n, t.taskId \in cards,
         \A i \in DOMAIN ts : ~(ts[i].fileId = t.fileId /\ isOpenTriggerStatus(ts[i].status))
  PROVE  TriggersSound(Trimmed(Append(ts, t)), n, cards)
<1> DEFINE a == Append(ts, t)
           b == Trimmed(a)
<1>1. ts \in Seq(Trigger) /\ Len(ts) <= MAX_TRIGGER_HISTORY /\ Len(ts) \in Nat
  BY DEF TriggersSound
<1>2. a \in Seq(Trigger) /\ Len(a) = Len(ts) + 1 /\ a[Len(ts) + 1] = t /\ \A i \in 1..Len(ts) : a[i] = ts[i]
  BY <1>1
<1> HIDE DEF a
<1>3. DOMAIN a = 1..(Len(ts) + 1) /\ DOMAIN ts = 1..Len(ts)
  BY <1>1, <1>2
<1>4. /\ OpenOnce(a)
      /\ \A i \in 1..Len(a) : a[i].triggerId \in 1..n /\ a[i].taskId \in 1..n /\ a[i].taskId \in cards
  <2>1. \A i \in 1..(Len(ts) + 1) : i \in 1..Len(ts) \/ i = Len(ts) + 1
    BY <1>1
  <2>2. OpenOnce(a)
    BY <1>2, <1>3, <2>1 DEF OpenOnce, TriggersSound
  <2>3. \A i \in 1..Len(a) : a[i].triggerId \in 1..n /\ a[i].taskId \in 1..n /\ a[i].taskId \in cards
    BY <1>2, <1>3, <2>1 DEF TriggersSound
  <2> QED
    BY <2>2, <2>3
<1>5. Len(a) <= MAX_TRIGGER_HISTORY + 1
  BY <1>1, <1>2, BoundAssumption
<1>6. PICK k \in {0, 1} : /\ b \in Seq(Trigger) /\ Len(b) <= MAX_TRIGGER_HISTORY
                          /\ \A i \in 1..Len(b) : i + k \in 1..Len(a) /\ b[i] = a[i + k]
  BY <1>2, <1>5, TrimmedShape
<1> HIDE DEF b
<1>7. DOMAIN b = 1..Len(b) /\ DOMAIN a = 1..Len(a) /\ Len(b) \in Nat
  BY <1>2, <1>6
<1>8. ASSUME NEW i \in 1..Len(b), NEW j \in 1..Len(b), b[i].fileId = b[j].fileId,
             isOpenTriggerStatus(b[i].status), isOpenTriggerStatus(b[j].status)
      PROVE  i = j
  <2>1. i + k = j + k
    BY <1>4, <1>6, <1>7, <1>8 DEF OpenOnce
  <2> QED
    BY <1>7, <2>1
<1>9. OpenOnce(b)
  BY <1>7, <1>8 DEF OpenOnce
<1>10. \A i \in DOMAIN b : b[i].triggerId \in 1..n /\ b[i].taskId \in 1..n /\ b[i].taskId \in cards
  BY <1>4, <1>6, <1>7
<1>11. TriggersSound(b, n, cards)
  BY <1>6, <1>9, <1>10 DEF TriggersSound
<1> QED
  BY <1>11 DEF b, a

\* Changing the status of triggers keeps them sound, unless it opens one that was resolved.
Restated(us, ts) ==
  /\ us \in Seq(Trigger) /\ Len(us) = Len(ts)
  /\ \A i \in DOMAIN ts : /\ us[i].fileId = ts[i].fileId /\ us[i].triggerId = ts[i].triggerId
                          /\ us[i].taskId = ts[i].taskId
                          /\ isOpenTriggerStatus(us[i].status) => isOpenTriggerStatus(ts[i].status)

\* Triggers that were only restated stay sound.
LEMMA RestatedSound ==
  ASSUME NEW ts, NEW us, NEW n \in Nat, NEW cards, TriggersSound(ts, n, cards), Restated(us, ts)
  PROVE  TriggersSound(us, n, cards)
<1>1. DOMAIN us = DOMAIN ts /\ us \in Seq(Trigger) /\ Len(us) <= MAX_TRIGGER_HISTORY
  BY DEF Restated, TriggersSound
<1>2. OpenOnce(us)
  BY <1>1 DEF OpenOnce, Restated, TriggersSound
<1> QED
  BY <1>1, <1>2 DEF TriggersSound, Restated

\* The status of a trigger is set.
StatusSet(t, st) == [t EXCEPT !.status = st]

\* Only the status changes.
LEMMA StatusFields ==
  ASSUME NEW t \in Trigger, NEW st \in TriggerStatus
  PROVE  /\ StatusSet(t, st) \in Trigger
         /\ StatusSet(t, st).fileId = t.fileId /\ StatusSet(t, st).triggerId = t.triggerId
         /\ StatusSet(t, st).taskId = t.taskId /\ StatusSet(t, st).status = st
BY DEF StatusSet, Trigger

\* A healthy file's open triggers are resolved.
LEMMA ResolvedSound ==
  ASSUME NEW ts, NEW n \in Nat, NEW cards, TriggersSound(ts, n, cards), NEW f
  PROVE  TriggersSound(resolveOpenTriggersForFile(ts, f), n, cards)
<1> DEFINE us == resolveOpenTriggersForFile(ts, f)
<1>1. ts \in Seq(Trigger) /\ DOMAIN ts = 1..Len(ts) /\ Len(ts) \in Nat
  BY DEF TriggersSound
<1>2. us = [i \in 1..Len(ts) |-> IF ts[i].fileId = f /\ isOpenTriggerStatus(ts[i].status)
                                   THEN StatusSet(ts[i], "resolved") ELSE ts[i]]
  BY <1>1 DEF resolveOpenTriggersForFile, StatusSet
<1>3. \A i \in 1..Len(ts) : ts[i] \in Trigger
  BY <1>1
<1>4. \A i \in 1..Len(ts) : /\ StatusSet(ts[i], "resolved") \in Trigger
                            /\ StatusSet(ts[i], "resolved").fileId = ts[i].fileId
                            /\ StatusSet(ts[i], "resolved").triggerId = ts[i].triggerId
                            /\ StatusSet(ts[i], "resolved").taskId = ts[i].taskId
                            /\ ~isOpenTriggerStatus(StatusSet(ts[i], "resolved").status)
  BY <1>3, StatusFields DEF TriggerStatus, isOpenTriggerStatus
<1> HIDE DEF us
<1>5. DOMAIN us = 1..Len(ts) /\ \A i \in 1..Len(ts) : us[i] \in Trigger
  BY <1>2, <1>3, <1>4
<1>6. us \in Seq(Trigger) /\ Len(us) = Len(ts)
  <2>1. us = [i \in 1..Len(ts) |-> us[i]]
    BY <1>2
  <2> QED
    BY <1>1, <1>5, <2>1
<1>7. Restated(us, ts)
  BY <1>1, <1>2, <1>4, <1>6 DEF Restated
<1> QED
  BY <1>7, RestatedSound DEF us

-----------------------------------------------------------------------------
(* The board, and one file of a check *)

\* A board is a function from ids to cards.
LEMMA BoardFunction ==
  ASSUME NEW b \in Boards
  PROVE  b = [c \in DOMAIN b |-> b[c]] /\ DOMAIN b \subseteq Nat /\ \A c \in DOMAIN b : b[c] \in Card
BY DEF Boards

\* And such a function is a board.
LEMMA FunctionBoard ==
  ASSUME NEW b, b = [c \in DOMAIN b |-> b[c]], DOMAIN b \subseteq Nat, \A c \in DOMAIN b : b[c] \in Card
  PROVE  b \in Boards
<1>1. b \in [DOMAIN b -> Card]
  OBVIOUS
<1> QED
  BY <1>1 DEF Boards

\* The board with a new open card for e's owner.
NewCard(e) == [filePath |-> e.filePath, assigneeId |-> e.ownerAgentId, open |-> TRUE]
WithCard(b, id, e) == [c \in DOMAIN b \cup {id} |-> IF c = id THEN NewCard(e) ELSE b[c]]

\* enqueueTaskForTrigger finds the open card of the file's owner, or adds one.
LEMMA Enqueued ==
  ASSUME NEW b, NEW n \in Nat, BoardSound(b, n), NEW e \in Entry, touched \subseteq 1..n
  PROVE  LET q == enqueueTaskForTrigger(b, e, n + 1)
         IN /\ BoardSound(q.board, n + 1) /\ q.task \in DOMAIN q.board /\ DOMAIN b \subseteq DOMAIN q.board
<1> DEFINE X == openExisting(b, e)
           q == enqueueTaskForTrigger(b, e, n + 1)
           w == WithCard(b, n + 1, e)
<1>0. b \in Boards /\ DOMAIN b \subseteq 1..n /\ OneCard(b)
  BY DEF BoardSound
<1>1. X \subseteq DOMAIN b /\ X \subseteq Nat
  BY <1>0, BoardFunction DEF openExisting
<1>2. q.task = (IF X = {} THEN n + 1 ELSE CHOOSE c \in X : \A d \in X : c <= d)
      /\ q.board = (IF X # {} THEN b ELSE w)
  BY DEF enqueueTaskForTrigger, WithCard, NewCard
<1>3. CASE X # {}
  <2>1. \E c \in X : \A d \in X : c <= d
    <3>1. PICK x \in X : \A y \in X : ~(y < x)
      BY <1>1, <1>3, Least
    <3>2. \A y \in X : x <= y
      BY <1>1, <3>1
    <3> QED
      BY <3>2
  <2>2. q.task \in X /\ q.board = b
    <3> HIDE DEF X, q
    <3> QED
      BY <1>2, <1>3, <2>1
  <2>3. DOMAIN b \subseteq 1..(n + 1)
    BY <1>0
  <2> HIDE DEF q, X
  <2>4. BoardSound(q.board, n + 1) /\ q.task \in DOMAIN q.board /\ DOMAIN b \subseteq DOMAIN q.board
    BY <1>0, <1>1, <2>2, <2>3 DEF BoardSound
  <2> QED
    BY <2>4 DEF q
<1>4. CASE X = {}
  <2>1. q.task = n + 1 /\ q.board = w
    BY <1>2, <1>4
  <2>2. NewCard(e) \in Card /\ NewCard(e).filePath = e.filePath /\ NewCard(e).assigneeId = e.ownerAgentId
    BY DEF NewCard, Card, Entry
  <2>3. DOMAIN w = DOMAIN b \cup {n + 1} /\ w[n + 1] = NewCard(e) /\ w = [c \in DOMAIN w |-> w[c]]
    BY DEF WithCard
  <2>4. \A c \in DOMAIN b : c # n + 1 /\ w[c] = b[c]
    <3>1. \A c \in 1..n : c # n + 1
      OBVIOUS
    <3> QED
      BY <1>0, <3>1 DEF WithCard
  <2> HIDE DEF w
  <2>5. w \in Boards
    <3>1. DOMAIN w \subseteq Nat /\ \A c \in DOMAIN w : w[c] \in Card
      BY <1>0, <2>2, <2>3, <2>4, BoardFunction
    <3> QED
      BY <2>3, <3>1, FunctionBoard
  <2>6. DOMAIN w \subseteq 1..(n + 1)
    BY <1>0, <2>3
  <2>7. \A c \in DOMAIN b : ~(b[c].open /\ b[c].filePath = e.filePath /\ b[c].assigneeId = e.ownerAgentId)
    BY <1>4 DEF openExisting
  <2>8. OneCard(w)
    BY <1>0, <2>2, <2>3, <2>4, <2>7 DEF OneCard
  <2> QED
    BY <2>1, <2>3, <2>5, <2>6, <2>8 DEF BoardSound
<1> QED
  BY <1>3, <1>4

\* A new trigger and its card keep everything sound.
LEMMA CreatedSound ==
  ASSUME Counters, NEW acc, AccSound(acc), NEW e \in Entry, ~HasOpen(acc, e)
  PROVE  AccSound(createTrigger(acc, e))
<1> DEFINE id == acc.made + 1
           q == enqueueTaskForTrigger(acc.board, e, id)
           task == q.task
           b == q.board
           t == [triggerId |-> id, fileId |-> e.fileId, ownerAgentId |-> e.ownerAgentId,
                 status |-> "queued", taskId |-> task]
           ts == Trimmed(Append(acc.triggers, t))
           new == createTrigger(acc, e)
<1>1. acc.made \in Nat /\ made \in Nat /\ made <= acc.made /\ id \in Nat /\ BoardSound(acc.board, acc.made)
  BY DEF AccSound, Acc, Counters
<1>2. touched \subseteq 1..acc.made /\ boarded \subseteq 1..acc.made
  BY <1>1 DEF Counters
<1>3. BoardSound(b, id) /\ task \in DOMAIN b /\ DOMAIN acc.board \subseteq DOMAIN b
  BY <1>1, <1>2, Enqueued
<1>4. new = [triggers |-> ts, board |-> b, made |-> id]
  BY DEF createTrigger
<1> HIDE DEF q, b, task, new
<1>5. task \in 1..id /\ b \in Boards
  BY <1>3 DEF BoardSound
<1>6. t \in Trigger /\ t.triggerId = id /\ t.taskId = task /\ t.fileId = e.fileId
  BY <1>1, <1>5 DEF Trigger, Entry, TriggerStatus
<1> HIDE DEF t
<1>7. TriggersSound(acc.triggers, id, boarded \cup DOMAIN b)
  BY <1>1, <1>3, MoreIds DEF AccSound
<1>8. \A i \in DOMAIN acc.triggers :
        ~(acc.triggers[i].fileId = t.fileId /\ isOpenTriggerStatus(acc.triggers[i].status))
  BY <1>6 DEF HasOpen
<1>9. TriggersSound(ts, id, boarded \cup DOMAIN b)
  BY <1>1, <1>3, <1>5, <1>6, <1>7, <1>8, Triggered
<1>10. ts \in Seq(Trigger)
  BY <1>9 DEF TriggersSound
<1> HIDE DEF ts
<1>11. new \in Acc /\ new.made = id /\ new.board = b /\ new.triggers = ts
  BY <1>1, <1>4, <1>5, <1>10 DEF Acc
<1>12. AccSound(new)
  BY <1>1, <1>3, <1>9, <1>11 DEF AccSound
<1> QED
  BY <1>12 DEF new

\* One file of a check keeps everything sound.
LEMMA CheckedSound ==
  ASSUME Counters, NEW acc, AccSound(acc), NEW e \in Entry
  PROVE  AccSound(Checked(acc, e))
<1>1. CASE ~Unhealthy(e)
  <2> DEFINE ts == resolveOpenTriggersForFile(acc.triggers, e.fileId)
             new == [acc EXCEPT !.triggers = ts]
  <2>1. acc \in Acc /\ TriggersSound(ts, acc.made, boarded \cup DOMAIN acc.board)
    BY ResolvedSound DEF AccSound, Acc
  <2>2. ts \in Seq(Trigger)
    BY <2>1 DEF TriggersSound
  <2>3. Checked(acc, e) = new
    BY <1>1, <2>1 DEF Checked, Acc
  <2> HIDE DEF ts
  <2>4. new \in Acc /\ new.triggers = ts /\ new.board = acc.board /\ new.made = acc.made
    BY <2>1, <2>2 DEF Acc
  <2> HIDE DEF new
  <2> QED
    BY <2>1, <2>3, <2>4 DEF AccSound
<1>2. CASE Unhealthy(e) /\ HasOpen(acc, e)
  BY <1>2 DEF Checked
<1>3. CASE Unhealthy(e) /\ ~HasOpen(acc, e)
  <2>1. Checked(acc, e) = createTrigger(acc, e)
    BY <1>3 DEF Checked
  <2> QED
    BY <1>3, <2>1, CreatedSound
<1> QED
  BY <1>1, <1>2, <1>3

\* So everything is sound after any number of files.
LEMMA AfterSound ==
  ASSUME IndInv, NEW n \in 0..Len(store.files)
  PROVE  AccSound(After(n))
<1>0. Counters /\ StoreSound(store) /\ store.files \in Seq(Entry) /\ Len(store.files) \in Nat /\ n \in Nat
  BY DEF IndInv, StoreSound, FilesSound
<1> HIDE DEF IndInv
<1>1. PICK f : Passes(n, f) /\ After(n) = f[n]
  BY <1>0, AfterIsPass
<1>2. AccSound(Start)
  <2>1. /\ Start.triggers = store.triggers /\ Start.board = board /\ Start.made = made
    BY DEF Start
  <2>2. TriggersSound(store.triggers, made, boarded) /\ made \in Nat /\ BoardSound(board, made)
    BY <1>0 DEF StoreSound, Counters, IndInv
  <2>3. TriggersSound(store.triggers, made, boarded \cup DOMAIN board)
    BY <2>2, MoreIds
  <2>4. Start \in Acc
    BY <2>2 DEF Start, Acc, TriggersSound, BoardSound
  <2> HIDE DEF Start
  <2> QED
    BY <2>1, <2>2, <2>3, <2>4 DEF AccSound
<1> DEFINE S == {x \in 0..n : ~AccSound(f[x])}
<1>3. SUFFICES ASSUME S # {} PROVE FALSE
  BY <1>0, <1>1
<1>s. S \in SUBSET Nat
  BY <1>0
<1>4. PICK x \in S : \A y \in S : ~(y < x)
  <2> HIDE DEF S
  <2> QED
    BY <1>s, <1>3, Least
<1>5. CASE x = 0
  BY <1>1, <1>2, <1>4, <1>5 DEF Passes
<1>6. CASE x # 0
  <2>1. x - 1 \in 0..n /\ x - 1 < x /\ x \in 1..Len(store.files)
    BY <1>0, <1>4, <1>6
  <2>2. AccSound(f[x - 1])
    BY <1>4, <2>1
  <2>3. store.files[x] \in Entry
    BY <1>0, <2>1
  <2>4. f[x] = Checked(f[x - 1], store.files[x])
    BY <1>1, <1>4, <1>6 DEF Passes
  <2> QED
    BY <1>0, <1>4, <2>2, <2>3, <2>4, CheckedSound
<1> QED
  BY <1>5, <1>6

-----------------------------------------------------------------------------
(* The store *)

\* A store with other files, or other triggers.
WithFiles(s, fs) == [s EXCEPT !.files = fs]
WithTriggers(s, ts) == [s EXCEPT !.triggers = ts]

\* The other field stays as it is.
LEMMA WithFields ==
  ASSUME NEW s \in Store, NEW fs \in Seq(Entry), NEW ts \in Seq(Trigger)
  PROVE  /\ WithFiles(s, fs) \in Store /\ WithFiles(s, fs).files = fs /\ WithFiles(s, fs).triggers = s.triggers
         /\ WithTriggers(s, ts) \in Store /\ WithTriggers(s, ts).files = s.files /\ WithTriggers(s, ts).triggers = ts
BY DEF WithFiles, WithTriggers, Store

\* An empty store is sound.
LEMMA EmptySound ==
  ASSUME NEW n \in Nat, NEW g \in Nat, NEW cards
  PROVE  /\ EmptyStore \in Store /\ FilesSound(EmptyStore.files, g)
         /\ TriggersSound(EmptyStore.triggers, n, cards)
<1>1. EmptyStore \in Store /\ EmptyStore.files = <<>> /\ EmptyStore.triggers = <<>>
  BY DEF EmptyStore, Store
<1>2. FilesSound(<<>>, g)
  BY DEF FilesSound
<1>3. TriggersSound(<<>>, n, cards)
  BY BoundAssumption DEF TriggersSound, OpenOnce
<1> QED
  BY <1>1, <1>2, <1>3

\* Persisting a sound store leaves a sound one in memory and in the file, also when a crash
\* or an error cuts the file short or leaves it as it was.
LEMMA PersistSound ==
  ASSUME NEW s \in Store, loaded \in BOOLEAN, faults \in 0..MaxFaults, Persist(s), made' \in Nat, files' \in Nat,
         FilesSound(s.files, files'), TriggersSound(s.triggers, made', boarded'),
         disk \in Store, FilesSound(disk.files, files'), TriggersSound(disk.triggers, made', boarded')
  PROVE  StoreSound(store)' /\ StoreSound(disk)' /\ loaded' \in BOOLEAN /\ faults' \in 0..MaxFaults
<1>1. CASE store' = s /\ disk' = s /\ UNCHANGED <<loaded, faults>>
  BY <1>1 DEF StoreSound
<1>2. CASE /\ faults < MaxFaults /\ faults' = faults + 1
           /\ store' = EmptyStore /\ disk' = EmptyStore /\ loaded' = FALSE
  <2>1. faults' \in 0..MaxFaults
    BY <1>2, BoundAssumption
  <2>2. /\ EmptyStore \in Store /\ FilesSound(EmptyStore.files, files')
        /\ TriggersSound(EmptyStore.triggers, made', boarded')
    BY EmptySound
  <2>3. store' \in Store /\ FilesSound(store'.files, files') /\ TriggersSound(store'.triggers, made', boarded')
    BY <1>2, <2>2
  <2>4. disk' \in Store /\ FilesSound(disk'.files, files') /\ TriggersSound(disk'.triggers, made', boarded')
    BY <1>2, <2>2
  <2> QED
    BY <1>2, <2>1, <2>3, <2>4 DEF StoreSound
<1>3. CASE /\ faults < MaxFaults /\ faults' = faults + 1
           /\ store' = s /\ disk' \in {disk, EmptyStore} /\ UNCHANGED loaded
  <2>1. faults' \in 0..MaxFaults
    BY <1>3, BoundAssumption
  <2>2. /\ EmptyStore \in Store /\ FilesSound(EmptyStore.files, files')
        /\ TriggersSound(EmptyStore.triggers, made', boarded')
    BY EmptySound
  <2>3. disk' \in Store /\ FilesSound(disk'.files, files') /\ TriggersSound(disk'.triggers, made', boarded')
    BY <1>3, <2>2
  <2> QED
    BY <1>3, <2>1, <2>3 DEF StoreSound
<1> QED
  BY <1>1, <1>2, <1>3 DEF Persist

\* A request that leaves the board alone.
LEMMA RequestStep ==
  ASSUME IndInv, NEW s \in Store, Persist(s), NoTask, files' \in 0..MaxFiles, edits' \in 0..MaxEdits,
         files' = files \/ files' = files + 1,
         FilesSound(s.files, files'), TriggersSound(s.triggers, made, boarded)
  PROVE  IndInv'
<1>1. UNCHANGED <<age, board, made, boarded, touched, ended>>
  BY DEF NoTask
<1>2. Counters /\ BoardSound(board, made)
  BY DEF IndInv
<1>3. made' \in Nat /\ files' \in Nat /\ loaded \in BOOLEAN /\ faults \in 0..MaxFaults
  BY <1>1, <1>2, BoundAssumption DEF Counters
<1>s. disk \in Store /\ FilesSound(disk.files, files') /\ TriggersSound(disk.triggers, made', boarded')
  <2>1. disk \in Store /\ FilesSound(disk.files, files) /\ TriggersSound(disk.triggers, made, boarded)
    BY DEF IndInv, StoreSound
  <2>2. \A i \in DOMAIN disk.files : disk.files[i].fileId \in Nat
    <3>1. \A i \in DOMAIN disk.files : disk.files[i] \in Entry
      BY <2>1 DEF FilesSound
    <3> QED
      BY <3>1, BoundAssumption DEF Entry
  <2>3. files \in Nat /\ files <= files'
    BY <1>2, <1>3, BoundAssumption DEF Counters
  <2>4. disk.files \in Seq(Entry) /\ \A i \in DOMAIN disk.files : disk.files[i].fileId <= files
    BY <2>1 DEF FilesSound
  <2>5. \A i \in DOMAIN disk.files : disk.files[i].fileId <= files'
    BY <1>3, <2>2, <2>3, <2>4
  <2> QED
    BY <1>1, <2>1, <2>4, <2>5 DEF FilesSound
<1>4. StoreSound(store)' /\ StoreSound(disk)' /\ loaded' \in BOOLEAN /\ faults' \in 0..MaxFaults
  BY <1>1, <1>3, <1>s, PersistSound
<1>5. Counters'
  BY <1>1, <1>2, <1>4 DEF Counters
<1>6. BoardSound(board, made)'
  BY <1>1, <1>2 DEF BoardSound, OneCard
<1> QED
  BY <1>4, <1>5, <1>6 DEF IndInv

\* Requests keep to their bound.
LEMMA RequestEdits ==
  ASSUME Counters, Request
  PROVE  edits' \in 0..MaxEdits
BY BoundAssumption DEF Counters, Request

\* An entry is replaced by one with an id that was given out.
LEMMA FileReplaced ==
  ASSUME NEW fs, NEW n \in Nat, FilesSound(fs, n), NEW i \in DOMAIN fs, NEW e \in Entry, e.fileId <= n
  PROVE  FilesSound([fs EXCEPT ![i] = e], n)
BY DEF FilesSound

\* A file is registered, or registered again.
LEMMA RegisterStep ==
  ASSUME IndInv, NEW f \in NewFiles, registerFile(f)
  PROVE  IndInv'
<1> DEFINE Row(id) == [fileId |-> id, filePath |-> f.filePath, ownerAgentId |-> f.ownerAgentId,
                       expectedUpdateHours |-> f.expectedUpdateHours, intentionallyStatic |-> f.intentionallyStatic]
<1>0. Counters /\ store \in Store /\ FilesSound(store.files, files) /\ TriggersSound(store.triggers, made, boarded)
  BY DEF IndInv, StoreSound
<1>1. files \in 0..MaxFiles /\ store.files \in Seq(Entry) /\ store.triggers \in Seq(Trigger)
  BY <1>0 DEF Counters, Store
<1>2. ASSUME NEW id \in 1..MaxFiles PROVE Row(id) \in Entry /\ Row(id).fileId = id
  BY InputAssumption DEF Entry
<1>3. edits' \in 0..MaxEdits /\ NoTask
  BY <1>0, RequestEdits DEF registerFile
<1>4. ASSUME NEW i \in DOMAIN store.files, files' = files,
             Persist([store EXCEPT !.files[i] = Row(store.files[i].fileId)])
      PROVE  IndInv'
  <2> DEFINE e == Row(store.files[i].fileId)
             fs == [store.files EXCEPT ![i] = e]
             s == WithFiles(store, fs)
  <2>1. store.files[i] \in Entry /\ store.files[i].fileId \in 1..MaxFiles /\ store.files[i].fileId <= files
    <3>1. store.files[i] \in Entry /\ store.files[i].fileId <= files
      BY <1>0, <1>1 DEF FilesSound
    <3> QED
      BY <3>1 DEF Entry
  <2>2. e \in Entry /\ e.fileId <= files
    BY <1>2, <2>1
  <2>3. Persist(s)
    BY <1>0, <1>4 DEF WithFiles, Store
  <2> HIDE DEF e
  <2>4. FilesSound(fs, files)
    BY <1>0, <1>1, <2>2, FileReplaced
  <2>5. fs \in Seq(Entry)
    BY <2>4 DEF FilesSound
  <2> HIDE DEF fs
  <2>6. s \in Store /\ s.files = fs /\ s.triggers = store.triggers
    BY <1>0, <1>1, <2>5, WithFields
  <2> HIDE DEF s
  <2> QED
    BY <1>0, <1>1, <1>3, <1>4, <2>3, <2>4, <2>6, RequestStep
<1>5. ASSUME files < MaxFiles, files' = files + 1,
             Persist([store EXCEPT !.files = Append(store.files, Row(files + 1))])
      PROVE  IndInv'
  <2> DEFINE e == Row(files + 1)
             fs == Append(store.files, e)
             s == WithFiles(store, fs)
  <2>1. files + 1 \in 1..MaxFiles /\ files' \in 0..MaxFiles
    BY <1>1, <1>5, BoundAssumption
  <2>2. e \in Entry /\ e.fileId = files + 1
    BY <1>2, <2>1
  <2>3. Persist(s)
    BY <1>5 DEF WithFiles
  <2> HIDE DEF e
  <2>4. fs \in Seq(Entry) /\ \A i \in DOMAIN fs : fs[i].fileId <= files + 1
    <3>1. /\ fs \in Seq(Entry) /\ DOMAIN fs = 1..(Len(store.files) + 1) /\ Len(store.files) \in Nat
          /\ fs[Len(store.files) + 1] = e /\ \A i \in 1..Len(store.files) : fs[i] = store.files[i]
      BY <1>1, <2>2
    <3>2. \A i \in 1..Len(store.files) : store.files[i] \in Entry /\ store.files[i].fileId <= files
      BY <1>0, <1>1 DEF FilesSound
    <3>3. \A i \in 1..Len(store.files) : store.files[i].fileId <= files + 1
      BY <1>1, <3>2, BoundAssumption DEF Entry
    <3>4. \A i \in 1..(Len(store.files) + 1) : i \in 1..Len(store.files) \/ i = Len(store.files) + 1
      BY <3>1
    <3> HIDE DEF fs
    <3> QED
      BY <1>1, <2>1, <2>2, <3>1, <3>3, <3>4
  <2> HIDE DEF fs
  <2>5. s \in Store /\ s.files = fs /\ s.triggers = store.triggers
    BY <1>0, <1>1, <2>4, WithFields
  <2> HIDE DEF s
  <2>6. FilesSound(s.files, files')
    BY <1>5, <2>4, <2>5 DEF FilesSound
  <2> QED
    BY <1>0, <1>3, <1>5, <2>1, <2>3, <2>5, <2>6, RequestStep
<1> QED
  BY <1>4, <1>5 DEF registerFile

\* A patch keeps the file's id.
LEMMA UpdateStep ==
  ASSUME IndInv, NEW i \in DOMAIN store.files, NEW new \in Patched(store.files[i]), updateFile(i, new)
  PROVE  IndInv'
<1>0. Counters /\ store \in Store /\ FilesSound(store.files, files) /\ TriggersSound(store.triggers, made, boarded)
  BY DEF IndInv, StoreSound
<1>1. files \in 0..MaxFiles /\ store.files \in Seq(Entry) /\ store.triggers \in Seq(Trigger)
  BY <1>0 DEF Counters, Store
<1>2. edits' \in 0..MaxEdits /\ NoTask /\ files' = files
  BY <1>0, RequestEdits DEF updateFile
<1> DEFINE e == store.files[i]
           fs == [store.files EXCEPT ![i] = new]
           s == WithFiles(store, fs)
<1>3. e \in Entry /\ e.fileId <= files
  BY <1>0, <1>1 DEF FilesSound
<1>4. new \in Entry /\ new.fileId = e.fileId
  <2>1. ASSUME NEW a \in Agents, new = [e EXCEPT !.ownerAgentId = a] PROVE new \in Entry /\ new.fileId = e.fileId
    BY <1>3, <2>1 DEF Entry
  <2>2. ASSUME NEW h \in Hours, new = [e EXCEPT !.expectedUpdateHours = h] PROVE new \in Entry /\ new.fileId = e.fileId
    BY <1>3, <2>2 DEF Entry
  <2>3. ASSUME NEW b \in BOOLEAN, new = [e EXCEPT !.intentionallyStatic = b] PROVE new \in Entry /\ new.fileId = e.fileId
    BY <1>3, <2>3 DEF Entry
  <2> QED
    BY <2>1, <2>2, <2>3 DEF Patched
<1>5. Persist(s)
  BY <1>0 DEF updateFile, WithFiles, Store
<1>6. FilesSound(fs, files)
  BY <1>0, <1>1, <1>3, <1>4, FileReplaced
<1>7. fs \in Seq(Entry)
  BY <1>6 DEF FilesSound
<1> HIDE DEF fs, e
<1>8. s \in Store /\ s.files = fs /\ s.triggers = store.triggers
  BY <1>0, <1>1, <1>7, WithFields
<1> HIDE DEF s
<1> QED
  BY <1>0, <1>1, <1>2, <1>5, <1>6, <1>8, RequestStep

\* A file is dropped; its triggers stay.
LEMMA UnregisterStep ==
  ASSUME IndInv, NEW i \in DOMAIN store.files, unregisterFile(i)
  PROVE  IndInv'
<1>0. Counters /\ store \in Store /\ FilesSound(store.files, files) /\ TriggersSound(store.triggers, made, boarded)
  BY DEF IndInv, StoreSound
<1>1. /\ files \in 0..MaxFiles /\ store.files \in Seq(Entry) /\ store.triggers \in Seq(Trigger)
      /\ Len(store.files) \in Nat /\ i \in 1..Len(store.files)
  BY <1>0 DEF Counters, Store
<1>2. edits' \in 0..MaxEdits /\ NoTask /\ files' = files
  BY <1>0, RequestEdits DEF unregisterFile
<1> DEFINE Known == {e \in Entry : e.fileId <= files}
           fs == RemoveAt(store.files, i)
           s == WithFiles(store, fs)
<1>3. store.files \in Seq(Known)
  BY <1>0, <1>1 DEF FilesSound
<1> HIDE DEF Known
<1>4. SubSeq(store.files, 1, i - 1) \in Seq(Known) /\ SubSeq(store.files, i + 1, Len(store.files)) \in Seq(Known)
  <2>1. \A j \in 1..(i - 1) : store.files[j] \in Known
    BY <1>1, <1>3
  <2>2. \A j \in (i + 1)..Len(store.files) : store.files[j] \in Known
    BY <1>1, <1>3
  <2> QED
    BY <1>1, <1>3, <2>1, <2>2, SubSeqProperties
<1>5. fs \in Seq(Known)
  BY <1>4, ConcatProperties DEF RemoveAt
<1>6. Persist(s)
  BY DEF unregisterFile, WithFiles
<1> HIDE DEF fs
<1>7. FilesSound(fs, files) /\ fs \in Seq(Entry)
  BY <1>5 DEF FilesSound, Known
<1>8. s \in Store /\ s.files = fs /\ s.triggers = store.triggers
  BY <1>0, <1>1, <1>7, WithFields
<1> HIDE DEF s
<1> QED
  BY <1>0, <1>1, <1>2, <1>6, <1>7, <1>8, RequestStep

\* A trigger is acknowledged or resolved by a request.
LEMMA StatusStep ==
  ASSUME IndInv, NEW i \in DOMAIN store.triggers, acknowledgeTrigger(i) \/ resolveTrigger(i)
  PROVE  IndInv'
<1>0. Counters /\ store \in Store /\ FilesSound(store.files, files) /\ TriggersSound(store.triggers, made, boarded)
  BY DEF IndInv, StoreSound
<1>1. files \in 0..MaxFiles /\ store.files \in Seq(Entry) /\ store.triggers \in Seq(Trigger) /\ made \in Nat
  BY <1>0 DEF Counters, Store
<1>2. edits' \in 0..MaxEdits /\ NoTask /\ files' = files
  BY <1>0, RequestEdits DEF acknowledgeTrigger, resolveTrigger
<1>3. PICK st \in {"acknowledged", "resolved"} :
        /\ Persist([store EXCEPT !.triggers[i].status = st])
        /\ isOpenTriggerStatus(st) => isOpenTriggerStatus(store.triggers[i].status)
  BY DEF acknowledgeTrigger, resolveTrigger, isOpenTriggerStatus
<1> DEFINE t == store.triggers[i]
           u == StatusSet(t, st)
           us == [store.triggers EXCEPT ![i] = u]
           s == WithTriggers(store, us)
<1>4. t \in Trigger
  BY <1>1
<1>5. Persist(s)
  BY <1>0, <1>3 DEF WithTriggers, StatusSet, Store
<1>6. u \in Trigger /\ u.fileId = t.fileId /\ u.triggerId = t.triggerId /\ u.taskId = t.taskId /\ u.status = st
  BY <1>4, StatusFields DEF TriggerStatus
<1> HIDE DEF u
<1>7. us \in Seq(Trigger) /\ Len(us) = Len(store.triggers)
      /\ us[i] = u /\ \A j \in DOMAIN store.triggers : j # i => us[j] = store.triggers[j]
  BY <1>1, <1>6
<1> HIDE DEF us
<1>8. Restated(us, store.triggers)
  BY <1>3, <1>6, <1>7 DEF Restated
<1>9. TriggersSound(us, made, boarded)
  BY <1>0, <1>1, <1>8, RestatedSound
<1>10. s \in Store /\ s.files = store.files /\ s.triggers = us
  BY <1>0, <1>1, <1>7, WithFields
<1> HIDE DEF s
<1> QED
  BY <1>0, <1>1, <1>2, <1>5, <1>9, <1>10, RequestStep

-----------------------------------------------------------------------------
(* Checks, crashes and the board's other users *)

\* The files of the stores do not change, and cards and ids only get more.
LEMMA StaysSound ==
  ASSUME Counters, NEW s, StoreSound(s), NEW n \in Nat, made <= n, NEW cards, boarded \subseteq cards
  PROVE  s \in Store /\ FilesSound(s.files, files) /\ TriggersSound(s.triggers, n, cards)
BY MoreIds DEF StoreSound, Counters

\* What a check did to the board, and what is left when the board is lost.
LEMMA CheckLeaves ==
  ASSUME Counters, NEW acc, AccSound(acc)
  PROVE  /\ acc.made \in Nat /\ made <= acc.made /\ BoardSound(acc.board, acc.made)
         /\ TriggersSound(acc.triggers, acc.made, boarded \cup DOMAIN acc.board)
         /\ boarded \cup DOMAIN acc.board \subseteq 1..acc.made
         /\ touched \subseteq 1..acc.made /\ ended \cup DOMAIN acc.board \subseteq 1..acc.made
         /\ BoardSound(NoCards, acc.made) /\ acc.triggers \in Seq(Trigger)
<1>1. acc.made \in Nat /\ made \in Nat /\ made <= acc.made /\ acc.triggers \in Seq(Trigger)
  BY DEF AccSound, Acc, Counters
<1>2. boarded \subseteq 1..acc.made /\ touched \subseteq 1..acc.made /\ ended \subseteq 1..acc.made
  BY <1>1 DEF Counters
<1>3. DOMAIN acc.board \subseteq 1..acc.made
  BY DEF AccSound, BoardSound
<1>4. BoardSound(NoCards, acc.made)
  <2>1. DOMAIN NoCards = {} /\ NoCards = [c \in DOMAIN NoCards |-> NoCards[c]]
    BY DEF NoCards
  <2>2. NoCards \in Boards
    BY <2>1, FunctionBoard
  <2> QED
    BY <2>1, <2>2 DEF BoardSound, OneCard
<1> QED
  BY <1>1, <1>2, <1>3, <1>4 DEF AccSound

\* touched does not change, so neither does what OneCard asks.
LEMMA BoardKept ==
  ASSUME NEW b, NEW n, BoardSound(b, n), touched' = touched, board' = b, made' = n
  PROVE  BoardSound(board, made)'
BY DEF BoardSound, OneCard

\* A check that completes, throws or is cut short, wherever it is cut.
LEMMA CheckStep ==
  ASSUME IndInv, Check
  PROVE  IndInv'
<1>0. Counters /\ StoreSound(store) /\ StoreSound(disk)
  BY DEF IndInv
<1>1. store \in Store /\ store.files \in Seq(Entry) /\ Len(store.files) \in Nat
  BY <1>0 DEF StoreSound, Store
<1>2. PICK n \in 0..Len(store.files) : (n = Len(store.files) /\ CheckCompletes) \/ CheckThrows(n) \/ CheckCrashes(n)
  BY <1>1 DEF Check
<1> DEFINE acc == After(n)
           cards == boarded \cup DOMAIN acc.board
           s == WithTriggers(store, acc.triggers)
<1>3. AccSound(acc)
  BY AfterSound
<1> HIDE DEF acc
<1>4. /\ acc.made \in Nat /\ made <= acc.made /\ BoardSound(acc.board, acc.made)
      /\ TriggersSound(acc.triggers, acc.made, cards) /\ cards \subseteq 1..acc.made
      /\ touched \subseteq 1..acc.made /\ ended \cup DOMAIN acc.board \subseteq 1..acc.made
      /\ BoardSound(NoCards, acc.made) /\ acc.triggers \in Seq(Trigger)
  BY <1>0, <1>3, CheckLeaves
<1>5. s \in Store /\ s.files = store.files /\ s.triggers = acc.triggers
  BY <1>1, <1>4, WithFields
<1>6. FilesSound(store.files, files) /\ files \in 0..MaxFiles /\ files \in Nat
  BY <1>0, BoundAssumption DEF StoreSound, Counters
<1>7. disk \in Store /\ FilesSound(disk.files, files) /\ TriggersSound(disk.triggers, acc.made, cards)
  BY <1>0, <1>4, StaysSound
<1>8. UNCHANGED <<age, files, touched, edits>> /\ made' = acc.made /\ boarded' = cards
  <2>1. CASE CheckCompletes /\ n = Len(store.files)
    BY <2>1 DEF CheckCompletes, SavesBoard, acc
  <2>2. CASE CheckThrows(n)
    BY <2>2 DEF CheckThrows, SavesBoard, acc
  <2>3. CASE CheckCrashes(n)
    BY <2>3 DEF CheckCrashes, SavesBoard, BoardLost, acc
  <2> QED
    BY <1>2, <2>1, <2>2, <2>3
<1>9. ASSUME store' = s PROVE StoreSound(store)'
  BY <1>4, <1>5, <1>6, <1>8, <1>9 DEF StoreSound
<1>10. ASSUME disk' = disk PROVE StoreSound(disk)'
  BY <1>7, <1>8, <1>10 DEF StoreSound
<1>11. ASSUME faults < MaxFaults, faults' = faults + 1 PROVE faults' \in 0..MaxFaults
  BY <1>0, <1>11, BoundAssumption DEF Counters
<1>12. ASSUME board' = acc.board PROVE BoardSound(board, made)'
  BY <1>4, <1>8, <1>12, BoardKept
<1>13. ASSUME loaded' \in BOOLEAN, faults' \in 0..MaxFaults, ended' \subseteq 1..made' PROVE Counters'
  BY <1>0, <1>4, <1>8, <1>13 DEF Counters
<1>14. CASE CheckCompletes /\ n = Len(store.files)
  <2>1. board' = acc.board /\ ended' = ended /\ Persist(s)
    BY <1>14 DEF CheckCompletes, SavesBoard, acc, WithTriggers
  <2>2. /\ made' \in Nat /\ files' \in Nat /\ FilesSound(s.files, files') /\ TriggersSound(s.triggers, made', boarded')
        /\ disk \in Store /\ FilesSound(disk.files, files') /\ TriggersSound(disk.triggers, made', boarded')
    BY <1>4, <1>5, <1>6, <1>7, <1>8
  <2>3. loaded \in BOOLEAN /\ faults \in 0..MaxFaults
    BY <1>0 DEF Counters
  <2> HIDE DEF s, cards
  <2>4. StoreSound(store)' /\ StoreSound(disk)' /\ loaded' \in BOOLEAN /\ faults' \in 0..MaxFaults
    BY <1>5, <2>1, <2>2, <2>3, PersistSound
  <2>5. ended' \subseteq 1..made'
    BY <1>4, <1>8, <2>1
  <2> QED
    BY <1>12, <1>13, <2>1, <2>4, <2>5 DEF IndInv
<1>15. CASE CheckThrows(n)
  <2>1. /\ board' = acc.board /\ store' = s /\ faults < MaxFaults /\ faults' = faults + 1
        /\ UNCHANGED <<loaded, disk, ended>>
    BY <1>15 DEF CheckThrows, SavesBoard, acc, WithTriggers
  <2>2. loaded' \in BOOLEAN /\ ended' \subseteq 1..made'
    BY <1>0, <1>4, <1>8, <2>1 DEF Counters
  <2> QED
    BY <1>9, <1>10, <1>11, <1>12, <1>13, <2>1, <2>2 DEF IndInv
<1>16. CASE CheckCrashes(n)
  <2>1. /\ store' = EmptyStore /\ faults < MaxFaults /\ faults' = faults + 1 /\ loaded' = FALSE /\ disk' = disk
        /\ \/ board' = acc.board /\ ended' = ended
           \/ board' = NoCards /\ ended' = ended \cup DOMAIN acc.board
    BY <1>16 DEF CheckCrashes, Down, SavesBoard, BoardLost, acc
  <2>2. ended' \subseteq 1..made'
    BY <1>4, <1>8, <2>1
  <2>3. /\ EmptyStore \in Store /\ FilesSound(EmptyStore.files, files')
        /\ TriggersSound(EmptyStore.triggers, made', boarded')
    BY <1>4, <1>6, <1>8, EmptySound
  <2>4. StoreSound(store)'
    BY <2>1, <2>3 DEF StoreSound
  <2>5. BoardSound(board, made)'
    BY <1>4, <1>8, <2>1, BoardKept
  <2> QED
    BY <1>10, <1>11, <1>13, <2>1, <2>2, <2>4, <2>5 DEF IndInv
<1> QED
  BY <1>2, <1>14, <1>15, <1>16

\* What changes is the board or the files; the engine's stores stay.
LEMMA StoresKept ==
  ASSUME StoreSound(store), StoreSound(disk), UNCHANGED <<store, disk, files, made, boarded>>
  PROVE  StoreSound(store)' /\ StoreSound(disk)'
BY DEF StoreSound

\* The board with card c changed.
CardSet(b, c, card) == [b EXCEPT ![c] = card]

\* A card that is closed or changed by hand makes no second open card of the engine.
LEMMA CardChanged ==
  ASSUME NEW b, NEW n \in Nat, BoardSound(b, n), NEW c \in DOMAIN b, NEW card \in Card,
         touched \subseteq touched', board' = CardSet(b, c, card), made' = n,
         c \in touched' \/ ~card.open
  PROVE  BoardSound(board, made)'
<1>1. b \in Boards /\ DOMAIN b \subseteq 1..n /\ OneCard(b)
  BY DEF BoardSound
<1>2. b = [d \in DOMAIN b |-> b[d]] /\ DOMAIN b \subseteq Nat /\ \A d \in DOMAIN b : b[d] \in Card
  BY <1>1, BoardFunction
<1>3. /\ DOMAIN board' = DOMAIN b /\ board'[c] = card /\ board' = [d \in DOMAIN board' |-> board'[d]]
      /\ \A d \in DOMAIN b : d # c => board'[d] = b[d]
  BY <1>2 DEF CardSet
<1>4. board' \in Boards
  BY <1>2, <1>3, FunctionBoard
<1>5. OneCard(board)'
  BY <1>1, <1>3 DEF OneCard
<1> QED
  BY <1>1, <1>3, <1>4, <1>5 DEF BoardSound

\* Files grow old, and cards are finished, reopened, given away and removed.
LEMMA OthersStep ==
  ASSUME IndInv, Others
  PROVE  IndInv'
<1>0. Counters /\ StoreSound(store) /\ StoreSound(disk) /\ BoardSound(board, made)
  BY DEF IndInv
<1>n. made \in Nat /\ touched \subseteq 1..made /\ ended \subseteq 1..made /\ board \in Boards /\ DOMAIN board \subseteq 1..made
  BY <1>0 DEF Counters, BoardSound
<1>b. \A c \in DOMAIN board : board[c] \in Card
  BY <1>n, BoardFunction
<1>1. ASSUME NEW p \in Paths, NEW a \in Ages \cup {Missing}, FileChanges(p, a) PROVE IndInv'
  <2>1. UNCHANGED <<loaded, store, disk, board, files, made, boarded, touched, ended, faults>>
    BY <1>1 DEF FileChanges
  <2>2. age' \in [Paths -> Ages \cup {Missing}] /\ edits' \in 0..MaxEdits
    BY <1>0, <1>1, BoundAssumption DEF FileChanges, Counters
  <2>3. Counters'
    BY <1>0, <2>1, <2>2 DEF Counters
  <2>4. BoardSound(board, made)'
    BY <1>0, <2>1, BoardKept
  <2> QED
    BY <1>0, <2>1, <2>3, <2>4, StoresKept DEF IndInv
<1>2. ASSUME BoardRequest, touched' \subseteq 1..made, ended' \subseteq 1..made, BoardSound(board, made)' PROVE IndInv'
  <2>1. UNCHANGED <<age, loaded, store, disk, files, made, boarded, faults>>
    BY <1>2 DEF BoardRequest
  <2>2. edits' \in 0..MaxEdits
    BY <1>0, <1>2, BoundAssumption DEF BoardRequest, Counters
  <2>3. Counters'
    BY <1>0, <1>2, <2>1, <2>2 DEF Counters
  <2> QED
    BY <1>0, <1>2, <2>1, <2>3, StoresKept DEF IndInv
<1>3. ASSUME NEW c \in DOMAIN board, CardFinished(c) PROVE IndInv'
  <2> DEFINE card == [board[c] EXCEPT !.open = FALSE]
  <2>1. /\ BoardRequest /\ board' = CardSet(board, c, card) /\ ended' = ended \cup {c} /\ touched' = touched
        /\ made' = made
    BY <1>3 DEF CardFinished, BoardRequest, CardSet
  <2>2. card \in Card /\ card.open = FALSE
    BY <1>b DEF Card
  <2> HIDE DEF card
  <2>3. BoardSound(board, made)'
    BY <1>0, <1>n, <2>1, <2>2, CardChanged
  <2> QED
    BY <1>2, <1>n, <2>1, <2>3
<1>4. ASSUME NEW c \in DOMAIN board, CardReopened(c) PROVE IndInv'
  <2> DEFINE card == [board[c] EXCEPT !.open = TRUE]
  <2>1. /\ BoardRequest /\ board' = CardSet(board, c, card) /\ ended' = ended /\ touched' = touched \cup {c}
        /\ made' = made
    BY <1>4 DEF CardReopened, BoardRequest, CardSet
  <2>2. card \in Card
    BY <1>b DEF Card
  <2> HIDE DEF card
  <2>3. BoardSound(board, made)'
    BY <1>0, <1>n, <2>1, <2>2, CardChanged
  <2> QED
    BY <1>2, <1>n, <2>1, <2>3
<1>5. ASSUME NEW c \in DOMAIN board, NEW a \in Agents, CardMoves(c, a) PROVE IndInv'
  <2> DEFINE card == [board[c] EXCEPT !.assigneeId = a]
  <2>1. /\ BoardRequest /\ board' = CardSet(board, c, card) /\ ended' = ended \cup {c} /\ touched' = touched \cup {c}
        /\ made' = made
    BY <1>5 DEF CardMoves, BoardRequest, CardSet
  <2>2. card \in Card
    BY <1>b DEF Card
  <2> HIDE DEF card
  <2>3. BoardSound(board, made)'
    BY <1>0, <1>n, <2>1, <2>2, CardChanged
  <2> QED
    BY <1>2, <1>n, <2>1, <2>3
<1>6. ASSUME NEW c \in DOMAIN board, CardRemoved(c) PROVE IndInv'
  <2>1. /\ BoardRequest /\ board' = [d \in DOMAIN board \ {c} |-> board[d]] /\ ended' = ended \cup {c}
        /\ touched' = touched /\ made' = made
    BY <1>6 DEF CardRemoved, BoardRequest
  <2>2. /\ DOMAIN board' = DOMAIN board \ {c} /\ \A d \in DOMAIN board' : board'[d] = board[d]
        /\ board' = [d \in DOMAIN board' |-> board'[d]]
    BY <2>1
  <2>3. board' \in Boards
    BY <1>b, <1>n, <2>2, FunctionBoard
  <2>4. BoardSound(board, made)'
    BY <1>0, <1>n, <2>1, <2>2, <2>3 DEF BoardSound, OneCard
  <2> QED
    BY <1>2, <1>n, <2>1, <2>4
<1> QED
  BY <1>1, <1>3, <1>4, <1>5, <1>6 DEF Others

\* A crash outside a check.
LEMMA CrashStep ==
  ASSUME IndInv, Crash
  PROVE  IndInv'
<1>0. Counters /\ StoreSound(disk) /\ BoardSound(board, made) /\ made \in Nat /\ files \in Nat
  BY BoundAssumption DEF IndInv, Counters
<1>1. /\ faults < MaxFaults /\ faults' = faults + 1 /\ loaded' = FALSE /\ store' = EmptyStore
      /\ UNCHANGED <<age, disk, files, made, touched, edits>>
      /\ \/ UNCHANGED <<board, boarded, ended>>
         \/ board' = NoCards /\ ended' = ended \cup DOMAIN board /\ boarded' = boarded \cup DOMAIN board
  BY DEF Crash, Down, BoardLost
<1>2. faults' \in 0..MaxFaults
  BY <1>0, <1>1, BoundAssumption DEF Counters
<1>3. boarded \subseteq boarded' /\ boarded' \subseteq 1..made /\ ended' \subseteq 1..made
  BY <1>0, <1>1 DEF Counters, BoardSound
<1>4. Counters'
  BY <1>0, <1>1, <1>2, <1>3 DEF Counters
<1>5. StoreSound(store)'
  <2>1. /\ EmptyStore \in Store /\ FilesSound(EmptyStore.files, files')
        /\ TriggersSound(EmptyStore.triggers, made', boarded')
    BY <1>0, <1>1, EmptySound
  <2> QED
    BY <1>1, <2>1 DEF StoreSound
<1>6. StoreSound(disk)'
  <2>1. disk \in Store /\ FilesSound(disk.files, files) /\ TriggersSound(disk.triggers, made, boarded')
    BY <1>0, <1>3, StaysSound
  <2> QED
    BY <1>1, <2>1 DEF StoreSound
<1>7. BoardSound(NoCards, made)
  <2>1. DOMAIN NoCards = {} /\ NoCards = [c \in DOMAIN NoCards |-> NoCards[c]]
    BY DEF NoCards
  <2>2. NoCards \in Boards
    BY <2>1, FunctionBoard
  <2> QED
    BY <2>1, <2>2 DEF BoardSound, OneCard
<1>8. BoardSound(board, made)'
  BY <1>0, <1>1, <1>7, BoardKept
<1> QED
  BY <1>4, <1>5, <1>6, <1>8 DEF IndInv

-----------------------------------------------------------------------------
(* Theorems *)

\* IndInv is an inductive invariant of the living-files engine.
THEOREM Inductive == Spec => []IndInv
<1>1. Init => IndInv
  <2> SUFFICES ASSUME Init PROVE IndInv
    OBVIOUS
  <2>1. Counters
    <3>1. 0 \in 0..MaxFiles /\ 0 \in 0..MaxEdits /\ 0 \in 0..MaxFaults /\ 0 \in Nat
      BY BoundAssumption
    <3>2. files \in 0..MaxFiles /\ edits \in 0..MaxEdits /\ faults \in 0..MaxFaults /\ made \in Nat
      BY <3>1 DEF Init
    <3>3. age \in [Paths -> Ages \cup {Missing}] /\ loaded \in BOOLEAN
      BY DEF Init
    <3>4. boarded \subseteq 1..made /\ touched \subseteq 1..made /\ ended \subseteq 1..made
      BY DEF Init
    <3> QED
      BY <3>2, <3>3, <3>4 DEF Counters
  <2>2. StoreSound(store) /\ StoreSound(disk)
    <3>1. /\ EmptyStore \in Store /\ FilesSound(EmptyStore.files, 0) /\ TriggersSound(EmptyStore.triggers, 0, {})
      BY EmptySound
    <3> QED
      BY <3>1 DEF Init, StoreSound
  <2>3. BoardSound(board, made)
    <3>1. DOMAIN NoCards = {} /\ NoCards = [c \in DOMAIN NoCards |-> NoCards[c]]
      BY DEF NoCards
    <3>2. NoCards \in Boards
      BY <3>1, FunctionBoard
    <3> QED
      BY <3>1, <3>2 DEF Init, BoardSound, OneCard
  <2> QED
    BY <2>1, <2>2, <2>3 DEF IndInv
<1>2. IndInv /\ [Next]_vars => IndInv'
  <2> SUFFICES ASSUME IndInv, [Next]_vars PROVE IndInv'
    OBVIOUS
  <2>0. Counters /\ StoreSound(store) /\ StoreSound(disk) /\ BoardSound(board, made)
    BY DEF IndInv
  <2>1. CASE UNCHANGED vars
    <3>1. Counters'
      BY <2>0, <2>1 DEF vars, Counters
    <3>2. BoardSound(board, made)'
      BY <2>0, <2>1, BoardKept DEF vars
    <3> QED
      BY <2>0, <2>1, <3>1, <3>2, StoresKept DEF vars, IndInv
  <2>2. CASE CheckOnly
    <3>1. NoTask /\ Persist(store) /\ UNCHANGED <<files, edits>>
      BY <2>2 DEF CheckOnly
    <3>2. /\ store \in Store /\ FilesSound(store.files, files') /\ TriggersSound(store.triggers, made, boarded)
          /\ files' \in 0..MaxFiles /\ edits' \in 0..MaxEdits
      BY <2>0, <3>1 DEF StoreSound, Counters
    <3> QED
      BY <3>1, <3>2, RequestStep
  <2>3. CASE Load
    <3>1. loaded' = TRUE /\ store' = disk /\ UNCHANGED <<disk, files, edits, faults, age, board, made, boarded, touched, ended>>
      BY <2>3 DEF Load, NoTask
    <3>2. Counters'
      BY <2>0, <3>1 DEF Counters
    <3>3. BoardSound(board, made)'
      BY <2>0, <3>1, BoardKept
    <3>4. StoreSound(store)' /\ StoreSound(disk)'
      BY <2>0, <3>1 DEF StoreSound
    <3> QED
      BY <3>2, <3>3, <3>4 DEF IndInv
  <2>4. CASE Requests
    BY <2>2, <2>4, RegisterStep, UpdateStep, UnregisterStep, StatusStep DEF Requests
  <2> QED
    BY <2>1, <2>3, <2>4, CheckStep, OthersStep, CrashStep DEF Next
<1> QED
  BY <1>1, <1>2, PTL DEF Spec

\* A set without two elements has at most one.
LEMMA AtMostOne ==
  ASSUME NEW S, \A x, y \in S : x = y
  PROVE  Cardinality(S) <= 1
<1>1. CASE S = {}
  BY <1>1, FS_EmptySet
<1>2. CASE S # {}
  <2>1. PICK x \in S : S = {x}
    BY <1>2
  <2> QED
    BY <2>1, FS_Singleton
<1> QED
  BY <1>1, <1>2

\* The state is well typed, and a file has at most one open trigger, in memory and on disk,
\* for any number of files and triggers and whatever fault cuts a check.
THEOREM TriggersAreSingle == Spec => []OneOpenTrigger
<1>1. IndInv => OneOpenTrigger
  <2> SUFFICES ASSUME IndInv PROVE OneOpenTrigger
    OBVIOUS
  <2>0. Counters /\ StoreSound(store) /\ StoreSound(disk) /\ BoardSound(board, made)
    BY DEF IndInv
  <2>1. ASSUME NEW s, StoreSound(s) PROVE StoreOK(s)
    <3>1. s.triggers \in Seq(Trigger) /\ Len(s.triggers) <= MAX_TRIGGER_HISTORY
      BY <2>1 DEF StoreSound, TriggersSound
    <3>2. \A i \in DOMAIN s.triggers : s.triggers[i].status \in TriggerStatus
      <4>1. \A i \in DOMAIN s.triggers : s.triggers[i] \in Trigger
        BY <3>1
      <4> QED
        BY <4>1 DEF Trigger
    <3>3. \A i \in DOMAIN s.triggers : s.triggers[i].triggerId \in 1..made /\ s.triggers[i].taskId \in 1..made
      BY <2>1 DEF StoreSound, TriggersSound
    <3>4. s.files \in Seq(Entry) /\ \A i \in DOMAIN s.files : s.files[i].fileId <= files
      BY <2>1 DEF StoreSound, FilesSound
    <3> QED
      BY <3>1, <3>2, <3>3, <3>4 DEF StoreOK
  <2>2. DOMAIN board \subseteq 1..made /\ \A c \in DOMAIN board : board[c] \in Card
    BY <2>0, BoardFunction DEF BoardSound
  <2>3. TypeOK
    BY <2>0, <2>1, <2>2 DEF TypeOK, Counters
  <2>4. ASSUME NEW s \in {store, disk}, NEW f \in 1..MaxFiles PROVE Cardinality(OpenOf(s, f)) <= 1
    <3>1. OpenOnce(s.triggers)
      BY <2>0 DEF StoreSound, TriggersSound
    <3>2. \A i, j \in OpenOf(s, f) : i = j
      BY <3>1 DEF OpenOf, OpenOnce
    <3> QED
      BY <3>2, AtMostOne
  <2> QED
    BY <2>3, <2>4 DEF OneOpenTrigger
<1> QED
  BY Inductive, <1>1, PTL

\* However often a check is cut and repeated, the engine puts no second open card for a file
\* on its owner's list.
THEOREM CardsAreSingle == Spec => []NoDuplicateCards
<1>1. IndInv => NoDuplicateCards
  <2> SUFFICES ASSUME IndInv, NEW p \in Paths, NEW a \in Agents
               PROVE  Cardinality({c \in DOMAIN board \ touched :
                        board[c].open /\ board[c].filePath = p /\ board[c].assigneeId = a}) <= 1
    BY DEF NoDuplicateCards
  <2>1. OneCard(board)
    BY DEF IndInv, BoardSound
  <2> DEFINE S == {c \in DOMAIN board \ touched :
                     board[c].open /\ board[c].filePath = p /\ board[c].assigneeId = a}
  <2>2. \A c, d \in S : c = d
    BY <2>1 DEF OneCard
  <2> HIDE DEF S
  <2>3. Cardinality(S) <= 1
    BY <2>2, AtMostOne
  <2> QED
    BY <2>3 DEF S
<1> QED
  BY Inductive, <1>1, PTL

\* No crash leaves a trigger on disk whose card was never saved.
THEOREM TriggersHaveCards == Spec => []TriggerHadCard
<1>1. IndInv => TriggerHadCard
  BY DEF IndInv, StoreSound, TriggersSound, TriggerHadCard
<1> QED
  BY Inductive, <1>1, PTL

=============================================================================
