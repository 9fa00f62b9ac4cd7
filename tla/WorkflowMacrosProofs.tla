------------------------ MODULE WorkflowMacrosProofs ------------------------
(***************************************************************************)
(* Proofs about WorkflowMacros, for any workflows: a rollback goes in      *)
(* reverse and begins when nothing runs any more, the result is true, and  *)
(* an abort stops every worker.                                            *)
(***************************************************************************)
EXTENDS WorkflowMacros, FiniteSetTheorems, SequenceTheorems, TLAPS

\* Where a command is undone: what comes before what.
UndoneBefore(x, y) == x[1] > y[1] \/ (x[1] = y[1] /\ (x[2] = y[2] => x[3] > y[3]))

\* Records as a batch makes them: of one step, each item's commands in their order.
RecordsSound(s, i) ==
  /\ \A m \in DOMAIN s : s[m][1] = i
  /\ \A m, n \in DOMAIN s : m < n /\ s[m][2] = s[n][2] => s[m][3] < s[n][3]

\* The stack holds earlier steps, in the order they were executed in.
StackSound ==
  /\ \A i \in DOMAIN executedStack :
       executedStack[i].step < at /\ RecordsSound(executedStack[i].records, executedStack[i].step)
  /\ \A i, j \in DOMAIN executedStack : i < j => executedStack[i].step < executedStack[j].step

\* What is undone comes before all that is left to undo.
UndoneSound ==
  /\ phase \in {"between", "step"} => undone = <<>> /\ ~rollback.attempted
  /\ \A m, n \in DOMAIN undone : m < n => UndoneBefore(undone[m], undone[n])
  /\ \A m \in DOMAIN undone : \A i \in DOMAIN executedStack : \A n \in DOMAIN executedStack[i].records :
       UndoneBefore(undone[m], executedStack[i].records[n])
  /\ phase = "returned" /\ rollback.attempted => executedStack = <<>> \/ aborted

\* The items: those that failed or are busy were taken, those recorded are not busy.
Item == [todo : SUBSET Nat, running : SUBSET (Nat \X Nat), waiting : SUBSET (Nat \X Nat), bad : BOOLEAN]
ItemsSound ==
  /\ active \in [DOMAIN active -> Item] /\ IsFiniteSet(DOMAIN active)
  /\ phase # "step" => active = << >>
  /\ failed + Cardinality(DOMAIN active) < nextIndex
  /\ phase = "step" => /\ RecordsSound(records, at)
                       /\ \A m \in DOMAIN records : records[m][2] \in 1..(nextIndex - 1) \ DOMAIN active

Busy(item, j) == j \in item.todo \/ \E r \in item.running \cup item.waiting : r[1] = j

\* What the cache, an item in progress, an item that succeeded and a step that
\* succeeded say of what was executed.
ExecutedSound ==
  /\ phase \in {"between", "step"} =>
       \A key \in cache : \E e \in done : CommandOf(e).idempotent /\ idempotencyKey(e) = key
  /\ \A k \in DOMAIN active : ~active[k].bad =>
       \A j \in DOMAIN step.commands : Busy(active[k], j) \/ Served(<<at, k, j>>)
  /\ phase = "step" /\ failed = 0 =>
       \A k \in 1..(nextIndex - 1) \ DOMAIN active : \A j \in DOMAIN step.commands : Served(<<at, k, j>>)
  /\ \A i \in DOMAIN steps : outcome[i] = "succeeded" =>
       \A k \in 1..steps[i].items, j \in DOMAIN steps[i].commands : Served(<<i, k, j>>)

OnStack(inv) == \E i \in DOMAIN executedStack : \E n \in DOMAIN executedStack[i].records :
                  executedStack[i].records[n] = inv
Undone(inv) == \E n \in DOMAIN undone : undone[n] = inv

\* What became of a command that had its effect, once its step has ended.
Settles(inv) == \/ outcome[inv[1]] = "failed" \/ OnStack(inv) \/ Undone(inv)
                \/ CommandOf(inv).undo # "handler" \/ rollback.errors \/ aborted

DoneSound ==
  /\ \A inv \in done : /\ inv[1] \in DOMAIN steps /\ inv[3] \in DOMAIN steps[inv[1]].commands
                       /\ inv[1] <= at /\ (phase = "between" => inv[1] < at)
  /\ phase = "step" =>
       \A inv \in done : inv[1] = at =>
         failed > 0 \/ inv[2] \in DOMAIN active \/ \E m \in DOMAIN records : records[m] = inv
  /\ \A inv \in done : (phase = "step" => inv[1] < at) => Settles(inv)

IndInv == TypeOK /\ StackSound /\ UndoneSound /\ ItemsSound /\ ExecutedSound /\ DoneSound

\* A record names a command of its step.
Known(s) == \A m \in DOMAIN s : s[m][1] \in DOMAIN steps /\ s[m][3] \in DOMAIN steps[s[m][1]].commands
RecordsKnown == Known(records) /\ \A i \in DOMAIN executedStack : Known(executedStack[i].records)

-----------------------------------------------------------------------------
(* Workflows *)

Entry == [step : 1..MaxSteps, own : BOOLEAN, records : Seq(Invocation)]

\* The parts of the type invariant: control, the batch, and what is kept of the run.
ControlTyped ==
  /\ workflow \in Workflows /\ dryRun \in BOOLEAN
  /\ phase \in {"between", "step", "rollback", "returned"}
  /\ at \in 1..(Len(steps) + 1) /\ (phase = "step" => at <= Len(steps))
ItemTyped(item) ==
  /\ item.todo \subseteq DOMAIN step.commands /\ item.bad \in BOOLEAN
  /\ \A r \in item.running \cup item.waiting : r[1] \in DOMAIN step.commands /\ r[2] \in 1..step.commands[r[1]].maxAttempts
  /\ \A r \in item.waiting : r[2] < step.commands[r[1]].maxAttempts
BatchTyped ==
  /\ nextIndex \in 1..(MaxItems + 1) /\ DOMAIN active \subseteq 1..(nextIndex - 1)
  /\ \A k \in DOMAIN active : ItemTyped(active[k])
  /\ hardFailure \in BOOLEAN /\ failed \in 0..MaxItems /\ records \in Seq(Invocation)
LogTyped ==
  /\ \A key \in cache : key[1] \in 0..MaxSteps /\ key[2] \in 0..MaxItems /\ key[3] \in STRING
  /\ executedStack \in Seq(Entry) /\ rollback \in [attempted : BOOLEAN, errors : BOOLEAN]
  /\ outcome \in [1..Len(steps) -> {"none", "skipped", "succeeded", "failed"}]
  /\ aborted \in BOOLEAN /\ done \subseteq Invocation /\ undone \in Seq(Invocation)

LEMMA TypeParts == TypeOK <=> ControlTyped /\ BatchTyped /\ LogTyped
BY DEF TypeOK, ControlTyped, BatchTyped, LogTyped, ItemTyped, Entry

LEMMA TypePartsPrime == TypeOK' <=> ControlTyped' /\ BatchTyped' /\ LogTyped'
BY DEF TypeOK, ControlTyped, BatchTyped, LogTyped, ItemTyped, Entry

LEMMA Bounds == MaxSteps \in Nat /\ MaxItems \in Nat /\ MaxCommands \in Nat
BY BoundAssumption

LEMMA StepsTyped ==
  ASSUME workflow \in Workflows
  PROVE  /\ steps \in Seq(Step) /\ Len(steps) \in 1..MaxSteps /\ DOMAIN steps = 1..Len(steps)
         /\ DOMAIN steps \subseteq 1..MaxSteps
         /\ workflow.rollbackOnFailure \in BOOLEAN
BY WorkflowAssumption, Bounds DEF steps

LEMMA StepFields ==
  ASSUME workflow \in Workflows, NEW i \in DOMAIN steps
  PROVE  /\ steps[i].commands \in Seq(Command)
         /\ Len(steps[i].commands) \in 1..MaxCommands
         /\ DOMAIN steps[i].commands = 1..Len(steps[i].commands)
         /\ DOMAIN steps[i].commands \subseteq 1..MaxCommands
         /\ steps[i].items \in 0..MaxItems /\ steps[i].concurrency \in Nat
         /\ steps[i].rollback \in BOOLEAN /\ steps[i].continueOnItemFailure \in BOOLEAN
<1>1. steps[i] \in Step
  BY StepsTyped
<1>2. steps[i].commands \in Seq(Command) /\ steps[i].items \in 0..MaxItems /\ steps[i].concurrency \in Nat
      /\ steps[i].rollback \in BOOLEAN /\ steps[i].continueOnItemFailure \in BOOLEAN
  BY <1>1 DEF Step
<1>3. Len(steps[i].commands) \in 1..MaxCommands
  BY WorkflowAssumption DEF steps
<1> QED
  BY <1>2, <1>3, Bounds, LenProperties

LEMMA CommandFields ==
  ASSUME workflow \in Workflows, NEW i \in DOMAIN steps, NEW j \in DOMAIN steps[i].commands
  PROVE  /\ steps[i].commands[j].key \in Key /\ steps[i].commands[j].undoKey \in Key
         /\ steps[i].commands[j].idempotent \in BOOLEAN
         /\ steps[i].commands[j].maxAttempts \in Nat \ {0}
         /\ steps[i].commands[j].undo \in {"none", "handler", "command"}
<1>1. steps[i].commands[j] \in Command
  BY StepFields
<1> QED
  BY <1>1 DEF Command

LEMMA KeyTyped ==
  ASSUME NEW key \in Key, NEW i \in 0..MaxSteps, NEW k \in 0..MaxItems
  PROVE  LET x == KeyFor(key, i, k) IN x[1] \in 0..MaxSteps /\ x[2] \in 0..MaxItems /\ x[3] \in STRING
<1>1. key.text \in STRING /\ 0 \in 0..MaxSteps /\ 0 \in 0..MaxItems
  BY Bounds DEF Key
<1> QED
  BY <1>1 DEF KeyFor

LEMMA InvocationIntro ==
  ASSUME workflow \in Workflows, NEW i \in DOMAIN steps, NEW k \in 1..MaxItems, NEW j \in DOMAIN steps[i].commands
  PROVE  <<i, k, j>> \in Invocation
BY StepsTyped, StepFields DEF Invocation

\* The last entry of a stack, and what is left without it.
LEMMA LastFront ==
  ASSUME NEW S, NEW s \in Seq(S), s # <<>>
  PROVE  /\ Len(s) \in Nat \ {0} /\ Last(s) \in S /\ Last(s) = s[Len(s)] /\ DOMAIN s = 1..Len(s)
         /\ Front(s) \in Seq(S) /\ Len(Front(s)) = Len(s) - 1 /\ DOMAIN Front(s) = 1..(Len(s) - 1)
         /\ \A n \in 1..(Len(s) - 1) : Front(s)[n] = s[n]
<1>1. Len(s) \in Nat /\ Len(s) # 0 /\ DOMAIN s = 1..Len(s)
  BY EmptySeq, LenProperties
<1>2. Last(s) \in S /\ Last(s) = s[Len(s)]
  BY <1>1, ElementOfSeq DEF Last
<1>3. 1 \in 1..(Len(s) + 1) /\ Len(s) - 1 \in 0..Len(s) /\ Len(s) - 1 \in (1 - 1)..Len(s)
  BY <1>1
<1>4. /\ Front(s) \in Seq(S)
      /\ Len(Front(s)) = Len(s) - 1
      /\ \A n \in 1..(Len(s) - 1) : Front(s)[n] = s[n]
  <2>1. ASSUME NEW n \in 1..(Len(s) - 1) PROVE s[n] \in S
    BY <1>1, ElementOfSeq
  <2> QED
    BY <1>1, <1>3, <2>1 DEF Front
<1> QED
  BY <1>1, <1>2, <1>4, LenProperties

-----------------------------------------------------------------------------
(* Init *)

LEMMA InitIndInv == Init => IndInv
<1> SUFFICES ASSUME Init PROVE IndInv
  OBVIOUS
<1> USE Bounds
<1>0. workflow \in Workflows /\ steps \in Seq(Step) /\ Len(steps) \in 1..MaxSteps /\ DOMAIN steps = 1..Len(steps)
  BY StepsTyped DEF Init
<1>1. active = << >> /\ DOMAIN active = {} /\ undone = <<>> /\ DOMAIN undone = {} /\ records = <<>>
      /\ executedStack = <<>> /\ DOMAIN executedStack = {} /\ phase = "between" /\ at = 1
      /\ nextIndex = 1 /\ failed = 0 /\ done = {} /\ cache = {} /\ outcome = [i \in 1..Len(steps) |-> "none"]
  BY DEF Init
<1>2. TypeOK
  <2>1. ControlTyped
    BY <1>0, <1>1 DEF Init, ControlTyped
  <2>2. BatchTyped
    <3>1. hardFailure \in BOOLEAN /\ records \in Seq(Invocation)
      BY <1>1, EmptySeq DEF Init
    <3>2. 1 \in 1..(MaxItems + 1) /\ 0 \in 0..MaxItems
      OBVIOUS
    <3> QED
      BY <1>1, <3>1, <3>2 DEF BatchTyped
  <2>3. LogTyped
    BY <1>0, <1>1, EmptySeq DEF Init, LogTyped
  <2> QED
    BY <2>1, <2>2, <2>3, TypeParts
<1>3. StackSound /\ ExecutedSound /\ DoneSound
  BY <1>0, <1>1 DEF StackSound, ExecutedSound, DoneSound
<1>4. UndoneSound
  BY <1>1 DEF UndoneSound, Init
<1>5. ItemsSound
  <2>1. IsFiniteSet({}) /\ Cardinality({}) = 0
    BY FS_EmptySet
  <2>2. active \in [DOMAIN active -> Item]
    BY <1>1
  <2> QED
    BY <1>1, <2>1, <2>2 DEF ItemsSound
<1> QED
  BY <1>2, <1>3, <1>4, <1>5 DEF IndInv

-----------------------------------------------------------------------------
(* The commands of an item *)

LEMMA InStep ==
  ASSUME TypeOK, phase = "step"
  PROVE  /\ at \in DOMAIN steps /\ at \in 1..MaxSteps /\ step = steps[at]
         /\ step.items \in 0..MaxItems /\ step.concurrency \in Nat /\ step.rollback \in BOOLEAN
         /\ step.continueOnItemFailure \in BOOLEAN
         /\ DOMAIN step.commands = 1..Len(step.commands) /\ Len(step.commands) \in 1..MaxCommands
         /\ DOMAIN step.commands \subseteq 1..MaxCommands
         /\ \A j \in DOMAIN step.commands : /\ step.commands[j].key \in Key
                                            /\ step.commands[j].maxAttempts \in Nat \ {0}
<1>1. workflow \in Workflows /\ at \in 1..(Len(steps) + 1) /\ at <= Len(steps)
  BY TypeParts DEF ControlTyped
<1>2. at \in DOMAIN steps /\ at \in 1..MaxSteps /\ step = steps[at]
  BY <1>1, StepsTyped, Bounds DEF step
<1> QED
  BY <1>1, <1>2, StepFields, CommandFields

LEMMA KeysStay ==
  ASSUME workflow' = workflow
  PROVE  /\ steps' = steps
         /\ \A inv : idempotencyKey(inv)' = idempotencyKey(inv) /\ CommandOf(inv)' = CommandOf(inv)
BY DEF steps, idempotencyKey, KeyFor, CommandOf

HasKey(D, key) == \E e \in D : CommandOf(e).idempotent /\ idempotencyKey(e) = key
ServedBy(D, inv) == inv \in D \/ (CommandOf(inv).idempotent /\ HasKey(D, idempotencyKey(inv)))

\* What happens to an item when its commands begin, succeed or fail.
ItemAdvances(k) ==
  /\ phase = "step" /\ k \in DOMAIN active /\ DOMAIN active' = DOMAIN active
  /\ active' \in [DOMAIN active -> Item]
  /\ \A x \in DOMAIN active : x # k => active'[x] = active[x]
  /\ ItemTyped(active'[k])
  /\ ~active'[k].bad => \A j \in DOMAIN step.commands :
       Busy(active'[k], j) \/ ServedBy(done', <<at, k, j>>)
  /\ done \subseteq done' /\ cache \subseteq cache'
  /\ \A inv \in done' \ done : \E j \in DOMAIN step.commands : inv = <<at, k, j>>
  /\ \A key \in cache' \ cache : \E j \in DOMAIN step.commands :
       /\ key = idempotencyKey(<<at, k, j>>) /\ <<at, k, j>> \in done'
       /\ step.commands[j].idempotent
  /\ aborted => active'[k].running \subseteq active[k].running
  /\ UNCHANGED <<workflow, dryRun, phase, at, nextIndex, hardFailure, failed, records, executedStack,
                 rollback, outcome, aborted, undone>>

LEMMA ItemChanged ==
  ASSUME active \in [DOMAIN active -> Item], NEW k \in DOMAIN active, NEW item \in Item,
         active' = [active EXCEPT ![k] = item]
  PROVE  /\ DOMAIN active' = DOMAIN active /\ active' \in [DOMAIN active -> Item] /\ active'[k] = item
         /\ \A x \in DOMAIN active : x # k => active'[x] = active[x]
OBVIOUS

LEMMA ItemFields ==
  ASSUME IndInv, NEW k \in DOMAIN active
  PROVE  /\ active \in [DOMAIN active -> Item] /\ active[k] \in Item /\ ItemTyped(active[k])
         /\ phase = "step" /\ k \in 1..MaxItems /\ k < nextIndex
         /\ active[k].todo \in SUBSET Nat /\ active[k].bad \in BOOLEAN
         /\ active[k].running \in SUBSET (Nat \X Nat) /\ active[k].waiting \in SUBSET (Nat \X Nat)
<1>1. active \in [DOMAIN active -> Item] /\ (phase # "step" => active = << >>)
  BY DEF IndInv, ItemsSound
<1>2. ItemTyped(active[k]) /\ nextIndex \in 1..(MaxItems + 1) /\ k \in 1..(nextIndex - 1)
  BY TypeParts DEF IndInv, BatchTyped
<1>3. phase = "step"
  BY <1>1
<1>4. active[k] \in Item
  BY <1>1
<1> QED
  BY <1>1, <1>2, <1>3, <1>4, Bounds DEF Item

LEMMA ItemIntro ==
  ASSUME NEW todo \in SUBSET Nat, NEW running \in SUBSET (Nat \X Nat), NEW waiting \in SUBSET (Nat \X Nat),
         NEW bad \in BOOLEAN
  PROVE  LET item == [todo |-> todo, bad |-> bad, running |-> running, waiting |-> waiting]
         IN item \in Item /\ item.todo = todo /\ item.running = running /\ item.waiting = waiting /\ item.bad = bad
BY DEF Item

LEMMA ItemSpoilt ==
  ASSUME NEW item \in Item
  PROVE  /\ [item EXCEPT !.bad = TRUE] \in Item /\ [item EXCEPT !.bad = TRUE].bad
         /\ [item EXCEPT !.bad = TRUE].todo = item.todo
         /\ [item EXCEPT !.bad = TRUE].running = item.running
         /\ [item EXCEPT !.bad = TRUE].waiting = item.waiting
BY DEF Item

LEMMA BeginAdvances ==
  ASSUME IndInv, NEW k \in 1..MaxItems, CommandsBegin(k)
  PROVE  ItemAdvances(k)
<1> DEFINE todo == active[k].todo
           B == Beginning(k)
           hit == {j \in B : Cached(<<at, k, j>>)}
           todo2 == todo \ B
           running2 == {<<j, 1>> : j \in B \ hit}
           item == IF aborted THEN [active[k] EXCEPT !.bad = TRUE]
                   ELSE [todo |-> todo2, bad |-> FALSE, running |-> running2, waiting |-> {}]
<1>1. /\ phase = "step" /\ k \in DOMAIN active /\ active[k].running = {} /\ active[k].waiting = {} /\ ~active[k].bad
      /\ active' = [active EXCEPT ![k] = item]
      /\ UNCHANGED <<workflow, dryRun, phase, at, nextIndex, hardFailure, failed, records, cache,
                    executedStack, rollback, outcome, aborted, done, undone>>
  <2>1. [todo |-> todo2, bad |-> FALSE, running |-> running2, waiting |-> {}]
          = [todo |-> todo2, bad |-> FALSE, waiting |-> {}, running |-> running2]
    OBVIOUS
  <2> QED
    BY <2>1 DEF CommandsBegin, history
<1>2. /\ active \in [DOMAIN active -> Item] /\ active[k] \in Item /\ ItemTyped(active[k]) /\ todo \in SUBSET Nat
  BY <1>1, ItemFields
<1>3. B \subseteq todo
  BY DEF Beginning
<1>4. todo \subseteq DOMAIN step.commands /\ DOMAIN step.commands \subseteq Nat
      /\ \A j \in DOMAIN step.commands : step.commands[j].maxAttempts \in Nat \ {0}
  <2>1. TypeOK
    BY DEF IndInv
  <2> QED
    BY <1>1, <1>2, <2>1, InStep, Bounds DEF ItemTyped
<1>5. todo2 \in SUBSET Nat /\ running2 \in SUBSET (Nat \X Nat)
  <2>1. ASSUME NEW j \in B PROVE <<j, 1>> \in Nat \X Nat
    BY <1>2, <1>3
  <2> QED
    BY <1>2, <2>1
<1>6. aborted => item \in Item /\ item.todo = todo /\ item.running = {} /\ item.waiting = {} /\ item.bad
  BY <1>1, <1>2, ItemSpoilt
<1>7. ~aborted => item \in Item /\ item.todo = todo2 /\ item.running = running2 /\ item.waiting = {} /\ ~item.bad
  <2> HIDE DEF todo2, running2
  <2> QED
    BY <1>5, ItemIntro
<1> HIDE DEF item, todo2, running2, hit, B
<1>8. /\ DOMAIN active' = DOMAIN active /\ active' \in [DOMAIN active -> Item] /\ active'[k] = item
      /\ \A x \in DOMAIN active : x # k => active'[x] = active[x]
  BY <1>1, <1>2, <1>6, <1>7, ItemChanged
<1>9. ItemTyped(item)
  <2>1. CASE aborted
    BY <2>1, <1>4, <1>6 DEF ItemTyped
  <2>2. CASE ~aborted
    <3>0. item.bad \in BOOLEAN
      BY <2>2, <1>7 DEF Item
    <3>1. item.todo \subseteq DOMAIN step.commands
      BY <2>2, <1>4, <1>7 DEF todo2
    <3>2. ASSUME NEW r \in item.running \cup item.waiting
          PROVE  r[1] \in DOMAIN step.commands /\ r[2] \in 1..step.commands[r[1]].maxAttempts
      <4>1. r \in running2
        BY <2>2, <1>7
      <4>2. PICK j \in B : r = <<j, 1>>
        BY <4>1 DEF running2
      <4> QED
        BY <4>2, <1>3, <1>4
    <3>3. item.waiting = {}
      BY <2>2, <1>7
    <3> QED
      BY <3>0, <3>1, <3>2, <3>3 DEF ItemTyped
  <2> QED
    BY <2>1, <2>2
<1>10. ASSUME ~item.bad, NEW j \in DOMAIN step.commands
       PROVE  Busy(item, j) \/ ServedBy(done, <<at, k, j>>)
  <2>1. ~aborted /\ item.todo = todo2 /\ item.running = running2
    BY <1>6, <1>7, <1>10
  <2>2. j \in todo \/ Served(<<at, k, j>>)
    BY <1>1 DEF IndInv, ExecutedSound, Busy
  <2>3. CASE j \in hit
    <3>1. idempotencyKey(<<at, k, j>>) \in cache /\ CommandOf(<<at, k, j>>).idempotent
      BY <2>3 DEF hit, Cached
    <3> QED
      BY <1>1, <3>1 DEF IndInv, ExecutedSound, HasKey, ServedBy
  <2>4. CASE j \in B \ hit
    <3>1. <<j, 1>> \in item.running /\ <<j, 1>>[1] = j
      BY <2>1, <2>4 DEF running2
    <3> QED
      BY <3>1 DEF Busy
  <2>5. CASE j \in todo \ B
    BY <2>1, <2>5 DEF Busy, todo2
  <2>6. CASE Served(<<at, k, j>>)
    BY <2>6 DEF Served, ServedBy, HasKey
  <2> QED
    BY <2>2, <2>3, <2>4, <2>5, <2>6 DEF hit
<1>11. aborted => item.running \subseteq active[k].running
  BY <1>6
<1> QED
  BY <1>1, <1>8, <1>9, <1>10, <1>11 DEF ItemAdvances

\* The item of a command that is tried again, or has settled.
LEMMA ItemRuns ==
  ASSUME NEW item \in Item, NEW running \in SUBSET (Nat \X Nat)
  PROVE  /\ [item EXCEPT !.running = running] \in Item
         /\ [item EXCEPT !.running = running].todo = item.todo
         /\ [item EXCEPT !.running = running].running = running
         /\ [item EXCEPT !.running = running].waiting = item.waiting
         /\ [item EXCEPT !.running = running].bad = item.bad
BY DEF Item

\* What an item's command that is executing, or waits for its next attempt, is.
LEMMA RunningFields ==
  ASSUME IndInv, NEW k \in DOMAIN active, NEW r \in active[k].running \cup active[k].waiting
  PROVE  /\ r \in Nat \X Nat /\ r[1] \in DOMAIN step.commands /\ <<at, k, r[1]>> \in Invocation
         /\ r[2] \in 1..step.commands[r[1]].maxAttempts /\ step.commands[r[1]].maxAttempts \in Nat
<1>1. TypeOK /\ phase = "step" /\ k \in 1..MaxItems /\ r \in Nat \X Nat /\ ItemTyped(active[k])
  BY ItemFields DEF IndInv
<1>2. r[1] \in DOMAIN step.commands /\ r[2] \in 1..step.commands[r[1]].maxAttempts
  BY <1>1 DEF ItemTyped
<1> QED
  BY <1>1, <1>2, InStep DEF Invocation

LEMMA SuccessAdvances ==
  ASSUME IndInv, NEW k \in DOMAIN active, NEW r \in active[k].running, CommandSucceeds(k, r)
  PROVE  ItemAdvances(k)
<1> DEFINE running2 == active[k].running \ {r}
           item == [active[k] EXCEPT !.running = running2]
           inv == <<at, k, r[1]>>
<1>1. /\ phase = "step" /\ active' = [active EXCEPT ![k] = item] /\ done' = done \cup {inv}
      /\ cache' = IF step.commands[r[1]].idempotent THEN cache \cup {idempotencyKey(inv)} ELSE cache
      /\ UNCHANGED <<workflow, dryRun, phase, at, nextIndex, hardFailure, failed, records,
                    executedStack, rollback, outcome, aborted, undone>>
  BY DEF CommandSucceeds
<1>2. /\ active \in [DOMAIN active -> Item] /\ active[k] \in Item /\ ItemTyped(active[k])
      /\ active[k].running \in SUBSET (Nat \X Nat)
  BY ItemFields
<1>3. /\ item \in Item /\ item.todo = active[k].todo /\ item.running = running2 /\ item.bad = active[k].bad
      /\ item.waiting = active[k].waiting
  BY <1>2, ItemRuns
<1>4. r[1] \in DOMAIN step.commands
  BY RunningFields
<1> HIDE DEF item
<1>5. /\ DOMAIN active' = DOMAIN active /\ active' \in [DOMAIN active -> Item] /\ active'[k] = item
      /\ \A x \in DOMAIN active : x # k => active'[x] = active[x]
  BY <1>1, <1>2, <1>3, ItemChanged
<1>6. ItemTyped(item)
  BY <1>2, <1>3 DEF ItemTyped
<1>7. ASSUME ~item.bad, NEW j \in DOMAIN step.commands
      PROVE  Busy(item, j) \/ ServedBy(done', <<at, k, j>>)
  <2>1. Busy(active[k], j) \/ Served(<<at, k, j>>)
    BY <1>3, <1>7 DEF IndInv, ExecutedSound
  <2>2. CASE j = r[1]
    <3>1. <<at, k, j>> \in done'
      BY <2>2, <1>1
    <3> QED
      BY <3>1 DEF ServedBy
  <2>3. CASE j # r[1] /\ Busy(active[k], j)
    <3>1. CASE j \in active[k].todo
      BY <3>1, <1>3 DEF Busy
    <3>2. CASE \E q \in active[k].running \cup active[k].waiting : q[1] = j
      <4>1. PICK q \in active[k].running \cup active[k].waiting : q[1] = j
        BY <3>2
      <4>2. q \in running2 \cup active[k].waiting
        BY <4>1, <2>3
      <4> QED
        BY <4>1, <4>2, <1>3 DEF Busy
    <3> QED
      BY <2>3, <3>1, <3>2 DEF Busy
  <2>4. CASE Served(<<at, k, j>>)
    BY <2>4, <1>1 DEF Served, ServedBy, HasKey
  <2> QED
    BY <2>1, <2>2, <2>3, <2>4
<1>8. item.running \subseteq active[k].running
  BY <1>3
<1>9. /\ \A x \in done' \ done : \E j \in DOMAIN step.commands : x = <<at, k, j>>
      /\ done \subseteq done' /\ cache \subseteq cache'
  BY <1>1, <1>4
<1>10. \A key \in cache' \ cache : \E j \in DOMAIN step.commands :
         key = idempotencyKey(<<at, k, j>>) /\ <<at, k, j>> \in done' /\ step.commands[j].idempotent
  BY <1>1, <1>4
<1> QED
  BY <1>1, <1>5, <1>6, <1>7, <1>8, <1>9, <1>10 DEF ItemAdvances

\* An attempt that is over, with what goes on executing (X) or waiting (W) of its command.
LEMMA GoesAdvances ==
  ASSUME IndInv, NEW k \in DOMAIN active, NEW r \in active[k].running \cup active[k].waiting,
         NEW X \in SUBSET (Nat \X Nat), NEW W \in SUBSET (Nat \X Nat),
         \A q \in X \cup W : q[1] = r[1] /\ q[2] \in 1..step.commands[r[1]].maxAttempts,
         \A q \in W : q[2] < step.commands[r[1]].maxAttempts,
         aborted => X = {}, Goes(k, r, X, W)
  PROVE  ItemAdvances(k)
<1> DEFINE running2 == (active[k].running \ {r}) \cup X
           waiting2 == (active[k].waiting \ {r}) \cup W
           bad2 == active[k].bad \/ X \cup W = {}
           item == [todo |-> active[k].todo, bad |-> bad2, running |-> running2, waiting |-> waiting2]
<1>1. /\ phase = "step" /\ active' = [active EXCEPT ![k] = item]
      /\ UNCHANGED <<workflow, dryRun, phase, at, nextIndex, hardFailure, failed, records, cache,
                    executedStack, rollback, outcome, aborted, done, undone>>
  BY DEF Goes, history
<1>2. /\ active \in [DOMAIN active -> Item] /\ active[k] \in Item /\ ItemTyped(active[k])
      /\ active[k].todo \in SUBSET Nat /\ active[k].bad \in BOOLEAN
      /\ active[k].running \in SUBSET (Nat \X Nat) /\ active[k].waiting \in SUBSET (Nat \X Nat)
  BY ItemFields
<1>3. r[1] \in DOMAIN step.commands
  BY RunningFields
<1>4. running2 \in SUBSET (Nat \X Nat) /\ waiting2 \in SUBSET (Nat \X Nat) /\ bad2 \in BOOLEAN
  BY <1>2
<1>5. /\ item \in Item /\ item.todo = active[k].todo /\ item.running = running2 /\ item.waiting = waiting2
      /\ item.bad = bad2
  <2> HIDE DEF running2, waiting2, bad2
  <2> QED
    BY <1>2, <1>4, ItemIntro
<1> HIDE DEF item
<1>6. /\ DOMAIN active' = DOMAIN active /\ active' \in [DOMAIN active -> Item] /\ active'[k] = item
      /\ \A x \in DOMAIN active : x # k => active'[x] = active[x]
  BY <1>1, <1>2, <1>5, ItemChanged
<1>7. ItemTyped(item)
  <2>1. ASSUME NEW q \in item.running \cup item.waiting
        PROVE  q[1] \in DOMAIN step.commands /\ q[2] \in 1..step.commands[q[1]].maxAttempts
    <3>1. q \in active[k].running \cup active[k].waiting \/ q \in X \cup W
      BY <1>5
    <3>2. CASE q \in active[k].running \cup active[k].waiting
      BY <3>2, <1>2 DEF ItemTyped
    <3>3. CASE q \in X \cup W
      BY <3>3, <1>3
    <3> QED
      BY <3>1, <3>2, <3>3
  <2>2. item.todo \subseteq DOMAIN step.commands /\ item.bad \in BOOLEAN
    BY <1>2, <1>4, <1>5 DEF ItemTyped
  <2>3. ASSUME NEW q \in item.waiting PROVE q[2] < step.commands[q[1]].maxAttempts
    <3>1. q \in active[k].waiting \/ q \in W
      BY <1>5
    <3> QED
      BY <3>1, <1>2 DEF ItemTyped
  <2> QED
    BY <2>1, <2>2, <2>3 DEF ItemTyped
<1>8. ASSUME ~item.bad, NEW j \in DOMAIN step.commands
      PROVE  Busy(item, j) \/ ServedBy(done', <<at, k, j>>)
  <2>1. ~active[k].bad /\ \E q : q \in X \cup W
    BY <1>5, <1>8
  <2>2. Busy(active[k], j) \/ Served(<<at, k, j>>)
    BY <2>1 DEF IndInv, ExecutedSound
  <2>3. CASE j \in active[k].todo
    BY <2>3, <1>5 DEF Busy
  <2>4. CASE \E q \in active[k].running \cup active[k].waiting : q[1] = j
    <3>1. PICK q \in active[k].running \cup active[k].waiting : q[1] = j
      BY <2>4
    <3>2. CASE q = r
      <4>1. PICK x \in X \cup W : x[1] = j
        BY <2>1, <3>1, <3>2
      <4> QED
        BY <4>1, <1>5 DEF Busy
    <3>3. CASE q # r
      BY <3>1, <3>3, <1>5 DEF Busy
    <3> QED
      BY <3>2, <3>3
  <2>5. CASE Served(<<at, k, j>>)
    BY <2>5, <1>1 DEF Served, ServedBy, HasKey
  <2> QED
    BY <2>2, <2>3, <2>4, <2>5 DEF Busy
<1>9. aborted => item.running \subseteq active[k].running
  BY <1>5
<1> QED
  BY <1>1, <1>6, <1>7, <1>8, <1>9 DEF ItemAdvances

LEMMA NextAdvances ==
  ASSUME IndInv, NEW k \in DOMAIN active, NEW r \in active[k].running \cup active[k].waiting,
         r[2] < step.commands[r[1]].maxAttempts, NextAttempt(k, r)
  PROVE  ItemAdvances(k)
<1> DEFINE X == IF aborted THEN {} ELSE {<<r[1], r[2] + 1>>}
<1>1. /\ r \in Nat \X Nat /\ r[2] \in 1..step.commands[r[1]].maxAttempts
      /\ step.commands[r[1]].maxAttempts \in Nat
  BY RunningFields
<1>2. X \in SUBSET (Nat \X Nat) /\ {} \in SUBSET (Nat \X Nat) /\ (aborted => X = {})
  BY <1>1
<1>3. \A q \in X \cup {} : q[1] = r[1] /\ q[2] \in 1..step.commands[r[1]].maxAttempts
  BY <1>1
<1>4. Goes(k, r, X, {})
  BY DEF NextAttempt
<1> HIDE DEF X
<1> QED
  BY <1>2, <1>3, <1>4, GoesAdvances

LEMMA FailureAdvances ==
  ASSUME IndInv, NEW k \in DOMAIN active, NEW r \in active[k].running, CommandFails(k, r)
  PROVE  ItemAdvances(k)
<1>1. r \in active[k].running \cup active[k].waiting /\ r \in Nat \X Nat
      /\ r[2] \in 1..step.commands[r[1]].maxAttempts
  BY RunningFields
<1>2. {} \in SUBSET (Nat \X Nat) /\ {r} \in SUBSET (Nat \X Nat)
  BY <1>1
<1>3. CASE Goes(k, r, {}, {})
  BY <1>1, <1>2, <1>3, GoesAdvances
<1>4. CASE r[2] < step.commands[r[1]].maxAttempts /\ Goes(k, r, {}, {r})
  <2>1. /\ \A q \in {} \cup {r} : q[1] = r[1] /\ q[2] \in 1..step.commands[r[1]].maxAttempts
        /\ \A q \in {r} : q[2] < step.commands[r[1]].maxAttempts
    BY <1>1, <1>4
  <2> QED
    BY <1>1, <1>2, <1>4, <2>1, GoesAdvances
<1>5. CASE r[2] < step.commands[r[1]].maxAttempts /\ NextAttempt(k, r)
  BY <1>1, <1>5, NextAdvances
<1> QED
  BY <1>3, <1>4, <1>5 DEF CommandFails

LEMMA DelayAdvances ==
  ASSUME IndInv, NEW k \in DOMAIN active, NEW r \in active[k].waiting, DelayEnds(k, r)
  PROVE  ItemAdvances(k)
<1>1. r[2] < step.commands[r[1]].maxAttempts
  BY ItemFields DEF ItemTyped
<1> QED
  BY <1>1, NextAdvances DEF DelayEnds

\* ExecutedSound in the next state, part by part.
LEMMA ExecutedPrime ==
  ASSUME workflow' = workflow,
         phase' \in {"between", "step"} => \A key \in cache' : HasKey(done', key),
         \A k \in DOMAIN active' : ~active'[k].bad =>
           \A j \in DOMAIN (step').commands : Busy(active'[k], j) \/ ServedBy(done', <<at', k, j>>),
         phase' = "step" /\ failed' = 0 =>
           \A k \in 1..(nextIndex' - 1) \ DOMAIN active' : \A j \in DOMAIN (step').commands :
             ServedBy(done', <<at', k, j>>),
         \A i \in DOMAIN steps : outcome'[i] = "succeeded" =>
           \A k \in 1..steps[i].items, j \in DOMAIN steps[i].commands : ServedBy(done', <<i, k, j>>)
  PROVE  ExecutedSound'
<1>1. /\ steps' = steps /\ \A inv : idempotencyKey(inv)' = idempotencyKey(inv) /\ CommandOf(inv)' = CommandOf(inv)
  BY KeysStay
<1>2. \A inv : ServedBy(done', inv) => Served(inv)'
  BY <1>1 DEF Served, ServedBy, HasKey
<1>3. \A key : HasKey(done', key) => \E e \in done' : CommandOf(e)'.idempotent /\ idempotencyKey(e)' = key
  BY <1>1 DEF HasKey
<1> QED
  BY <1>1, <1>2, <1>3 DEF ExecutedSound, Busy

-----------------------------------------------------------------------------
(* Items *)

\* What a command leaves of an item's step keeps the invariant.
LEMMA AdvanceKeeps ==
  ASSUME IndInv, NEW k, ItemAdvances(k)
  PROVE  IndInv'
<1>1. /\ phase = "step" /\ k \in DOMAIN active /\ DOMAIN active' = DOMAIN active
      /\ active' \in [DOMAIN active -> Item]
      /\ done \subseteq done' /\ cache \subseteq cache'
      /\ UNCHANGED <<workflow, dryRun, phase, at, nextIndex, hardFailure, failed, records, executedStack,
                     rollback, outcome, aborted, undone>>
  BY DEF ItemAdvances
<1>2. /\ \A x \in DOMAIN active : x # k => active'[x] = active[x]
      /\ \A inv \in done' \ done : \E j \in DOMAIN step.commands : inv = <<at, k, j>>
      /\ \A key \in cache' \ cache : \E j \in DOMAIN step.commands :
           key = idempotencyKey(<<at, k, j>>) /\ <<at, k, j>> \in done' /\ step.commands[j].idempotent
  BY DEF ItemAdvances
<1>3. TypeOK /\ at \in DOMAIN steps /\ at \in 1..MaxSteps /\ step = steps[at] /\ workflow \in Workflows
  BY <1>1, InStep, TypeParts DEF IndInv, ControlTyped
<1>4. /\ steps' = steps /\ step' = step
      /\ \A inv : idempotencyKey(inv)' = idempotencyKey(inv) /\ CommandOf(inv)' = CommandOf(inv)
  BY <1>1, KeysStay DEF step
<1>5. k \in 1..MaxItems /\ k < nextIndex
  BY <1>1, ItemFields
<1>6. \A j \in DOMAIN step.commands : <<at, k, j>> \in Invocation
  BY <1>3, <1>5, InvocationIntro
<1>7. TypeOK'
  <2>1. ControlTyped'
    BY <1>1, <1>3, <1>4, TypeParts DEF ControlTyped
  <2>2. BatchTyped'
    <3>1. ASSUME NEW x \in DOMAIN active PROVE ItemTyped(active'[x])
      <4>1. ItemTyped(active[x])
        BY <1>3, TypeParts DEF BatchTyped
      <4> QED
        BY <4>1, <1>2 DEF ItemAdvances
    <3>2. \A x \in DOMAIN active' : ItemTyped(active[x])'
      BY <1>1, <1>4, <3>1 DEF ItemTyped
    <3> QED
      BY <1>1, <1>3, <3>2, TypeParts DEF BatchTyped
  <2>3. LogTyped'
    <3>1. done' \subseteq Invocation
      BY <1>2, <1>3, <1>6, TypeParts DEF LogTyped
    <3>2. ASSUME NEW key \in cache' PROVE key[1] \in 0..MaxSteps /\ key[2] \in 0..MaxItems /\ key[3] \in STRING
      <4>1. CASE key \in cache
        BY <4>1, <1>3, TypeParts DEF LogTyped
      <4>2. CASE key \notin cache
        <5>1. PICK j \in DOMAIN step.commands : key = idempotencyKey(<<at, k, j>>)
          BY <4>2, <1>2
        <5>2. key = KeyFor(step.commands[j].key, at, k)
          BY <5>1, <1>3 DEF idempotencyKey, CommandOf
        <5>3. step.commands[j].key \in Key /\ at \in 0..MaxSteps /\ k \in 0..MaxItems
          BY <1>1, <1>3, <1>5, InStep, Bounds
        <5> QED
          BY <5>2, <5>3, KeyTyped
      <4> QED
        BY <4>1, <4>2
    <3> QED
      BY <1>1, <1>3, <1>4, <3>1, <3>2, TypeParts DEF LogTyped, Entry, Invocation
  <2> QED
    BY <2>1, <2>2, <2>3, TypePartsPrime
<1>8. StackSound' /\ UndoneSound'
  BY <1>1 DEF IndInv, StackSound, UndoneSound, RecordsSound, UndoneBefore
<1>9. ItemsSound'
  BY <1>1 DEF IndInv, ItemsSound, RecordsSound, Item
<1>10. ExecutedSound'
  <2>1. /\ \A key : HasKey(done, key) => HasKey(done', key)
        /\ \A inv : ServedBy(done, inv) => ServedBy(done', inv)
    BY <1>1 DEF HasKey, ServedBy
  <2>2. ASSUME NEW key \in cache' PROVE HasKey(done', key)
    <3>1. CASE key \in cache
      BY <1>1, <3>1, <2>1, <2>2 DEF IndInv, ExecutedSound, HasKey
    <3>2. CASE key \notin cache
      <4>1. PICK j \in DOMAIN step.commands :
               key = idempotencyKey(<<at, k, j>>) /\ <<at, k, j>> \in done' /\ step.commands[j].idempotent
        BY <3>2, <1>2
      <4>2. CommandOf(<<at, k, j>>) = step.commands[j]
        BY <1>3 DEF CommandOf
      <4> QED
        BY <4>1, <4>2 DEF HasKey
    <3> QED
      BY <3>1, <3>2
  <2>3. ASSUME NEW x \in DOMAIN active, ~active'[x].bad, NEW j \in DOMAIN step.commands
        PROVE  Busy(active'[x], j) \/ ServedBy(done', <<at, x, j>>)
    <3>1. CASE x = k
      BY <3>1, <2>3 DEF ItemAdvances
    <3>2. CASE x # k
      <4>1. active'[x] = active[x]
        BY <3>2, <1>2
      <4>2. Busy(active[x], j) \/ ServedBy(done, <<at, x, j>>)
        BY <4>1, <2>3 DEF IndInv, ExecutedSound, Served, ServedBy, HasKey
      <4> QED
        BY <4>1, <4>2, <2>1
    <3> QED
      BY <3>1, <3>2
  <2>4. ASSUME failed = 0, NEW x \in 1..(nextIndex - 1) \ DOMAIN active, NEW j \in DOMAIN step.commands
        PROVE  ServedBy(done', <<at, x, j>>)
    BY <1>1, <2>1, <2>4 DEF IndInv, ExecutedSound, Served, ServedBy, HasKey
  <2>5. ASSUME NEW i \in DOMAIN steps, outcome[i] = "succeeded",
               NEW x \in 1..steps[i].items, NEW j \in DOMAIN steps[i].commands
        PROVE  ServedBy(done', <<i, x, j>>)
    BY <2>1, <2>5 DEF IndInv, ExecutedSound, Served, ServedBy, HasKey
  <2> QED
    BY <1>1, <1>4, <2>2, <2>3, <2>4, <2>5, ExecutedPrime
<1>11. DoneSound'
  <2>1. ASSUME NEW inv \in done'
        PROVE  /\ inv[1] \in DOMAIN steps /\ inv[3] \in DOMAIN steps[inv[1]].commands /\ inv[1] <= at
               /\ inv[1] = at => failed > 0 \/ inv[2] \in DOMAIN active \/ \E m \in DOMAIN records : records[m] = inv
               /\ inv[1] < at => Settles(inv)
    <3>1. CASE inv \in done
      BY <3>1, <1>1 DEF IndInv, DoneSound
    <3>2. CASE inv \notin done
      <4>1. PICK j \in DOMAIN step.commands : inv = <<at, k, j>>
        BY <3>2, <1>2
      <4> QED
        BY <4>1, <1>1, <1>3, StepsTyped
    <3> QED
      BY <3>1, <3>2
  <2> QED
    BY <1>1, <1>4, <2>1 DEF DoneSound, Settles, OnStack, Undone
<1> QED
  BY <1>7, <1>8, <1>9, <1>10, <1>11 DEF IndInv

LEMMA TakeKeeps ==
  ASSUME IndInv, TakeItem
  PROVE  IndInv'
<1> DEFINE D == DOMAIN active
           k0 == nextIndex
           new == [todo |-> DOMAIN step.commands, running |-> {}, waiting |-> {}, bad |-> FALSE]
<1>1. /\ phase = "step" /\ nextIndex <= step.items /\ nextIndex' = nextIndex + 1
      /\ active' = [k \in D \cup {k0} |-> IF k # k0 THEN active[k] ELSE new]
      /\ UNCHANGED <<workflow, dryRun, phase, at, hardFailure, failed, records, cache, executedStack,
                     rollback, outcome, aborted, done, undone>>
  BY DEF TakeItem, history
<1>2. /\ TypeOK /\ step = steps[at] /\ workflow \in Workflows /\ step.items \in 0..MaxItems
      /\ DOMAIN step.commands \subseteq Nat /\ steps' = steps /\ step' = step
  BY <1>1, InStep, TypeParts, Bounds DEF IndInv, ControlTyped, step, steps
<1>3. /\ nextIndex \in 1..(MaxItems + 1) /\ D \subseteq 1..(nextIndex - 1)
      /\ \A k \in D : ItemTyped(active[k])
  BY <1>2, TypeParts DEF BatchTyped
<1>4. /\ active \in [D -> Item] /\ IsFiniteSet(D) /\ Cardinality(D) \in Nat /\ failed + Cardinality(D) < nextIndex
      /\ RecordsSound(records, at)
      /\ \A m \in DOMAIN records : records[m][2] \in 1..(nextIndex - 1) \ D
  BY <1>1, FS_CardinalityType DEF IndInv, ItemsSound
<1>5. k0 \notin D /\ k0 \in 1..MaxItems
  BY <1>1, <1>2, <1>3, Bounds
<1>6. new \in Item /\ new.todo = DOMAIN step.commands /\ new.running = {} /\ new.waiting = {} /\ ~new.bad
  BY <1>2 DEF Item
<1> HIDE DEF new
<1>7. /\ DOMAIN active' = D \cup {k0} /\ active' \in [D \cup {k0} -> Item]
      /\ active'[k0] = new /\ \A k \in D : active'[k] = active[k]
  BY <1>1, <1>4, <1>5, <1>6
<1>8. TypeOK'
  <2>1. ControlTyped'
    BY <1>1, <1>2, TypeParts DEF ControlTyped
  <2>2. BatchTyped'
    <3>1. ItemTyped(new)
      <4>1. new.bad \in BOOLEAN
        BY <1>6 DEF Item
      <4> QED
        BY <1>6, <4>1 DEF ItemTyped
    <3>2. \A k \in DOMAIN active' : ItemTyped(active[k])'
      BY <1>2, <1>3, <1>7, <3>1 DEF ItemTyped
    <3>3. nextIndex' \in 1..(MaxItems + 1) /\ DOMAIN active' \subseteq 1..(nextIndex' - 1)
      BY <1>1, <1>2, <1>3, <1>7, Bounds
    <3> QED
      BY <1>1, <1>2, <3>2, <3>3, TypeParts DEF BatchTyped, Invocation
  <2>3. LogTyped'
    BY <1>1, <1>2, TypeParts DEF LogTyped, Entry, Invocation
  <2> QED
    BY <2>1, <2>2, <2>3, TypePartsPrime
<1>9. StackSound' /\ UndoneSound'
  BY <1>1 DEF IndInv, StackSound, UndoneSound, RecordsSound, UndoneBefore
<1>10. ItemsSound'
  <2>1. IsFiniteSet(D \cup {k0}) /\ Cardinality(D \cup {k0}) = Cardinality(D) + 1
    BY <1>4, <1>5, FS_AddElement
  <2>2. failed \in Nat /\ nextIndex \in Nat
    BY <1>2, <1>3, TypeParts, Bounds DEF BatchTyped
  <2>3. failed' + Cardinality(DOMAIN active') < nextIndex'
    BY <1>1, <1>4, <1>7, <2>1, <2>2
  <2>4. \A m \in DOMAIN records : records[m][2] \in 1..(nextIndex' - 1) \ DOMAIN active'
    BY <1>1, <1>4, <1>7, <2>2
  <2> QED
    BY <1>1, <1>4, <1>7, <2>1, <2>3, <2>4 DEF ItemsSound, RecordsSound, Item
<1>11. ExecutedSound'
  <2>1. phase \in {"between", "step"} => \A key \in cache : HasKey(done, key)
    BY DEF IndInv, ExecutedSound, HasKey
  <2>2. ASSUME NEW k \in DOMAIN active', ~active'[k].bad, NEW j \in DOMAIN step.commands
        PROVE  Busy(active'[k], j) \/ ServedBy(done, <<at, k, j>>)
    <3>1. CASE k = k0
      BY <3>1, <1>6, <1>7 DEF Busy
    <3>2. CASE k \in D
      BY <3>2, <1>7, <2>2 DEF IndInv, ExecutedSound, Served, ServedBy, HasKey
    <3> QED
      BY <3>1, <3>2, <1>7
  <2>3. ASSUME failed = 0, NEW k \in 1..(nextIndex' - 1) \ DOMAIN active', NEW j \in DOMAIN step.commands
        PROVE  ServedBy(done, <<at, k, j>>)
    <3>1. k \in 1..(nextIndex - 1) \ D
      BY <1>1, <1>3, <1>7, Bounds
    <3> QED
      BY <1>1, <2>3, <3>1 DEF IndInv, ExecutedSound, Served, ServedBy, HasKey
  <2>4. ASSUME NEW i \in DOMAIN steps, outcome[i] = "succeeded",
               NEW x \in 1..steps[i].items, NEW j \in DOMAIN steps[i].commands
        PROVE  ServedBy(done, <<i, x, j>>)
    BY <2>4 DEF IndInv, ExecutedSound, Served, ServedBy, HasKey
  <2> QED
    BY <1>1, <1>2, <2>1, <2>2, <2>3, <2>4, ExecutedPrime
<1>12. DoneSound'
  BY <1>1, <1>2, <1>7, KeysStay DEF IndInv, DoneSound, Settles, OnStack, Undone
<1> QED
  BY <1>8, <1>9, <1>10, <1>11, <1>12 DEF IndInv

\* The records of an item follow those of others.
LEMMA RecordsGrow ==
  ASSUME IndInv, phase = "step", NEW k \in DOMAIN active
  PROVE  /\ records \o RecordsOf(k) \in Seq(Invocation) /\ RecordsSound(records \o RecordsOf(k), at)
         /\ \A m \in DOMAIN (records \o RecordsOf(k)) :
              \/ \E j \in DOMAIN step.commands : (records \o RecordsOf(k))[m] = <<at, k, j>>
              \/ \E n \in DOMAIN records : records[n] = (records \o RecordsOf(k))[m]
         /\ \A n \in DOMAIN records : \E m \in DOMAIN (records \o RecordsOf(k)) : (records \o RecordsOf(k))[m] = records[n]
         /\ \A j \in DOMAIN step.commands : \E m \in DOMAIN (records \o RecordsOf(k)) :
              (records \o RecordsOf(k))[m] = <<at, k, j>>
<1> DEFINE c == Len(step.commands)
           q == RecordsOf(k)
           s == records \o q
           l == Len(records)
<1>1. /\ TypeOK /\ step = steps[at] /\ at \in DOMAIN steps /\ workflow \in Workflows /\ c \in Nat
      /\ DOMAIN step.commands = 1..c /\ k \in 1..MaxItems
  BY InStep, ItemFields, TypeParts, Bounds DEF IndInv, ControlTyped
<1>2. \A j \in 1..c : <<at, k, j>> \in Invocation
  BY <1>1, InvocationIntro
<1>3. q = [j \in 1..c |-> <<at, k, j>>]
  BY <1>1 DEF RecordsOf
<1>4. q \in Seq(Invocation) /\ Len(q) = c /\ \A j \in 1..c : q[j] = <<at, k, j>>
  <2>1. q \in Seq(Invocation)
    BY <1>1, <1>2, <1>3, IsASeq
  <2> QED
    BY <1>1, <1>3, <2>1, LenProperties
<1>5. records \in Seq(Invocation) /\ l \in Nat /\ DOMAIN records = 1..l
  BY <1>1, TypeParts, LenProperties DEF BatchTyped
<1> HIDE DEF q, c
<1>6. /\ s \in Seq(Invocation) /\ Len(s) = l + c /\ DOMAIN s = 1..(l + c)
      /\ \A m \in 1..(l + c) : s[m] = IF m <= l THEN records[m] ELSE q[m - l]
  <2>1. s \in Seq(Invocation) /\ Len(s) = Len(records) + Len(q)
        /\ \A m \in 1..(Len(records) + Len(q)) : s[m] = IF m <= Len(records) THEN records[m] ELSE q[m - Len(records)]
    BY <1>4, <1>5, ConcatProperties
  <2> QED
    BY <1>1, <1>4, <1>5, <2>1, LenProperties
<1> HIDE DEF s, l
<1>7. /\ \A m \in 1..l : s[m] = records[m]
      /\ \A j \in 1..c : l + j \in DOMAIN s /\ s[l + j] = <<at, k, j>>
      /\ \A m \in DOMAIN s : m \in 1..l \/ \E j \in 1..c : m = l + j
  <2>1. ASSUME NEW m \in 1..l PROVE s[m] = records[m]
    BY <1>1, <1>5, <1>6
  <2>2. ASSUME NEW j \in 1..c PROVE l + j \in DOMAIN s /\ s[l + j] = <<at, k, j>>
    <3>1. l + j \in 1..(l + c) /\ ~(l + j <= l) /\ (l + j) - l = j
      BY <1>1, <1>5
    <3> QED
      BY <1>4, <1>6, <3>1
  <2>3. ASSUME NEW m \in DOMAIN s PROVE m \in 1..l \/ \E j \in 1..c : m = l + j
    <3>1. CASE m <= l
      BY <3>1, <1>1, <1>5, <1>6
    <3>2. CASE ~(m <= l)
      <4>1. m - l \in 1..c /\ m = l + (m - l)
        BY <3>2, <1>1, <1>5, <1>6
      <4> QED
        BY <4>1
    <3> QED
      BY <3>1, <3>2
  <2> QED
    BY <2>1, <2>2, <2>3
<1>8. RecordsSound(records, at) /\ \A m \in DOMAIN records : records[m][2] # k
  BY DEF IndInv, ItemsSound
<1>9. RecordsSound(s, at)
  <2>1. ASSUME NEW m \in DOMAIN s PROVE s[m][1] = at
    BY <1>5, <1>7, <1>8 DEF RecordsSound
  <2>2. ASSUME NEW m \in DOMAIN s, NEW n \in DOMAIN s, m < n, s[m][2] = s[n][2]
        PROVE  s[m][3] < s[n][3]
    <3>1. CASE m \in 1..l /\ n \in 1..l
      BY <3>1, <2>2, <1>5, <1>7, <1>8 DEF RecordsSound
    <3>2. CASE \E j \in 1..c : m = l + j
      <4>1. PICK i \in 1..c : m = l + i
        BY <3>2
      <4>2. n \notin 1..l
        BY <2>2, <4>1, <1>1, <1>5
      <4>3. PICK j \in 1..c : n = l + j
        BY <4>2, <1>7
      <4>4. s[m] = <<at, k, i>> /\ s[n] = <<at, k, j>>
        BY <4>1, <4>3, <1>7
      <4>5. i < j
        BY <2>2, <4>1, <4>3, <1>1, <1>5
      <4> QED
        BY <4>4, <4>5
    <3>3. CASE m \in 1..l /\ \E j \in 1..c : n = l + j
      BY <3>3, <2>2, <1>5, <1>7, <1>8
    <3> QED
      BY <3>1, <3>2, <3>3, <1>7
  <2> QED
    BY <2>1, <2>2 DEF RecordsSound
<1>10. \A m \in DOMAIN s : \/ \E j \in DOMAIN step.commands : s[m] = <<at, k, j>>
                           \/ \E n \in DOMAIN records : records[n] = s[m]
  BY <1>1, <1>5, <1>7
<1>11. \A n \in DOMAIN records : n \in DOMAIN s /\ s[n] = records[n]
  BY <1>1, <1>5, <1>6, <1>7
<1>12. \A j \in DOMAIN step.commands : \E m \in DOMAIN s : s[m] = <<at, k, j>>
  BY <1>1, <1>7
<1> QED
  BY <1>6, <1>9, <1>10, <1>11, <1>12 DEF s, q

LEMMA ItemEndKeeps ==
  ASSUME IndInv, NEW k \in 1..MaxItems, ItemEnds(k)
  PROVE  IndInv'
<1> DEFINE D == DOMAIN active
           bad == active[k].bad
<1>1. /\ phase = "step" /\ k \in D /\ active[k].running = {} /\ active[k].waiting = {} /\ (active[k].todo = {} \/ bad)
      /\ active' = [x \in D \ {k} |-> active[x]]
      /\ bad => failed' = failed + 1 /\ records' = records
                /\ hardFailure' = (hardFailure \/ ~step.continueOnItemFailure)
      /\ ~bad => failed' = failed /\ records' = records \o RecordsOf(k) /\ hardFailure' = hardFailure
      /\ UNCHANGED <<workflow, dryRun, phase, at, nextIndex, cache, executedStack, rollback, outcome,
                     aborted, done, undone>>
  BY DEF ItemEnds, history
<1>2. /\ TypeOK /\ step = steps[at] /\ workflow \in Workflows /\ steps' = steps /\ step' = step
  BY <1>1, InStep, TypeParts DEF IndInv, ControlTyped, step, steps
<1>3. /\ nextIndex \in 1..(MaxItems + 1) /\ D \subseteq 1..(nextIndex - 1)
      /\ \A x \in D : ItemTyped(active[x])
      /\ failed \in Nat /\ hardFailure \in BOOLEAN /\ records \in Seq(Invocation)
  BY <1>2, TypeParts, Bounds DEF BatchTyped
<1>4. /\ active \in [D -> Item] /\ IsFiniteSet(D) /\ failed + Cardinality(D) < nextIndex
      /\ RecordsSound(records, at)
      /\ \A m \in DOMAIN records : records[m][2] \in 1..(nextIndex - 1) \ D
  BY <1>1 DEF IndInv, ItemsSound
<1>5. /\ DOMAIN active' = D \ {k} /\ active' \in [D \ {k} -> Item]
      /\ \A x \in D \ {k} : active'[x] = active[x]
  BY <1>1, <1>4
<1>6. IsFiniteSet(D \ {k}) /\ Cardinality(D \ {k}) = Cardinality(D) - 1 /\ Cardinality(D) \in Nat
      /\ Cardinality(D \ {k}) \in Nat
  BY <1>1, <1>4, FS_RemoveElement, FS_CardinalityType
<1>7. failed' \in 0..MaxItems /\ failed' + Cardinality(DOMAIN active') < nextIndex
  <2>1. failed' \in {failed, failed + 1}
    BY <1>1
  <2>2. nextIndex \in Nat /\ nextIndex <= MaxItems + 1 /\ MaxItems \in Nat /\ failed \in Nat
    BY <1>3, Bounds
  <2>3. failed + Cardinality(D) < nextIndex /\ Cardinality(DOMAIN active') = Cardinality(D) - 1
        /\ Cardinality(D) \in Nat /\ Cardinality(DOMAIN active') \in Nat
    BY <1>4, <1>5, <1>6
  <2> QED
    BY ONLY <2>1, <2>2, <2>3
<1>8. bad \in BOOLEAN /\ step.continueOnItemFailure \in BOOLEAN
  BY <1>1, <1>2, ItemFields, InStep
<1>9. /\ records' \in Seq(Invocation) /\ RecordsSound(records', at)
      /\ \A m \in DOMAIN records' : records'[m][2] \in 1..(nextIndex - 1) \ DOMAIN active'
      /\ \A n \in DOMAIN records : \E m \in DOMAIN records' : records'[m] = records[n]
  <2>1. CASE bad
    BY <2>1, <1>1, <1>3, <1>4, <1>5
  <2>2. CASE ~bad
    <3> DEFINE s == records \o RecordsOf(k)
    <3>1. records' = s /\ k \in D
      BY <2>2, <1>1
    <3>2. /\ s \in Seq(Invocation) /\ RecordsSound(s, at)
          /\ \A m \in DOMAIN s : \/ \E j \in DOMAIN step.commands : s[m] = <<at, k, j>>
                                \/ \E n \in DOMAIN records : records[n] = s[m]
          /\ \A n \in DOMAIN records : \E m \in DOMAIN s : s[m] = records[n]
      BY <1>1, RecordsGrow
    <3> HIDE DEF s
    <3>3. \A m \in DOMAIN s : s[m][2] \in 1..(nextIndex - 1) \ (D \ {k})
      BY <3>1, <3>2, <1>3, <1>4
    <3> QED
      BY <3>1, <3>2, <3>3, <1>5
  <2> QED
    BY <2>1, <2>2
<1>10. ASSUME ~bad, NEW j \in DOMAIN step.commands
       PROVE  \E m \in DOMAIN records' : records'[m] = <<at, k, j>>
  <2>1. records' = records \o RecordsOf(k)
    BY <1>1, <1>10
  <2>2. \E m \in DOMAIN (records \o RecordsOf(k)) : (records \o RecordsOf(k))[m] = <<at, k, j>>
    BY <1>1, RecordsGrow
  <2> QED
    BY <2>1, <2>2
<1>11. TypeOK'
  <2>1. ControlTyped'
    BY <1>1, <1>2, TypeParts DEF ControlTyped
  <2>2. BatchTyped'
    <3>1. \A x \in DOMAIN active' : ItemTyped(active[x])'
      BY <1>2, <1>3, <1>5 DEF ItemTyped
    <3>2. hardFailure' \in BOOLEAN
      BY <1>1, <1>3, <1>8
    <3> QED
      BY <1>1, <1>3, <1>5, <1>7, <1>9, <3>1, <3>2 DEF BatchTyped, Invocation
  <2>3. LogTyped'
    BY <1>1, <1>2, TypeParts DEF LogTyped, Entry, Invocation
  <2> QED
    BY <2>1, <2>2, <2>3, TypePartsPrime
<1>12. StackSound' /\ UndoneSound'
  BY <1>1 DEF IndInv, StackSound, UndoneSound, RecordsSound, UndoneBefore
<1>13. ItemsSound'
  BY <1>1, <1>5, <1>6, <1>7, <1>9 DEF ItemsSound, RecordsSound, Item
<1>14. ExecutedSound'
  <2>1. phase \in {"between", "step"} => \A key \in cache : HasKey(done, key)
    BY DEF IndInv, ExecutedSound, HasKey
  <2>2. ASSUME NEW x \in DOMAIN active', ~active'[x].bad, NEW j \in DOMAIN step.commands
        PROVE  Busy(active'[x], j) \/ ServedBy(done, <<at, x, j>>)
    BY <1>5, <2>2 DEF IndInv, ExecutedSound, Served, ServedBy, HasKey
  <2>3. ASSUME failed' = 0, NEW x \in 1..(nextIndex - 1) \ DOMAIN active', NEW j \in DOMAIN step.commands
        PROVE  ServedBy(done, <<at, x, j>>)
    <3>1. ~bad /\ failed = 0
      BY <2>3, <1>1, <1>3
    <3>2. CASE x = k
      <4>1. ~Busy(active[k], j)
        BY <1>1, <3>1 DEF Busy
      <4> QED
        BY <4>1, <3>1, <3>2, <1>1 DEF IndInv, ExecutedSound, Served, ServedBy, HasKey
    <3>3. CASE x # k
      BY <3>1, <3>3, <1>1, <1>5, <2>3 DEF IndInv, ExecutedSound, Served, ServedBy, HasKey
    <3> QED
      BY <3>2, <3>3
  <2>4. ASSUME NEW i \in DOMAIN steps, outcome[i] = "succeeded",
               NEW x \in 1..steps[i].items, NEW j \in DOMAIN steps[i].commands
        PROVE  ServedBy(done, <<i, x, j>>)
    BY <2>4 DEF IndInv, ExecutedSound, Served, ServedBy, HasKey
  <2> QED
    BY <1>1, <1>2, <2>1, <2>2, <2>3, <2>4, ExecutedPrime
<1>15. DoneSound'
  <2>1. ASSUME NEW inv \in done, inv[1] = at
        PROVE  failed' > 0 \/ inv[2] \in DOMAIN active' \/ \E m \in DOMAIN records' : records'[m] = inv
    <3>1. failed > 0 \/ inv[2] \in D \/ \E m \in DOMAIN records : records[m] = inv
      BY <2>1, <1>1 DEF IndInv, DoneSound
    <3>2. CASE failed > 0
      BY <3>2, <1>1, <1>3
    <3>3. CASE \E m \in DOMAIN records : records[m] = inv
      BY <3>3, <1>9
    <3>4. CASE inv[2] \in D \ {k}
      BY <3>4, <1>5
    <3>5. CASE inv[2] = k /\ bad
      BY <3>5, <1>1, <1>3
    <3>6. CASE inv[2] = k /\ ~bad
      <4>1. inv[3] \in DOMAIN step.commands
        BY <2>1, <1>2 DEF IndInv, DoneSound
      <4>2. inv = <<at, k, inv[3]>>
        BY <2>1, <3>6, <1>2, TypeParts DEF LogTyped, Invocation
      <4> QED
        BY <3>6, <4>1, <4>2, <1>10
    <3> QED
      BY <3>1, <3>2, <3>3, <3>4, <3>5, <3>6
  <2> QED
    BY <1>1, <1>2, <2>1, KeysStay DEF IndInv, DoneSound, Settles, OnStack, Undone
<1> QED
  BY <1>11, <1>12, <1>13, <1>14, <1>15 DEF IndInv

-----------------------------------------------------------------------------
(* Steps *)

\* Between steps, and once the steps are over, no item is in progress.
LEMMA NoItems ==
  ASSUME IndInv, active = << >>
  PROVE  /\ DOMAIN active = {} /\ TypeOK /\ workflow \in Workflows /\ failed \in Nat
         /\ at \in Nat \ {0} /\ DOMAIN steps = 1..Len(steps) /\ Len(steps) \in 1..MaxSteps
         /\ IsFiniteSet({}) /\ Cardinality({}) = 0
         /\ \A inv \in done : inv[1] \in DOMAIN steps /\ inv[1] \in Nat /\ inv[1] <= at
<1>1. TypeOK /\ workflow \in Workflows /\ at \in 1..(Len(steps) + 1) /\ failed \in 0..MaxItems
  BY TypeParts DEF IndInv, ControlTyped, BatchTyped
<1>2. DOMAIN active = {} /\ DOMAIN steps = 1..Len(steps) /\ Len(steps) \in 1..MaxSteps
  BY <1>1, StepsTyped
<1>3. IsFiniteSet({}) /\ Cardinality({}) = 0
  BY FS_EmptySet
<1>4. \A inv \in done : inv[1] \in DOMAIN steps /\ inv[1] <= at
  BY DEF IndInv, DoneSound
<1> QED
  BY <1>1, <1>2, <1>3, <1>4, Bounds

LEMMA RunEndKeeps ==
  ASSUME IndInv, RunEnds
  PROVE  IndInv'
<1>1. /\ phase = "between" /\ phase' = "returned"
      /\ UNCHANGED <<workflow, dryRun, at, nextIndex, active, hardFailure, failed, records, cache, executedStack,
                     rollback, outcome, aborted, done, undone>>
  BY DEF RunEnds, batch, history
<1>2. active = << >> /\ undone = <<>> /\ ~rollback.attempted
  BY <1>1 DEF IndInv, ItemsSound, UndoneSound
<1>3. TypeOK /\ DOMAIN active = {}
  BY <1>2, NoItems
<1>4. steps' = steps /\ step' = step
  BY <1>1 DEF steps, step
<1>5. TypeOK'
  <2>1. ControlTyped'
    BY <1>1, <1>3, <1>4, TypeParts DEF ControlTyped
  <2>2. BatchTyped'
    BY <1>1, <1>3, TypeParts DEF BatchTyped, Invocation
  <2>3. LogTyped'
    BY <1>1, <1>3, <1>4, TypeParts DEF LogTyped, Entry, Invocation
  <2> QED
    BY <2>1, <2>2, <2>3, TypePartsPrime
<1>6. StackSound'
  BY <1>1 DEF IndInv, StackSound, RecordsSound
<1>7. UndoneSound'
  BY <1>1, <1>2 DEF UndoneSound
<1>8. ItemsSound'
  BY <1>1, <1>2 DEF IndInv, ItemsSound, Item
<1>9. ExecutedSound'
  BY <1>1, <1>3, <1>4 DEF IndInv, ExecutedSound, Served, idempotencyKey, CommandOf
<1>10. DoneSound'
  BY <1>1, <1>4, KeysStay DEF IndInv, DoneSound, Settles, OnStack, Undone
<1> QED
  BY <1>5, <1>6, <1>7, <1>8, <1>9, <1>10 DEF IndInv

LEMMA SkipKeeps ==
  ASSUME IndInv, StepSkipped
  PROVE  IndInv'
<1>1. /\ phase = "between" /\ at <= Len(steps) /\ at' = at + 1
      /\ outcome' = [outcome EXCEPT ![at] = "skipped"]
      /\ UNCHANGED <<workflow, dryRun, phase, nextIndex, active, hardFailure, failed, records, cache,
                     executedStack, rollback, aborted, done, undone>>
  BY DEF StepSkipped, batch, history
<1>2. active = << >>
  BY <1>1 DEF IndInv, ItemsSound
<1>3. /\ TypeOK /\ DOMAIN active = {} /\ at \in Nat \ {0} /\ DOMAIN steps = 1..Len(steps) /\ Len(steps) \in Nat
      /\ \A inv \in done : inv[1] \in DOMAIN steps /\ inv[1] \in Nat /\ inv[1] < at
  <2>1. \A inv \in done : inv[1] < at
    BY <1>1 DEF IndInv, DoneSound
  <2> QED
    BY <1>2, <2>1, NoItems, Bounds
<1>4. steps' = steps
  BY <1>1 DEF steps
<1>5. /\ outcome \in [1..Len(steps) -> {"none", "skipped", "succeeded", "failed"}]
      /\ outcome' \in [1..Len(steps) -> {"none", "skipped", "succeeded", "failed"}]
      /\ \A i \in 1..Len(steps) : i # at => outcome'[i] = outcome[i]
      /\ outcome'[at] = "skipped"
  BY <1>1, <1>3, TypeParts DEF LogTyped
<1>6. TypeOK'
  <2>1. ControlTyped'
    BY <1>1, <1>3, <1>4, TypeParts DEF ControlTyped
  <2>2. BatchTyped'
    BY <1>1, <1>3, TypeParts DEF BatchTyped, Invocation
  <2>3. LogTyped'
    BY <1>1, <1>3, <1>4, <1>5, TypeParts DEF LogTyped, Entry, Invocation
  <2> QED
    BY <2>1, <2>2, <2>3, TypePartsPrime
<1>7. StackSound'
  <2>1. \A i \in DOMAIN executedStack : executedStack[i].step \in Nat
    <3>1. executedStack \in Seq(Entry)
      BY <1>3, TypeParts DEF LogTyped
    <3>2. \A i \in DOMAIN executedStack : executedStack[i] \in Entry
      BY <3>1
    <3> QED
      BY <3>2, Bounds DEF Entry
  <2>2. \A i \in DOMAIN executedStack : executedStack[i].step < at'
    BY <1>1, <1>3, <2>1 DEF IndInv, StackSound
  <2> QED
    BY <1>1, <2>2 DEF IndInv, StackSound, RecordsSound
<1>8. UndoneSound'
  BY <1>1 DEF IndInv, UndoneSound, UndoneBefore
<1>9. ItemsSound'
  BY <1>1, <1>2 DEF IndInv, ItemsSound, Item
<1>10. ExecutedSound'
  <2>1. phase \in {"between", "step"} => \A key \in cache : HasKey(done, key)
    BY DEF IndInv, ExecutedSound, HasKey
  <2>2. ASSUME NEW i \in DOMAIN steps, outcome'[i] = "succeeded",
               NEW x \in 1..steps[i].items, NEW j \in DOMAIN steps[i].commands
        PROVE  ServedBy(done, <<i, x, j>>)
    BY <1>3, <1>5, <2>2 DEF IndInv, ExecutedSound, Served, ServedBy, HasKey
  <2> QED
    BY <1>1, <1>3, <2>1, <2>2, ExecutedPrime
<1>11. DoneSound'
  <2>1. ASSUME NEW inv \in done
        PROVE  /\ inv[1] <= at' /\ inv[1] < at' /\ outcome'[inv[1]] = outcome[inv[1]]
               /\ inv[3] \in DOMAIN steps[inv[1]].commands /\ Settles(inv)
    BY <1>1, <1>3, <1>5 DEF IndInv, DoneSound
  <2> QED
    BY <1>1, <1>3, <1>4, <2>1, KeysStay DEF DoneSound, Settles, OnStack, Undone
<1> QED
  BY <1>6, <1>7, <1>8, <1>9, <1>10, <1>11 DEF IndInv

LEMMA BeginKeeps ==
  ASSUME IndInv, StepBegins
  PROVE  IndInv'
<1>1. /\ phase = "between" /\ at <= Len(steps) /\ phase' = "step" /\ nextIndex' = 1 /\ active' = << >>
      /\ hardFailure' = FALSE /\ failed' = 0 /\ records' = <<>>
      /\ UNCHANGED <<workflow, dryRun, at, cache, executedStack, rollback, outcome, aborted, done, undone>>
  BY DEF StepBegins, history
<1>2. active = << >> /\ DOMAIN active' = {} /\ DOMAIN records' = {}
  BY <1>1 DEF IndInv, ItemsSound
<1>3. /\ TypeOK /\ at \in Nat \ {0} /\ IsFiniteSet({}) /\ Cardinality({}) = 0
      /\ \A inv \in done : inv[1] \in DOMAIN steps /\ inv[1] \in Nat /\ inv[1] < at
  <2>1. \A inv \in done : inv[1] < at
    BY <1>1 DEF IndInv, DoneSound
  <2> QED
    BY <1>2, <2>1, NoItems
<1>4. steps' = steps /\ step' = step
  BY <1>1 DEF steps, step
<1>5. TypeOK'
  <2>1. ControlTyped'
    BY <1>1, <1>3, <1>4, TypeParts DEF ControlTyped
  <2>2. BatchTyped'
    <3>1. hardFailure' \in BOOLEAN /\ records' \in Seq(Invocation')
      BY <1>1, EmptySeq DEF Invocation
    <3>2. 1 \in 1..(MaxItems + 1) /\ 0 \in 0..MaxItems
      BY Bounds
    <3> QED
      BY <1>1, <1>2, <3>1, <3>2 DEF BatchTyped
  <2>3. LogTyped'
    BY <1>1, <1>3, <1>4, TypeParts DEF LogTyped, Entry, Invocation
  <2> QED
    BY <2>1, <2>2, <2>3, TypePartsPrime
<1>6. StackSound' /\ UndoneSound'
  BY <1>1 DEF IndInv, StackSound, UndoneSound, RecordsSound, UndoneBefore
<1>7. ItemsSound'
  <2>1. active' \in [DOMAIN active' -> Item]
    BY <1>1, <1>2
  <2> QED
    BY <1>1, <1>2, <1>3, <2>1 DEF ItemsSound, RecordsSound, Item
<1>8. ExecutedSound'
  <2>1. phase \in {"between", "step"} => \A key \in cache : HasKey(done, key)
    BY DEF IndInv, ExecutedSound, HasKey
  <2>2. ASSUME NEW i \in DOMAIN steps, outcome[i] = "succeeded",
               NEW x \in 1..steps[i].items, NEW j \in DOMAIN steps[i].commands
        PROVE  ServedBy(done, <<i, x, j>>)
    BY <2>2 DEF IndInv, ExecutedSound, Served, ServedBy, HasKey
  <2>3. 1..(nextIndex' - 1) = {}
    BY <1>1
  <2> QED
    BY <1>1, <1>2, <2>1, <2>2, <2>3, ExecutedPrime
<1>9. DoneSound'
  <2>1. ASSUME NEW inv \in done
        PROVE  inv[1] <= at /\ inv[1] # at /\ inv[3] \in DOMAIN steps[inv[1]].commands /\ Settles(inv)
    BY <1>1, <1>3 DEF IndInv, DoneSound
  <2> QED
    BY <1>1, <1>3, <1>4, <2>1, KeysStay DEF DoneSound, Settles, OnStack, Undone
<1> QED
  BY <1>5, <1>6, <1>7, <1>8, <1>9 DEF IndInv

LEMMA StackFields ==
  ASSUME IndInv
  PROVE  /\ executedStack \in Seq(Entry) /\ DOMAIN executedStack = 1..Len(executedStack) /\ Len(executedStack) \in Nat
         /\ \A i \in DOMAIN executedStack :
              /\ executedStack[i] \in Entry /\ executedStack[i].step \in Nat /\ executedStack[i].own \in BOOLEAN
              /\ executedStack[i].records \in Seq(Invocation)
<1>1. executedStack \in Seq(Entry)
  BY TypeParts DEF IndInv, LogTyped
<1>2. \A i \in DOMAIN executedStack : executedStack[i] \in Entry
  BY <1>1
<1>3. DOMAIN executedStack = 1..Len(executedStack) /\ Len(executedStack) \in Nat
  BY <1>1, LenProperties
<1> QED
  BY <1>1, <1>2, <1>3, Bounds DEF Entry

LEMMA OutcomeSet ==
  ASSUME IndInv, phase = "step", NEW o \in {"succeeded", "failed"}, outcome' = [outcome EXCEPT ![at] = o]
  PROVE  /\ outcome' \in [1..Len(steps) -> {"none", "skipped", "succeeded", "failed"}]
         /\ \A i \in DOMAIN steps : i # at => outcome'[i] = outcome[i]
         /\ outcome'[at] = o /\ at \in DOMAIN steps
<1>1. TypeOK /\ workflow \in Workflows
  BY TypeParts DEF IndInv, ControlTyped
<1>2. at \in DOMAIN steps /\ DOMAIN steps = 1..Len(steps)
  BY <1>1, InStep, StepsTyped
<1>3. outcome \in [1..Len(steps) -> {"none", "skipped", "succeeded", "failed"}]
  BY <1>1, TypeParts DEF LogTyped
<1> QED
  BY <1>2, <1>3

LEMMA SuccessKeeps ==
  ASSUME IndInv, StepSucceeds
  PROVE  IndInv'
<1> DEFINE entry == [step |-> at, own |-> step.rollback, records |-> records]
           n == Len(executedStack)
           o == IF failed > 0 THEN "failed" ELSE "succeeded"
<1>1. /\ phase = "step" /\ active = << >> /\ (hardFailure \/ nextIndex > step.items) /\ ~hardFailure
      /\ executedStack' = Append(executedStack, entry) /\ outcome' = [outcome EXCEPT ![at] = o]
      /\ phase' = "between" /\ at' = at + 1
      /\ UNCHANGED <<workflow, dryRun, nextIndex, active, hardFailure, failed, records, cache, rollback, aborted,
                     done, undone>>
  BY DEF StepSucceeds, Settled, batch, history
<1>2. /\ TypeOK /\ DOMAIN active = {} /\ at \in Nat \ {0} /\ DOMAIN steps = 1..Len(steps) /\ Len(steps) \in Nat
      /\ failed \in Nat /\ \A inv \in done : inv[1] \in DOMAIN steps /\ inv[1] \in Nat /\ inv[1] <= at
  BY <1>1, NoItems, Bounds
<1>3. /\ at \in DOMAIN steps /\ at \in 1..MaxSteps /\ step = steps[at] /\ step.rollback \in BOOLEAN
      /\ step.items \in Nat /\ steps' = steps
  BY <1>1, <1>2, InStep, Bounds DEF steps
<1>4. records \in Seq(Invocation) /\ nextIndex \in Nat /\ undone = <<>>
  BY <1>1, <1>2, TypeParts, Bounds DEF IndInv, BatchTyped, UndoneSound
<1>5. entry \in Entry /\ entry.step = at /\ entry.records = records
  BY <1>3, <1>4 DEF Entry
<1> HIDE DEF entry
<1>6. /\ outcome' \in [1..Len(steps) -> {"none", "skipped", "succeeded", "failed"}] /\ outcome'[at] = o
      /\ \A i \in DOMAIN steps : i # at => outcome'[i] = outcome[i]
  BY <1>1, OutcomeSet
<1>7. /\ executedStack' \in Seq(Entry) /\ n \in Nat /\ DOMAIN executedStack = 1..n
      /\ DOMAIN executedStack' = 1..(n + 1)
      /\ executedStack'[n + 1] = entry /\ \A i \in 1..n : executedStack'[i] = executedStack[i]
  <2>1. /\ executedStack \in Seq(Entry) /\ n \in Nat /\ DOMAIN executedStack = 1..n
    BY StackFields
  <2>2. /\ executedStack' \in Seq(Entry) /\ Len(executedStack') = n + 1
        /\ executedStack'[n + 1] = entry /\ \A i \in 1..n : executedStack'[i] = executedStack[i]
    BY <1>1, <1>5, <2>1, AppendProperties
  <2> QED
    BY <2>1, <2>2, LenProperties
<1> HIDE DEF n
<1>8. TypeOK'
  <2>1. ControlTyped'
    BY <1>1, <1>2, <1>3, TypeParts DEF ControlTyped
  <2>2. BatchTyped'
    BY <1>1, <1>2, TypeParts DEF BatchTyped, Invocation
  <2>3. LogTyped'
    BY <1>1, <1>2, <1>3, <1>6, <1>7, TypeParts DEF LogTyped, Entry, Invocation
  <2> QED
    BY <2>1, <2>2, <2>3, TypePartsPrime
<1>9. StackSound'
  <2>1. ASSUME NEW i \in 1..n
        PROVE  executedStack[i].step \in Nat /\ executedStack[i].step < at
               /\ RecordsSound(executedStack[i].records, executedStack[i].step)
    BY <1>7, StackFields DEF IndInv, StackSound
  <2>2. RecordsSound(records, at)
    BY <1>1 DEF IndInv, ItemsSound
  <2>3. ASSUME NEW i \in 1..(n + 1)
        PROVE  /\ executedStack'[i].step < at'
               /\ RecordsSound(executedStack'[i].records, executedStack'[i].step)
    <3>1. CASE i \in 1..n
      BY <3>1, <2>1, <1>1, <1>2, <1>7
    <3>2. CASE i = n + 1
      BY <3>2, <2>2, <1>1, <1>2, <1>5, <1>7
    <3> QED
      BY <3>1, <3>2, <1>7
  <2>4. ASSUME NEW i \in 1..(n + 1), NEW j \in 1..(n + 1), i < j
        PROVE  executedStack'[i].step < executedStack'[j].step
    <3>1. i \in 1..n
      BY <2>4, <1>7
    <3>2. CASE j \in 1..n
      BY <3>1, <3>2, <2>4, <1>7 DEF IndInv, StackSound
    <3>3. CASE j = n + 1
      BY <3>1, <3>3, <2>1, <1>5, <1>7
    <3> QED
      BY <3>2, <3>3, <1>7
  <2> QED
    BY <1>7, <2>3, <2>4 DEF StackSound, RecordsSound
<1>10. UndoneSound'
  <2>1. DOMAIN undone' = {}
    BY <1>1, <1>4
  <2> QED
    BY <1>1, <2>1 DEF IndInv, UndoneSound, UndoneBefore
<1>11. ItemsSound'
  BY <1>1 DEF IndInv, ItemsSound, Item
<1>12. ExecutedSound'
  <2>1. phase \in {"between", "step"} => \A key \in cache : HasKey(done, key)
    BY DEF IndInv, ExecutedSound, HasKey
  <2>2. ASSUME NEW i \in DOMAIN steps, outcome'[i] = "succeeded",
               NEW x \in 1..steps[i].items, NEW j \in DOMAIN steps[i].commands
        PROVE  ServedBy(done, <<i, x, j>>)
    <3>1. CASE i = at
      <4>1. failed = 0
        BY <3>1, <2>2, <1>2, <1>6
      <4>2. x \in 1..(nextIndex - 1) \ DOMAIN active
        BY <3>1, <1>1, <1>2, <1>3, <1>4
      <4> QED
        BY <3>1, <4>1, <4>2, <1>1, <1>3 DEF IndInv, ExecutedSound, Served, ServedBy, HasKey
    <3>2. CASE i # at
      BY <3>2, <2>2, <1>6 DEF IndInv, ExecutedSound, Served, ServedBy, HasKey
    <3> QED
      BY <3>1, <3>2
  <2> QED
    BY <1>1, <1>2, <2>1, <2>2, ExecutedPrime
<1>13. DoneSound'
  <2>1. ASSUME NEW inv \in done
        PROVE  outcome'[inv[1]] = "failed" \/ OnStack(inv)' \/ Undone(inv)
               \/ CommandOf(inv).undo # "handler" \/ rollback.errors \/ aborted
    <3>1. CASE inv[1] = at
      <4>1. failed > 0 \/ \E m \in DOMAIN records : records[m] = inv
        BY <3>1, <1>1, <1>2 DEF IndInv, DoneSound
      <4>2. CASE failed > 0
        BY <3>1, <4>2, <1>6
      <4>3. CASE \E m \in DOMAIN records : records[m] = inv
        <5>1. n + 1 \in DOMAIN executedStack' /\ executedStack'[n + 1].records = records
          BY <1>5, <1>7
        <5> QED
          BY <4>3, <5>1 DEF OnStack
      <4> QED
        BY <4>1, <4>2, <4>3
    <3>2. CASE inv[1] # at
      <4>1. Settles(inv)
        BY <3>2, <1>2 DEF IndInv, DoneSound
      <4>2. outcome'[inv[1]] = outcome[inv[1]]
        BY <3>2, <1>2, <1>6
      <4>3. OnStack(inv) => OnStack(inv)'
        BY <1>7 DEF OnStack
      <4> QED
        BY <4>1, <4>2, <4>3 DEF Settles
    <3> QED
      BY <3>1, <3>2
  <2>2. ASSUME NEW inv \in done
        PROVE  inv[1] <= at' /\ inv[1] < at' /\ inv[3] \in DOMAIN steps[inv[1]].commands
    BY <1>1, <1>2 DEF IndInv, DoneSound
  <2> QED
    BY <1>1, <1>2, <1>3, <2>1, <2>2, KeysStay DEF DoneSound, Settles, Undone
<1> QED
  BY <1>8, <1>9, <1>10, <1>11, <1>12, <1>13 DEF IndInv

LEMMA FailureKeeps ==
  ASSUME IndInv, StepFails
  PROVE  IndInv'
<1>1. /\ phase = "step" /\ active = << >>
      /\ outcome' = [outcome EXCEPT ![at] = "failed"]
      /\ \/ phase' = "between" /\ at' = at + 1 /\ rollback' = rollback
         \/ phase' = "rollback" /\ at' = at /\ rollback' = [rollback EXCEPT !.attempted = TRUE]
         \/ phase' = "returned" /\ at' = at /\ rollback' = rollback
      /\ UNCHANGED <<workflow, dryRun, nextIndex, active, hardFailure, failed, records, cache, executedStack,
                     aborted, done, undone>>
  BY DEF StepFails, Settled, batch, history
<1>2. /\ TypeOK /\ DOMAIN active = {} /\ at \in Nat \ {0} /\ DOMAIN steps = 1..Len(steps) /\ Len(steps) \in Nat
      /\ \A inv \in done : inv[1] \in DOMAIN steps /\ inv[1] \in Nat /\ inv[1] <= at
  BY <1>1, NoItems, Bounds
<1>3. at \in DOMAIN steps /\ steps' = steps
  BY <1>1, <1>2, InStep DEF steps
<1>4. undone = <<>> /\ ~rollback.attempted /\ rollback \in [attempted : BOOLEAN, errors : BOOLEAN]
  BY <1>1, <1>2, TypeParts DEF IndInv, LogTyped, UndoneSound
<1>5. /\ outcome' \in [1..Len(steps) -> {"none", "skipped", "succeeded", "failed"}] /\ outcome'[at] = "failed"
      /\ \A i \in DOMAIN steps : i # at => outcome'[i] = outcome[i]
  BY <1>1, OutcomeSet
<1>6. rollback' \in [attempted : BOOLEAN, errors : BOOLEAN] /\ rollback'.errors = rollback.errors
  BY <1>1, <1>4
<1>7. TypeOK'
  <2>1. ControlTyped'
    BY <1>1, <1>2, <1>3, TypeParts DEF ControlTyped
  <2>2. BatchTyped'
    BY <1>1, <1>2, TypeParts DEF BatchTyped, Invocation
  <2>3. LogTyped'
    BY <1>1, <1>2, <1>3, <1>5, <1>6, TypeParts DEF LogTyped, Entry, Invocation
  <2> QED
    BY <2>1, <2>2, <2>3, TypePartsPrime
<1>8. StackSound'
  <2>1. \A i \in DOMAIN executedStack : executedStack[i].step < at'
    BY <1>1, <1>2, StackFields DEF IndInv, StackSound
  <2> QED
    BY <1>1, <2>1 DEF IndInv, StackSound, RecordsSound
<1>9. UndoneSound'
  <2>1. DOMAIN undone' = {}
    BY <1>1, <1>4
  <2> QED
    BY <1>1, <1>4, <2>1 DEF UndoneSound
<1>10. ItemsSound'
  BY <1>1 DEF IndInv, ItemsSound, Item
<1>11. ExecutedSound'
  <2>1. phase \in {"between", "step"} => \A key \in cache : HasKey(done, key)
    BY DEF IndInv, ExecutedSound, HasKey
  <2>2. ASSUME NEW i \in DOMAIN steps, outcome'[i] = "succeeded",
               NEW x \in 1..steps[i].items, NEW j \in DOMAIN steps[i].commands
        PROVE  ServedBy(done, <<i, x, j>>)
    BY <2>2, <1>5 DEF IndInv, ExecutedSound, Served, ServedBy, HasKey
  <2> QED
    BY <1>1, <1>2, <2>1, <2>2, ExecutedPrime
<1>12. DoneSound'
  <2>1. ASSUME NEW inv \in done
        PROVE  outcome'[inv[1]] = "failed" \/ OnStack(inv) \/ Undone(inv)
               \/ CommandOf(inv).undo # "handler" \/ rollback.errors \/ aborted
    <3>1. CASE inv[1] = at
      BY <3>1, <1>5
    <3>2. CASE inv[1] # at
      <4>1. Settles(inv)
        BY <3>2, <1>2 DEF IndInv, DoneSound
      <4>2. outcome'[inv[1]] = outcome[inv[1]]
        BY <3>2, <1>2, <1>5
      <4> QED
        BY <4>1, <4>2 DEF Settles
    <3> QED
      BY <3>1, <3>2
  <2>2. ASSUME NEW inv \in done
        PROVE  /\ inv[1] <= at' /\ (phase' = "between" => inv[1] < at')
               /\ inv[3] \in DOMAIN steps[inv[1]].commands
    BY <1>1, <1>2 DEF IndInv, DoneSound
  <2> QED
    BY <1>1, <1>2, <1>3, <1>6, <2>1, <2>2, KeysStay DEF DoneSound, Settles, OnStack, Undone
<1> QED
  BY <1>7, <1>8, <1>9, <1>10, <1>11, <1>12 DEF IndInv

-----------------------------------------------------------------------------
(* The rollback *)

\* What is left on the stack was there, and in the same place.
StackShrinks ==
  \A i \in DOMAIN executedStack' :
    /\ i \in DOMAIN executedStack /\ executedStack'[i].step = executedStack[i].step
    /\ \A n \in DOMAIN executedStack'[i].records :
         n \in DOMAIN executedStack[i].records /\ executedStack'[i].records[n] = executedStack[i].records[n]

\* What a step of the rollback does: what leaves the stack is undone, or has no
\* handler, or is an error; nothing undone before is forgotten.
RollbackStep ==
  /\ phase = "rollback" /\ executedStack' \in Seq(Entry) /\ StackShrinks
  /\ undone' \in Seq(Invocation) /\ rollback' \in [attempted : BOOLEAN, errors : BOOLEAN]
  /\ \A m, n \in DOMAIN undone' : m < n => UndoneBefore(undone'[m], undone'[n])
  /\ \A m \in DOMAIN undone' : \A i \in DOMAIN executedStack' : \A n \in DOMAIN executedStack'[i].records :
       UndoneBefore(undone'[m], executedStack'[i].records[n])
  /\ cache \subseteq cache'
  /\ \A key \in cache' \ cache : key[1] \in 0..MaxSteps /\ key[2] \in 0..MaxItems /\ key[3] \in STRING
  /\ rollback.errors => rollback'.errors
  /\ \A inv : Undone(inv) => Undone(inv)'
  /\ \A inv : OnStack(inv) =>
       OnStack(inv)' \/ Undone(inv)' \/ CommandOf(inv).undo # "handler" \/ rollback'.errors
  /\ UNCHANGED <<workflow, dryRun, phase, at, nextIndex, active, hardFailure, failed, records, outcome,
                 aborted, done>>

LEMMA RollbackKeeps ==
  ASSUME IndInv, RollbackStep
  PROVE  IndInv'
<1>1. /\ phase = "rollback"
      /\ UNCHANGED <<workflow, dryRun, phase, at, nextIndex, active, hardFailure, failed, records, outcome,
                     aborted, done>>
  BY DEF RollbackStep
<1>2. active = << >>
  BY <1>1 DEF IndInv, ItemsSound
<1>3. TypeOK /\ DOMAIN active = {}
  BY <1>2, NoItems
<1>4. steps' = steps /\ step' = step
  BY <1>1 DEF steps, step
<1>5. TypeOK'
  <2>1. ControlTyped'
    BY <1>1, <1>3, <1>4, TypeParts DEF ControlTyped
  <2>2. BatchTyped'
    BY <1>1, <1>3, TypeParts DEF BatchTyped, Invocation
  <2>3. ASSUME NEW key \in cache'
        PROVE  key[1] \in 0..MaxSteps /\ key[2] \in 0..MaxItems /\ key[3] \in STRING
    <3>1. CASE key \in cache
      BY <3>1, <1>3, TypeParts DEF LogTyped
    <3>2. CASE key \notin cache
      BY <3>2, Bounds DEF RollbackStep
    <3> QED
      BY <3>1, <3>2
  <2>4. LogTyped'
    <3>1. /\ executedStack' \in Seq(Entry) /\ undone' \in Seq(Invocation)
          /\ rollback' \in [attempted : BOOLEAN, errors : BOOLEAN]
      BY DEF RollbackStep
    <3>2. /\ outcome \in [1..Len(steps) -> {"none", "skipped", "succeeded", "failed"}]
          /\ aborted \in BOOLEAN /\ done \subseteq Invocation
      BY <1>3, TypeParts DEF LogTyped
    <3> QED
      BY <1>1, <1>4, <2>3, <3>1, <3>2 DEF LogTyped, Entry, Invocation
  <2> QED
    BY <2>1, <2>2, <2>4, TypePartsPrime
<1>6. StackSound'
  <2>1. ASSUME NEW i \in DOMAIN executedStack'
        PROVE  /\ i \in DOMAIN executedStack /\ executedStack'[i].step = executedStack[i].step
               /\ executedStack'[i].step < at
               /\ RecordsSound(executedStack'[i].records, executedStack'[i].step)
    <3>1. /\ i \in DOMAIN executedStack /\ executedStack'[i].step = executedStack[i].step
          /\ \A n \in DOMAIN executedStack'[i].records :
               n \in DOMAIN executedStack[i].records /\ executedStack'[i].records[n] = executedStack[i].records[n]
      BY DEF RollbackStep, StackShrinks
    <3>2. executedStack[i].step < at /\ RecordsSound(executedStack[i].records, executedStack[i].step)
      BY <3>1 DEF IndInv, StackSound
    <3> QED
      BY <3>1, <3>2 DEF RecordsSound
  <2>2. \A i, j \in DOMAIN executedStack' : i < j => executedStack'[i].step < executedStack'[j].step
    BY <2>1 DEF IndInv, StackSound
  <2> QED
    BY <1>1, <2>1, <2>2 DEF StackSound, RecordsSound
<1>7. UndoneSound'
  BY <1>1 DEF RollbackStep, UndoneSound, UndoneBefore
<1>8. ItemsSound'
  BY <1>1, <1>2 DEF IndInv, ItemsSound, Item
<1>9. ExecutedSound'
  <2>1. phase' \notin {"between", "step"}
    BY <1>1
  <2>2. ASSUME NEW i \in DOMAIN steps, outcome[i] = "succeeded",
               NEW x \in 1..steps[i].items, NEW j \in DOMAIN steps[i].commands
        PROVE  ServedBy(done, <<i, x, j>>)
    BY <2>2 DEF IndInv, ExecutedSound, Served, ServedBy, HasKey
  <2> QED
    BY <1>1, <1>3, <2>1, <2>2, ExecutedPrime
<1>10. DoneSound'
  <2>1. ASSUME NEW inv \in done
        PROVE  outcome[inv[1]] = "failed" \/ OnStack(inv)' \/ Undone(inv)'
               \/ CommandOf(inv).undo # "handler" \/ rollback'.errors \/ aborted
    <3>1. Settles(inv)
      BY <1>1 DEF IndInv, DoneSound
    <3> QED
      BY <3>1 DEF Settles, RollbackStep
  <2>2. ASSUME NEW inv \in done
        PROVE  /\ inv[1] \in DOMAIN steps /\ inv[3] \in DOMAIN steps[inv[1]].commands /\ inv[1] <= at
    BY DEF IndInv, DoneSound
  <2>3. ASSUME NEW inv \in done PROVE Settles(inv)'
    BY <1>1, <2>1, KeysStay DEF Settles
  <2> QED
    BY <1>1, <1>4, <2>2, <2>3 DEF DoneSound
<1> QED
  BY <1>5, <1>6, <1>7, <1>8, <1>9, <1>10 DEF IndInv

\* The stack with its last entry cut to e: all that is not in e is where it was.
LEMMA Shrinking ==
  ASSUME IndInv, executedStack # <<>>, NEW e \in Entry, e.step = Last(executedStack).step,
         \A n \in DOMAIN e.records : /\ n \in DOMAIN Last(executedStack).records
                                     /\ e.records[n] = Last(executedStack).records[n],
         \/ executedStack' = Without(e)
         \/ executedStack' = Front(executedStack) /\ e.records = <<>>
  PROVE  /\ executedStack' \in Seq(Entry) /\ StackShrinks
         /\ \A inv : OnStack(inv) =>
              OnStack(inv)' \/ \E n \in DOMAIN Last(executedStack).records \ DOMAIN e.records :
                                 Last(executedStack).records[n] = inv
<1> DEFINE l == Len(executedStack)
           front == Front(executedStack)
           last == Last(executedStack)
<1>1. /\ l \in Nat \ {0} /\ last = executedStack[l] /\ DOMAIN executedStack = 1..l
      /\ front \in Seq(Entry) /\ Len(front) = l - 1 /\ DOMAIN front = 1..(l - 1)
      /\ \A n \in 1..(l - 1) : front[n] = executedStack[n]
  BY StackFields, LastFront
<1> HIDE DEF l, front, last
<1>2. CASE executedStack' = front /\ e.records = <<>>
  <2>1. executedStack' \in Seq(Entry) /\ StackShrinks
    BY <1>1, <1>2 DEF StackShrinks
  <2>2. ASSUME NEW inv, OnStack(inv)
        PROVE  OnStack(inv)' \/ \E n \in DOMAIN last.records \ DOMAIN e.records : last.records[n] = inv
    <3>1. PICK i \in 1..l : \E n \in DOMAIN executedStack[i].records : executedStack[i].records[n] = inv
      BY <2>2, <1>1 DEF OnStack
    <3>2. CASE i = l
      <4>1. DOMAIN e.records = {}
        BY <1>2
      <4> QED
        BY <3>1, <3>2, <4>1, <1>1
    <3>3. CASE i # l
      <4>1. i \in 1..(l - 1)
        BY <3>3, <1>1
      <4>2. i \in DOMAIN executedStack' /\ executedStack'[i] = executedStack[i]
        BY <4>1, <1>1, <1>2
      <4> QED
        BY <3>1, <4>2 DEF OnStack
    <3> QED
      BY <3>2, <3>3
  <2> QED
    BY <2>1, <2>2 DEF last
<1>3. CASE executedStack' = front \o <<e>>
  <2>1. /\ executedStack' \in Seq(Entry) /\ DOMAIN executedStack' = 1..l
        /\ executedStack'[l] = e /\ \A n \in 1..(l - 1) : executedStack'[n] = executedStack[n]
    <3>1. <<e>> \in Seq(Entry) /\ Len(<<e>>) = 1 /\ <<e>>[1] = e
      OBVIOUS
    <3>2. /\ front \o <<e>> \in Seq(Entry) /\ Len(front \o <<e>>) = Len(front) + Len(<<e>>)
          /\ \A m \in 1..(Len(front) + Len(<<e>>)) :
               (front \o <<e>>)[m] = IF m <= Len(front) THEN front[m] ELSE <<e>>[m - Len(front)]
      BY <1>1, <3>1, ConcatProperties
    <3>3. Len(front) + Len(<<e>>) = l /\ l \in 1..l /\ ~(l <= Len(front)) /\ l - Len(front) = 1
      BY <1>1, <3>1
    <3>4. executedStack'[l] = e
      BY <1>3, <3>1, <3>2, <3>3
    <3>5. ASSUME NEW n \in 1..(l - 1) PROVE executedStack'[n] = executedStack[n]
      <4>1. n \in 1..l /\ n <= Len(front)
        BY <1>1
      <4> QED
        BY <4>1, <1>1, <1>3, <3>2, <3>3
    <3> QED
      BY <1>1, <1>3, <3>2, <3>3, <3>4, <3>5, LenProperties
  <2>2. ASSUME NEW i \in 1..l PROVE i = l \/ i \in 1..(l - 1)
    BY <1>1
  <2>3. StackShrinks
    BY <1>1, <2>1, <2>2 DEF StackShrinks, last
  <2>4. ASSUME NEW inv, OnStack(inv)
        PROVE  OnStack(inv)' \/ \E n \in DOMAIN last.records \ DOMAIN e.records : last.records[n] = inv
    <3>1. PICK i \in 1..l : \E n \in DOMAIN executedStack[i].records : executedStack[i].records[n] = inv
      BY <2>4, <1>1 DEF OnStack
    <3>2. CASE i = l
      <4>1. PICK n \in DOMAIN last.records : last.records[n] = inv
        BY <3>1, <3>2, <1>1
      <4>2. CASE n \in DOMAIN e.records
        <5>1. e.records[n] = inv /\ l \in DOMAIN executedStack'
          BY <4>1, <4>2, <1>1, <2>1 DEF last
        <5> QED
          BY <4>2, <5>1, <2>1 DEF OnStack
      <4> QED
        BY <4>1, <4>2
    <3>3. CASE i # l
      <4>1. i \in DOMAIN executedStack' /\ executedStack'[i] = executedStack[i]
        BY <3>3, <2>1, <2>2
      <4> QED
        BY <3>1, <4>1 DEF OnStack
    <3> QED
      BY <3>2, <3>3
  <2> QED
    BY <2>1, <2>3, <2>4 DEF last
<1> QED
  BY <1>2, <1>3 DEF Without, front

\* A step of the rollback that undoes nothing keeps what is undone ahead of what is left.
LEMMA NothingUndone ==
  ASSUME IndInv, StackShrinks, undone' = undone
  PROVE  /\ undone' \in Seq(Invocation)
         /\ \A m, n \in DOMAIN undone' : m < n => UndoneBefore(undone'[m], undone'[n])
         /\ \A m \in DOMAIN undone' : \A i \in DOMAIN executedStack' : \A n \in DOMAIN executedStack'[i].records :
              UndoneBefore(undone'[m], executedStack'[i].records[n])
         /\ \A inv : Undone(inv) => Undone(inv)'
<1>1. undone \in Seq(Invocation)
  BY TypeParts DEF IndInv, LogTyped
<1>2. ASSUME NEW m \in DOMAIN undone, NEW i \in DOMAIN executedStack', NEW n \in DOMAIN executedStack'[i].records
      PROVE  UndoneBefore(undone[m], executedStack'[i].records[n])
  BY DEF IndInv, UndoneSound, StackShrinks
<1> QED
  BY <1>1, <1>2 DEF IndInv, UndoneSound, Undone

LEMMA StepRollbackSteps ==
  ASSUME IndInv, NEW ok \in BOOLEAN, StepRollback(ok)
  PROVE  RollbackStep
<1> DEFINE last == Last(executedStack)
           e == [last EXCEPT !.own = FALSE]
<1>1. /\ phase = "rollback" /\ executedStack # <<>> /\ executedStack' = Without(e)
      /\ rollback' = [rollback EXCEPT !.errors = @ \/ ~ok]
      /\ UNCHANGED <<workflow, dryRun, phase, at, nextIndex, active, hardFailure, failed, records, cache, outcome,
                     aborted, done, undone>>
  BY DEF StepRollback, batch, history
<1>2. last \in Entry
  BY <1>1, StackFields, LastFront
<1>3. e \in Entry /\ e.step = last.step /\ e.records = last.records
  BY <1>2 DEF Entry
<1> HIDE DEF e
<1>4. /\ executedStack' \in Seq(Entry) /\ StackShrinks /\ \A inv : OnStack(inv) => OnStack(inv)'
  <2>1. /\ executedStack' \in Seq(Entry) /\ StackShrinks
        /\ \A inv : OnStack(inv) =>
             OnStack(inv)' \/ \E n \in DOMAIN last.records \ DOMAIN e.records : last.records[n] = inv
    BY <1>1, <1>3, Shrinking
  <2> QED
    BY <2>1, <1>3
<1>5. rollback \in [attempted : BOOLEAN, errors : BOOLEAN]
  BY TypeParts DEF IndInv, LogTyped
<1>6. rollback' \in [attempted : BOOLEAN, errors : BOOLEAN] /\ (rollback.errors => rollback'.errors)
  BY <1>1, <1>5
<1> QED
  BY <1>1, <1>4, <1>6, NothingUndone DEF RollbackStep

LEMMA NothingToUndoSteps ==
  ASSUME IndInv, NothingToUndo
  PROVE  RollbackStep
<1> DEFINE last == Last(executedStack)
<1>1. /\ phase = "rollback" /\ executedStack # <<>> /\ executedStack' = Front(executedStack) /\ last.records = <<>>
      /\ UNCHANGED <<workflow, dryRun, phase, at, nextIndex, active, hardFailure, failed, records, cache, rollback,
                     outcome, aborted, done, undone>>
  BY DEF NothingToUndo, batch, history
<1>2. last \in Entry
  BY <1>1, StackFields, LastFront
<1>3. /\ executedStack' \in Seq(Entry) /\ StackShrinks /\ \A inv : OnStack(inv) => OnStack(inv)'
  BY <1>1, <1>2, Shrinking
<1>4. rollback \in [attempted : BOOLEAN, errors : BOOLEAN]
  BY TypeParts DEF IndInv, LogTyped
<1> QED
  BY <1>1, <1>3, <1>4, NothingUndone DEF RollbackStep

\* The last record of the last entry comes, undone, before all that is left.
LEMMA LastFirst ==
  ASSUME IndInv, executedStack # <<>>, Last(executedStack).records # <<>>, StackShrinks,
         \A n \in DOMAIN executedStack' : n = Len(executedStack) =>
           DOMAIN executedStack'[n].records \subseteq 1..(Len(Last(executedStack).records) - 1)
  PROVE  /\ \A i \in DOMAIN executedStack' : \A n \in DOMAIN executedStack'[i].records :
              UndoneBefore(Last(Last(executedStack).records), executedStack'[i].records[n])
         /\ \A m \in DOMAIN undone : UndoneBefore(undone[m], Last(Last(executedStack).records))
<1> DEFINE l == Len(executedStack)
           last == Last(executedStack)
           c == Len(last.records)
           inv == Last(last.records)
<1>1. l \in Nat \ {0} /\ last = executedStack[l] /\ last \in Entry /\ DOMAIN executedStack = 1..l
  BY StackFields, LastFront
<1>2. last.records \in Seq(Invocation)
  BY <1>1 DEF Entry
<1>3. c \in Nat \ {0} /\ inv = last.records[c] /\ DOMAIN last.records = 1..c /\ inv \in Invocation
  BY <1>2, LastFront
<1> HIDE DEF l, last, c, inv
<1>4. l \in DOMAIN executedStack /\ c \in DOMAIN last.records
  BY <1>1, <1>3
<1>5. \A m \in DOMAIN undone : UndoneBefore(undone[m], inv)
  BY <1>1, <1>3, <1>4 DEF IndInv, UndoneSound
<1>6. inv[1] = last.step /\ RecordsSound(last.records, last.step)
  BY <1>1, <1>3, <1>4 DEF IndInv, StackSound, RecordsSound
<1>7. ASSUME NEW i \in DOMAIN executedStack', NEW n \in DOMAIN executedStack'[i].records
      PROVE  UndoneBefore(inv, executedStack'[i].records[n])
  <2> DEFINE x == executedStack'[i].records[n]
  <2>1. i \in 1..l /\ n \in DOMAIN executedStack[i].records /\ x = executedStack[i].records[n]
    BY <1>1 DEF StackShrinks
  <2>2. x[1] = executedStack[i].step /\ executedStack[i].step \in Nat /\ last.step \in Nat
    BY <2>1, <1>1, <1>4, StackFields DEF IndInv, StackSound, RecordsSound
  <2>3. x \in Invocation
    <3>1. executedStack[i].records \in Seq(Invocation)
      BY <2>1, <1>1, StackFields
    <3> QED
      BY <2>1, <3>1
  <2>4. x[3] \in Nat /\ inv[3] \in Nat
    BY <2>3, <1>3, Bounds DEF Invocation
  <2> HIDE DEF x
  <2>5. CASE i = l
    <3>1. n \in 1..(c - 1) /\ x = last.records[n]
      BY <2>1, <2>5, <1>1 DEF l, last, c
    <3>2. n < c /\ n \in DOMAIN last.records
      BY <3>1, <1>3
    <3>3. x[2] = inv[2] => x[3] < inv[3]
      BY <3>1, <3>2, <1>3, <1>4, <1>6 DEF RecordsSound
    <3>4. x[2] = inv[2] => inv[3] > x[3]
      BY <3>3, <2>4
    <3> QED
      BY <3>4, <2>2, <2>5, <1>1, <1>6 DEF UndoneBefore, x
  <2>6. CASE i # l
    <3>1. i < l /\ i \in DOMAIN executedStack
      BY <2>1, <2>6, <1>1
    <3>2. executedStack[i].step < last.step
      BY <3>1, <1>1, <1>4 DEF IndInv, StackSound
    <3>3. inv[1] > x[1]
      BY <3>2, <2>2, <1>6
    <3> QED
      BY <3>3 DEF UndoneBefore, x
  <2> QED
    BY <2>5, <2>6
<1> QED
  BY <1>5, <1>7 DEF inv, last

LEMMA UndoSteps ==
  ASSUME IndInv, RecordsKnown, NEW ok \in BOOLEAN, Undo(ok)
  PROVE  RollbackStep
<1> DEFINE last == Last(executedStack)
           c == Len(last.records)
           inv == Last(last.records)
           cmd == CommandOf(inv)
           tried == cmd.undo = "handler" \/ (cmd.undo = "command" /\ rollbackKey(inv) \notin cache)
           e == [last EXCEPT !.records = Front(last.records)]
<1>1. /\ phase = "rollback" /\ executedStack # <<>> /\ ~last.own /\ last.records # <<>>
      /\ executedStack' = Without(e)
      /\ undone' = IF tried /\ ok THEN Append(undone, inv) ELSE undone
      /\ cache' = IF tried /\ ok /\ cmd.undo = "command" THEN cache \cup {rollbackKey(inv)} ELSE cache
      /\ rollback' = [rollback EXCEPT !.errors = @ \/ UndoError(cmd, ok)]
      /\ UNCHANGED <<workflow, dryRun, phase, at, nextIndex, active, hardFailure, failed, records, outcome,
                     aborted, done>>
  BY DEF Undo, NextToUndo, batch
<1>2. last \in Entry /\ last = executedStack[Len(executedStack)] /\ Len(executedStack) \in DOMAIN executedStack
  <2>1. executedStack # <<>> /\ executedStack \in Seq(Entry)
    BY <1>1, StackFields
  <2> QED
    BY <2>1, LastFront
<1>3. last.records \in Seq(Invocation)
  BY <1>2 DEF Entry
<1>4. /\ c \in Nat \ {0} /\ inv = last.records[c] /\ inv \in Invocation /\ DOMAIN last.records = 1..c
      /\ Front(last.records) \in Seq(Invocation) /\ DOMAIN Front(last.records) = 1..(c - 1)
      /\ \A n \in 1..(c - 1) : Front(last.records)[n] = last.records[n]
  BY <1>1, <1>3, LastFront
<1>5. e \in Entry /\ e.step = last.step /\ e.records = Front(last.records)
  BY <1>2, <1>4 DEF Entry
<1>6. inv[1] \in DOMAIN steps /\ inv[3] \in DOMAIN steps[inv[1]].commands /\ workflow \in Workflows
  <2>1. Known(last.records)
    BY <1>2 DEF RecordsKnown
  <2>2. c \in DOMAIN last.records
    BY <1>4
  <2> QED
    BY <2>1, <2>2, <1>4, TypeParts DEF Known, IndInv, ControlTyped
<1>7. rollbackKey(inv)[1] \in 0..MaxSteps /\ rollbackKey(inv)[2] \in 0..MaxItems /\ rollbackKey(inv)[3] \in STRING
  <2> DEFINE key == CommandOf(inv).undoKey
             k == IF key.scope = "step" THEN 0 ELSE inv[2]
  <2>1. key \in Key
    BY <1>6, CommandFields DEF CommandOf
  <2>2. inv[1] \in 0..MaxSteps /\ k \in 0..MaxItems
    BY <1>4, Bounds DEF Invocation
  <2>3. rollbackKey(inv) = KeyFor(key, inv[1], k)
    BY DEF rollbackKey
  <2> HIDE DEF key, k
  <2> QED
    BY <2>1, <2>2, <2>3, KeyTyped
<1> HIDE DEF e, inv, c, last
<1>8. /\ executedStack' \in Seq(Entry) /\ StackShrinks
      /\ \A x : OnStack(x) => OnStack(x)' \/ x = inv
  <2>1. \A n \in DOMAIN e.records : n \in DOMAIN last.records /\ e.records[n] = last.records[n]
    BY <1>4, <1>5
  <2>2. /\ executedStack' \in Seq(Entry) /\ StackShrinks
        /\ \A x : OnStack(x) =>
             OnStack(x)' \/ \E n \in DOMAIN last.records \ DOMAIN e.records : last.records[n] = x
    BY <1>1, <1>5, <2>1, Shrinking DEF last
  <2>3. ASSUME NEW n \in DOMAIN last.records \ DOMAIN e.records PROVE last.records[n] = inv
    <3>1. n = c
      BY <1>4, <1>5
    <3> QED
      BY <3>1, <1>4
  <2> QED
    BY <2>2, <2>3
<1>9. /\ \A i \in DOMAIN executedStack' : \A n \in DOMAIN executedStack'[i].records :
           UndoneBefore(inv, executedStack'[i].records[n])
      /\ \A m \in DOMAIN undone : UndoneBefore(undone[m], inv)
  <2>1. ASSUME NEW n \in DOMAIN executedStack', n = Len(executedStack)
        PROVE  DOMAIN executedStack'[n].records \subseteq 1..(c - 1)
    <3> DEFINE l == Len(executedStack)
               front == Front(executedStack)
    <3>1. l \in Nat \ {0} /\ front \in Seq(Entry) /\ Len(front) = l - 1 /\ DOMAIN front = 1..(l - 1)
      BY <1>1, StackFields, LastFront
    <3>2. l \notin DOMAIN front
      BY <3>1
    <3> HIDE DEF front
    <3>3. executedStack' = front \o <<e>>
      BY <1>1, <2>1, <3>2 DEF Without, front
    <3>4. (front \o <<e>>)[l] = e
      <4>1. <<e>> \in Seq(Entry) /\ Len(<<e>>) = 1 /\ <<e>>[1] = e
        BY <1>5
      <4>2. \A m \in 1..(Len(front) + Len(<<e>>)) :
              (front \o <<e>>)[m] = IF m <= Len(front) THEN front[m] ELSE <<e>>[m - Len(front)]
        BY <3>1, <4>1, ConcatProperties
      <4>3. l \in 1..(Len(front) + Len(<<e>>)) /\ ~(l <= Len(front)) /\ l - Len(front) = 1
        BY <3>1, <4>1
      <4> QED
        BY <4>1, <4>2, <4>3
    <3> QED
      BY <2>1, <3>3, <3>4, <1>4, <1>5
  <2> QED
    BY <1>1, <1>8, <2>1, LastFirst DEF inv, last, c
<1>10. rollback \in [attempted : BOOLEAN, errors : BOOLEAN] /\ undone \in Seq(Invocation)
  BY TypeParts DEF IndInv, LogTyped
<1>11. UndoError(cmd, ok) \in BOOLEAN
  BY DEF UndoError
<1>12. /\ rollback' \in [attempted : BOOLEAN, errors : BOOLEAN] /\ (rollback.errors => rollback'.errors)
       /\ (UndoError(cmd, ok) => rollback'.errors)
  BY <1>1, <1>10, <1>11
<1>13. ASSUME NEW x PROVE OnStack(x) => OnStack(x)' \/ x = inv
  BY <1>8
<1>14. CASE tried /\ ok
  <2> DEFINE u == Len(undone)
  <2>1. u \in Nat /\ DOMAIN undone = 1..u
    BY <1>10, LenProperties
  <2>2. /\ undone' \in Seq(Invocation) /\ DOMAIN undone' = 1..(u + 1)
        /\ undone'[u + 1] = inv /\ \A m \in 1..u : undone'[m] = undone[m]
    <3>1. undone' = Append(undone, inv)
      BY <1>1, <1>14
    <3>2. /\ undone' \in Seq(Invocation) /\ Len(undone') = u + 1
          /\ undone'[u + 1] = inv /\ \A m \in 1..u : undone'[m] = undone[m]
      BY <3>1, <1>4, <1>10, <2>1, AppendProperties
    <3> QED
      BY <3>2, <2>1, LenProperties
  <2> HIDE DEF u
  <2>3. ASSUME NEW m \in 1..(u + 1) PROVE m \in 1..u \/ m = u + 1
    BY <2>1
  <2>4. ASSUME NEW m \in 1..(u + 1), NEW n \in 1..(u + 1), m < n
        PROVE  UndoneBefore(undone'[m], undone'[n])
    <3>1. m \in 1..u
      BY <2>1, <2>4
    <3>2. CASE n \in 1..u
      BY <3>1, <3>2, <2>1, <2>2, <2>4 DEF IndInv, UndoneSound
    <3>3. CASE n = u + 1
      BY <3>1, <3>3, <2>1, <2>2, <1>9
    <3> QED
      BY <3>2, <3>3, <2>3
  <2>5. ASSUME NEW m \in 1..(u + 1), NEW i \in DOMAIN executedStack', NEW n \in DOMAIN executedStack'[i].records
        PROVE  UndoneBefore(undone'[m], executedStack'[i].records[n])
    <3>1. CASE m \in 1..u
      BY <3>1, <2>1, <2>2, <1>8 DEF IndInv, UndoneSound, StackShrinks
    <3>2. CASE m = u + 1
      BY <3>2, <2>2, <1>9
    <3> QED
      BY <3>1, <3>2, <2>3
  <2>6. u + 1 \in DOMAIN undone' /\ undone'[u + 1] = inv
    BY <2>1, <2>2
  <2>7. ASSUME NEW x, Undone(x) PROVE Undone(x)'
    <3>1. PICK n \in 1..u : undone[n] = x
      BY <2>1, <2>7 DEF Undone
    <3>2. n \in DOMAIN undone' /\ undone'[n] = x
      BY <3>1, <2>1, <2>2
    <3> QED
      BY <3>2 DEF Undone
  <2>8. ASSUME NEW x, OnStack(x) PROVE OnStack(x)' \/ Undone(x)'
    <3>1. CASE x = inv
      BY <3>1, <2>6 DEF Undone
    <3> QED
      BY <3>1, <2>8, <1>13
  <2>9. cache \subseteq cache' /\ \A key \in cache' \ cache : key = rollbackKey(inv)
    BY <1>1
  <2> QED
    BY <1>1, <1>7, <1>8, <1>12, <2>2, <2>4, <2>5, <2>7, <2>8, <2>9 DEF RollbackStep
<1>15. CASE ~(tried /\ ok)
  <2>1. undone' = undone /\ cache' = cache
    BY <1>1, <1>15
  <2>2. cmd.undo # "handler" \/ rollback'.errors
    BY <1>12, <1>15 DEF UndoError
  <2>3. ASSUME NEW x, OnStack(x) PROVE OnStack(x)' \/ CommandOf(x).undo # "handler" \/ rollback'.errors
    <3>1. CASE x = inv
      BY <3>1, <2>2
    <3> QED
      BY <3>1, <2>3, <1>13
  <2> QED
    BY <1>1, <1>8, <1>12, <2>1, <2>3, NothingUndone DEF RollbackStep
<1> QED
  BY <1>14, <1>15

LEMMA RollbackEndKeeps ==
  ASSUME IndInv, RollbackEnds
  PROVE  IndInv'
<1>1. /\ phase = "rollback" /\ (executedStack = <<>> \/ aborted) /\ phase' = "returned"
      /\ rollback' = [rollback EXCEPT !.errors = @ /\ executedStack = <<>>]
      /\ UNCHANGED <<workflow, dryRun, at, nextIndex, active, hardFailure, failed, records, cache, executedStack,
                     outcome, aborted, done, undone>>
  BY DEF RollbackEnds, batch, history
<1>2. active = << >>
  BY <1>1 DEF IndInv, ItemsSound
<1>3. TypeOK /\ DOMAIN active = {}
  BY <1>2, NoItems
<1>4. steps' = steps
  BY <1>1 DEF steps
<1>5. rollback \in [attempted : BOOLEAN, errors : BOOLEAN]
  BY <1>3, TypeParts DEF LogTyped
<1>6. /\ rollback' \in [attempted : BOOLEAN, errors : BOOLEAN]
      /\ rollback.errors => rollback'.errors \/ aborted
  BY <1>1, <1>5
<1>7. TypeOK'
  <2>1. ControlTyped'
    BY <1>1, <1>3, <1>4, TypeParts DEF ControlTyped
  <2>2. BatchTyped'
    BY <1>1, <1>3, TypeParts DEF BatchTyped, Invocation
  <2>3. LogTyped'
    BY <1>1, <1>3, <1>4, <1>6, TypeParts DEF LogTyped, Entry, Invocation
  <2> QED
    BY <2>1, <2>2, <2>3, TypePartsPrime
<1>8. StackSound'
  BY <1>1 DEF IndInv, StackSound, RecordsSound
<1>9. UndoneSound'
  BY <1>1 DEF IndInv, UndoneSound, UndoneBefore
<1>10. ItemsSound'
  BY <1>1, <1>2 DEF IndInv, ItemsSound, Item
<1>11. ExecutedSound'
  <2>1. phase \in {"between", "step"} => \A key \in cache : HasKey(done, key)
    BY DEF IndInv, ExecutedSound, HasKey
  <2>2. ASSUME NEW i \in DOMAIN steps, outcome[i] = "succeeded",
               NEW x \in 1..steps[i].items, NEW j \in DOMAIN steps[i].commands
        PROVE  ServedBy(done, <<i, x, j>>)
    BY <2>2 DEF IndInv, ExecutedSound, Served, ServedBy, HasKey
  <2> QED
    BY <1>1, <1>3, <2>1, <2>2, ExecutedPrime
<1>12. DoneSound'
  <2>1. ASSUME NEW inv \in done
        PROVE  /\ inv[1] \in DOMAIN steps /\ inv[3] \in DOMAIN steps[inv[1]].commands /\ inv[1] <= at
               /\ Settles(inv)
    BY <1>1 DEF IndInv, DoneSound
  <2>2. ASSUME NEW inv \in done PROVE Settles(inv)'
    BY <1>1, <1>6, <2>1, KeysStay DEF Settles, OnStack, Undone
  <2> QED
    BY <1>1, <1>4, <2>1, <2>2 DEF DoneSound
<1> QED
  BY <1>7, <1>8, <1>9, <1>10, <1>11, <1>12 DEF IndInv

LEMMA AbortKeeps ==
  ASSUME IndInv,
         UNCHANGED <<workflow, dryRun, phase, at, nextIndex, active, hardFailure, failed, records, cache,
                     executedStack, rollback, outcome, done, undone>>,
         aborted' = TRUE \/ aborted' = aborted
  PROVE  IndInv'
<1>1. steps' = steps /\ step' = step
  BY DEF steps, step
<1>2. TypeOK
  BY DEF IndInv
<1>3. TypeOK'
  <2>1. ControlTyped'
    BY <1>1, <1>2, TypeParts DEF ControlTyped
  <2>2. BatchTyped'
    BY <1>1, <1>2, TypeParts DEF BatchTyped, ItemTyped, Invocation
  <2>3. LogTyped'
    BY <1>1, <1>2, TypeParts DEF LogTyped, Entry, Invocation
  <2> QED
    BY <2>1, <2>2, <2>3, TypePartsPrime
<1>4. StackSound'
  BY DEF IndInv, StackSound, RecordsSound
<1>5. UndoneSound'
  BY DEF IndInv, UndoneSound, UndoneBefore
<1>6. ItemsSound'
  BY DEF IndInv, ItemsSound, RecordsSound, Item
<1>7. ExecutedSound'
  <2>1. /\ \A inv : Served(inv) => ServedBy(done, inv)
        /\ phase \in {"between", "step"} => \A key \in cache : HasKey(done, key)
    BY DEF Served, ServedBy, HasKey, IndInv, ExecutedSound
  <2>2. ExecutedSound
    BY DEF IndInv
  <2> QED
    BY <1>1, <2>1, <2>2, ExecutedPrime DEF ExecutedSound
<1>8. DoneSound'
  <2>1. ASSUME NEW inv \in done, phase = "step" => inv[1] < at PROVE Settles(inv)'
    <3>1. Settles(inv)
      BY <2>1 DEF IndInv, DoneSound
    <3> QED
      BY <3>1, KeysStay DEF Settles, OnStack, Undone
  <2> QED
    BY <1>1, <2>1 DEF IndInv, DoneSound
<1> QED
  BY <1>3, <1>4, <1>5, <1>6, <1>7, <1>8 DEF IndInv

-----------------------------------------------------------------------------
(* The theorems *)

LEMMA KnownKeeps ==
  ASSUME IndInv, RecordsKnown, [Next]_vars
  PROVE  RecordsKnown'
<1>1. CASE workflow' = workflow /\ records' = records /\ executedStack' = executedStack
  BY <1>1, KeysStay DEF RecordsKnown, Known
<1>2. CASE StepBegins
  <2>1. workflow' = workflow /\ records' = <<>> /\ executedStack' = executedStack /\ DOMAIN records' = {}
    BY <1>2 DEF StepBegins
  <2> QED
    BY <2>1, KeysStay DEF RecordsKnown, Known
<1>3. ASSUME NEW k \in 1..MaxItems, ItemEnds(k) PROVE RecordsKnown'
  <2>1. /\ phase = "step" /\ k \in DOMAIN active /\ workflow' = workflow /\ executedStack' = executedStack
        /\ records' = records \/ records' = records \o RecordsOf(k)
    BY <1>3 DEF ItemEnds
  <2>2. CASE records' = records \o RecordsOf(k)
    <3>1. at \in DOMAIN steps /\ step = steps[at]
      BY <2>1, InStep DEF IndInv
    <3>2. ASSUME NEW m \in DOMAIN records'
          PROVE  records'[m][1] \in DOMAIN steps /\ records'[m][3] \in DOMAIN steps[records'[m][1]].commands
      <4>1. \/ \E j \in DOMAIN step.commands : records'[m] = <<at, k, j>>
            \/ \E n \in DOMAIN records : records[n] = records'[m]
        BY <2>1, <2>2, RecordsGrow
      <4> QED
        BY <3>1, <4>1 DEF RecordsKnown, Known
    <3> QED
      BY <2>1, <3>2, KeysStay DEF RecordsKnown, Known
  <2> QED
    BY <1>1, <2>1, <2>2
<1>4. CASE StepSucceeds
  <2>1. /\ workflow' = workflow /\ records' = records
        /\ executedStack' = Append(executedStack, [step |-> at, own |-> step.rollback, records |-> records])
    BY <1>4 DEF StepSucceeds, batch
  <2>2. ASSUME NEW i \in DOMAIN executedStack' PROVE Known(executedStack'[i].records)
    <3>1. executedStack'[i].records = records \/ (i \in DOMAIN executedStack /\ executedStack'[i] = executedStack[i])
      BY <2>1, StackFields
    <3> QED
      BY <3>1 DEF RecordsKnown
  <2> QED
    BY <2>1, <2>2, KeysStay DEF RecordsKnown, Known
<1>5. CASE RollbackStep
  <2>1. workflow' = workflow /\ records' = records /\ StackShrinks
    BY <1>5 DEF RollbackStep
  <2>2. ASSUME NEW i \in DOMAIN executedStack' PROVE Known(executedStack'[i].records)
    BY <2>1 DEF RecordsKnown, Known, StackShrinks
  <2> QED
    BY <2>1, <2>2, KeysStay DEF RecordsKnown, Known
<1>6. CASE RunEnds \/ StepSkipped \/ TakeItem \/ StepFails \/ RollbackEnds \/ Abort
  BY <1>1, <1>6 DEF RunEnds, StepSkipped, TakeItem, StepFails, RollbackEnds, Abort, batch
<1>7. ASSUME NEW k \in 1..MaxItems, CommandsBegin(k) PROVE RecordsKnown'
  BY <1>1, <1>7 DEF CommandsBegin
<1>8. ASSUME NEW k \in DOMAIN active, NEW r \in active[k].running, CommandSucceeds(k, r) \/ CommandFails(k, r)
      PROVE  RecordsKnown'
  BY <1>1, <1>8 DEF CommandSucceeds, CommandFails, NextAttempt, Goes
<1>8a. ASSUME NEW k \in DOMAIN active, NEW r \in active[k].waiting, DelayEnds(k, r) PROVE RecordsKnown'
  BY <1>1, <1>8a DEF DelayEnds, NextAttempt, Goes
<1>9. ASSUME NEW ok \in BOOLEAN, StepRollback(ok) \/ Undo(ok) PROVE RecordsKnown'
  BY <1>5, <1>9, StepRollbackSteps, UndoSteps
<1>10. CASE NothingToUndo
  BY <1>5, <1>10, NothingToUndoSteps
<1>11. CASE UNCHANGED vars
  BY <1>1, <1>11 DEF vars, batch
<1> QED
  BY <1>2, <1>3, <1>4, <1>6, <1>7, <1>8, <1>8a, <1>9, <1>10, <1>11 DEF Next, Runs

LEMMA StepKeeps ==
  ASSUME IndInv, RecordsKnown, [Next]_vars
  PROVE  IndInv'
<1>1. CASE RunEnds
  BY <1>1, RunEndKeeps
<1>2. CASE StepSkipped
  BY <1>2, SkipKeeps
<1>3. CASE StepBegins
  BY <1>3, BeginKeeps
<1>4. CASE TakeItem
  BY <1>4, TakeKeeps
<1>5. ASSUME NEW k \in 1..MaxItems, CommandsBegin(k) PROVE IndInv'
  BY <1>5, BeginAdvances, AdvanceKeeps
<1>6. ASSUME NEW k \in DOMAIN active, NEW r \in active[k].running, CommandSucceeds(k, r) PROVE IndInv'
  BY <1>6, SuccessAdvances, AdvanceKeeps
<1>7. ASSUME NEW k \in DOMAIN active, NEW r \in active[k].running, CommandFails(k, r) PROVE IndInv'
  BY <1>7, FailureAdvances, AdvanceKeeps
<1>7a. ASSUME NEW k \in DOMAIN active, NEW r \in active[k].waiting, DelayEnds(k, r) PROVE IndInv'
  BY <1>7a, DelayAdvances, AdvanceKeeps
<1>8. ASSUME NEW k \in 1..MaxItems, ItemEnds(k) PROVE IndInv'
  BY <1>8, ItemEndKeeps
<1>9. CASE StepSucceeds
  BY <1>9, SuccessKeeps
<1>10. CASE StepFails
  BY <1>10, FailureKeeps
<1>11. ASSUME NEW ok \in BOOLEAN, StepRollback(ok) PROVE IndInv'
  BY <1>11, StepRollbackSteps, RollbackKeeps
<1>12. ASSUME NEW ok \in BOOLEAN, Undo(ok) PROVE IndInv'
  BY <1>12, UndoSteps, RollbackKeeps
<1>13. CASE NothingToUndo
  BY <1>13, NothingToUndoSteps, RollbackKeeps
<1>14. CASE RollbackEnds
  BY <1>14, RollbackEndKeeps
<1>15. CASE Abort \/ UNCHANGED vars
  BY <1>15, AbortKeeps DEF Abort, vars, batch, history
<1> QED
  BY <1>1, <1>2, <1>3, <1>4, <1>5, <1>6, <1>7, <1>7a, <1>8, <1>9, <1>10, <1>11, <1>12, <1>13, <1>14, <1>15
  DEF Next, Runs

\* The invariant the three theorems rest on: the stack holds earlier steps in their
\* order, what is undone comes before what is left, and each command that had its
\* effect is accounted for.
THEOREM Inductive == Spec => [](IndInv /\ RecordsKnown)
<1>1. Init => IndInv /\ RecordsKnown
  <2>1. Init => RecordsKnown
    BY DEF Init, RecordsKnown, Known
  <2> QED
    BY <2>1, InitIndInv
<1>2. IndInv /\ RecordsKnown /\ [Next]_vars => IndInv' /\ RecordsKnown'
  BY StepKeeps, KnownKeeps
<1> QED
  BY <1>1, <1>2, PTL DEF Spec

\* Whatever the workflow, and however its items, retries and an abort interleave:
\* rollbackStack begins, and a result is returned, only when no command of any
\* batch worker is executing any more; and rollbackStack undoes later steps before
\* earlier ones, and an item's later commands before its earlier ones.
THEOREM RollbacksAreOrderly == Spec => []RollbackOrderly
<1>1. IndInv => RollbackOrderly
  BY DEF IndInv, UndoneSound, ItemsSound, UndoneBefore, RollbackOrderly
<1> QED
  BY <1>1, Inductive, PTL

\* Whatever the workflow, the result of WorkflowMacroSystem.execute is true: a step it
\* reports as succeeded has executed each command for each item, but for idempotent
\* ones that share their key with one executed, and after a rollback it reports as successful, not aborted,
\* what stands of the commands with a rollback handler is of steps reported failed.
THEOREM ResultsAreTrue == Spec => []ResultIsTrue
<1>1. ASSUME IndInv PROVE ResultIsTrue
  <2>1. ASSUME NEW i \in DOMAIN steps, outcome[i] = "succeeded",
               NEW k \in 1..steps[i].items, NEW j \in DOMAIN steps[i].commands
        PROVE  Served(<<i, k, j>>)
    BY <1>1, <2>1 DEF IndInv, ExecutedSound
  <2>2. ASSUME phase = "returned", rollback.attempted, ~rollback.errors, ~aborted, NEW inv \in done
        PROVE  Undone(inv) \/ outcome[inv[1]] = "failed" \/ CommandOf(inv).undo # "handler"
    <3>1. Settles(inv)
      BY <1>1, <2>2 DEF IndInv, DoneSound
    <3>2. executedStack = <<>>
      BY <1>1, <2>2 DEF IndInv, UndoneSound
    <3>3. ~OnStack(inv)
      BY <3>2 DEF OnStack
    <3> QED
      BY <2>2, <3>1, <3>3 DEF Settles
  <2> QED
    BY <2>1, <2>2 DEF ResultIsTrue, Undone
<1> QED
  BY <1>1, Inductive, PTL

\* Whatever the workflow: once the signal is aborted executeSingle begins no attempt,
\* for no worker: neither a command's first, nor one whose delay began before the abort
\* and ends after it.
THEOREM AbortsStop == Spec => AbortStops
<1> DEFINE Stops == aborted => \A k \in DOMAIN active' :
                      active'[k].running \subseteq (IF k \in DOMAIN active THEN active[k].running ELSE {})
<1>1. ASSUME IndInv, RecordsKnown, [Next]_vars PROVE Stops
  <2>1. CASE active' = active
    BY <2>1
  <2>2. CASE StepBegins
    BY <2>2 DEF StepBegins
  <2>3. CASE TakeItem
    <3>1. active' = [k \in DOMAIN active \cup {nextIndex} |->
                       IF k # nextIndex THEN active[k]
                       ELSE [todo |-> DOMAIN step.commands, running |-> {}, waiting |-> {}, bad |-> FALSE]]
      BY <2>3 DEF TakeItem
    <3>2. ASSUME NEW k \in DOMAIN active'
          PROVE  active'[k].running \subseteq (IF k \in DOMAIN active THEN active[k].running ELSE {})
      <4>1. CASE k # nextIndex
        BY <3>1, <4>1
      <4>2. CASE k = nextIndex
        BY <3>1, <4>2
      <4> QED
        BY <4>1, <4>2
    <3> QED
      BY <3>2
  <2>4. ASSUME NEW k, ItemAdvances(k) PROVE Stops
    BY <2>4 DEF ItemAdvances
  <2>5. ASSUME NEW k \in 1..MaxItems, CommandsBegin(k) PROVE Stops
    BY <1>1, <2>4, <2>5, BeginAdvances
  <2>6. ASSUME NEW k \in DOMAIN active, NEW r \in active[k].running, CommandSucceeds(k, r) \/ CommandFails(k, r)
        PROVE  Stops
    BY <1>1, <2>4, <2>6, SuccessAdvances, FailureAdvances
  <2>6a. ASSUME NEW k \in DOMAIN active, NEW r \in active[k].waiting, DelayEnds(k, r) PROVE Stops
    BY <1>1, <2>4, <2>6a, DelayAdvances
  <2>7. ASSUME NEW k \in 1..MaxItems, ItemEnds(k) PROVE Stops
    BY <2>7 DEF ItemEnds
  <2>8. ASSUME NEW ok \in BOOLEAN, StepRollback(ok) \/ Undo(ok) PROVE Stops
    BY <2>1, <2>8 DEF StepRollback, Undo, batch
  <2>9. CASE RunEnds \/ StepSkipped \/ StepSucceeds \/ StepFails \/ NothingToUndo \/ RollbackEnds \/ Abort
    BY <2>1, <2>9 DEF RunEnds, StepSkipped, StepSucceeds, StepFails, NothingToUndo, RollbackEnds, Abort, batch
  <2>10. CASE UNCHANGED vars
    BY <2>1, <2>10 DEF vars, batch
  <2> HIDE DEF Stops
  <2> QED
    BY <1>1, <2>2, <2>3, <2>5, <2>6, <2>6a, <2>7, <2>8, <2>9, <2>10 DEF Next, Runs
<1>2. IndInv /\ RecordsKnown /\ [Next]_vars => [Stops]_vars
  BY <1>1
<1> QED
  BY <1>2, Inductive, PTL DEF Spec, AbortStops

=============================================================================
