---------------------- MODULE ProposalLifecycleProofs ----------------------
(***************************************************************************)
(* The proposal engine keeps its promises for any proposals, step lists,   *)
(* reviews and crashes: steps run in dependency order and one at a time, a *)
(* verdict is the verdict on the steps, nothing runs unapproved, and what  *)
(* an idle engine has in memory is on disk.                                *)
(***************************************************************************)
EXTENDS ProposalLifecycle, FiniteSetTheorems, SequenceTheorems, WellFoundedInduction, TLAPS

-----------------------------------------------------------------------------
(* One proposal with its mission *)

\* A step that has started has nothing but completed steps before it.
InOrder(e) ==
  DistinctIds(e) =>
    \A i \in DOMAIN e.stepStatus \ WithStatus(e, "pending") :
      \A j \in DOMAIN e.steps : e.steps[j].id \in e.steps[i].deps => e.stepStatus[j] = "completed"

\* A mission has a status for every step, and exists for an approved proposal.
Shaped(e) ==
  /\ e \in Entry
  /\ e.mission # "none" <=> e.status = "approved"
  /\ e.mission = "none" => e.stepStatus = <<>>
  /\ e.mission # "none" => DOMAIN e.stepStatus = DOMAIN e.steps
  /\ e.status # "none" => e.steps = normalizeSteps(e.raw)

\* The verdict is the verdict on the steps.
Judged(e) ==
  /\ e.mission = "pending" => WithStatus(e, "running") = {}
  /\ e.mission = "completed" => WithStatus(e, "completed") = DOMAIN e.steps
  /\ e.mission = "failed" <=> WithStatus(e, "failed") # {}
  /\ e.mission = "blocked" => WithStatus(e, "running") = {} /\ readySteps(e) = {} /\ ~Ordered(e.raw)
  /\ \A i, j \in WithStatus(e, "running") : i = j

EntryOK(e) == Shaped(e) /\ InOrder(e) /\ Judged(e)

LEMMA EntryFields ==
  ASSUME NEW e \in Entry
  PROVE  /\ e.status \in ProposalStatus /\ e.title \in {"asked", "patched"} /\ e.raw \in Seq(RawStep)
         /\ e.steps \in Seq(Step) /\ e.mission \in MissionStatus /\ e.stepStatus \in Seq(StepStatus)
BY DEF Entry

\* Every step of a mission has one of the four statuses.
LEMMA StatusOf ==
  ASSUME NEW e \in Entry, NEW i \in DOMAIN e.stepStatus
  PROVE  /\ e.stepStatus[i] \in {"pending", "running", "completed", "failed"}
         /\ \A s : i \in WithStatus(e, s) <=> e.stepStatus[i] = s
<1>1. e.stepStatus \in Seq(StepStatus)
  BY EntryFields
<1>2. e.stepStatus[i] \in StepStatus
  BY <1>1, LenProperties, ElementOfSeq
<1> QED
  BY <1>2 DEF WithStatus, StepStatus

LEMMA RawFields ==
  ASSUME NEW raw \in Seq(RawStep), NEW i \in 1..Len(raw)
  PROVE  raw[i].label \in Labels /\ raw[i].after \in SUBSET Labels /\ raw[i].fails \in BOOLEAN
<1>1. raw[i] \in RawStep
  BY ElementOfSeq
<1> QED
  BY <1>1 DEF RawStep

\* normalizeSteps makes a step of every listed one.
LEMMA Normalized ==
  ASSUME NEW raw \in Seq(RawStep)
  PROVE  /\ normalizeSteps(raw) \in Seq(Step) /\ DOMAIN normalizeSteps(raw) = 1..Len(raw) /\ Len(raw) \in Nat
         /\ \A i \in 1..Len(raw) :
              LET step == normalizeSteps(raw)[i]
                  kept == ({Slug[l] : l \in raw[i].after} \cap {Slug[raw[k].label] : k \in 1..Len(raw)})
                            \ {Slug[raw[i].label]}
              IN /\ step.id = Slug[raw[i].label]
                 /\ step.deps = IF kept = {} /\ i > 1 THEN {Slug[raw[i - 1].label]} ELSE kept
<1> DEFINE n == Len(raw)
           ids == {Slug[raw[k].label] : k \in 1..n}
           All == {Slug[l] : l \in Labels}
           kept(i) == ({Slug[l] : l \in raw[i].after} \cap ids) \ {Slug[raw[i].label]}
           deps(i) == IF kept(i) = {} /\ i > 1 THEN {Slug[raw[i - 1].label]} ELSE kept(i)
           step(i) == [id |-> Slug[raw[i].label], fails |-> raw[i].fails, deps |-> deps(i)]
<1>1. n \in Nat
  BY LenProperties
<1>2. normalizeSteps(raw) = [i \in 1..n |-> step(i)]
  BY DEF normalizeSteps
<1>3. ASSUME NEW i \in 1..n PROVE step(i) \in Step
  <2>1. raw[i].label \in Labels /\ raw[i].after \in SUBSET Labels /\ raw[i].fails \in BOOLEAN
    BY RawFields
  <2>2. kept(i) \subseteq All
    BY <2>1
  <2>3. i > 1 => Slug[raw[i - 1].label] \in All
    <3> SUFFICES ASSUME i > 1 PROVE Slug[raw[i - 1].label] \in All
      OBVIOUS
    <3>1. i - 1 \in 1..n
      BY <1>1
    <3> QED
      BY <3>1, RawFields
  <2> HIDE DEF kept
  <2>4. deps(i) \in SUBSET All
    BY <2>2, <2>3
  <2> HIDE DEF deps
  <2> QED
    BY <2>1, <2>4 DEF Step
<1>4. ASSUME NEW i \in 1..n PROVE step(i).id = Slug[raw[i].label] /\ step(i).deps = deps(i)
  OBVIOUS
<1> HIDE DEF step, n
<1>5. normalizeSteps(raw) \in [1..n -> Step]
  BY <1>2, <1>3
<1>6. normalizeSteps(raw) \in Seq(Step) /\ DOMAIN normalizeSteps(raw) = 1..n
  BY <1>1, <1>5, SeqDef
<1> QED
  BY <1>1, <1>2, <1>4, <1>6 DEF n

\* A set of positions that is not empty has a first one.
LEMMA FirstOf ==
  ASSUME NEW S \in SUBSET Nat, S # {}
  PROVE  \E i \in S : \A j \in S : ~(j < i)
<1> DEFINE R == {ss \in Nat \X Nat : ss[1] < ss[2]}
<1>1. IsWellFoundedOn(R, Nat)
  BY NatLessThanWellFounded DEF OpToRel
<1>2. \A j, i \in Nat : j < i => <<j, i>> \in R
  OBVIOUS
<1> HIDE DEF R
<1>3. \E x \in S : \A y \in S : ~(<<y, x>> \in R)
  BY <1>1, WFMin
<1> QED
  BY <1>2, <1>3

\* A plan listed in dependency order never blocks: with nothing running and nothing
\* failed, the first step that is pending follows completed ones only, the one the
\* default chain gives it included.
LEMMA OrderedIsReady ==
  ASSUME NEW e, Shaped(e), e.mission # "none", Ordered(e.raw),
         WithStatus(e, "running") = {}, WithStatus(e, "failed") = {}, WithStatus(e, "pending") # {}
  PROVE  readySteps(e) # {}
<1> DEFINE n == Len(e.raw)
<1>1. /\ e \in Entry /\ DOMAIN e.stepStatus = DOMAIN e.steps /\ e.steps = normalizeSteps(e.raw)
      /\ e.raw \in Seq(RawStep)
  BY EntryFields DEF Shaped
<1>2. /\ n \in Nat /\ DOMAIN e.steps = 1..n /\ DOMAIN e.raw = 1..n
      /\ \A i \in 1..n :
           LET kept == ({Slug[l] : l \in e.raw[i].after} \cap {Slug[e.raw[k].label] : k \in 1..n})
                         \ {Slug[e.raw[i].label]}
           IN /\ e.steps[i].id = Slug[e.raw[i].label]
              /\ e.steps[i].deps = IF kept = {} /\ i > 1 THEN {Slug[e.raw[i - 1].label]} ELSE kept
  <2>1. DOMAIN e.raw = 1..n
    BY <1>1, LenProperties
  <2>2. e.raw \in Seq(RawStep)
    BY <1>1
  <2>3. \A i \in 1..n :
          LET kept == ({Slug[l] : l \in e.raw[i].after} \cap {Slug[e.raw[k].label] : k \in 1..n})
                         \ {Slug[e.raw[i].label]}
          IN /\ normalizeSteps(e.raw)[i].id = Slug[e.raw[i].label]
             /\ normalizeSteps(e.raw)[i].deps = IF kept = {} /\ i > 1 THEN {Slug[e.raw[i - 1].label]} ELSE kept
    BY <2>2, Normalized, Zenon
  <2>4. n \in Nat /\ DOMAIN normalizeSteps(e.raw) = 1..n
    BY <2>2, Normalized, Zenon
  <2>5. e.steps = normalizeSteps(e.raw)
    BY <1>1
  <2> HIDE DEF n
  <2> QED
    BY <2>1, <2>3, <2>4, <2>5
<1>3. WithStatus(e, "pending") \in SUBSET Nat
  BY <1>1, <1>2 DEF WithStatus
<1>4. PICK i \in WithStatus(e, "pending") : \A j \in WithStatus(e, "pending") : ~(j < i)
  BY <1>3, FirstOf
<1>5. i \in 1..n
  BY <1>1, <1>2 DEF WithStatus
<1>6. ASSUME NEW j \in 1..(i - 1) PROVE Slug[e.raw[j].label] \in CompletedIds(e)
  <2>1. j \in 1..n /\ j < i
    BY <1>2, <1>5
  <2>2. j \notin WithStatus(e, "pending")
    BY <1>4, <2>1
  <2>3. j \in WithStatus(e, "completed")
    BY <1>1, <1>2, <2>1, <2>2, StatusOf
  <2> QED
    BY <1>2, <2>1, <2>3 DEF CompletedIds
<1> DEFINE kept == ({Slug[l] : l \in e.raw[i].after} \cap {Slug[e.raw[k].label] : k \in 1..n})
                     \ {Slug[e.raw[i].label]}
<1>7. kept \subseteq CompletedIds(e)
  <2>1. {Slug[l] : l \in e.raw[i].after} \subseteq {Slug[e.raw[j].label] : j \in 1..(i - 1)}
    BY <1>2, <1>5 DEF Ordered
  <2> QED
    BY <1>6, <2>1
<1>8. e.steps[i].deps = IF kept = {} /\ i > 1 THEN {Slug[e.raw[i - 1].label]} ELSE kept
  BY <1>2, <1>5
<1> HIDE DEF kept
<1>9. i > 1 => Slug[e.raw[i - 1].label] \in CompletedIds(e)
  <2> SUFFICES ASSUME i > 1 PROVE Slug[e.raw[i - 1].label] \in CompletedIds(e)
    OBVIOUS
  <2>1. i - 1 \in 1..(i - 1)
    BY <1>2, <1>5
  <2> QED
    BY <1>6, <2>1
<1>10. e.steps[i].deps \subseteq CompletedIds(e)
  BY <1>7, <1>8, <1>9
<1> QED
  BY <1>4, <1>10 DEF readySteps

-----------------------------------------------------------------------------
(* What each operation does to one entry *)

\* An entry in which nothing but the title changes stays sound.
LEMMA TitleIsFree ==
  ASSUME NEW e, NEW f, EntryOK(e), f \in Entry,
         f.status = e.status, f.raw = e.raw, f.steps = e.steps, f.mission = e.mission, f.stepStatus = e.stepStatus
  PROVE  EntryOK(f) /\ \A s : WithStatus(f, s) = WithStatus(e, s)
<1>1. \A s : WithStatus(f, s) = WithStatus(e, s)
  BY DEF WithStatus
<1>2. CompletedIds(f) = CompletedIds(e)
  BY <1>1 DEF CompletedIds
<1>3. readySteps(f) = readySteps(e)
  BY <1>1, <1>2 DEF readySteps
<1>4. DistinctIds(f) <=> DistinctIds(e)
  BY DEF DistinctIds
<1>5. Shaped(f)
  BY DEF EntryOK, Shaped
<1>6. InOrder(f)
  BY <1>1, <1>4 DEF EntryOK, InOrder
<1>7. Judged(f)
  BY <1>1, <1>3 DEF EntryOK, Judged
<1> QED
  BY <1>1, <1>5, <1>6, <1>7 DEF EntryOK

\* Without a mission there is nothing to run.
LEMMA NotBegun ==
  ASSUME NEW f, f \in Entry, f.mission = "none", f.status # "approved", f.stepStatus = <<>>,
         f.status # "none" => f.steps = normalizeSteps(f.raw)
  PROVE  EntryOK(f) /\ WithStatus(f, "running") = {}
<1>1. \A s : WithStatus(f, s) = {}
  BY DEF WithStatus
<1>2. DOMAIN f.stepStatus = {}
  OBVIOUS
<1>3. Shaped(f)
  BY DEF Shaped
<1>4. InOrder(f)
  BY <1>2 DEF InOrder
<1>5. Judged(f)
  BY <1>1 DEF Judged
<1> QED
  BY <1>1, <1>3, <1>4, <1>5 DEF EntryOK

LEMMA NoEntryOK == NoEntry \in Entry /\ EntryOK(NoEntry)
<1>1. NoEntry \in Entry
  <2>1. <<>> \in Seq(RawStep) /\ <<>> \in Seq(Step) /\ <<>> \in Seq(StepStatus)
    BY EmptySeq
  <2> QED
    BY <2>1 DEF NoEntry, Entry, ProposalStatus, MissionStatus
<1>2. /\ NoEntry.mission = "none" /\ NoEntry.status = "none" /\ NoEntry.stepStatus = <<>>
  BY DEF NoEntry
<1> QED
  BY <1>1, <1>2, NotBegun

LEMMA Submitted ==
  ASSUME NEW raw \in Submissions
  PROVE  EntryOK([NoEntry EXCEPT !.status = "pending", !.raw = raw, !.steps = normalizeSteps(raw)])
<1> DEFINE steps == normalizeSteps(raw)
           f == [NoEntry EXCEPT !.status = "pending", !.raw = raw, !.steps = steps]
<1>1. raw \in Seq(RawStep)
  BY SubmissionAssumption
<1>2. steps \in Seq(Step)
  BY <1>1, Normalized
<1> HIDE DEF steps
<1>3. <<>> \in Seq(StepStatus)
  BY EmptySeq
<1>4. f \in Entry
  BY <1>1, <1>2, <1>3 DEF NoEntry, Entry, ProposalStatus, MissionStatus
<1>5. f.mission = "none" /\ f.status = "pending" /\ f.stepStatus = <<>> /\ f.raw = raw /\ f.steps = steps
  BY DEF NoEntry
<1> HIDE DEF f
<1>6. EntryOK(f)
  BY <1>4, <1>5, NotBegun DEF steps
<1> QED
  BY <1>6 DEF f, steps

\* What a review's patch leaves of an entry.
LEMMA PatchKeeps ==
  ASSUME NEW e, Shaped(e), e.status # "none", NEW patch \in PatchInput
  PROVE  LET f == Patched(e, patch)
         IN /\ f \in Entry /\ f.status = e.status /\ f.mission = e.mission /\ f.stepStatus = e.stepStatus
            /\ f.steps = normalizeSteps(f.raw)
<1>1. e \in Entry /\ e.steps = normalizeSteps(e.raw)
  BY DEF Shaped
<1>2. patch.title \in BOOLEAN /\ patch.raw \in Patches \cup {<<>>}
  BY DEF PatchInput
<1> DEFINE title == IF patch.title THEN "patched" ELSE e.title
           raw == IF patch.raw = <<>> THEN e.raw ELSE patch.raw
           steps == IF patch.raw = <<>> THEN e.steps ELSE normalizeSteps(patch.raw)
           f == [e EXCEPT !.title = title, !.raw = raw, !.steps = steps]
<1>3. Patched(e, patch) = f
  BY DEF Patched
<1>4. title \in {"asked", "patched"}
  BY <1>1, EntryFields
<1>5. raw \in Seq(RawStep)
  BY <1>1, <1>2, EntryFields, SubmissionAssumption
<1>6. steps = normalizeSteps(raw)
  BY <1>1
<1>7. steps \in Seq(Step)
  BY <1>5, <1>6, Normalized
<1> HIDE DEF title, raw, steps
<1>8. /\ e.status \in ProposalStatus /\ e.mission \in MissionStatus /\ e.stepStatus \in Seq(StepStatus)
  BY <1>1, EntryFields
<1>9. f \in Entry
  BY <1>1, <1>4, <1>5, <1>7 DEF Entry
<1>10. f.status = e.status /\ f.mission = e.mission /\ f.stepStatus = e.stepStatus /\ f.raw = raw /\ f.steps = steps
  BY <1>1 DEF Entry
<1> HIDE DEF f
<1> QED
  BY <1>3, <1>6, <1>9, <1>10

LEMMA RejectedOrModified ==
  ASSUME NEW e, EntryOK(e), e.status \in {"pending", "needs_changes"}, NEW patch \in PatchInput,
         NEW status \in {"rejected", "needs_changes"}
  PROVE  EntryOK([Patched(e, patch) EXCEPT !.status = status])
<1> DEFINE g == Patched(e, patch)
           f == [g EXCEPT !.status = status]
<1>1. Shaped(e) /\ e.mission = "none" /\ e.stepStatus = <<>>
  BY DEF EntryOK, Shaped
<1>2. /\ g \in Entry /\ g.mission = "none" /\ g.stepStatus = <<>> /\ g.steps = normalizeSteps(g.raw)
  BY <1>1, PatchKeeps
<1> HIDE DEF g
<1>3. f \in Entry
  BY <1>2 DEF Entry, ProposalStatus
<1>4. f.status = status /\ f.mission = g.mission /\ f.stepStatus = g.stepStatus /\ f.raw = g.raw /\ f.steps = g.steps
  BY <1>2 DEF Entry
<1> HIDE DEF f
<1>5. EntryOK(f)
  BY <1>2, <1>3, <1>4, NotBegun
<1> QED
  BY <1>5 DEF f, g

\* An approval gives the mission a pending step for every step of the proposal.
LEMMA Approved ==
  ASSUME NEW e, EntryOK(e), e.status \in {"pending", "needs_changes"}, NEW patch \in PatchInput,
         NEW autoStart \in BOOLEAN
  PROVE  LET f == [proposalToMission(Patched(e, patch)) EXCEPT
                     !.status = "approved", !.mission = IF autoStart THEN "running" ELSE "pending"]
         IN /\ EntryOK(f) /\ WithStatus(f, "running") = {}
            /\ autoStart => f.mission = "running"
<1> DEFINE g == Patched(e, patch)
           marks == [i \in DOMAIN g.steps |-> "pending"]
           h == [g EXCEPT !.mission = "pending", !.stepStatus = marks]
           to == IF autoStart THEN "running" ELSE "pending"
           f == [h EXCEPT !.status = "approved", !.mission = to]
<1>1. Shaped(e) /\ e.status # "none"
  BY DEF EntryOK, Shaped
<1>2. g \in Entry /\ g.steps = normalizeSteps(g.raw)
  BY <1>1, PatchKeeps
<1> HIDE DEF g
<1>3. g.steps \in Seq(Step)
  BY <1>2, EntryFields
<1>4. marks \in Seq(StepStatus)
  <2>1. Len(g.steps) \in Nat /\ DOMAIN g.steps = 1..Len(g.steps)
    BY <1>3, LenProperties
  <2>2. marks \in [1..Len(g.steps) -> StepStatus]
    BY <2>1 DEF StepStatus
  <2> QED
    BY <2>1, <2>2, SeqDef
<1>5. DOMAIN marks = DOMAIN g.steps /\ \A i \in DOMAIN g.steps : marks[i] = "pending"
  OBVIOUS
<1> HIDE DEF marks
<1>6. h \in Entry /\ h.mission = "pending" /\ h.stepStatus = marks /\ h.raw = g.raw /\ h.steps = g.steps
  BY <1>2, <1>4 DEF Entry, MissionStatus
<1>7. h = proposalToMission(g)
  BY DEF proposalToMission, marks
<1> HIDE DEF h
<1>8. to \in MissionStatus /\ to \in {"pending", "running"} /\ (autoStart => to = "running")
  BY DEF MissionStatus
<1>9. f = [h EXCEPT !.status = "approved", !.mission = IF autoStart THEN "running" ELSE "pending"]
  BY <1>6 DEF Entry
<1> HIDE DEF to
<1>10. /\ f \in Entry /\ f.mission = to /\ f.status = "approved"
       /\ f.stepStatus = marks /\ f.raw = g.raw /\ f.steps = g.steps
  BY <1>6, <1>8 DEF Entry, ProposalStatus
<1> HIDE DEF f
<1>11. /\ WithStatus(f, "running") = {} /\ WithStatus(f, "failed") = {}
       /\ DOMAIN f.stepStatus \ WithStatus(f, "pending") = {}
  BY <1>5, <1>10 DEF WithStatus
<1>12. Shaped(f)
  BY <1>2, <1>5, <1>8, <1>10 DEF Shaped
<1>13. InOrder(f)
  BY <1>11 DEF InOrder
<1>14. Judged(f)
  BY <1>8, <1>10, <1>11 DEF Judged
<1> QED
  BY <1>7, <1>8, <1>9, <1>10, <1>11, <1>12, <1>13, <1>14 DEF EntryOK, g

\* A mission without a step under way is started, completed or blocked.
LEMMA MissionBecomes ==
  ASSUME NEW e, EntryOK(e), e.mission \in {"pending", "blocked", "running"}, WithStatus(e, "running") = {},
         NEW to \in {"running", "completed", "blocked"},
         to = "completed" => WithStatus(e, "pending") = {},
         to = "blocked" => WithStatus(e, "pending") # {} /\ readySteps(e) = {}
  PROVE  LET f == [e EXCEPT !.mission = to]
         IN EntryOK(f) /\ f.mission = to /\ WithStatus(f, "running") = {}
<1> DEFINE f == [e EXCEPT !.mission = to]
<1>1. Shaped(e) /\ InOrder(e) /\ Judged(e) /\ e \in Entry
  BY DEF EntryOK, Shaped
<1>2. /\ f \in Entry /\ f.mission = to /\ f.status = e.status /\ f.raw = e.raw
      /\ f.steps = e.steps /\ f.stepStatus = e.stepStatus
  BY <1>1 DEF Entry, MissionStatus
<1> HIDE DEF f
<1>3. \A s : WithStatus(f, s) = WithStatus(e, s)
  BY <1>2 DEF WithStatus
<1>4. readySteps(f) = readySteps(e)
  BY <1>2, <1>3 DEF readySteps, CompletedIds
<1>5. WithStatus(e, "failed") = {}
  BY <1>1 DEF Judged
<1>6. DOMAIN e.stepStatus = DOMAIN e.steps
  BY <1>1 DEF Shaped
<1>7. to = "completed" => WithStatus(e, "completed") = DOMAIN e.steps
  BY <1>1, <1>5, <1>6, StatusOf DEF WithStatus
<1>8. to = "blocked" => ~Ordered(e.raw)
  BY <1>1, <1>5, OrderedIsReady
<1>9. Shaped(f)
  BY <1>1, <1>2 DEF Shaped
<1>10. InOrder(f)
  BY <1>1, <1>2, <1>3 DEF InOrder, DistinctIds
<1>11. Judged(f)
  BY <1>1, <1>2, <1>3, <1>4, <1>5, <1>7, <1>8 DEF Judged
<1> QED
  BY <1>2, <1>3, <1>9, <1>10, <1>11 DEF EntryOK, f

Marked(e, i, to)   == [e.stepStatus EXCEPT ![i] = to]

\* A step of a running mission begins or ends, and the mission fails with it.
LEMMA StepBecomes ==
  ASSUME NEW e, EntryOK(e), e.mission = "running", NEW f, f \in Entry,
         NEW i \in DOMAIN e.stepStatus, NEW to \in {"running", "completed", "failed"},
         to = "running" => i \in readySteps(e) /\ WithStatus(e, "running") = {},
         to # "running" => WithStatus(e, "running") = {i},
         f.stepStatus = Marked(e, i, to),
         f.status = e.status, f.raw = e.raw, f.steps = e.steps,
         f.mission = IF to = "failed" THEN "failed" ELSE "running"
  PROVE  /\ EntryOK(f)
         /\ WithStatus(f, "running") = IF to = "running" THEN {i} ELSE {}
<1>1. Shaped(e) /\ InOrder(e) /\ Judged(e) /\ e \in Entry
  BY DEF EntryOK, Shaped
<1>2. /\ DOMAIN e.stepStatus = DOMAIN e.steps /\ DOMAIN f.stepStatus = DOMAIN e.stepStatus
      /\ f.stepStatus[i] = to /\ \A j \in DOMAIN e.stepStatus : j # i => f.stepStatus[j] = e.stepStatus[j]
  BY <1>1 DEF Shaped, Marked
<1>3. WithStatus(e, "failed") = {}
  BY <1>1 DEF Judged
<1>4. e.stepStatus[i] \in {"pending", "running"} /\ (to = "running" => e.stepStatus[i] = "pending")
  BY DEF WithStatus, readySteps
<1>5. WithStatus(f, "running") = IF to = "running" THEN {i} ELSE {}
  <2>1. CASE to = "running"
    BY <1>2, <2>1 DEF WithStatus
  <2>2. CASE to # "running"
    BY <1>2, <2>2 DEF WithStatus
  <2> QED
    BY <2>1, <2>2
<1>6. WithStatus(f, "failed") = IF to = "failed" THEN {i} ELSE {}
  <2>1. CASE to = "failed"
    BY <1>2, <1>3, <2>1 DEF WithStatus
  <2>2. CASE to # "failed"
    BY <1>2, <1>3, <2>2 DEF WithStatus
  <2> QED
    BY <2>1, <2>2
<1>7. Shaped(f)
  BY <1>1, <1>2 DEF Shaped
<1>8. Judged(f)
  BY <1>5, <1>6 DEF Judged
<1>9. InOrder(f)
  <2> SUFFICES ASSUME DistinctIds(e),
                      NEW k \in DOMAIN e.stepStatus, f.stepStatus[k] # "pending",
                      NEW j \in DOMAIN e.steps, e.steps[j].id \in e.steps[k].deps
               PROVE  f.stepStatus[j] = "completed"
    <3>1. DistinctIds(f) <=> DistinctIds(e)
      BY DEF DistinctIds
    <3> QED
      BY <1>2, <3>1 DEF InOrder, WithStatus
  <2>1. CASE e.stepStatus[k] # "pending"
    <3>1. e.stepStatus[j] = "completed"
      BY <1>1, <2>1 DEF InOrder, WithStatus
    <3> QED
      BY <1>2, <1>4, <3>1
  <2>2. CASE e.stepStatus[k] = "pending"
    <3>1. k = i /\ e.stepStatus[i] = "pending"
      BY <1>2, <2>2
    <3>2. i \in readySteps(e)
      BY <3>1 DEF WithStatus
    <3>3. e.steps[j].id \in CompletedIds(e)
      BY <3>1, <3>2 DEF readySteps
    <3>4. PICK l \in WithStatus(e, "completed") : e.steps[j].id = e.steps[l].id
      BY <3>3 DEF CompletedIds
    <3>5. l = j /\ e.stepStatus[j] = "completed"
      BY <1>2, <3>4 DEF DistinctIds, WithStatus
    <3> QED
      BY <1>2, <1>4, <3>5
  <2> QED
    BY <2>1, <2>2
<1> QED
  BY <1>5, <1>7, <1>8, <1>9 DEF EntryOK

StepSet(e, i, to)  == [e EXCEPT !.stepStatus[i] = to]
StepFails(e, i) == [e EXCEPT !.stepStatus[i] = "failed", !.mission = "failed"]

\* What is left of an entry when a step's status is set.
LEMMA StatusSet ==
  ASSUME NEW e \in Entry, NEW i \in DOMAIN e.stepStatus, NEW to \in StepStatus
  PROVE  /\ LET f == StepSet(e, i, to)
            IN /\ f \in Entry /\ f.stepStatus = Marked(e, i, to) /\ f.status = e.status
               /\ f.raw = e.raw /\ f.steps = e.steps /\ f.mission = e.mission
         /\ LET f == StepFails(e, i)
            IN /\ f \in Entry /\ f.stepStatus = Marked(e, i, "failed") /\ f.status = e.status
               /\ f.raw = e.raw /\ f.steps = e.steps /\ f.mission = "failed"
<1> DEFINE marks(s) == Marked(e, i, s)
<1>1. ASSUME NEW s \in StepStatus PROVE marks(s) \in Seq(StepStatus)
  <2>1. e.stepStatus \in Seq(StepStatus)
    BY EntryFields
  <2> QED
    BY <2>1, ExceptSeq, LenProperties DEF Marked
<1>2. StepSet(e, i, to) = [e EXCEPT !.stepStatus = marks(to)]
  BY DEF StepSet, Marked
<1>3. StepFails(e, i) = [e EXCEPT !.stepStatus = marks("failed"), !.mission = "failed"]
  BY DEF StepFails, Marked
<1>4. "failed" \in StepStatus
  BY DEF StepStatus
<1> HIDE DEF marks
<1>5. LET f == [e EXCEPT !.stepStatus = marks(to)]
      IN /\ f \in Entry /\ f.stepStatus = marks(to) /\ f.status = e.status
         /\ f.raw = e.raw /\ f.steps = e.steps /\ f.mission = e.mission
  BY <1>1 DEF Entry
<1>6. LET f == [e EXCEPT !.stepStatus = marks("failed"), !.mission = "failed"]
      IN /\ f \in Entry /\ f.stepStatus = marks("failed") /\ f.status = e.status
         /\ f.raw = e.raw /\ f.steps = e.steps /\ f.mission = "failed"
  BY <1>1, <1>4 DEF Entry, MissionStatus
<1> QED
  BY <1>2, <1>3, <1>5, <1>6 DEF marks

\* A ready step begins.
LEMMA StepBegins ==
  ASSUME NEW e, EntryOK(e), e.mission = "running", WithStatus(e, "running") = {}, NEW i \in readySteps(e)
  PROVE  LET f == StepSet(e, i, "running")
         IN EntryOK(f) /\ f.mission = "running" /\ WithStatus(f, "running") = {i}
<1>1. PICK to : to = "running"
  OBVIOUS
<1>2. /\ e \in Entry /\ i \in DOMAIN e.stepStatus /\ to \in StepStatus
      /\ to \in {"running", "completed", "failed"} /\ to # "failed"
  BY <1>1 DEF EntryOK, Shaped, readySteps, WithStatus, StepStatus
<1> DEFINE f == StepSet(e, i, to)
<1>3. /\ f \in Entry /\ f.stepStatus = Marked(e, i, to) /\ f.status = e.status
      /\ f.raw = e.raw /\ f.steps = e.steps /\ f.mission = e.mission
  BY <1>2, StatusSet
<1> HIDE DEF f
<1>4. EntryOK(f) /\ WithStatus(f, "running") = {i}
  BY <1>1, <1>2, <1>3, StepBecomes
<1> QED
  BY <1>1, <1>3, <1>4 DEF f

\* The step under way ends well, or fails and its mission with it.
LEMMA StepEnds ==
  ASSUME NEW e, EntryOK(e), e.mission = "running", NEW i, WithStatus(e, "running") = {i}
  PROVE  /\ LET f == StepSet(e, i, "completed")
            IN EntryOK(f) /\ f.mission = "running" /\ WithStatus(f, "running") = {}
         /\ EntryOK(StepFails(e, i))
<1>1. PICK good : good = "completed"
  OBVIOUS
<1>2. PICK bad : bad = "failed"
  OBVIOUS
<1>3. /\ e \in Entry /\ i \in DOMAIN e.stepStatus /\ {good, bad} \subseteq StepStatus
      /\ {good, bad} \subseteq {"running", "completed", "failed"} /\ good # "running" /\ bad # "running"
  BY <1>1, <1>2 DEF EntryOK, Shaped, WithStatus, StepStatus
<1> DEFINE f == StepSet(e, i, good)
           g == StepFails(e, i)
<1>4. /\ f \in Entry /\ f.stepStatus = Marked(e, i, good) /\ f.status = e.status
      /\ f.raw = e.raw /\ f.steps = e.steps /\ f.mission = e.mission
  BY <1>3, StatusSet
<1>5. /\ g \in Entry /\ g.stepStatus = Marked(e, i, bad) /\ g.status = e.status
      /\ g.raw = e.raw /\ g.steps = e.steps /\ g.mission = "failed"
  BY <1>2, <1>3, StatusSet
<1> HIDE DEF f, g
<1>6. EntryOK(f) /\ WithStatus(f, "running") = {}
  BY <1>1, <1>3, <1>4, StepBecomes
<1>7. EntryOK(g)
  BY <1>2, <1>3, <1>5, StepBecomes
<1> QED
  BY <1>1, <1>4, <1>6, <1>7 DEF f, g

-----------------------------------------------------------------------------
(* What is left of the handler *)

Word == {"open", "write"} \cup Proposals
InTurn(t, p) == \E k \in DOMAIN t : t[k] = p
\* At most one round of one loop is left to run.
OneRound(t) == t \in Seq(Word) /\ \A j, k \in DOMAIN t : t[j] \in Proposals /\ t[k] \in Proposals => j = k

LEMMA ShortTurns ==
  /\ OneRound(<<>>) /\ OneRound(Persist) /\ Persist # <<>>
  /\ \A q \in Proposals : ~InTurn(<<>>, q) /\ ~InTurn(Persist, q)
  /\ \A p \in Proposals : OneRound(<<p>>) /\ \A q \in Proposals : InTurn(<<p>>, q) <=> q = p
<1>1. OneRound(<<>>) /\ \A q \in Proposals : ~InTurn(<<>>, q)
  BY EmptySeq DEF OneRound, InTurn
<1>2. "open" \notin Proposals /\ "write" \notin Proposals
  BY NameAssumption
<1>3. Persist \in Seq(Word) /\ DOMAIN Persist = 1..2 /\ Persist[1] = "open" /\ Persist[2] = "write" /\ Persist # <<>>
  BY DEF Persist, Word
<1>4. \A k \in DOMAIN Persist : Persist[k] \notin Proposals
  BY <1>2, <1>3
<1>5. ASSUME NEW p \in Proposals
      PROVE  OneRound(<<p>>) /\ \A q \in Proposals : InTurn(<<p>>, q) <=> q = p
  <2>1. <<p>> \in Seq(Word) /\ DOMAIN <<p>> = 1..1 /\ <<p>>[1] = p
    BY DEF Word
  <2> QED
    BY <2>1 DEF OneRound, InTurn
<1> QED
  BY <1>1, <1>3, <1>4, <1>5 DEF OneRound, InTurn

LEMMA Joined ==
  ASSUME NEW s, NEW t, OneRound(s), OneRound(t),
         (\A q \in Proposals : ~InTurn(s, q)) \/ (\A q \in Proposals : ~InTurn(t, q))
  PROVE  /\ OneRound(s \o t)
         /\ \A q \in Proposals : InTurn(s \o t, q) <=> InTurn(s, q) \/ InTurn(t, q)
         /\ s # <<>> => s \o t # <<>>
<1> DEFINE u == s \o t
           m == Len(s)
           n == Len(t)
<1>1. s \in Seq(Word) /\ t \in Seq(Word)
  BY DEF OneRound
<1>2. m \in Nat /\ n \in Nat /\ DOMAIN s = 1..m /\ DOMAIN t = 1..n
  BY <1>1, LenProperties
<1>3. u \in Seq(Word) /\ Len(u) = m + n /\ \A k \in 1..(m + n) : u[k] = IF k <= m THEN s[k] ELSE t[k - m]
  BY <1>1, ConcatProperties
<1>4. DOMAIN u = 1..(m + n)
  BY <1>3, LenProperties
<1>5. s # <<>> => m > 0
  BY <1>1, <1>2, EmptySeq
<1>6. s # <<>> => u # <<>>
  <2> SUFFICES ASSUME s # <<>>, u = <<>> PROVE FALSE
    OBVIOUS
  <2>1. Len(u) = 0
    OBVIOUS
  <2> HIDE DEF u, m, n
  <2> QED
    BY <1>2, <1>3, <1>5, <2>1
<1> HIDE DEF u, m, n
<1>7. ASSUME NEW k \in 1..(m + n)
      PROVE  \/ k \in 1..m /\ u[k] = s[k]
             \/ k - m \in 1..n /\ u[k] = t[k - m]
  BY <1>2, <1>3
<1>8. \A k \in 1..m : k \in 1..(m + n) /\ u[k] = s[k]
  BY <1>2, <1>3
<1>9. ASSUME NEW k \in 1..n PROVE k + m \in 1..(m + n) /\ u[k + m] = t[k]
  <2>1. k + m \in 1..(m + n) /\ ~(k + m <= m) /\ (k + m) - m = k
    BY <1>2
  <2> QED
    BY <1>3, <2>1
<1>10. \A q \in Proposals : InTurn(u, q) <=> InTurn(s, q) \/ InTurn(t, q)
  <2> SUFFICES ASSUME NEW q \in Proposals PROVE InTurn(u, q) <=> InTurn(s, q) \/ InTurn(t, q)
    OBVIOUS
  <2>1. InTurn(u, q) => InTurn(s, q) \/ InTurn(t, q)
    BY <1>2, <1>4, <1>7 DEF InTurn
  <2>2. InTurn(s, q) => InTurn(u, q)
    BY <1>2, <1>4, <1>8 DEF InTurn
  <2>3. InTurn(t, q) => InTurn(u, q)
    BY <1>2, <1>4, <1>9 DEF InTurn
  <2> QED
    BY <2>1, <2>2, <2>3
<1>11. ASSUME NEW j \in 1..(m + n), NEW k \in 1..(m + n), u[j] \in Proposals, u[k] \in Proposals
       PROVE  j = k
  <2>1. CASE j \in 1..m /\ u[j] = s[j]
    <3>1. InTurn(s, u[j])
      BY <1>2, <2>1 DEF InTurn
    <3>2. k \in 1..m /\ u[k] = s[k]
      BY <1>2, <1>7, <1>11, <3>1 DEF InTurn
    <3> QED
      BY <1>2, <1>11, <2>1, <3>2 DEF OneRound
  <2>2. CASE j - m \in 1..n /\ u[j] = t[j - m]
    <3>1. InTurn(t, u[j])
      BY <1>2, <2>2 DEF InTurn
    <3>2. k - m \in 1..n /\ u[k] = t[k - m]
      BY <1>2, <1>7, <1>11, <3>1 DEF InTurn
    <3>3. j - m = k - m
      BY <1>2, <1>11, <2>2, <3>2 DEF OneRound
    <3> QED
      BY <1>2, <3>3
  <2> QED
    BY <1>7, <2>1, <2>2
<1>12. OneRound(u)
  BY <1>3, <1>4, <1>11 DEF OneRound
<1> QED
  BY <1>6, <1>10, <1>12 DEF u

LEMMA RestOf ==
  ASSUME NEW t, OneRound(t), t # <<>>
  PROVE  /\ OneRound(Tail(t))
         /\ \A q \in Proposals : InTurn(Tail(t), q) => InTurn(t, q)
         /\ Head(t) \in Proposals => InTurn(t, Head(t)) /\ \A q \in Proposals : ~InTurn(Tail(t), q)
<1> DEFINE u == Tail(t)
           n == Len(t)
<1>1. t \in Seq(Word)
  BY DEF OneRound
<1>2. n \in Nat /\ n > 0 /\ DOMAIN t = 1..n
  BY <1>1, LenProperties, EmptySeq
<1>3. u \in Seq(Word) /\ Len(u) = n - 1 /\ Head(t) = t[1] /\ \A k \in 1..(n - 1) : u[k] = t[k + 1]
  BY <1>1, HeadTailProperties
<1>4. DOMAIN u = 1..(n - 1)
  BY <1>3, LenProperties
<1> HIDE DEF u, n
<1>5. ASSUME NEW k \in 1..(n - 1) PROVE k + 1 \in 1..n /\ k + 1 # 1 /\ u[k] = t[k + 1]
  BY <1>2, <1>3
<1>6. \A q \in Proposals : InTurn(u, q) => InTurn(t, q)
  BY <1>2, <1>4, <1>5 DEF InTurn
<1>7. ASSUME NEW j \in 1..(n - 1), NEW k \in 1..(n - 1), u[j] \in Proposals, u[k] \in Proposals
      PROVE  j = k
  <2>1. j + 1 = k + 1
    BY <1>2, <1>5, <1>7 DEF OneRound
  <2> QED
    BY <1>2, <2>1
<1>8. OneRound(u)
  BY <1>3, <1>4, <1>7 DEF OneRound
<1>9. ASSUME Head(t) \in Proposals
      PROVE  InTurn(t, Head(t)) /\ \A q \in Proposals : ~InTurn(u, q)
  <2>1. 1 \in 1..n
    BY <1>2
  <2>2. InTurn(t, Head(t))
    BY <1>2, <1>3, <2>1 DEF InTurn
  <2>3. ASSUME NEW k \in 1..(n - 1), u[k] \in Proposals PROVE FALSE
    <3>1. t[1] \in Proposals
      BY <1>3, <1>9
    <3>2. k + 1 \in 1..n /\ k + 1 # 1 /\ t[k + 1] \in Proposals
      BY <1>5, <2>3
    <3> QED
      BY <1>2, <2>1, <3>1, <3>2 DEF OneRound
  <2> QED
    BY <1>4, <2>2, <2>3 DEF InTurn
<1> QED
  BY <1>6, <1>8, <1>9 DEF u

-----------------------------------------------------------------------------
(* The engine *)

StoreSound == store \in [Proposals -> Entry] /\ \A p \in Proposals : EntryOK(store[p])
DiskSound  == disk = Torn \/ (disk \in [Proposals -> Entry] /\ \A p \in Proposals : EntryOK(disk[p]))

\* A loop is that of a running mission, and it goes round when no step is under way.
LoopsSound ==
  \A p \in Proposals :
    /\ p \in runningMissions => store[p].mission = "running"
    /\ InTurn(turn, p) => p \in runningMissions /\ WithStatus(store[p], "running") = {}

\* What a loop awaits is the step of its mission that is under way.
DelaysSound == \A d \in delays : \E p \in runningMissions : \E i \in WithStatus(store[p], "running") : d = <<p, i>>

DownIsIdle == ~up => turn = <<>> /\ delays = {} /\ runningMissions = {}

Synced == Listening /\ disk # Torn => \A p \in Proposals : [disk[p] EXCEPT !.title = store[p].title] = store[p]

IndInv ==
  /\ StoreSound /\ DiskSound
  /\ OneRound(turn) /\ runningMissions \subseteq Proposals /\ up \in BOOLEAN /\ crashes \in 0..MaxCrashes
  /\ LoopsSound /\ DelaysSound /\ DownIsIdle /\ Synced

LEMMA InitIndInv == Init => IndInv
<1> SUFFICES ASSUME Init PROVE IndInv
  OBVIOUS
<1>1. StoreSound /\ DiskSound
  BY NoEntryOK DEF Init, StoreSound, DiskSound, EmptyStore
<1>2. OneRound(turn) /\ runningMissions \subseteq Proposals /\ up \in BOOLEAN /\ crashes \in 0..MaxCrashes
  BY ShortTurns, CrashAssumption DEF Init
<1>3. LoopsSound /\ DelaysSound /\ DownIsIdle
  BY ShortTurns DEF Init, LoopsSound, DelaysSound, DownIsIdle
<1>4. Synced
  <2>1. [NoEntry EXCEPT !.title = NoEntry.title] = NoEntry
    BY DEF NoEntry
  <2> QED
    BY <2>1 DEF Init, Synced, EmptyStore
<1> QED
  BY <1>1, <1>2, <1>3, <1>4 DEF IndInv

\* The part of the invariant that is about the store when one entry changes.
LEMMA OneEntry ==
  ASSUME IndInv, NEW p \in Proposals, NEW f, EntryOK(f), store' = [store EXCEPT ![p] = f], UNCHANGED disk
  PROVE  /\ StoreSound' /\ DiskSound' /\ store'[p] = f
         /\ \A q \in Proposals : q # p => store'[q] = store[q]
<1>1. store \in [Proposals -> Entry] /\ \A q \in Proposals : EntryOK(store[q])
  BY DEF IndInv, StoreSound
<1>2. f \in Entry
  BY DEF EntryOK, Shaped
<1>3. store' \in [Proposals -> Entry] /\ store'[p] = f /\ \A q \in Proposals : q # p => store'[q] = store[q]
  BY <1>1, <1>2
<1>4. StoreSound'
  BY <1>1, <1>3 DEF StoreSound
<1>5. DiskSound'
  BY DEF IndInv, DiskSound
<1> QED
  BY <1>3, <1>4, <1>5

\* A step at an entry whose mission does not run leaves the loops as they are.
LEMMA LoopsElsewhere ==
  ASSUME IndInv, NEW p \in Proposals, store[p].mission # "running",
         \A q \in Proposals : q # p => store'[q] = store[q],
         UNCHANGED <<runningMissions, delays>>,
         \A q \in Proposals : ~InTurn(turn', q)
  PROVE  LoopsSound' /\ DelaysSound'
<1>1. runningMissions \subseteq Proposals /\ p \notin runningMissions
  BY DEF IndInv, LoopsSound
<1>2. LoopsSound'
  BY <1>1 DEF IndInv, LoopsSound
<1>3. DelaysSound'
  BY <1>1 DEF IndInv, DelaysSound
<1> QED
  BY <1>2, <1>3

\* A mission that did not run gets a loop.
LEMMA LoopStarts ==
  ASSUME IndInv, NEW p \in Proposals, store[p].mission # "running",
         store'[p].mission = "running", WithStatus(store'[p], "running") = {},
         \A q \in Proposals : q # p => store'[q] = store[q],
         runningMissions' = runningMissions \cup {p}, UNCHANGED delays,
         \A q \in Proposals : InTurn(turn', q) => q = p
  PROVE  LoopsSound' /\ DelaysSound' /\ runningMissions' \subseteq Proposals
<1>1. runningMissions \subseteq Proposals /\ p \notin runningMissions
  BY DEF IndInv, LoopsSound
<1>2. LoopsSound'
  BY <1>1 DEF IndInv, LoopsSound
<1>3. DelaysSound'
  BY <1>1 DEF IndInv, DelaysSound
<1> QED
  BY <1>1, <1>2, <1>3

LEMMA SubmitStep ==
  ASSUME IndInv, NEW p \in Proposals, NEW raw \in Submissions, SubmitProposal(p, raw)
  PROVE  IndInv'
<1> DEFINE f == [NoEntry EXCEPT !.status = "pending", !.raw = raw, !.steps = normalizeSteps(raw)]
<1>1. EntryOK(f)
  BY Submitted
<1>2. /\ store[p].status = "none" /\ store' = [store EXCEPT ![p] = f] /\ turn' = Persist /\ up
      /\ UNCHANGED <<disk, runningMissions, delays, up, crashes>>
  BY DEF SubmitProposal, Listening
<1> HIDE DEF f
<1>3. /\ StoreSound' /\ DiskSound' /\ \A q \in Proposals : q # p => store'[q] = store[q]
  BY <1>1, <1>2, OneEntry
<1>4. store[p].mission # "running"
  BY <1>2 DEF IndInv, StoreSound, EntryOK, Shaped
<1>5. LoopsSound' /\ DelaysSound'
  BY <1>2, <1>3, <1>4, LoopsElsewhere, ShortTurns
<1> QED
  BY <1>2, <1>3, <1>5, ShortTurns DEF IndInv, DownIsIdle, Synced, Listening

LEMMA RejectOrModifyStep ==
  ASSUME IndInv, NEW p \in Proposals, NEW patch \in PatchInput, NEW status \in {"rejected", "needs_changes"},
         RejectOrModify(p, patch, status)
  PROVE  IndInv'
<1> DEFINE f == [Patched(store[p], patch) EXCEPT !.status = status]
<1>1. /\ store[p].status \in {"pending", "needs_changes"}
      /\ store' = [store EXCEPT ![p] = f] /\ turn' = Persist /\ up
      /\ UNCHANGED <<disk, runningMissions, delays, up, crashes>>
  BY DEF RejectOrModify, Reviewable, Listening, IndInv, StoreSound
<1>2. EntryOK(f)
  BY <1>1, RejectedOrModified DEF IndInv, StoreSound
<1> HIDE DEF f
<1>3. /\ StoreSound' /\ DiskSound' /\ \A q \in Proposals : q # p => store'[q] = store[q]
  BY <1>1, <1>2, OneEntry
<1>4. store[p].mission # "running"
  BY <1>1 DEF IndInv, StoreSound, EntryOK, Shaped
<1>5. LoopsSound' /\ DelaysSound'
  BY <1>1, <1>3, <1>4, LoopsElsewhere, ShortTurns
<1> QED
  BY <1>1, <1>3, <1>5, ShortTurns DEF IndInv, DownIsIdle, Synced, Listening

\* A review that throws changes the title only: that is all that is not on disk.
LEMMA ReviewThrowsStep ==
  ASSUME IndInv, NEW p \in Proposals, ReviewThrows(p)
  PROVE  IndInv'
<1> DEFINE e == store[p]
           f == [e EXCEPT !.title = "patched"]
<1>1. /\ e.status \in {"pending", "needs_changes"} /\ store' = [store EXCEPT ![p] = f] /\ Listening
      /\ UNCHANGED <<disk, turn, runningMissions, delays, up, crashes>>
  BY DEF ReviewThrows, Reviewable, IndInv, StoreSound
<1>2. EntryOK(e) /\ e \in Entry
  BY DEF IndInv, StoreSound
<1> HIDE DEF e
<1>3. /\ f \in Entry /\ f.status = e.status /\ f.raw = e.raw /\ f.steps = e.steps
      /\ f.mission = e.mission /\ f.stepStatus = e.stepStatus /\ f.title = "patched"
  BY <1>2 DEF Entry
<1>4. \A x \in Entry : [x EXCEPT !.title = e.title] = e => [x EXCEPT !.title = "patched"] = f
  BY <1>2 DEF Entry
<1> HIDE DEF f
<1>5. EntryOK(f)
  BY <1>2, <1>3, TitleIsFree
<1>6. /\ StoreSound' /\ DiskSound' /\ store'[p] = f /\ \A q \in Proposals : q # p => store'[q] = store[q]
  BY <1>1, <1>5, OneEntry
<1>7. store[p].mission # "running"
  BY <1>1, <1>2 DEF EntryOK, Shaped, e
<1>8. LoopsSound' /\ DelaysSound'
  BY <1>1, <1>6, <1>7, LoopsElsewhere, ShortTurns DEF Listening
<1>9. Synced'
  <2> SUFFICES ASSUME disk # Torn, NEW q \in Proposals
               PROVE  [disk[q] EXCEPT !.title = store'[q].title] = store'[q]
    BY <1>1 DEF Synced
  <2>1. disk[q] \in Entry /\ [disk[q] EXCEPT !.title = store[q].title] = store[q]
    BY <1>1 DEF IndInv, Synced, DiskSound
  <2>2. CASE q = p
    BY <1>3, <1>4, <1>6, <2>1, <2>2 DEF e
  <2>3. CASE q # p
    BY <1>6, <2>1, <2>3
  <2> QED
    BY <2>2, <2>3
<1> QED
  BY <1>1, <1>6, <1>8, <1>9, ShortTurns DEF IndInv, DownIsIdle, Listening

\* A mission that starts has no loop yet: startMission schedules one.
LEMMA Scheduled ==
  ASSUME NEW p \in Proposals, p \notin runningMissions
  PROVE  /\ OneRound(Schedule(p)) /\ Schedule(p) # <<>>
         /\ OneRound(Schedule(p) \o Persist) /\ Schedule(p) \o Persist # <<>>
         /\ \A q \in Proposals : (InTurn(Schedule(p), q) => q = p) /\ (InTurn(Schedule(p) \o Persist, q) => q = p)
<1> DEFINE s == Schedule(p)
<1>1. s = Persist \o <<p>>
  BY DEF Schedule
<1>2. OneRound(s) /\ s # <<>> /\ \A q \in Proposals : InTurn(s, q) => q = p
  BY <1>1, ShortTurns, Joined
<1> HIDE DEF s
<1>3. OneRound(s \o Persist) /\ s \o Persist # <<>> /\ \A q \in Proposals : InTurn(s \o Persist, q) => q = p
  BY <1>2, ShortTurns, Joined
<1> QED
  BY <1>2, <1>3 DEF s

LEMMA ApproveStep ==
  ASSUME IndInv, NEW p \in Proposals, NEW patch \in PatchInput, NEW autoStart \in BOOLEAN,
         Approve(p, patch, autoStart)
  PROVE  IndInv'
<1> DEFINE f == [proposalToMission(Patched(store[p], patch)) EXCEPT
                   !.status = "approved", !.mission = IF autoStart THEN "running" ELSE "pending"]
<1>1. /\ store[p].status \in {"pending", "needs_changes"} /\ up
      /\ store' = [store EXCEPT ![p] = f]
      /\ turn' = IF autoStart THEN Schedule(p) \o Persist ELSE Persist
      /\ runningMissions' = IF autoStart THEN runningMissions \cup {p} ELSE runningMissions
      /\ UNCHANGED <<disk, delays, up, crashes>>
  <2>1. store' = [store EXCEPT ![p] = f]
    BY DEF Approve
  <2> HIDE DEF f
  <2> QED
    BY <2>1 DEF Approve, Reviewable, Listening
<1>2. EntryOK(store[p])
  BY DEF IndInv, StoreSound
<1>3. EntryOK(f) /\ WithStatus(f, "running") = {} /\ (autoStart => f.mission = "running")
  BY <1>1, <1>2, Approved
<1> HIDE DEF f
<1>4. /\ StoreSound' /\ DiskSound' /\ store'[p] = f /\ \A q \in Proposals : q # p => store'[q] = store[q]
  BY <1>1, <1>3, OneEntry
<1>5. store[p].mission # "running"
  BY <1>1, <1>2 DEF EntryOK, Shaped
<1>6. p \notin runningMissions
  BY <1>5 DEF IndInv, LoopsSound
<1>7. CASE ~autoStart
  <2>1. turn' = Persist /\ UNCHANGED runningMissions
    BY <1>1, <1>7
  <2>2. LoopsSound' /\ DelaysSound'
    <3>1. \A q \in Proposals : ~InTurn(turn', q)
      BY <2>1, ShortTurns
    <3>2. UNCHANGED <<runningMissions, delays>>
      BY <1>1, <2>1
    <3> QED
      BY <1>4, <1>5, <3>1, <3>2, LoopsElsewhere
  <2> QED
    BY <1>1, <1>4, <2>1, <2>2, ShortTurns DEF IndInv, DownIsIdle, Synced, Listening
<1>8. CASE autoStart
  <2>1. turn' = Schedule(p) \o Persist /\ runningMissions' = runningMissions \cup {p}
    BY <1>1, <1>8
  <2>2. OneRound(turn') /\ turn' # <<>> /\ \A q \in Proposals : InTurn(turn', q) => q = p
    BY <1>6, <2>1, Scheduled
  <2>3. LoopsSound' /\ DelaysSound' /\ runningMissions' \subseteq Proposals
    BY <1>1, <1>3, <1>4, <1>5, <1>8, <2>1, <2>2, LoopStarts
  <2> QED
    BY <1>1, <1>4, <2>2, <2>3 DEF IndInv, DownIsIdle, Synced, Listening
<1> QED
  BY <1>7, <1>8

LEMMA StartMissionStep ==
  ASSUME IndInv, NEW p \in Proposals, StartMission(p)
  PROVE  IndInv'
<1> DEFINE f == [store[p] EXCEPT !.mission = "running"]
<1>1. /\ store[p].mission \in {"pending", "blocked"} /\ up
      /\ store' = [store EXCEPT ![p] = f]
      /\ turn' = Schedule(p) /\ runningMissions' = runningMissions \cup {p}
      /\ UNCHANGED <<disk, delays, up, crashes>>
  BY DEF StartMission, Listening, IndInv, StoreSound
<1>2. EntryOK(store[p])
  BY DEF IndInv, StoreSound
<1>3. WithStatus(store[p], "running") = {}
  BY <1>1, <1>2 DEF EntryOK, Judged
<1>4. EntryOK(f) /\ WithStatus(f, "running") = {} /\ f.mission = "running"
  BY <1>1, <1>2, <1>3, MissionBecomes
<1> HIDE DEF f
<1>5. /\ StoreSound' /\ DiskSound' /\ store'[p] = f /\ \A q \in Proposals : q # p => store'[q] = store[q]
  BY <1>1, <1>4, OneEntry
<1>6. store[p].mission # "running" /\ p \notin runningMissions
  BY <1>1 DEF IndInv, LoopsSound
<1>7. OneRound(turn') /\ turn' # <<>> /\ \A q \in Proposals : InTurn(turn', q) => q = p
  BY <1>1, <1>6, Scheduled
<1>8. LoopsSound' /\ DelaysSound' /\ runningMissions' \subseteq Proposals
  BY <1>1, <1>4, <1>5, <1>6, <1>7, LoopStarts
<1> QED
  BY <1>1, <1>5, <1>7, <1>8 DEF IndInv, DownIsIdle, Synced, Listening

\* A loop that ends leaves the others as they are.
LEMMA LoopEnds ==
  ASSUME IndInv, NEW p \in Proposals,
         \A q \in Proposals : q # p => store'[q] = store[q],
         runningMissions' = runningMissions \ {p},
         delays' \subseteq delays, \A d \in delays' : d[1] # p,
         \A q \in Proposals : ~InTurn(turn', q)
  PROVE  LoopsSound' /\ DelaysSound' /\ runningMissions' \subseteq Proposals
<1>1. runningMissions \subseteq Proposals
  BY DEF IndInv
<1>2. LoopsSound'
  BY <1>1 DEF IndInv, LoopsSound
<1>3. DelaysSound'
  <2> SUFFICES ASSUME NEW d \in delays'
               PROVE  \E q \in runningMissions' : \E i \in WithStatus(store'[q], "running") : d = <<q, i>>
    BY DEF DelaysSound
  <2>1. PICK q \in runningMissions : \E i \in WithStatus(store[q], "running") : d = <<q, i>>
    BY DEF IndInv, DelaysSound
  <2>2. q # p /\ q \in Proposals /\ q \in runningMissions'
    BY <1>1, <2>1
  <2> QED
    BY <2>1, <2>2
<1> QED
  BY <1>1, <1>2, <1>3

\* The delays of a mission are the steps of it that are under way.
LEMMA DelaysOf ==
  ASSUME IndInv, NEW p \in Proposals, NEW d \in delays, d[1] = p
  PROVE  p \in runningMissions /\ store[p].mission = "running" /\ \E i \in WithStatus(store[p], "running") : d = <<p, i>>
<1>1. PICK q \in runningMissions : \E i \in WithStatus(store[q], "running") : d = <<q, i>>
  BY DEF IndInv, DelaysSound
<1>2. q = p
  BY <1>1
<1> QED
  BY <1>1, <1>2 DEF IndInv, LoopsSound

LEMMA RoundStep ==
  ASSUME IndInv, NEW p \in Proposals, Round(p)
  PROVE  IndInv'
<1> DEFINE e == store[p]
<1>1. /\ up /\ turn # <<>> /\ Head(turn) = p /\ turn' = Persist \o Tail(turn)
      /\ UNCHANGED <<disk, up, crashes>>
  BY DEF Round
<1>2. EntryOK(e) /\ e \in Entry /\ OneRound(turn) /\ runningMissions \subseteq Proposals
  BY DEF IndInv, StoreSound
<1>3. InTurn(turn, p) /\ OneRound(Tail(turn)) /\ \A q \in Proposals : ~InTurn(Tail(turn), q)
  BY <1>1, <1>2, RestOf
<1>4. OneRound(turn') /\ turn' # <<>> /\ \A q \in Proposals : ~InTurn(turn', q)
  BY <1>1, <1>3, ShortTurns, Joined
<1>5. p \in runningMissions /\ e.mission = "running" /\ WithStatus(e, "running") = {}
  BY <1>3 DEF IndInv, LoopsSound
<1>6. \A d \in delays : d[1] # p
  BY <1>5, DelaysOf
<1>7. ASSUME NEW to \in {"completed", "blocked"},
             store' = [store EXCEPT ![p].mission = to], runningMissions' = runningMissions \ {p}, UNCHANGED delays,
             to = "completed" => WithStatus(e, "pending") = {},
             to = "blocked" => WithStatus(e, "pending") # {} /\ readySteps(e) = {}
      PROVE  IndInv'
  <2> DEFINE f == [e EXCEPT !.mission = to]
  <2>1. EntryOK(f)
    BY <1>2, <1>5, <1>7, MissionBecomes
  <2>2. store' = [store EXCEPT ![p] = f]
    BY <1>7 DEF IndInv, StoreSound
  <2> HIDE DEF f
  <2>3. StoreSound' /\ DiskSound' /\ \A q \in Proposals : q # p => store'[q] = store[q]
    BY <1>1, <2>1, <2>2, OneEntry
  <2>4. LoopsSound' /\ DelaysSound' /\ runningMissions' \subseteq Proposals
    BY <1>4, <1>6, <1>7, <2>3, LoopEnds
  <2> QED
    BY <1>1, <1>4, <2>3, <2>4 DEF IndInv, DownIsIdle, Synced, Listening
<1>8. ASSUME NEW i \in readySteps(e), store' = [store EXCEPT ![p].stepStatus[i] = "running"],
             delays' = delays \cup {<<p, i>>}, UNCHANGED runningMissions
      PROVE  IndInv'
  <2> DEFINE f == StepSet(e, i, "running")
  <2>1. store' = [store EXCEPT ![p] = f]
    BY <1>8 DEF IndInv, StoreSound, StepSet
  <2>2. EntryOK(f) /\ f.mission = "running" /\ WithStatus(f, "running") = {i}
    BY <1>2, <1>5, StepBegins
  <2> HIDE DEF f
  <2>3. StoreSound' /\ DiskSound' /\ store'[p] = f /\ \A q \in Proposals : q # p => store'[q] = store[q]
    BY <1>1, <2>1, <2>2, OneEntry
  <2>4. LoopsSound'
    BY <1>4, <1>5, <1>8, <2>2, <2>3 DEF IndInv, LoopsSound
  <2>5. DelaysSound'
    <3> SUFFICES ASSUME NEW d \in delays'
                 PROVE  \E q \in runningMissions : \E k \in WithStatus(store'[q], "running") : d = <<q, k>>
      BY <1>8 DEF DelaysSound
    <3>1. CASE d = <<p, i>>
      BY <1>5, <2>2, <2>3, <3>1
    <3>2. CASE d \in delays
      <4>1. PICK q \in runningMissions : \E k \in WithStatus(store[q], "running") : d = <<q, k>>
        BY <3>2 DEF IndInv, DelaysSound
      <4>2. q # p /\ q \in Proposals
        BY <1>2, <1>6, <3>2, <4>1
      <4> QED
        BY <2>3, <4>1, <4>2
    <3> QED
      BY <1>8, <3>1, <3>2
  <2> QED
    BY <1>1, <1>2, <1>4, <1>8, <2>3, <2>4, <2>5 DEF IndInv, DownIsIdle, Synced, Listening
<1>9. CASE WithStatus(e, "pending") = {}
  <2>1. store' = [store EXCEPT ![p].mission = "completed"] /\ runningMissions' = runningMissions \ {p} /\ UNCHANGED delays
    BY <1>9 DEF Round
  <2> QED
    BY <1>7, <1>9, <2>1
<1>10. CASE WithStatus(e, "pending") # {} /\ readySteps(e) = {}
  <2>1. store' = [store EXCEPT ![p].mission = "blocked"] /\ runningMissions' = runningMissions \ {p} /\ UNCHANGED delays
    BY <1>10 DEF Round
  <2> QED
    BY <1>7, <1>10, <2>1
<1>11. CASE WithStatus(e, "pending") # {} /\ readySteps(e) # {}
  <2>1. PICK i \in readySteps(e) : /\ store' = [store EXCEPT ![p].stepStatus[i] = "running"]
                                   /\ delays' = delays \cup {<<p, i>>} /\ UNCHANGED runningMissions
    BY <1>11 DEF Round
  <2> QED
    BY <1>8, <2>1
<1> QED
  BY <1>9, <1>10, <1>11

LEMMA DelayEndsStep ==
  ASSUME IndInv, NEW p \in Proposals, NEW i, DelayEnds(p, i)
  PROVE  IndInv'
<1> DEFINE e == store[p]
           d == <<p, i>>
<1>1. up /\ turn = <<>> /\ d \in delays /\ delays' = delays \ {d} /\ UNCHANGED <<disk, up, crashes>>
  BY DEF DelayEnds, Listening
<1>2. EntryOK(e) /\ runningMissions \subseteq Proposals
  BY DEF IndInv, StoreSound
<1>3. p \in runningMissions /\ e.mission = "running" /\ i \in WithStatus(e, "running")
  <2>1. d[1] = p
    OBVIOUS
  <2>2. p \in runningMissions /\ e.mission = "running" /\ \E k \in WithStatus(e, "running") : d = <<p, k>>
    BY <1>1, <2>1, DelaysOf
  <2> QED
    BY <2>2
<1>4. WithStatus(e, "running") = {i}
  BY <1>2, <1>3 DEF EntryOK, Judged
<1>5. \A c \in delays' : c \in delays /\ c[1] # p
  <2> SUFFICES ASSUME NEW c \in delays', c[1] = p PROVE FALSE
    BY <1>1
  <2>1. c \in delays /\ c # d
    BY <1>1
  <2>2. \E k \in WithStatus(e, "running") : c = <<p, k>>
    BY <2>1, DelaysOf
  <2> QED
    BY <1>4, <2>1, <2>2
<1>6. CASE e.steps[i].fails
  <2> DEFINE f == StepFails(e, i)
  <2>1. /\ store' = [store EXCEPT ![p].stepStatus[i] = "failed", ![p].mission = "failed"]
        /\ runningMissions' = runningMissions \ {p} /\ turn' = Persist
    BY <1>6 DEF DelayEnds
  <2>2. store' = [store EXCEPT ![p] = f]
    BY <2>1 DEF IndInv, StoreSound, StepFails
  <2>3. EntryOK(f)
    BY <1>2, <1>3, <1>4, StepEnds
  <2> HIDE DEF f
  <2>4. StoreSound' /\ DiskSound' /\ \A q \in Proposals : q # p => store'[q] = store[q]
    BY <1>1, <2>2, <2>3, OneEntry
  <2>5. \A q \in Proposals : ~InTurn(turn', q)
    BY <2>1, ShortTurns
  <2>6. LoopsSound' /\ DelaysSound' /\ runningMissions' \subseteq Proposals
    BY <1>1, <1>5, <2>1, <2>4, <2>5, LoopEnds
  <2> QED
    BY <1>1, <2>1, <2>4, <2>6, ShortTurns DEF IndInv, DownIsIdle, Synced, Listening
<1>7. CASE ~e.steps[i].fails
  <2> DEFINE f == StepSet(e, i, "completed")
  <2>1. /\ store' = [store EXCEPT ![p].stepStatus[i] = "completed"]
        /\ UNCHANGED runningMissions /\ turn' = Persist \o <<p>>
    BY <1>7 DEF DelayEnds
  <2>2. store' = [store EXCEPT ![p] = f]
    BY <2>1 DEF IndInv, StoreSound, StepSet
  <2>3. EntryOK(f) /\ f.mission = "running" /\ WithStatus(f, "running") = {}
    BY <1>2, <1>3, <1>4, StepEnds
  <2> HIDE DEF f
  <2>4. StoreSound' /\ DiskSound' /\ store'[p] = f /\ \A q \in Proposals : q # p => store'[q] = store[q]
    BY <1>1, <2>2, <2>3, OneEntry
  <2>5. OneRound(turn') /\ turn' # <<>> /\ \A q \in Proposals : InTurn(turn', q) => q = p
    BY <2>1, ShortTurns, Joined
  <2>6. LoopsSound'
    BY <1>3, <2>1, <2>3, <2>4, <2>5 DEF IndInv, LoopsSound
  <2>7. DelaysSound'
    <3> SUFFICES ASSUME NEW c \in delays'
                 PROVE  \E q \in runningMissions : \E k \in WithStatus(store'[q], "running") : c = <<q, k>>
      BY <2>1 DEF DelaysSound
    <3>1. c \in delays /\ c[1] # p
      BY <1>5
    <3>2. PICK q \in runningMissions : \E k \in WithStatus(store[q], "running") : c = <<q, k>>
      BY <3>1 DEF IndInv, DelaysSound
    <3>3. q # p /\ q \in Proposals
      BY <1>2, <3>1, <3>2
    <3> QED
      BY <2>4, <3>2, <3>3
  <2> QED
    BY <1>1, <1>2, <2>1, <2>4, <2>5, <2>6, <2>7 DEF IndInv, DownIsIdle, Synced, Listening
<1> QED
  BY <1>6, <1>7

\* The rest of a handler is run with the store and the loops as they are.
LEMMA PersistStep ==
  ASSUME IndInv, PersistOpens \/ PersistWrites
  PROVE  IndInv'
<1>1. /\ up /\ turn # <<>> /\ turn' = Tail(turn) /\ UNCHANGED <<store, runningMissions, delays, up, crashes>>
      /\ disk' = Torn \/ disk' = store
  BY DEF PersistOpens, PersistWrites
<1>2. OneRound(turn') /\ \A q \in Proposals : InTurn(turn', q) => InTurn(turn, q)
  BY <1>1, RestOf DEF IndInv
<1>3. StoreSound' /\ DiskSound'
  BY <1>1 DEF IndInv, StoreSound, DiskSound
<1>4. LoopsSound'
  BY <1>1, <1>2 DEF IndInv, LoopsSound
<1>5. DelaysSound' /\ DownIsIdle'
  BY <1>1 DEF IndInv, DelaysSound, DownIsIdle
<1>6. Synced'
  <2> SUFFICES ASSUME disk' # Torn, NEW p \in Proposals
               PROVE  [disk'[p] EXCEPT !.title = store'[p].title] = store'[p]
    BY DEF Synced
  <2>1. disk'[p] = store[p] /\ store'[p] = store[p] /\ store[p] \in Entry
    BY <1>1 DEF IndInv, StoreSound
  <2>2. \A x \in Entry : [x EXCEPT !.title = x.title] = x
    BY DEF Entry
  <2> QED
    BY <2>1, <2>2
<1> QED
  BY <1>1, <1>2, <1>3, <1>4, <1>5, <1>6 DEF IndInv

LEMMA CrashStep ==
  ASSUME IndInv, Crash
  PROVE  IndInv'
<1>1. /\ up' = FALSE /\ turn' = <<>> /\ delays' = {} /\ runningMissions' = {} /\ UNCHANGED <<store, disk>>
      /\ crashes < MaxCrashes /\ crashes' = crashes + 1
  BY DEF Crash
<1>2. crashes' \in 0..MaxCrashes
  BY <1>1, CrashAssumption DEF IndInv
<1>3. StoreSound' /\ DiskSound'
  BY <1>1 DEF IndInv, StoreSound, DiskSound
<1>4. LoopsSound'
  BY <1>1, ShortTurns DEF LoopsSound
<1>5. DelaysSound' /\ DownIsIdle' /\ Synced'
  BY <1>1 DEF DelaysSound, DownIsIdle, Synced, Listening
<1> QED
  BY <1>1, <1>2, <1>3, <1>4, <1>5, ShortTurns DEF IndInv

LEMMA RestartStep ==
  ASSUME IndInv, Restart
  PROVE  IndInv'
<1>1. /\ ~up /\ up' = TRUE /\ UNCHANGED <<disk, turn, runningMissions, delays, crashes>>
      /\ store' = IF disk = Torn THEN EmptyStore ELSE disk
  BY DEF Restart
<1>2. turn = <<>> /\ delays = {} /\ runningMissions = {}
  BY <1>1 DEF IndInv, DownIsIdle
<1>3. StoreSound'
  <2>1. CASE disk = Torn
    BY <1>1, <2>1, NoEntryOK DEF StoreSound, EmptyStore
  <2>2. CASE disk # Torn
    BY <1>1, <2>2 DEF IndInv, StoreSound, DiskSound
  <2> QED
    BY <2>1, <2>2
<1>4. DiskSound'
  BY <1>1 DEF IndInv, DiskSound
<1>5. LoopsSound'
  BY <1>1, <1>2, ShortTurns DEF LoopsSound
<1>6. DelaysSound' /\ DownIsIdle'
  BY <1>1, <1>2 DEF DelaysSound, DownIsIdle
<1>7. Synced'
  <2> SUFFICES ASSUME disk # Torn, NEW p \in Proposals
               PROVE  [disk[p] EXCEPT !.title = disk[p].title] = disk[p]
    BY <1>1 DEF Synced
  <2>1. disk[p] \in Entry
    BY DEF IndInv, DiskSound
  <2>2. \A x \in Entry : [x EXCEPT !.title = x.title] = x
    BY DEF Entry
  <2> QED
    BY <2>1, <2>2
<1> QED
  BY <1>1, <1>2, <1>3, <1>4, <1>5, <1>6, <1>7, ShortTurns DEF IndInv

LEMMA StepIndInv == IndInv /\ [Next]_vars => IndInv'
<1> SUFFICES ASSUME IndInv, [Next]_vars PROVE IndInv'
  OBVIOUS
<1>1. CASE UNCHANGED vars
  BY <1>1 DEF vars, IndInv, StoreSound, DiskSound, LoopsSound, DelaysSound, DownIsIdle, Synced, Listening
<1>2. CASE Handler
  BY <1>2, PersistStep, RoundStep DEF Handler
<1>3. CASE Crash
  BY <1>3, CrashStep
<1>4. CASE Restart
  BY <1>4, RestartStep
<1>5. ASSUME NEW p \in Proposals, Timer(p) PROVE IndInv'
  BY <1>5, DelayEndsStep DEF Timer
<1>6. ASSUME NEW p \in Proposals, NEW raw \in Submissions, SubmitProposal(p, raw) PROVE IndInv'
  BY <1>6, SubmitStep
<1>7. ASSUME NEW p \in Proposals, Review(p) PROVE IndInv'
  BY <1>7, RejectOrModifyStep, ApproveStep, ReviewThrowsStep DEF Review
<1>8. ASSUME NEW p \in Proposals, StartMission(p) PROVE IndInv'
  BY <1>8, StartMissionStep
<1> QED
  BY <1>1, <1>2, <1>3, <1>4, <1>5, <1>6, <1>7, <1>8 DEF Next

-----------------------------------------------------------------------------
(* Theorems *)

\* The invariant the others rest on holds of every run of the engine.
THEOREM Inductive == Spec => []IndInv
BY InitIndInv, StepIndInv, PTL DEF Spec

\* The entries in memory and on disk are sound.
LEMMA EntriesSound == IndInv => \A e \in Entries : EntryOK(e)
BY DEF IndInv, StoreSound, DiskSound, Entries

\* Steps run in dependency order, in memory and on disk, whatever the plans, the
\* patches and the crashes (readySteps, runMission).
THEOREM StepsInOrder == Spec => []DependencyOrder
<1>1. IndInv => DependencyOrder
  BY EntriesSound DEF EntryOK, InOrder, DependencyOrder
<1> QED
  BY <1>1, Inductive, PTL

\* Nothing runs unapproved, whatever a restart finds (reviewProposal, startMission).
THEOREM NothingRunsUnapproved == Spec => []ApprovalGate
<1>1. IndInv => ApprovalGate
  BY EntriesSound DEF EntryOK, Shaped, ApprovalGate
<1> QED
  BY <1>1, Inductive, PTL

\* The verdict on a mission is the verdict on its steps, and a plan listed in
\* dependency order never blocks (runMission).
THEOREM VerdictsAreSound == Spec => []VerdictSound
<1>1. IndInv => VerdictSound
  <2> SUFFICES ASSUME IndInv, NEW p \in Proposals
               PROVE  LET e == store[p]
                      IN /\ e.mission = "completed" => WithStatus(e, "completed") = DOMAIN e.steps
                         /\ e.mission = "failed" <=> WithStatus(e, "failed") # {}
                         /\ (\E k \in DOMAIN turn : turn[k] = p) => e.mission = "running"
                         /\ e.mission = "blocked" =>
                              WithStatus(e, "running") = {} /\ readySteps(e) = {} /\ ~Ordered(e.raw)
    BY DEF VerdictSound
  <2>1. Judged(store[p])
    BY DEF IndInv, StoreSound, EntryOK
  <2>2. (\E k \in DOMAIN turn : turn[k] = p) => store[p].mission = "running"
    BY DEF IndInv, LoopsSound, InTurn
  <2> QED
    BY <2>1, <2>2 DEF Judged
<1> QED
  BY <1>1, Inductive, PTL

LEMMA AtMostOne ==
  ASSUME NEW S, \A x, y \in S : x = y
  PROVE  Cardinality(S) <= 1
<1>1. CASE S = {}
  <2>1. Cardinality(S) = 0
    BY <1>1, FS_EmptySet
  <2> QED
    BY <2>1
<1>2. CASE S # {}
  <2>1. PICK x : S = {x}
    BY <1>2
  <2>2. Cardinality(S) = 1
    BY <2>1, FS_Singleton
  <2> QED
    BY <2>2
<1> QED
  BY <1>1, <1>2

\* A mission has one loop, and one step under way (runMission, startMission).
THEOREM OneLoopPerMission == Spec => []OneStepAtATime
<1>1. IndInv => OneStepAtATime
  <2> SUFFICES ASSUME IndInv, NEW p \in Proposals
               PROVE  /\ Cardinality(WithStatus(store[p], "running")) <= 1
                      /\ Cardinality({d \in delays : d[1] = p}) <= 1
    BY DEF OneStepAtATime
  <2>1. \A i, j \in WithStatus(store[p], "running") : i = j
    BY DEF IndInv, StoreSound, EntryOK, Judged
  <2>2. ASSUME NEW c \in {d \in delays : d[1] = p}, NEW d \in {d \in delays : d[1] = p} PROVE c = d
    <3>1. PICK i \in WithStatus(store[p], "running") : c = <<p, i>>
      BY <2>2, DelaysOf
    <3>2. PICK j \in WithStatus(store[p], "running") : d = <<p, j>>
      BY <2>2, DelaysOf
    <3> QED
      BY <2>1, <3>1, <3>2
  <2> QED
    BY <2>1, <2>2, AtMostOne
<1> QED
  BY <1>1, Inductive, PTL

LEMMA IndInvTyped == IndInv => TypeOK
<1> SUFFICES ASSUME IndInv PROVE TypeOK
  OBVIOUS
<1>1. store \in [Proposals -> Entry] /\ (disk = Torn \/ disk \in [Proposals -> Entry])
  BY DEF IndInv, StoreSound, DiskSound
<1>2. turn \in Seq({"open", "write"} \cup Proposals)
  BY DEF IndInv, OneRound, Word
<1>3. ASSUME NEW d \in delays PROVE d[1] \in Proposals /\ d[2] \in DOMAIN store[d[1]].steps
  <2>1. PICK p \in runningMissions : \E i \in WithStatus(store[p], "running") : d = <<p, i>>
    BY DEF IndInv, DelaysSound
  <2>2. PICK i \in WithStatus(store[p], "running") : d = <<p, i>>
    BY <2>1
  <2>3. p \in Proposals /\ store[p].mission = "running" /\ Shaped(store[p])
    BY <2>1 DEF IndInv, LoopsSound, StoreSound, EntryOK
  <2>4. i \in DOMAIN store[p].steps
    BY <2>3 DEF Shaped, WithStatus
  <2> QED
    BY <2>2, <2>3, <2>4
<1>4. runningMissions \subseteq Proposals /\ up \in BOOLEAN /\ crashes \in 0..MaxCrashes
  BY DEF IndInv
<1> QED
  BY <1>1, <1>2, <1>3, <1>4 DEF TypeOK

\* The state is well typed, and what an idle engine has in memory is on disk, save
\* the title that a review patched before it threw (persist, reviewProposal).
THEOREM IdleEnginesArePersisted == Spec => []IdleIsPersisted
<1>1. IndInv => IdleIsPersisted
  BY IndInvTyped DEF IndInv, Synced, IdleIsPersisted
<1> QED
  BY <1>1, Inductive, PTL
=============================================================================
