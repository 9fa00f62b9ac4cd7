------------------------ MODULE MissionRunnerProofs ------------------------
(***************************************************************************)
(* Proofs about MissionRunner, for any number of runners, faults,          *)
(* rollbacks and delivery directories.  The invariant says of every record *)
(* in play (in memory, in the state file, in the temporary file) what      *)
(* MissionSound says of the one on disk, since any of them may end up      *)
(* there.  Provenance lists where the new records of a step come from;     *)
(* each part of the invariant is then shown for those.  Two more           *)
(* invariants stand on it: ApprovalInv for the approval gate, and SoloInv  *)
(* for a runner that shares its mission with no other.                     *)
(***************************************************************************)
EXTENDS MissionRunner, TLAPS

\* Every record that is in play.
Recs == {m[r] : r \in Runners} \cup {base[r] : r \in Runners} \cup {out[r] : r \in Runners}
          \cup ({disk, tmp} \cap Record)

\* Where a call stands, what it holds.
Calls ==
  \A r \in Runners :
    /\ mode[r] = "create" => stage[r] \in {"idle", "open", "write", "rename", "threw"} /\ out[r] = NewRecord
    /\ mode[r] = "try" /\ ~Free(r) => base[r].phase \notin {"closed", "error"}
    /\ stage[r] \in {"mkdir", "collect"} => m[r].phase = "verify" /\ m[r].verification = "pass"

\* A mission fails in a phase it was working in.
ErrorSound(rec) == rec.phase = "error" => rec.error.atPhase \in Phases \ {"closed", "error"}

Sound(rec) == HistorySound(rec) /\ PayloadSound(rec) /\ ErrorSound(rec)

\* The phase a mission is in, or failed in.
Reached(rec) == IF rec.phase = "error" THEN rec.error.atPhase ELSE rec.phase

\* From verify on, the verdict is the one on the execution the record holds, and a
\* mission past verify has passed.
Fresh(rec) ==
  /\ Rank[Reached(rec)] >= Rank["verify"] => (rec.verification = "pass" => rec.execution = "clean")
  /\ Rank[Reached(rec)] >= Rank["deliver"] => rec.verification = "pass"

\* Version directories: a runner that collects owns the one it made, and a record
\* that mentions a delivery names a directory that is complete.
Owned ==
  \A r \in Runners : stage[r] = "collect" =>
    /\ version[r] \in 1..MaxVersions /\ dirs[version[r]] = "partial"
    /\ \A q \in Runners \ {r} : stage[q] = "collect" => version[q] # version[r]
Delivered(rec) == rec.delivery # 0 => rec.delivery \in 1..MaxVersions /\ dirs[rec.delivery] = "complete"

IndInv == /\ TypeOK /\ Calls
          /\ \A rec \in Recs : Sound(rec)
          /\ RollbackPolicy = "prior" => \A rec \in Recs : Fresh(rec)
          /\ Owned /\ \A rec \in Recs : Delivered(rec)

-----------------------------------------------------------------------------
(* Records *)

\* The record a mission is created with is sound.
LEMMA NewSound == NewRecord \in Record /\ Sound(NewRecord) /\ Fresh(NewRecord)
BY DEF NewRecord, Record, NoError, Phases, Executions, Overalls, Codes, Sound, HistorySound, PayloadSound,
       ErrorSound, Fresh, Reached, Seen, Rank, ALLOWED_FORWARD

\* Entering a phase appends it to the history and keeps the payloads.
LEMMA EnteredFields ==
  ASSUME NEW rec \in Record, NEW next \in Phases
  PROVE  /\ Entered(rec, next) \in Record
         /\ Entered(rec, next).phase = next
         /\ Entered(rec, next).history = Append(rec.history, next)
         /\ Entered(rec, next).plan = rec.plan
         /\ Entered(rec, next).execution = rec.execution
         /\ Entered(rec, next).verification = rec.verification
         /\ Entered(rec, next).delivery = rec.delivery
         /\ Entered(rec, next).error = rec.error
<1> DEFINE h == Append(rec.history, next)
<1>1. h \in Seq(Phases)
  BY DEF Record
<1>2. Entered(rec, next) = [rec EXCEPT !.phase = next, !.history = h]
  BY DEF Entered, Record
<1> HIDE DEF h
<1>3. [rec EXCEPT !.phase = next, !.history = h] \in Record
  BY <1>1 DEF Record
<1> QED
  BY <1>1, <1>2, <1>3 DEF Record, h

\* The same for a failure: only the error is set besides.
LEMMA FailedFields ==
  ASSUME NEW rec \in Record, NEW code \in Codes
  PROVE  /\ Failed(rec, code) \in Record
         /\ Failed(rec, code).phase = "error"
         /\ Failed(rec, code).history = Append(rec.history, "error")
         /\ Failed(rec, code).plan = rec.plan
         /\ Failed(rec, code).execution = rec.execution
         /\ Failed(rec, code).verification = rec.verification
         /\ Failed(rec, code).delivery = rec.delivery
         /\ Failed(rec, code).error = [atPhase |-> rec.phase, code |-> code]
<1> DEFINE e == Entered(rec, "error")
           err == [atPhase |-> rec.phase, code |-> code]
<1>1. e \in Record /\ err \in [atPhase : Phases \cup {"none"}, code : Codes]
  BY EnteredFields DEF Phases, Record
<1>2. Failed(rec, code) = [e EXCEPT !.error = err]
  BY DEF Failed
<1>3. /\ e.phase = "error" /\ e.history = Append(rec.history, "error") /\ e.plan = rec.plan
      /\ e.execution = rec.execution /\ e.verification = rec.verification /\ e.delivery = rec.delivery
  BY EnteredFields DEF Phases
<1> HIDE DEF e, err
<1> QED
  BY <1>1, <1>2, <1>3 DEF Record, err

\* And for a rollback, which clears the error.
LEMMA RolledBackFields ==
  ASSUME NEW rec \in Record, NEW target \in Phases
  PROVE  /\ RolledBack(rec, target) \in Record
         /\ RolledBack(rec, target).phase = target
         /\ RolledBack(rec, target).history = Append(rec.history, target)
         /\ RolledBack(rec, target).plan = rec.plan
         /\ RolledBack(rec, target).execution = rec.execution
         /\ RolledBack(rec, target).verification = rec.verification
         /\ RolledBack(rec, target).delivery = rec.delivery
         /\ RolledBack(rec, target).error = NoError
<1> DEFINE e == Entered(rec, target)
<1>1. e \in Record /\ NoError \in [atPhase : Phases \cup {"none"}, code : Codes]
  BY EnteredFields DEF NoError, Codes
<1>2. RolledBack(rec, target) = [e EXCEPT !.error = NoError]
  BY DEF RolledBack
<1>3. /\ e.phase = target /\ e.history = Append(rec.history, target) /\ e.plan = rec.plan
      /\ e.execution = rec.execution /\ e.verification = rec.verification /\ e.delivery = rec.delivery
  BY EnteredFields
<1> HIDE DEF e
<1> QED
  BY <1>1, <1>2, <1>3 DEF Record

\* Appending a phase to a history adds it to the phases seen.
LEMMA SeenAppend ==
  ASSUME NEW rec \in Record, NEW new \in Record, NEW next \in Phases, new.history = Append(rec.history, next)
  PROVE  Seen(new) = Seen(rec) \cup {next}
<1> DEFINE h == rec.history
           g == new.history
<1>1. h \in Seq(Phases) /\ g = Append(h, next)
  BY DEF Record
<1>2. DOMAIN h = 1..Len(h) /\ DOMAIN g = 1..(Len(h) + 1) /\ Len(h) \in Nat
  BY <1>1
<1>3. g[Len(h) + 1] = next /\ \A i \in 1..Len(h) : g[i] = h[i]
  BY <1>1
<1> HIDE DEF h, g
<1>4. {g[i] : i \in DOMAIN g} = {h[i] : i \in DOMAIN h} \cup {next}
  BY <1>2, <1>3
<1> QED
  BY <1>4 DEF Seen, h, g

\* A history stays a path of the diagram when it is extended along ALLOWED_FORWARD, or
\* from an error to a phase it holds already.
LEMMA HistoryAppend ==
  ASSUME NEW rec \in Record, HistorySound(rec), NEW new \in Record, NEW next \in Phases,
         new.history = Append(rec.history, next), new.phase = next,
         \/ next \in ALLOWED_FORWARD[rec.phase]
         \/ rec.phase = "error" /\ next \in Seen(rec) \ {"error"}
  PROVE  HistorySound(new)
<1> DEFINE h == rec.history
           g == new.history
           n == Len(rec.history)
<1>1. h \in Seq(Phases) /\ g = Append(h, next)
  BY DEF Record
<1>2. Len(g) = n + 1 /\ n \in Nat /\ n > 0 /\ DOMAIN h = 1..n
  BY <1>1 DEF HistorySound
<1>3. g[n + 1] = next /\ \A i \in 1..n : g[i] = h[i]
  BY <1>1
<1>4. h[1] = "brief" /\ h[n] = rec.phase
  BY DEF HistorySound
<1>5. \A i \in 1..(n - 1) : \/ h[i + 1] \in ALLOWED_FORWARD[h[i]]
                            \/ h[i] = "error" /\ \E j \in 1..(i - 1) : h[j] = h[i + 1]
  BY DEF HistorySound
<1>6. next \in Seen(rec) => \E j \in 1..n : h[j] = next
  BY <1>2 DEF Seen
<1> HIDE DEF h, g, n
<1>7. ASSUME NEW i \in 1..n
      PROVE  \/ g[i + 1] \in ALLOWED_FORWARD[g[i]]
             \/ g[i] = "error" /\ \E j \in 1..(i - 1) : g[j] = g[i + 1]
  <2>1. CASE i < n
    <3>1. i \in 1..(n - 1) /\ g[i] = h[i] /\ g[i + 1] = h[i + 1] /\ \A j \in 1..(i - 1) : g[j] = h[j]
      BY <1>2, <1>3, <2>1
    <3> QED
      BY <1>5, <3>1
  <2>2. CASE i = n
    <3>1. g[i] = rec.phase /\ g[i + 1] = next /\ \A j \in 1..n : g[j] = h[j]
      BY <1>2, <1>3, <1>4, <2>2
    <3>2. CASE next \in ALLOWED_FORWARD[rec.phase]
      BY <3>1, <3>2
    <3>3. CASE rec.phase = "error" /\ next \in Seen(rec) \ {"error"}
      <4>1. PICK j \in 1..n : h[j] = next
        BY <1>6, <3>3
      <4>2. j # n
        BY <1>4, <3>3, <4>1
      <4>3. j \in 1..(i - 1)
        BY <1>2, <2>2, <4>1, <4>2
      <4>4. g[j] = g[i + 1]
        BY <3>1, <4>1
      <4> QED
        BY <3>1, <3>3, <4>3, <4>4
    <3> QED
      BY <3>2, <3>3
  <2>3. i < n \/ i = n
    BY <1>2
  <2> QED
    BY <2>1, <2>2, <2>3
<1>8. Len(g) > 0 /\ g[1] = "brief" /\ g[Len(g)] = next
  BY <1>2, <1>3, <1>4
<1>9. Len(g) - 1 = n
  BY <1>2
<1> QED
  BY <1>7, <1>8, <1>9 DEF HistorySound, g

\* A mission that fails while it is worked on stays sound, and its verdict as fresh.
LEMMA FailedSound ==
  ASSUME NEW rec \in Record, Sound(rec), rec.phase \notin {"closed", "error"}, NEW code \in Codes
  PROVE  Failed(rec, code) \in Record /\ Sound(Failed(rec, code)) /\ (Fresh(rec) => Fresh(Failed(rec, code)))
<1> DEFINE f == Failed(rec, code)
<1>1. /\ f \in Record /\ f.phase = "error" /\ f.history = Append(rec.history, "error")
      /\ f.plan = rec.plan /\ f.execution = rec.execution /\ f.verification = rec.verification
      /\ f.delivery = rec.delivery
  BY FailedFields
<1>7. f.error.atPhase = rec.phase
  <2>1. f.error = [atPhase |-> rec.phase, code |-> code]
    BY FailedFields
  <2> QED
    BY <2>1
<1>2. rec.phase \in Phases \ {"closed", "error"}
  BY DEF Record
<1> HIDE DEF f
<1>3. HistorySound(f)
  <2>1. "error" \in ALLOWED_FORWARD[rec.phase]
    BY <1>2 DEF Phases, ALLOWED_FORWARD
  <2> QED
    BY <1>1, <2>1, HistoryAppend DEF Sound, Phases
<1>4. PayloadSound(f)
  <2>1. Seen(f) = Seen(rec) \cup {"error"}
    BY <1>1, SeenAppend DEF Phases
  <2> QED
    BY <1>1, <2>1 DEF Sound, PayloadSound, Rank
<1>5. ErrorSound(f)
  BY <1>2, <1>7 DEF ErrorSound
<1>6. Fresh(rec) => Fresh(f)
  BY <1>1, <1>2, <1>7 DEF Fresh, Reached
<1> QED
  BY <1>1, <1>3, <1>4, <1>5, <1>6 DEF Sound, f

\* A rollback to a phase of the history gives a sound record; one to a phase no later
\* than the failure keeps the verdict fresh.
LEMMA RolledBackSound ==
  ASSUME NEW rec \in Record, Sound(rec), rec.phase = "error", NEW target \in Seen(rec) \ {"error"}
  PROVE  /\ RolledBack(rec, target) \in Record /\ Sound(RolledBack(rec, target))
         /\ Fresh(rec) /\ Rank[target] <= Rank[rec.error.atPhase] => Fresh(RolledBack(rec, target))
<1> DEFINE f == RolledBack(rec, target)
<1>0. target \in Phases \ {"error"}
  BY DEF Seen, Record
<1>1. /\ f \in Record /\ f.phase = target /\ f.history = Append(rec.history, target)
      /\ f.plan = rec.plan /\ f.execution = rec.execution /\ f.verification = rec.verification
      /\ f.delivery = rec.delivery
  BY <1>0, RolledBackFields
<1> HIDE DEF f
<1>3. HistorySound(f)
  BY <1>0, <1>1, HistoryAppend DEF Sound
<1>4. PayloadSound(f)
  <2>1. Seen(f) = Seen(rec) \cup {target}
    BY <1>0, <1>1, SeenAppend
  <2> QED
    BY <1>1, <2>1 DEF Sound, PayloadSound
<1>5. ErrorSound(f)
  BY <1>0, <1>1 DEF ErrorSound
<1>6. ASSUME Fresh(rec), Rank[target] <= Rank[rec.error.atPhase] PROVE Fresh(f)
  <2>1. rec.error.atPhase \in Phases
    BY DEF Sound, ErrorSound
  <2> QED
    BY <1>0, <1>1, <1>6, <2>1 DEF Fresh, Reached, Rank, Phases
<1> QED
  BY <1>1, <1>3, <1>4, <1>5, <1>6 DEF Sound, f

\* A step along ALLOWED_FORWARD whose patch fills in the payload of the phase it
\* enters, and drops none, gives a sound record.
LEMMA ForwardSound ==
  ASSUME NEW rec \in Record, Sound(rec), NEW pat \in Record, pat.phase = rec.phase, pat.history = rec.history,
         NEW next \in ALLOWED_FORWARD[rec.phase] \ {"error"},
         rec.plan \/ next = "plan" => pat.plan,
         rec.execution # "none" \/ next = "execute" => pat.execution # "none",
         rec.verification # "none" \/ next = "verify" => pat.verification # "none",
         rec.delivery # 0 \/ next = "deliver" => pat.delivery # 0
  PROVE  Entered(pat, next) \in Record /\ Sound(Entered(pat, next))
<1> DEFINE f == Entered(pat, next)
<1>0. rec.phase \in Phases /\ next \in Phases \ {"error"}
  BY DEF Record, Phases, ALLOWED_FORWARD
<1>1. /\ f \in Record /\ f.phase = next /\ f.history = Append(rec.history, next)
      /\ f.plan = pat.plan /\ f.execution = pat.execution /\ f.verification = pat.verification
      /\ f.delivery = pat.delivery
  BY <1>0, EnteredFields
<1> HIDE DEF f
<1>3. HistorySound(f)
  BY <1>0, <1>1, HistoryAppend DEF Sound
<1>4. PayloadSound(f)
  <2>1. Seen(f) = Seen(rec) \cup {next}
    BY <1>0, <1>1, SeenAppend
  <2>2. rec.phase \in Seen(rec)
    BY DEF Sound, HistorySound, Seen, Record
  <2>3. /\ Rank[rec.phase] >= Rank["plan"]    => rec.plan
        /\ Rank[rec.phase] >= Rank["execute"] => rec.execution # "none"
        /\ Rank[rec.phase] >= Rank["verify"]  => rec.verification # "none"
        /\ Rank[rec.phase] >= Rank["deliver"] => rec.delivery # 0
    BY <2>2 DEF Sound, PayloadSound
  <2>4. /\ Rank[next] >= Rank["plan"]    => f.plan
        /\ Rank[next] >= Rank["execute"] => f.execution # "none"
        /\ Rank[next] >= Rank["verify"]  => f.verification # "none"
        /\ Rank[next] >= Rank["deliver"] => f.delivery # 0
    BY <1>0, <1>1, <2>3 DEF Rank, Phases, ALLOWED_FORWARD
  <2> QED
    BY <1>1, <2>1, <2>4 DEF Sound, PayloadSound
<1>5. ErrorSound(f)
  BY <1>0, <1>1 DEF ErrorSound
<1> QED
  BY <1>1, <1>3, <1>4, <1>5 DEF Sound, f

-----------------------------------------------------------------------------
(* Where records come from *)

\* The records a step may make: by creating a mission, failing one, rolling one back,
\* or completing a phase.
Born(rec) ==
  \/ rec = NewRecord
  \/ \E r \in Runners : mode[r] = "try" /\ ~Free(r) /\ rec = Failed(base[r], "none")
  \/ \E r \in Runners, code \in Codes : m[r].phase = "verify" /\ rec = Failed(m[r], code)
  \/ \E old \in Recs \cap Record : \E target \in Seen(old) \ {"error"} :
        old.phase = "error" /\ target \in Picks(old) /\ rec = RolledBack(old, target)
  \/ \E r \in Runners : m[r].phase = "brief" /\ rec = Entered([m[r] EXCEPT !.plan = TRUE], "plan")
  \/ \E r \in Runners, outcome \in Executions :
        m[r].phase = "plan" /\ rec = Entered([m[r] EXCEPT !.execution = outcome], "execute")
  \/ \E r \in Runners :
        m[r].phase = "execute" /\ rec = Entered([m[r] EXCEPT !.verification = runAll(m[r].execution)], "verify")
  \/ \E r \in Runners : /\ stage[r] = "collect" /\ dirs' = [dirs EXCEPT ![version[r]] = "complete"]
                        /\ rec = Entered([m[r] EXCEPT !.delivery = version[r]], "deliver")
  \/ \E r \in Runners : m[r].phase = "deliver" /\ rec = Entered(m[r], "closed")

\* What becomes of each place that holds a record.
Moves ==
  /\ \A q \in Runners : /\ m'[q] \in Recs \cup {NewRecord} /\ base'[q] \in Recs \cup {NewRecord}
                        /\ out'[q] \in Recs \/ Born(out'[q])
  /\ disk' \in Recs \cup {Missing, Empty, Torn}
  /\ tmp' \in Recs \cup {Missing, Empty, Torn}

\* The records in memory and in the files are in play.
LEMMA InRecs ==
  ASSUME TypeOK
  PROVE  /\ \A q \in Runners : m[q] \in Recs /\ base[q] \in Recs /\ out[q] \in Recs
         /\ disk \in Recs \cup {Missing, Empty, Torn} /\ tmp \in Recs \cup {Missing, Empty, Torn}
         /\ disk \in Record => disk \in Recs
         /\ Recs \subseteq Record
BY DEF Recs, TypeOK, File

\* What sm.transition does: it saves the record it was asked for, or its exception is
\* caught and the record the call began with is failed, or the caller gets it.
LEMMA TransitionShape ==
  ASSUME NEW r \in Runners, NEW patched, NEW next, Transition(r, patched, next)
  PROVE  /\ UNCHANGED <<disk, tmp, fd, m, base, wasApproved, approved, crashes, throws>>
         /\ \/ /\ out' = [out EXCEPT ![r] = Entered(patched, next)] /\ mode' = mode
               /\ stage' = [stage EXCEPT ![r] = "open"]
            \/ /\ mode[r] = "try" /\ out' = [out EXCEPT ![r] = Failed(base[r], "none")]
               /\ mode' = [mode EXCEPT ![r] = "catch"] /\ stage' = [stage EXCEPT ![r] = "open"]
            \/ /\ mode[r] # "try" /\ out' = out /\ mode' = mode
               /\ stage' = [stage EXCEPT ![r] = "threw"]
BY DEF Transition, Raise, store, faults

\* A phase that ends in sm.transition makes at most the record it asks for.
LEMMA TransitionMoves ==
  ASSUME TypeOK, NEW r \in Runners, ~Free(r), NEW patched, NEW next, Transition(r, patched, next),
         Born(Entered(patched, next))
  PROVE  Moves
<1>1. mode[r] = "try" => Born(Failed(base[r], "none"))
  BY DEF Born
<1>2. out \in [Runners -> Record]
  BY DEF TypeOK
<1> HIDE DEF Born
<1> QED
  BY <1>1, <1>2, InRecs, TransitionShape DEF Moves

\* Every record in play after a step was in play before it, or was made by it.
LEMMA Provenance ==
  ASSUME TypeOK, [Next]_vars
  PROVE  Moves
<1> USE InRecs
<1>1. CASE UNCHANGED vars \/ HumanApproves
  BY <1>1 DEF vars, HumanApproves, store, local, Moves
<1>2. ASSUME NEW r \in Runners, RunFromBrief(r) PROVE Moves
  BY <1>2 DEF TypeOK, RunFromBrief, store, Moves, Born
<1>3. ASSUME NEW r \in Runners, Resume(r) PROVE Moves
  BY <1>3 DEF TypeOK, Resume, store, Moves
<1>4. ASSUME NEW r \in Runners, NEW target \in Phases, Rollback(r, target) PROVE Moves
  <2>1. Born(RolledBack(disk, target))
    BY <1>4 DEF Rollback, Born
  <2> QED
    BY <1>4, <2>1 DEF TypeOK, Rollback, store, Moves
<1>5. ASSUME NEW r \in Runners, Plan(r) PROVE Moves
  <2>1. Born(Entered([m[r] EXCEPT !.plan = TRUE], "plan"))
    BY <1>5 DEF Plan, At, Born
  <2> QED
    BY <1>5, <2>1, TransitionMoves DEF Plan, At, Free
<1>6. ASSUME NEW r \in Runners, NEW outcome \in Executions, Execute(r, outcome) PROVE Moves
  <2>1. Born(Entered([m[r] EXCEPT !.execution = outcome], "execute"))
    BY <1>6 DEF Execute, At, Born
  <2> QED
    BY <1>6, <2>1, TransitionMoves DEF Execute, At, Free
<1>7. ASSUME NEW r \in Runners, Verify(r) PROVE Moves
  <2>1. Born(Entered([m[r] EXCEPT !.verification = runAll(m[r].execution)], "verify"))
    BY <1>7 DEF Verify, At, Born
  <2> QED
    BY <1>7, <2>1, TransitionMoves DEF Verify, At, Free
<1>8. ASSUME NEW r \in Runners, Deliver(r) PROVE Moves
  <2>1. Born(Entered([m[r] EXCEPT !.delivery = version[r]], "deliver"))
    BY <1>8 DEF Deliver, Born
  <2> QED
    BY <1>8, <2>1, TransitionMoves DEF Deliver, Free
<1>9. ASSUME NEW r \in Runners, Close(r) PROVE Moves
  <2>1. Born(Entered(m[r], "closed"))
    BY <1>9 DEF Close, At, Born
  <2> QED
    BY <1>9, <2>1, TransitionMoves DEF Close, At, Free
<1>10. ASSUME NEW r \in Runners, Refuse(r) PROVE Moves
  <2> DEFINE code == IF m[r].verification = "fail" THEN "gates_failed" ELSE "requires_approval"
  <2>1. Born(Failed(m[r], code))
    BY <1>10 DEF Refuse, At, Born, Codes
  <2> QED
    BY <1>10, <2>1 DEF TypeOK, Refuse, store, Moves
<1>11. ASSUME NEW r \in Runners, ListVersions(r) \/ MakeVersionDir(r) PROVE Moves
  BY <1>11 DEF ListVersions, MakeVersionDir, store, Moves
<1>12. ASSUME NEW r \in Runners, SaveOpens(r) PROVE Moves
  BY <1>12 DEF SaveOpens, Moves
<1>13. ASSUME NEW r \in Runners, SaveWrites(r) PROVE Moves
  BY <1>13 DEF SaveWrites, Written, Moves
<1>14. ASSUME NEW r \in Runners, SaveRenames(r) PROVE Moves
  <2>1. mode[r] = "try" => Born(Failed(base[r], "none"))
    BY <1>14 DEF SaveRenames, Born, Free
  <2>2. CASE tmp = Missing
    BY <1>14, <2>1, <2>2 DEF TypeOK, SaveRenames, Raise, Moves
  <2>3. CASE tmp # Missing
    BY <1>14, <2>3 DEF TypeOK, SaveRenames, AfterSave, Moves
  <2> QED
    BY <2>2, <2>3
<1>15. ASSUME NEW r \in Runners, Throws(r) PROVE Moves
  <2>1. mode[r] = "try" => Born(Failed(base[r], "none"))
    BY <1>15 DEF Throws, Born, Free
  <2> QED
    BY <1>15, <2>1 DEF TypeOK, Throws, Raise, Moves
<1>16. ASSUME NEW r \in Runners, Crash(r) PROVE Moves
  BY <1>16 DEF TypeOK, Crash, Moves, Born
<1> QED
  BY <1>1, <1>2, <1>3, <1>4, <1>5, <1>6, <1>7, <1>8, <1>9, <1>10, <1>11, <1>12, <1>13, <1>14, <1>15, <1>16
     DEF Next, Run

\* Only the delivery changes when a delivery is entered in a record.
LEMMA DeliveryPatch ==
  ASSUME NEW old \in Record, NEW n \in Nat
  PROVE  LET pat == [old EXCEPT !.delivery = n]
         IN /\ pat \in Record /\ pat.phase = old.phase /\ pat.history = old.history /\ pat.plan = old.plan
            /\ pat.execution = old.execution /\ pat.verification = old.verification /\ pat.delivery = n
            /\ pat.error = old.error
BY DEF Record

\* A record that a step makes is sound, and its verdict fresh when rollbacks go to
\* phases prior to the failure.
LEMMA BornSound ==
  ASSUME IndInv, NEW rec, Born(rec)
  PROVE  rec \in Record /\ Sound(rec) /\ (RollbackPolicy = "prior" => Fresh(rec))
<1>0. /\ TypeOK /\ Calls /\ Owned /\ \A old \in Recs : Sound(old) /\ (RollbackPolicy = "prior" => Fresh(old))
  BY DEF IndInv
<1>01. /\ \A q \in Runners : /\ m[q] \in Recs /\ base[q] \in Recs /\ m[q] \in Record /\ base[q] \in Record
       /\ Recs \subseteq Record
  BY <1>0, InRecs
<1> USE <1>0, <1>01
<1>1. CASE rec = NewRecord
  BY <1>1, NewSound
<1>2. ASSUME NEW r \in Runners, mode[r] = "try", ~Free(r), rec = Failed(base[r], "none")
      PROVE  rec \in Record /\ Sound(rec) /\ (RollbackPolicy = "prior" => Fresh(rec))
  BY <1>2, FailedSound DEF Calls, Codes
<1>3. ASSUME NEW r \in Runners, NEW code \in Codes, m[r].phase = "verify", rec = Failed(m[r], code)
      PROVE  rec \in Record /\ Sound(rec) /\ (RollbackPolicy = "prior" => Fresh(rec))
  BY <1>3, FailedSound
<1>4. ASSUME NEW old \in Recs \cap Record, NEW target \in Seen(old) \ {"error"}, old.phase = "error",
             target \in Picks(old), rec = RolledBack(old, target)
      PROVE  rec \in Record /\ Sound(rec) /\ (RollbackPolicy = "prior" => Fresh(rec))
  <2>1. RollbackPolicy = "prior" => Rank[target] <= Rank[old.error.atPhase]
    BY <1>4 DEF Picks
  <2> QED
    BY <1>4, <2>1, RolledBackSound
<1>5. ASSUME NEW r \in Runners, m[r].phase = "brief", rec = Entered([m[r] EXCEPT !.plan = TRUE], "plan")
      PROVE  rec \in Record /\ Sound(rec) /\ (RollbackPolicy = "prior" => Fresh(rec))
  <2> DEFINE pat == [m[r] EXCEPT !.plan = TRUE]
  <2>1. /\ pat \in Record /\ pat.phase = m[r].phase /\ pat.history = m[r].history /\ pat.plan
        /\ pat.execution = m[r].execution /\ pat.verification = m[r].verification
        /\ pat.delivery = m[r].delivery
    BY DEF Record
  <2> HIDE DEF pat
  <2>2. "plan" \in ALLOWED_FORWARD[m[r].phase] \ {"error"}
    BY <1>5 DEF ALLOWED_FORWARD
  <2>3. rec \in Record /\ Sound(rec)
    BY <1>5, <2>1, <2>2, ForwardSound DEF pat
  <2>4. rec.phase = "plan"
    BY <1>5, <2>1, EnteredFields DEF Phases, pat
  <2> QED
    BY <2>3, <2>4 DEF Fresh, Reached, Rank
<1>6. ASSUME NEW r \in Runners, NEW outcome \in Executions, m[r].phase = "plan",
             rec = Entered([m[r] EXCEPT !.execution = outcome], "execute")
      PROVE  rec \in Record /\ Sound(rec) /\ (RollbackPolicy = "prior" => Fresh(rec))
  <2> DEFINE pat == [m[r] EXCEPT !.execution = outcome]
  <2>1. /\ pat \in Record /\ pat.phase = m[r].phase /\ pat.history = m[r].history /\ pat.plan = m[r].plan
        /\ pat.execution = outcome /\ outcome # "none" /\ pat.verification = m[r].verification
        /\ pat.delivery = m[r].delivery
    BY DEF Record, Executions
  <2> HIDE DEF pat
  <2>2. "execute" \in ALLOWED_FORWARD[m[r].phase] \ {"error"}
    BY <1>6 DEF ALLOWED_FORWARD
  <2>3. rec \in Record /\ Sound(rec)
    BY <1>6, <2>1, <2>2, ForwardSound DEF pat
  <2>4. rec.phase = "execute"
    BY <1>6, <2>1, EnteredFields DEF Phases, pat
  <2> QED
    BY <2>3, <2>4 DEF Fresh, Reached, Rank
<1>7. ASSUME NEW r \in Runners, m[r].phase = "execute",
             rec = Entered([m[r] EXCEPT !.verification = runAll(m[r].execution)], "verify")
      PROVE  rec \in Record /\ Sound(rec) /\ (RollbackPolicy = "prior" => Fresh(rec))
  <2> DEFINE v == runAll(m[r].execution)
             pat == [m[r] EXCEPT !.verification = v]
  <2>1. v \in Overalls /\ v # "none" /\ (v = "pass" => m[r].execution = "clean")
    BY DEF runAll, Overalls
  <2> HIDE DEF v
  <2>2. /\ pat \in Record /\ pat.phase = m[r].phase /\ pat.history = m[r].history /\ pat.plan = m[r].plan
        /\ pat.execution = m[r].execution /\ pat.verification = v /\ pat.delivery = m[r].delivery
    BY <2>1 DEF Record
  <2> HIDE DEF pat
  <2>3. "verify" \in ALLOWED_FORWARD[m[r].phase] \ {"error"}
    BY <1>7 DEF ALLOWED_FORWARD
  <2>4. rec = Entered(pat, "verify")
    BY <1>7 DEF pat, v
  <2>5. rec \in Record /\ Sound(rec)
    BY <2>1, <2>2, <2>3, <2>4, ForwardSound
  <2>6. rec.phase = "verify" /\ rec.verification = v /\ rec.execution = m[r].execution
    BY <2>2, <2>4, EnteredFields DEF Phases
  <2> QED
    BY <2>1, <2>5, <2>6 DEF Fresh, Reached, Rank
<1>8. ASSUME NEW r \in Runners, stage[r] = "collect", rec = Entered([m[r] EXCEPT !.delivery = version[r]], "deliver")
      PROVE  rec \in Record /\ Sound(rec) /\ (RollbackPolicy = "prior" => Fresh(rec))
  <2> DEFINE pat == [m[r] EXCEPT !.delivery = version[r]]
  <2>1. version[r] \in Nat \ {0} /\ m[r].phase = "verify" /\ m[r].verification = "pass"
    BY <1>8, BoundAssumption DEF Owned, Calls
  <2>2. /\ pat \in Record /\ pat.phase = m[r].phase /\ pat.history = m[r].history /\ pat.plan = m[r].plan
        /\ pat.execution = m[r].execution /\ pat.verification = m[r].verification /\ pat.delivery = version[r]
    BY <2>1, DeliveryPatch
  <2> HIDE DEF pat
  <2>3. "deliver" \in ALLOWED_FORWARD[m[r].phase] \ {"error"}
    BY <2>1 DEF ALLOWED_FORWARD
  <2>4. rec = Entered(pat, "deliver")
    BY <1>8 DEF pat
  <2>5. rec \in Record /\ Sound(rec)
    BY <2>1, <2>2, <2>3, <2>4, ForwardSound
  <2>6. rec.phase = "deliver" /\ rec.verification = m[r].verification /\ rec.execution = m[r].execution
    BY <2>2, <2>4, EnteredFields DEF Phases
  <2> QED
    BY <2>1, <2>5, <2>6 DEF Fresh, Reached, Rank
<1>9. ASSUME NEW r \in Runners, m[r].phase = "deliver", rec = Entered(m[r], "closed")
      PROVE  rec \in Record /\ Sound(rec) /\ (RollbackPolicy = "prior" => Fresh(rec))
  <2>1. "closed" \in ALLOWED_FORWARD[m[r].phase] \ {"error"}
    BY <1>9 DEF ALLOWED_FORWARD
  <2>2. rec \in Record /\ Sound(rec)
    BY <1>9, <2>1, ForwardSound
  <2>3. rec.phase = "closed" /\ rec.verification = m[r].verification /\ rec.execution = m[r].execution
    BY <1>9, EnteredFields DEF Phases
  <2> QED
    BY <1>9, <2>2, <2>3 DEF Fresh, Reached, Rank
<1> QED
  BY <1>1, <1>2, <1>3, <1>4, <1>5, <1>6, <1>7, <1>8, <1>9 DEF Born

\* So the records in play stay sound, and their verdicts fresh.
LEMMA RecordsStep ==
  ASSUME IndInv, [Next]_vars
  PROVE  /\ \A rec \in Recs' : /\ rec \in Recs \/ Born(rec)
                               /\ rec \in Record /\ Sound(rec) /\ (RollbackPolicy = "prior" => Fresh(rec))
         /\ \A r \in Runners : m'[r] \in Record /\ base'[r] \in Record /\ out'[r] \in Record
         /\ disk' \in File /\ tmp' \in File
<1>1. TypeOK /\ Moves /\ \A rec \in Recs : Sound(rec) /\ (RollbackPolicy = "prior" => Fresh(rec))
  BY Provenance DEF IndInv
<1>2. Recs \subseteq Record /\ Born(NewRecord)
  BY <1>1, InRecs DEF Born
<1>3. \A rec \in Recs' : rec \in Recs \/ Born(rec)
  BY <1>1, <1>2, FileAssumption DEF Moves, Recs
<1>4. \A rec : Born(rec) => rec \in Record /\ Sound(rec) /\ (RollbackPolicy = "prior" => Fresh(rec))
  BY BornSound
<1> QED
  BY <1>1, <1>2, <1>3, <1>4 DEF Moves, File

-----------------------------------------------------------------------------
(* Types, calls and directories *)

\* The type invariant is preserved by every step.
LEMMA TypeStep ==
  ASSUME IndInv, [Next]_vars
  PROVE  TypeOK'
<1>0. TypeOK /\ Owned
  BY DEF IndInv
<1>1. \A r \in Runners : m'[r] \in Record /\ base'[r] \in Record /\ out'[r] \in Record
  BY RecordsStep
<1>2. disk' \in File /\ tmp' \in File
  BY RecordsStep
<1> DEFINE Fcn(f) == f = [r \in Runners |-> f[r]]
           Rest == /\ Fcn(m') /\ Fcn(base') /\ Fcn(out')
                   /\ fd' \in [Runners -> {"none", "tmp", "disk", "gone"}]
                   /\ stage' \in [Runners -> Stage] /\ mode' \in [Runners -> Mode]
                   /\ version' \in [Runners -> Nat]
                   /\ dirs' \in [1..MaxVersions -> {"absent", "partial", "complete"}]
                   /\ approved' \in BOOLEAN /\ wasApproved' \in [Runners -> BOOLEAN]
                   /\ crashes' \in 0..MaxCrashes /\ throws' \in 0..MaxThrows
<1> USE <1>0 DEF TypeOK, Stage, Mode
<1>3. CASE UNCHANGED vars \/ HumanApproves
  BY <1>3 DEF vars, HumanApproves, store, local, faults
<1>4. ASSUME NEW r \in Runners, RunFromBrief(r) PROVE Rest
  BY <1>4 DEF RunFromBrief, store, faults
<1>5. ASSUME NEW r \in Runners, Resume(r) PROVE Rest
  BY <1>5 DEF Resume, store, faults
<1>6. ASSUME NEW r \in Runners, NEW target \in Phases, Rollback(r, target) PROVE Rest
  BY <1>6 DEF Rollback, store, faults
<1>7. ASSUME NEW r \in Runners, NEW patched, NEW next, Transition(r, patched, next), UNCHANGED version,
             dirs' \in [1..MaxVersions -> {"absent", "partial", "complete"}]
      PROVE  Rest
  <2>1. /\ UNCHANGED <<fd, m, base, wasApproved, approved, crashes, throws>>
        /\ Fcn(m) /\ Fcn(base)
    BY <1>7, TransitionShape
  <2>2. /\ out' = out \/ \E rec : out' = [out EXCEPT ![r] = rec]
        /\ stage' = [stage EXCEPT ![r] = "open"] \/ stage' = [stage EXCEPT ![r] = "threw"]
        /\ mode' = mode \/ mode' = [mode EXCEPT ![r] = "catch"]
    BY <1>7, TransitionShape
  <2>3. stage' \in [Runners -> Stage] /\ mode' \in [Runners -> Mode]
    BY <2>2
  <2>4. CASE out' = out
    BY <2>4, <1>7, <2>1, <2>3
  <2>5. ASSUME NEW rec, out' = [out EXCEPT ![r] = rec] PROVE Fcn(out')
    BY <2>5
  <2> QED
    BY <1>7, <2>1, <2>2, <2>3, <2>4, <2>5
<1>8. ASSUME NEW r \in Runners, Deliver(r) PROVE Rest
  BY <1>7, <1>8 DEF Deliver
<1>9. ASSUME NEW r \in Runners, Plan(r) \/ (\E o \in Executions : Execute(r, o)) \/ Verify(r) \/ Close(r)
      PROVE  Rest
  BY <1>7, <1>9 DEF Plan, Execute, Verify, Close
<1>10. ASSUME NEW r \in Runners, Refuse(r) PROVE Rest
  BY <1>10 DEF Refuse, store, faults
<1>11. ASSUME NEW r \in Runners, ListVersions(r) PROVE Rest
  BY <1>11, BoundAssumption DEF ListVersions, store, faults
<1>12. ASSUME NEW r \in Runners, MakeVersionDir(r) PROVE Rest
  <2>1. CASE dirs[version[r]] = "absent"
    <3>1. dirs' = [dirs EXCEPT ![version[r]] = "partial"] /\ stage' = [stage EXCEPT ![r] = "collect"]
      BY <1>12, <2>1 DEF MakeVersionDir
    <3> QED
      BY <1>12, <2>1, <3>1 DEF MakeVersionDir, store, faults
  <2>2. CASE dirs[version[r]] # "absent"
    <3>1. version' = [version EXCEPT ![r] = version[r] + 1] /\ version[r] + 1 \in Nat
      BY <1>12, <2>2 DEF MakeVersionDir
    <3>2. version' \in [Runners -> Nat]
      BY <3>1
    <3> QED
      BY <1>12, <2>2, <3>2 DEF MakeVersionDir, store, faults
  <2> QED
    BY <2>1, <2>2
<1>13. ASSUME NEW r \in Runners, SaveOpens(r) \/ SaveWrites(r) PROVE Rest
  <2>1. CASE SaveOpens(r)
    BY <2>1 DEF SaveOpens, faults
  <2>2. CASE SaveWrites(r)
    BY <2>2 DEF SaveWrites, faults
  <2> QED
    BY <1>13, <2>1, <2>2
<1>14. ASSUME NEW r \in Runners, SaveRenames(r) PROVE Rest
  <2>1. stage' \in [Runners -> Stage] /\ mode' \in [Runners -> Mode]
    <3>1. CASE tmp = Missing
      BY <1>14, <3>1 DEF SaveRenames, Raise
    <3>2. CASE tmp # Missing
      BY <1>14, <3>2 DEF SaveRenames, AfterSave
    <3> QED
      BY <3>1, <3>2
  <2>2. fd' \in [Runners -> {"none", "tmp", "disk", "gone"}]
    BY <1>14 DEF SaveRenames
  <2>3. Fcn(m') /\ Fcn(base') /\ Fcn(out')
    BY <1>14 DEF SaveRenames, AfterSave, Raise
  <2> QED
    BY <1>14, <2>1, <2>2, <2>3 DEF SaveRenames, faults
<1>15. ASSUME NEW r \in Runners, Throws(r) PROVE Rest
  <2>1. stage' \in [Runners -> Stage] /\ mode' \in [Runners -> Mode] /\ Fcn(out')
    BY <1>15 DEF Throws, Raise
  <2>2. throws' \in 0..MaxThrows
    BY <1>15, BoundAssumption DEF Throws
  <2> QED
    BY <1>15, <2>1, <2>2 DEF Throws
<1>16. ASSUME NEW r \in Runners, Crash(r) PROVE Rest
  <2>1. crashes' \in 0..MaxCrashes
    BY <1>16, BoundAssumption DEF Crash
  <2>2. Fcn(m') /\ Fcn(base') /\ Fcn(out')
    BY <1>16 DEF Crash
  <2> QED
    BY <1>16, <2>1, <2>2 DEF Crash
<1>17. Rest
  BY <1>3, <1>4, <1>5, <1>6, <1>8, <1>9, <1>10, <1>11, <1>12, <1>13, <1>14, <1>15, <1>16 DEF Next, Run
<1> QED
  BY <1>1, <1>2, <1>17

\* What a call holds goes with where it stands.
LEMMA CallsStep ==
  ASSUME IndInv, [Next]_vars
  PROVE  Calls'
<1>0. TypeOK /\ Calls
  BY DEF IndInv
<1> USE <1>0
<1>1. CASE UNCHANGED vars \/ HumanApproves
  BY <1>1 DEF vars, HumanApproves, local, Calls, Free
<1>2. ASSUME NEW r \in Runners, RunFromBrief(r) PROVE Calls'
  BY <1>2 DEF TypeOK, RunFromBrief, Calls, Free
<1>3. ASSUME NEW r \in Runners, Resume(r) PROVE Calls'
  BY <1>3 DEF TypeOK, Resume, Calls, Free
<1>4. ASSUME NEW r \in Runners, NEW target \in Phases, Rollback(r, target) PROVE Calls'
  BY <1>4 DEF TypeOK, Rollback, Calls, Free
<1>5. ASSUME NEW r \in Runners, NEW patched, NEW next, Transition(r, patched, next), stage[r] \in {"work", "collect"}
      PROVE  Calls'
  <2>1. mode[r] # "create"
    BY <1>5 DEF Calls
  <2>2. ASSUME NEW q \in Runners
        PROVE  /\ mode'[q] = "create" => stage'[q] \in {"idle", "open", "write", "rename", "threw"} /\ out'[q] = NewRecord
               /\ mode'[q] = "try" /\ ~Free(q)' => base'[q].phase \notin {"closed", "error"}
               /\ stage'[q] \in {"mkdir", "collect"} => m'[q].phase = "verify" /\ m'[q].verification = "pass"
    <3>1. /\ UNCHANGED <<m, base>>
          /\ q # r => mode'[q] = mode[q] /\ stage'[q] = stage[q] /\ out'[q] = out[q]
          /\ mode'[r] # "create" /\ stage'[r] \in {"open", "threw"} /\ (mode'[r] = "try" => mode[r] = "try")
      BY <1>5, <2>1, TransitionShape DEF TypeOK
    <3> QED
      BY <1>5, <3>1 DEF Calls, Free
  <2> QED
    BY <2>2 DEF Calls
<1>6. ASSUME NEW r \in Runners, Refuse(r) PROVE Calls'
  BY <1>6 DEF TypeOK, Refuse, At, Calls, Free
<1>7. ASSUME NEW r \in Runners, ListVersions(r) PROVE Calls'
  BY <1>7 DEF TypeOK, ListVersions, At, Calls, Free
<1>8. ASSUME NEW r \in Runners, MakeVersionDir(r) PROVE Calls'
  BY <1>8 DEF TypeOK, MakeVersionDir, Calls, Free
<1>9. ASSUME NEW r \in Runners, SaveOpens(r) \/ SaveWrites(r) PROVE Calls'
  BY <1>9 DEF TypeOK, SaveOpens, SaveWrites, Calls, Free
<1>10. ASSUME NEW r \in Runners, SaveRenames(r) PROVE Calls'
  <2>1. NewRecord.phase = "brief"
    BY DEF NewRecord
  <2>2. ASSUME NEW q \in Runners
        PROVE  /\ mode'[q] = "create" => stage'[q] \in {"idle", "open", "write", "rename", "threw"} /\ out'[q] = NewRecord
               /\ mode'[q] = "try" /\ ~Free(q)' => base'[q].phase \notin {"closed", "error"}
               /\ stage'[q] \in {"mkdir", "collect"} => m'[q].phase = "verify" /\ m'[q].verification = "pass"
    <3>1. CASE tmp = Missing
      BY <1>10, <3>1 DEF TypeOK, SaveRenames, Raise, Calls, Free
    <3>2. CASE tmp # Missing
      <4>1. stage[r] = "rename" /\ out' = out /\ AfterSave(r)
        BY <1>10, <3>2 DEF SaveRenames
      <4>2. CASE q = r
        BY <2>1, <4>1, <4>2 DEF TypeOK, AfterSave, Calls, Free
      <4>3. CASE q # r
        <5>1. m'[q] = m[q] /\ base'[q] = base[q] /\ mode'[q] = mode[q] /\ stage'[q] = stage[q]
          BY <4>1, <4>3 DEF TypeOK, AfterSave
        <5> QED
          BY <4>1, <5>1 DEF Calls, Free
      <4> QED
        BY <4>2, <4>3
    <3> QED
      BY <3>1, <3>2
  <2> QED
    BY <2>2 DEF Calls
<1>11. ASSUME NEW r \in Runners, Throws(r) PROVE Calls'
  BY <1>11 DEF TypeOK, Throws, Raise, Calls, Free
<1>12. ASSUME NEW r \in Runners, Crash(r) PROVE Calls'
  BY <1>12 DEF TypeOK, Crash, Calls, Free
<1> QED
  BY <1>1, <1>2, <1>3, <1>4, <1>5, <1>6, <1>7, <1>8, <1>9, <1>10, <1>11, <1>12
     DEF Next, Run, Plan, Execute, Verify, Deliver, Close, At

\* No step takes a directory from the runner that fills it, and a complete one is left
\* alone.
LEMMA OwnedStep ==
  ASSUME IndInv, [Next]_vars
  PROVE  Owned' /\ \A v \in 1..MaxVersions : dirs[v] = "complete" => dirs'[v] = "complete"
<1>0. TypeOK /\ Owned
  BY DEF IndInv
<1> USE <1>0
<1> DEFINE Goal == Owned' /\ \A v \in 1..MaxVersions : dirs[v] = "complete" => dirs'[v] = "complete"
           NoMove == /\ UNCHANGED dirs
                     /\ \A q \in Runners : stage'[q] = "collect" => stage[q] = "collect" /\ version'[q] = version[q]
<1>1. ASSUME NoMove PROVE Goal
  BY <1>1 DEF Owned
<1>2. CASE UNCHANGED vars \/ HumanApproves
  BY <1>1, <1>2 DEF vars, HumanApproves, local
<1>3. ASSUME NEW r \in Runners, RunFromBrief(r) \/ Resume(r) \/ (\E target \in Phases : Rollback(r, target)) PROVE Goal
  <2>1. NoMove
    BY <1>3 DEF TypeOK, RunFromBrief, Resume, Rollback
  <2> QED
    BY <1>1, <2>1
<1>4. ASSUME NEW r \in Runners, Refuse(r) \/ ListVersions(r) \/ SaveOpens(r) \/ SaveWrites(r) PROVE Goal
  <2>1. NoMove
    BY <1>4 DEF TypeOK, Refuse, ListVersions, SaveOpens, SaveWrites
  <2> QED
    BY <1>1, <2>1
<1>5. ASSUME NEW r \in Runners, SaveRenames(r) \/ Throws(r) \/ Crash(r) PROVE Goal
  <2>1. NoMove
    <3>1. CASE SaveRenames(r)
      BY <3>1 DEF TypeOK, SaveRenames, AfterSave, Raise
    <3>2. CASE Throws(r)
      BY <3>2 DEF TypeOK, Throws, Raise
    <3>3. CASE Crash(r)
      BY <3>3 DEF TypeOK, Crash
    <3> QED
      BY <1>5, <3>1, <3>2, <3>3
  <2> QED
    BY <1>1, <2>1
<1>6. ASSUME NEW r \in Runners, Plan(r) \/ (\E o \in Executions : Execute(r, o)) \/ Verify(r) \/ Close(r)
      PROVE  Goal
  <2>1. UNCHANGED <<dirs, version>> /\ \E patched, next : Transition(r, patched, next)
    BY <1>6 DEF Plan, Execute, Verify, Close
  <2>2. NoMove
    BY <2>1, TransitionShape DEF TypeOK
  <2> QED
    BY <1>1, <2>2
<1>7. ASSUME NEW r \in Runners, Deliver(r) PROVE Goal
  <2>1. stage[r] = "collect" /\ dirs' = [dirs EXCEPT ![version[r]] = "complete"] /\ UNCHANGED version
    BY <1>7 DEF Deliver
  <2>2. \A q \in Runners : stage'[q] = "collect" => q # r /\ stage[q] = "collect"
    BY <1>7, TransitionShape DEF TypeOK, Deliver
  <2> QED
    BY <2>1, <2>2 DEF TypeOK, Owned
<1>8. ASSUME NEW r \in Runners, MakeVersionDir(r) PROVE Goal
  <2>1. CASE dirs[version[r]] = "absent"
    <3>1. /\ dirs' = [dirs EXCEPT ![version[r]] = "partial"] /\ stage' = [stage EXCEPT ![r] = "collect"]
          /\ UNCHANGED version /\ version[r] \in 1..MaxVersions
      BY <1>8, <2>1 DEF MakeVersionDir
    <3> QED
      BY <2>1, <3>1 DEF TypeOK, Owned
  <2>2. CASE dirs[version[r]] # "absent"
    <3>1. NoMove
      BY <1>8, <2>2 DEF TypeOK, MakeVersionDir
    <3> QED
      BY <1>1, <3>1
  <2> QED
    BY <2>1, <2>2
<1> QED
  BY <1>2, <1>3, <1>4, <1>5, <1>6, <1>7, <1>8 DEF Next, Run

\* The payload a phase adds makes a record of its local one; only the last phase
\* touches the delivery.
LEMMA PatchedDelivery ==
  ASSUME NEW old \in Record
  PROVE  /\ [old EXCEPT !.plan = TRUE] \in Record /\ [old EXCEPT !.plan = TRUE].delivery = old.delivery
         /\ \A e \in Executions : /\ [old EXCEPT !.execution = e] \in Record
                                  /\ [old EXCEPT !.execution = e].delivery = old.delivery
         /\ \A v \in Overalls : /\ [old EXCEPT !.verification = v] \in Record
                                /\ [old EXCEPT !.verification = v].delivery = old.delivery
         /\ \A n \in Nat : [old EXCEPT !.delivery = n] \in Record /\ [old EXCEPT !.delivery = n].delivery = n
<1>1. [old EXCEPT !.plan = TRUE] \in Record /\ [old EXCEPT !.plan = TRUE].delivery = old.delivery
  BY DEF Record
<1>2. ASSUME NEW e \in Executions
      PROVE  [old EXCEPT !.execution = e] \in Record /\ [old EXCEPT !.execution = e].delivery = old.delivery
  BY DEF Record
<1>3. ASSUME NEW v \in Overalls
      PROVE  [old EXCEPT !.verification = v] \in Record /\ [old EXCEPT !.verification = v].delivery = old.delivery
  BY DEF Record
<1>4. ASSUME NEW n \in Nat
      PROVE  [old EXCEPT !.delivery = n] \in Record /\ [old EXCEPT !.delivery = n].delivery = n
  BY DEF Record
<1> QED
  BY <1>1, <1>2, <1>3, <1>4

\* Whatever record mentions a delivery, its directory is complete.
LEMMA DeliveredStep ==
  ASSUME IndInv, [Next]_vars, NEW rec \in Recs'
  PROVE  Delivered(rec)'
<1>0. TypeOK /\ Owned /\ \A old \in Recs : Delivered(old)
  BY DEF IndInv
<1>1. \A v \in 1..MaxVersions : dirs[v] = "complete" => dirs'[v] = "complete"
  BY OwnedStep
<1>2. ASSUME NEW old \in Recs, rec.delivery = old.delivery PROVE Delivered(rec)'
  BY <1>0, <1>1, <1>2 DEF Delivered
<1>3. \A q \in Runners : m[q] \in Recs /\ base[q] \in Recs /\ m[q] \in Record /\ base[q] \in Record
  BY <1>0, InRecs
<1>4. CASE Born(rec)
  <2>1. CASE rec = NewRecord
    BY <2>1 DEF NewRecord, Delivered
  <2>2. ASSUME NEW r \in Runners, rec = Failed(base[r], "none") PROVE Delivered(rec)'
    BY <1>2, <1>3, <2>2, FailedFields DEF Codes
  <2>3. ASSUME NEW r \in Runners, NEW code \in Codes, rec = Failed(m[r], code) PROVE Delivered(rec)'
    BY <1>2, <1>3, <2>3, FailedFields
  <2>4. ASSUME NEW old \in Recs \cap Record, NEW target \in Seen(old) \ {"error"}, rec = RolledBack(old, target)
        PROVE  Delivered(rec)'
    <3>1. target \in Phases
      BY DEF Seen, Record
    <3> QED
      BY <1>2, <2>4, <3>1, RolledBackFields
  <2>5. ASSUME NEW r \in Runners, NEW pat \in Record, pat.delivery = m[r].delivery, NEW next \in Phases,
               rec = Entered(pat, next)
        PROVE  Delivered(rec)'
    BY <1>2, <1>3, <2>5, EnteredFields
  <2>6. ASSUME NEW r \in Runners, rec = Entered([m[r] EXCEPT !.plan = TRUE], "plan") PROVE Delivered(rec)'
    <3> DEFINE pat == [m[r] EXCEPT !.plan = TRUE]
    <3>1. pat \in Record /\ pat.delivery = m[r].delivery
      BY <1>3, PatchedDelivery
    <3>2. rec = Entered(pat, "plan") /\ "plan" \in Phases
      BY <2>6 DEF Phases
    <3> HIDE DEF pat
    <3> QED
      BY <2>5, <3>1, <3>2
  <2>7. ASSUME NEW r \in Runners, NEW outcome \in Executions, rec = Entered([m[r] EXCEPT !.execution = outcome], "execute")
        PROVE  Delivered(rec)'
    <3> DEFINE pat == [m[r] EXCEPT !.execution = outcome]
    <3>1. pat \in Record /\ pat.delivery = m[r].delivery
      BY <1>3, PatchedDelivery
    <3>2. rec = Entered(pat, "execute") /\ "execute" \in Phases
      BY <2>7 DEF Phases
    <3> HIDE DEF pat
    <3> QED
      BY <2>5, <3>1, <3>2
  <2>8. ASSUME NEW r \in Runners, rec = Entered([m[r] EXCEPT !.verification = runAll(m[r].execution)], "verify")
        PROVE  Delivered(rec)'
    <3> DEFINE v == runAll(m[r].execution)
               pat == [m[r] EXCEPT !.verification = v]
    <3>1. v \in Overalls
      BY DEF runAll, Overalls
    <3>2. rec = Entered(pat, "verify") /\ "verify" \in Phases
      BY <2>8 DEF Phases
    <3> HIDE DEF v
    <3>3. pat \in Record /\ pat.delivery = m[r].delivery
      BY <1>3, <3>1, PatchedDelivery
    <3> HIDE DEF pat
    <3> QED
      BY <2>5, <3>2, <3>3
  <2>9. ASSUME NEW r \in Runners, stage[r] = "collect", dirs' = [dirs EXCEPT ![version[r]] = "complete"],
               rec = Entered([m[r] EXCEPT !.delivery = version[r]], "deliver")
        PROVE  Delivered(rec)'
    <3> DEFINE pat == [m[r] EXCEPT !.delivery = version[r]]
    <3>0. version[r] \in Nat
      BY <1>0 DEF TypeOK
    <3>1. pat \in Record /\ pat.delivery = version[r]
      BY <1>3, <3>0, PatchedDelivery
    <3> HIDE DEF pat
    <3>2. rec.delivery = version[r]
      BY <2>9, <3>1, EnteredFields DEF pat, Phases
    <3> QED
      BY <1>0, <2>9, <3>2 DEF TypeOK, Owned, Delivered
  <2>10. ASSUME NEW r \in Runners, rec = Entered(m[r], "closed") PROVE Delivered(rec)'
    BY <1>3, <2>5, <2>10 DEF Phases
  <2> QED
    BY <1>4, <2>1, <2>2, <2>3, <2>4, <2>6, <2>7, <2>8, <2>9, <2>10 DEF Born
<1> QED
  BY <1>2, <1>4, RecordsStep

-----------------------------------------------------------------------------
(* Theorems *)

\* IndInv is an inductive invariant of the mission runner.
THEOREM Inductive == Spec => []IndInv
<1>1. Init => IndInv
  <2> SUFFICES ASSUME Init PROVE IndInv
    OBVIOUS
  <2>1. TypeOK
    BY NewSound, BoundAssumption DEF Init, TypeOK, File, Stage, Mode
  <2>2. Recs \subseteq {NewRecord}
    BY FileAssumption DEF Init, Recs
  <2>3. Calls /\ Owned
    BY DEF Init, Calls, Owned, Free
  <2>4. Delivered(NewRecord)
    BY DEF NewRecord, Delivered
  <2> QED
    BY <2>1, <2>2, <2>3, <2>4, NewSound DEF IndInv
<1>2. IndInv /\ [Next]_vars => IndInv'
  <2> SUFFICES ASSUME IndInv, [Next]_vars PROVE IndInv'
    OBVIOUS
  <2>1. \A rec \in Recs' : Sound(rec) /\ (RollbackPolicy = "prior" => Fresh(rec))
    BY RecordsStep
  <2>2. \A rec \in Recs' : Delivered(rec)'
    BY DeliveredStep
  <2>3. TypeOK' /\ Calls' /\ Owned'
    BY TypeStep, CallsStep, OwnedStep
  <2> QED
    BY <2>1, <2>2, <2>3 DEF IndInv
<1> QED
  BY <1>1, <1>2, PTL DEF Spec

\* The state is well-typed.
THEOREM WellTyped == Spec => []TypeOK
<1>1. IndInv => TypeOK
  BY DEF IndInv
<1> QED
  BY Inductive, <1>1, PTL

\* The persisted mission is one the documented diagram allows, with the payloads of
\* every phase it went through, and any of these can be rolled back to: for any number
\* of runners that overwrite each other, crash and fail, and whatever the operator picks.
THEOREM MissionStaysSound == Spec => []MissionSound
<1>1. IndInv => MissionSound
  <2> SUFFICES ASSUME IndInv, disk \in Record PROVE MissionSound
    BY DEF MissionSound
  <2>1. Sound(disk)
    BY InRecs DEF IndInv
  <2>2. ASSUME NEW p \in Seen(disk) \ {"error"} PROVE validateRecord(RolledBack(disk, p))
    <3>0. p \in Phases
      BY DEF Seen, Record
    <3>1. /\ RolledBack(disk, p).phase = p /\ RolledBack(disk, p).plan = disk.plan
          /\ RolledBack(disk, p).execution = disk.execution /\ RolledBack(disk, p).delivery = disk.delivery
          /\ RolledBack(disk, p).verification = disk.verification
      BY <3>0, RolledBackFields
    <3>2. /\ Rank[p] >= Rank["plan"]    => disk.plan
          /\ Rank[p] >= Rank["execute"] => disk.execution # "none"
          /\ Rank[p] >= Rank["verify"]  => disk.verification # "none"
          /\ Rank[p] >= Rank["deliver"] => disk.delivery # 0
      BY <2>1 DEF Sound, PayloadSound
    <3> QED
      BY <2>2, <3>0, <3>1, <3>2 DEF validateRecord, Rank, Phases
  <2> QED
    BY <2>1, <2>2 DEF MissionSound, Sound
<1> QED
  BY Inductive, <1>1, PTL

\* A record that mentions a delivery names a complete directory, and no two runners
\* ever fill the same one.
THEOREM DeliveriesStayIntact == Spec => []DeliveryIntact
<1>1. IndInv => DeliveryIntact
  <2> SUFFICES ASSUME IndInv PROVE DeliveryIntact
    OBVIOUS
  <2>1. Owned /\ (disk \in Record => Delivered(disk))
    BY InRecs DEF IndInv
  <2> QED
    BY <2>1 DEF DeliveryIntact, Owned, Delivered
<1> QED
  BY Inductive, <1>1, PTL

\* As long as the operator rolls back to phases no later than the failure, a closed
\* mission holds a clean execution that was verified as such.
THEOREM ClosedStaysVerified ==
  ASSUME RollbackPolicy = "prior"
  PROVE  Spec => []ClosedIsVerified
<1>1. IndInv => ClosedIsVerified
  <2> SUFFICES ASSUME IndInv, disk \in Record, disk.phase = "closed"
               PROVE  disk.verification = "pass" /\ disk.execution = "clean"
    BY DEF ClosedIsVerified
  <2>1. Fresh(disk)
    BY InRecs DEF IndInv
  <2> QED
    BY <2>1 DEF Fresh, Reached, Rank
<1> QED
  BY Inductive, <1>1, PTL

-----------------------------------------------------------------------------
(* Approval *)

\* Only a failed mission has an error on record.
Cleared == \A rec \in Recs : rec.phase # "error" => rec.error = NoError

\* rec was refused for want of approval, or would be, by the verdict of a mission past
\* its gates that r's call found in the file.
Excused(r, rec) ==
  (rec.phase = "verify" /\ rec.verification = "require_approval") \/ rec.error.code = "requires_approval"
    => base[r].phase = "verify" /\ base[r].verification = "require_approval"

Saving == {"open", "write", "rename"}
Working == {"work", "mkdir", "collect"}

\* A call that began after the approval does not make a verdict that asks for it.
Granted(r) ==
  wasApproved[r] =>
    /\ approved
    /\ mode[r] = "try" /\ stage[r] \in Working => Excused(r, m[r])
    /\ mode[r] = "try" /\ stage[r] \in Saving => Excused(r, out[r])
    /\ mode[r] = "try" /\ stage[r] = "returned" => m[r] = base[r] \/ Excused(r, m[r])

ApprovalInv == Cleared /\ \A r \in Runners : Granted(r)

\* What a phase adds to the record leaves the rest of it alone: the plan.
LEMMA PlanPatched ==
  ASSUME NEW old \in Record
  PROVE  LET pat == [old EXCEPT !.plan = TRUE]
         IN /\ pat \in Record /\ pat.phase = old.phase /\ pat.history = old.history
            /\ pat.verification = old.verification /\ pat.error = old.error
BY DEF Record

\* The execution.
LEMMA ExecutionPatched ==
  ASSUME NEW old \in Record, NEW e \in Executions
  PROVE  LET pat == [old EXCEPT !.execution = e]
         IN /\ pat \in Record /\ pat.phase = old.phase /\ pat.history = old.history
            /\ pat.verification = old.verification /\ pat.error = old.error
BY DEF Record

\* The verdict of the gates.
LEMMA VerificationPatched ==
  ASSUME NEW old \in Record, NEW v \in Overalls
  PROVE  LET pat == [old EXCEPT !.verification = v]
         IN /\ pat \in Record /\ pat.phase = old.phase /\ pat.history = old.history
            /\ pat.verification = v /\ pat.error = old.error
BY DEF Record

\* The gates answer one of the three verdicts, and do not ask for an approval they have.
LEMMA GatesAnswer ==
  ASSUME NEW e
  PROVE  runAll(e) \in Overalls /\ (approved => runAll(e) # "require_approval")
BY DEF runAll, Overalls

\* A record leaves error by a rollback only, which clears the error.
LEMMA ClearedStep ==
  ASSUME IndInv, Cleared, [Next]_vars
  PROVE  Cleared'
<1>1. TypeOK
  BY DEF IndInv
<1>2. \A q \in Runners : m[q] \in Record /\ base[q] \in Record /\ m[q] \in Recs /\ version[q] \in Nat
  BY <1>1, InRecs DEF TypeOK
<1>4. ASSUME NEW rec, Born(rec), rec.phase # "error" PROVE rec.error = NoError
  <2>1. ASSUME NEW old \in Record, NEW code \in Codes, rec = Failed(old, code) PROVE FALSE
    BY <1>4, <2>1, FailedFields
  <2>2. ASSUME NEW old \in Recs \cap Record, NEW target \in Seen(old), rec = RolledBack(old, target)
        PROVE  rec.error = NoError
    <3>1. target \in Phases
      BY <2>2 DEF Seen, Record
    <3> QED
      BY <2>2, <3>1, RolledBackFields
  <2>3. ASSUME NEW r \in Runners, m[r].phase = "brief", rec = Entered([m[r] EXCEPT !.plan = TRUE], "plan")
        PROVE  rec.error = NoError
    <3> DEFINE pat == [m[r] EXCEPT !.plan = TRUE]
    <3>1. pat \in Record /\ pat.phase = "brief" /\ pat.error = m[r].error
      BY <1>2, <2>3, PlanPatched
    <3>2. m[r].error = NoError
      BY <1>2, <2>3 DEF Cleared
    <3> HIDE DEF pat
    <3>3. rec = Entered(pat, "plan") /\ "plan" \in Phases
      BY <2>3 DEF pat, Phases
    <3> QED
      BY <3>1, <3>2, <3>3, EnteredFields
  <2>4. ASSUME NEW r \in Runners, NEW outcome \in Executions, m[r].phase = "plan",
               rec = Entered([m[r] EXCEPT !.execution = outcome], "execute")
        PROVE  rec.error = NoError
    <3> DEFINE pat == [m[r] EXCEPT !.execution = outcome]
    <3>1. pat \in Record /\ pat.error = m[r].error
      BY <1>2, <2>4, ExecutionPatched
    <3>2. m[r].error = NoError
      BY <1>2, <2>4 DEF Cleared
    <3> HIDE DEF pat
    <3>3. rec = Entered(pat, "execute") /\ "execute" \in Phases
      BY <2>4 DEF pat, Phases
    <3> QED
      BY <3>1, <3>2, <3>3, EnteredFields
  <2>5. ASSUME NEW r \in Runners, m[r].phase = "execute",
               rec = Entered([m[r] EXCEPT !.verification = runAll(m[r].execution)], "verify")
        PROVE  rec.error = NoError
    <3> DEFINE v == runAll(m[r].execution)
               pat == [m[r] EXCEPT !.verification = v]
    <3>0. v \in Overalls
      BY GatesAnswer
    <3> HIDE DEF v
    <3>1. pat \in Record /\ pat.error = m[r].error
      BY <1>2, <3>0, VerificationPatched
    <3>2. m[r].error = NoError
      BY <1>2, <2>5 DEF Cleared
    <3> HIDE DEF pat
    <3>3. rec = Entered(pat, "verify") /\ "verify" \in Phases
      BY <2>5 DEF pat, v, Phases
    <3> QED
      BY <3>1, <3>2, <3>3, EnteredFields
  <2>6. ASSUME NEW r \in Runners, stage[r] = "collect",
               rec = Entered([m[r] EXCEPT !.delivery = version[r]], "deliver")
        PROVE  rec.error = NoError
    <3> DEFINE pat == [m[r] EXCEPT !.delivery = version[r]]
    <3>1. pat \in Record /\ pat.error = m[r].error
      BY <1>2, DeliveryPatch
    <3>2. m[r].error = NoError
      BY <1>2, <2>6 DEF Cleared, IndInv, Calls
    <3> HIDE DEF pat
    <3>3. rec = Entered(pat, "deliver") /\ "deliver" \in Phases
      BY <2>6 DEF pat, Phases
    <3> QED
      BY <3>1, <3>2, <3>3, EnteredFields
  <2>7. ASSUME NEW r \in Runners, m[r].phase = "deliver", rec = Entered(m[r], "closed")
        PROVE  rec.error = NoError
    <3>1. "closed" \in Phases /\ m[r].error = NoError
      BY <1>2, <2>7 DEF Cleared, Phases
    <3> QED
      BY <1>2, <2>7, <3>1, EnteredFields
  <2>8. NewRecord.error = NoError /\ "none" \in Codes
    BY DEF NewRecord, Codes
  <2> QED
    BY <1>2, <1>4, <2>1, <2>2, <2>3, <2>4, <2>5, <2>6, <2>7, <2>8 DEF Born
<1>5. \A rec \in Recs' : rec \in Recs \/ Born(rec)
  BY RecordsStep
<1> QED
  BY <1>4, <1>5 DEF Cleared

\* A call that a step does not touch keeps what it was granted.
LEMMA GrantedFrame ==
  ASSUME NEW q \in Runners, Granted(q), approved => approved', wasApproved'[q] = wasApproved[q],
         m'[q] = m[q], base'[q] = base[q], out'[q] = out[q], mode'[q] = mode[q], stage'[q] = stage[q]
  PROVE  Granted(q)'
BY DEF Granted, Excused

\* Failing the record that a call began with asks for nothing.
LEMMA RaiseGranted ==
  ASSUME TypeOK, NEW r \in Runners, Granted(r), Raise(r), approved' = approved, wasApproved' = wasApproved,
         base' = base, m' = m
  PROVE  \A q \in Runners : Granted(q) => Granted(q)'
<1>1. mode'[r] # "try" \/ stage'[r] = "threw"
  BY DEF Raise, TypeOK
<1>2. Granted(r)'
  BY <1>1 DEF Granted, Saving, Working
<1>3. ASSUME NEW q \in Runners, q # r, Granted(q) PROVE Granted(q)'
  <2>1. out'[q] = out[q] /\ mode'[q] = mode[q] /\ stage'[q] = stage[q]
    BY <1>3 DEF Raise, TypeOK
  <2> QED
    BY <1>3, <2>1, GrantedFrame
<1> QED
  BY <1>2, <1>3

\* A phase that ends in sm.transition saves the verdict it holds.
LEMMA TransitionGranted ==
  ASSUME TypeOK, NEW r \in Runners, Granted(r), stage[r] \in Working, NEW patched \in Record, NEW next \in Phases,
         Transition(r, patched, next), patched.error = m[r].error,
         next = "verify" => (approved => patched.verification # "require_approval")
  PROVE  \A q \in Runners : Granted(q) => Granted(q)'
<1>1. UNCHANGED <<m, base, wasApproved, approved>>
  BY DEF Transition
<1>2. CASE Raise(r)
  BY <1>1, <1>2, RaiseGranted
<1>3. CASE ~Raise(r)
  <2> DEFINE rec == Entered(patched, next)
  <2>1. rec.phase = next /\ rec.verification = patched.verification /\ rec.error = patched.error
    BY EnteredFields
  <2>2. out' = [out EXCEPT ![r] = rec] /\ stage' = [stage EXCEPT ![r] = "open"] /\ mode' = mode
    BY <1>3 DEF Transition
  <2> HIDE DEF rec
  <2>3. out'[r] = rec /\ stage'[r] = "open"
    BY <2>2 DEF TypeOK
  <2>4. wasApproved[r] /\ mode[r] = "try" => Excused(r, rec)
    BY <2>1 DEF Granted, Excused
  <2>5. Granted(r)'
    BY <1>1, <2>2, <2>3, <2>4 DEF Granted, Excused, Working, Saving
  <2>6. ASSUME NEW q \in Runners, q # r, Granted(q) PROVE Granted(q)'
    <3>1. out'[q] = out[q] /\ stage'[q] = stage[q]
      BY <2>2, <2>6 DEF TypeOK
    <3> QED
      BY <1>1, <2>2, <2>6, <3>1, GrantedFrame
  <2> QED
    BY <2>5, <2>6
<1> QED
  BY <1>2, <1>3

\* No step of a call that began after the approval makes it wait for one.
LEMMA GrantedStep ==
  ASSUME IndInv, ApprovalInv, [Next]_vars
  PROVE  \A q \in Runners : Granted(q)'
<1>0. TypeOK /\ Calls /\ Cleared /\ \A q \in Runners : Granted(q)
  BY DEF IndInv, ApprovalInv
<1>m. \A q \in Runners : m[q] \in Record /\ base[q] \in Record /\ out[q] \in Record /\ m[q] \in Recs
  BY <1>0, InRecs DEF TypeOK
<1>1. CASE UNCHANGED vars \/ HumanApproves
  <2>1. (approved => approved') /\ UNCHANGED <<m, base, out, mode, stage, wasApproved>>
    BY <1>1 DEF vars, HumanApproves, local
  <2> QED
    BY <1>0, <2>1, GrantedFrame
<1>2. ASSUME NEW r \in Runners, NEW q \in Runners, RunFromBrief(r) PROVE Granted(q)'
  <2>1. CASE q = r
    <3>1. mode'[r] = "create" /\ wasApproved'[r] = approved /\ approved' = approved
      BY <1>0, <1>2 DEF RunFromBrief, TypeOK
    <3> QED
      BY <2>1, <3>1 DEF Granted
  <2>2. CASE q # r
    <3>1. /\ UNCHANGED <<m, base, approved>>
          /\ wasApproved'[q] = wasApproved[q] /\ out'[q] = out[q] /\ mode'[q] = mode[q] /\ stage'[q] = stage[q]
      BY <1>0, <1>2, <2>2 DEF RunFromBrief, TypeOK
    <3> QED
      BY <1>0, <3>1, GrantedFrame
  <2> QED
    BY <2>1, <2>2
<1>3. ASSUME NEW r \in Runners, NEW q \in Runners, Resume(r) PROVE Granted(q)'
  <2>1. CASE q = r
    <3>1. /\ m'[r] = disk /\ base'[r] = disk /\ wasApproved'[r] = approved /\ approved' = approved
          /\ stage'[r] \in {"returned", "work"} /\ (stage'[r] = "work" => disk.phase # "error")
      BY <1>0, <1>3 DEF Resume, TypeOK
    <3>2. disk.phase # "error" => disk.error = NoError
      BY <1>0, <1>3, InRecs DEF Cleared, Resume
    <3>3. stage'[r] = "work" => Excused(r, m[r])'
      BY <3>1, <3>2 DEF Excused, NoError
    <3> QED
      BY <2>1, <3>1, <3>3 DEF Granted, Saving, Working
  <2>2. CASE q # r
    <3>1. /\ UNCHANGED <<out, approved>>
          /\ wasApproved'[q] = wasApproved[q] /\ m'[q] = m[q] /\ base'[q] = base[q]
          /\ mode'[q] = mode[q] /\ stage'[q] = stage[q]
      BY <1>0, <1>3, <2>2 DEF Resume, TypeOK
    <3> QED
      BY <1>0, <3>1, GrantedFrame
  <2> QED
    BY <2>1, <2>2
<1>4. ASSUME NEW r \in Runners, NEW target \in Phases, NEW q \in Runners, Rollback(r, target) PROVE Granted(q)'
  <2>1. UNCHANGED <<m, base, wasApproved, approved>>
    BY <1>4 DEF Rollback
  <2>2. CASE q = r
    <3>1. mode'[r] = "rollback"
      BY <1>0, <1>4 DEF Rollback, TypeOK
    <3> QED
      BY <1>0, <2>1, <2>2, <3>1 DEF Granted
  <2>3. CASE q # r
    <3>1. mode'[q] = mode[q] /\ stage'[q] = stage[q] /\ out'[q] = out[q]
      BY <1>0, <1>4, <2>3 DEF Rollback, TypeOK
    <3> QED
      BY <1>0, <2>1, <3>1, GrantedFrame
  <2> QED
    BY <2>2, <2>3
<1>5. ASSUME NEW r \in Runners, Plan(r) PROVE \A q \in Runners : Granted(q)'
  <2> DEFINE pat == [m[r] EXCEPT !.plan = TRUE]
  <2>1. pat \in Record /\ pat.verification = m[r].verification /\ pat.error = m[r].error
    BY <1>m, PlanPatched
  <2>2. PICK next : next = "plan"
    OBVIOUS
  <2>3. next \in Phases /\ next # "verify" /\ stage[r] \in Working /\ Transition(r, pat, next)
    BY <1>5, <2>2 DEF Plan, At, Phases, Working
  <2> HIDE DEF pat
  <2> QED
    BY <1>0, <2>1, <2>3, TransitionGranted
<1>6. ASSUME NEW r \in Runners, NEW outcome \in Executions, Execute(r, outcome) PROVE \A q \in Runners : Granted(q)'
  <2> DEFINE pat == [m[r] EXCEPT !.execution = outcome]
  <2>1. pat \in Record /\ pat.verification = m[r].verification /\ pat.error = m[r].error
    BY <1>m, ExecutionPatched
  <2>2. PICK next : next = "execute"
    OBVIOUS
  <2>3. next \in Phases /\ next # "verify" /\ stage[r] \in Working /\ Transition(r, pat, next)
    BY <1>6, <2>2 DEF Execute, At, Phases, Working
  <2> HIDE DEF pat
  <2> QED
    BY <1>0, <2>1, <2>3, TransitionGranted
<1>7. ASSUME NEW r \in Runners, Verify(r) PROVE \A q \in Runners : Granted(q)'
  <2> DEFINE v == runAll(m[r].execution)
             pat == [m[r] EXCEPT !.verification = v]
  <2>0. v \in Overalls /\ (approved => v # "require_approval")
    BY GatesAnswer
  <2>2. PICK next : next = "verify"
    OBVIOUS
  <2>3. next \in Phases /\ stage[r] \in Working /\ Transition(r, pat, next)
    BY <1>7, <2>2 DEF Verify, At, Phases, Working
  <2> HIDE DEF v
  <2>1. pat \in Record /\ pat.verification = v /\ pat.error = m[r].error
    BY <1>m, <2>0, VerificationPatched
  <2> HIDE DEF pat
  <2> QED
    BY <1>0, <2>0, <2>1, <2>3, TransitionGranted
<1>8. ASSUME NEW r \in Runners, Deliver(r) PROVE \A q \in Runners : Granted(q)'
  <2> DEFINE n == version[r]
             pat == [m[r] EXCEPT !.delivery = n]
  <2>0. n \in Nat
    BY <1>0 DEF TypeOK
  <2>2. PICK next : next = "deliver"
    OBVIOUS
  <2>3. next \in Phases /\ next # "verify" /\ stage[r] \in Working /\ Transition(r, pat, next)
    BY <1>8, <2>2 DEF Deliver, Phases, Working
  <2> HIDE DEF n
  <2>1. pat \in Record /\ pat.verification = m[r].verification /\ pat.error = m[r].error
    BY <1>m, <2>0, DeliveryPatch
  <2> HIDE DEF pat
  <2> QED
    BY <1>0, <2>1, <2>3, TransitionGranted
<1>9. ASSUME NEW r \in Runners, Close(r) PROVE \A q \in Runners : Granted(q)'
  <2>1. PICK next : next = "closed"
    OBVIOUS
  <2>2. next \in Phases /\ next # "verify" /\ stage[r] \in Working /\ Transition(r, m[r], next)
    BY <1>9, <2>1 DEF Close, At, Phases, Working
  <2> QED
    BY <1>0, <1>m, <2>2, TransitionGranted
<1>10. ASSUME NEW r \in Runners, NEW q \in Runners, Refuse(r) PROVE Granted(q)'
  <2>1. UNCHANGED <<m, base, mode, wasApproved, approved>> /\ stage' = [stage EXCEPT ![r] = "open"]
    BY <1>10 DEF Refuse
  <2>2. CASE q = r
    <3>1. PICK code \in Codes : /\ out' = [out EXCEPT ![r] = Failed(m[r], code)]
                                /\ code = "requires_approval" => m[r].phase = "verify" /\ m[r].verification = "require_approval"
      BY <1>10 DEF Refuse, At, Codes
    <3> DEFINE rec == Failed(m[r], code)
    <3>2. rec.phase = "error" /\ rec.error = [atPhase |-> m[r].phase, code |-> code]
      BY <1>m, FailedFields
    <3> HIDE DEF rec
    <3>3. rec.error.code = code
      BY <3>2
    <3>4. out'[r] = rec /\ stage'[r] = "open" /\ stage[r] \in Working
      BY <1>0, <1>10, <2>1, <3>1 DEF TypeOK, rec, Refuse, At, Working
    <3>5. wasApproved[r] /\ mode[r] = "try" => Excused(r, rec)
      BY <1>0, <3>1, <3>2, <3>3, <3>4 DEF Granted, Excused
    <3> QED
      BY <1>0, <2>1, <2>2, <3>4, <3>5 DEF Granted, Excused, Working, Saving
  <2>3. CASE q # r
    <3>1. out'[q] = out[q] /\ stage'[q] = stage[q]
      BY <1>0, <1>10, <2>1, <2>3 DEF Refuse, TypeOK
    <3> QED
      BY <1>0, <2>1, <3>1, GrantedFrame
  <2> QED
    BY <2>2, <2>3
<1>11. ASSUME NEW r \in Runners, NEW q \in Runners, ListVersions(r) \/ MakeVersionDir(r) PROVE Granted(q)'
  <2>1. UNCHANGED <<m, base, out, mode, wasApproved, approved>>
    BY <1>11 DEF ListVersions, MakeVersionDir
  <2>2. (stage[q] \in Working /\ stage'[q] \in Working) \/ stage'[q] = stage[q]
    BY <1>0, <1>11 DEF ListVersions, MakeVersionDir, At, TypeOK, Working
  <2> QED
    BY <1>0, <2>1, <2>2 DEF Granted, Excused, Working, Saving
<1>12. ASSUME NEW r \in Runners, NEW q \in Runners, SaveOpens(r) \/ SaveWrites(r) PROVE Granted(q)'
  <2>1. UNCHANGED <<m, base, out, mode, wasApproved, approved>>
    BY <1>12 DEF SaveOpens, SaveWrites
  <2>2. (stage[q] \in Saving /\ stage'[q] \in Saving) \/ stage'[q] = stage[q]
    BY <1>0, <1>12 DEF SaveOpens, SaveWrites, TypeOK, Saving
  <2> QED
    BY <1>0, <2>1, <2>2 DEF Granted, Excused, Working, Saving
<1>13. ASSUME NEW r \in Runners, SaveRenames(r) PROVE \A q \in Runners : Granted(q)'
  <2>1. UNCHANGED <<wasApproved, approved>>
    BY <1>13 DEF SaveRenames
  <2>2. CASE Raise(r) /\ UNCHANGED <<m, base>>
    BY <1>0, <2>1, <2>2, RaiseGranted
  <2>3. ASSUME AfterSave(r), UNCHANGED out, NEW q \in Runners PROVE Granted(q)'
    <3>1. CASE q # r
      <4>1. m'[q] = m[q] /\ base'[q] = base[q] /\ mode'[q] = mode[q] /\ stage'[q] = stage[q]
        BY <1>0, <2>3, <3>1 DEF AfterSave, TypeOK
      <4> QED
        BY <1>0, <2>1, <2>3, <4>1, GrantedFrame
    <3>2. CASE q = r /\ mode[r] = "create"
      <4>1. m'[r] = out[r] /\ base'[r] = out[r] /\ stage'[r] \in {"returned", "work"} /\ out[r] = NewRecord
        BY <1>0, <2>3, <3>2 DEF AfterSave, TypeOK, Calls
      <4>2. NewRecord.verification = "none" /\ NewRecord.error.code = "none"
        BY DEF NewRecord, NoError
      <4>3. Excused(r, m[r])'
        BY <4>1, <4>2 DEF Excused
      <4> QED
        BY <1>0, <2>1, <3>2, <4>1, <4>3 DEF Granted, Saving, Working
    <3>3. CASE q = r /\ mode[r] # "create"
      <4>1. /\ m'[r] = out[r] /\ base' = base /\ stage'[r] \in {"returned", "work"} /\ mode'[r] = mode[r]
            /\ stage[r] = "rename"
        BY <1>0, <1>13, <2>3, <3>3 DEF AfterSave, TypeOK, SaveRenames
      <4>2. wasApproved[r] /\ mode[r] = "try" => Excused(r, out[r])
        BY <1>0, <4>1 DEF Granted, Saving
      <4>3. wasApproved[r] /\ mode[r] = "try" => Excused(r, m[r])'
        BY <4>1, <4>2 DEF Excused
      <4> QED
        BY <1>0, <2>1, <3>3, <4>1, <4>3 DEF Granted, Saving, Working
    <3> QED
      BY <3>1, <3>2, <3>3
  <2> QED
    BY <1>13, <2>2, <2>3 DEF SaveRenames
<1>14. ASSUME NEW r \in Runners, Throws(r) PROVE \A q \in Runners : Granted(q)'
  <2>1. Raise(r) /\ UNCHANGED <<m, base, wasApproved, approved>>
    BY <1>14 DEF Throws
  <2> QED
    BY <1>0, <2>1, RaiseGranted
<1>15. ASSUME NEW r \in Runners, NEW q \in Runners, Crash(r) PROVE Granted(q)'
  <2>1. CASE q = r
    <3>1. stage'[r] = "idle" /\ UNCHANGED <<wasApproved, approved>>
      BY <1>0, <1>15 DEF Crash, TypeOK
    <3> QED
      BY <1>0, <2>1, <3>1 DEF Granted, Saving, Working
  <2>2. CASE q # r
    <3>1. /\ UNCHANGED <<mode, wasApproved, approved>>
          /\ m'[q] = m[q] /\ base'[q] = base[q] /\ out'[q] = out[q] /\ stage'[q] = stage[q]
      BY <1>0, <1>15, <2>2 DEF Crash, TypeOK
    <3> QED
      BY <1>0, <3>1, GrantedFrame
  <2> QED
    BY <2>1, <2>2
<1> QED
  BY <1>1, <1>2, <1>3, <1>4, <1>5, <1>6, <1>7, <1>8, <1>9, <1>10, <1>11, <1>12, <1>13, <1>14, <1>15 DEF Next, Run

\* The approval gate only refuses when approve() answers false: for any number of runners,
\* a run that began after the approval is refused for want of it only when the record was
\* already past its gates when the run began, with the verdict that asks for an approval.
THEOREM ApprovalIsHonoured == Spec => []ApprovalHonoured
<1>1. Init => ApprovalInv
  <2> SUFFICES ASSUME Init PROVE ApprovalInv
    OBVIOUS
  <2>1. Recs \subseteq {NewRecord}
    BY FileAssumption DEF Init, Recs
  <2>2. Cleared
    BY <2>1 DEF Cleared, NewRecord
  <2>3. \A r \in Runners : Granted(r)
    BY DEF Init, Granted
  <2> QED
    BY <2>2, <2>3 DEF ApprovalInv
<1>2. IndInv /\ ApprovalInv /\ [Next]_vars => ApprovalInv'
  BY ClearedStep, GrantedStep DEF ApprovalInv
<1>3. ApprovalInv => ApprovalHonoured
  BY DEF ApprovalInv, Granted, Excused, ApprovalHonoured
<1> QED
  BY Inductive, <1>1, <1>2, <1>3, PTL DEF Spec

-----------------------------------------------------------------------------
(* A runner that is alone with its mission *)

\* No other process or call works on the mission.
Alone == \A p, q \in Runners : p = q

\* The history of rec begins with that of old.
Prolongs(rec, old) ==
  /\ Len(old.history) <= Len(rec.history)
  /\ \A i \in 1..Len(old.history) : rec.history[i] = old.history[i]

\* A move of the documented diagram.
Moved(rec, old) ==
  \/ rec.phase \in ALLOWED_FORWARD[old.phase]
  \/ old.phase = "error" /\ rec.phase \in Seen(old)

\* A save prolongs the history in the file, save that of the catch clause: the record
\* its call began with, failed, of which the file is a continuation.
Keeps(r) ==
  \/ Prolongs(out[r], disk)
  \/ mode[r] = "catch" /\ out[r] = Failed(base[r], "none") /\ Prolongs(disk, base[r])

\* The state file is absent or readable, and the temporary file is complete when it is
\* renamed.
Readable(r) ==
  /\ disk \in Record \cup {Missing}
  /\ stage[r] = "write" => fd[r] = "tmp" /\ tmp = Empty
  /\ stage[r] = "rename" => tmp = out[r]

\* While a call works, and when it has answered, its record is the one in the file.
Current(r) == stage[r] \in Working \cup {"returned"} => disk = m[r]

\* What a call saves may follow what the file holds.
Onward(r) == stage[r] \in Saving /\ disk \in Record => Moved(out[r], disk) /\ Keeps(r)

\* The file is in a phase that a call runs, and begins with the history that the call
\* found there, so that the catch clause can fail the record it holds.
Begun(r) ==
  mode[r] = "try" =>
    /\ stage[r] \in Working \cup Saving =>
         disk \in Record /\ disk.phase \notin {"closed", "error"} /\ Prolongs(disk, base[r])
    /\ stage[r] \in Saving => Prolongs(out[r], base[r])

SoloInv == \A r \in Runners : Readable(r) /\ Current(r) /\ Onward(r) /\ Begun(r)

\* A record that enters a phase prolongs the history.
LEMMA EnteredProlongs ==
  ASSUME NEW rec \in Record, NEW old \in Record, NEW next \in Phases, rec.history = Append(old.history, next)
  PROVE  Prolongs(rec, old)
<1> DEFINE h == old.history
           g == rec.history
<1>1. h \in Seq(Phases) /\ g = Append(h, next)
  BY DEF Record
<1>2. Len(h) \in Nat /\ Len(g) = Len(h) + 1 /\ \A i \in 1..Len(h) : g[i] = h[i]
  BY <1>1
<1> HIDE DEF h, g
<1>3. Len(h) <= Len(g)
  BY <1>2
<1> QED
  BY <1>2, <1>3 DEF Prolongs, h, g

\* A history that was prolonged twice was prolonged.
LEMMA ProlongsTransitive ==
  ASSUME NEW rec \in Record, NEW old \in Record, NEW first \in Record, Prolongs(rec, old), Prolongs(old, first)
  PROVE  Prolongs(rec, first)
<1>1. Len(rec.history) \in Nat /\ Len(old.history) \in Nat /\ Len(first.history) \in Nat
  BY DEF Record
<1> QED
  BY <1>1 DEF Prolongs

\* Failing the record a call began with is a move from where the file has got to.
LEMMA FailedFollows ==
  ASSUME NEW first \in Record, NEW old \in Record, NEW code \in Codes, old.phase \notin {"closed", "error"}
  PROVE  Moved(Failed(first, code), old)
<1>1. Failed(first, code).phase = "error"
  BY FailedFields
<1> QED
  BY <1>1 DEF Moved, ALLOWED_FORWARD, Record, Phases

\* An exception leaves the invariant alone: the catch clause may save what it holds.
LEMMA RaiseSolo ==
  ASSUME TypeOK, NEW r \in Runners, Alone, SoloInv, Raise(r), stage[r] \in Working \cup Saving,
         UNCHANGED <<disk, m, base>>
  PROVE  SoloInv'
<1>0. /\ disk \in Record \cup {Missing} /\ Begun(r) /\ base[r] \in Record
  BY DEF SoloInv, Readable, TypeOK
<1>1. CASE mode[r] = "try"
  <2>1. /\ out'[r] = Failed(base[r], "none") /\ mode'[r] = "catch" /\ stage'[r] = "open"
    BY <1>1 DEF Raise, TypeOK
  <2>2. disk \in Record /\ disk.phase \notin {"closed", "error"} /\ Prolongs(disk, base[r])
    BY <1>0, <1>1 DEF Begun
  <2>3. Moved(out'[r], disk) /\ Keeps(r)'
    BY <1>0, <2>1, <2>2, FailedFollows DEF Codes, Keeps
  <2>4. Readable(r)' /\ Current(r)' /\ Onward(r)' /\ Begun(r)'
    BY <1>0, <2>1, <2>3 DEF Readable, Current, Onward, Keeps, Begun, Working
  <2> QED
    BY <2>4 DEF Alone, SoloInv
<1>2. CASE mode[r] # "try"
  <2>1. stage'[r] = "threw"
    BY <1>2 DEF Raise, TypeOK
  <2>2. Readable(r)' /\ Current(r)' /\ Onward(r)' /\ Begun(r)'
    BY <1>0, <2>1 DEF Readable, Current, Onward, Keeps, Begun, Working, Saving
  <2> QED
    BY <2>2 DEF Alone, SoloInv
<1> QED
  BY <1>1, <1>2

\* A phase that ends in sm.transition moves the mission on from what the file holds.
LEMMA TransitionSolo ==
  ASSUME TypeOK, NEW r \in Runners, Alone, SoloInv, stage[r] \in Working, NEW patched \in Record, NEW next \in Phases,
         Transition(r, patched, next), patched.history = m[r].history
  PROVE  SoloInv'
<1>1. UNCHANGED <<disk, tmp, fd, m, base>>
  BY DEF Transition, store
<1>2. CASE Raise(r)
  BY <1>1, <1>2, RaiseSolo
<1>3. CASE ~Raise(r)
  <2> DEFINE rec == Entered(patched, next)
  <2>0. m[r] \in Record /\ base[r] \in Record /\ disk = m[r] /\ Begun(r)
    BY DEF TypeOK, SoloInv, Current
  <2>1. rec \in Record /\ rec.phase = next /\ rec.history = Append(m[r].history, next)
    BY EnteredFields
  <2>2. /\ out' = [out EXCEPT ![r] = rec] /\ stage' = [stage EXCEPT ![r] = "open"] /\ mode' = mode
        /\ next \in ALLOWED_FORWARD[m[r].phase]
    BY <1>3 DEF Transition
  <2> HIDE DEF rec
  <2>3. out'[r] = rec /\ stage'[r] = "open" /\ mode'[r] = mode[r]
    BY <2>2 DEF TypeOK
  <2>4. Moved(rec, disk) /\ Prolongs(rec, disk)
    BY <2>0, <2>1, <2>2, EnteredProlongs DEF Moved
  <2>5. mode[r] = "try" => /\ disk \in Record /\ disk.phase \notin {"closed", "error"}
                           /\ Prolongs(disk, base[r]) /\ Prolongs(rec, base[r])
    BY <2>0, <2>1, <2>4, ProlongsTransitive DEF Begun
  <2>6. Readable(r)' /\ Current(r)' /\ Onward(r)' /\ Begun(r)'
    BY <1>1, <2>0, <2>3, <2>4, <2>5 DEF Readable, Current, Onward, Keeps, Begun, Working
  <2> QED
    BY <2>6 DEF Alone, SoloInv
<1> QED
  BY <1>2, <1>3

\* No step of a runner that is alone breaks the invariant.
LEMMA SoloStep ==
  ASSUME Alone, IndInv, SoloInv, [Next]_vars
  PROVE  SoloInv'
<1>0. TypeOK /\ Calls
  BY DEF IndInv
<1>m. \A q \in Runners : m[q] \in Record /\ base[q] \in Record /\ out[q] \in Record
  BY <1>0 DEF TypeOK
<1>s. \A q \in Runners : Readable(q) /\ Current(q) /\ Onward(q) /\ Begun(q)
  BY DEF SoloInv
<1> DEFINE At1(q) == Readable(q) /\ Current(q) /\ Onward(q) /\ Begun(q)
<1>e. ASSUME NEW r \in Runners, At1(r)' PROVE SoloInv'
  BY <1>e DEF Alone, SoloInv
<1>1. CASE UNCHANGED vars \/ HumanApproves
  <2>1. UNCHANGED <<disk, tmp, fd, m, base, out, mode, stage>>
    BY <1>1 DEF vars, HumanApproves, local, store
  <2> QED
    BY <1>s, <2>1 DEF SoloInv, Readable, Current, Onward, Keeps, Begun
<1>2. ASSUME NEW r \in Runners, RunFromBrief(r) PROVE SoloInv'
  <2>1. UNCHANGED <<disk, tmp, fd>> /\ disk = Missing /\ mode'[r] = "create" /\ stage'[r] = "open"
    BY <1>0, <1>2 DEF RunFromBrief, TypeOK, store
  <2>2. At1(r)'
    BY <2>1, FileAssumption DEF Readable, Current, Onward, Keeps, Begun, Working
  <2> QED
    BY <1>e, <2>2
<1>3. ASSUME NEW r \in Runners, Resume(r) PROVE SoloInv'
  <2>1. /\ disk \in Record /\ disk' = disk /\ m'[r] = disk /\ base'[r] = disk
        /\ stage'[r] \in {"returned", "work"} /\ (stage'[r] = "work" => disk.phase \notin {"closed", "error"})
    BY <1>0, <1>3 DEF Resume, TypeOK, store
  <2>2. Prolongs(disk, disk)
    <3>1. Len(disk.history) \in Nat
      BY <2>1 DEF Record
    <3> QED
      BY <3>1 DEF Prolongs
  <2>3. At1(r)'
    BY <2>1, <2>2 DEF Readable, Current, Onward, Keeps, Begun, Working, Saving
  <2> QED
    BY <1>e, <2>3
<1>4. ASSUME NEW r \in Runners, NEW target \in Phases, Rollback(r, target) PROVE SoloInv'
  <2>1. /\ UNCHANGED <<disk, tmp, fd>> /\ disk \in Record /\ disk.phase = "error"
        /\ target \in Seen(disk) /\ mode'[r] = "rollback"
    BY <1>0, <1>4 DEF Rollback, TypeOK, store
  <2>2. stage'[r] = "threw" \/ (stage'[r] = "open" /\ out'[r] = RolledBack(disk, target))
    BY <1>0, <1>4 DEF Rollback, TypeOK
  <2> DEFINE rec == RolledBack(disk, target)
  <2>3. rec \in Record /\ rec.phase = target /\ rec.history = Append(disk.history, target)
    BY <2>1, RolledBackFields
  <2>4. Moved(rec, disk) /\ Prolongs(rec, disk)
    <3> HIDE DEF rec
    <3> QED
      BY <2>1, <2>3, EnteredProlongs DEF Moved
  <2>5. At1(r)'
    BY <2>1, <2>2, <2>4 DEF Readable, Current, Onward, Keeps, Begun, Working, Saving
  <2> QED
    BY <1>e, <2>5
<1>5. ASSUME NEW r \in Runners, Plan(r) PROVE SoloInv'
  <2> DEFINE pat == [m[r] EXCEPT !.plan = TRUE]
  <2>1. pat \in Record /\ pat.history = m[r].history
    BY <1>m, PlanPatched
  <2>2. PICK next : next = "plan"
    OBVIOUS
  <2>3. next \in Phases /\ stage[r] \in Working /\ Transition(r, pat, next)
    BY <1>5, <2>2 DEF Plan, At, Phases, Working
  <2> HIDE DEF pat
  <2> QED
    BY <1>0, <2>1, <2>3, TransitionSolo
<1>6. ASSUME NEW r \in Runners, NEW outcome \in Executions, Execute(r, outcome) PROVE SoloInv'
  <2> DEFINE pat == [m[r] EXCEPT !.execution = outcome]
  <2>1. pat \in Record /\ pat.history = m[r].history
    BY <1>m, ExecutionPatched
  <2>2. PICK next : next = "execute"
    OBVIOUS
  <2>3. next \in Phases /\ stage[r] \in Working /\ Transition(r, pat, next)
    BY <1>6, <2>2 DEF Execute, At, Phases, Working
  <2> HIDE DEF pat
  <2> QED
    BY <1>0, <2>1, <2>3, TransitionSolo
<1>7. ASSUME NEW r \in Runners, Verify(r) PROVE SoloInv'
  <2> DEFINE v == runAll(m[r].execution)
             pat == [m[r] EXCEPT !.verification = v]
  <2>0. v \in Overalls
    BY GatesAnswer
  <2>2. PICK next : next = "verify"
    OBVIOUS
  <2>3. next \in Phases /\ stage[r] \in Working /\ Transition(r, pat, next)
    BY <1>7, <2>2 DEF Verify, At, Phases, Working
  <2> HIDE DEF v
  <2>1. pat \in Record /\ pat.history = m[r].history
    BY <1>m, <2>0, VerificationPatched
  <2> HIDE DEF pat
  <2> QED
    BY <1>0, <2>1, <2>3, TransitionSolo
<1>8. ASSUME NEW r \in Runners, Deliver(r) PROVE SoloInv'
  <2> DEFINE n == version[r]
             pat == [m[r] EXCEPT !.delivery = n]
  <2>0. n \in Nat
    BY <1>0 DEF TypeOK
  <2>2. PICK next : next = "deliver"
    OBVIOUS
  <2>3. next \in Phases /\ stage[r] \in Working /\ Transition(r, pat, next)
    BY <1>8, <2>2 DEF Deliver, Phases, Working
  <2> HIDE DEF n
  <2>1. pat \in Record /\ pat.history = m[r].history
    BY <1>m, <2>0, DeliveryPatch
  <2> HIDE DEF pat
  <2> QED
    BY <1>0, <2>1, <2>3, TransitionSolo
<1>9. ASSUME NEW r \in Runners, Close(r) PROVE SoloInv'
  <2>1. PICK next : next = "closed"
    OBVIOUS
  <2>2. next \in Phases /\ stage[r] \in Working /\ Transition(r, m[r], next)
    BY <1>9, <2>1 DEF Close, At, Phases, Working
  <2> QED
    BY <1>0, <1>m, <2>2, TransitionSolo
<1>10. ASSUME NEW r \in Runners, Refuse(r) PROVE SoloInv'
  <2>1. PICK code \in Codes : out' = [out EXCEPT ![r] = Failed(m[r], code)]
    BY <1>10 DEF Refuse, Codes
  <2>2. /\ UNCHANGED <<disk, tmp, fd, m, base, mode>> /\ stage'[r] = "open" /\ out'[r] = Failed(m[r], code)
        /\ stage[r] \in Working /\ m[r].phase = "verify"
    BY <1>0, <1>10, <2>1 DEF Refuse, At, TypeOK, store, Working
  <2>3. disk = m[r] /\ Begun(r)
    BY <1>s, <2>2 DEF Current
  <2> DEFINE rec == Failed(m[r], code)
  <2>4. PICK next : next = "error"
    OBVIOUS
  <2>5. rec \in Record /\ rec.phase = next /\ rec.history = Append(m[r].history, next) /\ next \in Phases
    BY <1>m, <2>4, FailedFields DEF Phases
  <2> HIDE DEF rec
  <2>6. Moved(rec, disk)
    BY <2>2, <2>3, <2>4, <2>5 DEF Moved, ALLOWED_FORWARD
  <2>7. Prolongs(rec, disk)
    BY <1>m, <2>3, <2>5, EnteredProlongs
  <2>8. mode[r] = "try" => /\ disk \in Record /\ disk.phase \notin {"closed", "error"}
                           /\ Prolongs(disk, base[r]) /\ Prolongs(rec, base[r])
    BY <1>m, <2>2, <2>3, <2>5, <2>7, ProlongsTransitive DEF Begun
  <2>9. At1(r)'
    BY <1>m, <2>2, <2>3, <2>6, <2>7, <2>8 DEF Readable, Current, Onward, Keeps, Begun, Working, rec
  <2> QED
    BY <1>e, <2>9
<1>11. ASSUME NEW r \in Runners, ListVersions(r) \/ MakeVersionDir(r) PROVE SoloInv'
  <2>1. /\ UNCHANGED <<disk, tmp, fd, m, base, out, mode>>
        /\ stage[r] \in Working /\ stage'[r] \in Working
    BY <1>0, <1>11 DEF ListVersions, MakeVersionDir, At, TypeOK, store, Working
  <2>2. At1(r)'
    BY <1>s, <2>1 DEF Readable, Current, Onward, Keeps, Begun, Working, Saving
  <2> QED
    BY <1>e, <2>2
<1>12. ASSUME NEW r \in Runners, SaveOpens(r) PROVE SoloInv'
  <2>1. /\ UNCHANGED <<disk, m, base, out, mode>> /\ tmp' = Empty /\ fd'[r] = "tmp"
        /\ stage[r] = "open" /\ stage'[r] = "write"
    BY <1>0, <1>12 DEF SaveOpens, TypeOK
  <2>2. At1(r)'
    BY <1>s, <2>1 DEF Readable, Current, Onward, Keeps, Begun, Working, Saving
  <2> QED
    BY <1>e, <2>2
<1>13. ASSUME NEW r \in Runners, SaveWrites(r) PROVE SoloInv'
  <2>1. /\ UNCHANGED <<m, base, out, mode>> /\ stage[r] = "write" /\ stage'[r] = "rename"
    BY <1>0, <1>13 DEF SaveWrites, TypeOK
  <2>2. fd[r] = "tmp" /\ tmp = Empty
    BY <1>s, <2>1 DEF Readable
  <2>3. Written(r, tmp) = {out[r]}
    BY <2>2 DEF Written, Alone
  <2>4. tmp' = out[r] /\ disk' = disk
    BY <1>13, <2>2, <2>3 DEF SaveWrites
  <2>5. At1(r)'
    BY <1>s, <2>1, <2>4 DEF Readable, Current, Onward, Keeps, Begun, Working, Saving
  <2> QED
    BY <1>e, <2>5
<1>14. ASSUME NEW r \in Runners, SaveRenames(r) PROVE SoloInv'
  <2>1. stage[r] = "rename" /\ tmp = out[r] /\ tmp # Missing
    BY <1>s, <1>m, <1>14, FileAssumption DEF SaveRenames, Readable
  <2>2. disk' = out[r] /\ AfterSave(r)
    BY <1>14, <2>1 DEF SaveRenames
  <2>3. /\ m'[r] = out[r] /\ stage'[r] \in {"returned", "work"}
        /\ stage'[r] = "work" => out[r].phase \notin {"closed", "error"}
        /\ base'[r] = IF mode[r] = "create" THEN out[r] ELSE base[r]
        /\ stage'[r] = "work" => mode[r] \in {"create", "try"}
    BY <1>0, <2>2 DEF AfterSave, TypeOK, Mode
  <2>4. Prolongs(out[r], out[r])
    <3>1. Len(out[r].history) \in Nat
      BY <1>m DEF Record
    <3> QED
      BY <3>1 DEF Prolongs
  <2>5. mode[r] = "try" => Prolongs(out[r], base[r])
    BY <1>s, <2>1 DEF Begun, Saving
  <2>6. stage'[r] = "work" => Prolongs(out[r], base'[r])
    BY <2>3, <2>4, <2>5
  <2>7. At1(r)'
    BY <1>m, <2>2, <2>3, <2>6 DEF Readable, Current, Onward, Keeps, Begun, Working, Saving
  <2> QED
    BY <1>e, <2>7
<1>15. ASSUME NEW r \in Runners, Throws(r) PROVE SoloInv'
  <2>1. Raise(r) /\ UNCHANGED <<disk, m, base>> /\ stage[r] \in Working \cup Saving
    BY <1>15 DEF Throws, Working, Saving
  <2> QED
    BY <1>0, <2>1, RaiseSolo
<1>16. ASSUME NEW r \in Runners, Crash(r) PROVE SoloInv'
  <2>1. stage'[r] = "idle" /\ disk' = disk
    BY <1>0, <1>16 DEF Crash, TypeOK
  <2>2. At1(r)'
    BY <1>s, <2>1 DEF Readable, Current, Onward, Keeps, Begun, Working, Saving
  <2> QED
    BY <1>e, <2>2
<1> QED
  BY <1>1, <1>2, <1>3, <1>4, <1>5, <1>6, <1>7, <1>8, <1>9, <1>10, <1>11, <1>12, <1>13, <1>14, <1>15, <1>16
     DEF Next, Run

\* The invariant of a runner that is alone is inductive, given the one for any number.
THEOREM SoloInductive ==
  ASSUME Alone
  PROVE  Spec => []SoloInv
<1>1. Init => SoloInv
  BY DEF Init, SoloInv, Readable, Current, Onward, Begun, Working, Saving
<1>2. IndInv /\ SoloInv /\ [Next]_vars => SoloInv'
  BY SoloStep
<1> QED
  BY Inductive, <1>1, <1>2, PTL DEF Spec

\* The state file changes only when a runner renames the temporary file, in which the
\* record it saves is complete.
LEMMA DiskChanges ==
  ASSUME Alone, IndInv, SoloInv, [Next]_vars, disk' # disk
  PROVE  \E r \in Runners : stage[r] \in Saving /\ disk' = out[r] /\ out[r] \in Record
<1>1. PICK r \in Runners : SaveWrites(r) \/ SaveRenames(r)
  BY DEF Next, Run, vars, HumanApproves, RunFromBrief, Resume, Throws, Crash, Rollback, Plan, Execute, Verify, Refuse,
         ListVersions, MakeVersionDir, Deliver, Close, SaveOpens, Transition, store
<1>2. Readable(r) /\ out[r] \in Record
  BY DEF SoloInv, IndInv, TypeOK
<1>3. ~SaveWrites(r)
  BY <1>2 DEF SaveWrites, Readable
<1>4. SaveRenames(r) /\ stage[r] = "rename" /\ tmp = out[r]
  BY <1>1, <1>2, <1>3 DEF SaveRenames, Readable
<1>5. disk' = out[r]
  BY <1>4 DEF SaveRenames
<1> QED
  BY <1>2, <1>4, <1>5 DEF Saving

\* Without another runner, what a call answered is what the state file holds.
THEOREM AnswersAreDurable ==
  ASSUME Alone
  PROVE  Spec => []AnswerIsDurable
<1>1. SoloInv => AnswerIsDurable
  BY DEF SoloInv, Current, AnswerIsDurable
<1> QED
  BY SoloInductive, <1>1, PTL

\* Without another runner, the state file is always readable once it is there, whatever
\* crashes, and moves along the documented diagram.
THEOREM DiskMovesAlongDiagram ==
  ASSUME Alone
  PROVE  Spec => DiskFollowsDiagram
<1>1. IndInv /\ SoloInv /\ [Next]_vars =>
        [disk' # disk =>
           /\ disk' \in Record
           /\ disk \in Record => \/ disk'.phase \in ALLOWED_FORWARD[disk.phase]
                                 \/ disk.phase = "error" /\ disk'.phase \in Seen(disk)]_vars
  <2> SUFFICES ASSUME IndInv, SoloInv, [Next]_vars, disk' # disk
               PROVE  /\ disk' \in Record
                      /\ disk \in Record => \/ disk'.phase \in ALLOWED_FORWARD[disk.phase]
                                            \/ disk.phase = "error" /\ disk'.phase \in Seen(disk)
    OBVIOUS
  <2>1. PICK r \in Runners : stage[r] \in Saving /\ disk' = out[r] /\ out[r] \in Record
    BY DiskChanges
  <2>2. disk \in Record => Moved(out[r], disk)
    BY <2>1 DEF SoloInv, Onward
  <2> QED
    BY <2>1, <2>2 DEF Moved
<1> QED
  BY Inductive, SoloInductive, <1>1, PTL DEF Spec, DiskFollowsDiagram

\* Without another runner, the history only grows, except for the save of a catch clause,
\* which fails the record its run began with and drops the phases since, and none before.
THEOREM HistoryIsKept ==
  ASSUME Alone
  PROVE  Spec => HistoryKept
<1>1. IndInv /\ SoloInv /\ [Next]_vars => [(disk \in Record /\ disk' \in Record) => ProlongsOrFails]_vars
  <2> SUFFICES ASSUME IndInv, SoloInv, [Next]_vars, disk \in Record, disk' \in Record
               PROVE  ProlongsOrFails
    OBVIOUS
  <2>1. CASE disk' = disk
    <3>1. Len(disk.history) \in Nat
      BY DEF Record
    <3> QED
      BY <2>1, <3>1 DEF ProlongsOrFails, IsPrefixOf
  <2>2. CASE disk' # disk
    <3>1. PICK r \in Runners : stage[r] \in Saving /\ disk' = out[r]
      BY <2>2, DiskChanges
    <3>2. Keeps(r)
      BY <3>1 DEF SoloInv, Onward
    <3> QED
      BY <3>1, <3>2 DEF ProlongsOrFails, Keeps, Prolongs, IsPrefixOf
  <2> QED
    BY <2>1, <2>2
<1> QED
  BY Inductive, SoloInductive, <1>1, PTL DEF Spec, HistoryKept
=============================================================================
