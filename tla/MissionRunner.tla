--------------------------- MODULE MissionRunner ---------------------------
(***************************************************************************)
(* One mission, from runFromBrief to closed: the runner                    *)
(* (lib/mission-runner.ts), the persistent state machine and its JSON      *)
(* store (lib/mission-state-machine.ts), the default gates                 *)
(* (lib/gate-checks.ts) and the versioned delivery directories             *)
(* (lib/artifact-collector.ts).  Several runners (processes, or concurrent *)
(* calls) may work on the mission; any of them may die at any moment, any  *)
(* I/O may fail, and an operator rolls failed missions back.               *)
(*                                                                         *)
(* A record keeps what the phases decide on.  The execution is the verdict *)
(* of SquadCoordinator's call: clean, failed (some task failed) or leaky   *)
(* (an artifact trips the secret scan).  Lifecycle hooks are left out:     *)
(* safeHook swallows their errors and they do not touch the record.        *)
(***************************************************************************)
EXTENDS Naturals, Sequences, FiniteSets

CONSTANTS Runners,
          Missing, Empty, Torn,   \* a file that is absent, just truncated, garbled
          RollbackPolicy,         \* which rollback targets the operator picks
          MaxErrors,              \* bound: errors in a history before rollbacks stop
          MaxCrashes,             \* bound: how often a process dies
          MaxThrows,              \* bound: how often an agent, a gate or an I/O call throws
          MaxVersions             \* bound: delivery directories

Phases == {"brief", "plan", "execute", "verify", "deliver", "closed", "error"}
Executions == {"clean", "failed", "leaky"}
Overalls == {"pass", "fail", "require_approval"}
Codes == {"gates_failed", "requires_approval", "none"}

Record == [phase : Phases,
           history : Seq(Phases),
           plan : BOOLEAN,
           execution : Executions \cup {"none"},
           verification : Overalls \cup {"none"},
           delivery : Nat,                        \* the version delivered, 0: none
           error : [atPhase : Phases \cup {"none"}, code : Codes]]

ASSUME FileAssumption ==
  /\ Missing \notin Record /\ Empty \notin Record /\ Torn \notin Record
  /\ Missing # Empty /\ Missing # Torn /\ Empty # Torn
ASSUME PolicyAssumption == RollbackPolicy \in {"any", "prior", "suggested"}
ASSUME BoundAssumption == MaxErrors \in Nat /\ MaxCrashes \in Nat /\ MaxThrows \in Nat /\ MaxVersions \in Nat

VARIABLES disk, tmp,     \* <missionId>.json and <missionId>.json.tmp
          fd,            \* fd[r]: the file r's writeFile has open, as the file is named now
          m,             \* m[r]: the record r works on
          base,          \* base[r]: the record its catch clause would fail
          out,           \* out[r]: the record r is saving
          stage,         \* stage[r]: where r's call stands
          mode,          \* mode[r]: what r's call is doing, hence who catches
          version,       \* version[r]: the directory number r tries or fills
          dirs,          \* dirs[v]: the delivery directory v
          approved,      \* what the approve() callback answers
          wasApproved,   \* wasApproved[r]: what it answered when r's call began
          crashes, throws

store  == <<disk, tmp, fd>>
local  == <<m, base, out, stage, mode, version, wasApproved>>
faults == <<crashes, throws>>
vars   == <<store, local, dirs, approved, faults>>

File  == Record \cup {Missing, Empty, Torn}
Stage == {"idle", "work", "mkdir", "collect", "open", "write", "rename", "returned", "threw"}
Mode  == {"create", "try", "catch", "rollback"}

TypeOK ==
  /\ disk \in File /\ tmp \in File
  /\ fd \in [Runners -> {"none", "tmp", "disk", "gone"}]
  /\ m \in [Runners -> Record] /\ base \in [Runners -> Record] /\ out \in [Runners -> Record]
  /\ stage \in [Runners -> Stage]
  /\ mode \in [Runners -> Mode]
  /\ version \in [Runners -> Nat]
  /\ dirs \in [1..MaxVersions -> {"absent", "partial", "complete"}]
  /\ approved \in BOOLEAN /\ wasApproved \in [Runners -> BOOLEAN]
  /\ crashes \in 0..MaxCrashes /\ throws \in 0..MaxThrows

-----------------------------------------------------------------------------
(* The state machine *)

NoError == [atPhase |-> "none", code |-> "none"]

NewRecord == [phase |-> "brief", history |-> <<"brief">>, plan |-> FALSE, execution |-> "none",
              verification |-> "none", delivery |-> 0, error |-> NoError]

ALLOWED_FORWARD == [brief |-> {"plan", "error"}, plan |-> {"execute", "error"},
                    execute |-> {"verify", "error"}, verify |-> {"deliver", "error"},
                    deliver |-> {"closed", "error"}, closed |-> {}, error |-> {}]

Rank == [brief |-> 1, plan |-> 2, execute |-> 3, verify |-> 4, deliver |-> 5, closed |-> 6, error |-> 0]

\* The brief, the ids and the timestamps are always there.
validateRecord(rec) ==
  /\ Rank[rec.phase] >= Rank["execute"] => rec.plan
  /\ Rank[rec.phase] >= Rank["verify"]  => rec.execution # "none"
  /\ Rank[rec.phase] >= Rank["deliver"] => rec.verification # "none"
  /\ rec.phase = "closed" => rec.delivery # 0
  /\ rec.phase = "error" => rec.error # NoError

Entered(rec, next) == [rec EXCEPT !.phase = next, !.history = Append(@, next)]

\* Mutant: the error record drops what the verification said.
FailedForgetting(rec, code) ==
  [Entered(rec, "error") EXCEPT !.verification = "none",
                                !.error = [atPhase |-> rec.phase, code |-> code]]

Failed(rec, code) == [Entered(rec, "error") EXCEPT !.error = [atPhase |-> rec.phase, code |-> code]]

\* Mutant: a rollback cuts the history back to the target.
RolledBackCutting(rec, target) ==
  [Entered(rec, target) EXCEPT !.error = NoError,
     !.history = SubSeq(@, 1, CHOOSE i \in DOMAIN @ : @[i] = target /\ \A j \in 1..(i - 1) : @[j] # target)]

\* A rollback clears the error and keeps every payload.
RolledBack(rec, target) == [Entered(rec, target) EXCEPT !.error = NoError]

Seen(rec) == {rec.history[i] : i \in DOMAIN rec.history}

\* Only runFromPhase suggests a phase to roll back to.
Suggested(rec) == CASE rec.error.code = "gates_failed" -> {"execute"}
                    [] rec.error.code = "requires_approval" -> {"verify"}
                    [] OTHER -> Seen(rec) \ {"error"}

\* The operator: any phase the code admits, one no later than where the mission
\* failed ("a prior phase"), or the one the error record suggests.
Picks(rec) == CASE RollbackPolicy = "any" -> Phases
                [] RollbackPolicy = "prior" -> {p \in Phases : Rank[p] <= Rank[rec.error.atPhase]}
                [] OTHER -> Suggested(rec)

-----------------------------------------------------------------------------
(* Exceptions *)

\* What throws in runFromPhase is caught by runFromBrief or resume, which fail the
\* record they started from; elsewhere it reaches the caller.
Raise(r) ==
  IF mode[r] = "try"
    THEN /\ out' = [out EXCEPT ![r] = Failed(base[r], "none")]
         /\ mode' = [mode EXCEPT ![r] = "catch"]
         /\ stage' = [stage EXCEPT ![r] = "open"]
    ELSE /\ stage' = [stage EXCEPT ![r] = "threw"]
         /\ UNCHANGED <<out, mode>>

\* executePlan (unless continueOnFailure), a gate or the approve callback, the
\* artifact collector, or the store's I/O throws.
Throws(r) ==
  /\ \/ stage[r] \in {"mkdir", "collect", "open", "write", "rename"}
     \/ stage[r] = "work" /\ m[r].phase \in {"plan", "execute"}
     \/ stage[r] = "work" /\ m[r].phase = "verify" /\ m[r].verification = "pass"
  /\ throws < MaxThrows
  /\ throws' = throws + 1
  /\ fd' = [fd EXCEPT ![r] = "none"]
  /\ Raise(r)
  /\ UNCHANGED <<disk, tmp, m, base, version, wasApproved, dirs, approved, crashes>>

\* sm.transition and sm.fail: rec is m[r] with the patch applied.
Transition(r, patched, next) ==
  /\ LET rec == Entered(patched, next)
     IN IF next \in ALLOWED_FORWARD[m[r].phase] /\ validateRecord(rec)
          THEN /\ out' = [out EXCEPT ![r] = rec]
               /\ stage' = [stage EXCEPT ![r] = "open"]
               /\ UNCHANGED mode
          ELSE Raise(r)
  /\ UNCHANGED <<m, base, wasApproved, approved, faults>> /\ UNCHANGED store

-----------------------------------------------------------------------------
(* The store *)

\* Mutant: the record is written in place.
SaveOpensInPlace(r) ==
  /\ stage[r] = "open"
  /\ disk' = Empty
  /\ fd' = [fd EXCEPT ![r] = "disk"]
  /\ stage' = [stage EXCEPT ![r] = "write"]
  /\ UNCHANGED <<tmp, m, base, out, mode, version, wasApproved, dirs, approved, faults>>

SaveOpens(r) ==      \* writeFile opens and truncates the temporary file
  /\ stage[r] = "open"
  /\ tmp' = Empty
  /\ fd' = [fd EXCEPT ![r] = "tmp"]
  /\ stage' = [stage EXCEPT ![r] = "write"]
  /\ UNCHANGED <<disk, m, base, out, mode, version, wasApproved, dirs, approved, faults>>

\* What a write leaves in a file it shares with other writers (undefined mix).
Written(r, file) ==
  IF file = Empty /\ \A q \in Runners \ {r} : fd[q] # fd[r] THEN {out[r]} ELSE {out[r], Torn}

SaveWrites(r) ==
  /\ stage[r] = "write"
  /\ IF fd[r] = "tmp"  THEN tmp' \in Written(r, tmp)   ELSE UNCHANGED tmp
  /\ IF fd[r] = "disk" THEN disk' \in Written(r, disk) ELSE UNCHANGED disk
  /\ fd' = [fd EXCEPT ![r] = "none"]
  /\ stage' = [stage EXCEPT ![r] = "rename"]
  /\ UNCHANGED <<m, base, out, mode, version, wasApproved, dirs, approved, faults>>

\* Mutant: the call answers before the rename, with the record it had.
AfterSaveStale(r) ==
  /\ m' = m
  /\ base' = IF mode[r] = "create" THEN [base EXCEPT ![r] = out[r]] ELSE base
  /\ mode' = [mode EXCEPT ![r] = IF @ = "create" THEN "try" ELSE @]
  /\ stage' = [stage EXCEPT ![r] =
                 IF mode[r] \in {"catch", "rollback"} \/ out[r].phase \in {"error", "closed"}
                   THEN "returned" ELSE "work"]

\* Where the caller goes on: a created mission is run, a failed, closed or rolled
\* back one is answered.
AfterSave(r) ==
  /\ m' = [m EXCEPT ![r] = out[r]]
  /\ base' = IF mode[r] = "create" THEN [base EXCEPT ![r] = out[r]] ELSE base
  /\ mode' = [mode EXCEPT ![r] = IF @ = "create" THEN "try" ELSE @]
  /\ stage' = [stage EXCEPT ![r] =
                 IF mode[r] \in {"catch", "rollback"} \/ out[r].phase \in {"error", "closed"}
                   THEN "returned" ELSE "work"]

SaveRenames(r) ==    \* ENOENT when another runner has renamed the file away
  /\ stage[r] = "rename"
  /\ IF tmp = Missing
       THEN Raise(r) /\ UNCHANGED <<disk, tmp, fd, m, base>>
       ELSE /\ disk' = tmp /\ tmp' = Missing
            /\ fd' = [q \in Runners |-> CASE fd[q] = "tmp" -> "disk" [] fd[q] = "disk" -> "gone"
                                          [] OTHER -> fd[q]]
            /\ AfterSave(r) /\ UNCHANGED out
  /\ UNCHANGED <<version, wasApproved, dirs, approved, faults>>

-----------------------------------------------------------------------------
(* The calls *)

Free(r) == stage[r] \in {"idle", "returned", "threw"}

RunFromBrief(r) ==   \* the brief has been validated
  /\ Free(r) /\ disk = Missing /\ \A q \in Runners : Free(q)
  /\ out' = [out EXCEPT ![r] = NewRecord]
  /\ mode' = [mode EXCEPT ![r] = "create"]
  /\ stage' = [stage EXCEPT ![r] = "open"]
  /\ wasApproved' = [wasApproved EXCEPT ![r] = approved]
  /\ UNCHANGED <<store, m, base, version, dirs, approved, faults>>

Resume(r) ==         \* a closed or failed mission is answered as it is
  /\ Free(r) /\ disk \in Record
  /\ m' = [m EXCEPT ![r] = disk]
  /\ base' = [base EXCEPT ![r] = disk]
  /\ mode' = [mode EXCEPT ![r] = "try"]
  /\ stage' = [stage EXCEPT ![r] = IF disk.phase \in {"closed", "error"} THEN "returned" ELSE "work"]
  /\ wasApproved' = [wasApproved EXCEPT ![r] = approved]
  /\ UNCHANGED <<store, out, version, dirs, approved, faults>>

Errors(rec) == Cardinality({i \in DOMAIN rec.history : rec.history[i] = "error"})

Rollback(r, target) ==
  /\ Free(r) /\ disk \in Record /\ disk.phase = "error" /\ Errors(disk) <= MaxErrors
  /\ target \in Picks(disk) \ {"error"}
  /\ target \in Seen(disk)
  /\ mode' = [mode EXCEPT ![r] = "rollback"]
  /\ IF validateRecord(RolledBack(disk, target))
       THEN /\ out' = [out EXCEPT ![r] = RolledBack(disk, target)]
            /\ stage' = [stage EXCEPT ![r] = "open"]
       ELSE stage' = [stage EXCEPT ![r] = "threw"] /\ UNCHANGED out
  /\ UNCHANGED <<store, m, base, version, wasApproved, dirs, approved, faults>>

-----------------------------------------------------------------------------
(* runFromPhase *)

At(r, phase) == stage[r] = "work" /\ m[r].phase = phase

Plan(r) ==           \* createPlanFromBrief: never empty
  /\ At(r, "brief")
  /\ Transition(r, [m[r] EXCEPT !.plan = TRUE], "plan")
  /\ UNCHANGED <<version, dirs>>

Execute(r, outcome) ==
  /\ At(r, "plan")
  /\ Transition(r, [m[r] EXCEPT !.execution = outcome], "execute")
  /\ UNCHANGED <<version, dirs>>

\* Mutant: the gates do not look at the execution's failed tasks.
runAllNoQuality(execution) == IF execution = "leaky" THEN "fail" ELSE IF approved THEN "pass" ELSE "require_approval"

\* Mutant: the approval is not asked for again.
runAllUnasked(execution) == IF execution # "clean" THEN "fail" ELSE "require_approval"

\* The default gates, fail-fast: tasks, secrets, then the approval callback.
runAll(execution) == IF execution # "clean" THEN "fail" ELSE IF approved THEN "pass" ELSE "require_approval"

Verify(r) ==
  /\ At(r, "execute")
  /\ Transition(r, [m[r] EXCEPT !.verification = runAll(m[r].execution)], "verify")
  /\ UNCHANGED <<version, dirs>>

\* Mutant: nobody answers a mission that waits for approval.
RefuseFailedOnly(r) ==
  /\ At(r, "verify") /\ m[r].verification = "fail"
  /\ out' = [out EXCEPT ![r] = Failed(m[r], "gates_failed")]
  /\ stage' = [stage EXCEPT ![r] = "open"]
  /\ UNCHANGED <<store, m, base, mode, version, wasApproved, dirs, approved, faults>>

Refuse(r) ==
  /\ At(r, "verify") /\ m[r].verification \in {"fail", "require_approval"}
  /\ LET code == IF m[r].verification = "fail" THEN "gates_failed" ELSE "requires_approval"
     IN out' = [out EXCEPT ![r] = Failed(m[r], code)]
  /\ stage' = [stage EXCEPT ![r] = "open"]
  /\ UNCHANGED <<store, m, base, mode, version, wasApproved, dirs, approved, faults>>

Taken == {v \in 1..MaxVersions : dirs[v] # "absent"}

ListVersions(r) ==   \* readdir: one past the highest directory seen
  /\ At(r, "verify") /\ m[r].verification = "pass"
  /\ \E v \in 1..(MaxVersions + 1) :
       /\ \A w \in Taken : w < v
       /\ v = 1 \/ v - 1 \in Taken
       /\ version' = [version EXCEPT ![r] = v]
  /\ stage' = [stage EXCEPT ![r] = "mkdir"]
  /\ UNCHANGED <<store, m, base, out, mode, wasApproved, dirs, approved, faults>>

\* Mutant: an existing directory is used as if it had just been made.
MakeDirRecursive(r) ==
  /\ stage[r] = "mkdir" /\ version[r] \in 1..MaxVersions
  /\ dirs' = [dirs EXCEPT ![version[r]] = "partial"]
  /\ stage' = [stage EXCEPT ![r] = "collect"]
  /\ UNCHANGED <<store, m, base, out, mode, version, wasApproved, approved, faults>>

MakeVersionDir(r) == \* mkdir, and the next number on EEXIST
  /\ stage[r] = "mkdir" /\ version[r] \in 1..MaxVersions
  /\ IF dirs[version[r]] = "absent"
       THEN /\ dirs' = [dirs EXCEPT ![version[r]] = "partial"]
            /\ stage' = [stage EXCEPT ![r] = "collect"]
            /\ UNCHANGED version
       ELSE /\ version' = [version EXCEPT ![r] = @ + 1]
            /\ UNCHANGED <<dirs, stage>>
  /\ UNCHANGED <<store, m, base, out, mode, wasApproved, approved, faults>>

Deliver(r) ==        \* the artifacts, the reports and the manifest are written
  /\ stage[r] = "collect"
  /\ dirs' = [dirs EXCEPT ![version[r]] = "complete"]
  /\ Transition(r, [m[r] EXCEPT !.delivery = version[r]], "deliver")
  /\ UNCHANGED version

Close(r) ==
  /\ At(r, "deliver")
  /\ Transition(r, m[r], "closed")
  /\ UNCHANGED <<version, dirs>>

Run(r) == \/ Plan(r) \/ (\E outcome \in Executions : Execute(r, outcome)) \/ Verify(r) \/ Refuse(r)
          \/ ListVersions(r) \/ MakeVersionDir(r) \/ Deliver(r) \/ Close(r)
          \/ SaveOpens(r) \/ SaveWrites(r) \/ SaveRenames(r)

-----------------------------------------------------------------------------
(* The environment *)

Crash(r) ==          \* the process dies: its memory is lost, the files stay as they are
  /\ ~Free(r) /\ crashes < MaxCrashes
  /\ crashes' = crashes + 1
  /\ stage' = [stage EXCEPT ![r] = "idle"]
  /\ fd' = [fd EXCEPT ![r] = "none"]
  /\ m' = [m EXCEPT ![r] = NewRecord]
  /\ base' = [base EXCEPT ![r] = NewRecord]
  /\ out' = [out EXCEPT ![r] = NewRecord]
  /\ version' = [version EXCEPT ![r] = 0]
  /\ UNCHANGED <<disk, tmp, mode, wasApproved, dirs, approved, throws>>

HumanApproves ==
  /\ ~approved /\ approved' = TRUE
  /\ UNCHANGED <<store, local, dirs, faults>>

Init ==
  /\ disk = Missing /\ tmp = Missing
  /\ fd = [r \in Runners |-> "none"]
  /\ m = [r \in Runners |-> NewRecord]
  /\ base = [r \in Runners |-> NewRecord]
  /\ out = [r \in Runners |-> NewRecord]
  /\ stage = [r \in Runners |-> "idle"]
  /\ mode = [r \in Runners |-> "create"]
  /\ version = [r \in Runners |-> 0]
  /\ dirs = [v \in 1..MaxVersions |-> "absent"]
  /\ approved \in BOOLEAN
  /\ wasApproved = [r \in Runners |-> approved]
  /\ crashes = 0 /\ throws = 0

Next == \/ \E r \in Runners : \/ RunFromBrief(r) \/ Resume(r) \/ Run(r) \/ Throws(r) \/ Crash(r)
                              \/ \E target \in Phases : Rollback(r, target)
        \/ HumanApproves

Spec == Init /\ [][Next]_vars

\* A call that was begun is carried on: the event loop runs its continuations, and
\* agents, gates and I/O settle.  Calls, crashes and approvals need not happen.
FairSpec == Spec /\ \A r \in Runners : WF_vars(Run(r) \/ Throws(r))

-----------------------------------------------------------------------------
(* Properties *)

\* The history of rec is a path of the documented diagram: it starts with brief,
\* ends in the record's phase, moves along ALLOWED_FORWARD, and leaves an error
\* only for a phase entered before it.
HistorySound(rec) ==
  LET h == rec.history
  IN /\ Len(h) > 0 /\ h[1] = "brief" /\ h[Len(h)] = rec.phase
     /\ \A i \in 1..(Len(h) - 1) :
          \/ h[i + 1] \in ALLOWED_FORWARD[h[i]]
          \/ h[i] = "error" /\ \E j \in 1..(i - 1) : h[j] = h[i + 1]

\* Every phase of the history has left its payload in rec.
PayloadSound(rec) ==
  \A p \in Seen(rec) :
    /\ Rank[p] >= Rank["plan"]    => rec.plan
    /\ Rank[p] >= Rank["execute"] => rec.execution # "none"
    /\ Rank[p] >= Rank["verify"]  => rec.verification # "none"
    /\ Rank[p] >= Rank["deliver"] => rec.delivery # 0

\* The persisted mission is one the documented diagram allows, and it can be rolled
\* back to any phase of its history without validateRecord refusing it, although
\* catch clauses save stale records and runners overwrite each other.
MissionSound ==
  disk \in Record =>
    /\ HistorySound(disk) /\ PayloadSound(disk)
    /\ \A p \in Seen(disk) \ {"error"} : validateRecord(RolledBack(disk, p))

\* A closed mission delivers an execution that is clean and was verified as such,
\* as long as the operator rolls back to phases prior to the failure.
ClosedIsVerified ==
  disk \in Record /\ disk.phase = "closed" => disk.verification = "pass" /\ disk.execution = "clean"

\* A record that mentions a delivery has a version directory with its manifest, and
\* two runners never fill the same directory.
DeliveryIntact ==
  /\ disk \in Record /\ disk.delivery # 0 => dirs[disk.delivery] = "complete"
  /\ \A r, q \in Runners : r # q /\ stage[r] = "collect" /\ stage[q] = "collect" => version[r] # version[q]
  /\ \A r \in Runners : stage[r] = "collect" => dirs[version[r]] = "partial"

\* With one runner, what a call answered is what the state file holds.
AnswerIsDurable == \A r \in Runners : stage[r] = "returned" => disk = m[r]

\* With one runner, whatever crashes, what the state file holds can be parsed
\* (write-then-rename) and moves along the documented diagram: forward, to error,
\* or from error back to a phase it has been in; closed is final.
DiskFollowsDiagram ==
  [][disk' # disk =>
       /\ disk' \in Record
       /\ disk \in Record => \/ disk'.phase \in ALLOWED_FORWARD[disk.phase]
                             \/ disk.phase = "error" /\ disk'.phase \in Seen(disk)]_vars

\* A run that began ends: it answers, throws to its caller, or its process dies.
RunsSettle == \A r \in Runners : ~Free(r) ~> Free(r)

IsPrefixOf(s, t) == Len(s) <= Len(t) /\ \A i \in 1..Len(s) : s[i] = t[i]

ProlongsOrFails ==   \* what a save does to the history
  \/ IsPrefixOf(disk.history, disk'.history)
  \/ \E r \in Runners : /\ mode[r] = "catch" /\ disk' = Failed(base[r], "none")
                        /\ IsPrefixOf(base[r].history, disk.history)

\* With one runner, the history is an audit trail that only grows, except when a
\* run throws: its catch clause then saves the record the run began with, failed,
\* and the phases since are gone, but none before.
HistoryKept == [][(disk \in Record /\ disk' \in Record) => ProlongsOrFails]_vars

\* The approval gate only refuses when approve() answers false: a run that began
\* after the approval is refused for want of it only by a verdict that was stored
\* before, in a mission already past its gates, which reads it again
\* without asking.
ApprovalHonoured ==
  \A r \in Runners :
    stage[r] = "returned" /\ mode[r] = "try" /\ wasApproved[r] /\ m[r] # base[r]
    /\ m[r].error.code = "requires_approval" => base[r].phase = "verify" /\ base[r].verification = "require_approval"
=============================================================================
