------------------------- MODULE ProposalLifecycle -------------------------
(***************************************************************************)
(* The dashboard's proposal engine                                         *)
(* (dashboard/server/proposal-lifecycle.ts): proposals are submitted and   *)
(* reviewed, an approved one becomes a mission whose steps run one at a    *)
(* time, and the whole store is written to one JSON file after every       *)
(* change.                                                                 *)
(*                                                                         *)
(* The engine is one Node process: a handler runs to completion, and only  *)
(* a step's delay lets another in.  turn is what is left of the current    *)
(* handler, cut where the process may die: before and in the middle of     *)
(* each writeFileSync.  Wording, costs, skills, risks and the event log    *)
(* are left out; title stands for the fields a review may patch besides    *)
(* the steps.  A mission's steps are those of its proposal, which is never *)
(* patched once it is approved.                                            *)
(***************************************************************************)
EXTENDS Naturals, Sequences, FiniteSets

CONSTANTS Proposals,
          Submissions,   \* the step lists agents submit: Seq([label, after, fails])
          Patches,       \* the step lists reviewers send along
          Slug,          \* Slug[label]: what sanitizeId makes of a label
          Torn,          \* a store file cut short
          MaxCrashes     \* bound: how often the process dies

Labels == DOMAIN Slug
RawStep == [label : Labels, after : SUBSET Labels, fails : BOOLEAN]

ASSUME SubmissionAssumption ==
  /\ Submissions \cup Patches \subseteq Seq(RawStep)
  /\ \A raw \in Submissions \cup Patches : raw # <<>>
ASSUME NameAssumption == {"open", "write"} \cap Proposals = {}
ASSUME CrashAssumption == MaxCrashes \in Nat

VARIABLES store,         \* store[p]: proposal p and its mission, in memory
          disk,          \* what proposal-lifecycle.json holds
          turn,          \* what is left of the handler that runs
          runningMissions,
          delays,        \* the pending delays: <<p, i>> while step i of p is awaited
          up,            \* the process is alive
          crashes

vars == <<store, disk, turn, runningMissions, delays, up, crashes>>

ProposalStatus == {"none", "pending", "needs_changes", "approved", "rejected"}
MissionStatus  == {"none", "pending", "running", "completed", "failed", "blocked"}
StepStatus     == {"pending", "running", "completed", "failed"}
Step           == [id : {Slug[l] : l \in Labels}, deps : SUBSET {Slug[l] : l \in Labels}, fails : BOOLEAN]
Entry          == [status : ProposalStatus, title : {"asked", "patched"}, raw : Seq(RawStep),
                   steps : Seq(Step), mission : MissionStatus, stepStatus : Seq(StepStatus)]

NoEntry    == [status |-> "none", title |-> "asked", raw |-> <<>>, steps |-> <<>>,
               mission |-> "none", stepStatus |-> <<>>]
EmptyStore == [p \in Proposals |-> NoEntry]

TypeOK ==
  /\ store \in [Proposals -> Entry]
  /\ disk = Torn \/ disk \in [Proposals -> Entry]
  /\ turn \in Seq({"open", "write"} \cup Proposals)
  /\ runningMissions \subseteq Proposals
  /\ \A d \in delays : d[1] \in Proposals /\ d[2] \in DOMAIN store[d[1]].steps
  /\ up \in BOOLEAN
  /\ crashes \in 0..MaxCrashes

-----------------------------------------------------------------------------
(* Steps *)

\* Ids are sanitized, dependencies on unknown steps or on the step itself are
\* dropped, and a step that is left with none follows the one before it.
normalizeSteps(raw) ==
  LET ids == {Slug[raw[i].label] : i \in 1..Len(raw)}
  IN [i \in 1..Len(raw) |->
        LET id   == Slug[raw[i].label]
            kept == ({Slug[l] : l \in raw[i].after} \cap ids) \ {id}
        IN [id |-> id, fails |-> raw[i].fails,
            deps |-> IF kept = {} /\ i > 1 THEN {Slug[raw[i - 1].label]} ELSE kept]]

WithStatus(e, status) == {i \in DOMAIN e.stepStatus : e.stepStatus[i] = status}
CompletedIds(e) == {e.steps[i].id : i \in WithStatus(e, "completed")}

\* Mutant: the first step with a satisfied dependency is ready.
ReadyAny(e) == {i \in WithStatus(e, "pending") :
                  e.steps[i].deps = {} \/ e.steps[i].deps \cap CompletedIds(e) # {}}

readySteps(e) == {i \in WithStatus(e, "pending") : e.steps[i].deps \subseteq CompletedIds(e)}

-----------------------------------------------------------------------------
(* The handlers *)

Persist == <<"open", "write">>
Listening == up /\ turn = <<>>

SubmitProposal(p, raw) ==
  /\ Listening /\ store[p].status = "none"
  /\ store' = [store EXCEPT ![p] = [NoEntry EXCEPT !.status = "pending", !.raw = raw,
                                                   !.steps = normalizeSteps(raw)]]
  /\ turn' = Persist
  /\ UNCHANGED <<disk, runningMissions, delays, up, crashes>>

Reviewable(p) == Listening /\ store[p].status \in {"pending", "needs_changes"}

\* applyProposalPatch: what the patch leaves out stays, an empty step list too.
PatchInput == [title : BOOLEAN, raw : Patches \cup {<<>>}]
Patched(e, patch) == [e EXCEPT !.title = IF patch.title THEN "patched" ELSE @,
                               !.raw   = IF patch.raw = <<>> THEN @ ELSE patch.raw,
                               !.steps = IF patch.raw = <<>> THEN @ ELSE normalizeSteps(patch.raw)]

RejectOrModify(p, patch, status) ==
  /\ Reviewable(p)
  /\ store' = [store EXCEPT ![p] = [Patched(@, patch) EXCEPT !.status = status]]
  /\ turn' = Persist
  /\ UNCHANGED <<disk, runningMissions, delays, up, crashes>>

\* The patch's steps are refused after its other fields have been applied:
\* the review throws, and what it changed stays in memory, unsaved.
ReviewThrows(p) ==
  /\ Reviewable(p)
  /\ store' = [store EXCEPT ![p].title = "patched"]
  /\ UNCHANGED <<disk, turn, runningMissions, delays, up, crashes>>

\* The mission of an approved proposal: its steps, none of them begun.
proposalToMission(e) == [e EXCEPT !.mission = "pending", !.stepStatus = [i \in DOMAIN e.steps |-> "pending"]]

\* What startMission leaves to do: its own persist and, unless the mission has
\* a loop, the first round of runMission.
Schedule(p) == Persist \o (IF p \in runningMissions THEN <<>> ELSE <<p>>)

\* Mutant: the mission is created before the approval is recorded.
ApproveLate(p, patch, autoStart) ==
  /\ Reviewable(p)
  /\ store' = [store EXCEPT ![p] = [proposalToMission(Patched(@, patch)) EXCEPT
                 !.mission = IF autoStart THEN "running" ELSE "pending"]]
  /\ turn' = IF autoStart THEN Schedule(p) \o Persist ELSE Persist
  /\ runningMissions' = IF autoStart THEN runningMissions \cup {p} ELSE runningMissions
  /\ UNCHANGED <<disk, delays, up, crashes>>

Approve(p, patch, autoStart) ==
  /\ Reviewable(p)
  /\ store' = [store EXCEPT ![p] = [proposalToMission(Patched(@, patch)) EXCEPT
                 !.status = "approved",
                 !.mission = IF autoStart THEN "running" ELSE "pending"]]
  /\ turn' = IF autoStart THEN Schedule(p) \o Persist ELSE Persist
  /\ runningMissions' = IF autoStart THEN runningMissions \cup {p} ELSE runningMissions
  /\ UNCHANGED <<disk, delays, up, crashes>>

\* Mutant: any unfinished mission is scheduled, a running one included.
StartMissionAgain(p) ==
  /\ Listening /\ store[p].mission \in {"pending", "blocked", "running"}
  /\ store[p].status = "approved"
  /\ store' = [store EXCEPT ![p].mission = "running"]
  /\ turn' = Persist \o <<p>>
  /\ runningMissions' = runningMissions \cup {p}
  /\ UNCHANGED <<disk, delays, up, crashes>>

StartMission(p) ==   \* a running or completed mission is answered as it is; a failed one throws
  /\ Listening /\ store[p].mission \in {"pending", "blocked"}
  /\ store[p].status = "approved"
  /\ store' = [store EXCEPT ![p].mission = "running"]
  /\ turn' = Schedule(p)
  /\ runningMissions' = runningMissions \cup {p}
  /\ UNCHANGED <<disk, delays, up, crashes>>

-----------------------------------------------------------------------------
(* runMission *)

\* One round of the loop, up to the next await or return.
Round(p) ==
  LET e == store[p]
      ready == readySteps(e)
      Ends(status) == /\ store' = [store EXCEPT ![p].mission = status]
                      /\ runningMissions' = runningMissions \ {p}
                      /\ UNCHANGED delays
  IN /\ up /\ turn # <<>> /\ Head(turn) = p
     /\ CASE WithStatus(e, "pending") = {} -> Ends("completed")
          [] WithStatus(e, "pending") # {} /\ ready = {} -> Ends("blocked")
          [] OTHER -> \E i \in ready :
               /\ \A j \in ready : i <= j
               /\ store' = [store EXCEPT ![p].stepStatus[i] = "running"]
               /\ delays' = delays \cup {<<p, i>>}
               /\ UNCHANGED runningMissions
     /\ turn' = Persist \o Tail(turn)
     /\ UNCHANGED <<disk, up, crashes>>

\* Mutant: after a failed step the mission goes on with the next one.
DelayEndsCarriesOn(p, i) ==
  /\ Listening /\ <<p, i>> \in delays
  /\ delays' = delays \ {<<p, i>>}
  /\ store' = [store EXCEPT ![p].stepStatus[i] = IF store[p].steps[i].fails THEN "failed" ELSE "completed"]
  /\ turn' = Persist \o <<p>>
  /\ UNCHANGED <<disk, runningMissions, up, crashes>>

\* Mutant: a failed step ends the loop, but is neither recorded on the mission nor saved.
DelayEndsForgets(p, i) ==
  /\ Listening /\ <<p, i>> \in delays
  /\ delays' = delays \ {<<p, i>>}
  /\ store' = [store EXCEPT ![p].stepStatus[i] = IF store[p].steps[i].fails THEN "failed" ELSE "completed"]
  /\ turn' = IF store[p].steps[i].fails THEN <<>> ELSE Persist \o <<p>>
  /\ runningMissions' = IF store[p].steps[i].fails THEN runningMissions \ {p} ELSE runningMissions
  /\ UNCHANGED <<disk, up, crashes>>

DelayEnds(p, i) ==
  /\ Listening /\ <<p, i>> \in delays
  /\ delays' = delays \ {<<p, i>>}
  /\ IF store[p].steps[i].fails
       THEN /\ store' = [store EXCEPT ![p].stepStatus[i] = "failed", ![p].mission = "failed"]
            /\ runningMissions' = runningMissions \ {p}
            /\ turn' = Persist
       ELSE /\ store' = [store EXCEPT ![p].stepStatus[i] = "completed"]
            /\ turn' = Persist \o <<p>>
            /\ UNCHANGED runningMissions
  /\ UNCHANGED <<disk, up, crashes>>

-----------------------------------------------------------------------------
(* The store file *)

PersistOpens ==      \* writeFileSync has truncated the file
  /\ up /\ turn # <<>> /\ Head(turn) = "open"
  /\ disk' = Torn
  /\ turn' = Tail(turn)
  /\ UNCHANGED <<store, runningMissions, delays, up, crashes>>

PersistWrites ==
  /\ up /\ turn # <<>> /\ Head(turn) = "write"
  /\ disk' = store
  /\ turn' = Tail(turn)
  /\ UNCHANGED <<store, runningMissions, delays, up, crashes>>

Crash ==
  /\ up /\ crashes < MaxCrashes
  /\ crashes' = crashes + 1
  /\ up' = FALSE /\ turn' = <<>> /\ delays' = {} /\ runningMissions' = {}
  /\ UNCHANGED <<store, disk>>

Restart ==           \* readStore: what cannot be parsed is an empty store
  /\ ~up /\ up' = TRUE
  /\ store' = IF disk = Torn THEN EmptyStore ELSE disk
  /\ UNCHANGED <<disk, turn, runningMissions, delays, crashes>>

-----------------------------------------------------------------------------

Init == /\ store = EmptyStore /\ disk = EmptyStore   \* no file yet reads as an empty store
        /\ turn = <<>> /\ runningMissions = {} /\ delays = {}
        /\ up = TRUE /\ crashes = 0

Review(p) == \/ \E patch \in PatchInput :
                  \/ \E status \in {"rejected", "needs_changes"} : RejectOrModify(p, patch, status)
                  \/ \E autoStart \in BOOLEAN : Approve(p, patch, autoStart)
             \/ ReviewThrows(p)

Handler == PersistOpens \/ PersistWrites \/ \E p \in Proposals : Round(p)
Timer(p) == \E i \in DOMAIN store[p].steps : DelayEnds(p, i)

Next == \/ Handler \/ Crash \/ Restart
        \/ \E p \in Proposals : \/ Timer(p)
                                \/ \E raw \in Submissions : SubmitProposal(p, raw)
                                \/ Review(p) \/ StartMission(p)

Spec == Init /\ [][Next]_vars

\* The event loop finishes the handler it runs, a due timer is not overtaken by
\* requests for ever (each round of the loop looks at the timers first), and the
\* process is restarted.  Submissions, reviews and starts need not come.
FairSpec == Spec /\ WF_vars(Handler) /\ WF_vars(Restart) /\ \A p \in Proposals : SF_vars(Timer(p))

-----------------------------------------------------------------------------
(* Properties *)

Entries == {store[q] : q \in Proposals} \cup (IF disk = Torn THEN {} ELSE {disk[q] : q \in Proposals})
DistinctIds(e) == \A i, j \in DOMAIN e.steps : e.steps[i].id = e.steps[j].id => i = j

\* Steps run in dependency order: when the ids tell the steps apart, a step that
\* has started has nothing but completed steps before it, in memory and on disk.
DependencyOrder ==
  \A e \in Entries :
    DistinctIds(e) =>
      \A i \in DOMAIN e.stepStatus \ WithStatus(e, "pending") :
        \A j \in DOMAIN e.steps : e.steps[j].id \in e.steps[i].deps => e.stepStatus[j] = "completed"

\* Every dependency of the steps as submitted is on a step listed before.
Ordered(raw) ==
  \A i \in DOMAIN raw : {Slug[l] : l \in raw[i].after} \subseteq {Slug[raw[j].label] : j \in 1..(i - 1)}

\* The verdict on a mission is the verdict on its steps, and its loop never goes
\* round once there is one.  A mission blocks only when nothing is ready, and never
\* when its plan is listed in dependency order, whatever the default chain adds.
\* (Listed otherwise, an acyclic plan may block: the chain can close a cycle.)
VerdictSound ==
  \A p \in Proposals :
    LET e == store[p]
    IN /\ e.mission = "completed" => WithStatus(e, "completed") = DOMAIN e.steps
       /\ e.mission = "failed" <=> WithStatus(e, "failed") # {}
       /\ (\E k \in DOMAIN turn : turn[k] = p) => e.mission = "running"
       /\ e.mission = "blocked" =>
            WithStatus(e, "running") = {} /\ readySteps(e) = {} /\ ~Ordered(e.raw)

\* A mission has one loop: no two of its steps are under way, even when it is
\* started again.
OneStepAtATime ==
  \A p \in Proposals : /\ Cardinality(WithStatus(store[p], "running")) <= 1
                       /\ Cardinality({d \in delays : d[1] = p}) <= 1

\* Nothing runs without approval, whatever the process finds on restart: a mission
\* exists exactly for the proposals recorded as approved.
ApprovalGate == \A e \in Entries : e.mission # "none" <=> e.status = "approved"

\* The state is well typed, and between handlers everything is on disk, save what
\* a review that threw patched.
IdleIsPersisted ==
  TypeOK /\ (Listening /\ disk # Torn => \A p \in Proposals : [disk[p] EXCEPT !.title = store[p].title] = store[p])

\* A mission that runs comes to a verdict.
MissionsFinish == \A p \in Proposals : store[p].mission = "running" ~> store[p].mission # "running"
=============================================================================
