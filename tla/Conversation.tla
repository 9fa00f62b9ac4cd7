---------------------------- MODULE Conversation ----------------------------
(***************************************************************************)
(* One conversation of the multi-agent chat (lib/conversation-engine.ts)   *)
(* with the human-in-the-loop escalation that guards it (lib/hitl.ts) and  *)
(* its two stores: the SQLite store saves in one transaction and never     *)
(* deletes a row, the file store writes its JSON file in place.            *)
(*                                                                         *)
(* sendMessage, setStatus and addParticipant run under a lock per          *)
(* conversation, cut here at their awaits: load, security pipeline, save.  *)
(* startConversation takes no lock.  A call that waits for the lock is one *)
(* that comes later.  Texts are left out; a message keeps its injection    *)
(* score (0 low, 1 high enough for approval) and its estimated tokens.  A  *)
(* list of recipients is represented by the first that is a participant.   *)
(* Affinity, role cards, rate limits and the sanitizer appear by their     *)
(* verdicts, triggers that only notify are left out.                       *)
(***************************************************************************)
EXTENDS Naturals, Sequences, FiniteSets

CONSTANTS Agents,
          Mediator,          \* the agent low-affinity messages are routed through
          Inputs,            \* the messages clients send
          Casts,             \* the participants a conversation is started with, and who begins,
                             \* whom the request names freely
          Missing, Torn,     \* no stored conversation; a file cut short
          ChallengeLimit, ScoreWindow, PauseTokens,
          SummaryTrigger, SummaryChunk,
          MaxMessages, MaxStarts, MaxCrashes   \* bounds

Human  == "user"
System == "system"
MessageInput == [from : Agents \cup {Human, System}, to : Agents \cup {Human},
                 challenge : BOOLEAN, score : 0..1, tokens : 1..2, overrideTurn : BOOLEAN]

ASSUME InputAssumption == Inputs \subseteq MessageInput /\ Mediator \in Agents
ASSUME CastAssumption == \A c \in Casts : c.members \subseteq Agents /\ c.members # {} /\ c.first \in Agents
ASSUME LimitAssumption ==
  /\ {ChallengeLimit, ScoreWindow, PauseTokens, SummaryTrigger, SummaryChunk} \subseteq Nat \ {0}
  /\ {MaxMessages, MaxStarts, MaxCrashes} \subseteq Nat

VARIABLES disk,     \* what the store holds
          op,       \* the operation that has the lock
          starts,   \* under way: startConversation between its begin and its save; and how many began
          alerts,   \* the triggers HITLEngine.alerts has an alert for, in memory
          sent,     \* how many messages were sent
          inPlace,  \* the file store (TRUE) or the SQLite store
          up, crashes

vars == <<disk, op, starts, alerts, sent, inPlace, up, crashes>>

Status == {"active", "paused", "require_approval", "closed"}
StopTrigger == {"injection_block", "consecutive_challenges", "token_budget_exhaustion"}
Message == [challenge : BOOLEAN, score : 0..1, tokens : 1..2, delivered : BOOLEAN]
\* statusReason is a text: here whether HITL or a caller gave it.
\* since and opener are history: how many messages the store already had when it
\* began, and who was to begin.
State == [status : Status, reason : {"none", "hitl", "caller"}, participants : SUBSET (Agents \cup {System}),
          currentTurn : Agents \cup {System}, tokensUsed : Nat, consecutiveChallenges : Nat,
          injectionScores : Seq(0..1), messages : Seq(Message), covered : Nat, since : Nat, opener : Agents]
ASSUME MissingAssumption == Missing # Torn /\ Missing \notin State /\ Torn \notin State

Idle == [kind |-> "none"]
Op == {Idle}
      \cup [kind : {"send"}, at : {"loaded"}, state : State, input : Inputs]
      \cup [kind : {"send"}, at : {"checked"}, state : State, input : Inputs,
            deliveredTo : Agents \cup {Human}, verdict : {"ok", "refused"}, action : {"continue", "pause", "require_approval"}]
      \cup [kind : {"save"}, state : State]
      \cup [kind : {"setStatus"}, state : State, status : Status]
      \cup [kind : {"addParticipant"}, state : State, agent : Agents]

TypeOK ==
  /\ disk \in {Missing, Torn} \cup State
  /\ disk \in State => Len(disk.injectionScores) <= ScoreWindow /\ disk.covered <= Len(disk.messages)
  /\ op \in Op
  /\ starts \in [pending : BOOLEAN, count : 0..MaxStarts]
  /\ alerts \subseteq StopTrigger
  /\ sent \in 0..MaxMessages
  /\ inPlace \in BOOLEAN /\ up \in BOOLEAN /\ crashes \in 0..MaxCrashes

Stored == disk \in State
-----------------------------------------------------------------------------
(* HITL *)

\* checkInjectionScore of this message, and checkConversationState, which looks
\* at what was recorded before it.  Math.max over the window is a membership.
MatchedTriggers(r, m) ==
  {t \in StopTrigger :
     CASE t = "injection_block" -> m.score = 1 \/ \E i \in DOMAIN r.injectionScores : r.injectionScores[i] = 1
       [] t = "consecutive_challenges" -> r.consecutiveChallenges >= ChallengeLimit
       [] t = "token_budget_exhaustion" -> r.tokensUsed >= PauseTokens}

\* buildResult: the most severe action.
HitlAction(matched) ==
  CASE "injection_block" \in matched -> "require_approval"
    [] "injection_block" \notin matched /\ matched # {} -> "pause"
    [] matched = {} -> "continue"

-----------------------------------------------------------------------------
(* The engine's bookkeeping *)

LastOf(s, n) == SubSeq(s, IF Len(s) > n THEN Len(s) - n + 1 ELSE 1, Len(s))

\* Mutant: any message, a blocked one too, ends a run of challenges.
AppendResets(r, m, delivered) ==
  [r EXCEPT !.messages = Append(@, [challenge |-> m.challenge, score |-> m.score,
                                    tokens |-> m.tokens, delivered |-> delivered]),
            !.injectionScores = LastOf(Append(@, m.score), ScoreWindow),
            !.tokensUsed = @ + m.tokens,
            !.consecutiveChallenges = IF delivered THEN @ ELSE 0]

appendMessage(r, m, delivered) ==
  [r EXCEPT !.messages = Append(@, [challenge |-> m.challenge, score |-> m.score,
                                    tokens |-> m.tokens, delivered |-> delivered]),
            !.injectionScores = LastOf(Append(@, m.score), ScoreWindow),
            !.tokensUsed = @ + m.tokens]

\* A chunk of the oldest messages that no summary covers is summarized.
maybeSummarize(r) ==
  IF Len(r.messages) >= SummaryTrigger /\ Len(r.messages) - r.covered >= SummaryChunk
    THEN [r EXCEPT !.covered = @ + SummaryChunk] ELSE r

\* Mutant: the turn goes to whoever the message was delivered to.
DeliveredAnyTurn(r, m, to) ==
  [appendMessage(r, m, TRUE) EXCEPT
     !.consecutiveChallenges = IF m.challenge THEN @ + 1 ELSE 0, !.currentTurn = to]

Delivered(r, m, to) ==
  [appendMessage(r, m, TRUE) EXCEPT
     !.consecutiveChallenges = IF m.challenge THEN @ + 1 ELSE 0,
     !.currentTurn = IF to \in r.participants THEN to ELSE @]

Stopped(r, m, status) == [appendMessage(r, m, FALSE) EXCEPT !.status = status, !.reason = "hitl"]

\* What sendMessage saves.  A message the rate limiter or a role card refuses
\* is appended as blocked, whatever HITL says of it.
AfterSend(o) ==
  CASE o.verdict = "refused" -> appendMessage(o.state, o.input, FALSE)
    [] o.verdict = "ok" /\ o.action = "continue" -> maybeSummarize(Delivered(o.state, o.input, o.deliveredTo))
    [] o.verdict = "ok" /\ o.action = "pause" -> maybeSummarize(Stopped(o.state, o.input, "paused"))
    [] o.verdict = "ok" /\ o.action = "require_approval" ->
         maybeSummarize(Stopped(o.state, o.input, "require_approval"))

\* Status gating and turn management: a message that does not pass is answered
\* as blocked or rejected, and nothing is saved.
Admitted(r, m) ==
  /\ r.status # "closed"
  /\ r.status \in {"paused", "require_approval"} => m.from = System
  /\ m.overrideTurn \/ m.from \in {Human, System} \/ m.from = r.currentTurn

-----------------------------------------------------------------------------
(* The store *)

\* The SQLite store inserts the rows it does not have and deletes none.
Merged(r) ==
  IF inPlace \/ ~Stored THEN r
  ELSE [r EXCEPT !.messages = IF Len(disk.messages) > Len(@) THEN disk.messages ELSE @,
                 !.participants = @ \cup disk.participants]

Fresh(cast) ==
  [status |-> "active", reason |-> "none", participants |-> cast.members, currentTurn |-> cast.first,
   tokensUsed |-> 0, consecutiveChallenges |-> 0, injectionScores |-> <<>>, messages |-> <<>>,
   covered |-> 0, since |-> 0, opener |-> cast.first]

StartBegins ==
  /\ up /\ ~starts.pending /\ starts.count < MaxStarts
  /\ starts' = [pending |-> TRUE, count |-> starts.count + 1]
  /\ disk' = IF inPlace THEN Torn ELSE disk
  /\ UNCHANGED <<op, alerts, sent, inPlace, up, crashes>>

StartSaves ==
  /\ up /\ starts.pending
  /\ \E cast \in Casts :
       LET had == IF inPlace \/ ~Stored THEN 0 ELSE Len(disk.messages)
       IN disk' = Merged([Fresh(cast) EXCEPT !.since = had])
  /\ starts' = [starts EXCEPT !.pending = FALSE]
  /\ UNCHANGED <<op, alerts, sent, inPlace, up, crashes>>

-----------------------------------------------------------------------------
(* Operations under the lock *)

\* getConversation throws on a conversation that is missing or unreadable, and
\* the lock is released.
Locks == up /\ op = Idle /\ Stored

SendLoads(m) ==
  /\ Locks /\ sent < MaxMessages /\ sent' = sent + 1
  /\ Admitted(disk, m)
  /\ op' = [kind |-> "send", at |-> "loaded", state |-> disk, input |-> m]
  /\ UNCHANGED <<disk, starts, alerts, inPlace, up, crashes>>

\* A message between agents may be routed through the mediator.
Routes(m) == {m.to} \cup (IF m.from \in Agents /\ m.to \in Agents \ {Mediator} THEN {Mediator} ELSE {})

\* Mutant: an alert handler that throws keeps the alerts after it from being fired.
SendChecksQuiet ==
  /\ up /\ op.kind = "send" /\ op.at = "loaded"
  /\ LET matched == MatchedTriggers(op.state, op.input)
     IN /\ \E fired \in SUBSET matched : alerts' = alerts \cup fired
        /\ \E to \in Routes(op.input), verdict \in {"ok", "refused", "malformed"} :
             op' = IF verdict = "malformed" THEN Idle   \* answered as blocked, not saved
                   ELSE [kind |-> "send", at |-> "checked", state |-> op.state, input |-> op.input,
                         deliveredTo |-> to, verdict |-> verdict, action |-> HitlAction(matched)]
  /\ UNCHANGED <<disk, starts, sent, inPlace, up, crashes>>

SendChecks ==
  /\ up /\ op.kind = "send" /\ op.at = "loaded"
  /\ LET matched == MatchedTriggers(op.state, op.input)
     IN /\ alerts' = alerts \cup matched
        /\ \E to \in Routes(op.input), verdict \in {"ok", "refused", "malformed"} :
             op' = IF verdict = "malformed" THEN Idle   \* answered as blocked, not saved
                   ELSE [kind |-> "send", at |-> "checked", state |-> op.state, input |-> op.input,
                         deliveredTo |-> to, verdict |-> verdict, action |-> HitlAction(matched)]
  /\ UNCHANGED <<disk, starts, sent, inPlace, up, crashes>>

\* Anything that throws after the load (a role card that cannot be read, the
\* summarizer) releases the lock and saves nothing.
OpThrows ==
  /\ up /\ op.kind = "send"
  /\ op' = Idle
  /\ UNCHANGED <<disk, starts, alerts, sent, inPlace, up, crashes>>

\* Mutant: setStatus does not wait for the lock, its load and save come at once.
StatusAtOnce(status) ==
  /\ up /\ Stored
  /\ disk' = [disk EXCEPT !.status = status, !.reason = "caller"]
  /\ UNCHANGED <<op, starts, alerts, sent, inPlace, up, crashes>>

StatusLoads(status) ==
  /\ Locks
  /\ op' = [kind |-> "setStatus", state |-> disk, status |-> status]
  /\ UNCHANGED <<disk, starts, alerts, sent, inPlace, up, crashes>>

JoinLoads(a) ==
  /\ Locks
  /\ op' = [kind |-> "addParticipant", state |-> disk, agent |-> a]
  /\ UNCHANGED <<disk, starts, alerts, sent, inPlace, up, crashes>>

\* What the operation saves.
Result ==
  CASE op.kind = "send" -> AfterSend(op)
    [] op.kind = "save" -> op.state
    [] op.kind = "setStatus" ->
         [op.state EXCEPT !.status = op.status, !.reason = "caller"]
    [] op.kind = "addParticipant" -> [op.state EXCEPT !.participants = @ \cup {op.agent}]

Saving == op.kind \in {"save", "setStatus", "addParticipant"} \/ (op.kind = "send" /\ op.at = "checked")

SaveTruncates ==   \* the file store: writeFile has emptied the file
  /\ up /\ inPlace /\ Saving /\ op.kind # "save"
  /\ op' = [kind |-> "save", state |-> Result]
  /\ disk' = Torn
  /\ UNCHANGED <<starts, alerts, sent, inPlace, up, crashes>>

SaveCompletes ==
  /\ up /\ Saving /\ (inPlace => op.kind = "save")
  /\ disk' = Merged(Result)
  /\ op' = Idle
  /\ UNCHANGED <<starts, alerts, sent, inPlace, up, crashes>>

-----------------------------------------------------------------------------
Crash ==
  /\ up /\ crashes < MaxCrashes
  /\ up' = FALSE /\ crashes' = crashes + 1
  /\ op' = Idle /\ alerts' = {} /\ starts' = [starts EXCEPT !.pending = FALSE]
  /\ UNCHANGED <<disk, sent, inPlace>>

Restart ==
  /\ ~up /\ up' = TRUE
  /\ UNCHANGED <<disk, op, starts, alerts, sent, inPlace, crashes>>

Init ==
  /\ disk = Missing /\ op = Idle /\ starts = [pending |-> FALSE, count |-> 0]
  /\ alerts = {} /\ sent = 0 /\ inPlace \in BOOLEAN /\ up = TRUE /\ crashes = 0

Engine == SendChecks \/ OpThrows \/ SaveTruncates \/ SaveCompletes \/ StartSaves
Client == \/ StartBegins
          \/ \E m \in Inputs : SendLoads(m)
          \/ \E s \in Status : StatusLoads(s)
          \/ \E a \in Agents : JoinLoads(a)

Next == Engine \/ Client \/ Crash \/ Restart
Spec == Init /\ [][Next]_vars

-----------------------------------------------------------------------------
(* Properties *)

\* The messages of the conversation since it was last started.
Era(r) == SubSeq(r.messages, r.since + 1, Len(r.messages))

\* How many delivered challenges precede position i without another delivery between.
ChallengeRun(s, i) ==
  Cardinality({j \in 1..(i - 1) : /\ s[j].delivered
                                  /\ \A k \in j..(i - 1) : s[k].delivered => s[k].challenge})

\* The tokens of the first n messages of s, each of which has one or two.
Tokens(s, n) == n + Cardinality({j \in 1..n : s[j].tokens = 2})

\* Nothing is delivered while HITL has a reason to stop the conversation: by the
\* record itself, no delivered message follows ChallengeLimit challenges in a row,
\* is risky or has a risky one in the window before it, or comes after the token
\* budget is spent; blocked messages count, whatever was set, crashed or restarted
\* in between.
DeliveredIsCleared ==
  Stored => LET s == Era(disk)
            IN \A i \in DOMAIN s : s[i].delivered =>
                 /\ ChallengeRun(s, i) < ChallengeLimit
                 /\ \A j \in DOMAIN s : j <= i /\ j + ScoreWindow >= i => s[j].score = 0
                 /\ Tokens(s, i - 1) < PauseTokens

\* Operations on a conversation do not overwrite each other: what an operation
\* has loaded is what is stored, unless the conversation was started anew meanwhile.
NoLostUpdate ==
  op # Idle /\ op.kind # "save" /\ Stored =>
    \/ op.state = disk
    \/ disk.status = "active" /\ disk.reason = "none" /\ disk.tokensUsed = 0

\* A conversation that HITL stopped has an alert of the kind that stops it so,
\* for a human to find, as long as the process lives.
StopHasAlert ==
  crashes = 0 /\ Stored /\ disk.reason = "hitl" =>
    \E t \in alerts : (t = "injection_block") <=> (disk.status = "require_approval")

\* The state is well typed, and the turn is held by a participant, who can take it,
\* or still or again by the agent that the start request named, who need not be one:
\* the engine itself hands it to nobody else (a user, a mediator who is not in),
\* with whom no agent could speak any more.
TurnHolderPresent == TypeOK /\ (Stored => disk.currentTurn \in disk.participants \cup {disk.opener})
=============================================================================
