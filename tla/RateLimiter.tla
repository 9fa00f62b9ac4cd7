---------------------------- MODULE RateLimiter ----------------------------
(***************************************************************************)
(* The sliding-window limits on messages and challenges                    *)
(* (lib/rate-limiter.ts) as sendMessage uses them: checkAll looks at the   *)
(* windows, the awaits of the security pipeline follow, and recordMessage  *)
(* and recordChallenge enter what was delivered.  One limiter serves every *)
(* conversation, while the lock that makes check and record one operation  *)
(* is per conversation.                                                    *)
(*                                                                         *)
(* The clock is Date.now() in coarser ticks and never runs backwards.  The *)
(* count of rejections, which changes the delay suggested to an agent      *)
(* (linear or exponential, the latter up to 5 minutes), and changes of the *)
(* configuration are left out; one challenge limit and cooldown stands for *)
(* those of every pair.                                                    *)
(***************************************************************************)
EXTENDS Naturals, Sequences, FiniteSets

CONSTANTS AgentIds, Conversations,
          None,                                    \* no send under way
          Minute, Hour, Cooldown,                  \* spans, in ticks
          AgentPerMinute, AgentPerHour,
          ConversationPerMinute, ConversationPerHour, ChallengePerHour,
          MaxTime, MaxRecords                      \* bounds

ASSUME SpanAssumption == /\ {Minute, Hour, Cooldown} \subseteq Nat \ {0}
                         /\ Minute <= Hour /\ Cooldown <= Hour
ASSUME CapAssumption == {AgentPerMinute, AgentPerHour, ConversationPerMinute,
                         ConversationPerHour, ChallengePerHour} \subseteq Nat \ {0}
ASSUME FiniteAssumption == IsFiniteSet(Conversations) /\ Conversations # {}
ASSUME NoneAssumption == None \notin [from : AgentIds, to : AgentIds, challenge : BOOLEAN]
ASSUME BoundAssumption == {MaxTime, MaxRecords} \subseteq Nat

VARIABLES now, agentWindows, conversationWindows, challengeWindows,
          sending   \* sending[c]: the message of c that was checked and is not yet recorded

limiterVars == <<now, agentWindows, conversationWindows, challengeWindows, sending>>

pairKey(a, b) == {a, b}
Pairs == {pairKey(a, b) : a \in AgentIds, b \in AgentIds}
Send  == [from : AgentIds, to : AgentIds, challenge : BOOLEAN]

LimiterTypeOK ==
  /\ now \in Nat
  /\ agentWindows \in [AgentIds -> Seq(0..now)]
  /\ conversationWindows \in [Conversations -> Seq(0..now)]
  /\ challengeWindows \in [Pairs -> Seq(0..now)]
  /\ sending \in [Conversations -> Send \cup {None}]

-----------------------------------------------------------------------------
(* SlidingWindow: an event exactly span old is still in the window *)

InWindow(w, span, t) == {i \in DOMAIN w : w[i] + span >= t}

count(w, span, t) == Cardinality(InWindow(w, span, t))

\* Mutant: the oldest event of all, not of the window.
OldestEver(w, span, t) == w[1]

oldest(w, span, t) == w[CHOOSE i \in InWindow(w, span, t) : \A j \in InWindow(w, span, t) : i <= j]

\* Events are recorded in the order of time: what the filter keeps is a suffix.
prune(w, t) == SubSeq(w, Cardinality({i \in DOMAIN w : w[i] + Hour < t}) + 1, Len(w))

-----------------------------------------------------------------------------
(* The checks *)

effectivePerMinute == (AgentPerMinute * 3) \div 2   \* the burst allowance

\* Mutant: the limit itself is let through.
CheckAgentLoose(a) ==
  /\ count(agentWindows[a], Minute, now) <= effectivePerMinute
  /\ count(agentWindows[a], Hour, now) <= AgentPerHour

checkAgentLimit(a) ==
  /\ count(agentWindows[a], Minute, now) < effectivePerMinute
  /\ count(agentWindows[a], Hour, now) < AgentPerHour

checkConversationLimit(c) ==
  /\ count(conversationWindows[c], Minute, now) < ConversationPerMinute
  /\ count(conversationWindows[c], Hour, now) < ConversationPerHour

checkChallengeLimit(a, b) ==
  LET w == challengeWindows[pairKey(a, b)]
  IN /\ w # <<>> => now - w[Len(w)] >= Cooldown
     /\ count(w, Hour, now) < ChallengePerHour

checkAll(c, m) == /\ checkAgentLimit(m.from)
                  /\ checkConversationLimit(c)
                  /\ m.challenge => checkChallengeLimit(m.from, m.to)

\* The retryAfterMs of a conversation over its limit, without its lower bound.
retryAfter(c) ==
  LET w == conversationWindows[c]
  IN IF count(w, Minute, now) >= ConversationPerMinute
       THEN oldest(w, Minute, now) + Minute - now
       ELSE oldest(w, Hour, now) + Hour - now

-----------------------------------------------------------------------------
(* sendMessage, seen from the limiter *)

\* A message that is refused is answered at once.
Check(c, m) ==
  /\ sending[c] = None
  /\ checkAll(c, m)
  /\ sending' = [sending EXCEPT ![c] = m]
  /\ UNCHANGED <<now, agentWindows, conversationWindows, challengeWindows>>

Record(c) ==
  /\ sending[c] # None /\ Len(conversationWindows[c]) < MaxRecords
  /\ agentWindows' = [agentWindows EXCEPT ![sending[c].from] = Append(@, now)]
  /\ conversationWindows' = [conversationWindows EXCEPT ![c] = Append(@, now)]
  /\ challengeWindows' = IF sending[c].challenge
       THEN [challengeWindows EXCEPT ![pairKey(sending[c].from, sending[c].to)] = Append(@, now)]
       ELSE challengeWindows
  /\ sending' = [sending EXCEPT ![c] = None]
  /\ UNCHANGED now

Drop(c) ==   \* blocked later on (a role card, HITL, an error): nothing is recorded
  /\ sending[c] # None
  /\ sending' = [sending EXCEPT ![c] = None]
  /\ UNCHANGED <<now, agentWindows, conversationWindows, challengeWindows>>

Prune ==
  /\ agentWindows' = [a \in AgentIds |-> prune(agentWindows[a], now)]
  /\ conversationWindows' = [c \in Conversations |-> prune(conversationWindows[c], now)]
  /\ challengeWindows' = [p \in Pairs |-> prune(challengeWindows[p], now)]
  /\ UNCHANGED <<now, sending>>

Tick ==
  /\ now < MaxTime /\ now' = now + 1
  /\ UNCHANGED <<agentWindows, conversationWindows, challengeWindows, sending>>

LimiterInit ==
  /\ now = 0
  /\ agentWindows = [a \in AgentIds |-> <<>>]
  /\ conversationWindows = [c \in Conversations |-> <<>>]
  /\ challengeWindows = [p \in Pairs |-> <<>>]
  /\ sending = [c \in Conversations |-> None]

LimiterNext ==
  \/ Tick \/ Prune
  \/ \E c \in Conversations : \/ \E m \in Send : m.from # m.to /\ Check(c, m)
                              \/ Record(c) \/ Drop(c)

LimiterSpec == LimiterInit /\ [][LimiterNext]_limiterVars

-----------------------------------------------------------------------------
(* Properties *)

SentBy(a) == {c \in Conversations : sending[c] # None /\ sending[c].from = a}
ChallengedIn(p) == {c \in Conversations : /\ sending[c] # None /\ sending[c].challenge
                                          /\ pairKey(sending[c].from, sending[c].to) = p}
Spare == Cardinality(Conversations) - 1

\* The windows are well typed and no limit is exceeded by more than the locks
\* explain, with what is still under way counted in.  A conversation's own limits
\* are exact, since its lock covers check and record.  Between check and record
\* every other conversation may let the same agent, or a challenge of the same
\* pair, through once.
LimitsHold ==
  /\ LimiterTypeOK
  /\ \A c \in Conversations :
       LET open == IF sending[c] = None THEN 0 ELSE 1
       IN /\ count(conversationWindows[c], Minute, now) + open <= ConversationPerMinute
          /\ count(conversationWindows[c], Hour, now) + open <= ConversationPerHour
  /\ \A a \in AgentIds :
       /\ count(agentWindows[a], Minute, now) + Cardinality(SentBy(a)) <= effectivePerMinute + Spare
       /\ count(agentWindows[a], Hour, now) + Cardinality(SentBy(a)) <= AgentPerHour + Spare
  /\ \A p \in Pairs :
       Cardinality({i \in DOMAIN challengeWindows[p] : challengeWindows[p][i] + Cooldown > now})
         + Cardinality(ChallengedIn(p)) <= Cardinality(Conversations)

\* Whoever is refused by a conversation's limit and waits a tick longer than
\* retryAfter says is let through, if nobody sent meanwhile.
RetryAfterHonest ==
  \A c \in Conversations :
    ~checkConversationLimit(c) =>
      LET w == conversationWindows[c]
          later == now + retryAfter(c) + 1
      IN \/ count(w, Minute, later) < ConversationPerMinute /\ count(w, Hour, later) < ConversationPerHour
         \/ count(w, Minute, now) >= ConversationPerMinute /\ count(w, Hour, later) >= ConversationPerHour
=============================================================================
