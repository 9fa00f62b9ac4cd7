------------------------- MODULE ConversationProofs -------------------------
(***************************************************************************)
(* What the conversation engine promises whatever the limits, the messages *)
(* and the store, under unlocked restarts and crashes: nothing is          *)
(* delivered that HITL had a reason to stop, no update is lost, a          *)
(* conversation that was stopped has its alert, and the turn is held by a  *)
(* participant or by whom the start request named.                         *)
(*                                                                         *)
(* And of the rate limiter that sendMessage asks: the limits hold for any  *)
(* agents, conversations, limits and spans, with the slack that            *)
(* conversations sharing one limiter explain, and the delay that is        *)
(* suggested to a conversation over its limit is enough.                   *)
(***************************************************************************)
EXTENDS Conversation, RateLimiter, FiniteSetTheorems, SequenceTheorems, WellFoundedInduction, TLAPS

-----------------------------------------------------------------------------
(* The record of messages, and the counters HITL looks at *)

\* Nothing in s was delivered that HITL had a reason to stop.
Cleared(s) ==
  \A i \in DOMAIN s : s[i].delivered =>
    /\ ChallengeRun(s, i) < ChallengeLimit
    /\ \A j \in DOMAIN s : j <= i /\ j + ScoreWindow >= i => s[j].score = 0
    /\ Tokens(s, i - 1) < PauseTokens

\* The counters say of s what the messages themselves say.
Counted(s, tokens, challenges, scores) ==
  /\ tokens = Tokens(s, Len(s))
  /\ challenges = ChallengeRun(s, Len(s) + 1)
  /\ Len(scores) = IF Len(s) > ScoreWindow THEN ScoreWindow ELSE Len(s)
  /\ \A k \in 1..Len(scores) : scores[k] = s[Len(s) - Len(scores) + k].score

Faithful(r) ==
  /\ r.since <= Len(r.messages)
  /\ Counted(Era(r), r.tokensUsed, r.consecutiveChallenges, r.injectionScores)
  /\ Cleared(Era(r))

LEMMA Limits ==
  /\ {ChallengeLimit, ScoreWindow, PauseTokens, SummaryTrigger, SummaryChunk} \subseteq Nat \ {0}
  /\ ChallengeLimit \in Nat /\ ScoreWindow \in Nat \ {0} /\ PauseTokens \in Nat
  /\ MaxMessages \in Nat /\ MaxStarts \in Nat /\ MaxCrashes \in Nat
BY LimitAssumption

LEMMA MessageFields ==
  ASSUME NEW m \in Message
  PROVE  m.challenge \in BOOLEAN /\ m.score \in 0..1 /\ m.tokens \in 1..2 /\ m.delivered \in BOOLEAN
BY DEF Message

\* The challenges counted before a position.
Run(s, i) == {j \in 1..(i - 1) : s[j].delivered /\ \A k \in j..(i - 1) : s[k].delivered => s[k].challenge}
Doubles(s, n) == {j \in 1..n : s[j].tokens = 2}

LEMMA FiniteCounts ==
  ASSUME NEW s, NEW n \in Nat
  PROVE  IsFiniteSet(Run(s, n + 1)) /\ IsFiniteSet(Doubles(s, n))
<1>1. IsFiniteSet(1..n)
  BY FS_Interval
<1>2. Run(s, n + 1) \in SUBSET (1..n) /\ Doubles(s, n) \in SUBSET (1..n)
  BY DEF Run, Doubles
<1> QED
  BY <1>1, <1>2, FS_Subset

\* What comes later does not change what was counted before.
LEMMA CountsStay ==
  ASSUME NEW s \in Seq(Message), NEW m \in Message, NEW i \in 1..(Len(s) + 1)
  PROVE  /\ Run(Append(s, m), i) = Run(s, i)
         /\ Doubles(Append(s, m), i - 1) = Doubles(s, i - 1)
<1>1. Len(s) \in Nat /\ \A j \in 1..Len(s) : Append(s, m)[j] = s[j]
  BY AppendProperties, LenProperties
<1>2. \A j \in 1..(i - 1) : j \in 1..Len(s)
  BY <1>1
<1>3. \A j \in 1..(i - 1) : \A k \in j..(i - 1) : k \in 1..(i - 1)
  BY <1>1
<1> QED
  BY <1>1, <1>2, <1>3 DEF Run, Doubles

LEMMA RunGrows ==
  ASSUME NEW s \in Seq(Message), NEW m \in Message
  PROVE  ChallengeRun(Append(s, m), Len(s) + 2) =
           IF ~m.delivered THEN ChallengeRun(s, Len(s) + 1)
           ELSE IF m.challenge THEN ChallengeRun(s, Len(s) + 1) + 1 ELSE 0
<1> DEFINE n == Len(s)
           t == Append(s, m)
<1>1. n \in Nat /\ (\A j \in 1..n : t[j] = s[j]) /\ t[n + 1] = m
  BY AppendProperties, LenProperties
<1>2. ChallengeRun(t, n + 2) = Cardinality(Run(t, n + 2)) /\ ChallengeRun(s, n + 1) = Cardinality(Run(s, n + 1))
  BY DEF ChallengeRun, Run
<1>3. (n + 2) - 1 = n + 1 /\ (n + 1) - 1 = n
  BY <1>1
<1> HIDE DEF n, t
<1>4. Run(t, n + 2) = {j \in 1..(n + 1) : t[j].delivered /\ \A k \in j..(n + 1) : t[k].delivered => t[k].challenge}
  BY <1>3 DEF Run
<1>5. Run(s, n + 1) = {j \in 1..n : s[j].delivered /\ \A k \in j..n : s[k].delivered => s[k].challenge}
  BY <1>3 DEF Run
<1>6. \A j \in 1..n : j \in 1..(n + 1) /\ j # n + 1 /\ n + 1 \in j..(n + 1)
  BY <1>1
<1>7. \A j \in 1..(n + 1) : j \in 1..n \/ j = n + 1
  BY <1>1
<1>8. \A j \in 1..(n + 1) : \A k \in j..(n + 1) : k = n + 1 \/ (k \in j..n /\ k \in 1..n)
  BY <1>1
<1>9. \A j \in 1..n : \A k \in j..n : k \in j..(n + 1) /\ k \in 1..n
  BY <1>1
<1>10. n + 1 \in 1..(n + 1) /\ \A k \in (n + 1)..(n + 1) : k = n + 1
  BY <1>1
<1>11. CASE ~m.delivered
  <2>1. Run(t, n + 2) = Run(s, n + 1)
    BY <1>1, <1>4, <1>5, <1>6, <1>7, <1>8, <1>9, <1>11
  <2> QED
    BY <1>2, <1>11, <2>1 DEF n, t
<1>12. CASE m.delivered /\ m.challenge
  <2>1. Run(t, n + 2) = Run(s, n + 1) \cup {n + 1}
    BY <1>1, <1>4, <1>5, <1>6, <1>7, <1>8, <1>9, <1>10, <1>12
  <2>2. n + 1 \notin Run(s, n + 1) /\ IsFiniteSet(Run(s, n + 1))
    BY <1>1, <1>5, <1>6, FiniteCounts
  <2>3. Cardinality(Run(t, n + 2)) = Cardinality(Run(s, n + 1)) + 1
    BY <2>1, <2>2, FS_AddElement
  <2> QED
    BY <1>2, <1>12, <2>3 DEF n, t
<1>13. CASE m.delivered /\ ~m.challenge
  <2>1. Run(t, n + 2) = {}
    BY <1>1, <1>4, <1>6, <1>7, <1>10, <1>13
  <2>2. Cardinality(Run(t, n + 2)) = 0
    BY <2>1, FS_EmptySet
  <2> QED
    BY <1>2, <1>13, <2>2 DEF n, t
<1> QED
  BY <1>11, <1>12, <1>13

LEMMA TokensGrow ==
  ASSUME NEW s \in Seq(Message), NEW m \in Message
  PROVE  Tokens(Append(s, m), Len(s) + 1) = Tokens(s, Len(s)) + m.tokens
<1> DEFINE n == Len(s)
           t == Append(s, m)
<1>1. n \in Nat /\ (\A j \in 1..n : t[j] = s[j]) /\ t[n + 1] = m
  BY AppendProperties, LenProperties
<1>2. /\ Tokens(t, n + 1) = (n + 1) + Cardinality(Doubles(t, n + 1))
      /\ Tokens(s, n) = n + Cardinality(Doubles(s, n))
  BY DEF Tokens, Doubles
<1> HIDE DEF n, t
<1>3. IsFiniteSet(Doubles(s, n)) /\ Cardinality(Doubles(s, n)) \in Nat /\ n + 1 \notin Doubles(s, n)
  BY <1>1, FiniteCounts, FS_CardinalityType DEF Doubles
<1>4. 1..(n + 1) = (1..n) \cup {n + 1} /\ n + 1 \notin 1..n
  BY <1>1
<1>5. CASE m.tokens = 2
  <2>1. Doubles(t, n + 1) = Doubles(s, n) \cup {n + 1}
    BY <1>1, <1>4, <1>5 DEF Doubles
  <2>2. Cardinality(Doubles(t, n + 1)) = Cardinality(Doubles(s, n)) + 1
    BY <1>3, <2>1, FS_AddElement
  <2> QED
    BY <1>1, <1>2, <1>3, <1>5, <2>2 DEF n, t
<1>6. CASE m.tokens = 1
  <2>1. Doubles(t, n + 1) = Doubles(s, n)
    BY <1>1, <1>4, <1>6 DEF Doubles
  <2> QED
    BY <1>1, <1>2, <1>3, <1>6, <2>1 DEF n, t
<1> QED
  BY <1>5, <1>6, MessageFields

\* The window keeps the newest scores.
LEMMA WindowSlides ==
  ASSUME NEW scores \in Seq(0..1), NEW x \in 0..1, Len(scores) <= ScoreWindow
  PROVE  LET w == LastOf(Append(scores, x), ScoreWindow)
         IN /\ w \in Seq(0..1)
            /\ Len(w) = IF Len(scores) = ScoreWindow THEN ScoreWindow ELSE Len(scores) + 1
            /\ w[Len(w)] = x
            /\ \A k \in 1..(Len(w) - 1) : w[k] = scores[Len(scores) + 1 - Len(w) + k]
<1> DEFINE a == Append(scores, x)
           n == Len(scores)
           from == IF n + 1 > ScoreWindow THEN n + 1 - ScoreWindow + 1 ELSE 1
           w == SubSeq(a, from, n + 1)
<1>1. /\ n \in Nat /\ ScoreWindow \in Nat \ {0} /\ n <= ScoreWindow /\ a \in Seq(0..1) /\ Len(a) = n + 1
      /\ (\A i \in 1..n : a[i] = scores[i]) /\ a[n + 1] = x /\ \A i \in 1..(n + 1) : a[i] \in 0..1
  BY Limits, AppendProperties, LenProperties, ElementOfSeq
<1>2. LastOf(a, ScoreWindow) = w
  BY <1>1 DEF LastOf
<1>3. from \in 1..2 /\ (from = 2 <=> n = ScoreWindow) /\ from <= n + 1
  BY <1>1
<1> HIDE DEF a, n, from
<1>4. /\ w \in Seq(0..1) /\ Len(w) = n + 1 - from + 1
      /\ \A i \in 1..(n + 1 - from + 1) : w[i] = a[from + i - 1]
  <2>1. from \in Int /\ n + 1 \in Int /\ \A i \in from..(n + 1) : a[i] \in 0..1
    BY <1>1, <1>3
  <2> QED
    BY <1>1, <1>3, <2>1, SubSeqProperties
<1> HIDE DEF w
<1>5. Len(w) = IF n = ScoreWindow THEN ScoreWindow ELSE n + 1
  BY <1>1, <1>3, <1>4
<1>6. w[Len(w)] = x
  <2>1. Len(w) \in 1..(n + 1 - from + 1) /\ from + Len(w) - 1 = n + 1
    BY <1>1, <1>3, <1>4
  <2> QED
    BY <1>1, <1>4, <2>1
<1>7. ASSUME NEW k \in 1..(Len(w) - 1) PROVE w[k] = scores[n + 1 - Len(w) + k]
  <2>1. k \in 1..(n + 1 - from + 1) /\ from + k - 1 \in 1..n /\ from + k - 1 = n + 1 - Len(w) + k
    BY <1>1, <1>3, <1>4
  <2> QED
    BY <1>1, <1>4, <2>1
<1> QED
  BY <1>2, <1>4, <1>5, <1>6, <1>7 DEF n, a

RunAfter(challenges, m) == IF ~m.delivered THEN challenges ELSE IF m.challenge THEN challenges + 1 ELSE 0

\* One more message, with the counters brought up to date, keeps the record faithful,
\* if it is blocked or HITL has no reason to stop it.
LEMMA AppendFaithful ==
  ASSUME NEW s \in Seq(Message), NEW m \in Message, NEW tokens \in Nat, NEW challenges \in Nat,
         NEW scores \in Seq(0..1), Counted(s, tokens, challenges, scores), Cleared(s),
         m.delivered => /\ m.score = 0 /\ \A k \in DOMAIN scores : scores[k] = 0
                        /\ challenges < ChallengeLimit /\ tokens < PauseTokens
  PROVE  /\ Counted(Append(s, m), tokens + m.tokens,
                    RunAfter(challenges, m), LastOf(Append(scores, m.score), ScoreWindow))
         /\ Cleared(Append(s, m))
<1> DEFINE n == Len(s)
           t == Append(s, m)
           w == LastOf(Append(scores, m.score), ScoreWindow)
<1>1. /\ n \in Nat /\ t \in Seq(Message) /\ Len(t) = n + 1 /\ (\A j \in 1..n : t[j] = s[j]) /\ t[n + 1] = m
      /\ DOMAIN s = 1..n /\ DOMAIN t = 1..(n + 1)
  BY AppendProperties, LenProperties
<1>2. /\ tokens = Tokens(s, n) /\ challenges = ChallengeRun(s, n + 1)
      /\ Len(scores) = IF n > ScoreWindow THEN ScoreWindow ELSE n
      /\ \A k \in 1..Len(scores) : scores[k] = s[n - Len(scores) + k].score
  BY DEF Counted
<1>3. ScoreWindow \in Nat \ {0} /\ Len(scores) \in Nat /\ DOMAIN scores = 1..Len(scores) /\ m.score \in 0..1
  BY Limits, LenProperties, MessageFields
<1>4. Len(scores) <= ScoreWindow
  BY <1>1, <1>2, <1>3
<1>5. /\ w \in Seq(0..1) /\ Len(w) = IF Len(scores) = ScoreWindow THEN ScoreWindow ELSE Len(scores) + 1
      /\ w[Len(w)] = m.score
      /\ \A k \in 1..(Len(w) - 1) : w[k] = scores[Len(scores) + 1 - Len(w) + k]
  BY <1>3, <1>4, WindowSlides
<1>6. Tokens(t, n + 1) = tokens + m.tokens
  BY <1>2, TokensGrow
<1>7. ChallengeRun(t, n + 2) = RunAfter(challenges, m)
  BY <1>2, RunGrows DEF RunAfter
<1>8. ASSUME NEW i \in 1..(n + 1)
      PROVE  ChallengeRun(t, i) = ChallengeRun(s, i) /\ Tokens(t, i - 1) = Tokens(s, i - 1)
  <2>1. Run(t, i) = Run(s, i) /\ Doubles(t, i - 1) = Doubles(s, i - 1)
    BY CountsStay
  <2>2. /\ ChallengeRun(t, i) = Cardinality(Run(t, i)) /\ ChallengeRun(s, i) = Cardinality(Run(s, i))
        /\ Tokens(t, i - 1) = (i - 1) + Cardinality(Doubles(t, i - 1))
        /\ Tokens(s, i - 1) = (i - 1) + Cardinality(Doubles(s, i - 1))
    BY DEF ChallengeRun, Tokens, Run, Doubles
  <2> QED
    BY <2>1, <2>2
<1> HIDE DEF n, t, w
<1>4a. Len(w) \in Nat \ {0} /\ Len(w) <= Len(scores) + 1 /\ Len(w) >= Len(scores)
  <2>1. CASE Len(scores) = ScoreWindow
    <3>1. Len(w) = ScoreWindow
      BY <1>5, <2>1
    <3> QED
      BY <1>3, <2>1, <3>1
  <2>2. CASE Len(scores) # ScoreWindow
    <3>1. Len(w) = Len(scores) + 1
      BY <1>5, <2>2
    <3> QED
      BY <1>3, <3>1
  <2> QED
    BY <2>1, <2>2
<1>9. ASSUME NEW k \in 1..Len(w) PROVE w[k] = t[n + 1 - Len(w) + k].score
  <2>1. CASE k = Len(w)
    <3>1. n + 1 - Len(w) + k = n + 1
      BY <1>1, <1>4a, <2>1
    <3> QED
      BY <1>1, <1>5, <2>1, <3>1
  <2>2. CASE k # Len(w)
    <3> DEFINE h == Len(scores) + 1 - Len(w) + k
    <3>1. k \in 1..(Len(w) - 1) /\ h \in 1..Len(scores) /\ n - Len(scores) + h = n + 1 - Len(w) + k
      BY <1>1, <1>3, <1>4a, <2>2
    <3>2. n - Len(scores) + h \in 1..n
      <4>1. n \in Nat /\ Len(scores) \in Nat /\ ScoreWindow \in Nat
        BY <1>1, <1>3
      <4>2. Len(scores) <= n
        BY <4>1, <1>2
      <4>3. h \in 1..Len(scores)
        BY <3>1
      <4> HIDE DEF h
      <4> QED
        BY ONLY <4>1, <4>2, <4>3
    <3>3. w[k] = scores[h]
      BY <1>5, <3>1
    <3> HIDE DEF h
    <3> QED
      BY <1>1, <1>2, <3>1, <3>2, <3>3
  <2> QED
    BY <2>1, <2>2
<1>10. Len(w) = IF n + 1 > ScoreWindow THEN ScoreWindow ELSE n + 1
  BY <1>1, <1>2, <1>3, <1>5
<1>11. (n + 1) + 1 = n + 2
  BY <1>1
<1>12. Counted(t, tokens + m.tokens, RunAfter(challenges, m), w)
  <2>1. tokens + m.tokens = Tokens(t, Len(t)) /\ RunAfter(challenges, m) = ChallengeRun(t, Len(t) + 1)
    BY <1>1, <1>6, <1>7, <1>11
  <2>2. Len(w) = IF Len(t) > ScoreWindow THEN ScoreWindow ELSE Len(t)
    BY <1>1, <1>10
  <2>3. \A k \in 1..Len(w) : w[k] = t[Len(t) - Len(w) + k].score
    BY <1>1, <1>9
  <2> QED
    BY <2>1, <2>2, <2>3 DEF Counted
<1>13. Cleared(t)
  <2> SUFFICES ASSUME NEW i \in 1..(n + 1), t[i].delivered
               PROVE  /\ ChallengeRun(t, i) < ChallengeLimit
                      /\ \A j \in 1..(n + 1) : j <= i /\ j + ScoreWindow >= i => t[j].score = 0
                      /\ Tokens(t, i - 1) < PauseTokens
    BY <1>1 DEF Cleared
  <2>1. CASE i = n + 1
    <3>1. m.delivered
      BY <1>1, <2>1
    <3>2. ChallengeRun(t, i) = challenges /\ Tokens(t, i - 1) = tokens
      <4>1. (n + 1) - 1 = n
        BY <1>1
      <4> QED
        BY <1>2, <1>8, <2>1, <4>1
    <3>3. ASSUME NEW j \in 1..(n + 1), j + ScoreWindow >= i PROVE t[j].score = 0
      <4>1. CASE j = n + 1
        BY <1>1, <3>1, <4>1
      <4>2. CASE j # n + 1
        <5> DEFINE k == j - (n - Len(scores))
        <5>1. j \in 1..n /\ k \in 1..Len(scores) /\ n - Len(scores) + k = j
          BY <1>1, <1>2, <1>3, <2>1, <3>3, <4>2
        <5>2. scores[k] = s[j].score /\ scores[k] = 0
          BY <1>2, <1>3, <3>1, <5>1
        <5> QED
          BY <1>1, <5>1, <5>2
      <4> QED
        BY <4>1, <4>2
    <3> QED
      BY <3>1, <3>2, <3>3
  <2>2. CASE i # n + 1
    <3>1. i \in 1..n /\ t[i] = s[i]
      BY <1>1, <2>2
    <3>2. /\ ChallengeRun(s, i) < ChallengeLimit /\ Tokens(s, i - 1) < PauseTokens
          /\ \A j \in 1..n : j <= i /\ j + ScoreWindow >= i => s[j].score = 0
      BY <1>1, <3>1 DEF Cleared
    <3>3. \A j \in 1..(n + 1) : j <= i => j \in 1..n
      BY <1>1, <3>1
    <3> QED
      BY <1>1, <1>8, <3>2, <3>3
  <2> QED
    BY <2>1, <2>2
<1> QED
  BY <1>12, <1>13 DEF t, w

\* The era of a record is a sequence of messages, and grows with the record.
LEMMA EraOf ==
  ASSUME NEW s \in Seq(Message), NEW since \in Nat, since <= Len(s)
  PROVE  /\ SubSeq(s, since + 1, Len(s)) \in Seq(Message)
         /\ Len(SubSeq(s, since + 1, Len(s))) = Len(s) - since
         /\ \A i \in 1..(Len(s) - since) : SubSeq(s, since + 1, Len(s))[i] = s[since + i]
<1>1. Len(s) \in Nat /\ since + 1 \in Int /\ Len(s) \in Int
  BY LenProperties
<1>2. \A i \in (since + 1)..Len(s) : s[i] \in Message
  BY <1>1, ElementOfSeq
<1>3. /\ SubSeq(s, since + 1, Len(s)) \in Seq(Message)
      /\ Len(SubSeq(s, since + 1, Len(s))) = IF since + 1 <= Len(s) THEN Len(s) - (since + 1) + 1 ELSE 0
      /\ \A i \in 1..(Len(s) - (since + 1) + 1) : SubSeq(s, since + 1, Len(s))[i] = s[(since + 1) + i - 1]
  BY <1>1, <1>2, SubSeqProperties
<1>4. (Len(s) - (since + 1)) + 1 = Len(s) - since /\ \A i \in 1..(Len(s) - since) : ((since + 1) + i) - 1 = since + i
  BY <1>1
<1> QED
  BY <1>1, <1>3, <1>4

LEMMA EraGrows ==
  ASSUME NEW s \in Seq(Message), NEW since \in Nat, since <= Len(s), NEW m \in Message
  PROVE  SubSeq(Append(s, m), since + 1, Len(Append(s, m))) = Append(SubSeq(s, since + 1, Len(s)), m)
<1> DEFINE a == Append(s, m)
           e == SubSeq(s, since + 1, Len(s))
           f == SubSeq(a, since + 1, Len(a))
           g == Append(e, m)
           n == Len(s) - since
<1>1. /\ Len(s) \in Nat /\ a \in Seq(Message) /\ Len(a) = Len(s) + 1
      /\ (\A i \in 1..Len(s) : a[i] = s[i]) /\ a[Len(s) + 1] = m
  BY AppendProperties, LenProperties
<1>2. n \in Nat /\ Len(a) - since = n + 1 /\ since <= Len(a)
  BY <1>1
<1>3. e \in Seq(Message) /\ Len(e) = n /\ \A i \in 1..n : e[i] = s[since + i]
  BY EraOf
<1> HIDE DEF a
<1>4. f \in Seq(Message) /\ Len(f) = n + 1 /\ \A i \in 1..(n + 1) : f[i] = a[since + i]
  BY <1>1, <1>2, EraOf
<1> HIDE DEF e, f
<1>5. g \in Seq(Message) /\ Len(g) = n + 1 /\ (\A i \in 1..n : g[i] = e[i]) /\ g[n + 1] = m
  BY <1>3, AppendProperties
<1> HIDE DEF g
<1>6. ASSUME NEW i \in 1..(n + 1) PROVE f[i] = g[i]
  <2>1. CASE i = n + 1
    <3>1. since + i = Len(s) + 1
      BY <1>1, <2>1
    <3> QED
      BY <1>1, <1>4, <1>5, <2>1, <3>1
  <2>2. CASE i # n + 1
    <3>1. i \in 1..n /\ since + i \in 1..Len(s)
      BY <1>1, <1>2, <2>2
    <3> QED
      BY <1>1, <1>3, <1>4, <1>5, <3>1
  <2> QED
    BY <2>1, <2>2
<1>7. f = g
  BY <1>4, <1>5, <1>6, SeqEqual
<1> QED
  BY <1>7 DEF a, e, f, g

-----------------------------------------------------------------------------
(* Records of a conversation *)

WellFormed(r) ==
  /\ r \in State /\ Len(r.injectionScores) <= ScoreWindow /\ r.covered <= Len(r.messages)
  /\ r.currentTurn \in r.participants \cup {r.opener}

Sound(r) == WellFormed(r) /\ Faithful(r)

\* HITL has raised an alert of the kind that stops a conversation as r is stopped.
Alerted(r) == r.reason = "hitl" => \E t \in alerts : (t = "injection_block") <=> (r.status = "require_approval")

LEMMA StateFields ==
  ASSUME NEW r \in State
  PROVE  /\ r.status \in Status /\ r.reason \in {"none", "hitl", "caller"}
         /\ r.participants \in SUBSET (Agents \cup {System}) /\ r.currentTurn \in Agents \cup {System} /\ r.opener \in Agents
         /\ r.tokensUsed \in Nat /\ r.consecutiveChallenges \in Nat /\ r.injectionScores \in Seq(0..1)
         /\ r.messages \in Seq(Message) /\ r.covered \in Nat /\ r.since \in Nat
BY DEF State

LEMMA InputFields ==
  ASSUME NEW m \in Inputs
  PROVE  /\ m.from \in Agents \cup {Human, System} /\ m.to \in Agents \cup {Human}
         /\ m.challenge \in BOOLEAN /\ m.score \in 0..1 /\ m.tokens \in 1..2
BY InputAssumption DEF MessageInput

LEMMA Triggers ==
  ASSUME NEW r, NEW m
  PROVE  /\ MatchedTriggers(r, m) \subseteq StopTrigger
         /\ "injection_block" \in MatchedTriggers(r, m)
              <=> (m.score = 1 \/ \E i \in DOMAIN r.injectionScores : r.injectionScores[i] = 1)
         /\ "consecutive_challenges" \in MatchedTriggers(r, m) <=> r.consecutiveChallenges >= ChallengeLimit
         /\ "token_budget_exhaustion" \in MatchedTriggers(r, m) <=> r.tokensUsed >= PauseTokens
BY DEF MatchedTriggers, StopTrigger

LEMMA HitlActions ==
  ASSUME NEW matched
  PROVE  /\ HitlAction(matched) \in {"continue", "pause", "require_approval"}
         /\ HitlAction(matched) = "require_approval" => "injection_block" \in matched
         /\ HitlAction(matched) = "pause" => "injection_block" \notin matched /\ matched # {}
         /\ HitlAction(matched) = "continue" => matched = {}
<1>1. CASE "injection_block" \in matched
  BY <1>1 DEF HitlAction
<1>2. CASE "injection_block" \notin matched /\ matched # {}
  BY <1>2 DEF HitlAction
<1>3. CASE matched = {}
  BY <1>3 DEF HitlAction
<1> QED
  BY <1>1, <1>2, <1>3

\* A record that differs from a sound one only in what no counter is about.
LEMMA SoundLike ==
  ASSUME NEW r, NEW q \in State, Sound(r),
         q.messages = r.messages, q.since = r.since, q.tokensUsed = r.tokensUsed,
         q.consecutiveChallenges = r.consecutiveChallenges, q.injectionScores = r.injectionScores,
         q.covered <= Len(q.messages), q.currentTurn \in q.participants \cup {q.opener}
  PROVE  Sound(q)
<1>1. Era(q) = Era(r)
  BY DEF Era
<1> QED
  BY <1>1 DEF Sound, WellFormed, Faithful

Entry(m, d) == [challenge |-> m.challenge, score |-> m.score, tokens |-> m.tokens, delivered |-> d]

\* A record with one more message, blocked or with no reason to be stopped, is sound.
LEMMA SoundAppend ==
  ASSUME NEW r, Sound(r), NEW m \in Inputs, NEW d \in BOOLEAN, d => MatchedTriggers(r, m) = {},
         NEW q \in State,
         q.messages = Append(r.messages, Entry(m, d)), q.since = r.since, q.tokensUsed = r.tokensUsed + m.tokens,
         q.consecutiveChallenges = (IF ~d THEN r.consecutiveChallenges
                                    ELSE IF m.challenge THEN r.consecutiveChallenges + 1 ELSE 0),
         q.injectionScores = LastOf(Append(r.injectionScores, m.score), ScoreWindow),
         q.covered <= Len(q.messages), q.currentTurn \in q.participants \cup {q.opener}
  PROVE  Sound(q)
<1> DEFINE e == Entry(m, d)
<1>1. /\ r.messages \in Seq(Message) /\ r.since \in Nat /\ r.tokensUsed \in Nat /\ r.consecutiveChallenges \in Nat
      /\ r.injectionScores \in Seq(0..1) /\ r.since <= Len(r.messages) /\ Len(r.injectionScores) <= ScoreWindow
      /\ Counted(Era(r), r.tokensUsed, r.consecutiveChallenges, r.injectionScores) /\ Cleared(Era(r))
  BY StateFields DEF Sound, WellFormed, Faithful
<1>2. e \in Message /\ e.delivered = d /\ e.score = m.score /\ e.tokens = m.tokens /\ e.challenge = m.challenge
  BY InputFields DEF Entry, Message
<1>3. e.delivered => /\ e.score = 0 /\ \A k \in DOMAIN r.injectionScores : r.injectionScores[k] = 0
                     /\ r.consecutiveChallenges < ChallengeLimit /\ r.tokensUsed < PauseTokens
  <2> SUFFICES ASSUME d
               PROVE  /\ m.score = 0 /\ \A k \in DOMAIN r.injectionScores : r.injectionScores[k] = 0
                      /\ r.consecutiveChallenges < ChallengeLimit /\ r.tokensUsed < PauseTokens
    BY <1>2
  <2>1. /\ m.score # 1 /\ \A k \in DOMAIN r.injectionScores : r.injectionScores[k] # 1
        /\ ~(r.consecutiveChallenges >= ChallengeLimit) /\ ~(r.tokensUsed >= PauseTokens)
    BY Triggers
  <2>2. m.score \in 0..1 /\ \A k \in DOMAIN r.injectionScores : r.injectionScores[k] \in 0..1
    BY <1>1, InputFields, LenProperties, ElementOfSeq
  <2>3. m.score = 0 /\ \A k \in DOMAIN r.injectionScores : r.injectionScores[k] = 0
    BY <2>1, <2>2
  <2>4. r.consecutiveChallenges < ChallengeLimit /\ r.tokensUsed < PauseTokens
    BY <1>1, <2>1, Limits
  <2> QED
    BY <2>3, <2>4
<1> HIDE DEF e
<1>4. /\ Era(r) = SubSeq(r.messages, r.since + 1, Len(r.messages)) /\ Era(r) \in Seq(Message)
      /\ Era(q) = SubSeq(q.messages, q.since + 1, Len(q.messages))
  BY <1>1, EraOf DEF Era
<1>5. Era(q) = Append(Era(r), e)
  BY <1>1, <1>2, <1>4, EraGrows DEF e
<1>6. /\ Counted(Era(q), q.tokensUsed, q.consecutiveChallenges, q.injectionScores)
      /\ Cleared(Era(q))
  <2>1. /\ q.tokensUsed = r.tokensUsed + e.tokens
        /\ q.consecutiveChallenges = RunAfter(r.consecutiveChallenges, e)
        /\ q.injectionScores = LastOf(Append(r.injectionScores, e.score), ScoreWindow)
    BY <1>2 DEF RunAfter
  <2> QED
    BY <1>1, <1>2, <1>3, <1>4, <1>5, <2>1, AppendFaithful
<1>7. Len(r.messages) \in Nat /\ Len(q.messages) = Len(r.messages) + 1
  BY <1>1, <1>2, LenProperties, AppendProperties DEF e
<1>8. q.since <= Len(q.messages)
  BY <1>1, <1>7
<1>9. Len(q.injectionScores) <= ScoreWindow
  <2>1. m.score \in 0..1
    BY InputFields
  <2>2. Len(LastOf(Append(r.injectionScores, m.score), ScoreWindow))
          = IF Len(r.injectionScores) = ScoreWindow THEN ScoreWindow ELSE Len(r.injectionScores) + 1
    <3>1. r.injectionScores \in Seq(0..1) /\ Len(r.injectionScores) <= ScoreWindow
      BY <1>1
    <3> QED
      BY ONLY <2>1, <3>1, WindowSlides
  <2>3. Len(r.injectionScores) \in Nat /\ ScoreWindow \in Nat
    BY <1>1, LenProperties, Limits
  <2> QED
    BY <1>1, <2>2, <2>3
<1> QED
  BY <1>6, <1>8, <1>9 DEF Sound, WellFormed, Faithful

-----------------------------------------------------------------------------
(* What sendMessage saves *)

LEMMA AppendFields ==
  ASSUME NEW r \in State, Len(r.injectionScores) <= ScoreWindow, NEW m \in Inputs, NEW d \in BOOLEAN
  PROVE  LET q == appendMessage(r, m, d)
         IN /\ q \in State /\ q.messages = Append(r.messages, Entry(m, d)) /\ q.since = r.since
            /\ q.tokensUsed = r.tokensUsed + m.tokens /\ q.consecutiveChallenges = r.consecutiveChallenges
            /\ q.injectionScores = LastOf(Append(r.injectionScores, m.score), ScoreWindow)
            /\ q.covered = r.covered /\ q.currentTurn = r.currentTurn /\ q.participants = r.participants /\ q.opener = r.opener
            /\ q.status = r.status /\ q.reason = r.reason
<1> DEFINE msgs == Append(r.messages, Entry(m, d))
           scores == LastOf(Append(r.injectionScores, m.score), ScoreWindow)
           used == r.tokensUsed + m.tokens
<1>1. msgs \in Seq(Message)
  BY StateFields, InputFields, AppendProperties DEF Entry, Message
<1>2. scores \in Seq(0..1)
  BY StateFields, InputFields, WindowSlides
<1>3. used \in Nat
  BY StateFields, InputFields
<1>4. appendMessage(r, m, d) = [r EXCEPT !.messages = msgs, !.injectionScores = scores, !.tokensUsed = used]
  BY DEF appendMessage, Entry
<1> HIDE DEF msgs, scores, used
<1>5. LET q == [r EXCEPT !.messages = msgs, !.injectionScores = scores, !.tokensUsed = used]
      IN /\ q \in State /\ q.messages = msgs /\ q.since = r.since
         /\ q.tokensUsed = used /\ q.consecutiveChallenges = r.consecutiveChallenges
         /\ q.injectionScores = scores
         /\ q.covered = r.covered /\ q.currentTurn = r.currentTurn /\ q.participants = r.participants /\ q.opener = r.opener
         /\ q.status = r.status /\ q.reason = r.reason
  BY <1>1, <1>2, <1>3 DEF State
<1> QED
  BY <1>4, <1>5 DEF msgs, scores, used

LEMMA AppendedLonger ==
  ASSUME NEW r \in State, NEW m \in Inputs, NEW d \in BOOLEAN
  PROVE  Len(r.messages) \in Nat /\ Len(Append(r.messages, Entry(m, d))) = Len(r.messages) + 1
<1>1. Entry(m, d) \in Message
  BY InputFields DEF Entry, Message
<1> QED
  BY <1>1, StateFields, LenProperties, AppendProperties

LEMMA Summarized ==
  ASSUME NEW r, Sound(r)
  PROVE  LET q == maybeSummarize(r)
         IN Sound(q) /\ q.messages = r.messages /\ q.status = r.status /\ q.reason = r.reason
<1>1. r \in State /\ r.covered <= Len(r.messages) /\ r.currentTurn \in r.participants \cup {r.opener}
  BY DEF Sound, WellFormed
<1>2. CASE ~(Len(r.messages) >= SummaryTrigger /\ Len(r.messages) - r.covered >= SummaryChunk)
  BY <1>2 DEF maybeSummarize
<1>3. CASE Len(r.messages) >= SummaryTrigger /\ Len(r.messages) - r.covered >= SummaryChunk
  <2> DEFINE c == r.covered + SummaryChunk
             q == [r EXCEPT !.covered = c]
  <2>1. maybeSummarize(r) = q
    BY <1>3 DEF maybeSummarize
  <2>2. Len(r.messages) \in Nat /\ r.covered \in Nat /\ SummaryChunk \in Nat
    BY <1>1, StateFields, LenProperties, LimitAssumption
  <2>3. c \in Nat /\ c <= Len(r.messages)
    BY <1>3, <2>2
  <2> HIDE DEF c
  <2>4. /\ q \in State /\ q.messages = r.messages /\ q.since = r.since /\ q.tokensUsed = r.tokensUsed
        /\ q.consecutiveChallenges = r.consecutiveChallenges /\ q.injectionScores = r.injectionScores
        /\ q.covered = c /\ q.currentTurn = r.currentTurn /\ q.participants = r.participants /\ q.opener = r.opener
        /\ q.status = r.status /\ q.reason = r.reason
    BY <1>1, <2>3 DEF State
  <2> HIDE DEF q
  <2>5. Sound(q)
    BY <1>1, <2>3, <2>4, SoundLike
  <2> QED
    BY <2>1, <2>4, <2>5
<1> QED
  BY <1>2, <1>3

\* The message is refused: it is appended as blocked.
LEMMA RefusedSound ==
  ASSUME NEW r, Sound(r), NEW m \in Inputs
  PROVE  LET q == appendMessage(r, m, FALSE)
         IN Sound(q) /\ Len(r.messages) <= Len(q.messages) /\ q.status = r.status /\ q.reason = r.reason
<1> DEFINE q == appendMessage(r, m, FALSE)
<1>1. /\ r \in State /\ Len(r.injectionScores) <= ScoreWindow /\ r.covered <= Len(r.messages)
      /\ r.currentTurn \in r.participants \cup {r.opener}
  BY DEF Sound, WellFormed
<1>2. /\ q \in State /\ q.messages = Append(r.messages, Entry(m, FALSE)) /\ q.since = r.since
      /\ q.tokensUsed = r.tokensUsed + m.tokens /\ q.consecutiveChallenges = r.consecutiveChallenges
      /\ q.injectionScores = LastOf(Append(r.injectionScores, m.score), ScoreWindow)
      /\ q.covered = r.covered /\ q.currentTurn = r.currentTurn /\ q.participants = r.participants /\ q.opener = r.opener
      /\ q.status = r.status /\ q.reason = r.reason
  BY <1>1, AppendFields
<1> HIDE DEF q
<1>3. Len(r.messages) \in Nat /\ Len(q.messages) = Len(r.messages) + 1 /\ q.covered \in Nat
  BY <1>1, <1>2, AppendedLonger, StateFields
<1>4. q.covered <= Len(q.messages) /\ Len(r.messages) <= Len(q.messages)
  BY <1>1, <1>2, <1>3
<1>5. Sound(q)
  BY <1>1, <1>2, <1>4, SoundAppend
<1> QED
  BY <1>2, <1>4, <1>5 DEF q

\* HITL stops the conversation: the message is appended as blocked.
LEMMA StoppedSound ==
  ASSUME NEW r, Sound(r), NEW m \in Inputs, NEW status \in Status
  PROVE  LET q == Stopped(r, m, status)
         IN Sound(q) /\ Len(r.messages) <= Len(q.messages) /\ q.status = status /\ q.reason = "hitl"
<1> DEFINE b == appendMessage(r, m, FALSE)
           q == [b EXCEPT !.status = status, !.reason = "hitl"]
<1>1. Sound(b) /\ Len(r.messages) <= Len(b.messages)
  BY RefusedSound
<1>2. Stopped(r, m, status) = q
  BY DEF Stopped
<1>3. b \in State /\ b.covered <= Len(b.messages) /\ b.currentTurn \in b.participants \cup {b.opener}
  BY <1>1 DEF Sound, WellFormed
<1> HIDE DEF b
<1>4. /\ q \in State /\ q.messages = b.messages /\ q.since = b.since /\ q.tokensUsed = b.tokensUsed
      /\ q.consecutiveChallenges = b.consecutiveChallenges /\ q.injectionScores = b.injectionScores
      /\ q.covered = b.covered /\ q.currentTurn = b.currentTurn /\ q.participants = b.participants /\ q.opener = b.opener
      /\ q.status = status /\ q.reason = "hitl"
  BY <1>3 DEF State
<1> HIDE DEF q
<1>5. Sound(q)
  BY <1>1, <1>3, <1>4, SoundLike
<1> QED
  BY <1>1, <1>2, <1>4, <1>5

\* HITL has no reason to stop the message: it is delivered.
LEMMA DeliveredSound ==
  ASSUME NEW r, Sound(r), NEW m \in Inputs, MatchedTriggers(r, m) = {}, NEW to \in Agents \cup {Human}
  PROVE  LET q == Delivered(r, m, to)
         IN Sound(q) /\ Len(r.messages) <= Len(q.messages) /\ q.status = r.status /\ q.reason = r.reason
<1> DEFINE b == appendMessage(r, m, TRUE)
           run == IF m.challenge THEN b.consecutiveChallenges + 1 ELSE 0
           turn == IF to \in r.participants THEN to ELSE b.currentTurn
           q == [b EXCEPT !.consecutiveChallenges = run, !.currentTurn = turn]
<1>1. /\ r \in State /\ Len(r.injectionScores) <= ScoreWindow /\ r.covered <= Len(r.messages)
      /\ r.currentTurn \in r.participants \cup {r.opener}
  BY DEF Sound, WellFormed
<1>2. /\ b \in State /\ b.messages = Append(r.messages, Entry(m, TRUE)) /\ b.since = r.since
      /\ b.tokensUsed = r.tokensUsed + m.tokens /\ b.consecutiveChallenges = r.consecutiveChallenges
      /\ b.injectionScores = LastOf(Append(r.injectionScores, m.score), ScoreWindow)
      /\ b.covered = r.covered /\ b.currentTurn = r.currentTurn /\ b.participants = r.participants /\ b.opener = r.opener
      /\ b.status = r.status /\ b.reason = r.reason
  BY <1>1, AppendFields
<1>3. Delivered(r, m, to) = q
  BY DEF Delivered
<1> HIDE DEF b
<1>4. run \in Nat /\ run = IF m.challenge THEN r.consecutiveChallenges + 1 ELSE 0
  BY <1>2, StateFields
<1>5. turn \in r.participants \cup {r.opener} /\ turn \in Agents \cup {System}
  BY <1>1, <1>2, StateFields
<1> HIDE DEF run, turn
<1>6. /\ q \in State /\ q.messages = b.messages /\ q.since = b.since /\ q.tokensUsed = b.tokensUsed
      /\ q.consecutiveChallenges = run /\ q.injectionScores = b.injectionScores
      /\ q.covered = b.covered /\ q.currentTurn = turn /\ q.participants = b.participants /\ q.opener = b.opener
      /\ q.status = b.status /\ q.reason = b.reason
  BY <1>2, <1>4, <1>5 DEF State
<1> HIDE DEF q
<1>7. Len(r.messages) \in Nat /\ Len(q.messages) = Len(r.messages) + 1 /\ q.covered \in Nat
  BY <1>1, <1>2, <1>6, AppendedLonger, StateFields
<1>8. q.covered <= Len(q.messages) /\ Len(r.messages) <= Len(q.messages)
  BY <1>1, <1>2, <1>6, <1>7
<1>9. q.consecutiveChallenges = IF ~TRUE THEN r.consecutiveChallenges
                                ELSE IF m.challenge THEN r.consecutiveChallenges + 1 ELSE 0
  BY <1>4, <1>6
<1>10. Sound(q)
  BY <1>2, <1>5, <1>6, <1>8, <1>9, SoundAppend
<1> QED
  BY <1>2, <1>3, <1>6, <1>8, <1>10

-----------------------------------------------------------------------------
(* The inductive invariant *)

Checked == op.kind = "send" /\ op.at = "checked"

\* What is stored, and what the operation under the lock has loaded, is sound.
RecordsSound == /\ Stored => Sound(disk)
                /\ op # Idle => Sound(op.state)

\* HITL's verdict is about the record the operation will save with it.
VerdictCurrent == Checked => op.action = HitlAction(MatchedTriggers(op.state, op.input))

\* Until the process dies, alerts stay.
AlertsKept ==
  crashes = 0 => /\ Stored => Alerted(disk)
                 /\ op # Idle => Alerted(op.state)
                 /\ Checked => MatchedTriggers(op.state, op.input) \subseteq alerts

\* The SQLite store keeps every message: a conversation started anew has those the
\* operation under the lock has loaded.
RowsKept == ~inPlace /\ op # Idle => Stored /\ op.state.messages = disk.messages /\ op.kind # "save"

IndInv == TypeOK /\ RecordsSound /\ VerdictCurrent /\ AlertsKept /\ RowsKept /\ NoLostUpdate

LEMMA OpFields ==
  ASSUME op \in Op
  PROVE  /\ op.kind \in {"none", "send", "save", "setStatus", "addParticipant"}
         /\ op = Idle <=> op.kind = "none"
         /\ op # Idle => op.state \in State
         /\ op.kind = "send" => op.input \in Inputs /\ op.at \in {"loaded", "checked"}
         /\ Checked => /\ op.deliveredTo \in Agents \cup {Human} /\ op.verdict \in {"ok", "refused"}
                       /\ op.action \in {"continue", "pause", "require_approval"}
         /\ op.kind = "setStatus" => op.status \in Status
         /\ op.kind = "addParticipant" => op.agent \in Agents
<1>1. CASE op = Idle
  BY <1>1 DEF Idle, Checked
<1>2. CASE op \in [kind : {"send"}, at : {"loaded"}, state : State, input : Inputs]
  BY <1>2 DEF Idle, Checked
<1>3. CASE op \in [kind : {"send"}, at : {"checked"}, state : State, input : Inputs,
                   deliveredTo : Agents \cup {Human}, verdict : {"ok", "refused"},
                   action : {"continue", "pause", "require_approval"}]
  BY <1>3 DEF Idle, Checked
<1>4. CASE op \in [kind : {"save"}, state : State]
  BY <1>4 DEF Idle, Checked
<1>5. CASE op \in [kind : {"setStatus"}, state : State, status : Status]
  BY <1>5 DEF Idle, Checked
<1>6. CASE op \in [kind : {"addParticipant"}, state : State, agent : Agents]
  BY <1>6 DEF Idle, Checked
<1> QED
  BY <1>1, <1>2, <1>3, <1>4, <1>5, <1>6 DEF Op

\* What a send saves.
LEMMA AfterSendSound ==
  ASSUME IndInv, Checked
  PROVE  /\ Sound(AfterSend(op)) /\ Len(op.state.messages) <= Len(AfterSend(op).messages)
         /\ crashes = 0 => Alerted(AfterSend(op))
<1> DEFINE r == op.state
           m == op.input
           matched == MatchedTriggers(r, m)
<1>1. /\ op # Idle /\ m \in Inputs /\ op.deliveredTo \in Agents \cup {Human} /\ op.verdict \in {"ok", "refused"}
      /\ op.action \in {"continue", "pause", "require_approval"}
  BY OpFields DEF IndInv, TypeOK, Checked
<1>2. /\ Sound(r) /\ op.action = HitlAction(matched)
      /\ crashes = 0 => Alerted(r) /\ matched \subseteq alerts
  BY <1>1 DEF IndInv, RecordsSound, VerdictCurrent, AlertsKept
<1>3. matched \subseteq StopTrigger
  BY Triggers
<1>4. CASE op.verdict = "refused"
  <2> DEFINE q == appendMessage(r, m, FALSE)
  <2>1. AfterSend(op) = q
    BY <1>4 DEF AfterSend
  <2>2. Sound(q) /\ Len(r.messages) <= Len(q.messages) /\ q.status = r.status /\ q.reason = r.reason
    BY <1>1, <1>2, RefusedSound
  <2> HIDE DEF q
  <2>3. crashes = 0 => Alerted(q)
    BY <1>2, <2>2 DEF Alerted
  <2> QED
    BY <2>1, <2>2, <2>3
<1>5. CASE op.verdict = "ok" /\ op.action = "continue"
  <2> DEFINE q == Delivered(r, m, op.deliveredTo)
  <2>1. AfterSend(op) = maybeSummarize(q)
    BY <1>5 DEF AfterSend
  <2>2. matched = {}
    BY <1>2, <1>5, HitlActions
  <2>3. Sound(q) /\ Len(r.messages) <= Len(q.messages) /\ q.status = r.status /\ q.reason = r.reason
    BY <1>1, <1>2, <2>2, DeliveredSound
  <2> HIDE DEF q
  <2> QED
    BY <1>2, <2>1, <2>3, Summarized DEF Alerted
<1>6. CASE op.verdict = "ok" /\ op.action = "pause"
  <2> DEFINE q == Stopped(r, m, "paused")
  <2>1. AfterSend(op) = maybeSummarize(q)
    BY <1>6 DEF AfterSend
  <2>2. PICK t \in matched : t # "injection_block"
    BY <1>2, <1>6, HitlActions
  <2>3. Sound(q) /\ Len(r.messages) <= Len(q.messages) /\ q.status = "paused" /\ q.reason = "hitl"
    BY <1>1, <1>2, StoppedSound DEF Status
  <2> HIDE DEF q
  <2>4. /\ Sound(maybeSummarize(q)) /\ maybeSummarize(q).messages = q.messages
        /\ maybeSummarize(q).status = q.status
    BY <2>3, Summarized
  <2>5. crashes = 0 => Alerted(maybeSummarize(q))
    BY <1>2, <2>2, <2>3, <2>4 DEF Alerted
  <2> QED
    BY <2>1, <2>3, <2>4, <2>5
<1>7. CASE op.verdict = "ok" /\ op.action = "require_approval"
  <2> DEFINE q == Stopped(r, m, "require_approval")
  <2>1. AfterSend(op) = maybeSummarize(q)
    BY <1>7 DEF AfterSend
  <2>2. "injection_block" \in matched
    BY <1>2, <1>7, HitlActions
  <2>3. Sound(q) /\ Len(r.messages) <= Len(q.messages) /\ q.status = "require_approval" /\ q.reason = "hitl"
    BY <1>1, <1>2, StoppedSound DEF Status
  <2> HIDE DEF q
  <2>4. /\ Sound(maybeSummarize(q)) /\ maybeSummarize(q).messages = q.messages
        /\ maybeSummarize(q).status = q.status
    BY <2>3, Summarized
  <2>5. crashes = 0 => Alerted(maybeSummarize(q))
    BY <1>2, <2>2, <2>3, <2>4 DEF Alerted
  <2> QED
    BY <2>1, <2>3, <2>4, <2>5
<1> QED
  BY <1>1, <1>4, <1>5, <1>6, <1>7

\* What any operation saves.
LEMMA ResultSound ==
  ASSUME IndInv, Saving
  PROVE  /\ op # Idle /\ Sound(Result) /\ Len(op.state.messages) <= Len(Result.messages)
         /\ crashes = 0 => Alerted(Result)
<1> DEFINE r == op.state
<1>1. op # Idle /\ r \in State /\ op \in Op
  BY OpFields DEF IndInv, TypeOK, Saving
<1>2. /\ Sound(r) /\ Len(r.messages) \in Nat /\ r.covered <= Len(r.messages) /\ r.currentTurn \in r.participants \cup {r.opener}
      /\ crashes = 0 => Alerted(r)
  BY <1>1, StateFields, LenProperties DEF IndInv, RecordsSound, AlertsKept, Sound, WellFormed
<1>3. CASE op.kind = "send"
  <2>1. Checked /\ Result = AfterSend(op)
    BY <1>3 DEF Saving, Checked, Result
  <2> QED
    BY <1>1, <2>1, AfterSendSound
<1>4. CASE op.kind = "save"
  <2>1. Result = r
    BY <1>4 DEF Result
  <2> QED
    BY <1>1, <1>2, <2>1
<1>5. CASE op.kind = "setStatus"
  <2> DEFINE q == [r EXCEPT !.status = op.status, !.reason = "caller"]
  <2>1. Result = q
    BY <1>5 DEF Result
  <2>2. op.status \in Status
    BY <1>1, <1>5, OpFields
  <2>3. /\ q \in State /\ q.messages = r.messages /\ q.since = r.since /\ q.tokensUsed = r.tokensUsed
        /\ q.consecutiveChallenges = r.consecutiveChallenges /\ q.injectionScores = r.injectionScores
        /\ q.covered = r.covered /\ q.currentTurn = r.currentTurn /\ q.participants = r.participants /\ q.opener = r.opener
        /\ q.reason = "caller"
    BY <1>1, <2>2 DEF State
  <2> HIDE DEF q
  <2>4. Sound(q)
    BY <1>2, <2>3, SoundLike
  <2> QED
    BY <1>1, <1>2, <2>1, <2>3, <2>4 DEF Alerted
<1>6. CASE op.kind = "addParticipant"
  <2> DEFINE P == r.participants \cup {op.agent}
             q == [r EXCEPT !.participants = P]
  <2>1. Result = q
    BY <1>6 DEF Result
  <2>2. P \in SUBSET (Agents \cup {System}) /\ r.currentTurn \in P \cup {r.opener}
    BY <1>1, <1>2, <1>6, OpFields, StateFields
  <2> HIDE DEF P
  <2>3. /\ q \in State /\ q.messages = r.messages /\ q.since = r.since /\ q.tokensUsed = r.tokensUsed
        /\ q.consecutiveChallenges = r.consecutiveChallenges /\ q.injectionScores = r.injectionScores
        /\ q.covered = r.covered /\ q.currentTurn = r.currentTurn /\ q.participants = P /\ q.opener = r.opener
        /\ q.status = r.status /\ q.reason = r.reason
    BY <1>1, <2>2 DEF State
  <2> HIDE DEF q
  <2>4. Sound(q)
    BY <1>2, <2>2, <2>3, SoundLike
  <2> QED
    BY <1>1, <1>2, <2>1, <2>3, <2>4 DEF Alerted
<1> QED
  BY <1>3, <1>4, <1>5, <1>6 DEF Saving

-----------------------------------------------------------------------------
(* What the store makes of it *)

LEMMA MergedSound ==
  ASSUME NEW q, Sound(q), Stored => WellFormed(disk),
         ~inPlace /\ Stored => Len(disk.messages) <= Len(q.messages)
  PROVE  LET d == Merged(q) IN Sound(d) /\ d.status = q.status /\ d.reason = q.reason
<1>1. q \in State /\ q.covered <= Len(q.messages) /\ q.currentTurn \in q.participants \cup {q.opener}
  BY DEF Sound, WellFormed
<1>2. CASE inPlace \/ ~Stored
  BY <1>2 DEF Merged
<1>3. CASE ~(inPlace \/ ~Stored)
  <2> DEFINE P == q.participants \cup disk.participants
             M == IF Len(disk.messages) > Len(q.messages) THEN disk.messages ELSE q.messages
             d == [q EXCEPT !.messages = M, !.participants = P]
  <2>1. Merged(q) = d
    BY <1>3 DEF Merged
  <2>2. P \in SUBSET (Agents \cup {System}) /\ q.currentTurn \in P \cup {q.opener}
    BY <1>1, <1>3, StateFields DEF WellFormed
  <2>3. Len(disk.messages) \in Nat /\ Len(q.messages) \in Nat /\ q.messages \in Seq(Message)
    BY <1>1, <1>3, StateFields, LenProperties DEF WellFormed
  <2>4. M = q.messages
    BY <1>3, <2>3
  <2> HIDE DEF P, M
  <2>5. /\ d \in State /\ d.messages = q.messages /\ d.since = q.since /\ d.tokensUsed = q.tokensUsed
        /\ d.consecutiveChallenges = q.consecutiveChallenges /\ d.injectionScores = q.injectionScores
        /\ d.covered = q.covered /\ d.currentTurn = q.currentTurn /\ d.participants = P /\ d.opener = q.opener
        /\ d.status = q.status /\ d.reason = q.reason
    BY <1>1, <2>2, <2>3, <2>4 DEF State
  <2> HIDE DEF d
  <2>6. Sound(d)
    BY <1>1, <2>2, <2>5, SoundLike
  <2> QED
    BY <2>1, <2>5, <2>6
<1> QED
  BY <1>2, <1>3

\* A record whose era is empty is sound.
LEMMA EmptyEraSound ==
  ASSUME NEW q \in State, q.since = Len(q.messages), q.tokensUsed = 0, q.consecutiveChallenges = 0,
         q.injectionScores = <<>>, q.covered = 0, q.currentTurn \in q.participants \cup {q.opener}
  PROVE  Sound(q)
<1>1. q.messages \in Seq(Message) /\ Len(q.messages) \in Nat /\ Len(q.injectionScores) = 0 /\ q.since \in Nat
  BY StateFields, LenProperties, EmptySeq
<1>2. Len(q.messages) - q.since = 0 /\ q.since <= Len(q.messages)
  BY <1>1
<1>3. Era(q) \in Seq(Message) /\ Len(Era(q)) = 0
  BY <1>1, <1>2, EraOf DEF Era
<1>4. DOMAIN Era(q) = {} /\ 1..0 = {}
  BY <1>3, LenProperties
<1>5. Tokens(Era(q), 0) = 0
  <2>1. Tokens(Era(q), 0) = 0 + Cardinality({})
    BY <1>4 DEF Tokens
  <2> QED
    BY <2>1, FS_EmptySet
<1>6. ChallengeRun(Era(q), 0 + 1) = 0
  <2>1. (0 + 1) - 1 = 0
    OBVIOUS
  <2>2. ChallengeRun(Era(q), 0 + 1) = Cardinality({})
    BY <1>4, <2>1 DEF ChallengeRun
  <2> QED
    BY <2>2, FS_EmptySet
<1>7. Counted(Era(q), q.tokensUsed, q.consecutiveChallenges, q.injectionScores)
  BY <1>1, <1>3, <1>5, <1>6, Limits DEF Counted
<1>8. Cleared(Era(q))
  BY <1>4 DEF Cleared
<1> QED
  BY <1>1, <1>2, <1>7, <1>8, Limits DEF Sound, WellFormed, Faithful

\* What startConversation leaves: an empty era on top of the rows there are.
LEMMA StartSound ==
  ASSUME IndInv, StartSaves
  PROVE  /\ Sound(disk') /\ disk'.status = "active" /\ disk'.reason = "none" /\ disk'.tokensUsed = 0
         /\ ~inPlace /\ Stored => disk'.messages = disk.messages
<1>1. PICK cast \in Casts :
        disk' = Merged([Fresh(cast) EXCEPT !.since = IF inPlace \/ ~Stored THEN 0 ELSE Len(disk.messages)])
  BY DEF StartSaves
<1>2. cast.members \subseteq Agents /\ cast.first \in Agents
  BY CastAssumption
<1>3. Fresh(cast) \in State /\ "active" \in Status
  <2>1. <<>> \in Seq(0..1) /\ <<>> \in Seq(Message)
    BY EmptySeq
  <2> QED
    BY <1>2, <2>1 DEF Fresh, State, Status
<1>4. CASE inPlace \/ ~Stored
  <2> DEFINE q == [Fresh(cast) EXCEPT !.since = 0]
  <2>1. disk' = q
    BY <1>1, <1>4 DEF Merged
  <2>2. /\ q \in State /\ q.messages = <<>> /\ q.since = 0 /\ q.tokensUsed = 0 /\ q.consecutiveChallenges = 0
        /\ q.injectionScores = <<>> /\ q.covered = 0 /\ q.currentTurn = cast.first
        /\ q.participants = cast.members /\ q.opener = cast.first /\ q.status = "active" /\ q.reason = "none"
    BY <1>3 DEF Fresh, State
  <2> HIDE DEF q
  <2>3. Len(q.messages) = 0
    BY <2>2, EmptySeq
  <2>4. Sound(q)
    BY <1>2, <2>2, <2>3, EmptyEraSound
  <2> QED
    BY <1>4, <2>1, <2>2, <2>4
<1>5. CASE ~(inPlace \/ ~Stored)
  <2> DEFINE n == Len(disk.messages)
             f == [Fresh(cast) EXCEPT !.since = n]
             M == IF Len(disk.messages) > Len(f.messages) THEN disk.messages ELSE f.messages
             P == f.participants \cup disk.participants
             q == [f EXCEPT !.messages = M, !.participants = P]
  <2>1. disk' = q
    BY <1>1, <1>5 DEF Merged
  <2>2. disk \in State /\ disk.messages \in Seq(Message) /\ n \in Nat /\ disk.participants \in SUBSET (Agents \cup {System})
    BY <1>5, StateFields, LenProperties DEF Stored
  <2> HIDE DEF n
  <2>3. /\ f \in State /\ f.messages = <<>> /\ f.since = n /\ f.tokensUsed = 0 /\ f.consecutiveChallenges = 0
        /\ f.injectionScores = <<>> /\ f.covered = 0 /\ f.currentTurn = cast.first
        /\ f.participants = cast.members /\ f.opener = cast.first /\ f.status = "active" /\ f.reason = "none"
    BY <1>3, <2>2 DEF Fresh, State
  <2> HIDE DEF f
  <2>4. Len(f.messages) = 0 /\ (disk.messages # <<>> => n \in Nat \ {0})
    BY <2>2, <2>3, EmptySeq DEF n
  <2>5. M = disk.messages
    BY <2>2, <2>3, <2>4 DEF n
  <2>6. P \in SUBSET (Agents \cup {System})
    BY <1>2, <2>2, <2>3
  <2> HIDE DEF M, P
  <2>7. /\ q \in State /\ q.messages = M /\ q.since = n /\ q.tokensUsed = 0 /\ q.consecutiveChallenges = 0
        /\ q.injectionScores = <<>> /\ q.covered = 0 /\ q.currentTurn = cast.first
        /\ q.participants = P /\ q.opener = cast.first /\ q.status = "active" /\ q.reason = "none"
    BY <2>2, <2>3, <2>5, <2>6 DEF State
  <2> HIDE DEF q
  <2>8. Sound(q)
    BY <2>5, <2>6, <2>7, EmptyEraSound DEF n
  <2> QED
    BY <2>1, <2>5, <2>7, <2>8
<1> QED
  BY <1>4, <1>5

-----------------------------------------------------------------------------
(* Steps *)

\* A step that leaves the stored conversation alone and loads it, or does not touch
\* the operation either.
LEMMA LoadStep ==
  ASSUME IndInv, \/ \E m \in Inputs : SendLoads(m)
                 \/ \E s \in Status : StatusLoads(s)
                 \/ \E a \in Agents : JoinLoads(a)
  PROVE  IndInv'
<1>1. /\ Stored /\ UNCHANGED <<disk, starts, alerts, inPlace, up, crashes>> /\ sent' \in 0..MaxMessages
      /\ op' \in Op /\ op'.state = disk /\ op' # Idle /\ op'.kind # "save" /\ ~Checked'
  <2>1. ASSUME NEW m \in Inputs, SendLoads(m)
        PROVE  /\ Stored /\ UNCHANGED <<disk, starts, alerts, inPlace, up, crashes>> /\ sent' \in 0..MaxMessages
               /\ op' \in Op /\ op'.state = disk /\ op' # Idle /\ op'.kind # "save" /\ ~Checked'
    <3>1. /\ Stored /\ UNCHANGED <<disk, starts, alerts, inPlace, up, crashes>>
          /\ op' = [kind |-> "send", at |-> "loaded", state |-> disk, input |-> m]
      BY <2>1 DEF SendLoads, Locks
    <3>2. sent' \in 0..MaxMessages
      BY <2>1, Limits DEF SendLoads, IndInv, TypeOK
    <3>3. op' \in Op
      BY <3>1 DEF Op, Stored
    <3> QED
      BY <3>1, <3>2, <3>3 DEF Idle, Checked
  <2>2. ASSUME NEW s \in Status, StatusLoads(s)
        PROVE  /\ Stored /\ UNCHANGED <<disk, starts, alerts, inPlace, up, crashes>> /\ sent' \in 0..MaxMessages
               /\ op' \in Op /\ op'.state = disk /\ op' # Idle /\ op'.kind # "save" /\ ~Checked'
    <3>1. /\ Stored /\ UNCHANGED <<disk, starts, alerts, sent, inPlace, up, crashes>>
          /\ op' = [kind |-> "setStatus", state |-> disk, status |-> s]
      BY <2>2 DEF StatusLoads, Locks
    <3>2. op' \in Op
      BY <3>1 DEF Op, Stored
    <3> QED
      BY <3>1, <3>2 DEF Idle, Checked, IndInv, TypeOK
  <2>3. ASSUME NEW a \in Agents, JoinLoads(a)
        PROVE  /\ Stored /\ UNCHANGED <<disk, starts, alerts, inPlace, up, crashes>> /\ sent' \in 0..MaxMessages
               /\ op' \in Op /\ op'.state = disk /\ op' # Idle /\ op'.kind # "save" /\ ~Checked'
    <3>1. /\ Stored /\ UNCHANGED <<disk, starts, alerts, sent, inPlace, up, crashes>>
          /\ op' = [kind |-> "addParticipant", state |-> disk, agent |-> a]
      BY <2>3 DEF JoinLoads, Locks
    <3>2. op' \in Op
      BY <3>1 DEF Op, Stored
    <3> QED
      BY <3>1, <3>2 DEF Idle, Checked, IndInv, TypeOK
  <2> QED
    BY <2>1, <2>2, <2>3
<1>2. Stored' /\ Sound(disk) /\ (crashes = 0 => Alerted(disk))
  BY <1>1 DEF IndInv, RecordsSound, AlertsKept, Stored
<1>3. TypeOK'
  BY <1>1 DEF IndInv, TypeOK
<1>4. RecordsSound' /\ VerdictCurrent'
  BY <1>1, <1>2 DEF RecordsSound, VerdictCurrent
<1>5. AlertsKept'
  BY <1>1, <1>2 DEF AlertsKept, Alerted
<1>6. RowsKept' /\ NoLostUpdate'
  BY <1>1, <1>2 DEF RowsKept, NoLostUpdate
<1> QED
  BY <1>3, <1>4, <1>5, <1>6 DEF IndInv

LEMMA ChecksStep ==
  ASSUME IndInv, SendChecks
  PROVE  IndInv'
<1> DEFINE matched == MatchedTriggers(op.state, op.input)
<1>1. op.kind = "send" /\ op \in Op /\ op.input \in Inputs /\ op.state \in State /\ op # Idle
  BY OpFields DEF SendChecks, IndInv, TypeOK
<1>2. alerts' = alerts \cup matched /\ UNCHANGED <<disk, starts, sent, inPlace, up, crashes>> /\ Stored' = Stored
  BY DEF SendChecks, Stored
<1>3. PICK to \in Routes(op.input), verdict \in {"ok", "refused", "malformed"} :
        op' = IF verdict = "malformed" THEN Idle
              ELSE [kind |-> "send", at |-> "checked", state |-> op.state, input |-> op.input,
                    deliveredTo |-> to, verdict |-> verdict, action |-> HitlAction(matched)]
  BY DEF SendChecks
<1>4. matched \subseteq StopTrigger /\ HitlAction(matched) \in {"continue", "pause", "require_approval"}
  BY Triggers, HitlActions
<1>5. to \in Agents \cup {Human}
  BY <1>1, InputFields, InputAssumption DEF Routes
<1> HIDE DEF matched
<1>6. /\ op' \in Op
      /\ op' # Idle => /\ op'.state = op.state /\ op'.input = op.input /\ op'.kind = "send"
                       /\ op'.action = HitlAction(matched)
  <2>1. CASE verdict = "malformed"
    BY <1>3, <2>1 DEF Op
  <2>2. CASE verdict \in {"ok", "refused"}
    <3>1. op' = [kind |-> "send", at |-> "checked", state |-> op.state, input |-> op.input,
                 deliveredTo |-> to, verdict |-> verdict, action |-> HitlAction(matched)]
      BY <1>3, <2>2
    <3>2. op' \in [kind : {"send"}, at : {"checked"}, state : State, input : Inputs,
                   deliveredTo : Agents \cup {Human}, verdict : {"ok", "refused"},
                   action : {"continue", "pause", "require_approval"}]
      BY <1>1, <1>4, <1>5, <2>2, <3>1
    <3> QED
      BY <3>1, <3>2 DEF Op
  <2> QED
    BY <2>1, <2>2
<1>7. Checked' => op' # Idle
  BY DEF Checked, Idle
<1>8. TypeOK'
  BY <1>2, <1>4, <1>6 DEF IndInv, TypeOK
<1>9. RecordsSound' /\ VerdictCurrent'
  BY <1>1, <1>2, <1>6, <1>7 DEF IndInv, RecordsSound, VerdictCurrent, matched
<1>10. AlertsKept'
  BY <1>1, <1>2, <1>6, <1>7 DEF IndInv, AlertsKept, Alerted, matched
<1>11. RowsKept' /\ NoLostUpdate'
  BY <1>1, <1>2, <1>6 DEF IndInv, RowsKept, NoLostUpdate
<1> QED
  BY <1>8, <1>9, <1>10, <1>11 DEF IndInv

\* The lock is released, nothing is saved: a throw, or the process dies.
LEMMA ReleaseStep ==
  ASSUME IndInv, OpThrows \/ Crash
  PROVE  IndInv'
<1>1. /\ op' = Idle /\ disk' = disk /\ Stored' = Stored /\ ~Checked' /\ UNCHANGED <<sent, inPlace>>
      /\ crashes' = 0 => crashes = 0 /\ alerts' = alerts
      /\ crashes' \in 0..MaxCrashes
  <2>1. CASE OpThrows
    BY <2>1 DEF OpThrows, Stored, Checked, Idle, IndInv, TypeOK
  <2>2. CASE Crash
    <3>1. crashes' \in 0..MaxCrashes /\ crashes' # 0
      BY <2>2, Limits DEF Crash, IndInv, TypeOK
    <3> QED
      BY <2>2, <3>1 DEF Crash, Stored, Checked, Idle
  <2> QED
    BY <2>1, <2>2
<1>2. starts' \in [pending : BOOLEAN, count : 0..MaxStarts] /\ alerts' \subseteq StopTrigger /\ up' \in BOOLEAN
  BY DEF OpThrows, Crash, IndInv, TypeOK
<1>3. TypeOK'
  BY <1>1, <1>2 DEF IndInv, TypeOK, Op
<1>4. RecordsSound' /\ VerdictCurrent' /\ AlertsKept' /\ RowsKept' /\ NoLostUpdate'
  BY <1>1 DEF IndInv, RecordsSound, VerdictCurrent, AlertsKept, Alerted, RowsKept, NoLostUpdate
<1> QED
  BY <1>3, <1>4 DEF IndInv

LEMMA SaveStep ==
  ASSUME IndInv, SaveTruncates \/ SaveCompletes
  PROVE  IndInv'
<1>1. Saving /\ UNCHANGED <<starts, alerts, sent, inPlace, up, crashes>>
  BY DEF SaveTruncates, SaveCompletes
<1>2. /\ op # Idle /\ Sound(Result) /\ Len(op.state.messages) <= Len(Result.messages)
      /\ crashes = 0 => Alerted(Result)
  BY <1>1, ResultSound
<1>3. CASE SaveTruncates
  <2>1. inPlace /\ op' = [kind |-> "save", state |-> Result] /\ disk' = Torn
    BY <1>3 DEF SaveTruncates
  <2>2. ~Stored' /\ op' \in Op /\ op'.state = Result /\ op'.kind = "save" /\ ~Checked'
    BY <1>2, <2>1, MissingAssumption DEF Stored, Op, Checked, Sound, WellFormed
  <2>3. TypeOK'
    BY <1>1, <2>1, <2>2 DEF IndInv, TypeOK, Stored
  <2> QED
    BY <1>1, <1>2, <2>1, <2>2, <2>3
       DEF IndInv, RecordsSound, VerdictCurrent, AlertsKept, Alerted, RowsKept, NoLostUpdate
<1>4. CASE SaveCompletes
  <2> DEFINE d == Merged(Result)
  <2>1. disk' = d /\ op' = Idle /\ (inPlace => op.kind = "save")
    BY <1>4 DEF SaveCompletes
  <2>2. (Stored => WellFormed(disk)) /\ (~inPlace /\ Stored => Len(disk.messages) <= Len(Result.messages))
    BY <1>2 DEF IndInv, RecordsSound, RowsKept, Sound
  <2>3. Sound(d) /\ d.status = Result.status /\ d.reason = Result.reason
    BY <1>2, <2>2, MergedSound
  <2> HIDE DEF d
  <2>4. Stored' /\ ~Checked' /\ d \in State /\ Len(d.injectionScores) <= ScoreWindow /\ d.covered <= Len(d.messages)
    BY <2>1, <2>3 DEF Stored, Checked, Idle, Sound, WellFormed
  <2>5. TypeOK'
    BY <1>1, <2>1, <2>4 DEF IndInv, TypeOK, Op
  <2>6. crashes = 0 => Alerted(d)
    BY <1>2, <2>3 DEF Alerted
  <2> QED
    BY <1>1, <2>1, <2>3, <2>4, <2>5, <2>6
       DEF IndInv, RecordsSound, VerdictCurrent, AlertsKept, Alerted, RowsKept, NoLostUpdate
<1> QED
  BY <1>3, <1>4

LEMMA StartStep ==
  ASSUME IndInv, StartBegins \/ StartSaves
  PROVE  IndInv'
<1>1. UNCHANGED <<op, alerts, sent, inPlace, up, crashes>> /\ Checked' = Checked
  BY DEF StartBegins, StartSaves, Checked
<1>2. starts' \in [pending : BOOLEAN, count : 0..MaxStarts]
  <2>1. CASE StartBegins
    <3>1. starts.count + 1 \in 0..MaxStarts
      BY <2>1, Limits DEF StartBegins, IndInv, TypeOK
    <3> QED
      BY <2>1, <3>1 DEF StartBegins
  <2>2. CASE StartSaves
    BY <2>2 DEF StartSaves, IndInv, TypeOK
  <2> QED
    BY <2>1, <2>2
<1>3. CASE StartBegins
  <2>1. disk' = disk \/ (inPlace /\ disk' = Torn)
    BY <1>3 DEF StartBegins
  <2>2. Stored' => disk' = disk /\ Stored
    BY <2>1, MissingAssumption DEF Stored
  <2>3. ~inPlace => disk' = disk /\ Stored' = Stored
    BY <2>1 DEF Stored
  <2>4. TypeOK'
    BY <1>1, <1>2, <2>1, <2>2 DEF IndInv, TypeOK, Stored
  <2> QED
    BY <1>1, <2>2, <2>3, <2>4
       DEF IndInv, RecordsSound, VerdictCurrent, AlertsKept, Alerted, RowsKept, NoLostUpdate
<1>4. CASE StartSaves
  <2>1. /\ Sound(disk') /\ disk'.status = "active" /\ disk'.reason = "none" /\ disk'.tokensUsed = 0
        /\ ~inPlace /\ Stored => disk'.messages = disk.messages
    BY <1>4, StartSound
  <2>2. /\ Stored' /\ disk' \in State /\ Len(disk'.injectionScores) <= ScoreWindow
        /\ disk'.covered <= Len(disk'.messages)
    BY <2>1 DEF Stored, Sound, WellFormed
  <2>3. TypeOK'
    BY <1>1, <1>2, <2>2 DEF IndInv, TypeOK
  <2> QED
    BY <1>1, <2>1, <2>2, <2>3
       DEF IndInv, RecordsSound, VerdictCurrent, AlertsKept, Alerted, RowsKept, NoLostUpdate
<1> QED
  BY <1>3, <1>4

LEMMA IdleStep ==
  ASSUME IndInv, Restart \/ UNCHANGED vars
  PROVE  IndInv'
<1>1. UNCHANGED <<disk, op, starts, alerts, sent, inPlace, crashes>> /\ up' \in BOOLEAN
  BY DEF Restart, vars, IndInv, TypeOK
<1>2. Stored' = Stored /\ Checked' = Checked
  BY <1>1 DEF Stored, Checked
<1> QED
  BY <1>1, <1>2 DEF IndInv, TypeOK, RecordsSound, VerdictCurrent, AlertsKept, Alerted, RowsKept, NoLostUpdate

-----------------------------------------------------------------------------
(* Theorems *)

\* IndInv is an inductive invariant of the conversation.
THEOREM Inductive == Spec => []IndInv
<1>1. Init => IndInv
  <2> SUFFICES ASSUME Init PROVE IndInv
    OBVIOUS
  <2>1. ~Stored /\ op = Idle /\ ~Checked /\ Idle \in Op
    BY MissingAssumption DEF Init, Stored, Checked, Idle, Op
  <2>2. starts \in [pending : BOOLEAN, count : 0..MaxStarts] /\ sent \in 0..MaxMessages /\ crashes \in 0..MaxCrashes
    BY Limits DEF Init
  <2>3. TypeOK
    BY <2>1, <2>2 DEF Init, TypeOK, Stored
  <2> QED
    BY <2>1, <2>3 DEF IndInv, RecordsSound, VerdictCurrent, AlertsKept, RowsKept, NoLostUpdate
<1>2. IndInv /\ [Next]_vars => IndInv'
  BY LoadStep, ChecksStep, ReleaseStep, SaveStep, StartStep, IdleStep DEF Next, Engine, Client
<1> QED
  BY <1>1, <1>2, PTL DEF Spec

\* Whatever is sent, set, joined, restarted or crashed, and in whichever store: no
\* message is on record as delivered that HITL had a reason to stop.
THEOREM NothingSlipsThrough == Spec => []DeliveredIsCleared
<1>1. IndInv => DeliveredIsCleared
  BY DEF IndInv, RecordsSound, Sound, Faithful, Cleared, DeliveredIsCleared
<1> QED
  BY Inductive, <1>1, PTL

\* The lock of a conversation keeps operations from overwriting each other; only
\* startConversation, which takes none, changes what an operation has loaded.
THEOREM UpdatesAreKept == Spec => []NoLostUpdate
<1>1. IndInv => NoLostUpdate
  BY DEF IndInv
<1> QED
  BY Inductive, <1>1, PTL

\* Until a crash, a conversation that HITL stopped has an alert of the kind that
\* stopped it.
THEOREM StopsAreAlerted == Spec => []StopHasAlert
<1>1. IndInv => StopHasAlert
  BY DEF IndInv, AlertsKept, Alerted, StopHasAlert
<1> QED
  BY Inductive, <1>1, PTL

\* The state is well typed, and the turn is always held by a participant or by the agent
\* the start request named, whoever that was.
THEOREM TurnsAreHeld == Spec => []TurnHolderPresent
<1>1. IndInv => TurnHolderPresent
  BY DEF IndInv, RecordsSound, Sound, WellFormed, TurnHolderPresent
<1> QED
  BY Inductive, <1>1, PTL

-----------------------------------------------------------------------------
(* The rate limiter: windows *)

LEMMA Spans ==
  /\ Minute \in Nat /\ Hour \in Nat /\ Cooldown \in Nat \ {0} /\ Cooldown - 1 \in Nat
  /\ AgentPerMinute \in Nat \ {0} /\ AgentPerHour \in Nat \ {0} /\ effectivePerMinute \in Nat
  /\ ConversationPerMinute \in Nat \ {0} /\ ConversationPerHour \in Nat \ {0} /\ ChallengePerHour \in Nat \ {0}
<1>1. Minute \in Nat /\ Hour \in Nat /\ Cooldown \in Nat \ {0}
  BY SpanAssumption
<1>2. /\ AgentPerMinute \in Nat \ {0} /\ AgentPerHour \in Nat \ {0}
      /\ ConversationPerMinute \in Nat \ {0} /\ ConversationPerHour \in Nat \ {0} /\ ChallengePerHour \in Nat \ {0}
  BY CapAssumption
<1>3. effectivePerMinute \in Nat
  BY <1>2 DEF effectivePerMinute
<1> QED
  BY <1>1, <1>2, <1>3

\* Times up to now.
Times(t) == Seq(0..t)

LEMMA WindowFacts ==
  ASSUME NEW t \in Nat, NEW w \in Times(t)
  PROVE  /\ Len(w) \in Nat /\ DOMAIN w = 1..Len(w)
         /\ \A i \in DOMAIN w : w[i] \in Nat /\ w[i] <= t
<1>1. Len(w) \in Nat /\ DOMAIN w = 1..Len(w)
  BY LenProperties DEF Times
<1>2. \A i \in 1..Len(w) : w[i] \in 0..t
  BY ElementOfSeq DEF Times
<1> QED
  BY <1>1, <1>2

LEMMA WindowFinite ==
  ASSUME NEW t \in Nat, NEW w \in Times(t), NEW span \in Nat, NEW u \in Int
  PROVE  IsFiniteSet(InWindow(w, span, u)) /\ count(w, span, u) \in Nat
<1>1. Len(w) \in Nat /\ DOMAIN w = 1..Len(w)
  BY WindowFacts
<1>2. IsFiniteSet(1..Len(w))
  BY <1>1, FS_Interval
<1>3. InWindow(w, span, u) \in SUBSET (1..Len(w))
  BY <1>1 DEF InWindow
<1>4. IsFiniteSet(InWindow(w, span, u))
  BY <1>2, <1>3, FS_Subset
<1> QED
  BY <1>4, FS_CardinalityType DEF count

LEMMA EmptyWindow ==
  ASSUME NEW span, NEW t
  PROVE  <<>> \in Times(t) /\ count(<<>>, span, t) = 0
<1>1. InWindow(<<>>, span, t) = {}
  BY DEF InWindow
<1> QED
  BY <1>1, EmptySeq, FS_EmptySet DEF count, Times

\* As time passes, events leave a window and none comes back.
LEMMA WindowAges ==
  ASSUME NEW t \in Nat, NEW w \in Times(t), NEW span \in Nat, NEW u \in Int, NEW v \in Int, u <= v
  PROVE  /\ InWindow(w, span, v) \subseteq InWindow(w, span, u)
         /\ count(w, span, v) <= count(w, span, u)
<1>1. InWindow(w, span, v) \subseteq InWindow(w, span, u)
  BY WindowFacts DEF InWindow
<1> QED
  BY <1>1, WindowFinite, FS_Subset DEF count

\* An event that is recorded now is counted once.
LEMMA WindowGrows ==
  ASSUME NEW t \in Nat, NEW w \in Times(t), NEW span \in Nat
  PROVE  Append(w, t) \in Times(t) /\ count(Append(w, t), span, t) = count(w, span, t) + 1
<1> DEFINE n == Len(w)
           x == Append(w, t)
<1>1. n \in Nat /\ DOMAIN w = 1..n /\ \A i \in 1..n : w[i] \in Nat
  BY WindowFacts
<1>2. t \in 0..t
  OBVIOUS
<1>3. x \in Times(t) /\ Len(x) = n + 1 /\ (\A i \in 1..n : x[i] = w[i]) /\ x[n + 1] = t
  BY <1>2, AppendProperties DEF Times
<1> HIDE DEF n, x
<1>4. DOMAIN x = 1..(n + 1)
  BY <1>3, WindowFacts
<1>5. 1..(n + 1) = (1..n) \cup {n + 1} /\ n + 1 \notin 1..n /\ t + span >= t
  BY <1>1
<1>6. InWindow(x, span, t) = InWindow(w, span, t) \cup {n + 1}
  BY <1>1, <1>3, <1>4, <1>5 DEF InWindow
<1>7. n + 1 \notin InWindow(w, span, t)
  BY <1>1, <1>5 DEF InWindow
<1>8. Cardinality(InWindow(x, span, t)) = Cardinality(InWindow(w, span, t)) + 1
  <2>1. IsFiniteSet(InWindow(w, span, t))
    BY WindowFinite
  <2> QED
    BY <1>6, <1>7, <2>1, FS_AddElement
<1> QED
  BY <1>3, <1>8 DEF count, x

Sorted(w) == \A i, j \in DOMAIN w : i <= j => w[i] <= w[j]

LEMMA FirstNumbers ==
  ASSUME NEW n \in Nat
  PROVE  IsFiniteSet(1..n) /\ Cardinality(1..n) = n
<1>1. Cardinality(1..n) = IF 1 > n THEN 0 ELSE n - 1 + 1
  BY FS_Interval
<1>2. IsFiniteSet(1..n)
  BY FS_Interval
<1> QED
  BY <1>1, <1>2

\* What pruning leaves is the end of a window.
LEMMA PruneShape ==
  ASSUME NEW t \in Nat, NEW w \in Times(t)
  PROVE  \E k \in 0..Len(w) :
           /\ prune(w, t) \in Times(t) /\ DOMAIN prune(w, t) = 1..(Len(w) - k)
           /\ \A i \in 1..(Len(w) - k) : prune(w, t)[i] = w[i + k] /\ i + k \in DOMAIN w
<1> DEFINE n == Len(w)
           gone == {i \in DOMAIN w : w[i] + Hour < t}
           k == Cardinality(gone)
           x == prune(w, t)
<1>1. n \in Nat /\ DOMAIN w = 1..n
  BY WindowFacts
<1>2. k \in 0..n
  <2>1. IsFiniteSet(1..n) /\ Cardinality(1..n) = n
    BY <1>1, FirstNumbers
  <2>2. gone \in SUBSET (1..n)
    BY <1>1
  <2> HIDE DEF n, gone
  <2>3. IsFiniteSet(gone) /\ Cardinality(gone) <= n
    BY <2>1, <2>2, FS_Subset
  <2>4. Cardinality(gone) \in Nat
    BY <2>3, FS_CardinalityType
  <2> QED
    BY <1>1, <2>3, <2>4
<1>3. x = SubSeq(w, k + 1, n)
  BY DEF prune
<1> HIDE DEF n, k, x
<1>4. \A i \in (k + 1)..n : w[i] \in 0..t
  BY <1>1, <1>2, WindowFacts
<1>5. /\ x \in Times(t) /\ Len(x) = (IF k + 1 <= n THEN n - (k + 1) + 1 ELSE 0)
      /\ \A i \in 1..(n - (k + 1) + 1) : x[i] = w[(k + 1) + i - 1]
  BY <1>1, <1>2, <1>3, <1>4, SubSeqProperties DEF Times
<1>6. Len(x) = n - k /\ n - (k + 1) + 1 = n - k
  BY <1>1, <1>2, <1>5
<1>7. DOMAIN x = 1..(n - k)
  BY <1>5, <1>6, WindowFacts
<1>8. ASSUME NEW i \in 1..(n - k) PROVE x[i] = w[i + k] /\ i + k \in 1..n
  <2>1. (k + 1) + i - 1 = i + k /\ i + k \in 1..n
    BY <1>1, <1>2
  <2> QED
    BY <1>5, <1>6, <2>1
<1> QED
  BY <1>1, <1>2, <1>5, <1>7, <1>8 DEF n, x

\* Pruning keeps the order and counts nothing anew.
LEMMA WindowPruned ==
  ASSUME NEW t \in Nat, NEW w \in Times(t)
  PROVE  /\ prune(w, t) \in Times(t)
         /\ Sorted(w) => Sorted(prune(w, t))
         /\ \A span \in Nat : count(prune(w, t), span, t) <= count(w, span, t)
<1> DEFINE n == Len(w)
           x == prune(w, t)
<1>1. n \in Nat /\ DOMAIN w = 1..n
  BY WindowFacts
<1>2. PICK k \in 0..n : /\ x \in Times(t) /\ DOMAIN x = 1..(n - k)
                        /\ \A i \in 1..(n - k) : x[i] = w[i + k] /\ i + k \in DOMAIN w
  BY PruneShape
<1> HIDE DEF n, x
<1>3. Sorted(w) => Sorted(x)
  <2> SUFFICES ASSUME Sorted(w), NEW i \in 1..(n - k), NEW j \in 1..(n - k), i <= j PROVE x[i] <= x[j]
    BY <1>2 DEF Sorted
  <2>1. i + k <= j + k
    BY <1>1
  <2> QED
    BY <1>2, <2>1 DEF Sorted
<1>4. ASSUME NEW span \in Nat PROVE count(x, span, t) <= count(w, span, t)
  <2> DEFINE A == InWindow(x, span, t)
             B == InWindow(w, span, t)
             f == [i \in A |-> i + k]
  <2>1. A \subseteq 1..(n - k)
    BY <1>2 DEF InWindow
  <2>2. \A i \in A : i + k \in B
    BY <1>2, <2>1 DEF InWindow
  <2>3. IsFiniteSet(B)
    BY WindowFinite
  <2>4. \A i, j \in A : i + k = j + k => i = j
    BY <1>1, <2>1
  <2> HIDE DEF A, B
  <2>5. f \in Injection(A, B)
    BY <2>2, <2>4 DEF Injection, IsInjective
  <2>6. Cardinality(A) <= Cardinality(B)
    BY <2>3, <2>5, FS_Injection
  <2> QED
    BY <2>6 DEF count, A, B
<1> QED
  BY <1>2, <1>3, <1>4 DEF x

LEMMA SortedGrows ==
  ASSUME NEW t \in Nat, NEW w \in Times(t), Sorted(w)
  PROVE  Sorted(Append(w, t))
<1> DEFINE n == Len(w)
           x == Append(w, t)
<1>1. n \in Nat /\ DOMAIN w = 1..n /\ \A i \in 1..n : w[i] \in Nat /\ w[i] <= t
  BY WindowFacts
<1>2. x \in Times(t) /\ Len(x) = n + 1 /\ (\A i \in 1..n : x[i] = w[i]) /\ x[n + 1] = t
  BY AppendProperties DEF Times
<1> HIDE DEF n, x
<1>3. DOMAIN x = 1..(n + 1)
  BY <1>2, WindowFacts
<1>4. ASSUME NEW i \in 1..(n + 1), NEW j \in 1..(n + 1), i <= j PROVE x[i] <= x[j]
  <2>1. CASE j \in 1..n
    <3>1. i \in 1..n
      BY <1>1, <1>4, <2>1
    <3> QED
      BY <1>1, <1>2, <1>4, <2>1, <3>1 DEF Sorted
  <2>2. CASE j = n + 1
    <3>1. i \in 1..n \/ i = n + 1
      BY <1>1
    <3> QED
      BY <1>1, <1>2, <2>2, <3>1
  <2> QED
    BY <1>1, <2>1, <2>2
<1> QED
  BY <1>3, <1>4 DEF Sorted, x

\* The events the cooldown looks at are a window too.
LEMMA CooldownIsWindow ==
  ASSUME NEW t \in Nat, NEW w \in Times(t)
  PROVE  {i \in DOMAIN w : w[i] + Cooldown > t} = InWindow(w, Cooldown - 1, t)
<1>1. \A i \in DOMAIN w : w[i] \in Nat
  BY WindowFacts
<1> QED
  BY <1>1, Spans DEF InWindow

\* When the last challenge is Cooldown old, all of them are.
LEMMA CooledDown ==
  ASSUME NEW t \in Nat, NEW w \in Times(t), Sorted(w), w # <<>> => t - w[Len(w)] >= Cooldown
  PROVE  count(w, Cooldown - 1, t) = 0
<1> DEFINE n == Len(w)
<1>1. n \in Nat /\ DOMAIN w = 1..n /\ \A i \in 1..n : w[i] \in Nat /\ w[i] <= t
  BY WindowFacts
<1>2. ASSUME NEW i \in 1..n, w[i] + (Cooldown - 1) >= t PROVE FALSE
  <2>1. w # <<>>
    BY <1>1
  <2> HIDE DEF n
  <2>2. n \in 1..n /\ i <= n
    BY <1>1
  <2>3. w[i] <= w[n] /\ w[i] \in Nat /\ w[n] \in Nat
    BY <1>1, <2>2 DEF Sorted
  <2>4. t - w[n] >= Cooldown
    BY <2>1 DEF n
  <2> QED
    BY <1>2, <2>3, <2>4, Spans
<1>3. InWindow(w, Cooldown - 1, t) = {}
  BY <1>1, <1>2 DEF InWindow
<1> QED
  BY <1>3, FS_EmptySet DEF count

-----------------------------------------------------------------------------
(* The sends under way *)

Sends == [Conversations -> Send \cup {None}]
Sent(s, a) == {c \in Conversations : s[c] # None /\ s[c].from = a}
Challenged(s, p) == {c \in Conversations : s[c] # None /\ s[c].challenge /\ pairKey(s[c].from, s[c].to) = p}
Total == Cardinality(Conversations)

LEMMA Totals ==
  /\ IsFiniteSet(Conversations) /\ Total \in Nat \ {0} /\ Spare = Total - 1
<1>1. IsFiniteSet(Conversations) /\ Conversations # {}
  BY FiniteAssumption
<1>2. Total \in Nat
  BY <1>1, FS_CardinalityType DEF Total
<1>3. Total # 0
  BY <1>1, FS_EmptySet DEF Total
<1> QED
  BY <1>1, <1>2, <1>3 DEF Spare, Total

LEMMA Some ==
  ASSUME NEW S \in SUBSET Conversations
  PROVE  /\ IsFiniteSet(S) /\ Cardinality(S) \in Nat /\ Cardinality(S) <= Total
         /\ \A c \in S : Cardinality(S \ {c}) = Cardinality(S) - 1
         /\ \A c : Cardinality(S \ {c}) <= Cardinality(S)
<1>1. IsFiniteSet(S) /\ Cardinality(S) <= Total
  BY Totals, FS_Subset DEF Total
<1>2. Cardinality(S) \in Nat
  BY <1>1, FS_CardinalityType
<1>3. \A c \in S : Cardinality(S \ {c}) = Cardinality(S) - 1
  BY <1>1, FS_RemoveElement
<1>4. \A c : Cardinality(S \ {c}) <= Cardinality(S)
  BY <1>1, FS_Subset
<1> QED
  BY <1>1, <1>2, <1>3, <1>4

LEMMA SendFields ==
  ASSUME NEW x \in Send
  PROVE  /\ x.from \in AgentIds /\ x.to \in AgentIds /\ x.challenge \in BOOLEAN /\ x # None
         /\ pairKey(x.from, x.to) \in Pairs
BY NoneAssumption DEF Send, Pairs

\* A send that begins counts for its agent, and its pair when it is a challenge.
LEMMA SendBegins ==
  ASSUME NEW s \in Sends, NEW c \in Conversations, s[c] = None, NEW x \in Send
  PROVE  LET u == [s EXCEPT ![c] = x]
         IN /\ u \in Sends
            /\ \A a \in AgentIds : a # x.from => Sent(u, a) = Sent(s, a)
            /\ \A p \in Pairs : ~(x.challenge /\ pairKey(x.from, x.to) = p) => Challenged(u, p) = Challenged(s, p)
<1> DEFINE u == [s EXCEPT ![c] = x]
<1>1. u \in Sends /\ u[c] = x /\ \A d \in Conversations : d # c => u[d] = s[d]
  BY DEF Sends
<1> HIDE DEF u
<1>2. \A a \in AgentIds : a # x.from => Sent(u, a) = Sent(s, a)
  BY <1>1 DEF Sent
<1>3. ASSUME NEW p \in Pairs, ~(x.challenge /\ pairKey(x.from, x.to) = p)
      PROVE  Challenged(u, p) = Challenged(s, p)
  BY <1>1, <1>3 DEF Challenged
<1> QED
  BY <1>1, <1>2, <1>3 DEF u

\* A send that ends counts no more.
LEMMA SendEnds ==
  ASSUME NEW s \in Sends, NEW c \in Conversations
  PROVE  LET u == [s EXCEPT ![c] = None]
         IN /\ u \in Sends
            /\ \A a \in AgentIds : Sent(u, a) = Sent(s, a) \ {c}
            /\ \A p \in Pairs : Challenged(u, p) = Challenged(s, p) \ {c}
<1> DEFINE u == [s EXCEPT ![c] = None]
<1>1. u \in Sends /\ u[c] = None /\ \A d \in Conversations : d # c => u[d] = s[d]
  BY DEF Sends
<1> HIDE DEF u
<1>2. \A a \in AgentIds : Sent(u, a) = Sent(s, a) \ {c}
  BY <1>1 DEF Sent
<1>3. \A p \in Pairs : Challenged(u, p) = Challenged(s, p) \ {c}
  BY <1>1 DEF Challenged
<1> QED
  BY <1>1, <1>2, <1>3 DEF u

-----------------------------------------------------------------------------
(* The limits, one window at a time *)

Open(x) == IF x = None THEN 0 ELSE 1

ConversationHeld(t, w, n) ==
  count(w, Minute, t) + n <= ConversationPerMinute /\ count(w, Hour, t) + n <= ConversationPerHour
AgentHeld(t, w, n) ==
  count(w, Minute, t) + n <= effectivePerMinute + Spare /\ count(w, Hour, t) + n <= AgentPerHour + Spare
PairHeld(t, w, n) == count(w, Cooldown - 1, t) + n <= Total

LimiterInv ==
  /\ LimiterTypeOK
  /\ \A c \in Conversations : ConversationHeld(now, conversationWindows[c], Open(sending[c]))
  /\ \A a \in AgentIds : AgentHeld(now, agentWindows[a], Cardinality(Sent(sending, a)))
  /\ \A p \in Pairs : /\ PairHeld(now, challengeWindows[p], Cardinality(Challenged(sending, p)))
                      /\ Sorted(challengeWindows[p])

LEMMA LimiterInvLimits == LimiterInv <=> LimitsHold /\ \A p \in Pairs : Sorted(challengeWindows[p])
<1>1. ASSUME LimiterTypeOK, NEW p \in Pairs
      PROVE  PairHeld(now, challengeWindows[p], Cardinality(Challenged(sending, p))) <=>
               Cardinality({i \in DOMAIN challengeWindows[p] : challengeWindows[p][i] + Cooldown > now})
                 + Cardinality(ChallengedIn(p)) <= Cardinality(Conversations)
  <2>1. now \in Nat /\ challengeWindows[p] \in Times(now)
    BY <1>1 DEF LimiterTypeOK, Times
  <2>2. {i \in DOMAIN challengeWindows[p] : challengeWindows[p][i] + Cooldown > now}
          = InWindow(challengeWindows[p], Cooldown - 1, now)
    BY <2>1, CooldownIsWindow
  <2>3. ChallengedIn(p) = Challenged(sending, p)
    BY DEF ChallengedIn, Challenged
  <2> QED
    BY <2>2, <2>3 DEF PairHeld, count, Total
<1>2. \A a \in AgentIds : SentBy(a) = Sent(sending, a)
  BY DEF SentBy, Sent
<1>3. LimiterInv => LimitsHold /\ \A p \in Pairs : Sorted(challengeWindows[p])
  BY <1>1, <1>2 DEF LimiterInv, LimitsHold, ConversationHeld, AgentHeld, Open
<1>4. LimitsHold /\ (\A p \in Pairs : Sorted(challengeWindows[p])) => LimiterInv
  BY <1>1, <1>2 DEF LimiterInv, LimitsHold, ConversationHeld, AgentHeld, Open
<1> QED
  BY <1>3, <1>4

LEMMA Typed ==
  ASSUME LimiterTypeOK
  PROVE  /\ now \in Nat /\ sending \in Sends
         /\ \A a \in AgentIds : agentWindows[a] \in Times(now)
         /\ \A c \in Conversations : conversationWindows[c] \in Times(now)
         /\ \A p \in Pairs : challengeWindows[p] \in Times(now)
BY DEF LimiterTypeOK, Times, Sends

LEMMA Counts ==
  ASSUME NEW t \in Nat, NEW w \in Times(t)
  PROVE  count(w, Minute, t) \in Nat /\ count(w, Hour, t) \in Nat /\ count(w, Cooldown - 1, t) \in Nat
<1>1. \A span \in Nat : count(w, span, t) \in Nat
  BY WindowFinite
<1> QED
  BY <1>1, Spans

\* A limit that held holds when no more is counted and no more is under way.
NoMore(w, t, x, u) == \A span \in Nat : count(x, span, u) <= count(w, span, t)

LEMMA HeldStays ==
  ASSUME NEW t \in Nat, NEW w \in Times(t), NEW u \in Nat, NEW x \in Times(u), NoMore(w, t, x, u),
         NEW m \in Nat, NEW n \in Nat, n <= m
  PROVE  /\ ConversationHeld(t, w, m) => ConversationHeld(u, x, n)
         /\ AgentHeld(t, w, m) => AgentHeld(u, x, n)
         /\ PairHeld(t, w, m) => PairHeld(u, x, n)
<1>1. /\ count(w, Minute, t) \in Nat /\ count(w, Hour, t) \in Nat /\ count(w, Cooldown - 1, t) \in Nat
      /\ count(x, Minute, u) \in Nat /\ count(x, Hour, u) \in Nat /\ count(x, Cooldown - 1, u) \in Nat
  BY Counts
<1>2. /\ count(x, Minute, u) <= count(w, Minute, t) /\ count(x, Hour, u) <= count(w, Hour, t)
      /\ count(x, Cooldown - 1, u) <= count(w, Cooldown - 1, t)
  BY Spans DEF NoMore
<1>3. ConversationPerMinute \in Nat /\ ConversationPerHour \in Nat /\ effectivePerMinute \in Nat
      /\ AgentPerHour \in Nat /\ Total \in Nat /\ Spare \in Int
  BY Spans, Totals
<1>4. ConversationHeld(t, w, m) => ConversationHeld(u, x, n)
  BY <1>1, <1>2, <1>3 DEF ConversationHeld
<1>5. AgentHeld(t, w, m) => AgentHeld(u, x, n)
  BY <1>1, <1>2, <1>3 DEF AgentHeld
<1>6. PairHeld(t, w, m) => PairHeld(u, x, n)
  BY <1>1, <1>2, <1>3 DEF PairHeld
<1> QED
  BY <1>4, <1>5, <1>6

\* What was under way is recorded: what is counted and what is under way still add up.
LEMMA HeldRecords ==
  ASSUME NEW t \in Nat, NEW w \in Times(t), NEW m \in Nat, NEW n \in Nat, n = m - 1
  PROVE  /\ ConversationHeld(t, w, m) => ConversationHeld(t, Append(w, t), n)
         /\ AgentHeld(t, w, m) => AgentHeld(t, Append(w, t), n)
         /\ PairHeld(t, w, m) => PairHeld(t, Append(w, t), n)
<1>1. count(w, Minute, t) \in Nat /\ count(w, Hour, t) \in Nat /\ count(w, Cooldown - 1, t) \in Nat
  BY Counts
<1>2. /\ count(Append(w, t), Minute, t) = count(w, Minute, t) + 1
      /\ count(Append(w, t), Hour, t) = count(w, Hour, t) + 1
      /\ count(Append(w, t), Cooldown - 1, t) = count(w, Cooldown - 1, t) + 1
  BY WindowGrows, Spans
<1> QED
  BY <1>1, <1>2 DEF ConversationHeld, AgentHeld, PairHeld

\* The open send is the one that was checked.
LEMMA OpenFacts == Open(None) = 0 /\ \A x \in Send : Open(x) = 1
BY SendFields DEF Open

LEMMA OpenType == \A x : Open(x) \in Nat
BY DEF Open

LEMMA LimiterInitially == LimiterInit => LimiterInv
<1> SUFFICES ASSUME LimiterInit PROVE LimiterInv
  OBVIOUS
<1>1. LimiterTypeOK
  <2>1. <<>> \in Seq(0..now)
    BY EmptySeq
  <2> QED
    BY <2>1 DEF LimiterInit, LimiterTypeOK
<1>2. \A a : Cardinality(Sent(sending, a)) = 0
  <2>1. \A a : Sent(sending, a) = {}
    BY DEF LimiterInit, Sent
  <2> QED
    BY <2>1, FS_EmptySet
<1>3. \A p : Cardinality(Challenged(sending, p)) = 0
  <2>1. \A p : Challenged(sending, p) = {}
    BY DEF LimiterInit, Challenged
  <2> QED
    BY <2>1, FS_EmptySet
<1>4. \A span : count(<<>>, span, now) = 0
  BY EmptyWindow
<1>5. /\ \A a \in AgentIds : agentWindows[a] = <<>>
      /\ \A c \in Conversations : conversationWindows[c] = <<>> /\ Open(sending[c]) = 0
      /\ \A p \in Pairs : challengeWindows[p] = <<>>
  BY DEF LimiterInit, Open
<1>6. /\ \A c \in Conversations : ConversationHeld(now, conversationWindows[c], Open(sending[c]))
      /\ \A a \in AgentIds : AgentHeld(now, agentWindows[a], Cardinality(Sent(sending, a)))
      /\ \A p \in Pairs : PairHeld(now, challengeWindows[p], Cardinality(Challenged(sending, p)))
  <2>1. ConversationHeld(now, <<>>, 0) /\ AgentHeld(now, <<>>, 0) /\ PairHeld(now, <<>>, 0)
    BY <1>4, Spans, Totals DEF ConversationHeld, AgentHeld, PairHeld
  <2> QED
    BY <1>2, <1>3, <1>5, <2>1
<1>7. \A p \in Pairs : Sorted(challengeWindows[p])
  BY <1>5 DEF Sorted
<1> QED
  BY <1>1, <1>6, <1>7 DEF LimiterInv

\* Whom a conversation lets through is counted in.
LEMMA CheckStep ==
  ASSUME LimiterInv, NEW c \in Conversations, NEW x \in Send, Check(c, x)
  PROVE  LimiterInv'
<1>1. /\ sending[c] = None /\ checkAll(c, x) /\ sending' = [sending EXCEPT ![c] = x]
      /\ UNCHANGED <<now, agentWindows, conversationWindows, challengeWindows>>
  BY DEF Check
<1>2. /\ LimiterTypeOK /\ now \in Nat /\ sending \in Sends
      /\ \A a \in AgentIds : agentWindows[a] \in Times(now)
      /\ \A d \in Conversations : conversationWindows[d] \in Times(now)
      /\ \A p \in Pairs : challengeWindows[p] \in Times(now)
  BY Typed DEF LimiterInv
<1>3. /\ x.from \in AgentIds /\ x.to \in AgentIds /\ x.challenge \in BOOLEAN /\ pairKey(x.from, x.to) \in Pairs
  BY SendFields
<1>4. /\ sending' \in Sends
      /\ \A a \in AgentIds : a # x.from => Sent(sending', a) = Sent(sending, a)
      /\ \A p \in Pairs : ~(x.challenge /\ pairKey(x.from, x.to) = p) => Challenged(sending', p) = Challenged(sending, p)
  BY <1>1, <1>2, SendBegins
<1>5. LimiterTypeOK'
  BY <1>1, <1>2, <1>4 DEF LimiterTypeOK, Sends
<1>6. ASSUME NEW d \in Conversations PROVE ConversationHeld(now, conversationWindows[d], Open(sending'[d]))
  <2>1. CASE d # c
    <3>1. sending'[d] = sending[d]
      BY <1>1, <1>2, <2>1 DEF Sends
    <3> QED
      BY <3>1 DEF LimiterInv
  <2>2. CASE d = c
    <3>1. Open(sending'[d]) = 1
      BY <1>1, <1>2, <2>2, OpenFacts DEF Sends
    <3>2. count(conversationWindows[c], Minute, now) \in Nat /\ count(conversationWindows[c], Hour, now) \in Nat
      BY <1>2, Counts
    <3>3. /\ count(conversationWindows[c], Minute, now) < ConversationPerMinute
          /\ count(conversationWindows[c], Hour, now) < ConversationPerHour
      BY <1>1 DEF checkAll, checkConversationLimit
    <3> QED
      BY <2>2, <3>1, <3>2, <3>3, Spans DEF ConversationHeld
  <2> QED
    BY <2>1, <2>2
<1>7. ASSUME NEW a \in AgentIds PROVE AgentHeld(now, agentWindows[a], Cardinality(Sent(sending', a)))
  <2>1. CASE a # x.from
    BY <1>4, <2>1 DEF LimiterInv
  <2>2. CASE a = x.from
    <3>1. Sent(sending', a) \in SUBSET Conversations
      BY DEF Sent
    <3>2. Cardinality(Sent(sending', a)) \in Nat /\ Cardinality(Sent(sending', a)) <= Total
      BY <3>1, Some
    <3>3. count(agentWindows[a], Minute, now) \in Nat /\ count(agentWindows[a], Hour, now) \in Nat
      BY <1>2, Counts
    <3>4. /\ count(agentWindows[a], Minute, now) < effectivePerMinute
          /\ count(agentWindows[a], Hour, now) < AgentPerHour
      BY <1>1, <2>2 DEF checkAll, checkAgentLimit
    <3> QED
      BY <3>2, <3>3, <3>4, Spans, Totals DEF AgentHeld
  <2> QED
    BY <2>1, <2>2
<1>8. ASSUME NEW p \in Pairs PROVE PairHeld(now, challengeWindows[p], Cardinality(Challenged(sending', p)))
  <2>1. CASE ~(x.challenge /\ pairKey(x.from, x.to) = p)
    BY <1>4, <2>1 DEF LimiterInv
  <2>2. CASE x.challenge /\ pairKey(x.from, x.to) = p
    <3>1. Challenged(sending', p) \in SUBSET Conversations
      BY DEF Challenged
    <3>2. Cardinality(Challenged(sending', p)) \in Nat /\ Cardinality(Challenged(sending', p)) <= Total
      BY <3>1, Some
    <3> DEFINE w == challengeWindows[p]
    <3>3. w # <<>> => now - w[Len(w)] >= Cooldown
      BY <1>1, <2>2 DEF checkAll, checkChallengeLimit
    <3>4. Sorted(w) /\ w \in Times(now)
      BY <1>2 DEF LimiterInv
    <3> HIDE DEF w
    <3>5. count(w, Cooldown - 1, now) = 0
      BY <1>2, <3>3, <3>4, CooledDown
    <3> QED
      BY <3>2, <3>5, Totals DEF PairHeld, w
  <2> QED
    BY <2>1, <2>2
<1>9. \A p \in Pairs : Sorted(challengeWindows[p])
  BY DEF LimiterInv
<1> QED
  BY <1>1, <1>5, <1>6, <1>7, <1>8, <1>9 DEF LimiterInv

\* What leaves the limits as they are: no more is counted, and no more is under way.
LEMMA NothingMore ==
  ASSUME LimiterInv, LimiterTypeOK',
         \A c \in Conversations : NoMore(conversationWindows[c], now, conversationWindows'[c], now'),
         \A a \in AgentIds : NoMore(agentWindows[a], now, agentWindows'[a], now'),
         \A p \in Pairs : /\ NoMore(challengeWindows[p], now, challengeWindows'[p], now')
                          /\ Sorted(challengeWindows'[p]),
         \A c \in Conversations : Open(sending'[c]) <= Open(sending[c]),
         \A a \in AgentIds : Sent(sending', a) \subseteq Sent(sending, a),
         \A p \in Pairs : Challenged(sending', p) \subseteq Challenged(sending, p)
  PROVE  LimiterInv'
<1>1. /\ now \in Nat
      /\ \A a \in AgentIds : agentWindows[a] \in Times(now)
      /\ \A d \in Conversations : conversationWindows[d] \in Times(now)
      /\ \A p \in Pairs : challengeWindows[p] \in Times(now)
  BY Typed DEF LimiterInv
<1>2. /\ now' \in Nat
      /\ \A a \in AgentIds : agentWindows'[a] \in Times(now')
      /\ \A d \in Conversations : conversationWindows'[d] \in Times(now')
      /\ \A p \in Pairs : challengeWindows'[p] \in Times(now')
  BY DEF LimiterTypeOK, Times
<1>3. ASSUME NEW c \in Conversations PROVE ConversationHeld(now', conversationWindows'[c], Open(sending'[c]))
  BY <1>1, <1>2, OpenType, HeldStays DEF LimiterInv
<1>4. ASSUME NEW a \in AgentIds PROVE AgentHeld(now', agentWindows'[a], Cardinality(Sent(sending', a)))
  <2>1. /\ Cardinality(Sent(sending, a)) \in Nat /\ Cardinality(Sent(sending', a)) \in Nat
        /\ Cardinality(Sent(sending', a)) <= Cardinality(Sent(sending, a))
    <3>1. Sent(sending, a) \in SUBSET Conversations /\ Sent(sending', a) \in SUBSET Conversations
      BY DEF Sent
    <3>2. IsFiniteSet(Sent(sending, a))
      BY <3>1, Some
    <3> QED
      BY <3>1, <3>2, Some, FS_Subset
  <2>2. AgentHeld(now, agentWindows[a], Cardinality(Sent(sending, a)))
    BY DEF LimiterInv
  <2> QED
    BY <1>1, <1>2, <2>1, <2>2, HeldStays
<1>5. ASSUME NEW p \in Pairs PROVE PairHeld(now', challengeWindows'[p], Cardinality(Challenged(sending', p)))
  <2>1. /\ Cardinality(Challenged(sending, p)) \in Nat /\ Cardinality(Challenged(sending', p)) \in Nat
        /\ Cardinality(Challenged(sending', p)) <= Cardinality(Challenged(sending, p))
    <3>1. Challenged(sending, p) \in SUBSET Conversations /\ Challenged(sending', p) \in SUBSET Conversations
      BY DEF Challenged
    <3>2. IsFiniteSet(Challenged(sending, p))
      BY <3>1, Some
    <3> QED
      BY <3>1, <3>2, Some, FS_Subset
  <2>2. PairHeld(now, challengeWindows[p], Cardinality(Challenged(sending, p)))
    BY DEF LimiterInv
  <2> QED
    BY <1>1, <1>2, <2>1, <2>2, HeldStays
<1> QED
  BY <1>3, <1>4, <1>5 DEF LimiterInv


LEMMA WindowIsNoMore ==
  ASSUME NEW t \in Nat, NEW w \in Times(t)
  PROVE  NoMore(w, t, w, t)
<1>1. \A span \in Nat : count(w, span, t) \in Nat
  BY WindowFinite
<1> QED
  BY <1>1 DEF NoMore

LEMMA DropStep ==
  ASSUME LimiterInv, NEW c \in Conversations, Drop(c)
  PROVE  LimiterInv'
<1>1. /\ sending' = [sending EXCEPT ![c] = None]
      /\ UNCHANGED <<now, agentWindows, conversationWindows, challengeWindows>>
  BY DEF Drop
<1>2. /\ LimiterTypeOK /\ now \in Nat /\ sending \in Sends
      /\ \A a \in AgentIds : agentWindows[a] \in Times(now)
      /\ \A d \in Conversations : conversationWindows[d] \in Times(now)
      /\ \A p \in Pairs : challengeWindows[p] \in Times(now) /\ Sorted(challengeWindows[p])
  BY Typed DEF LimiterInv
<1>3. /\ sending' \in Sends
      /\ \A a \in AgentIds : Sent(sending', a) = Sent(sending, a) \ {c}
      /\ \A p \in Pairs : Challenged(sending', p) = Challenged(sending, p) \ {c}
  BY <1>1, <1>2, SendEnds
<1>4. LimiterTypeOK'
  BY <1>1, <1>2, <1>3 DEF LimiterTypeOK, Sends
<1>5. ASSUME NEW d \in Conversations PROVE Open(sending'[d]) <= Open(sending[d])
  <2>1. sending'[d] = None \/ sending'[d] = sending[d]
    BY <1>1, <1>2 DEF Sends
  <2> QED
    BY <2>1 DEF Open
<1>6. /\ \A d \in Conversations : NoMore(conversationWindows[d], now, conversationWindows'[d], now')
      /\ \A a \in AgentIds : NoMore(agentWindows[a], now, agentWindows'[a], now')
      /\ \A p \in Pairs : NoMore(challengeWindows[p], now, challengeWindows'[p], now') /\ Sorted(challengeWindows'[p])
  BY <1>1, <1>2, WindowIsNoMore
<1> QED
  BY <1>3, <1>4, <1>5, <1>6, NothingMore

LEMMA PruneStep ==
  ASSUME LimiterInv, Prune
  PROVE  LimiterInv'
<1>1. /\ agentWindows' = [a \in AgentIds |-> prune(agentWindows[a], now)]
      /\ conversationWindows' = [c \in Conversations |-> prune(conversationWindows[c], now)]
      /\ challengeWindows' = [p \in Pairs |-> prune(challengeWindows[p], now)]
      /\ UNCHANGED <<now, sending>>
  BY DEF Prune
<1>2. /\ LimiterTypeOK /\ now \in Nat /\ sending \in Sends
      /\ \A a \in AgentIds : agentWindows[a] \in Times(now)
      /\ \A d \in Conversations : conversationWindows[d] \in Times(now)
      /\ \A p \in Pairs : challengeWindows[p] \in Times(now) /\ Sorted(challengeWindows[p])
  BY Typed DEF LimiterInv
<1>3. \A w \in Times(now) : /\ prune(w, now) \in Times(now) /\ NoMore(w, now, prune(w, now), now)
                            /\ Sorted(w) => Sorted(prune(w, now))
  BY <1>2, WindowPruned DEF NoMore
<1>4. LimiterTypeOK'
  <2>1. /\ agentWindows' \in [AgentIds -> Times(now)]
        /\ conversationWindows' \in [Conversations -> Times(now)]
        /\ challengeWindows' \in [Pairs -> Times(now)]
    BY <1>1, <1>2, <1>3
  <2> QED
    BY <1>1, <1>2, <2>1 DEF LimiterTypeOK, Times
<1>5. /\ \A d \in Conversations : NoMore(conversationWindows[d], now, conversationWindows'[d], now')
      /\ \A a \in AgentIds : NoMore(agentWindows[a], now, agentWindows'[a], now')
      /\ \A p \in Pairs : NoMore(challengeWindows[p], now, challengeWindows'[p], now') /\ Sorted(challengeWindows'[p])
  BY <1>1, <1>2, <1>3
<1>6. /\ \A d \in Conversations : Open(sending'[d]) <= Open(sending[d])
      /\ \A a \in AgentIds : Sent(sending', a) \subseteq Sent(sending, a)
      /\ \A p \in Pairs : Challenged(sending', p) \subseteq Challenged(sending, p)
  BY <1>1, OpenType
<1> QED
  BY <1>4, <1>5, <1>6, NothingMore

LEMMA TickStep ==
  ASSUME LimiterInv, Tick
  PROVE  LimiterInv'
<1>1. now' = now + 1 /\ UNCHANGED <<agentWindows, conversationWindows, challengeWindows, sending>>
  BY DEF Tick
<1>2. /\ LimiterTypeOK /\ now \in Nat /\ sending \in Sends
      /\ \A a \in AgentIds : agentWindows[a] \in Times(now)
      /\ \A d \in Conversations : conversationWindows[d] \in Times(now)
      /\ \A p \in Pairs : challengeWindows[p] \in Times(now) /\ Sorted(challengeWindows[p])
  BY Typed DEF LimiterInv
<1>3. ASSUME NEW w \in Times(now) PROVE w \in Times(now + 1) /\ NoMore(w, now, w, now + 1)
  <2>1. 0..now \subseteq 0..(now + 1)
    BY <1>2
  <2>2. w \in Times(now + 1)
    BY <2>1, SeqMonotonic DEF Times
  <2>3. \A span \in Nat : count(w, span, now + 1) <= count(w, span, now)
    <3>1. now \in Int /\ now + 1 \in Int /\ now <= now + 1
      BY <1>2
    <3> QED
      BY <1>2, <3>1, WindowAges
  <2> QED
    BY <2>2, <2>3 DEF NoMore
<1>4. LimiterTypeOK'
  <2>1. now + 1 \in Nat
    BY <1>2
  <2>2. /\ agentWindows \in [AgentIds -> Times(now + 1)]
        /\ conversationWindows \in [Conversations -> Times(now + 1)]
        /\ challengeWindows \in [Pairs -> Times(now + 1)]
    BY <1>2, <1>3 DEF LimiterTypeOK
  <2> QED
    BY <1>1, <1>2, <2>1, <2>2 DEF LimiterTypeOK, Times
<1>5. /\ \A d \in Conversations : NoMore(conversationWindows[d], now, conversationWindows'[d], now')
      /\ \A a \in AgentIds : NoMore(agentWindows[a], now, agentWindows'[a], now')
      /\ \A p \in Pairs : NoMore(challengeWindows[p], now, challengeWindows'[p], now') /\ Sorted(challengeWindows'[p])
  BY <1>1, <1>2, <1>3
<1>6. /\ \A d \in Conversations : Open(sending'[d]) <= Open(sending[d])
      /\ \A a \in AgentIds : Sent(sending', a) \subseteq Sent(sending, a)
      /\ \A p \in Pairs : Challenged(sending', p) \subseteq Challenged(sending, p)
  BY <1>1, OpenType
<1> QED
  BY <1>4, <1>5, <1>6, NothingMore

\* What is recorded was under way, and is under way no more.
LEMMA RecordStep ==
  ASSUME LimiterInv, NEW c \in Conversations, Record(c)
  PROVE  LimiterInv'
<1> DEFINE x == sending[c]
           key == pairKey(x.from, x.to)
<1>1. /\ x # None
      /\ agentWindows' = [agentWindows EXCEPT ![x.from] = Append(agentWindows[x.from], now)]
      /\ conversationWindows' = [conversationWindows EXCEPT ![c] = Append(conversationWindows[c], now)]
      /\ challengeWindows' = IF x.challenge
           THEN [challengeWindows EXCEPT ![key] = Append(challengeWindows[key], now)]
           ELSE challengeWindows
      /\ sending' = [sending EXCEPT ![c] = None]
      /\ now' = now
  BY DEF Record
<1>2. /\ LimiterTypeOK /\ now \in Nat /\ sending \in Sends
      /\ \A a \in AgentIds : agentWindows[a] \in Times(now)
      /\ \A d \in Conversations : conversationWindows[d] \in Times(now)
      /\ \A p \in Pairs : challengeWindows[p] \in Times(now) /\ Sorted(challengeWindows[p])
  BY Typed DEF LimiterInv
<1>3. /\ agentWindows \in [AgentIds -> Times(now)] /\ conversationWindows \in [Conversations -> Times(now)]
      /\ challengeWindows \in [Pairs -> Times(now)]
  BY <1>2 DEF LimiterTypeOK, Times
<1>4. x \in Send /\ Open(x) = 1
  BY <1>1, <1>2, OpenFacts DEF Sends
<1>5. x.from \in AgentIds /\ x.challenge \in BOOLEAN /\ key \in Pairs
  BY <1>4, SendFields
<1>6. /\ sending' \in Sends
      /\ \A a \in AgentIds : Sent(sending', a) = Sent(sending, a) \ {c}
      /\ \A p \in Pairs : Challenged(sending', p) = Challenged(sending, p) \ {c}
  BY <1>1, <1>2, SendEnds
<1>7. c \in Sent(sending, x.from) /\ (x.challenge => c \in Challenged(sending, key))
  BY <1>1 DEF Sent, Challenged
<1>8. sending'[c] = None /\ \A d \in Conversations : d # c => sending'[d] = sending[d]
  BY <1>1, <1>2 DEF Sends
<1>9. \A w \in Times(now) : /\ Append(w, now) \in Times(now)
                            /\ Sorted(w) => Sorted(Append(w, now))
  BY <1>2, WindowGrows, SortedGrows, Spans
<1> HIDE DEF x, key
<1>10. LimiterTypeOK'
  <2>1. /\ agentWindows' \in [AgentIds -> Times(now)]
        /\ conversationWindows' \in [Conversations -> Times(now)]
    BY <1>1, <1>3, <1>5, <1>9
  <2>2. challengeWindows' \in [Pairs -> Times(now)]
    BY <1>1, <1>3, <1>5, <1>9
  <2> QED
    BY <1>1, <1>2, <1>6, <2>1, <2>2 DEF LimiterTypeOK, Times, Sends
<1>11. ASSUME NEW d \in Conversations PROVE ConversationHeld(now, conversationWindows'[d], Open(sending'[d]))
  <2>1. CASE d = c
    <3>1. conversationWindows'[d] = Append(conversationWindows[c], now) /\ Open(sending'[d]) = 0
      BY <1>1, <1>3, <1>8, <2>1, OpenFacts
    <3>2. ConversationHeld(now, conversationWindows[c], 1)
      BY <1>4 DEF LimiterInv, x
    <3>3. 0 = 1 - 1
      OBVIOUS
    <3> QED
      BY <1>2, <3>1, <3>2, <3>3, HeldRecords
  <2>2. CASE d # c
    BY <1>1, <1>3, <1>8, <2>2 DEF LimiterInv
  <2> QED
    BY <2>1, <2>2
<1>12. ASSUME NEW a \in AgentIds PROVE AgentHeld(now, agentWindows'[a], Cardinality(Sent(sending', a)))
  <2> DEFINE m == Cardinality(Sent(sending, a))
             n == Cardinality(Sent(sending', a))
  <2>1. m \in Nat /\ n \in Nat /\ n <= m /\ (c \in Sent(sending, a) => n = m - 1)
    <3>1. Sent(sending, a) \in SUBSET Conversations /\ Sent(sending', a) \in SUBSET Conversations
      BY DEF Sent
    <3> QED
      BY <1>6, <3>1, Some
  <2>2. AgentHeld(now, agentWindows[a], m)
    BY DEF LimiterInv
  <2> HIDE DEF m, n
  <2>3. CASE a = x.from
    <3>1. agentWindows'[a] = Append(agentWindows[a], now) /\ n = m - 1
      BY <1>1, <1>3, <1>7, <2>1, <2>3
    <3> QED
      BY <1>2, <2>1, <2>2, <3>1, HeldRecords DEF n
  <2>4. CASE a # x.from
    <3>1. agentWindows'[a] = agentWindows[a] /\ NoMore(agentWindows[a], now, agentWindows[a], now)
      BY <1>1, <1>2, <1>3, <2>4, WindowIsNoMore
    <3> QED
      BY <1>2, <2>1, <2>2, <3>1, HeldStays DEF n
  <2> QED
    BY <2>3, <2>4
<1>13. ASSUME NEW p \in Pairs
       PROVE  PairHeld(now, challengeWindows'[p], Cardinality(Challenged(sending', p))) /\ Sorted(challengeWindows'[p])
  <2> DEFINE m == Cardinality(Challenged(sending, p))
             n == Cardinality(Challenged(sending', p))
  <2>1. m \in Nat /\ n \in Nat /\ n <= m /\ (c \in Challenged(sending, p) => n = m - 1)
    <3>1. Challenged(sending, p) \in SUBSET Conversations /\ Challenged(sending', p) \in SUBSET Conversations
      BY DEF Challenged
    <3> QED
      BY <1>6, <3>1, Some
  <2>2. PairHeld(now, challengeWindows[p], m) /\ Sorted(challengeWindows[p])
    BY DEF LimiterInv
  <2> HIDE DEF m, n
  <2>3. CASE x.challenge /\ p = key
    <3>1. challengeWindows'[p] = Append(challengeWindows[p], now) /\ n = m - 1
      BY <1>1, <1>3, <1>7, <2>1, <2>3
    <3> QED
      BY <1>2, <1>9, <2>1, <2>2, <3>1, HeldRecords DEF n
  <2>4. CASE ~(x.challenge /\ p = key)
    <3>1. challengeWindows'[p] = challengeWindows[p]
      BY <1>1, <1>3, <2>4
    <3>2. NoMore(challengeWindows[p], now, challengeWindows[p], now)
      BY <1>2, WindowIsNoMore
    <3> QED
      BY <1>2, <2>1, <2>2, <3>1, <3>2, HeldStays DEF n
  <2> QED
    BY <2>3, <2>4
<1> QED
  BY <1>1, <1>10, <1>11, <1>12, <1>13 DEF LimiterInv

LEMMA LimiterSteps == LimiterInv /\ [LimiterNext]_limiterVars => LimiterInv'
<1> SUFFICES ASSUME LimiterInv, [LimiterNext]_limiterVars PROVE LimiterInv'
  OBVIOUS
<1>1. CASE UNCHANGED limiterVars
  BY <1>1 DEF limiterVars, LimiterInv, LimiterTypeOK
<1>2. CASE Tick
  BY <1>2, TickStep
<1>3. CASE Prune
  BY <1>3, PruneStep
<1>4. ASSUME NEW c \in Conversations, NEW x \in Send, Check(c, x) PROVE LimiterInv'
  BY <1>4, CheckStep
<1>5. ASSUME NEW c \in Conversations, Record(c) \/ Drop(c) PROVE LimiterInv'
  BY <1>5, RecordStep, DropStep
<1> QED
  BY <1>1, <1>2, <1>3, <1>4, <1>5 DEF LimiterNext

-----------------------------------------------------------------------------
(* Theorems *)

\* The invariant the others rest on holds of every run of the limiter.
THEOREM LimiterInductive == LimiterSpec => []LimiterInv
BY LimiterInitially, LimiterSteps, PTL DEF LimiterSpec

\* No limit is exceeded by more than the other conversations explain, whatever the
\* limits, the spans and the number of agents and conversations (checkAll,
\* recordMessage, recordChallenge, prune).
THEOREM LimitsAreKept == LimiterSpec => []LimitsHold
<1>1. LimiterInv => LimitsHold
  BY LimiterInvLimits
<1> QED
  BY <1>1, LimiterInductive, PTL

\* A window that is not empty has an oldest event.
LEMMA OldestInWindow ==
  ASSUME NEW t \in Nat, NEW w \in Times(t), NEW span \in Nat, count(w, span, t) # 0
  PROVE  \E i \in InWindow(w, span, t) : oldest(w, span, t) = w[i]
<1> DEFINE S == InWindow(w, span, t)
           R == {ss \in Nat \X Nat : ss[1] < ss[2]}
<1>1. S \in SUBSET Nat
  BY WindowFacts DEF InWindow
<1>2. S # {}
  BY FS_EmptySet DEF count
<1>3. oldest(w, span, t) = w[CHOOSE i \in S : \A j \in S : i <= j]
  BY DEF oldest
<1> HIDE DEF S
<1>4. \E i \in S : \A j \in S : i <= j
  <2>1. IsWellFoundedOn(R, Nat)
    BY NatLessThanWellFounded DEF OpToRel
  <2>2. \A j, i \in Nat : j < i => <<j, i>> \in R
    OBVIOUS
  <2> HIDE DEF R
  <2>3. \E i \in S : \A j \in S : ~(<<j, i>> \in R)
    BY <1>1, <1>2, <2>1, WFMin
  <2>4. PICK i \in S : \A j \in S : ~(<<j, i>> \in R)
    BY <2>3
  <2>5. \A j \in S : j \in Nat /\ i \in Nat /\ ~(j < i)
    BY <1>1, <2>2, <2>4
  <2>6. \A j \in S : i <= j
    BY <2>5
  <2> QED
    BY <2>6
<1> QED
  BY <1>3, <1>4 DEF S

\* A tick after its oldest event has left, a window counts less than before.
LEMMA OldestLeaves ==
  ASSUME NEW t \in Nat, NEW w \in Times(t), NEW span \in Nat, count(w, span, t) # 0
  PROVE  LET later == t + (oldest(w, span, t) + span - t) + 1
         IN later \in Int /\ t <= later /\ count(w, span, later) < count(w, span, t)
<1> DEFINE old == oldest(w, span, t)
           later == t + (old + span - t) + 1
<1>1. PICK i \in InWindow(w, span, t) : old = w[i]
  BY OldestInWindow
<1>2. i \in DOMAIN w /\ old + span >= t /\ old \in Nat
  BY <1>1, WindowFacts DEF InWindow
<1> HIDE DEF old
<1>3. later = old + span + 1 /\ later \in Int /\ t <= later
  BY <1>2
<1> HIDE DEF later
<1>4. i \notin InWindow(w, span, later)
  BY <1>1, <1>2, <1>3 DEF InWindow
<1>5. InWindow(w, span, later) \in SUBSET InWindow(w, span, t) /\ count(w, span, later) <= count(w, span, t)
  BY <1>3, WindowAges
<1>6. IsFiniteSet(InWindow(w, span, t)) /\ count(w, span, t) \in Nat /\ count(w, span, later) \in Nat
  BY <1>3, WindowFinite
<1>7. count(w, span, later) # count(w, span, t)
  BY <1>1, <1>4, <1>5, <1>6, FS_Subset DEF count
<1>8. count(w, span, later) < count(w, span, t)
  BY <1>5, <1>6, <1>7
<1> QED
  BY <1>3, <1>8 DEF later, old

\* Whoever waits a tick longer than retryAfter says is let through, unless the hour
\* is full too (checkConversationLimit, SlidingWindow.oldest).
THEOREM RetryAfterIsHonest == LimiterSpec => []RetryAfterHonest
<1>1. LimiterInv => RetryAfterHonest
  <2> SUFFICES ASSUME LimiterInv, NEW c \in Conversations, ~checkConversationLimit(c)
               PROVE  LET w == conversationWindows[c]
                          later == now + retryAfter(c) + 1
                      IN \/ count(w, Minute, later) < ConversationPerMinute /\ count(w, Hour, later) < ConversationPerHour
                         \/ count(w, Minute, now) >= ConversationPerMinute /\ count(w, Hour, later) >= ConversationPerHour
    BY DEF RetryAfterHonest
  <2> DEFINE w == conversationWindows[c]
             later == now + retryAfter(c) + 1
  <2>1. now \in Nat /\ w \in Times(now)
    BY Typed DEF LimiterInv
  <2>2. count(w, Minute, now) <= ConversationPerMinute /\ count(w, Hour, now) <= ConversationPerHour
    <3>1. ConversationHeld(now, w, Open(sending[c])) /\ Open(sending[c]) \in Nat
      BY OpenType DEF LimiterInv
    <3> QED
      BY <2>1, <3>1, Counts, Spans DEF ConversationHeld
  <2>3. count(w, Minute, now) \in Nat /\ count(w, Hour, now) \in Nat
    BY <2>1, Counts
  <2>4. CASE count(w, Minute, now) >= ConversationPerMinute
    <3>1. later = now + (oldest(w, Minute, now) + Minute - now) + 1
      BY <2>4 DEF retryAfter
    <3>2. count(w, Minute, now) # 0
      BY <2>3, <2>4, Spans
    <3> HIDE DEF w, later
    <3>3. later \in Int /\ count(w, Minute, later) < count(w, Minute, now)
      BY <2>1, <3>1, <3>2, OldestLeaves, Spans
    <3>4. count(w, Minute, later) \in Nat /\ count(w, Hour, later) \in Nat
      BY <2>1, <3>3, WindowFinite, Spans
    <3>5. \/ count(w, Minute, later) < ConversationPerMinute /\ count(w, Hour, later) < ConversationPerHour
          \/ count(w, Minute, now) >= ConversationPerMinute /\ count(w, Hour, later) >= ConversationPerHour
      BY <2>2, <2>3, <2>4, <3>3, <3>4, Spans
    <3> QED
      BY <3>5 DEF w, later
  <2>5. CASE ~(count(w, Minute, now) >= ConversationPerMinute)
    <3>1. later = now + (oldest(w, Hour, now) + Hour - now) + 1
      BY <2>5 DEF retryAfter
    <3>2. count(w, Hour, now) >= ConversationPerHour /\ count(w, Minute, now) < ConversationPerMinute
      BY <2>3, <2>5, Spans DEF checkConversationLimit
    <3>3. count(w, Hour, now) # 0
      BY <2>3, <3>2, Spans
    <3> HIDE DEF w, later
    <3>4. later \in Int /\ now <= later /\ count(w, Hour, later) < count(w, Hour, now)
      BY <2>1, <3>1, <3>3, OldestLeaves, Spans
    <3>5. count(w, Minute, later) <= count(w, Minute, now)
      BY <2>1, <3>4, WindowAges, Spans
    <3>6. count(w, Minute, later) \in Nat /\ count(w, Hour, later) \in Nat
      BY <2>1, <3>4, WindowFinite, Spans
    <3>7. count(w, Minute, later) < ConversationPerMinute /\ count(w, Hour, later) < ConversationPerHour
      BY <2>2, <2>3, <3>2, <3>4, <3>5, <3>6, Spans
    <3> QED
      BY <3>7 DEF w, later
  <2> QED
    BY <2>4, <2>5
<1> QED
  BY <1>1, LimiterInductive, PTL
=============================================================================
