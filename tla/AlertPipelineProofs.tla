------------------------ MODULE AlertPipelineProofs ------------------------
(***************************************************************************)
(* The alert pipeline keeps its types, and its escalation tiers are paced, *)
(* for any tiers, targets, cooldowns and number of restarts.               *)
(***************************************************************************)
EXTENDS AlertPipeline, FiniteSetTheorems, WellFoundedInduction, TLAPS

\* The clock of a lasting alert runs only where escalation is on, and never ahead
\* of the time since a request last saw the alert gone.
ClockBehind ==
  /\ ~config.escalation => tracking = NotTracking
  /\ tracking # NotTracking => tracking <= calm

\* Since a tier last fired, its cooldown has passed, or as much time as the clock
\* shows (it was reset meanwhile), or the state remembers the tier.
FiringRemembered ==
  tracking # NotTracking =>
    \A i \in Tiers : \/ sinceTier[i] >= EscalationCooldown
                     \/ sinceTier[i] >= tracking
                     \/ i <= lastTier /\ sinceTier[i] >= sinceNotified[i]

IndInv == TypeOK /\ ClockBehind /\ FiringRemembered

-----------------------------------------------------------------------------
(* Constants and helpers *)

LEMMA Bounds ==
  /\ Tiers \subseteq Nat \ {0} /\ LastDue \in Nat \ {0}
  /\ \A i \in Tiers : After[i] \in Nat \ {0} /\ After[i] <= LastDue
  /\ WebhookCooldown \in Nat \ {0} /\ EscalationCooldown \in Nat \ {0} /\ MaxRetries \in Nat \ {0}
  /\ MaxRestarts \in Nat /\ NotTracking \notin Nat /\ Severities \subseteq Nat
<1> DEFINE n == Cardinality(Tiers)
           IsLast(t) == \A i \in Tiers : i <= t
<1>1. n \in Nat /\ Tiers = 1..n
  BY TierAssumption, FS_CardinalityType
<1> HIDE DEF n
<1>2. n \in Tiers /\ IsLast(n)
  BY <1>1, TierAssumption
<1>3. \A t \in Tiers : IsLast(t) => t = n
  BY <1>1, <1>2
<1> HIDE DEF IsLast
<1>4. (CHOOSE t \in Tiers : IsLast(t)) = n
  BY <1>2, <1>3
<1>5. LastDue = After[n]
  BY <1>4 DEF LastDue, IsLast
<1>6. \A i \in Tiers : After[i] \in Nat \ {0} /\ (i = n \/ i < n)
  BY <1>1, <1>2, TierAssumption DEF IsLast
<1>7. \A i \in Tiers : After[i] <= LastDue
  BY <1>2, <1>5, <1>6, TierAssumption
<1> QED
  BY <1>1, <1>2, <1>5, <1>6, <1>7, BoundAssumption, SeverityAssumption

\* An age that has been counted on is in its range, not smaller, and at most one more.
LEMMA OlderAge ==
  ASSUME NEW limit \in Nat, NEW a \in 0..limit
  PROVE  /\ Older(a, limit) \in 0..limit /\ a <= Older(a, limit) /\ Older(a, limit) <= a + 1
         /\ Older(a, limit) = a + 1 \/ Older(a, limit) = limit
BY DEF Older

\* A set of tiers that is not empty has a highest one.
LEMMA LastTier ==
  ASSUME NEW S \in SUBSET Tiers, S # {}
  PROVE  \E t \in S : \A u \in S : u <= t
<1> DEFINE n == Cardinality(Tiers)
           Gaps == {n - t : t \in S}
           R == {ss \in Nat \X Nat : ss[1] < ss[2]}
<1>1. n \in Nat /\ Tiers = 1..n
  BY TierAssumption, FS_CardinalityType
<1> HIDE DEF n
<1>2. \A t \in S : n - t \in Nat
  BY <1>1
<1>3. Gaps \subseteq Nat /\ Gaps # {}
  BY <1>2
<1>4. IsWellFoundedOn(R, Nat)
  BY NatLessThanWellFounded DEF OpToRel
<1>5. \A u, t \in Nat : u < t => <<u, t>> \in R
  OBVIOUS
<1> HIDE DEF R, Gaps
<1>6. PICK g \in Gaps : \A h \in Gaps : ~(<<h, g>> \in R)
  BY <1>3, <1>4, WFMin
<1>7. \A h \in Gaps : ~(h < g)
  BY <1>3, <1>5, <1>6
<1>8. PICK t \in S : g = n - t
  BY <1>6 DEF Gaps
<1>9. ASSUME NEW u \in S PROVE u <= t
  <2>1. n - u \in Gaps
    BY DEF Gaps
  <2> QED
    BY <1>1, <1>7, <1>8, <2>1
<1> QED
  BY <1>9

\* The tier that fires is one that is due.
LEMMA HighestDue ==
  ASSUME evaluateEscalation # {}
  PROVE  /\ Highest(evaluateEscalation) \in Tiers
         /\ config.escalation /\ isQualifyingSeverity /\ tracking # NotTracking
         /\ LET i == Highest(evaluateEscalation)
            IN tracking >= After[i] /\ (i <= lastTier => sinceNotified[i] >= EscalationCooldown)
<1> DEFINE due == evaluateEscalation
<1>1. /\ due \subseteq Tiers /\ config.escalation /\ isQualifyingSeverity /\ tracking # NotTracking
      /\ \A i \in due : tracking >= After[i] /\ (i <= lastTier => sinceNotified[i] >= EscalationCooldown)
  BY DEF evaluateEscalation
<1> HIDE DEF due
<1>2. \E t \in due : \A j \in due : j <= t
  BY <1>1, LastTier DEF due
<1>3. Highest(due) \in due
  BY <1>2 DEF Highest
<1> QED
  BY <1>1, <1>3 DEF due

-----------------------------------------------------------------------------
(* The type invariant, action by action *)

LEMMA TypePoll ==
  ASSUME TypeOK, Poll
  PROVE  TypeOK'
<1> USE Bounds
<1>1. TransitionFlights \subseteq Flight
  BY SeverityAssumption DEF TypeOK, TransitionFlights, selectTargets, Flight
<1>2. TierFlights \subseteq Flight
  <2>1. CASE evaluateEscalation = {}
    BY <2>1 DEF TierFlights
  <2>2. CASE evaluateEscalation # {}
    <3> DEFINE i == Highest(evaluateEscalation)
    <3>1. i \in Tiers
      BY <2>2, HighestDue
    <3>2. TierFlights = {[target |-> t, tier |-> i, age |-> 0, attempts |-> 0, severity |-> severity] :
                           t \in resolveEscalationTargets(i)}
      BY <2>2 DEF TierFlights
    <3> HIDE DEF i
    <3>3. resolveEscalationTargets(i) \subseteq Targets
      BY <3>1, TierAssumption DEF TypeOK, resolveEscalationTargets
    <3> QED
      BY <3>1, <3>2, <3>3 DEF TypeOK, Flight
  <2> QED
    BY <2>1, <2>2
<1>3. /\ tracking' \in {NotTracking} \cup 0..LastDue /\ lastTier' \in {NoTier} \cup Tiers
      /\ sinceNotified' \in [Tiers -> 0..EscalationCooldown]
  <2>1. CASE evaluateEscalation = {}
    BY <2>1 DEF TypeOK, Poll, updateEscalationState, escalation
  <2>2. CASE evaluateEscalation # {}
    <3>1. Highest(evaluateEscalation) \in Tiers
      BY <2>2, HighestDue
    <3> QED
      BY <2>2, <3>1 DEF TypeOK, Poll, updateEscalationState, escalation
  <2> QED
    BY <2>1, <2>2
<1>4. sinceTier' \in [Tiers -> 0..EscalationCooldown] /\ calm' \in 0..LastDue
  BY HighestDue DEF TypeOK, Poll
<1>5. /\ lastSeverity' \in Severities \cup {NoSeverity} /\ polled' \in BOOLEAN /\ flights' \subseteq Flight
      /\ UNCHANGED <<config, open, severity, sinceDelivery, told, restarts>>
  BY <1>1, <1>2 DEF TypeOK, Poll
<1> QED
  BY <1>3, <1>4, <1>5 DEF TypeOK

LEMMA TypeAttempt ==
  ASSUME TypeOK, Attempt
  PROVE  TypeOK'
<1> USE Bounds
<1>1. PICK f \in flights : AttemptSucceeds(f) \/ \E received, final \in BOOLEAN : AttemptFails(f, received, final)
  BY DEF Attempt
<1>2. f \in Flight
  BY DEF TypeOK
<1>3. /\ f.target \in Targets /\ f.age \in 0..WebhookCooldown /\ f.severity \in Severities
      /\ f.attempts \in 0..(MaxRetries - 1)
      /\ f.attempts + 1 < MaxRetries => [f EXCEPT !.attempts = @ + 1] \in Flight
  BY <1>2 DEF Flight
<1>4. CASE AttemptSucceeds(f)
  BY <1>3, <1>4 DEF TypeOK, AttemptSucceeds, escalation
<1>5. ASSUME NEW received \in BOOLEAN, NEW final \in BOOLEAN, AttemptFails(f, received, final) PROVE TypeOK'
  <2>1. flights' \subseteq Flight
    BY <1>3, <1>5 DEF TypeOK, AttemptFails
  <2>2. told' \in [Targets -> Severities \cup {NoSeverity}]
    BY <1>3, <1>5 DEF TypeOK, AttemptFails
  <2> QED
    BY <1>5, <2>1, <2>2 DEF TypeOK, AttemptFails, delivery, escalation
<1> QED
  BY <1>1, <1>4, <1>5

LEMMA TypeTick ==
  ASSUME TypeOK, Tick
  PROVE  TypeOK'
<1> USE Bounds, OlderAge
<1>1. ASSUME NEW f \in Flight
      PROVE  [f EXCEPT !.age = IF f.tier = NoTier THEN Older(@, WebhookCooldown) ELSE @] \in Flight
  BY DEF Flight
<1>2. flights' \subseteq Flight
  BY <1>1 DEF TypeOK, Tick
<1>3. sinceDelivery' \in [Targets -> 0..WebhookCooldown]
  BY DEF TypeOK, Tick
<1>4. sinceNotified' \in [Tiers -> 0..EscalationCooldown] /\ sinceTier' \in [Tiers -> 0..EscalationCooldown]
  BY DEF TypeOK, Tick
<1>5. tracking' \in {NotTracking} \cup 0..LastDue /\ calm' \in 0..LastDue
  BY DEF TypeOK, Tick
<1> QED
  BY <1>2, <1>3, <1>4, <1>5 DEF TypeOK, Tick

LEMMA TypeStep ==
  ASSUME TypeOK, [Next]_vars
  PROVE  TypeOK'
<1>1. CASE UNCHANGED vars
  BY <1>1 DEF TypeOK, vars, delivery, escalation
<1>2. CASE SeverityChanges
  BY <1>2 DEF TypeOK, SeverityChanges, delivery, escalation
<1>3. CASE Restart
  BY <1>3, Bounds DEF TypeOK, Restart
<1> QED
  BY <1>1, <1>2, <1>3, TypePoll, TypeAttempt, TypeTick DEF Next

-----------------------------------------------------------------------------
(* The clocks *)

LEMMA ClockStep ==
  ASSUME IndInv, [Next]_vars
  PROVE  ClockBehind' /\ FiringRemembered'
<1>0. TypeOK /\ ClockBehind /\ FiringRemembered
  BY DEF IndInv
<1> USE Bounds
<1>1. CASE UNCHANGED vars \/ SeverityChanges \/ Attempt
  <2>1. UNCHANGED <<config, tracking, calm, sinceTier, lastTier, sinceNotified>>
    BY <1>1 DEF vars, SeverityChanges, Attempt, AttemptSucceeds, AttemptFails, escalation
  <2> QED
    BY <1>0, <2>1 DEF ClockBehind, FiringRemembered
<1>2. CASE Poll
  <2>1. CASE ~config.escalation \/ ~isQualifyingSeverity
    <3>1. tracking' = NotTracking /\ config' = config
      BY <1>0, <1>2, <2>1 DEF Poll, updateEscalationState, escalation, ClockBehind
    <3> QED
      BY <3>1 DEF ClockBehind, FiringRemembered
  <2>2. CASE config.escalation /\ isQualifyingSeverity /\ tracking = NotTracking
    <3>1. evaluateEscalation = {}
      BY <2>2 DEF evaluateEscalation
    <3>2. tracking' = 0 /\ calm' = calm /\ sinceTier' = sinceTier /\ config' = config
      BY <1>2, <2>2, <3>1 DEF Poll, updateEscalationState
    <3> QED
      BY <1>0, <2>2, <3>2 DEF TypeOK, ClockBehind, FiringRemembered
  <2>3. CASE config.escalation /\ isQualifyingSeverity /\ tracking # NotTracking
    <3>1. tracking' = tracking /\ calm' = calm /\ config' = config
      BY <1>2, <2>3 DEF Poll, updateEscalationState
    <3>2. CASE evaluateEscalation = {}
      <4>1. UNCHANGED <<sinceTier, lastTier, sinceNotified>>
        BY <1>2, <2>3, <3>2 DEF Poll, updateEscalationState
      <4> QED
        BY <1>0, <3>1, <4>1 DEF ClockBehind, FiringRemembered
    <3>3. CASE evaluateEscalation # {}
      <4> DEFINE i == Highest(evaluateEscalation)
      <4>1. i \in Tiers
        BY <3>3, HighestDue
      <4>2. /\ lastTier' = IF i > lastTier THEN i ELSE lastTier
            /\ sinceNotified' = [sinceNotified EXCEPT ![i] = 0]
            /\ sinceTier' = [sinceTier EXCEPT ![i] = 0]
        BY <1>2, <2>3, <3>3 DEF Poll, updateEscalationState
      <4> HIDE DEF i
      <4>3. i <= lastTier' /\ lastTier <= lastTier'
        BY <1>0, <4>1, <4>2 DEF TypeOK, NoTier
      <4>4. ASSUME NEW j \in Tiers
            PROVE  \/ sinceTier'[j] >= EscalationCooldown
                   \/ sinceTier'[j] >= tracking'
                   \/ j <= lastTier' /\ sinceTier'[j] >= sinceNotified'[j]
        <5>1. CASE j = i
          BY <1>0, <4>1, <4>2, <4>3, <5>1 DEF TypeOK
        <5>2. CASE j # i
          BY <1>0, <2>3, <3>1, <4>1, <4>2, <4>3, <5>2 DEF TypeOK, FiringRemembered, NoTier
        <5> QED
          BY <5>1, <5>2
      <4> QED
        BY <1>0, <3>1, <4>4 DEF ClockBehind, FiringRemembered
    <3> QED
      BY <3>2, <3>3
  <2> QED
    BY <2>1, <2>2, <2>3
<1>3. CASE Tick
  <2>1. config' = config /\ lastTier' = lastTier /\ calm' = Older(calm, LastDue)
    BY <1>3 DEF Tick
  <2>2. CASE tracking = NotTracking
    <3>1. tracking' = NotTracking
      BY <1>3, <2>2 DEF Tick
    <3> QED
      BY <3>1 DEF ClockBehind, FiringRemembered
  <2>3. CASE tracking # NotTracking
    <3>1. tracking \in 0..LastDue /\ tracking <= calm /\ calm \in 0..LastDue /\ config.escalation
      BY <1>0, <2>3 DEF TypeOK, ClockBehind
    <3>2. tracking' = Older(tracking, LastDue) /\ tracking' # NotTracking
      BY <1>3, <2>3, <3>1, OlderAge DEF Tick
    <3>3. tracking' <= calm'
      BY <2>1, <3>1, <3>2 DEF Older
    <3>4. ASSUME NEW i \in Tiers
          PROVE  \/ sinceTier'[i] >= EscalationCooldown
                 \/ sinceTier'[i] >= tracking'
                 \/ i <= lastTier' /\ sinceTier'[i] >= sinceNotified'[i]
      <4>1. /\ sinceTier[i] \in 0..EscalationCooldown /\ sinceNotified[i] \in 0..EscalationCooldown
            /\ sinceTier'[i] = Older(sinceTier[i], EscalationCooldown)
            /\ sinceNotified'[i] = Older(sinceNotified[i], EscalationCooldown)
        BY <1>0, <1>3 DEF TypeOK, Tick
      <4>2. \/ sinceTier[i] >= EscalationCooldown
            \/ sinceTier[i] >= tracking
            \/ i <= lastTier /\ sinceTier[i] >= sinceNotified[i]
        BY <1>0, <2>3 DEF FiringRemembered
      <4> QED
        BY <2>1, <3>1, <3>2, <4>1, <4>2 DEF Older
    <3> QED
      BY <2>1, <3>1, <3>3, <3>4 DEF ClockBehind, FiringRemembered
  <2> QED
    BY <2>2, <2>3
<1>4. CASE Restart
  <2>1. tracking' = NotTracking
    BY <1>4 DEF Restart
  <2> QED
    BY <2>1 DEF ClockBehind, FiringRemembered
<1> QED
  BY <1>1, <1>2, <1>3, <1>4 DEF Next

-----------------------------------------------------------------------------
(* Theorems *)

\* IndInv is an inductive invariant of the pipeline.
THEOREM Inductive == Spec => []IndInv
<1>1. Init => IndInv
  <2> SUFFICES ASSUME Init PROVE IndInv
    OBVIOUS
  <2>1. tracking = NotTracking
    BY DEF Init
  <2>2. /\ sinceDelivery \in [Targets -> 0..WebhookCooldown]
        /\ sinceNotified \in [Tiers -> 0..EscalationCooldown]
        /\ sinceTier \in [Tiers -> 0..EscalationCooldown]
    BY Bounds DEF Init
  <2>3. calm \in 0..LastDue /\ restarts \in 0..MaxRestarts
    BY Bounds DEF Init
  <2>4. open \in BOOLEAN /\ polled \in BOOLEAN /\ flights \subseteq Flight
    BY DEF Init
  <2>5. told \in [Targets -> Severities \cup {NoSeverity}]
    BY DEF Init
  <2>6. TypeOK
    BY <2>2, <2>3, <2>4, <2>5 DEF Init, TypeOK
  <2> QED
    BY <2>1, <2>6 DEF IndInv, ClockBehind, FiringRemembered
<1>2. IndInv /\ [Next]_vars => IndInv'
  BY TypeStep, ClockStep DEF IndInv
<1> QED
  BY <1>1, <1>2, PTL DEF Spec

\* The state is well typed: no delivery is tried more often than MaxRetries, and the
\* clocks stay within the limits they are compared with.
THEOREM WellTyped == Spec => []TypeOK
<1>1. IndInv => TypeOK
  BY DEF IndInv
<1> QED
  BY Inductive, <1>1, PTL

\* Whatever severities, polls, restarts and deliveries come, a tier fires only after
\* the alert has lasted as long as the tier asks with no request that saw it gone, and
\* fires again only with its cooldown, or the time to become due again, in between.
THEOREM TiersArePaced == Spec => TiersPaced
<1>1. IndInv /\ [Next]_vars =>
        [\A i \in Tiers : TierFires(i) =>
           /\ calm >= After[i]
           /\ sinceTier[i] >= EscalationCooldown \/ sinceTier[i] >= After[i]]_vars
  <2> SUFFICES ASSUME IndInv, NEW i \in Tiers, TierFires(i)
               PROVE  /\ calm >= After[i]
                      /\ sinceTier[i] >= EscalationCooldown \/ sinceTier[i] >= After[i]
    OBVIOUS
  <2>1. /\ tracking # NotTracking /\ tracking >= After[i]
        /\ i <= lastTier => sinceNotified[i] >= EscalationCooldown
    BY HighestDue DEF TierFires
  <2>2. /\ tracking \in Nat /\ calm \in Nat /\ sinceTier[i] \in Nat /\ sinceNotified[i] \in Nat
        /\ After[i] \in Nat /\ EscalationCooldown \in Nat
    BY <2>1, Bounds DEF IndInv, TypeOK
  <2> QED
    BY <2>1, <2>2 DEF IndInv, ClockBehind, FiringRemembered
<1> QED
  BY Inductive, <1>1, PTL DEF Spec, TiersPaced
=============================================================================
