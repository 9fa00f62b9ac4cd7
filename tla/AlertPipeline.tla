--------------------------- MODULE AlertPipeline ---------------------------
(***************************************************************************)
(* What a request for the task-board metrics sets off in the dashboard     *)
(* (dashboard/server): the webhooks for a change of the overall severity   *)
(* (alert-webhook.ts) and the escalation of a severity that lasts          *)
(* (escalation-policy.ts).  The request does both synchronously and leaves *)
(* the deliveries, with their retries, running in the background.          *)
(*                                                                         *)
(* Time is kept as ages in ticks that stop counting once they make no more *)
(* difference, so there is no last moment.  Payloads, signatures, the      *)
(* histories on disk and test pings are left out.  The configuration is    *)
(* fixed for a behaviour, and any.                                         *)
(***************************************************************************)
EXTENDS Naturals, FiniteSets

CONSTANTS Targets,
          Severities,          \* those the alert rules report: 0 ok, 1 warning, 2 critical
          MinSeverity,         \* MinSeverity[t]: the least severity t is notified of
          TriggerSeverity,     \* the least severity that escalates
          Tiers,               \* 1..n
          After, TierTargets,  \* of each tier: when it is due, whom it notifies
          WebhookCooldown, EscalationCooldown, MaxRetries,
          NoSeverity, NotTracking,
          MaxFlights, MaxRestarts   \* bounds

ASSUME SeverityAssumption == /\ Severities \subseteq 0..2 /\ NoSeverity \notin Severities
                             /\ MinSeverity \in [Targets -> 0..2] /\ TriggerSeverity \in 1..2
ASSUME TierAssumption == /\ Tiers # {} /\ IsFiniteSet(Tiers) /\ Tiers = 1..Cardinality(Tiers)
                         /\ After \in [Tiers -> Nat \ {0}] /\ TierTargets \in [Tiers -> SUBSET Targets]
                         /\ \A i, j \in Tiers : i < j => After[i] < After[j]
ASSUME BoundAssumption == /\ {WebhookCooldown, EscalationCooldown, MaxRetries} \subseteq Nat \ {0}
                          /\ {MaxFlights, MaxRestarts} \subseteq Nat /\ NotTracking \notin Nat

VARIABLES config,        \* [enabled, escalation, targets]: the switches, and the enabled targets
          open,          \* a dashboard is open: it polls in every tick
          severity,      \* what the rules would report now
          polled,        \* a request came in this tick
          lastSeverity, sinceDelivery,            \* deliveryState
          tracking, lastTier, sinceNotified,      \* escalationState
          flights,       \* the deliveries under way (two that are alike count as one)
          told,          \* told[t]: the severity of the last webhook t received
          calm, sinceTier,   \* history: since a poll that saw no reason to escalate; since a tier fired
          restarts

delivery   == <<lastSeverity, sinceDelivery>>
escalation == <<tracking, lastTier, sinceNotified>>
vars == <<config, open, severity, polled, delivery, escalation, flights, told, calm, sinceTier, restarts>>

NoTier == 0
LastDue == After[CHOOSE n \in Tiers : \A i \in Tiers : i <= n]
Flight == [target : Targets, tier : {NoTier} \cup Tiers, age : 0..WebhookCooldown,
           attempts : 0..(MaxRetries - 1), severity : Severities]

TypeOK ==
  /\ config \in [enabled : BOOLEAN, escalation : BOOLEAN, targets : SUBSET Targets]
  /\ open \in BOOLEAN /\ polled \in BOOLEAN /\ severity \in Severities
  /\ lastSeverity \in Severities \cup {NoSeverity}
  /\ sinceDelivery \in [Targets -> 0..WebhookCooldown]
  /\ tracking \in {NotTracking} \cup 0..LastDue
  /\ lastTier \in {NoTier} \cup Tiers
  /\ sinceNotified \in [Tiers -> 0..EscalationCooldown]
  /\ flights \subseteq Flight
  /\ told \in [Targets -> Severities \cup {NoSeverity}]
  /\ calm \in 0..LastDue /\ sinceTier \in [Tiers -> 0..EscalationCooldown]
  /\ restarts \in 0..MaxRestarts

-----------------------------------------------------------------------------
(* Webhooks *)

isTransition == lastSeverity # severity
selectTargets == {t \in config.targets : severity >= MinSeverity[t] /\ sinceDelivery[t] >= WebhookCooldown}

TransitionFlights ==
  IF config.enabled /\ isTransition
    THEN {[target |-> t, tier |-> NoTier, age |-> 0, attempts |-> 0, severity |-> severity] : t \in selectTargets}
    ELSE {}

-----------------------------------------------------------------------------
(* Escalation *)

isQualifyingSeverity == severity >= TriggerSeverity

\* Mutant: only the highest tier reached so far is notified again.
EvaluateHighestOnly ==
  IF ~config.escalation \/ ~isQualifyingSeverity \/ tracking = NotTracking THEN {}
  ELSE {i \in Tiers : /\ tracking >= After[i]
                      /\ i > lastTier \/ (i = lastTier /\ sinceNotified[i] >= EscalationCooldown)}

\* Mutant: a tier is notified once.
EvaluateOnce ==
  IF ~config.escalation \/ ~isQualifyingSeverity \/ tracking = NotTracking THEN {}
  ELSE {i \in Tiers : tracking >= After[i] /\ i > lastTier}

\* The tiers that are due and not in their cooldown; the loop takes the highest.
evaluateEscalation ==
  IF ~config.escalation \/ ~isQualifyingSeverity \/ tracking = NotTracking THEN {}
  ELSE {i \in Tiers : /\ tracking >= After[i]
                      /\ i <= lastTier => sinceNotified[i] >= EscalationCooldown}

Highest(due) == CHOOSE i \in due : \A j \in due : j <= i

resolveEscalationTargets(i) == IF TierTargets[i] = {} THEN config.targets ELSE TierTargets[i]

TierFlights ==
  IF evaluateEscalation = {} THEN {}
  ELSE LET i == Highest(evaluateEscalation)
       IN {[target |-> t, tier |-> i, age |-> 0, attempts |-> 0, severity |-> severity] :
             t \in resolveEscalationTargets(i)}

\* Mutant: a severity that drops only stops the clock.
UpdateKeepsClock ==
  IF ~config.escalation \/ ~isQualifyingSeverity THEN UNCHANGED escalation
  ELSE IF tracking = NotTracking THEN tracking' = 0 /\ UNCHANGED <<lastTier, sinceNotified>>
  ELSE /\ UNCHANGED tracking
       /\ IF evaluateEscalation = {} THEN UNCHANGED <<lastTier, sinceNotified>>
          ELSE LET i == Highest(evaluateEscalation)
               IN /\ lastTier' = IF i > lastTier THEN i ELSE lastTier
                  /\ sinceNotified' = [sinceNotified EXCEPT ![i] = 0]

updateEscalationState ==
  IF ~config.escalation THEN UNCHANGED escalation
  ELSE IF ~isQualifyingSeverity
    THEN /\ tracking' = NotTracking /\ lastTier' = NoTier
         /\ sinceNotified' = [i \in Tiers |-> EscalationCooldown]
  ELSE IF tracking = NotTracking
    THEN tracking' = 0 /\ UNCHANGED <<lastTier, sinceNotified>>
  ELSE /\ UNCHANGED tracking
       /\ IF evaluateEscalation = {} THEN UNCHANGED <<lastTier, sinceNotified>>
          ELSE LET i == Highest(evaluateEscalation)
               IN /\ lastTier' = IF i > lastTier THEN i ELSE lastTier
                  /\ sinceNotified' = [sinceNotified EXCEPT ![i] = 0]

-----------------------------------------------------------------------------
(* The request *)

\* The severity is remembered before it is known whom to notify, and a tier is
\* recorded before its webhooks are out.
Poll ==
  /\ Cardinality(flights \cup TransitionFlights \cup TierFlights) <= MaxFlights
  /\ polled' = TRUE
  /\ lastSeverity' = IF config.enabled THEN severity ELSE lastSeverity
  /\ updateEscalationState
  /\ flights' = flights \cup TransitionFlights \cup TierFlights
  /\ calm' = IF isQualifyingSeverity THEN calm ELSE 0
  /\ sinceTier' = IF evaluateEscalation = {} THEN sinceTier
                  ELSE [sinceTier EXCEPT ![Highest(evaluateEscalation)] = 0]
  /\ UNCHANGED <<config, open, severity, sinceDelivery, told, restarts>>

-----------------------------------------------------------------------------
(* deliverWebhook *)

\* An attempt that is answered with success ends the delivery; the time of the
\* request that began it counts as the time of a transition's delivery.
AttemptSucceeds(f) ==
  /\ f \in flights /\ flights' = flights \ {f}
  /\ told' = [told EXCEPT ![f.target] = f.severity]
  /\ sinceDelivery' = IF f.tier = NoTier THEN [sinceDelivery EXCEPT ![f.target] = f.age] ELSE sinceDelivery
  /\ UNCHANGED <<config, open, severity, polled, lastSeverity, escalation, calm, sinceTier, restarts>>

\* Mutant: one attempt too many.
AttemptFailsOnceMore(f, received, final) ==
  /\ f \in flights
  /\ flights' = (flights \ {f}) \cup
       (IF final \/ f.attempts >= MaxRetries THEN {} ELSE {[f EXCEPT !.attempts = @ + 1]})
  /\ told' = IF received /\ ~final THEN [told EXCEPT ![f.target] = f.severity] ELSE told
  /\ UNCHANGED <<config, open, severity, polled, delivery, escalation, calm, sinceTier, restarts>>

\* A server error or a timeout, after which the target may have received the
\* webhook all the same, is retried; a client error is not.
AttemptFails(f, received, final) ==
  /\ f \in flights
  /\ flights' = (flights \ {f}) \cup
       (IF final \/ f.attempts + 1 >= MaxRetries THEN {} ELSE {[f EXCEPT !.attempts = @ + 1]})
  /\ told' = IF received /\ ~final THEN [told EXCEPT ![f.target] = f.severity] ELSE told
  /\ UNCHANGED <<config, open, severity, polled, delivery, escalation, calm, sinceTier, restarts>>

-----------------------------------------------------------------------------

SeverityChanges ==
  /\ severity' \in Severities \ {severity}
  /\ UNCHANGED <<config, open, polled, delivery, escalation, flights, told, calm, sinceTier, restarts>>

Older(age, limit) == IF age < limit THEN age + 1 ELSE limit

Tick ==
  /\ open => polled
  /\ polled' = FALSE
  /\ sinceDelivery' = [t \in Targets |-> Older(sinceDelivery[t], WebhookCooldown)]
  /\ tracking' = IF tracking = NotTracking THEN NotTracking ELSE Older(tracking, LastDue)
  /\ sinceNotified' = [i \in Tiers |-> Older(sinceNotified[i], EscalationCooldown)]
  /\ sinceTier' = [i \in Tiers |-> Older(sinceTier[i], EscalationCooldown)]
  /\ calm' = Older(calm, LastDue)
  /\ flights' = {[f EXCEPT !.age = IF f.tier = NoTier THEN Older(@, WebhookCooldown) ELSE @] : f \in flights}
  /\ UNCHANGED <<config, open, severity, lastSeverity, lastTier, told, restarts>>

Restart ==   \* both states are in memory only
  /\ restarts < MaxRestarts /\ restarts' = restarts + 1
  /\ lastSeverity' = NoSeverity /\ sinceDelivery' = [t \in Targets |-> WebhookCooldown]
  /\ tracking' = NotTracking /\ lastTier' = NoTier /\ sinceNotified' = [i \in Tiers |-> EscalationCooldown]
  /\ flights' = {} /\ calm' = 0
  /\ UNCHANGED <<config, open, severity, polled, told, sinceTier>>

Init ==
  /\ config \in [enabled : BOOLEAN, escalation : BOOLEAN, targets : SUBSET Targets]
  /\ open \in BOOLEAN /\ severity \in Severities /\ polled = FALSE
  /\ lastSeverity = NoSeverity /\ sinceDelivery = [t \in Targets |-> WebhookCooldown]
  /\ tracking = NotTracking /\ lastTier = NoTier /\ sinceNotified = [i \in Tiers |-> EscalationCooldown]
  /\ flights = {} /\ told = [t \in Targets |-> NoSeverity]
  /\ calm = 0 /\ sinceTier = [i \in Tiers |-> EscalationCooldown] /\ restarts = 0

Reaches(t) == \E f \in flights : f.target = t /\ AttemptSucceeds(f)
Attempt == \E f \in flights : AttemptSucceeds(f) \/ \E received, final \in BOOLEAN : AttemptFails(f, received, final)

Next == Poll \/ Attempt \/ SeverityChanges \/ Tick \/ Restart
Spec == Init /\ [][Next]_vars

\* Time passes, an open dashboard keeps polling, every attempt comes to an end,
\* and a target that is tried again and again answers at last.
FairSpec == /\ Spec
            /\ WF_vars(Tick) /\ WF_vars(open /\ ~polled /\ Poll) /\ WF_vars(Attempt)
            /\ \A t \in Targets : SF_vars(Reaches(t))

-----------------------------------------------------------------------------
(* Properties *)

TierFires(i) == Poll /\ evaluateEscalation # {} /\ i = Highest(evaluateEscalation)

\* A tier fires only after the alert has lasted as long as the tier asks, with
\* no request in between that saw it gone (an alert that flaps does not escalate),
\* and fires again only with its cooldown, or the time it takes to become due
\* again, in between, whatever resets and restarts happen meanwhile.
TiersPaced ==
  [][\A i \in Tiers : TierFires(i) =>
       /\ calm >= After[i]
       /\ sinceTier[i] >= EscalationCooldown \/ sinceTier[i] >= After[i]]_vars

Lasting == config.escalation /\ open /\ isQualifyingSeverity

\* While an alert lasts and a dashboard is open, every tier that is due is
\* notified again and again, provided the cooldown leaves room for a request per
\* tier: a higher tier does not starve a lower one.
EveryTierServed == EscalationCooldown >= Cardinality(Tiers) =>
  \A i \in Tiers : <>[]Lasting => []<>(sinceTier[i] = 0)

\* A transition that fell in the cooldown, whose delivery failed, or whose webhook
\* arrived before the one of an earlier recovery, leaves a target believing that all
\* is well, and is not sent again; the escalation makes up for it: whoever a tier
\* names in the end believes in an alert that lasts, whatever arrived before.
EscalationCoversLoss ==
  \A i \in Tiers : \A t \in TierTargets[i] : <>[]Lasting => <>[](told[t] \in Severities /\ told[t] >= TriggerSeverity)
=============================================================================
