\* Two targets, one per tier, one of them told of recoveries too; every setting of the
\* switches, one restart.
CONSTANTS ops = ops
          boss = boss
          Targets = {ops, boss}
          Severities = {0, 2}
          MinSeverity <- Mins
          TriggerSeverity = 2
          Tiers = {1, 2}
          After <- OneOrTwo
          TierTargets <- OpsThenBoss
          WebhookCooldown = 1
          EscalationCooldown = 2
          MaxRetries = 2
          NoSeverity = NoSeverity
          NotTracking = NotTracking
          MaxFlights = 2
          MaxRestarts = 1
SPECIFICATION FairSpec
INVARIANTS TypeOK
PROPERTIES TiersPaced EveryTierServed EscalationCoversLoss
CHECK_DEADLOCK FALSE
