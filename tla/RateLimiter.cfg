\* Two agents in two conversations that share the limiter.
CONSTANTS AgentIds = {a1, a2}
          Conversations = {c1, c2}
          None = None
          Minute = 1
          Hour = 3
          Cooldown = 2
          AgentPerMinute = 1
          AgentPerHour = 2
          ConversationPerMinute = 2
          ConversationPerHour = 3
          ChallengePerHour = 2
          MaxTime = 5
          MaxRecords = 4
SPECIFICATION LimiterSpec
SYMMETRY Symmetry
INVARIANTS LimitsHold RetryAfterHonest
CHECK_DEADLOCK FALSE
