\* One conversation, any store, an unlocked restart, a crash.
CONSTANTS synth = synth
          echo = echo
          Agents = {synth, echo}
          Mediator = echo
          Inputs <- FewInputs
          Casts <- Outsider
          Missing = Missing
          Torn = Torn
          ChallengeLimit = 2
          ScoreWindow = 1
          PauseTokens = 4
          SummaryTrigger = 2
          SummaryChunk = 2
          MaxMessages = 4
          MaxStarts = 2
          MaxCrashes = 1
SPECIFICATION Spec
INVARIANTS DeliveredIsCleared NoLostUpdate StopHasAlert TurnHolderPresent
CHECK_DEADLOCK FALSE
