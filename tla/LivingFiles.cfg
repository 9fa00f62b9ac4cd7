\* Two files, two owners, a crash or a failing write anywhere.
CONSTANTS Paths = {p1, p2}
          Agents = {a1, a2}
          Ages = {0, 6}
          Hours = {4, 5}
          NewFiles <- SomeFiles
          Missing = Missing
          MAX_TRIGGER_HISTORY = 2
          MaxFiles = 2
          MaxEdits = 4
          MaxFaults = 1
SPECIFICATION FairSpec
INVARIANTS OneOpenTrigger NoDuplicateCards TriggerHadCard
PROPERTIES TriggersCatchUp
CHECK_DEADLOCK FALSE
