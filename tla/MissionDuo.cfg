\* Two runners work on the same mission.
CONSTANTS Runners = {r1, r2}
          Missing = Missing
          Empty = Empty
          Torn = Torn
          RollbackPolicy = "prior"
          MaxErrors = 0
          MaxCrashes = 0
          MaxThrows = 1
          MaxVersions = 2
          r1 = r1
          r2 = r2
SPECIFICATION Spec
SYMMETRY Symmetry
INVARIANTS MissionSound DeliveryIntact
CHECK_DEADLOCK FALSE
