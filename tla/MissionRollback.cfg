\* One runner, an operator who rolls back to any phase the code admits.
CONSTANTS Runners = {r1}
          Missing = Missing
          Empty = Empty
          Torn = Torn
          RollbackPolicy = "any"
          MaxErrors = 2
          MaxCrashes = 1
          MaxThrows = 1
          MaxVersions = 2
          r1 = r1
SPECIFICATION Spec
INVARIANTS ClosedIsVerified
CHECK_DEADLOCK FALSE
