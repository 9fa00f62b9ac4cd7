\* One runner that may crash, an operator who rolls back to prior phases, fair scheduling.
CONSTANTS Runners = {r1}
          Missing = Missing
          Empty = Empty
          Torn = Torn
          RollbackPolicy = "prior"
          MaxErrors = 2
          MaxCrashes = 1
          MaxThrows = 2
          MaxVersions = 6
          r1 = r1
SPECIFICATION FairSpec
INVARIANTS ClosedIsVerified AnswerIsDurable ApprovalHonoured
PROPERTIES DiskFollowsDiagram HistoryKept RunsSettle
CHECK_DEADLOCK FALSE
