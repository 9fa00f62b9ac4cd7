\* Two cards, two workers, one of them re-queued by a recovery; two faults: a crash between
\* requests or in a write, a write that fails, an answer or a report that is lost.
CONSTANTS Ids = {c1, c2}
          Agents = {a1, a2}
          None = None
          Owners <- SomeOwners
          NewStatuses = {"backlog", "queued", "running"}
          Torn = Torn
          PickupLimit = 2
          RecoveryLimit = 1
          MaxEdits = 3
          MaxFaults = 2
SPECIFICATION FairSpec
INVARIANTS NoTwoWorkers
PROPERTIES  FollowsDiagram EveryQueuedRuns
CHECK_DEADLOCK FALSE
