\* Three tasks, every dependency graph, every squad, fair scheduling.
CONSTANTS N = 3
          Plans <- AllPlans
          Squads <- AllSquads
SPECIFICATION FairSpec
INVARIANTS SkippedIffBlocked FailureVisible
PROPERTIES Settles ImplementsTaskDag
CHECK_DEADLOCK FALSE
