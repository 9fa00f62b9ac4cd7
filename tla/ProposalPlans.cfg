\* One proposal, every dependency graph on three steps, one crash.
CONSTANTS Proposals = {p1}
          Submissions <- AllDeps
          Patches <- OnePatch
          Slug <- ThreeSlugs
          Torn = Torn
          MaxCrashes = 1
          p1 = p1
SPECIFICATION Spec
INVARIANTS DependencyOrder VerdictSound ApprovalGate IdleIsPersisted
CHECK_DEADLOCK FALSE
