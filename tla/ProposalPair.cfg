\* Two proposals under way together, no crash, fair scheduling.
CONSTANTS Proposals = {p1, p2}
          Submissions <- TwinLists
          Patches <- OnePatch
          Slug <- TwinSlugs
          Torn = Torn
          MaxCrashes = 0
          p1 = p1
          p2 = p2
SPECIFICATION FairSpec
INVARIANTS OneStepAtATime
PROPERTIES MissionsFinish
CHECK_DEADLOCK FALSE
