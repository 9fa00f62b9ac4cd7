------------------------ MODULE MCProposalLifecycle ------------------------
(* Instances of ProposalLifecycle for TLC. *)
EXTENDS ProposalLifecycle

\* Labels that sanitizeId tells apart, and labels with a twin.
ThreeSlugs == [plan |-> "plan", build |-> "build", ship |-> "ship"]
TwinSlugs == [plan |-> "plan", Build |-> "build", build |-> "build", ship |-> "ship"]

Raw(label, after, fails) == [label |-> label, after |-> after, fails |-> fails]

\* Every list of plan, build and ship: any dependencies (on themselves, in cycles,
\* against the listed order), and none or one of them fails.
AllDeps == {<<Raw("plan", D[1], f = 1), Raw("build", D[2], f = 2), Raw("ship", D[3], f = 3)>> :
              D \in [1..3 -> SUBSET Labels], f \in 0..3}

\* A few lists with twin ids, an unknown dependency, a cycle, a fork and a failing step.
TwinLists == {<<Raw("plan", {}, FALSE), Raw("build", {"plan"}, FALSE), Raw("ship", {"plan"}, FALSE)>>,
              <<Raw("Build", {}, FALSE), Raw("build", {}, FALSE)>>,
              <<Raw("Build", {"ship"}, FALSE)>>,
              <<Raw("build", {"ship"}, FALSE), Raw("ship", {"Build"}, FALSE)>>,
              <<Raw("build", {}, FALSE), Raw("ship", {"build"}, TRUE)>>}

OnePatch == {<<Raw("ship", {}, FALSE)>>}
=============================================================================
