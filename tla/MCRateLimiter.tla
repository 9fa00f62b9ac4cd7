--------------------------- MODULE MCRateLimiter ---------------------------
(* Instances of RateLimiter for TLC. *)
EXTENDS RateLimiter, TLC

Symmetry == Permutations(AgentIds) \cup Permutations(Conversations)
=============================================================================
