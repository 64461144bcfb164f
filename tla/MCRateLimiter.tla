---------------------------- MODULE MCRateLimiter ----------------------------
(***************************************************************************)
(* Two agents share the map, so one agent's check sweeps the other's       *)
(* bucket.  A token takes two ticks to flow in: half tokens occur.         *)
(***************************************************************************)
EXTENDS RateLimiter, TLC

AgentSymmetry == Permutations(Agents)
=============================================================================
