-------------------------- MODULE MCApprovalStore --------------------------
(***************************************************************************)
(* Two concurrent requests are enough for one request's decision to reach  *)
(* another's waiter; Timeout < PruneAge is the shipped order (300 s and    *)
(* 3600 s), the other order is what a long configured timeout gives.       *)
(***************************************************************************)
EXTENDS ApprovalStore

CONSTANTS r1, r2
=============================================================================
