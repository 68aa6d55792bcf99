---------------------------- MODULE MCAgentActions ----------------------------
(* TLC instance of AgentActions. *)
EXTENDS AgentActions, TLC

CONSTANTS b1, a1, r1, r2, r3

AnyOfThem == Permutations({r1, r2, r3})
===============================================================================
