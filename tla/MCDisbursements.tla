--------------------------- MODULE MCDisbursements ---------------------------
(* TLC instance of Disbursements. *)
EXTENDS Disbursements, TLC

CONSTANTS a1, a2, a3, r1, r2, r3

AnyOfThem == Permutations({a1, a2, a3}) \cup Permutations({r1, r2, r3})
==============================================================================
