-------------------------- MODULE MCReconciliation --------------------------
(* TLC instances of Reconciliation. *)
EXTENDS Reconciliation, TLC

CONSTANTS r1, r2

\* The first deposit is as near to every entry, the second is nearest to the last.
Near == << <<0, 0, 0>>, <<2, 1, 0>> >>
TwoRuns == Permutations({r1, r2})
==============================================================================
