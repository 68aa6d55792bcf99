----------------------------- MODULE MCElections -----------------------------
(* TLC instances of Elections. *)
EXTENDS Elections, TLC

CONSTANTS p1, p2, u1

\* The unit p1 starts with may be sold to p2.
OneUnit == {<<u1, p1>>}
Alike == Permutations(Slots)
==============================================================================
