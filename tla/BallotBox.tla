------------------------------ MODULE BallotBox ------------------------------
(***************************************************************************)
(* What an election promises its voters, whatever is requested at the same *)
(* time: each casts one ballot at most, a ballot once cast stays, and only *)
(* who has one is told so.  Elections implements this specification.       *)
(***************************************************************************)
EXTENDS Naturals

CONSTANT Persons

VARIABLES
    ballots,    \* [Persons -> Nat], rows of election_ballot_casts
    receipts    \* who was given a confirmation

vars == <<ballots, receipts>>

Init ==
    /\ ballots = [p \in Persons |-> 0]
    /\ receipts = {}

Cast(p) ==
    /\ ballots[p] = 0
    /\ ballots' = [ballots EXCEPT ![p] = 1]
    /\ UNCHANGED receipts

Confirm(p) ==
    /\ ballots[p] = 1
    /\ receipts' = receipts \cup {p}
    /\ UNCHANGED ballots

Next == \E p \in Persons : Cast(p) \/ Confirm(p)

Spec == Init /\ [][Next]_vars
==============================================================================
