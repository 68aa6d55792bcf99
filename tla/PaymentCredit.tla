---------------------------- MODULE PaymentCredit ----------------------------
(***************************************************************************)
(* What the payment write paths promise together, whatever the number of   *)
(* endpoints, deliveries and crashes: a payment that Stripe has captured   *)
(* is credited to the owner's ledger, never before the capture and never   *)
(* twice ("post EXACTLY ONCE, no matter which arrives first",              *)
(* server/storage.ts, processPaymentWebhookEvent).  PaymentWebhooks        *)
(* implements this specification.                                          *)
(***************************************************************************)
EXTENDS Naturals

CONSTANT Payments

VARIABLES
    captured,   \* the payments whose money Stripe holds
    credits     \* [Payments -> Nat], "payment" rows in owner_ledger_entries

vars == <<captured, credits>>

TypeOK ==
    /\ captured \subseteq Payments
    /\ credits \in [Payments -> Nat]

Init ==
    /\ captured = {}
    /\ credits = [p \in Payments |-> 0]

\* Stripe captures the money of p.
Capture(p) ==
    /\ p \notin captured
    /\ captured' = captured \cup {p}
    /\ UNCHANGED credits

\* Some write path posts the one credit of a captured payment.
Credit(p) ==
    /\ p \in captured
    /\ credits[p] = 0
    /\ credits' = [credits EXCEPT ![p] = 1]
    /\ UNCHANGED captured

Next == \E p \in Payments : Capture(p) \/ Credit(p)

Spec == Init /\ [][Next]_vars
==============================================================================
