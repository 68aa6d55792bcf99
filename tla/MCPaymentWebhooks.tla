-------------------------- MODULE MCPaymentWebhooks --------------------------
(* TLC instances of PaymentWebhooks. *)
EXTENDS PaymentWebhooks, TLC

\* Slots are interchangeable: no action or property tells them apart.
SlotSymmetry == Permutations(Slots)
==============================================================================
