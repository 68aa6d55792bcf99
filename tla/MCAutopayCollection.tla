------------------------- MODULE MCAutopayCollection -------------------------
(* TLC instances of AutopayCollection. *)
EXTENDS AutopayCollection, TLC

\* Failed payments are retried after two days.
TwoDays == <<2>>
==============================================================================
