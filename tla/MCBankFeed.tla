----------------------------- MODULE MCBankFeed -----------------------------
(* TLC instances of BankFeed. *)
EXTENDS BankFeed, TLC

CONSTANTS sw, r1
==============================================================================
