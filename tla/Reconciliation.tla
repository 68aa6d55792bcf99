---------------------------- MODULE Reconciliation ----------------------------
(***************************************************************************)
(* How deposits settle the owners' pending ledger entries, within one      *)
(* association: reconcileBankTransactions, which every sync of a bank      *)
(* connection ends with; runAutoMatch; a match by hand, which an approved  *)
(* proposal of the agent commits with too; and a payment made from a       *)
(* deposit.  None of them excludes another: the lock of a sync is held per *)
(* connection, the matching goes over the association.  Each reads the     *)
(* deposits, the pending entries and which deposits are linked already in  *)
(* trips of its own and then updates entries by id.                        *)
(*                                                                         *)
(* Deposits are numbered by date and entries by createdAt, the orders the  *)
(* matcher reads them in.  How the rows of the bank come and go is in      *)
(* BankFeed.  Left out: debits, the scores of the auto-matcher, which may  *)
(* pair any deposit with any entry here or leave it for review, and        *)
(* payment_transactions, to which nothing reconciles a deposit.            *)
(***************************************************************************)
EXTENDS Naturals, FiniteSets

CONSTANTS
    MaxDeposits, MaxEntries,   \* bounds: bank_transactions, owner_ledger_entries
    Delta,                     \* days between a deposit and an entry of its amount
    Window,                    \* MATCH_DATE_WINDOW_DAYS; amounts that differ are beyond
    Runs                       \* syncs that match, requests of administrators

Deposits == 1..MaxDeposits
Entries == 1..MaxEntries
None == 0                      \* bankTransactionId IS NULL

ASSUME ReconciliationAssumption ==
    /\ MaxDeposits \in Nat /\ MaxEntries \in Nat /\ Window \in Nat
    /\ Delta \in [Deposits -> [Entries -> Nat]]

--------------------------------------------------------------------------------
Entry == [state : {"absent", "pending", "settled"}, deposit : Deposits \cup {None}]
Task == [pc : {"idle", "pending", "consumed", "greedy",
               "auto_linked", "auto_entries", "auto_apply",
               "hand_linked", "hand_entry", "hand_apply", "new_linked", "new_entry"},
         credits : SUBSET Deposits, entries : SUBSET Entries,
         alone : BOOLEAN]          \* history: no other run has matched meanwhile

Idle == [pc |-> "idle", credits |-> {}, entries |-> {}, alone |-> TRUE]

VARIABLES
    rows,       \* bank_transactions
    withdrawn,  \* what the bank took back
    entry,      \* owner_ledger_entries: settledAt and bankTransactionId
    task        \* what each run is doing

vars == <<rows, withdrawn, entry, task>>

\* Both columns of a match are written at once, and the link is a foreign key.
TypeOK ==
    /\ rows \subseteq Deposits /\ withdrawn \subseteq Deposits
    /\ entry \in [Entries -> Entry]
    /\ \A e \in Entries : entry[e].deposit # None =>
          entry[e].state = "settled" /\ entry[e].deposit \in rows
    /\ task \in [Runs -> Task]

Init ==
    /\ rows = {} /\ withdrawn = {}
    /\ entry = [e \in Entries |-> [state |-> "absent", deposit |-> None]]
    /\ task = [r \in Runs |-> Idle]

--------------------------------------------------------------------------------
At(r, l) == task[r].pc = l
Go(r, l) == task' = [task EXCEPT ![r].pc = l]
Matching == {r \in Runs : ~At(r, "idle")}

Begin(r, t) ==
    /\ At(r, "idle")
    /\ task' = [q \in Runs |-> IF q = r THEN [t EXCEPT !.alone = Matching = {}]
                              ELSE [task[q] EXCEPT !.alone = @ /\ At(q, "idle")]]

End(r) == task' = [task EXCEPT ![r] = Idle]

Consumed == {entry[e].deposit : e \in Entries} \ {None}
Pending == {e \in Entries : entry[e].state = "pending"}
Settle(e, d) == entry' = [entry EXCEPT ![e] = [state |-> "settled", deposit |-> d]]

--------------------------------------------------------------------------------
(* The bank and the owners.                                                  *)

Arrive(d) ==
    /\ d \notin rows \cup withdrawn
    /\ rows' = rows \cup {d}
    /\ UNCHANGED <<withdrawn, entry, task>>

\* A sync deletes what the bank took back; the foreign key of the ledger sets
\* the link of an entry to NULL and leaves its settledAt.
Withdraw(d) ==
    /\ d \in rows
    /\ rows' = rows \ {d} /\ withdrawn' = withdrawn \cup {d}
    /\ entry' = [e \in Entries |-> IF entry[e].deposit = d
                                   THEN [entry[e] EXCEPT !.deposit = None] ELSE entry[e]]
    /\ UNCHANGED task

Intend(e) ==   \* an owner says that a payment is on its way
    /\ entry[e].state = "absent"
    /\ entry' = [entry EXCEPT ![e].state = "pending"]
    /\ UNCHANGED <<rows, withdrawn, task>>

--------------------------------------------------------------------------------
(* reconcileBankTransactions.                                                *)

StartMatcher(r) ==
    /\ Begin(r, [Idle EXCEPT !.pc = "pending", !.credits = rows])
    /\ UNCHANGED <<rows, withdrawn, entry>>

ReadPending(r) ==
    /\ At(r, "pending")
    /\ task' = [task EXCEPT ![r].pc = "consumed", ![r].entries = Pending]
    /\ UNCHANGED <<rows, withdrawn, entry>>

\* mutant: deposits that are linked already are not left out
ReadConsumedNot(r) ==
    /\ At(r, "consumed") /\ Go(r, "greedy")
    /\ UNCHANGED <<rows, withdrawn, entry>>

ReadConsumed(r) ==
    /\ At(r, "consumed")
    /\ task' = [task EXCEPT ![r].pc = "greedy", ![r].credits = @ \ Consumed]
    /\ UNCHANGED <<rows, withdrawn, entry>>

\* The entry that is nearest in time, the oldest of those.
Best(d, entries, e) ==
    /\ e \in entries /\ Delta[d][e] <= Window
    /\ \A f \in entries : \/ Delta[d][e] < Delta[d][f]
                          \/ Delta[d][e] = Delta[d][f] /\ e <= f

\* One deposit after the other, in the order of their dates; a row that is gone
\* breaks the foreign key and ends the run.
Greedy(r) ==
    LET credits == task[r].credits IN
    /\ At(r, "greedy")
    /\ \/ credits = {} /\ End(r) /\ UNCHANGED entry
       \/ \E d \in credits :
            /\ \A c \in credits : d <= c
            /\ IF \E e \in Entries : Best(d, task[r].entries, e)
               THEN \E e \in Entries :
                      /\ Best(d, task[r].entries, e)
                      /\ IF d \in rows
                         THEN /\ Settle(e, d)
                              /\ task' = [task EXCEPT ![r].credits = @ \ {d},
                                                      ![r].entries = @ \ {e}]
                         ELSE End(r) /\ UNCHANGED entry
               ELSE task' = [task EXCEPT ![r].credits = @ \ {d}] /\ UNCHANGED entry
    /\ UNCHANGED <<rows, withdrawn>>

--------------------------------------------------------------------------------
(* runAutoMatch.                                                             *)

StartAuto(r) ==
    /\ Begin(r, [Idle EXCEPT !.pc = "auto_linked", !.credits = rows])
    /\ UNCHANGED <<rows, withdrawn, entry>>

AutoLinked(r) ==
    /\ At(r, "auto_linked")
    /\ task' = [task EXCEPT ![r].pc = "auto_entries", ![r].credits = @ \ Consumed]
    /\ UNCHANGED <<rows, withdrawn, entry>>

AutoEntries(r) ==
    /\ At(r, "auto_entries")
    /\ task' = [task EXCEPT ![r].pc = "auto_apply", ![r].entries = Pending]
    /\ UNCHANGED <<rows, withdrawn, entry>>

AutoApply(r) ==
    /\ At(r, "auto_apply")
    /\ \/ End(r) /\ UNCHANGED entry
       \/ \E d \in task[r].credits \cap rows, e \in task[r].entries :
            /\ Settle(e, d)
            /\ task' = [task EXCEPT ![r].credits = @ \ {d}, ![r].entries = @ \ {e}]
    /\ UNCHANGED <<rows, withdrawn>>

--------------------------------------------------------------------------------
(* manualMatchBankTransaction, by an administrator or executeApprovedReconMatch. *)

StartByHand(r) ==
    /\ \E d \in rows : Begin(r, [Idle EXCEPT !.pc = "hand_linked", !.credits = {d}])
    /\ UNCHANGED <<rows, withdrawn, entry>>

HandLinked(r) ==
    /\ At(r, "hand_linked")
    /\ IF task[r].credits \cap Consumed = {} THEN Go(r, "hand_entry") ELSE End(r)
    /\ UNCHANGED <<rows, withdrawn, entry>>

\* mutant: an entry that is settled already is taken
HandEntryAny(r) ==
    /\ At(r, "hand_entry")
    /\ \E e \in Entries : task' = [task EXCEPT ![r].pc = "hand_apply", ![r].entries = {e}]
    /\ UNCHANGED <<rows, withdrawn, entry>>

HandEntry(r) ==
    /\ At(r, "hand_entry")
    /\ \/ \E e \in Pending : task' = [task EXCEPT ![r].pc = "hand_apply", ![r].entries = {e}]
       \/ End(r)
    /\ UNCHANGED <<rows, withdrawn, entry>>

HandApply(r) ==
    /\ At(r, "hand_apply") /\ End(r)
    /\ \E d \in task[r].credits, e \in task[r].entries :
         IF d \in rows THEN Settle(e, d) ELSE UNCHANGED entry
    /\ UNCHANGED <<rows, withdrawn>>

--------------------------------------------------------------------------------
(* createPaymentFromSuggestion: a new entry, settled by the deposit.         *)

StartNew(r) ==
    /\ \E d \in rows : Begin(r, [Idle EXCEPT !.pc = "new_linked", !.credits = {d}])
    /\ UNCHANGED <<rows, withdrawn, entry>>

NewLinked(r) ==
    /\ At(r, "new_linked")
    /\ IF task[r].credits \cap Consumed = {} THEN Go(r, "new_entry") ELSE End(r)
    /\ UNCHANGED <<rows, withdrawn, entry>>

\* mutant: the link is written without the settlement
NewEntryOpen(r) ==
    /\ At(r, "new_entry") /\ End(r)
    /\ \E d \in task[r].credits, e \in Entries :
         /\ entry[e].state = "absent"
         /\ IF d \in rows THEN entry' = [entry EXCEPT ![e] = [state |-> "pending", deposit |-> d]]
            ELSE UNCHANGED entry
    /\ UNCHANGED <<rows, withdrawn>>

NewEntry(r) ==
    /\ At(r, "new_entry") /\ End(r)
    /\ \E d \in task[r].credits, e \in Entries :
         /\ entry[e].state = "absent"
         /\ IF d \in rows THEN Settle(e, d) ELSE UNCHANGED entry
    /\ UNCHANGED <<rows, withdrawn>>

--------------------------------------------------------------------------------
Fail(r) ==   \* a trip fails or the machine dies: nothing is taken back
    /\ ~At(r, "idle") /\ End(r)
    /\ UNCHANGED <<rows, withdrawn, entry>>

Step(r) ==
    \/ ReadPending(r) \/ ReadConsumed(r) \/ Greedy(r)
    \/ AutoLinked(r) \/ AutoEntries(r) \/ AutoApply(r)
    \/ HandLinked(r) \/ HandEntry(r) \/ HandApply(r)
    \/ NewLinked(r) \/ NewEntry(r)

Next ==
    \/ \E d \in Deposits : Arrive(d) \/ Withdraw(d)
    \/ \E e \in Entries : Intend(e)
    \/ \E r \in Runs : StartMatcher(r) \/ StartAuto(r) \/ StartByHand(r) \/ StartNew(r)
                       \/ Step(r) \/ Fail(r)

Spec == Init /\ [][Next]_vars

--------------------------------------------------------------------------------
(* Properties.                                                               *)

\* Entry e is linked to a deposit, by a run beside which no other one matched.
LinkedAlone(e) ==
    /\ entry'[e].deposit \notin {entry[e].deposit, None}
    /\ \A r \in Runs : task'[r] # task[r] => task[r].alone

\* "so a single deposit can never settle a second entry on a later run"
\* (server/services/plaid-reconciliation.ts:134), whatever the runs before did,
\* and however many of them failed half way.  It holds of a run that is alone:
\* of two at once the second may read the links before the first writes them.
OneEntryPerDeposit ==
    [][\A e \in Entries : LinkedAlone(e) => entry'[e].deposit \notin Consumed]_vars

\* Nor does it take an entry that is settled, with or without a deposit, away
\* from what settled it.
EntrySettlesOnce ==
    [][\A e \in Entries : LinkedAlone(e) => entry[e].state # "settled"]_vars

\* "Only delete rows NOT already linked to a ledger entry - a removed txn that
\* was somehow matched is left in place and surfaced rather than silently torn
\* out from under a reconciliation" (server/services/bank-feed-sync.ts:264-267):
\* a settled entry keeps its deposit.
SettledKeepsDeposit ==
    \A e \in Entries : entry[e].state = "settled" => entry[e].deposit # None
==============================================================================
