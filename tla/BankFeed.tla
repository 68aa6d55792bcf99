------------------------------- MODULE BankFeed -------------------------------
(***************************************************************************)
(* One bank connection: how the bank's transactions come into              *)
(* bank_transactions.  The bank keeps a log of what it adds and removes (a *)
(* pending deposit is removed when it posts under another id); a sync      *)
(* takes what lies behind the saved cursor, applies it row by row and      *)
(* saves the cursor.  Syncs exclude each other by an advisory lock; the    *)
(* older POST /api/plaid/sync does not take it.  Each round trip is a      *)
(* step.                                                                   *)
(*                                                                         *)
(* Left out: balances, the mirrored chart of accounts, modified            *)
(* transactions (an upsert like an added one), sync run rows, the pages of *)
(* one answer of the bank.  The matcher a sync ends with is in             *)
(* Reconciliation.  A webhook that is debounced, or not delivered, starts  *)
(* no sync.                                                                *)
(***************************************************************************)
EXTENDS Naturals, Sequences, FiniteSets

CONSTANTS
    MaxTxns,     \* bound: transactions, in the order the bank adds them
    Sweeper,     \* runBankFeedSweep
    Requests,    \* other runs: webhooks, administrators
    MaxFeed,     \* bound: changes the bank makes
    MaxFaults,   \* bound: failed round trips, deaths, lost locks
    Nobody

Txns == 1..MaxTxns
Runs == Requests \cup {Sweeper}

ASSUME FeedAssumption ==
    /\ Nobody \notin Runs
    /\ MaxTxns \in Nat /\ MaxFeed \in Nat /\ MaxFaults \in Nat

--------------------------------------------------------------------------------
Change == [op : {"add", "remove"}, txn : Txns]

Task == [pc : {"idle", "lock", "fetch", "upsert", "delete", "save", "match",
               "pull", "stamp"},
         from : Nat,               \* transactionsCursor, as the row was read
         upto : Nat,               \* nextCursor
         adds : SUBSET Txns, gone : SUBSET Txns]

Idle == [pc |-> "idle", from |-> 0, upto |-> 0, adds |-> {}, gone |-> {}]

VARIABLES
    feed,       \* the bank's log of changes
    active,     \* bank_connections.status
    accounts,   \* the bank_accounts rows are stored
    cursor,     \* bank_connections.transactionsCursor
    fresh,      \* lastSyncedAt is within STALENESS_MS
    rows,       \* bank_transactions
    lock,       \* who holds the connection's advisory lock
    task,       \* what each run is doing
    faults,
    early,      \* history: a run fetched before the accounts were stored
    mixed       \* history: a sync applied changes beside another writer of rows,
                \* or from a cursor that another had moved since it was read

vars == <<feed, active, accounts, cursor, fresh, rows, lock, task, faults, early, mixed>>
connection == <<active, accounts, cursor, fresh>>
history == <<early, mixed>>

TypeOK ==
    /\ feed \in Seq(Change) /\ Len(feed) <= MaxFeed
    /\ active \in BOOLEAN /\ accounts \in BOOLEAN /\ fresh \in BOOLEAN
    /\ cursor \in 0..Len(feed)
    /\ rows \subseteq Txns
    /\ lock \in Runs \cup {Nobody}
    /\ task \in [Runs -> Task]
    /\ \A r \in Runs : task[r].upto <= Len(feed)
    /\ faults \in 0..MaxFaults
    /\ early \in BOOLEAN /\ mixed \in BOOLEAN

\* The connection row is stored, its accounts are not yet.
Init ==
    /\ feed = <<>> /\ active = TRUE /\ accounts = FALSE
    /\ cursor = 0 /\ fresh = FALSE
    /\ rows = {}
    /\ lock = Nobody
    /\ task = [r \in Runs |-> Idle]
    /\ faults = 0
    /\ early = FALSE /\ mixed = FALSE

--------------------------------------------------------------------------------
Changed(op, i, j) == {feed[k].txn : k \in {n \in (i + 1)..j : feed[n].op = op}}
Added(i, j) == Changed("add", i, j)
Removed(i, j) == Changed("remove", i, j)
BankHas == Added(0, Len(feed)) \ Removed(0, Len(feed))

At(r, l) == task[r].pc = l
Go(r, l) == task' = [task EXCEPT ![r].pc = l]
\* mutant: the unlock is missing
ReleaseNone(r) == UNCHANGED lock
Release(r) == lock' = IF lock = r THEN Nobody ELSE lock
End(r) == task' = [task EXCEPT ![r] = Idle] /\ Release(r)

Applying(r) == task[r].pc \in {"upsert", "delete", "save"}
Pulling(r) == At(r, "pull")

--------------------------------------------------------------------------------
(* The bank.                                                                 *)

BankAdds ==
    LET next == Cardinality(Added(0, Len(feed))) + 1 IN
    /\ Len(feed) < MaxFeed /\ next \in Txns
    /\ feed' = Append(feed, [op |-> "add", txn |-> next])
    /\ UNCHANGED <<connection, rows, lock, task, faults, history>>

BankRemoves(t) ==
    /\ Len(feed) < MaxFeed /\ t \in BankHas
    /\ feed' = Append(feed, [op |-> "remove", txn |-> t])
    /\ UNCHANGED <<connection, rows, lock, task, faults, history>>

--------------------------------------------------------------------------------
(* The connection: POST /api/plaid/exchange-token, webhooks of the item, and *)
(* DELETE /api/plaid/connections/:id.                                        *)

StoreAccounts ==
    /\ ~accounts /\ accounts' = TRUE
    /\ UNCHANGED <<feed, active, cursor, fresh, rows, lock, task, faults, history>>

Disconnect ==
    /\ active /\ active' = FALSE
    /\ UNCHANGED <<feed, accounts, cursor, fresh, rows, lock, task, faults, history>>

Stale ==   \* STALENESS_MS pass
    /\ fresh /\ fresh' = FALSE
    /\ UNCHANGED <<feed, active, accounts, cursor, rows, lock, task, faults, history>>

--------------------------------------------------------------------------------
(* syncOneConnection.                                                        *)

\* The row is read before the lock is tried, the sweep's as it lists.
StartSync(r) ==
    /\ At(r, "idle") /\ active /\ (r = Sweeper => ~fresh)
    /\ task' = [task EXCEPT ![r] = [Idle EXCEPT !.pc = "lock", !.from = cursor]]
    /\ UNCHANGED <<feed, connection, rows, lock, faults, history>>

TryLock(r) ==
    /\ At(r, "lock")
    /\ IF lock = Nobody THEN lock' = r /\ Go(r, "fetch") ELSE End(r)
    /\ UNCHANGED <<feed, connection, rows, faults, history>>

\* mutant: the cursor is saved before its changes are applied
FetchSaving(r) ==
    /\ At(r, "fetch")
    /\ task' = [task EXCEPT ![r].pc = "upsert", ![r].upto = Len(feed),
                            ![r].adds = IF accounts THEN Added(task[r].from, Len(feed)) ELSE {},
                            ![r].gone = Removed(task[r].from, Len(feed))]
    /\ cursor' = Len(feed)
    /\ UNCHANGED <<feed, active, accounts, fresh, rows, lock, faults, history>>

\* Accounts that are not stored lose their transactions: those are skipped.
Fetch(r) ==
    /\ At(r, "fetch")
    /\ task' = [task EXCEPT ![r].pc = "upsert", ![r].upto = Len(feed),
                            ![r].adds = IF accounts THEN Added(task[r].from, Len(feed)) ELSE {},
                            ![r].gone = Removed(task[r].from, Len(feed))]
    /\ early' = (early \/ ~accounts)
    /\ mixed' = (mixed \/ task[r].from # cursor
                       \/ \E q \in Runs \ {r} : Applying(q) \/ Pulling(q))
    /\ UNCHANGED <<feed, connection, rows, lock, faults>>

Upsert(r) ==
    /\ At(r, "upsert")
    /\ \/ task[r].adds = {} /\ Go(r, "delete") /\ UNCHANGED rows
       \/ \E t \in task[r].adds :
            /\ rows' = rows \cup {t}
            /\ task' = [task EXCEPT ![r].adds = @ \ {t}]
    /\ UNCHANGED <<feed, connection, lock, faults, history>>

\* One DELETE of all that the bank took back.
Delete(r) ==
    /\ At(r, "delete") /\ Go(r, "save")
    /\ rows' = rows \ task[r].gone
    /\ UNCHANGED <<feed, connection, lock, faults, history>>

\* mutant: off by one
SaveCursorNext(r) ==
    /\ At(r, "save") /\ Go(r, "match")
    /\ cursor' = task[r].upto + 1 /\ fresh' = TRUE
    /\ UNCHANGED <<feed, active, accounts, rows, lock, faults, history>>

SaveCursor(r) ==
    /\ At(r, "save") /\ Go(r, "match")
    /\ cursor' = task[r].upto /\ fresh' = TRUE
    /\ UNCHANGED <<feed, active, accounts, rows, lock, faults, history>>

\* reconcileBankTransactions, still under the lock.
Match(r) ==
    /\ At(r, "match") /\ End(r)
    /\ UNCHANGED <<feed, connection, rows, faults, history>>

--------------------------------------------------------------------------------
(* POST /api/plaid/sync: no lock, no cursor.                                 *)

\* It takes what the bank has since a date of the caller's choice, by default of
\* thirty days ago; transactions are numbered in the order of their dates.
StartPull(r) ==
    /\ r # Sweeper /\ At(r, "idle") /\ active
    /\ \E since \in 1..(MaxTxns + 1) :
         task' = [task EXCEPT ![r] =
           [Idle EXCEPT !.pc = "pull",
                        !.adds = IF accounts THEN {t \in BankHas : t >= since} ELSE {}]]
    /\ early' = (early \/ ~accounts)
    /\ mixed' = (mixed \/ \E q \in Runs \ {r} : Applying(q))
    /\ UNCHANGED <<feed, connection, rows, lock, faults>>

Pull(r) ==
    /\ At(r, "pull")
    /\ \/ task[r].adds = {} /\ Go(r, "stamp") /\ UNCHANGED rows
       \/ \E t \in task[r].adds :
            /\ rows' = rows \cup {t}
            /\ task' = [task EXCEPT ![r].adds = @ \ {t}]
    /\ UNCHANGED <<feed, connection, lock, faults, history>>

\* Whatever the date was, the sweep passes the connection over for a while.
Stamp(r) ==
    /\ At(r, "stamp") /\ fresh' = TRUE /\ End(r)
    /\ UNCHANGED <<feed, active, accounts, cursor, rows, faults, history>>

--------------------------------------------------------------------------------
(* Failures.                                                                 *)

Fault == faults < MaxFaults /\ faults' = faults + 1

\* A round trip fails or the machine dies.  A sync catches what it can: a code
\* that asks for a new link takes the connection out of the sweep.
Fail(r) ==
    /\ ~At(r, "idle") /\ Fault /\ End(r)
    /\ \/ UNCHANGED active
       \/ At(r, "fetch") /\ active' = FALSE
    /\ UNCHANGED <<feed, accounts, cursor, fresh, rows, history>>

\* The session that holds the lock is lost, the sync goes on without it.
LoseLock ==
    /\ lock # Nobody /\ Fault /\ lock' = Nobody
    /\ UNCHANGED <<feed, connection, rows, task, history>>

Step(r) ==
    \/ TryLock(r) \/ Fetch(r) \/ Upsert(r) \/ Delete(r) \/ SaveCursor(r) \/ Match(r)
    \/ Pull(r) \/ Stamp(r)

Next ==
    \/ BankAdds \/ \E t \in Txns : BankRemoves(t)
    \/ StoreAccounts \/ Disconnect \/ Stale \/ LoseLock
    \/ \E r \in Runs : StartSync(r) \/ StartPull(r) \/ Step(r) \/ Fail(r)

Spec == Init /\ [][Next]_vars

\* Time passes, the timer goes on firing every five minutes, and a run that
\* began goes on.
Fairness ==
    /\ WF_vars(Stale) /\ WF_vars(StartSync(Sweeper))
    /\ \A r \in Runs : WF_vars(Step(r))
FairSpec == Spec /\ Fairness

--------------------------------------------------------------------------------
(* Properties.                                                               *)

\* What lies before the cursor is applied: no transaction the bank still has is
\* missing and none that it took back is left, whatever fails in between and
\* however far a sync has got that applies what lies behind it; unless
\* the accounts came after a sync, another writer was at work beside one, or its
\* cursor was stale: the connection is read before the lock is taken.
CursorIsHonest ==
    ~early /\ ~mixed =>
        /\ Added(0, cursor) \cap BankHas \subseteq rows
        /\ rows \cap Removed(0, cursor) = {}

\* Every transaction the bank has and keeps is imported in the end, whichever
\* webhooks are lost and runs fail, as long as the connection is active: "the
\* 5-min sweep is the backstop that recovers a dropped event"
\* (server/routes.ts:21072).  Unless POST /api/plaid/sync is called over and over
\* for ever: each call takes as much as its date allows and yet makes the
\* connection fresh, so that the sweep may never come to it.
EveryDepositArrives ==
    \/ []<>(\E r \in Runs : At(r, "stamp"))
    \/ []<>(BankHas \subseteq rows \/ ~active \/ early)
==============================================================================
