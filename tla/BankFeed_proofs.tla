--------------------------- MODULE BankFeed_proofs ---------------------------
(***************************************************************************)
(* BankFeed: types and CursorIsHonest, for any runs, transactions and      *)
(* numbers of changes and faults.  The bank adds a transaction once and    *)
(* removes it after that, so what a sync applies from the cursor on never  *)
(* undoes what lies before it; and as long as no one else writes rows      *)
(* beside it, a sync about to save its cursor has applied all of it.       *)
(***************************************************************************)
EXTENDS BankFeed, FiniteSetTheorems, TLAPS

\* The log: transactions are added in their order, and removed after that.
FeedOK ==
    /\ \E n \in 0..MaxTxns : Added(0, Len(feed)) = 1..n
    /\ Removed(0, Len(feed)) \subseteq Added(0, Len(feed))
    /\ \A j, k \in 1..Len(feed) :
          feed[j].op = "remove" /\ feed[k].op = "add" /\ feed[j].txn = feed[k].txn => k < j

\* Only one run applies changes, and no pull is at work beside it.
Solo ==
    \A r, q \in Runs : Applying(r) /\ (Applying(q) \/ Pulling(q)) => q = r

\* What a run that applies changes has done at each of its steps.
Progress(t) ==
    /\ t.pc \in {"upsert", "delete", "save"} =>
          t.from = cursor /\ cursor <= t.upto /\ t.gone = Removed(cursor, t.upto)
    /\ t.pc = "upsert" =>
          /\ t.adds \subseteq Added(cursor, t.upto)
          /\ Added(cursor, t.upto) \ t.adds \subseteq rows
    /\ t.pc = "delete" => Added(cursor, t.upto) \subseteq rows
    /\ t.pc = "save" => /\ Added(cursor, t.upto) \ t.gone \subseteq rows
                        /\ rows \cap t.gone = {}
    /\ t.pc = "pull" => t.adds \cap Removed(0, cursor) = {}

Honest ==
    /\ Added(0, cursor) \cap BankHas \subseteq rows
    /\ rows \cap Removed(0, cursor) = {}

SyncOK == ~early /\ ~mixed => Solo /\ Honest /\ \A r \in Runs : Progress(task[r])

IInv == TypeOK /\ FeedOK /\ SyncOK

USE FeedAssumption

--------------------------------------------------------------------------------
(* The log.                                                                  *)

LEMMA ChangedSplit ==
    ASSUME NEW op, NEW i \in Nat, NEW m \in Nat, NEW j \in Nat, i <= m, m <= j
    PROVE  Changed(op, i, j) = Changed(op, i, m) \cup Changed(op, m, j)
<1>1. (i + 1)..j = ((i + 1)..m) \cup ((m + 1)..j)
  OBVIOUS
<1> QED BY <1>1 DEF Changed

LEMMA ChangedType ==
    ASSUME TypeOK, NEW op, NEW i \in Nat, NEW j \in 0..Len(feed)
    PROVE  Changed(op, i, j) \subseteq Txns
<1>1. Len(feed) \in Nat /\ \A k \in 1..Len(feed) : feed[k] \in Change
  BY DEF TypeOK
<1>2. \A k \in (i + 1)..j : k \in 1..Len(feed)
  BY <1>1
<1>3. \A k \in (i + 1)..j : feed[k].txn \in Txns
  BY <1>1, <1>2 DEF Change
<1> QED BY <1>3 DEF Changed

\* What lies before the cursor is part of the whole log.
LEMMA ChangedSub ==
    ASSUME TypeOK, NEW op, NEW i \in Nat, NEW j \in 0..Len(feed)
    PROVE  Changed(op, i, j) \subseteq Changed(op, 0, Len(feed))
BY DEF TypeOK, Changed

LEMMA ChangedSame ==
    ASSUME TypeOK, feed' = feed
    PROVE  /\ \A op, i, j : Changed(op, i, j)' = Changed(op, i, j)
           /\ \A i, j : Added(i, j)' = Added(i, j) /\ Removed(i, j)' = Removed(i, j)
           /\ BankHas' = BankHas
           /\ FeedOK => FeedOK'
BY DEF Changed, Added, Removed, BankHas, FeedOK

LEMMA Appended ==
    ASSUME TypeOK, NEW c \in Change, feed' = Append(feed, c)
    PROVE  /\ feed' \in Seq(Change) /\ Len(feed) \in Nat /\ Len(feed') = Len(feed) + 1
           /\ \A k \in 1..Len(feed) : feed'[k] = feed[k]
           /\ feed'[Len(feed) + 1] = c
BY DEF TypeOK

\* A change of the bank leaves every earlier stretch of the log as it is.
LEMMA ChangedAppend ==
    ASSUME TypeOK, NEW c \in Change, feed' = Append(feed, c), NEW op
    PROVE  /\ \A i \in Nat, j \in 0..Len(feed) : Changed(op, i, j)' = Changed(op, i, j)
           /\ Changed(op, 0, Len(feed))' =
                Changed(op, 0, Len(feed)) \cup (IF c.op = op THEN {c.txn} ELSE {})
<1>0. /\ Len(feed) \in Nat /\ Len(feed') = Len(feed) + 1
      /\ \A k \in 1..Len(feed) : feed'[k] = feed[k]
      /\ feed'[Len(feed) + 1] = c
  BY Appended
<1>1. ASSUME NEW i \in Nat, NEW j \in 0..Len(feed) PROVE Changed(op, i, j)' = Changed(op, i, j)
  <2>1. \A k \in (i + 1)..j : feed'[k] = feed[k]
    BY <1>0
  <2> QED BY <2>1 DEF Changed
<1>2. Changed(op, 0, Len(feed))' =
        Changed(op, 0, Len(feed)) \cup (IF c.op = op THEN {c.txn} ELSE {})
  <2>1. (0 + 1)..Len(feed') = ((0 + 1)..Len(feed)) \cup {Len(feed) + 1}
    BY <1>0
  <2> QED BY <1>0, <2>1 DEF Changed
<1> QED BY <1>1, <1>2

\* A transaction is not added again once it has been removed.
LEMMA NoReturn ==
    ASSUME TypeOK, FeedOK, NEW i \in 0..Len(feed), NEW j \in 0..Len(feed)
    PROVE  Removed(0, i) \cap Added(i, j) = {}
<1> SUFFICES ASSUME NEW t \in Removed(0, i), t \in Added(i, j) PROVE FALSE
  OBVIOUS
<1>1. PICK m \in 1..i : feed[m].op = "remove" /\ feed[m].txn = t
  BY DEF Removed, Changed
<1>2. PICK k \in (i + 1)..j : feed[k].op = "add" /\ feed[k].txn = t
  BY DEF Added, Changed
<1>3. m \in 1..Len(feed) /\ k \in 1..Len(feed) /\ m < k
  BY DEF TypeOK
<1>4. k < m
  BY <1>1, <1>2, <1>3 DEF FeedOK
<1> QED BY <1>3, <1>4

\* The next transaction is a new one.
LEMMA NextIsNew ==
    ASSUME TypeOK, FeedOK
    PROVE  \E n \in 0..MaxTxns : /\ Added(0, Len(feed)) = 1..n
                                 /\ Cardinality(Added(0, Len(feed))) = n
<1>1. PICK n \in 0..MaxTxns : Added(0, Len(feed)) = 1..n
  BY DEF FeedOK
<1>2. Cardinality(1..n) = n
  <2>1. Cardinality(1..n) = IF 1 > n THEN 0 ELSE n - 1 + 1
    BY FS_Interval
  <2> QED BY <2>1
<1> QED BY <1>1, <1>2

--------------------------------------------------------------------------------
(* Frames.                                                                   *)

LEMMA IdleTask == Idle \in Task /\ Idle.pc = "idle" /\ Idle.upto = 0
<1>1. {} \in SUBSET Txns
  OBVIOUS
<1> QED BY <1>1 DEF Idle, Task

\* The bank adds to the log: nothing a run relies on is about the end of it.
LEMMA BankKeeps ==
    ASSUME IInv, BankAdds \/ \E t \in Txns : BankRemoves(t)
    PROVE  IInv'
<1>0. /\ UNCHANGED <<active, accounts, cursor, fresh, rows, lock, task, faults, early, mixed>>
      /\ TypeOK /\ FeedOK /\ Len(feed) < MaxFeed
  BY DEF IInv, BankAdds, BankRemoves, connection, history
<1>1. PICK n \in 0..MaxTxns : Added(0, Len(feed)) = 1..n /\ Cardinality(Added(0, Len(feed))) = n
  BY <1>0, NextIsNew
<1>2. PICK c \in Change :
         /\ feed' = Append(feed, c)
         /\ \/ c.op = "add" /\ c.txn = n + 1
            \/ c.op = "remove" /\ c.txn \in BankHas
  <2>1. CASE BankAdds
    <3>1. [op |-> "add", txn |-> n + 1] \in Change
      BY <1>1, <2>1 DEF BankAdds, Change
    <3> QED BY <1>1, <2>1, <3>1 DEF BankAdds
  <2>2. ASSUME NEW t \in Txns, BankRemoves(t)
        PROVE  \E c \in Change : feed' = Append(feed, c) /\ c.op = "remove" /\ c.txn \in BankHas
    <3>1. [op |-> "remove", txn |-> t] \in Change
      BY DEF Change
    <3> QED BY <2>2, <3>1 DEF BankRemoves
  <2> QED BY <2>1, <2>2
<1>3. /\ feed' \in Seq(Change) /\ Len(feed) \in Nat /\ Len(feed') = Len(feed) + 1
      /\ \A k \in 1..Len(feed) : feed'[k] = feed[k]
      /\ feed'[Len(feed) + 1] = c
  BY <1>0, <1>2, Appended
<1>4. /\ \A i \in Nat, j \in 0..Len(feed) :
            Added(i, j)' = Added(i, j) /\ Removed(i, j)' = Removed(i, j)
      /\ Added(0, Len(feed))' = Added(0, Len(feed)) \cup (IF c.op = "add" THEN {c.txn} ELSE {})
      /\ Removed(0, Len(feed))' =
            Removed(0, Len(feed)) \cup (IF c.op = "remove" THEN {c.txn} ELSE {})
  BY <1>0, <1>2, ChangedAppend DEF Added, Removed
<1>5. TypeOK'
  <2>1. Len(feed') <= MaxFeed /\ cursor' \in 0..Len(feed') /\ feed' \in Seq(Change)
    BY <1>0, <1>3 DEF TypeOK
  <2>2. \A r \in Runs : task'[r].upto <= Len(feed')
    <3>1. \A r \in Runs : task[r].upto \in Nat /\ task[r].upto <= Len(feed)
      BY <1>0 DEF TypeOK, Task
    <3> QED BY <1>0, <1>3, <3>1
  <2> QED BY <1>0, <2>1, <2>2 DEF TypeOK
<1>6. FeedOK'
  <2>1. \E m \in 0..MaxTxns : Added(0, Len(feed))' = 1..m
    <3>1. CASE c.op = "add"
      <4>1. c.txn = n + 1 /\ c.txn \in 1..MaxTxns
        BY <1>2, <3>1 DEF Change, Txns
      <4>2. 1..(n + 1) = 1..n \cup {n + 1}
        OBVIOUS
      <4>3. Added(0, Len(feed))' = 1..(n + 1)
        BY <1>1, <1>4, <3>1, <4>1, <4>2
      <4> QED BY <4>1, <4>3
    <3>2. CASE c.op # "add"
      BY <1>1, <1>4, <3>2
    <3> QED BY <3>1, <3>2
  <2>2. Removed(0, Len(feed))' \subseteq Added(0, Len(feed))'
    BY <1>0, <1>2, <1>4 DEF FeedOK, BankHas
  <2>3. ASSUME NEW j \in 1..Len(feed'), NEW k \in 1..Len(feed'),
               feed'[j].op = "remove", feed'[k].op = "add", feed'[j].txn = feed'[k].txn
        PROVE  k < j
    <3>1. CASE j = Len(feed) + 1
      <4>1. k # j
        BY <2>3
      <4> QED BY <1>3, <3>1, <4>1
    <3>2. CASE j \in 1..Len(feed) /\ k \in 1..Len(feed)
      BY <1>0, <1>3, <2>3, <3>2 DEF FeedOK
    <3>3. CASE j \in 1..Len(feed) /\ k = Len(feed) + 1
      <4>1. c.op = "add" /\ c.txn = n + 1 /\ feed[j].txn = n + 1 /\ feed[j].op = "remove"
        BY <1>2, <1>3, <2>3, <3>3
      <4>2. feed[j].txn \in Removed(0, Len(feed))
        BY <3>3, <4>1 DEF Removed, Changed
      <4> QED BY <1>0, <1>1, <4>1, <4>2 DEF FeedOK
    <3> QED BY <1>3, <3>1, <3>2, <3>3
  <2> QED BY <2>1, <2>2, <2>3 DEF FeedOK
<1>7. SyncOK'
  <2> SUFFICES ASSUME ~early, ~mixed PROVE Solo' /\ Honest' /\ \A r \in Runs : Progress(task[r])'
    BY <1>0 DEF SyncOK
  <2>1. Solo /\ Honest /\ \A r \in Runs : Progress(task[r])
    BY DEF IInv, SyncOK
  <2>2. cursor \in 0..Len(feed) /\ cursor \in Nat
    BY <1>0, <1>3 DEF TypeOK
  <2>3. Solo'
    BY <1>0, <2>1 DEF Solo, Applying, Pulling, At
  <2>4. Honest'
    <3>1. Added(0, cursor) \subseteq 1..n
      BY <1>0, <1>1, <2>2, ChangedSub DEF Added
    <3>2. 1..n \cap BankHas' \subseteq BankHas
      BY <1>1, <1>2, <1>4 DEF BankHas
    <3>3. Added(0, cursor)' = Added(0, cursor) /\ Removed(0, cursor)' = Removed(0, cursor)
      BY <1>0, <1>4, <2>2
    <3> QED BY <1>0, <2>1, <3>1, <3>2, <3>3 DEF Honest
  <2>5. ASSUME NEW r \in Runs PROVE Progress(task[r])'
    <3>1. task'[r] = task[r] /\ task[r].upto \in 0..Len(feed)
      BY <1>0, <1>3 DEF TypeOK, Task
    <3>2. /\ Added(cursor, task[r].upto)' = Added(cursor, task[r].upto)
          /\ Removed(cursor, task[r].upto)' = Removed(cursor, task[r].upto)
          /\ Removed(0, cursor)' = Removed(0, cursor)
      BY <1>0, <1>4, <2>2, <3>1
    <3> QED BY <1>0, <2>1, <3>1, <3>2 DEF Progress
  <2> QED BY <2>3, <2>4, <2>5
<1> QED BY <1>5, <1>6, <1>7 DEF IInv

\* A step of run r, after which it holds u: the others' types and the feed are
\* as they were, and r must know about u what it needs.
LEMMA RunFrame ==
    ASSUME IInv, NEW r \in Runs, NEW u \in Task, u.upto <= Len(feed), feed' = feed,
           task' = [task EXCEPT ![r] = u],
           early => early', mixed => mixed',
           ~early' /\ ~mixed' =>
             /\ u.pc \in {"upsert", "delete", "save"} =>
                   \A q \in Runs \ {r} : ~Applying(q) /\ ~Pulling(q)
             /\ u.pc = "pull" => \A q \in Runs \ {r} : ~Applying(q)
             /\ Honest' /\ Progress(u)'
             /\ \A q \in Runs \ {r} : Progress(task[q])'
    PROVE  /\ task' \in [Runs -> Task] /\ \A q \in Runs : task'[q].upto <= Len(feed')
           /\ FeedOK' /\ SyncOK'
<1>0. TypeOK /\ FeedOK /\ SyncOK
  BY DEF IInv
<1>1. /\ task' \in [Runs -> Task]
      /\ task'[r] = u /\ \A q \in Runs \ {r} : task'[q] = task[q]
  BY <1>0 DEF TypeOK
<1>2. \A q \in Runs : task'[q].upto <= Len(feed')
  BY <1>0, <1>1 DEF TypeOK
<1>3. FeedOK'
  BY <1>0, ChangedSame
<1>4. SyncOK'
  <2> SUFFICES ASSUME ~early', ~mixed' PROVE Solo' /\ Honest' /\ \A q \in Runs : Progress(task[q])'
    BY DEF SyncOK
  <2>1. Solo
    BY <1>0 DEF SyncOK
  <2>2. ASSUME NEW q \in Runs, NEW p \in Runs, Applying(q)', Applying(p)' \/ Pulling(p)'
        PROVE  p = q
    <3>1. CASE q = r /\ p # r
      BY <1>1, <2>2, <3>1 DEF Applying, Pulling, At
    <3>2. CASE q # r /\ p = r
      BY <1>1, <2>2, <3>2 DEF Applying, Pulling, At
    <3>3. CASE q # r /\ p # r
      BY <1>1, <2>1, <2>2, <3>3 DEF Solo, Applying, Pulling, At
    <3> QED BY <3>1, <3>2, <3>3
  <2>3. \A q \in Runs : Progress(task[q])'
    <3>1. Progress(task[r])'
      BY <1>1 DEF Progress
    <3> QED BY <3>1
  <2> QED BY <2>2, <2>3 DEF Solo
<1> QED BY <1>1, <1>2, <1>3, <1>4

\* What the others hold survives a write of r: while r applies changes they do
\* neither that nor pull, and while it pulls it takes nothing away.
LEMMA OthersKeep ==
    ASSUME IInv, ~early, ~mixed, NEW r \in Runs, feed' = feed,
           \A q \in Runs \ {r} : task'[q] = task[q],
           \/ cursor' = cursor /\ rows' = rows
           \/ Applying(r)
           \/ Pulling(r) /\ cursor' = cursor
    PROVE  \A q \in Runs \ {r} : Progress(task[q])'
<1> SUFFICES ASSUME NEW q \in Runs \ {r} PROVE Progress(task[q])'
  OBVIOUS
<1>1. Solo /\ Progress(task[q]) /\ task'[q] = task[q]
  BY DEF IInv, SyncOK
<1>2. \A i, j : Added(i, j)' = Added(i, j) /\ Removed(i, j)' = Removed(i, j)
  BY ChangedSame DEF IInv
<1>3. CASE Applying(r)
  <2>1. ~Applying(q) /\ ~Pulling(q)
    BY <1>1, <1>3 DEF Solo
  <2> QED BY <1>1, <2>1 DEF Progress, Applying, Pulling, At
<1>4. CASE Pulling(r) /\ cursor' = cursor
  <2>1. ~Applying(q)
    BY <1>1, <1>4 DEF Solo
  <2> QED BY <1>1, <1>2, <1>4, <2>1 DEF Progress, Applying, Pulling, At
<1>5. CASE cursor' = cursor /\ rows' = rows
  BY <1>1, <1>2, <1>5 DEF Progress
<1> QED BY <1>3, <1>4, <1>5

\* A step of run r that leaves the rows and the cursor alone, and begins to
\* apply nothing.
LEMMA QuietFrame ==
    ASSUME IInv, NEW r \in Runs, NEW u \in Task, u.upto <= Len(feed),
           u.pc \notin {"upsert", "delete", "save", "pull"},
           task' = [task EXCEPT ![r] = u],
           UNCHANGED <<feed, accounts, cursor, rows, early, mixed>>,
           active' \in BOOLEAN, fresh' \in BOOLEAN, lock' \in Runs \cup {Nobody},
           faults' \in 0..MaxFaults
    PROVE  IInv'
<1>1. \A q \in Runs \ {r} : task'[q] = task[q]
  BY DEF IInv, TypeOK
<1>2. ~early' /\ ~mixed' => Honest' /\ Progress(u)' /\ \A q \in Runs \ {r} : Progress(task[q])'
  <2> SUFFICES ASSUME ~early, ~mixed
               PROVE  Honest' /\ Progress(u)' /\ \A q \in Runs \ {r} : Progress(task[q])'
    OBVIOUS
  <2>1. Honest'
    BY ChangedSame DEF IInv, SyncOK, Honest
  <2>2. \A q \in Runs \ {r} : Progress(task[q])'
    BY <1>1, OthersKeep
  <2> QED BY <2>1, <2>2 DEF Progress
<1>3. task' \in [Runs -> Task] /\ (\A q \in Runs : task'[q].upto <= Len(feed')) /\ FeedOK' /\ SyncOK'
  BY <1>2, RunFrame
<1>4. TypeOK'
  BY <1>3 DEF IInv, TypeOK
<1> QED BY <1>3, <1>4 DEF IInv

LEMMA ReleaseType == ASSUME TypeOK, NEW r \in Runs, Release(r) PROVE lock' \in Runs \cup {Nobody}
BY DEF TypeOK, Release

LEMMA FaultType == ASSUME TypeOK, Fault PROVE faults' \in 0..MaxFaults
<1>1. faults \in Nat /\ faults < MaxFaults /\ faults' = faults + 1
  BY DEF TypeOK, Fault
<1> QED BY <1>1

LEMMA EndFrame ==
    ASSUME IInv, NEW r \in Runs, End(r), UNCHANGED <<feed, accounts, cursor, rows, early, mixed>>,
           active' \in BOOLEAN, fresh' \in BOOLEAN, faults' \in 0..MaxFaults
    PROVE  IInv'
<1>1. task' = [task EXCEPT ![r] = Idle] /\ lock' \in Runs \cup {Nobody}
  BY ReleaseType DEF End, IInv
<1>2. Idle.upto <= Len(feed) /\ Idle \in Task /\ Idle.pc = "idle"
  BY IdleTask DEF IInv, TypeOK
<1> QED BY <1>1, <1>2, QuietFrame

\* A run that goes on to a step at which it holds nothing.
LEMMA GoFrame ==
    ASSUME IInv, NEW r \in Runs, NEW l \in {"fetch", "stamp"}, Go(r, l),
           UNCHANGED <<feed, connection, rows, faults, history>>, lock' \in Runs \cup {Nobody}
    PROVE  IInv'
<1>1. PICK u : u = [task[r] EXCEPT !.pc = l]
  OBVIOUS
<1>2. u \in Task /\ u.pc = l /\ u.upto <= Len(feed)
  BY <1>1 DEF IInv, TypeOK, Task
<1>3. task' = [task EXCEPT ![r] = u]
  BY <1>1 DEF Go
<1>4. /\ UNCHANGED <<feed, accounts, cursor, rows, early, mixed>>
      /\ active' \in BOOLEAN /\ fresh' \in BOOLEAN /\ faults' \in 0..MaxFaults
  BY DEF connection, history, IInv, TypeOK
<1> QED BY <1>2, <1>3, <1>4, QuietFrame

--------------------------------------------------------------------------------
(* The initial states, and a lemma for each operation.                       *)

LEMMA InitInvariant == Init => IInv
<1> SUFFICES ASSUME Init PROVE IInv
  OBVIOUS
<1>1. feed = <<>> /\ feed \in Seq(Change) /\ Len(feed) = 0
  BY DEF Init
<1>2. TypeOK
  <2>1. task \in [Runs -> Task] /\ \A r \in Runs : task[r].upto <= Len(feed)
    BY <1>1, IdleTask DEF Init
  <2>2. Len(feed) <= MaxFeed /\ cursor \in 0..Len(feed) /\ faults \in 0..MaxFaults
    BY <1>1 DEF Init
  <2> QED BY <1>1, <2>1, <2>2 DEF Init, TypeOK
<1>3. Added(0, 0) = {} /\ Removed(0, 0) = {}
  BY DEF Added, Removed, Changed
<1>4. FeedOK
  <2>1. 1..0 = {} /\ 0 \in 0..MaxTxns
    OBVIOUS
  <2> QED BY <1>1, <1>3, <2>1 DEF FeedOK
<1>5. SyncOK
  BY <1>3, IdleTask DEF Init, SyncOK, Solo, Honest, Progress, Applying, BankHas
<1> QED BY <1>2, <1>4, <1>5 DEF IInv

\* The accounts, the connection, the clock and a lock that is lost.
LEMMA ConnectionKeeps ==
    ASSUME IInv, StoreAccounts \/ Disconnect \/ Stale \/ LoseLock
    PROVE  IInv'
<1>1. UNCHANGED <<feed, cursor, rows, task, early, mixed>>
  BY DEF StoreAccounts, Disconnect, Stale, LoseLock, connection, history
<1>2. TypeOK'
  <2>1. faults' \in 0..MaxFaults
    BY FaultType DEF StoreAccounts, Disconnect, Stale, LoseLock, IInv, TypeOK
  <2>2. /\ active' \in BOOLEAN /\ accounts' \in BOOLEAN /\ fresh' \in BOOLEAN
        /\ lock' \in Runs \cup {Nobody}
    BY DEF StoreAccounts, Disconnect, Stale, LoseLock, connection, IInv, TypeOK
  <2> QED BY <1>1, <2>1, <2>2 DEF IInv, TypeOK
<1>3. FeedOK'
  BY <1>1, ChangedSame DEF IInv
<1>4. SyncOK'
  <2>1. \A i, j : Added(i, j)' = Added(i, j) /\ Removed(i, j)' = Removed(i, j)
    BY <1>1, ChangedSame DEF IInv
  <2>2. BankHas' = BankHas
    BY <1>1, ChangedSame DEF IInv
  <2> QED BY <1>1, <2>1, <2>2 DEF IInv, SyncOK, Solo, Honest, Progress, Applying, Pulling, At
<1> QED BY <1>2, <1>3, <1>4 DEF IInv

LEMMA LockKeeps ==
    ASSUME IInv, NEW r \in Runs, StartSync(r) \/ TryLock(r) \/ Match(r) \/ Stamp(r) \/ Fail(r)
    PROVE  IInv'
<1>0. TypeOK
  BY DEF IInv
<1>1. CASE StartSync(r)
  <2>1. PICK u : u = [Idle EXCEPT !.pc = "lock", !.from = cursor]
    OBVIOUS
  <2>2. u \in Task /\ u.pc = "lock" /\ u.upto <= Len(feed)
    <3>1. cursor \in Nat /\ Len(feed) \in Nat
      BY <1>0 DEF TypeOK
    <3>2. u \in Task /\ u.pc = "lock" /\ u.upto = 0
      BY <2>1, <3>1, IdleTask DEF Task
    <3> QED BY <3>1, <3>2
  <2>3. /\ task' = [task EXCEPT ![r] = u]
        /\ UNCHANGED <<feed, active, accounts, cursor, fresh, rows, lock, faults, early, mixed>>
    BY <1>1, <2>1 DEF StartSync, connection, history
  <2>4. /\ active' \in BOOLEAN /\ fresh' \in BOOLEAN /\ lock' \in Runs \cup {Nobody}
        /\ faults' \in 0..MaxFaults
    BY <1>0, <2>3 DEF TypeOK
  <2> QED BY <2>2, <2>3, <2>4, QuietFrame
<1>2. CASE TryLock(r)
  <2>1. CASE lock = Nobody
    BY <1>2, <2>1, GoFrame DEF TryLock
  <2>2. CASE lock # Nobody
    <3>1. End(r) /\ UNCHANGED <<feed, active, accounts, cursor, fresh, rows, faults, early, mixed>>
      BY <1>2, <2>2 DEF TryLock, connection, history
    <3>2. active' \in BOOLEAN /\ fresh' \in BOOLEAN /\ faults' \in 0..MaxFaults
      BY <1>0, <3>1 DEF TypeOK
    <3> QED BY <3>1, <3>2, EndFrame
  <2> QED BY <2>1, <2>2
<1>3. ASSUME Match(r) \/ Stamp(r) \/ Fail(r) PROVE IInv'
  <2>1. End(r) /\ UNCHANGED <<feed, accounts, cursor, rows, early, mixed>>
    BY <1>3 DEF Match, Stamp, Fail, connection, history
  <2>2. active' \in BOOLEAN /\ fresh' \in BOOLEAN
    BY <1>0, <1>3 DEF Match, Stamp, Fail, connection, TypeOK
  <2>3. faults' \in 0..MaxFaults
    BY <1>0, <1>3, FaultType DEF Match, Stamp, Fail, TypeOK
  <2> QED BY <2>1, <2>2, <2>3, EndFrame
<1> QED BY <1>1, <1>2, <1>3

\* Another writer beside it, a stale cursor or missing accounts are remembered:
\* what is fetched otherwise is all that lies behind the cursor.
LEMMA FetchKeeps ==
    ASSUME IInv, NEW r \in Runs, Fetch(r) \/ StartPull(r)
    PROVE  IInv'
<1>0. /\ TypeOK /\ task[r] \in Task /\ Len(feed) \in Nat /\ cursor \in 0..Len(feed)
      /\ UNCHANGED <<feed, active, accounts, cursor, fresh, rows, lock, faults>>
      /\ (early => early') /\ (mixed => mixed')
  <2>1. TypeOK /\ task[r] \in Task /\ Len(feed) \in Nat /\ cursor \in 0..Len(feed)
    BY DEF IInv, TypeOK
  <2>2. CASE Fetch(r)
    BY <2>1, <2>2 DEF Fetch, connection
  <2>3. CASE StartPull(r)
    BY <2>1, <2>3 DEF StartPull, connection
  <2> QED BY <2>1, <2>2, <2>3
<1>b. early' \in BOOLEAN /\ mixed' \in BOOLEAN
  BY DEF Fetch, StartPull
<1>1. ASSUME NEW u \in Task, u.upto <= Len(feed), task' = [task EXCEPT ![r] = u],
             ~early' /\ ~mixed' =>
               /\ u.pc \in {"upsert", "delete", "save"} =>
                     \A q \in Runs \ {r} : ~Applying(q) /\ ~Pulling(q)
               /\ u.pc = "pull" => \A q \in Runs \ {r} : ~Applying(q)
               /\ Progress(u)
      PROVE  IInv'
  <2>1. \A q \in Runs \ {r} : task'[q] = task[q]
    BY <1>0, <1>1 DEF TypeOK
  <2>2. ~early' /\ ~mixed' => Honest' /\ Progress(u)' /\ \A q \in Runs \ {r} : Progress(task[q])'
    <3> SUFFICES ASSUME ~early', ~mixed'
                 PROVE  Honest' /\ Progress(u)' /\ \A q \in Runs \ {r} : Progress(task[q])'
      OBVIOUS
    <3>1. ~early /\ ~mixed
      BY <1>0
    <3>2. Honest'
      BY <1>0, <3>1, ChangedSame DEF IInv, SyncOK, Honest
    <3>3. Progress(u)'
      BY <1>0, <1>1, ChangedSame DEF Progress
    <3>4. \A q \in Runs \ {r} : Progress(task[q])'
      BY <1>0, <2>1, <3>1, OthersKeep
    <3> QED BY <3>2, <3>3, <3>4
  <2>3. task' \in [Runs -> Task] /\ (\A q \in Runs : task'[q].upto <= Len(feed')) /\ FeedOK' /\ SyncOK'
    BY <1>0, <1>1, <2>2, RunFrame
  <2>4. TypeOK'
    BY <1>0, <1>b, <2>3 DEF TypeOK
  <2> QED BY <2>3, <2>4 DEF IInv
<1>2. CASE Fetch(r)
  <2>1. PICK u : u = [task[r] EXCEPT !.pc = "upsert", !.upto = Len(feed),
                            !.adds = IF accounts THEN Added(task[r].from, Len(feed)) ELSE {},
                            !.gone = Removed(task[r].from, Len(feed))]
    OBVIOUS
  <2>2. /\ Added(task[r].from, Len(feed)) \subseteq Txns
        /\ Removed(task[r].from, Len(feed)) \subseteq Txns
    BY <1>0, ChangedType DEF Added, Removed, Task
  <2>3. /\ u \in Task /\ u.pc = "upsert" /\ u.upto = Len(feed) /\ u.from = task[r].from
        /\ u.adds = (IF accounts THEN Added(task[r].from, Len(feed)) ELSE {})
        /\ u.gone = Removed(task[r].from, Len(feed))
    BY <1>0, <2>1, <2>2 DEF Task
  <2>4. task' = [task EXCEPT ![r] = u]
    BY <1>2, <2>1 DEF Fetch
  <2>5. ASSUME ~early', ~mixed'
        PROVE  (\A q \in Runs \ {r} : ~Applying(q) /\ ~Pulling(q)) /\ Progress(u)
    <3>1. /\ accounts /\ task[r].from = cursor
          /\ \A q \in Runs \ {r} : ~Applying(q) /\ ~Pulling(q)
      BY <1>2, <2>5 DEF Fetch
    <3>2. cursor <= Len(feed)
      BY <1>0
    <3> QED BY <2>3, <3>1, <3>2 DEF Progress
  <2>6. u.upto <= Len(feed)
    BY <1>0, <2>3
  <2> QED BY <1>1, <2>3, <2>4, <2>5, <2>6
<1>3. CASE StartPull(r)
  <2>0. PICK since \in 1..(MaxTxns + 1) :
           task' = [task EXCEPT ![r] =
             [Idle EXCEPT !.pc = "pull",
                          !.adds = IF accounts THEN {t \in BankHas : t >= since} ELSE {}]]
    BY <1>3 DEF StartPull
  <2>1. PICK u : u = [Idle EXCEPT !.pc = "pull",
                          !.adds = IF accounts THEN {t \in BankHas : t >= since} ELSE {}]
    OBVIOUS
  <2>2. BankHas \subseteq Txns
    BY <1>0, ChangedType DEF BankHas, Added
  <2>3. /\ u \in Task /\ u.pc = "pull" /\ u.upto = 0 /\ u.adds \subseteq BankHas
    BY <2>1, <2>2, IdleTask DEF Task
  <2>4. task' = [task EXCEPT ![r] = u]
    BY <2>0, <2>1
  <2>5. Removed(0, cursor) \subseteq Removed(0, Len(feed))
    BY <1>0, ChangedSub DEF Removed
  <2>6. Progress(u)
    BY <2>3, <2>5 DEF Progress, BankHas
  <2>7. ~mixed' => \A q \in Runs \ {r} : ~Applying(q)
    BY <1>3 DEF StartPull
  <2>8. u.upto <= Len(feed)
    BY <1>0, <2>3
  <2> QED BY <1>1, <2>3, <2>4, <2>6, <2>7, <2>8
<1> QED BY <1>2, <1>3

\* A write of a run that is the only one to apply changes, or of a pull.
LEMMA WriteFrame ==
    ASSUME IInv, NEW r \in Runs, NEW u \in Task, u.upto = task[r].upto,
           task' = [task EXCEPT ![r] = u],
           UNCHANGED <<feed, connection, lock, faults, history>>, rows' \subseteq Txns,
           \/ Applying(r) /\ u.pc \in {"upsert", "delete", "save"}
           \/ Pulling(r) /\ u.pc = "pull",
           ~early /\ ~mixed /\ Honest /\ Progress(task[r]) => Honest' /\ Progress(u)'
    PROVE  IInv'
<1>0. /\ UNCHANGED <<active, accounts, cursor, fresh, early, mixed, feed, lock, faults>>
      /\ TypeOK /\ u.upto <= Len(feed)
  BY DEF connection, history, IInv, TypeOK
<1>1. \A q \in Runs \ {r} : task'[q] = task[q]
  BY <1>0 DEF TypeOK
<1>2. ASSUME ~early', ~mixed'
      PROVE  /\ u.pc \in {"upsert", "delete", "save"} =>
                   \A q \in Runs \ {r} : ~Applying(q) /\ ~Pulling(q)
             /\ u.pc = "pull" => \A q \in Runs \ {r} : ~Applying(q)
             /\ Honest' /\ Progress(u)'
             /\ \A q \in Runs \ {r} : Progress(task[q])'
  <2>1. ~early /\ ~mixed
    BY <1>0, <1>2
  <2>2. Solo /\ Honest /\ Progress(task[r])
    BY <2>1 DEF IInv, SyncOK
  <2>3. /\ u.pc \in {"upsert", "delete", "save"} => \A q \in Runs \ {r} : ~Applying(q) /\ ~Pulling(q)
        /\ u.pc = "pull" => \A q \in Runs \ {r} : ~Applying(q)
    BY <2>2 DEF Solo
  <2>4. \A q \in Runs \ {r} : Progress(task[q])'
    BY <1>0, <1>1, <2>1, OthersKeep
  <2> QED BY <2>1, <2>2, <2>3, <2>4
<1>3. task' \in [Runs -> Task] /\ (\A q \in Runs : task'[q].upto <= Len(feed')) /\ FeedOK' /\ SyncOK'
  BY <1>0, <1>2, RunFrame
<1>4. TypeOK'
  BY <1>0, <1>3 DEF TypeOK
<1> QED BY <1>3, <1>4 DEF IInv

LEMMA UpsertKeeps ==
    ASSUME IInv, NEW r \in Runs, Upsert(r)
    PROVE  IInv'
<1>0. /\ TypeOK /\ FeedOK /\ task[r] \in Task /\ task[r].pc = "upsert" /\ Applying(r)
      /\ cursor \in 0..Len(feed) /\ task[r].upto \in 0..Len(feed)
      /\ UNCHANGED <<feed, connection, lock, faults, history>> /\ cursor' = cursor
  BY DEF Upsert, At, Applying, IInv, TypeOK, Task, connection
<1>a. /\ \A i, j : Added(i, j)' = Added(i, j) /\ Removed(i, j)' = Removed(i, j)
      /\ BankHas' = BankHas
  BY <1>0, ChangedSame
<1>1. CASE task[r].adds = {} /\ Go(r, "delete") /\ UNCHANGED rows
  <2>1. PICK u : u = [task[r] EXCEPT !.pc = "delete"]
    OBVIOUS
  <2>2. /\ u \in Task /\ u.pc = "delete" /\ u.from = task[r].from /\ u.upto = task[r].upto
        /\ u.gone = task[r].gone
    BY <1>0, <2>1 DEF Task
  <2>3. task' = [task EXCEPT ![r] = u] /\ rows' \subseteq Txns
    BY <1>0, <1>1, <2>1 DEF Go, TypeOK
  <2>4. Honest /\ Progress(task[r]) => Honest' /\ Progress(u)'
    BY <1>0, <1>a, <1>1, <2>2 DEF Honest, Progress
  <2> QED BY <1>0, <2>2, <2>3, <2>4, WriteFrame
<1>2. ASSUME NEW t \in task[r].adds, rows' = rows \cup {t},
             task' = [task EXCEPT ![r].adds = @ \ {t}]
      PROVE  IInv'
  <2>1. PICK u : u = [task[r] EXCEPT !.adds = @ \ {t}]
    OBVIOUS
  <2>2. /\ u \in Task /\ u.pc = "upsert" /\ u.from = task[r].from /\ u.upto = task[r].upto
        /\ u.gone = task[r].gone /\ u.adds = task[r].adds \ {t}
    BY <1>0, <2>1 DEF Task
  <2>3. task' = [task EXCEPT ![r] = u] /\ rows' \subseteq Txns
    BY <1>0, <1>2, <2>1 DEF Task, TypeOK
  <2>4. ASSUME Honest, Progress(task[r]) PROVE Honest' /\ Progress(u)'
    <3>1. t \in Added(cursor, task[r].upto)
      BY <1>0, <1>2, <2>4 DEF Progress
    <3>2. t \notin Removed(0, cursor)
      BY <1>0, <3>1, NoReturn
    <3>3. Honest'
      BY <1>0, <1>a, <1>2, <2>4, <3>2 DEF Honest
    <3>4. Progress(u)'
      BY <1>0, <1>a, <1>2, <2>2, <2>4 DEF Progress
    <3> QED BY <3>3, <3>4
  <2> QED BY <1>0, <2>2, <2>3, <2>4, WriteFrame
<1> QED BY <1>1, <1>2 DEF Upsert

LEMMA DeleteKeeps ==
    ASSUME IInv, NEW r \in Runs, Delete(r)
    PROVE  IInv'
<1>0. /\ TypeOK /\ FeedOK /\ task[r] \in Task /\ task[r].pc = "delete" /\ Applying(r)
      /\ Len(feed) \in Nat /\ cursor \in 0..Len(feed) /\ task[r].upto \in 0..Len(feed)
      /\ UNCHANGED <<feed, connection, lock, faults, history>> /\ cursor' = cursor
      /\ rows' = rows \ task[r].gone
  BY DEF Delete, At, Applying, IInv, TypeOK, Task, connection
<1>a. /\ \A i, j : Added(i, j)' = Added(i, j) /\ Removed(i, j)' = Removed(i, j)
      /\ BankHas' = BankHas
  BY <1>0, ChangedSame
<1>1. PICK u : u = [task[r] EXCEPT !.pc = "save"]
  OBVIOUS
<1>2. /\ u \in Task /\ u.pc = "save" /\ u.from = task[r].from /\ u.upto = task[r].upto
      /\ u.gone = task[r].gone
  BY <1>0, <1>1 DEF Task
<1>3. task' = [task EXCEPT ![r] = u] /\ rows' \subseteq Txns
  BY <1>0, <1>1 DEF Delete, Go, TypeOK
<1>4. ASSUME Honest, Progress(task[r]) PROVE Honest' /\ Progress(u)'
  <2>1. task[r].gone \cap BankHas = {}
    <3>1. task[r].gone = Removed(cursor, task[r].upto)
      BY <1>0, <1>4 DEF Progress
    <3>2. Removed(cursor, task[r].upto) \subseteq Removed(0, Len(feed))
      BY <1>0, ChangedSub DEF Removed
    <3> QED BY <3>1, <3>2 DEF BankHas
  <2>2. Honest'
    BY <1>0, <1>a, <1>4, <2>1 DEF Honest
  <2>3. Progress(u)'
    BY <1>0, <1>a, <1>2, <1>4 DEF Progress
  <2> QED BY <2>2, <2>3
<1> QED BY <1>0, <1>2, <1>3, <1>4, WriteFrame

LEMMA PullKeeps ==
    ASSUME IInv, NEW r \in Runs, Pull(r)
    PROVE  IInv'
<1>0. /\ TypeOK /\ task[r] \in Task /\ task[r].pc = "pull" /\ Pulling(r)
      /\ UNCHANGED <<feed, connection, lock, faults, history>> /\ cursor' = cursor
  BY DEF Pull, At, Pulling, IInv, TypeOK, connection
<1>1. CASE task[r].adds = {} /\ Go(r, "stamp") /\ UNCHANGED rows
  <2>1. lock' \in Runs \cup {Nobody}
    BY <1>0 DEF TypeOK
  <2> QED BY <1>0, <1>1, <2>1, GoFrame
<1>2. ASSUME NEW t \in task[r].adds, rows' = rows \cup {t},
             task' = [task EXCEPT ![r].adds = @ \ {t}]
      PROVE  IInv'
  <2>1. PICK u : u = [task[r] EXCEPT !.adds = @ \ {t}]
    OBVIOUS
  <2>2. u \in Task /\ u.pc = "pull" /\ u.upto = task[r].upto /\ u.adds = task[r].adds \ {t}
    BY <1>0, <2>1 DEF Task
  <2>3. task' = [task EXCEPT ![r] = u] /\ rows' \subseteq Txns
    BY <1>0, <1>2, <2>1 DEF Task, TypeOK
  <2>4. ASSUME Honest, Progress(task[r]) PROVE Honest' /\ Progress(u)'
    <3>1. /\ \A i, j : Added(i, j)' = Added(i, j) /\ Removed(i, j)' = Removed(i, j)
          /\ BankHas' = BankHas
      BY <1>0, ChangedSame
    <3>2. task[r].adds \cap Removed(0, cursor) = {}
      BY <1>0, <2>4 DEF Progress
    <3>3. Honest'
      BY <1>0, <1>2, <2>4, <3>1, <3>2 DEF Honest
    <3>4. Progress(u)'
      BY <1>0, <2>2, <3>1, <3>2 DEF Progress
    <3> QED BY <3>3, <3>4
  <2> QED BY <1>0, <2>2, <2>3, <2>4, WriteFrame
<1> QED BY <1>1, <1>2 DEF Pull

\* The cursor is saved when all that lies before its new place is applied.
LEMMA SaveKeeps ==
    ASSUME IInv, NEW r \in Runs, SaveCursor(r)
    PROVE  IInv'
<1>0. /\ TypeOK /\ FeedOK /\ task[r] \in Task /\ task[r].pc = "save" /\ Applying(r)
      /\ Len(feed) \in Nat /\ cursor \in 0..Len(feed) /\ task[r].upto \in 0..Len(feed)
      /\ UNCHANGED <<feed, active, accounts, rows, lock, faults, early, mixed>>
      /\ cursor' = task[r].upto /\ fresh' = TRUE
  BY DEF SaveCursor, At, Applying, IInv, TypeOK, Task, history
<1>a. /\ \A i, j : Added(i, j)' = Added(i, j) /\ Removed(i, j)' = Removed(i, j)
      /\ BankHas' = BankHas
  BY <1>0, ChangedSame
<1>1. PICK u : u = [task[r] EXCEPT !.pc = "match"]
  OBVIOUS
<1>2. u \in Task /\ u.pc = "match" /\ u.upto = task[r].upto
  BY <1>0, <1>1 DEF Task
<1>3. task' = [task EXCEPT ![r] = u] /\ \A q \in Runs \ {r} : task'[q] = task[q]
  BY <1>0, <1>1 DEF SaveCursor, Go, TypeOK
<1>4. ASSUME ~early, ~mixed PROVE Honest' /\ Progress(u)' /\ \A q \in Runs \ {r} : Progress(task[q])'
  <2>1. Honest /\ Progress(task[r])
    BY <1>4 DEF IInv, SyncOK
  <2>2. cursor <= task[r].upto /\ task[r].gone = Removed(cursor, task[r].upto)
    BY <1>0, <2>1 DEF Progress
  <2>3. /\ Added(0, task[r].upto) = Added(0, cursor) \cup Added(cursor, task[r].upto)
        /\ Removed(0, task[r].upto) = Removed(0, cursor) \cup Removed(cursor, task[r].upto)
    <3>1. 0 \in Nat /\ cursor \in Nat /\ task[r].upto \in Nat /\ 0 <= cursor
      BY <1>0
    <3>2. \A op : Changed(op, 0, task[r].upto) =
                     Changed(op, 0, cursor) \cup Changed(op, cursor, task[r].upto)
      BY <2>2, <3>1, ChangedSplit
    <3> QED BY <3>2 DEF Added, Removed
  <2>4. task[r].gone \cap BankHas = {}
    <3>1. Removed(cursor, task[r].upto) \subseteq Removed(0, Len(feed))
      BY <1>0, ChangedSub DEF Removed
    <3> QED BY <2>2, <3>1 DEF BankHas
  <2>5. Added(cursor, task[r].upto) \ task[r].gone \subseteq rows /\ rows \cap task[r].gone = {}
    BY <1>0, <2>1 DEF Progress
  <2>6. Honest'
    BY <1>0, <1>a, <2>1, <2>2, <2>3, <2>4, <2>5 DEF Honest
  <2>7. \A q \in Runs \ {r} : Progress(task[q])'
    BY <1>0, <1>3, <1>4, OthersKeep
  <2> QED BY <1>2, <2>6, <2>7 DEF Progress
<1>5. task' \in [Runs -> Task] /\ (\A q \in Runs : task'[q].upto <= Len(feed')) /\ FeedOK' /\ SyncOK'
  <2>1. u.upto <= Len(feed)
    BY <1>0, <1>2
  <2> QED BY <1>0, <1>2, <1>3, <1>4, <2>1, RunFrame
<1>6. TypeOK'
  BY <1>0, <1>5 DEF TypeOK
<1> QED BY <1>5, <1>6 DEF IInv

LEMMA NextKeeps == IInv /\ [Next]_vars => IInv'
<1> SUFFICES ASSUME IInv, [Next]_vars PROVE IInv'
  OBVIOUS
<1>1. CASE UNCHANGED vars
  <2>1. /\ UNCHANGED <<feed, active, accounts, cursor, fresh, rows, lock, task, faults>>
        /\ UNCHANGED <<early, mixed>>
    BY <1>1 DEF vars
  <2>2. /\ \A i, j : Added(i, j)' = Added(i, j) /\ Removed(i, j)' = Removed(i, j)
        /\ BankHas' = BankHas /\ FeedOK'
    BY <2>1, ChangedSame DEF IInv
  <2>3. TypeOK'
    BY <2>1 DEF IInv, TypeOK
  <2>4. SyncOK'
    BY <2>1, <2>2 DEF IInv, SyncOK, Solo, Honest, Progress, Applying, Pulling, At
  <2> QED BY <2>2, <2>3, <2>4 DEF IInv
<1> QED BY <1>1, BankKeeps, ConnectionKeeps, LockKeeps, FetchKeeps, UpsertKeeps, DeleteKeeps,
           SaveKeeps, PullKeeps DEF Next, Step

--------------------------------------------------------------------------------
(* What follows for every behaviour.                                         *)

\* The log, the runs and the rows agree in every state of the feed.
THEOREM FeedInvariance == Spec => []IInv
BY InitInvariant, NextKeeps, PTL DEF Spec

\* Columns and runs keep their types: no cursor runs past the bank's log.
THEOREM FeedTypes == Spec => []TypeOK
<1>1. IInv => TypeOK
  BY DEF IInv
<1> QED BY <1>1, FeedInvariance, PTL

\* syncOneConnection saves a cursor only over rows it has written and deleted:
\* no failure between them loses a transaction or keeps one that was removed.
THEOREM CursorStaysHonest == Spec => []CursorIsHonest
<1>1. IInv => CursorIsHonest
  BY DEF IInv, SyncOK, Honest, CursorIsHonest
<1> QED BY <1>1, FeedInvariance, PTL

==============================================================================
