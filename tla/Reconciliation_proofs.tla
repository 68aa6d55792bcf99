------------------------ MODULE Reconciliation_proofs ------------------------
(***************************************************************************)
(* Reconciliation: types, OneEntryPerDeposit and EntrySettlesOnce, for any *)
(* deposits, entries, runs and distances.  A run reads which deposits are  *)
(* linked and which entries are pending in trips of its own and never looks *)
(* again.  While it is the only run, what it holds stays true: its own     *)
(* matches take the deposit and the entry out of its hands, and the bank   *)
(* and the owners only ever unlink a deposit or add an entry.              *)
(***************************************************************************)
EXTENDS Reconciliation, TLAPS

USE ReconciliationAssumption

\* The steps at which a run has left out the linked deposits, and those at
\* which the entries it holds were pending.
Unlinked == {"greedy", "auto_entries", "auto_apply", "hand_entry", "hand_apply", "new_entry"}
Held == {"consumed", "greedy", "auto_apply", "hand_apply"}

Alone(r) == ~At(r, "idle") /\ task[r].alone

OthersRest == \A r \in Runs : Alone(r) => \A q \in Runs \ {r} : At(q, "idle")
DepositsFree ==
    \A r \in Runs : Alone(r) /\ task[r].pc \in Unlinked => task[r].credits \cap Consumed = {}
EntriesPending ==
    \A r \in Runs : Alone(r) /\ task[r].pc \in Held => task[r].entries \subseteq Pending

IInv == TypeOK /\ OthersRest /\ DepositsFree /\ EntriesPending

--------------------------------------------------------------------------------
(* Entries and tasks.                                                        *)

LEMMA Numbers == None \notin Deposits
BY DEF None, Deposits

LEMMA IdleTask == Idle \in Task /\ Idle.pc = "idle"
<1>1. {} \in SUBSET Deposits /\ {} \in SUBSET Entries
  OBVIOUS
<1> QED BY <1>1 DEF Idle, Task

\* A match takes one deposit and one entry, and nothing else changes.
LEMMA Settling ==
    ASSUME TypeOK, NEW e \in Entries, NEW d \in rows, Settle(e, d), rows' = rows
    PROVE  /\ entry' \in [Entries -> Entry]
           /\ \A f \in Entries : entry'[f].deposit # None =>
                 entry'[f].state = "settled" /\ entry'[f].deposit \in rows'
           /\ Consumed' \subseteq Consumed \cup {d}
           /\ Pending \ {e} \subseteq Pending'
           /\ entry'[e].deposit = d
           /\ \A f \in Entries \ {e} : entry'[f] = entry[f]
<1>1. d \in Deposits
  BY DEF TypeOK
<1>2. [state |-> "settled", deposit |-> d] \in Entry
  BY <1>1 DEF Entry
<1>3. /\ entry' \in [Entries -> Entry]
      /\ entry'[e] = [state |-> "settled", deposit |-> d]
      /\ \A f \in Entries \ {e} : entry'[f] = entry[f]
  BY <1>2 DEF TypeOK, Settle
<1> QED BY <1>3 DEF TypeOK, Consumed, Pending

\* A step of run r alone: what the other runs hold is of no matter, for they
\* rest as long as r is alone, and are not alone otherwise.
LEMMA RunFrame ==
    ASSUME IInv, NEW r \in Runs, NEW u \in Task, ~At(r, "idle"),
           task' = [task EXCEPT ![r] = u],
           u.alone => task[r].alone \/ u.pc = "idle",
           Alone(r) /\ u.pc \in Unlinked => u.credits \cap Consumed' = {},
           Alone(r) /\ u.pc \in Held => u.entries \subseteq Pending'
    PROVE  task' \in [Runs -> Task] /\ OthersRest' /\ DepositsFree' /\ EntriesPending'
<1>1. task' \in [Runs -> Task] /\ \A q \in Runs : task'[q] = IF q = r THEN u ELSE task[q]
  BY DEF IInv, TypeOK
<1>2. \A q \in Runs \ {r} : ~Alone(q) /\ ~Alone(q)'
  BY <1>1 DEF IInv, OthersRest, Alone, At
<1>3. Alone(r)' => Alone(r)
  BY <1>1 DEF Alone, At
<1>4. OthersRest'
  BY <1>1, <1>2, <1>3 DEF IInv, OthersRest, Alone, At
<1>5. DepositsFree'
  BY <1>1, <1>2, <1>3 DEF DepositsFree, Alone, At, Unlinked
<1>6. EntriesPending'
  BY <1>1, <1>2, <1>3 DEF EntriesPending, Alone, At, Held
<1> QED BY <1>1, <1>4, <1>5, <1>6

\* The same for a step that leaves the ledger alone.
LEMMA ReadFrame ==
    ASSUME IInv, NEW r \in Runs, NEW u \in Task, ~At(r, "idle"),
           task' = [task EXCEPT ![r] = u], UNCHANGED <<rows, withdrawn, entry>>,
           u.alone => task[r].alone \/ u.pc = "idle",
           Alone(r) /\ u.pc \in Unlinked => u.credits \cap Consumed = {},
           Alone(r) /\ u.pc \in Held => u.entries \subseteq Pending
    PROVE  IInv'
<1>1. Consumed' = Consumed /\ Pending' = Pending
  BY DEF Consumed, Pending
<1>2. task' \in [Runs -> Task] /\ OthersRest' /\ DepositsFree' /\ EntriesPending'
  BY <1>1, RunFrame
<1>3. TypeOK'
  BY <1>2 DEF IInv, TypeOK
<1> QED BY <1>2, <1>3 DEF IInv

LEMMA EndFrame ==
    ASSUME IInv, NEW r \in Runs, ~At(r, "idle"), End(r), UNCHANGED <<rows, withdrawn, entry>>
    PROVE  IInv'
BY IdleTask, ReadFrame DEF End, Unlinked, Held

\* A match of deposit d with entry e by run r, after which it holds u.
LEMMA SettleFrame ==
    ASSUME IInv, NEW r \in Runs, NEW u \in Task, ~At(r, "idle"),
           task' = [task EXCEPT ![r] = u], UNCHANGED <<rows, withdrawn>>,
           NEW e \in Entries, NEW d \in rows, Settle(e, d),
           u.alone => task[r].alone \/ u.pc = "idle",
           u.pc = "idle" \/ /\ u.pc = task[r].pc /\ u.pc \in Unlinked
                            /\ u.credits = task[r].credits \ {d}
                            /\ u.entries = task[r].entries \ {e}
    PROVE  IInv'
<1>1. /\ entry' \in [Entries -> Entry]
      /\ \A f \in Entries : entry'[f].deposit # None =>
            entry'[f].state = "settled" /\ entry'[f].deposit \in rows'
      /\ Consumed' \subseteq Consumed \cup {d}
      /\ Pending \ {e} \subseteq Pending'
  BY Settling DEF IInv
<1>2. Alone(r) /\ u.pc \in Unlinked => u.credits \cap Consumed' = {}
  BY <1>1 DEF IInv, DepositsFree, Unlinked
<1>3. Alone(r) /\ u.pc \in Held => u.entries \subseteq Pending'
  BY <1>1 DEF IInv, EntriesPending, Held
<1>4. task' \in [Runs -> Task] /\ OthersRest' /\ DepositsFree' /\ EntriesPending'
  BY <1>2, <1>3, RunFrame
<1>5. TypeOK'
  BY <1>1, <1>4 DEF IInv, TypeOK
<1> QED BY <1>4, <1>5 DEF IInv

\* A run that begins is alone only if no other one is under way, and none that
\* is under way stays alone.
LEMMA BeginFrame ==
    ASSUME IInv, NEW r \in Runs, NEW t \in Task, Begin(r, t), UNCHANGED <<rows, withdrawn, entry>>,
           t.pc \notin Unlinked \cup Held
    PROVE  IInv'
<1> DEFINE u == [t EXCEPT !.alone = Matching = {}]
<1>1. u \in Task /\ u.pc = t.pc /\ (u.alone <=> Matching = {})
  BY DEF Task
<1>2. ASSUME NEW q \in Runs \ {r}
      PROVE  /\ task'[q] \in Task /\ task'[q].pc = task[q].pc
             /\ task'[q].alone => task[q].pc = "idle"
  <2>1. task[q] \in Task /\ task[q].alone \in BOOLEAN
    BY DEF IInv, TypeOK, Task
  <2>2. PICK b \in BOOLEAN : b = (task[q].alone /\ At(q, "idle"))
    OBVIOUS
  <2>3. task'[q] = [task[q] EXCEPT !.alone = b]
    BY <2>2 DEF Begin
  <2>4. task'[q] \in Task /\ task'[q].pc = task[q].pc /\ task'[q].alone = b
    BY <2>1, <2>3 DEF Task
  <2> QED BY <2>2, <2>4 DEF At
<1>3. task'[r] = u
  BY DEF Begin
<1>4. task' \in [Runs -> Task]
  <2>1. task' = [q \in Runs |-> task'[q]]
    BY DEF Begin
  <2> HIDE DEF u
  <2>2. \A q \in Runs : task'[q] \in Task
    BY <1>1, <1>2, <1>3
  <2> QED BY <2>1, <2>2
<1>5. \A q \in Runs \ {r} : ~Alone(q)'
  BY <1>2 DEF Alone, At
<1>6. Alone(r)' => \A q \in Runs \ {r} : At(q, "idle")'
  BY <1>1, <1>2, <1>3 DEF Alone, At, Matching
<1>7. OthersRest' /\ DepositsFree' /\ EntriesPending'
  BY <1>1, <1>3, <1>5, <1>6 DEF OthersRest, DepositsFree, EntriesPending
<1>8. TypeOK'
  BY <1>4 DEF IInv, TypeOK
<1> QED BY <1>7, <1>8 DEF IInv

--------------------------------------------------------------------------------
(* The initial states, and a lemma for each operation.                       *)

LEMMA InitInvariant == Init => IInv
<1> SUFFICES ASSUME Init PROVE IInv
  OBVIOUS
<1>1. TypeOK
  <2>1. [state |-> "absent", deposit |-> None] \in Entry
    BY DEF Entry
  <2> QED BY <2>1, IdleTask DEF Init, TypeOK
<1>2. \A r \in Runs : At(r, "idle")
  BY IdleTask DEF Init, At
<1> QED BY <1>1, <1>2 DEF IInv, OthersRest, DepositsFree, EntriesPending, Alone

\* The bank unlinks deposits and never links one; the owners only add entries.
LEMMA WorldKeeps ==
    ASSUME IInv, (\E d \in Deposits : Arrive(d) \/ Withdraw(d)) \/ \E e \in Entries : Intend(e)
    PROVE  IInv'
<1>1. task' = task
  BY DEF Arrive, Withdraw, Intend
<1>2. TypeOK' /\ Consumed' \subseteq Consumed /\ Pending \subseteq Pending'
  <2>1. ASSUME NEW d \in Deposits, Arrive(d)
        PROVE  TypeOK' /\ Consumed' \subseteq Consumed /\ Pending \subseteq Pending'
    BY <1>1, <2>1 DEF Arrive, IInv, TypeOK, Consumed, Pending
  <2>2. ASSUME NEW d \in Deposits, Withdraw(d)
        PROVE  TypeOK' /\ Consumed' \subseteq Consumed /\ Pending \subseteq Pending'
    <3>1. /\ rows' = rows \ {d} /\ withdrawn' = withdrawn \cup {d}
          /\ entry' = [e \in Entries |-> IF entry[e].deposit = d
                                         THEN [entry[e] EXCEPT !.deposit = None] ELSE entry[e]]
      BY <2>2 DEF Withdraw
    <3>2. \A e \in Entries :
            /\ entry'[e] \in Entry /\ entry'[e].state = entry[e].state
            /\ entry'[e].deposit = IF entry[e].deposit = d THEN None ELSE entry[e].deposit
      BY <3>1 DEF IInv, TypeOK, Entry
    <3>3. entry' \in [Entries -> Entry]
      BY <3>1, <3>2
    <3> QED BY <1>1, <3>1, <3>2, <3>3, Numbers DEF IInv, TypeOK, Consumed, Pending
  <2>3. ASSUME NEW e \in Entries, Intend(e)
        PROVE  TypeOK' /\ Consumed' \subseteq Consumed /\ Pending \subseteq Pending'
    <3>1. /\ entry' = [entry EXCEPT ![e] = [entry[e] EXCEPT !.state = "pending"]]
          /\ entry[e].state = "absent" /\ UNCHANGED <<rows, withdrawn>>
      BY <2>3 DEF Intend
    <3>2. entry[e].deposit = None
      BY <3>1 DEF IInv, TypeOK
    <3>3. /\ [entry[e] EXCEPT !.state = "pending"] \in Entry
          /\ [entry[e] EXCEPT !.state = "pending"].deposit = None
          /\ [entry[e] EXCEPT !.state = "pending"].state = "pending"
      BY <3>2 DEF IInv, TypeOK, Entry
    <3> QED BY <1>1, <3>1, <3>2, <3>3 DEF IInv, TypeOK, Consumed, Pending
  <2> QED BY <2>1, <2>2, <2>3
<1>3. OthersRest'
  BY <1>1 DEF IInv, OthersRest, Alone, At
<1>4. DepositsFree'
  BY <1>1, <1>2 DEF IInv, DepositsFree, Alone, At
<1>5. EntriesPending'
  BY <1>1, <1>2 DEF IInv, EntriesPending, Alone, At
<1> QED BY <1>2, <1>3, <1>4, <1>5 DEF IInv

LEMMA StartKeeps ==
    ASSUME IInv, NEW r \in Runs,
           StartMatcher(r) \/ StartAuto(r) \/ StartByHand(r) \/ StartNew(r)
    PROVE  IInv'
<1>1. ASSUME NEW l \in {"pending", "auto_linked", "hand_linked", "new_linked"},
             NEW C \in SUBSET Deposits, Begin(r, [Idle EXCEPT !.pc = l, !.credits = C]),
             UNCHANGED <<rows, withdrawn, entry>>
      PROVE  IInv'
  <2>1. PICK t : t = [Idle EXCEPT !.pc = l, !.credits = C]
    OBVIOUS
  <2>2. t \in Task /\ t.pc = l
    BY <2>1, IdleTask DEF Task
  <2> QED BY <1>1, <2>1, <2>2, BeginFrame DEF Unlinked, Held
<1>2. rows \in SUBSET Deposits /\ \A d \in rows : {d} \in SUBSET Deposits
  BY DEF IInv, TypeOK
<1> QED BY <1>1, <1>2 DEF StartMatcher, StartAuto, StartByHand, StartNew

\* The trips that read: pending entries, linked deposits, the entry of a match.
LEMMA ReadKeeps ==
    ASSUME IInv, NEW r \in Runs,
           \/ ReadPending(r) \/ ReadConsumed(r) \/ AutoLinked(r) \/ AutoEntries(r)
           \/ HandLinked(r) \/ HandEntry(r) \/ NewLinked(r)
    PROVE  IInv'
<1>0. /\ task[r] \in Task /\ UNCHANGED <<rows, withdrawn, entry>> /\ ~At(r, "idle")
      /\ Pending \subseteq Entries /\ Pending \in SUBSET Entries
  BY DEF IInv, TypeOK, Pending, At, ReadPending, ReadConsumed, AutoLinked, AutoEntries, HandLinked,
         HandEntry, NewLinked
<1>a. /\ Alone(r) /\ task[r].pc \in Unlinked => task[r].credits \cap Consumed = {}
      /\ Alone(r) /\ task[r].pc \in Held => task[r].entries \subseteq Pending
  BY DEF IInv, DepositsFree, EntriesPending
<1>1. CASE ReadPending(r)
  <2>1. PICK u : u = [task[r] EXCEPT !.pc = "consumed", !.entries = Pending]
    OBVIOUS
  <2>2. u \in Task /\ u.pc = "consumed" /\ u.entries = Pending /\ u.alone = task[r].alone
    BY <1>0, <2>1 DEF Task
  <2>3. task' = [task EXCEPT ![r] = u]
    BY <1>1, <2>1 DEF ReadPending
  <2> QED BY <1>0, <2>2, <2>3, ReadFrame DEF Unlinked
<1>2. CASE ReadConsumed(r)
  <2>1. PICK u : u = [task[r] EXCEPT !.pc = "greedy", !.credits = @ \ Consumed]
    OBVIOUS
  <2>2. /\ u \in Task /\ u.credits \cap Consumed = {} /\ u.alone = task[r].alone
        /\ u.entries = task[r].entries
    BY <1>0, <2>1 DEF Task
  <2>3. task' = [task EXCEPT ![r] = u] /\ task[r].pc = "consumed"
    BY <1>2, <2>1 DEF ReadConsumed, At
  <2> QED BY <1>0, <1>a, <2>2, <2>3, ReadFrame DEF Held
<1>3. CASE AutoLinked(r)
  <2>1. PICK u : u = [task[r] EXCEPT !.pc = "auto_entries", !.credits = @ \ Consumed]
    OBVIOUS
  <2>2. /\ u \in Task /\ u.credits \cap Consumed = {} /\ u.alone = task[r].alone
        /\ u.pc = "auto_entries"
    BY <1>0, <2>1 DEF Task
  <2>3. task' = [task EXCEPT ![r] = u]
    BY <1>3, <2>1 DEF AutoLinked
  <2> QED BY <1>0, <2>2, <2>3, ReadFrame DEF Held
<1>4. CASE AutoEntries(r)
  <2>1. PICK u : u = [task[r] EXCEPT !.pc = "auto_apply", !.entries = Pending]
    OBVIOUS
  <2>2. /\ u \in Task /\ u.credits = task[r].credits /\ u.alone = task[r].alone
        /\ u.entries = Pending
    BY <1>0, <2>1 DEF Task
  <2>3. task' = [task EXCEPT ![r] = u] /\ task[r].pc = "auto_entries"
    BY <1>4, <2>1 DEF AutoEntries, At
  <2> QED BY <1>0, <1>a, <2>2, <2>3, ReadFrame DEF Unlinked
<1>5. ASSUME HandLinked(r) \/ NewLinked(r) PROVE IInv'
  <2>1. CASE End(r)
    BY <1>0, <2>1, EndFrame
  <2>2. CASE ~End(r)
    <3>1. PICK l \in {"hand_entry", "new_entry"} : Go(r, l) /\ task[r].credits \cap Consumed = {}
      BY <1>5, <2>2 DEF HandLinked, NewLinked
    <3>2. PICK u : u = [task[r] EXCEPT !.pc = l]
      OBVIOUS
    <3>3. u \in Task /\ u.pc = l /\ u.credits = task[r].credits /\ u.alone = task[r].alone
      BY <1>0, <3>2 DEF Task
    <3>4. task' = [task EXCEPT ![r] = u]
      BY <3>1, <3>2 DEF Go
    <3> QED BY <1>0, <3>1, <3>3, <3>4, ReadFrame DEF Held
  <2> QED BY <2>1, <2>2
<1>6. CASE HandEntry(r)
  <2>1. ASSUME NEW e \in Pending,
               task' = [task EXCEPT ![r].pc = "hand_apply", ![r].entries = {e}]
        PROVE  IInv'
    <3>1. PICK u : u = [task[r] EXCEPT !.pc = "hand_apply", !.entries = {e}]
      OBVIOUS
    <3>2. /\ u \in Task /\ u.credits = task[r].credits /\ u.entries = {e}
          /\ u.alone = task[r].alone
      BY <1>0, <3>1 DEF Task
    <3>3. task' = [task EXCEPT ![r] = u] /\ task[r].pc = "hand_entry"
      BY <1>6, <2>1, <3>1 DEF HandEntry, At
    <3> QED BY <1>0, <1>a, <3>2, <3>3, ReadFrame DEF Unlinked
  <2> QED BY <1>0, <1>6, <2>1, EndFrame DEF HandEntry
<1> QED BY <1>1, <1>2, <1>3, <1>4, <1>5, <1>6

\* A match of the greedy run or of the automatic one: the deposit and the
\* entry leave its hands.
LEMMA TakingKeeps ==
    ASSUME IInv, NEW r \in Runs, task[r].pc \in {"greedy", "auto_apply"},
           NEW d \in rows, NEW e \in Entries, Settle(e, d), UNCHANGED <<rows, withdrawn>>,
           task' = [task EXCEPT ![r].credits = @ \ {d}, ![r].entries = @ \ {e}]
    PROVE  IInv'
<1>1. PICK u : u = [task[r] EXCEPT !.credits = @ \ {d}, !.entries = @ \ {e}]
  OBVIOUS
<1>2. task[r] \in Task
  BY DEF IInv, TypeOK
<1>3. /\ u \in Task /\ u.credits = task[r].credits \ {d} /\ u.entries = task[r].entries \ {e}
      /\ u.pc = task[r].pc /\ u.alone = task[r].alone
  BY <1>1, <1>2 DEF Task
<1>4. task' = [task EXCEPT ![r] = u]
  BY <1>1
<1>5. ~At(r, "idle") /\ u.pc \in Unlinked /\ (u.alone => task[r].alone)
  BY <1>3 DEF At, Unlinked
<1> QED BY <1>3, <1>4, <1>5, SettleFrame

LEMMA ApplyKeeps ==
    ASSUME IInv, NEW r \in Runs, Greedy(r) \/ AutoApply(r) \/ HandApply(r) \/ NewEntry(r)
    PROVE  IInv'
<1>0. task[r] \in Task /\ UNCHANGED <<rows, withdrawn>> /\ ~At(r, "idle")
  BY DEF IInv, TypeOK, At, Greedy, AutoApply, HandApply, NewEntry
<1>1. CASE Greedy(r)
  <2>1. CASE End(r) /\ UNCHANGED entry
    BY <1>0, <2>1, EndFrame
  <2>2. CASE ~(End(r) /\ UNCHANGED entry)
    <3>1. PICK d \in task[r].credits :
             IF \E e \in Entries : Best(d, task[r].entries, e)
             THEN \E e \in Entries :
                    /\ Best(d, task[r].entries, e)
                    /\ IF d \in rows
                       THEN /\ Settle(e, d)
                            /\ task' = [task EXCEPT ![r].credits = @ \ {d},
                                                    ![r].entries = @ \ {e}]
                       ELSE End(r) /\ UNCHANGED entry
             ELSE task' = [task EXCEPT ![r].credits = @ \ {d}] /\ UNCHANGED entry
      BY <1>1, <2>2 DEF Greedy
    <3>2. CASE \E e \in Entries : Best(d, task[r].entries, e)
      <4>1. PICK e \in Entries : /\ d \in rows /\ Settle(e, d)
                                 /\ task' = [task EXCEPT ![r].credits = @ \ {d},
                                                         ![r].entries = @ \ {e}]
        BY <2>2, <3>1, <3>2
      <4> QED BY <1>0, <1>1, <4>1, TakingKeeps DEF Greedy, At
    <3>3. CASE ~\E e \in Entries : Best(d, task[r].entries, e)
      <4>1. task' = [task EXCEPT ![r].credits = @ \ {d}] /\ UNCHANGED entry
        BY <3>1, <3>3
      <4>2. PICK u : u = [task[r] EXCEPT !.credits = @ \ {d}]
        OBVIOUS
      <4>3. /\ u \in Task /\ u.credits \subseteq task[r].credits /\ u.entries = task[r].entries
            /\ u.pc = task[r].pc /\ u.alone = task[r].alone
        BY <1>0, <4>2 DEF Task
      <4>4. task' = [task EXCEPT ![r] = u]
        BY <4>1, <4>2
      <4>5. /\ Alone(r) /\ u.pc \in Unlinked => u.credits \cap Consumed = {}
            /\ Alone(r) /\ u.pc \in Held => u.entries \subseteq Pending
        BY <4>3 DEF IInv, DepositsFree, EntriesPending
      <4> QED BY <1>0, <4>1, <4>3, <4>4, <4>5, ReadFrame
    <3> QED BY <3>2, <3>3
  <2> QED BY <2>1, <2>2
<1>2. CASE AutoApply(r)
  <2>1. CASE End(r) /\ UNCHANGED entry
    BY <1>0, <2>1, EndFrame
  <2>2. ASSUME NEW d \in task[r].credits \cap rows, NEW e \in task[r].entries, Settle(e, d),
               task' = [task EXCEPT ![r].credits = @ \ {d}, ![r].entries = @ \ {e}]
        PROVE  IInv'
    <3>1. e \in Entries /\ d \in rows
      BY <1>0 DEF Task
    <3> QED BY <1>0, <1>2, <2>2, <3>1, TakingKeeps DEF AutoApply, At
  <2> QED BY <1>2, <2>1, <2>2 DEF AutoApply
<1>3. ASSUME HandApply(r) \/ NewEntry(r) PROVE IInv'
  <2>1. End(r) /\ \E d \in task[r].credits, e \in Entries :
                     IF d \in rows THEN Settle(e, d) ELSE UNCHANGED entry
    BY <1>0, <1>3 DEF HandApply, NewEntry, Task
  <2>2. CASE UNCHANGED entry
    BY <1>0, <2>1, <2>2, EndFrame
  <2>3. CASE ~UNCHANGED entry
    <3>1. PICK d \in rows, e \in Entries : Settle(e, d)
      BY <2>1, <2>3
    <3> QED BY <1>0, <2>1, <3>1, SettleFrame, IdleTask DEF End
  <2> QED BY <2>2, <2>3
<1> QED BY <1>1, <1>2, <1>3

LEMMA NextKeeps == IInv /\ [Next]_vars => IInv'
<1> SUFFICES ASSUME IInv, [Next]_vars PROVE IInv'
  OBVIOUS
<1>1. ASSUME NEW r \in Runs, Fail(r) PROVE IInv'
  BY <1>1, EndFrame DEF Fail
<1>2. CASE UNCHANGED vars
  BY <1>2 DEF vars, IInv, TypeOK, OthersRest, DepositsFree, EntriesPending, Alone, At, Consumed,
              Pending
<1> QED BY <1>1, <1>2, WorldKeeps, StartKeeps, ReadKeeps, ApplyKeeps DEF Next, Step

\* A step that links an entry is that of a run, of a deposit and, but for a new
\* entry, an entry it holds.
LEMMA LinkingStep ==
    ASSUME IInv, Next, NEW e \in Entries, entry'[e].deposit \notin {entry[e].deposit, None}
    PROVE  \E r \in Runs :
             /\ task'[r] # task[r] /\ task[r].pc \in Unlinked
             /\ entry'[e].deposit \in task[r].credits
             /\ entry[e].state = "absent" \/ (task[r].pc \in Held /\ e \in task[r].entries)
<1>0. TypeOK
  BY DEF IInv
<1>1. ASSUME NEW r \in Runs, ~At(r, "idle"), End(r) PROVE task'[r] # task[r]
  BY <1>0, <1>1, IdleTask DEF End, TypeOK, At
<1>2. ASSUME NEW r \in Runs, NEW d \in task[r].credits, NEW f \in Entries,
             task' = [task EXCEPT ![r].credits = @ \ {d}, ![r].entries = @ \ {f}]
      PROVE  task'[r] # task[r]
  <2>1. task'[r].credits = task[r].credits \ {d}
    BY <1>0, <1>2 DEF TypeOK, Task
  <2> QED BY <2>1
<1>3. ASSUME NEW d, NEW f \in Entries, Settle(f, d) PROVE f = e /\ entry'[e].deposit = d
  BY <1>0, <1>3 DEF TypeOK, Settle
<1>4. ~UNCHANGED entry
  OBVIOUS
<1>5. ASSUME NEW d \in Deposits, Arrive(d) \/ Withdraw(d) PROVE FALSE
  <2>1. Withdraw(d)
    BY <1>4, <1>5 DEF Arrive
  <2>2. entry'[e] = IF entry[e].deposit = d THEN [entry[e] EXCEPT !.deposit = None] ELSE entry[e]
    BY <2>1 DEF Withdraw
  <2>3. entry'[e].deposit \in {entry[e].deposit, None}
    BY <1>0, <2>2 DEF TypeOK, Entry
  <2> QED BY <2>3
<1>6. ASSUME NEW f \in Entries, Intend(f) PROVE FALSE
  <2>1. entry'[e].deposit = entry[e].deposit
    BY <1>0, <1>6 DEF Intend, TypeOK, Entry
  <2> QED BY <2>1
<1>7. PICK r \in Runs : Greedy(r) \/ AutoApply(r) \/ HandApply(r) \/ NewEntry(r)
  BY <1>4, <1>5, <1>6 DEF Next, Step, StartMatcher, StartAuto, StartByHand, StartNew, Fail,
                          ReadPending, ReadConsumed, AutoLinked, AutoEntries, HandLinked, HandEntry,
                          NewLinked
<1>8. task[r] \in Task
  BY <1>0 DEF TypeOK
<1>9. CASE Greedy(r)
  <2>1. PICK d \in task[r].credits :
           \E f \in Entries :
             /\ Best(d, task[r].entries, f) /\ Settle(f, d)
             /\ task' = [task EXCEPT ![r].credits = @ \ {d}, ![r].entries = @ \ {f}]
    BY <1>4, <1>9 DEF Greedy
  <2>2. e \in task[r].entries /\ entry'[e].deposit = d /\ task'[r] # task[r]
    BY <1>2, <1>3, <2>1 DEF Best
  <2> QED BY <1>9, <2>2 DEF Greedy, At, Unlinked, Held
<1>10. CASE AutoApply(r)
  <2>1. PICK d \in task[r].credits, f \in task[r].entries :
           /\ Settle(f, d)
           /\ task' = [task EXCEPT ![r].credits = @ \ {d}, ![r].entries = @ \ {f}]
    BY <1>4, <1>10 DEF AutoApply
  <2>2. f \in Entries
    BY <1>8 DEF Task
  <2>3. f = e /\ entry'[e].deposit = d /\ task'[r] # task[r]
    BY <1>2, <1>3, <2>1, <2>2
  <2> QED BY <1>10, <2>1, <2>3 DEF AutoApply, At, Unlinked, Held
<1>11. CASE HandApply(r)
  <2>1. PICK d \in task[r].credits, f \in task[r].entries : Settle(f, d)
    BY <1>4, <1>11 DEF HandApply
  <2>2. f \in Entries
    BY <1>8 DEF Task
  <2>3. f = e /\ entry'[e].deposit = d
    BY <1>3, <2>1, <2>2
  <2> QED BY <1>1, <1>11, <2>1, <2>3 DEF HandApply, At, Unlinked, Held
<1>12. CASE NewEntry(r)
  <2>1. PICK d \in task[r].credits, f \in Entries : entry[f].state = "absent" /\ Settle(f, d)
    BY <1>4, <1>12 DEF NewEntry
  <2>2. f = e /\ entry'[e].deposit = d
    BY <1>3, <2>1
  <2> QED BY <1>1, <1>12, <2>1, <2>2 DEF NewEntry, At, Unlinked
<1> QED BY <1>7, <1>9, <1>10, <1>11, <1>12

--------------------------------------------------------------------------------
(* What follows for every behaviour.                                         *)

\* A run that is alone holds free deposits and pending entries, in every state.
THEOREM MatchingInvariance == Spec => []IInv
BY InitInvariant, NextKeeps, PTL DEF Spec

\* Links go to rows that are there, and only settled entries have one: what the
\* foreign key and the two columns written together keep.
THEOREM MatchingTypes == Spec => []TypeOK
<1>1. IInv => TypeOK
  BY DEF IInv
<1> QED BY <1>1, MatchingInvariance, PTL

LEMMA AloneLinks ==
    ASSUME IInv, Next, NEW e \in Entries, LinkedAlone(e)
    PROVE  entry'[e].deposit \notin Consumed /\ entry[e].state # "settled"
<1>1. PICK r \in Runs :
         /\ task'[r] # task[r] /\ task[r].pc \in Unlinked
         /\ entry'[e].deposit \in task[r].credits
         /\ entry[e].state = "absent" \/ (task[r].pc \in Held /\ e \in task[r].entries)
  BY LinkingStep DEF LinkedAlone
<1>2. Alone(r)
  BY <1>1 DEF LinkedAlone, Alone, At, Unlinked
<1>3. entry'[e].deposit \notin Consumed
  BY <1>1, <1>2 DEF IInv, DepositsFree
<1>4. entry[e].state # "settled"
  BY <1>1, <1>2 DEF IInv, EntriesPending, Pending
<1> QED BY <1>3, <1>4

\* reconcileBankTransactions, runAutoMatch, manualMatchBankTransaction and
\* createPaymentFromSuggestion, one after the other and failing anywhere: none
\* links a deposit that an entry is linked to.
THEOREM DepositSettlesOneEntry == Spec => OneEntryPerDeposit
<1>1. IInv /\ [Next]_vars =>
        [\A e \in Entries : LinkedAlone(e) => entry'[e].deposit \notin Consumed]_vars
  BY AloneLinks
<1> QED BY <1>1, MatchingInvariance, PTL DEF Spec, OneEntryPerDeposit

\* Nor does any of them settle an entry that is settled.
THEOREM EntriesSettleOnce == Spec => EntrySettlesOnce
<1>1. IInv /\ [Next]_vars => [\A e \in Entries : LinkedAlone(e) => entry[e].state # "settled"]_vars
  BY AloneLinks
<1> QED BY <1>1, MatchingInvariance, PTL DEF Spec, EntrySettlesOnce

==============================================================================
