------------------------- MODULE Disbursements_proofs -------------------------
(***************************************************************************)
(* Disbursements: types, PaidWasApproved and DecidedByAnother, for any     *)
(* admins and any number of requests.  What carries them is not the status *)
(* a request read, which may be stale, but who it is made for: no request  *)
(* that is past its check was made by the maker, the maker never changes,  *)
(* and an approver is never unset.                                         *)
(***************************************************************************)
EXTENDS Disbursements, TLAPS

Others == Admins \ {maker}
Deciding(r) == task[r].op \in {"approve", "reject"} /\ task[r].pc = "update"
Updating(r) == task[r].pc = "update"

\* Nobody approves or rejects their own request.
Deciders ==
    /\ approver \in Others \cup {Nobody}
    /\ rejecter \in Others \cup {Nobody}
    /\ \A r \in Requests : Deciding(r) => task[r].by \in Others

\* Every row has a maker, and nothing is under way before there is a row.
Made ==
    /\ status # "absent" => maker \in Admins
    /\ status = "absent" => \A r \in Requests : ~Updating(r)
    /\ status = "absent" => approver = Nobody /\ rejecter = Nobody

\* What the status, or a request that will write it, says of a decision.
Decided ==
    /\ status \in {"approved", "paid"} => approver # Nobody
    /\ status = "rejected" => rejecter # Nobody
    /\ \A r \in Requests : task[r].op = "paid" /\ Updating(r) => approver # Nobody

Named == \A r \in Requests : task[r].pc # "idle" => task[r].op \in Event

IInv == TypeOK /\ Deciders /\ Made /\ Decided /\ Named

USE DisbursementAssumption

--------------------------------------------------------------------------------
LEMMA InitInvariant == Init => IInv
BY DEF Init, IInv, TypeOK, Deciders, Made, Decided, Named, Status, Event, Task, Idle, Others,
       Deciding, Updating

LEMMA CreateKeeps ==
    ASSUME IInv, NEW r \in Requests, Create(r) PROVE IInv'
<1> USE DEF IInv
<1>1. PICK a \in Admins, s \in {"draft", "pending-approval"} :
          /\ status' = s /\ maker' = a
          /\ task' = [task EXCEPT ![r] = [op |-> "create", pc |-> "audit", by |-> a]]
  BY DEF Create
<1>2. status = "absent" /\ UNCHANGED <<approver, rejecter, audit>>
  BY DEF Create
<1>3. [op |-> "create", pc |-> "audit", by |-> a] \in Task
  BY DEF Task, Event
<1>4. TypeOK'
  BY <1>1, <1>2, <1>3 DEF TypeOK, Status
<1>5. \A q \in Requests : task'[q].pc # "update"
  BY <1>1, <1>2 DEF TypeOK, Made, Updating
<1>6. Deciders' /\ Made' /\ Decided'
  BY <1>1, <1>2, <1>5 DEF Deciders, Made, Decided, Deciding, Updating, Others
<1>7. Named'
  BY <1>1 DEF Named, TypeOK, Event
<1> QED BY <1>4, <1>6, <1>7

\* A request that begins: what its check has found is all that matters.
LEMMA BeginKeeps ==
    ASSUME IInv, NEW r \in Requests, NEW a \in Admins, NEW op \in Event,
           status # "absent", Begin(r, op, a),
           UNCHANGED <<status, maker, approver, rejecter, audit>>,
           op \in {"approve", "reject"} => a # maker,
           op = "paid" => status = "approved"
    PROVE  IInv'
<1> USE DEF IInv
<1> DEFINE t == [op |-> op, pc |-> "update", by |-> a]
<1>1. t \in Task /\ task' = [task EXCEPT ![r] = t]
  BY DEF Begin, Task
<1>2. \A q \in Requests : task'[q] = IF q = r THEN t ELSE task[q]
  BY <1>1 DEF TypeOK
<1>3. TypeOK'
  BY <1>1 DEF TypeOK
<1>4. Deciders'
  BY <1>2 DEF Deciders, Deciding, Others, Made
<1>5. Made' /\ Decided' /\ Named'
  BY <1>2 DEF Made, Decided, Updating, Named
<1> QED BY <1>3, <1>4, <1>5

\* An update that has run waits for its audit row.
LEMMA UpdatedTasks ==
    ASSUME TypeOK, NEW r \in Requests, Updated(r)
    PROVE  /\ task' \in [Requests -> Task]
           /\ \A q \in Requests \ {r} : task'[q] = task[q]
           /\ task'[r].pc = "audit" /\ task'[r].op = task[r].op
<1>1. task' = [task EXCEPT ![r].pc = "audit"]
  BY DEF Updated
<1>2. task[r] \in Task
  BY DEF TypeOK
<1>3. /\ [task[r] EXCEPT !.pc = "audit"] \in Task
      /\ [task[r] EXCEPT !.pc = "audit"].pc = "audit"
      /\ [task[r] EXCEPT !.pc = "audit"].op = task[r].op
  BY <1>2 DEF Task
<1> QED BY <1>1, <1>3 DEF TypeOK

LEMMA UpdateKeeps ==
    ASSUME IInv, NEW r \in Requests,
           Submit(r) \/ Approve(r) \/ Reject(r) \/ Pay(r)
    PROVE  IInv'
<1> USE DEF IInv
<1>1. Updated(r) /\ Updating(r)
  BY DEF Submit, Approve, Reject, Pay, At, Updating
<1>2. /\ task' \in [Requests -> Task]
      /\ \A q \in Requests \ {r} : task'[q] = task[q]
      /\ task'[r].pc = "audit" /\ task'[r].op = task[r].op
  BY <1>1, UpdatedTasks
<1>3. status # "absent" /\ maker \in Admins
  BY <1>1 DEF Made
<1>4. \A q \in Requests : task'[q].pc = "update" => q # r /\ task'[q] = task[q]
  BY <1>2
<1>5. Named'
  BY <1>2 DEF Named, Updating, Submit, Approve, Reject, Pay, At, Event
<1>6. maker' = maker /\ status' # "absent"
  BY DEF Submit, Approve, Reject, Pay
<1>7. Made'
  BY <1>3, <1>6 DEF Made
<1>8. CASE Submit(r)
  <2>1. status' = "pending-approval" /\ UNCHANGED <<maker, approver, rejecter, audit>>
    BY <1>8 DEF Submit
  <2>2. TypeOK'
    BY <1>2, <2>1 DEF TypeOK, Status
  <2>3. Deciders' /\ Decided'
    BY <1>4, <2>1 DEF Deciders, Decided, Deciding, Updating, Others
  <2> QED BY <1>5, <1>7, <2>2, <2>3
<1>9. CASE Approve(r)
  <2>1. /\ status' = "approved" /\ approver' = task[r].by
        /\ UNCHANGED <<maker, rejecter, audit>>
    BY <1>9 DEF Approve
  <2>2. task[r].by \in Others
    BY <1>9 DEF Approve, At, Deciders, Deciding
  <2>3. TypeOK'
    BY <1>2, <2>1, <2>2 DEF TypeOK, Status, Others
  <2>4. Deciders' /\ Decided'
    BY <1>4, <2>1, <2>2 DEF Deciders, Decided, Deciding, Updating, Others
  <2> QED BY <1>5, <1>7, <2>3, <2>4
<1>10. CASE Reject(r)
  <2>1. /\ status' = "rejected" /\ rejecter' = task[r].by
        /\ UNCHANGED <<maker, approver, audit>>
    BY <1>10 DEF Reject
  <2>2. task[r].by \in Others
    BY <1>10 DEF Reject, At, Deciders, Deciding
  <2>3. TypeOK'
    BY <1>2, <2>1, <2>2 DEF TypeOK, Status, Others
  <2>4. Deciders' /\ Decided'
    BY <1>4, <2>1, <2>2 DEF Deciders, Decided, Deciding, Updating, Others
  <2> QED BY <1>5, <1>7, <2>3, <2>4
<1>11. CASE Pay(r)
  <2>1. status' = "paid" /\ UNCHANGED <<maker, approver, rejecter, audit>>
    BY <1>11 DEF Pay
  <2>2. approver # Nobody
    BY <1>11 DEF Pay, At, Decided, Updating
  <2>3. TypeOK'
    BY <1>2, <2>1 DEF TypeOK, Status
  <2>4. Deciders' /\ Decided'
    BY <1>4, <2>1, <2>2 DEF Deciders, Decided, Deciding, Updating, Others
  <2> QED BY <1>5, <1>7, <2>3, <2>4
<1> QED BY <1>8, <1>9, <1>10, <1>11

LEMMA EndKeeps ==
    ASSUME IInv, NEW r \in Requests, Audit(r) \/ Fail(r) PROVE IInv'
<1> USE DEF IInv
<1>1. task' = [task EXCEPT ![r] = Idle] /\ UNCHANGED <<status, maker, approver, rejecter>>
  BY DEF Audit, Fail
<1>2. Idle \in Task /\ Idle.pc = "idle"
  BY DEF Idle, Task
<1>3. audit' \subseteq Event
  <2>1. CASE Audit(r)
    <3>1. task[r].op \in Event
      BY <2>1 DEF Audit, Named
    <3> QED BY <2>1, <3>1 DEF Audit, TypeOK
  <2>2. CASE Fail(r)
    BY <2>2 DEF Fail, TypeOK
  <2> QED BY <2>1, <2>2
<1>4. TypeOK'
  BY <1>1, <1>2, <1>3 DEF TypeOK
<1>5. \A q \in Requests : task'[q] = task[q] \/ task'[q].pc = "idle"
  BY <1>1, <1>2 DEF TypeOK
<1>6. Deciders' /\ Made' /\ Decided'
  BY <1>1, <1>5 DEF Deciders, Made, Decided, Deciding, Updating, Others
<1>7. Named'
  BY <1>5 DEF Named
<1> QED BY <1>4, <1>6, <1>7

LEMMA NextKeeps == IInv /\ [Next]_vars => IInv'
<1> SUFFICES ASSUME IInv, [Next]_vars PROVE IInv'
  OBVIOUS
<1>1. CASE UNCHANGED vars
  BY <1>1 DEF IInv, TypeOK, Deciders, Made, Decided, Named, Deciding, Updating, Others, vars
<1>2. CASE Next
  <2>1. PICK r \in Requests :
            \/ Create(r) \/ ReadToSubmit(r) \/ Submit(r) \/ ReadToDecide(r) \/ Approve(r)
            \/ Reject(r) \/ ReadToPay(r) \/ Pay(r) \/ Audit(r) \/ Fail(r)
    BY <1>2 DEF Next
  <2>2. CASE Create(r)
    BY <2>2, CreateKeeps
  <2>3. CASE ReadToSubmit(r)
    BY <2>3, BeginKeeps DEF ReadToSubmit, Event
  <2>4. CASE ReadToDecide(r)
    BY <2>4, BeginKeeps DEF ReadToDecide, Event
  <2>5. CASE ReadToPay(r)
    BY <2>5, BeginKeeps DEF ReadToPay, Event
  <2>6. CASE Submit(r) \/ Approve(r) \/ Reject(r) \/ Pay(r)
    BY <2>6, UpdateKeeps
  <2>7. CASE Audit(r) \/ Fail(r)
    BY <2>7, EndKeeps
  <2> QED BY <2>1, <2>2, <2>3, <2>4, <2>5, <2>6, <2>7
<1> QED BY <1>1, <1>2

--------------------------------------------------------------------------------
\* The inductive invariant holds of every state the requests can reach.
THEOREM DisbursementInvariance == Spec => []IInv
<1>1. Init => IInv
  BY InitInvariant
<1>2. IInv /\ [Next]_vars => IInv'
  BY NextKeeps
<1> QED BY <1>1, <1>2, PTL DEF Spec

\* Every column and every request holds what its type says.
THEOREM DisbursementTypes == Spec => []TypeOK
<1>1. IInv => TypeOK
  BY DEF IInv
<1> QED BY <1>1, DisbursementInvariance, PTL

\* What markDisbursementPaid has recorded as paid was approved by another admin
\* than its maker.
THEOREM PaidMoneyWasApproved == Spec => []PaidWasApproved
<1>1. IInv => PaidWasApproved
  BY DEF IInv, TypeOK, Deciders, Decided, Others, PaidWasApproved
<1> QED BY <1>1, DisbursementInvariance, PTL

\* approveDisbursement and rejectDisbursement keep makers and checkers apart
\* through every race of their reads and updates.
THEOREM MakersDoNotDecide == Spec => []DecidedByAnother
<1>1. IInv => DecidedByAnother
  BY DEF IInv, TypeOK, Deciders, Made, Decided, Others, DecidedByAnother
<1> QED BY <1>1, DisbursementInvariance, PTL
================================================================================
