---------------------------- MODULE Disbursements ----------------------------
(***************************************************************************)
(* Money out under dual approval: a maker creates a disbursement, another  *)
(* admin approves or rejects it, and an approved one is marked paid.  Each *)
(* request reads the row, checks its status and who made it, updates it by *)
(* id and writes an audit row, in three trips; between them other requests *)
(* act on the same row.                                                    *)
(***************************************************************************)
CONSTANTS
    Admins,
    Requests,      \* requests that are served at once
    Nobody

ASSUME DisbursementAssumption == Nobody \notin Admins

--------------------------------------------------------------------------------
Status == {"absent", "draft", "pending-approval", "approved", "paid", "rejected"}
Event == {"create", "submit", "approve", "reject", "paid"}
Task == [op : Event \cup {"none"}, pc : {"idle", "update", "audit"}, by : Admins \cup {Nobody}]
Idle == [op |-> "none", pc |-> "idle", by |-> Nobody]

VARIABLES
    status,      \* disbursements.status
    maker,       \* createdByAdminUserId
    approver,    \* approvedByAdminUserId
    rejecter,    \* rejectedByAdminUserId
    audit,       \* audit_logs: the events of the row
    task         \* what each request is doing

vars == <<status, maker, approver, rejecter, audit, task>>

TypeOK ==
    /\ status \in Status
    /\ {maker, approver, rejecter} \subseteq Admins \cup {Nobody}
    /\ audit \subseteq Event
    /\ task \in [Requests -> Task]

Init ==
    /\ status = "absent"
    /\ maker = Nobody /\ approver = Nobody /\ rejecter = Nobody
    /\ audit = {}
    /\ task = [r \in Requests |-> Idle]

--------------------------------------------------------------------------------
At(r, op, pc) == task[r].op = op /\ task[r].pc = pc
Begin(r, op, by) ==
    /\ task[r] = Idle
    /\ task' = [task EXCEPT ![r] = [op |-> op, pc |-> "update", by |-> by]]
Updated(r) == task' = [task EXCEPT ![r].pc = "audit"]

Create(r) ==
    /\ task[r] = Idle /\ status = "absent"
    /\ \E a \in Admins, s \in {"draft", "pending-approval"} :
         /\ status' = s /\ maker' = a
         /\ task' = [task EXCEPT ![r] = [op |-> "create", pc |-> "audit", by |-> a]]
    /\ UNCHANGED <<approver, rejecter, audit>>

ReadToSubmit(r) ==
    /\ status = "draft"
    /\ \E a \in Admins : Begin(r, "submit", a)
    /\ UNCHANGED <<status, maker, approver, rejecter, audit>>

Submit(r) ==
    /\ At(r, "submit", "update") /\ Updated(r)
    /\ status' = "pending-approval"
    /\ UNCHANGED <<maker, approver, rejecter, audit>>

\* mutant: makers decide on their own requests
ReadToDecideAny(r) ==
    /\ status = "pending-approval"
    /\ \E a \in Admins, op \in {"approve", "reject"} : Begin(r, op, a)
    /\ UNCHANGED <<status, maker, approver, rejecter, audit>>

ReadToDecide(r) ==
    /\ status = "pending-approval"
    /\ \E a \in Admins \ {maker}, op \in {"approve", "reject"} : Begin(r, op, a)
    /\ UNCHANGED <<status, maker, approver, rejecter, audit>>

Approve(r) ==
    /\ At(r, "approve", "update") /\ Updated(r)
    /\ status' = "approved" /\ approver' = task[r].by
    /\ UNCHANGED <<maker, rejecter, audit>>

Reject(r) ==
    /\ At(r, "reject", "update") /\ Updated(r)
    /\ status' = "rejected" /\ rejecter' = task[r].by
    /\ UNCHANGED <<maker, approver, audit>>

\* mutant: a request that waits for approval is paid
ReadToPayEarly(r) ==
    /\ status \in {"pending-approval", "approved"}
    /\ \E a \in Admins : Begin(r, "paid", a)
    /\ UNCHANGED <<status, maker, approver, rejecter, audit>>

ReadToPay(r) ==
    /\ status = "approved"
    /\ \E a \in Admins : Begin(r, "paid", a)
    /\ UNCHANGED <<status, maker, approver, rejecter, audit>>

Pay(r) ==
    /\ At(r, "paid", "update") /\ Updated(r)
    /\ status' = "paid"
    /\ UNCHANGED <<maker, approver, rejecter, audit>>

Audit(r) ==
    /\ task[r].pc = "audit"
    /\ audit' = audit \cup {task[r].op}
    /\ task' = [task EXCEPT ![r] = Idle]
    /\ UNCHANGED <<status, maker, approver, rejecter>>

\* A trip fails or the process dies: what was written stays.
Fail(r) ==
    /\ task[r] # Idle
    /\ task' = [task EXCEPT ![r] = Idle]
    /\ UNCHANGED <<status, maker, approver, rejecter, audit>>

Next == \E r \in Requests :
    \/ Create(r) \/ ReadToSubmit(r) \/ Submit(r) \/ ReadToDecide(r) \/ Approve(r)
    \/ Reject(r) \/ ReadToPay(r) \/ Pay(r) \/ Audit(r) \/ Fail(r)

Spec == Init /\ [][Next]_vars

--------------------------------------------------------------------------------
\* Money that is recorded as paid was approved, and by somebody else than its
\* maker, however the requests on the row overtake one another
\* (markDisbursementPaid: "an unapproved money-OUT can never reach paid").
PaidWasApproved == status = "paid" => approver \in Admins \ {maker}

\* A decided row is in the hands of two people: neither decision is the maker's,
\* and what the status says of a decision names who made it.
DecidedByAnother ==
    /\ status # "absent" => maker \in Admins \ {approver, rejecter}
    /\ status = "approved" => approver # Nobody
    /\ status = "rejected" => rejecter # Nobody
================================================================================
