----------------------------- MODULE AgentActions -----------------------------
(***************************************************************************)
(* The queue of actions that agents propose and people decide, followed    *)
(* for one action: agents file it, an admin approves or rejects it, and it *)
(* is executed through the gate of its level.  Two callers put an effect   *)
(* behind the gate: a proposed bank match is committed before its action   *)
(* is executed, a statutory record is issued after it.  Every call reads   *)
(* the action, checks it, updates it by id and logs the event, in separate *)
(* trips; any number of requests work on the same action at once.          *)
(***************************************************************************)
CONSTANTS
    Admins,
    Board,         \* the admins with a board role
    Requests,      \* requests that are served at once
    Nobody

ASSUME AgentAssumption == Board \subseteq Admins /\ Nobody \notin Admins

--------------------------------------------------------------------------------
\* The kinds of action the ladder tells apart, with the two that have an effect.
Level == [suggest |-> "L1", reversible |-> "L2", match |-> "L3", record |-> "L3",
          novel |-> "L3", board |-> "L4"]
Kinds == DOMAIN Level

Calls == {"file", "approve", "reject", "execute"}
Callers == {"route", "triage", "match", "intake", "sign", "issue", "decline"}
ActionStatus == {"none", "queued", "approved", "rejected", "executed"}
RecordStatus == {"none", "generated", "signed", "issued", "rejected"}
Somebody == Admins \cup {Nobody}
\* by: the admin who approves (what others are recorded as decides nothing)
\* seen: the status an execution has read, until the gate is passed
Task == [call : Calls, for : Callers, by : Somebody, seen : ActionStatus,
         pc : {"idle", "load", "gate", "write", "log", "commit", "file", "record"}]
Idle == [call |-> "file", for |-> "route", by |-> Nobody, seen |-> "none", pc |-> "idle"]

VARIABLES
    kind,        \* agent_actions.action_type
    status,      \* agent_actions.status
    approver,    \* agent_actions.approved_by_user_id
    toggle,      \* agent_action_toggles.auto_approve of the type
    log,         \* agent_action_audit_log: the calls that wrote a row
    record,      \* statutory_records.status
    linked,      \* statutory_records.agent_action_id is set
    settled,     \* the proposed match has settled its ledger entry
    task         \* what each request is doing

vars == <<kind, status, approver, toggle, log, record, linked, settled, task>>
action == <<status, approver>>
effects == <<record, linked, settled>>

TypeOK ==
    /\ kind \in Kinds
    /\ status \in ActionStatus
    /\ approver \in Somebody
    /\ toggle \in BOOLEAN
    /\ log \subseteq Calls
    /\ record \in RecordStatus
    /\ linked \in BOOLEAN
    /\ settled \in BOOLEAN
    /\ task \in [Requests -> Task]

Init ==
    /\ kind \in Kinds
    /\ status = "none" /\ approver = Nobody
    /\ toggle = FALSE
    /\ log = {}
    /\ record = "none" /\ linked = FALSE /\ settled = FALSE
    /\ task = [r \in Requests |-> Idle]

--------------------------------------------------------------------------------
At(r, call, pc) == task[r].call = call /\ task[r].pc = pc
Begin(r, call, for, by, pc) ==
    /\ task[r] = Idle
    /\ task' = [task EXCEPT ![r] = [call |-> call, for |-> for, by |-> by, seen |-> "none", pc |-> pc]]
Go(r, pc) == task' = [task EXCEPT ![r].pc = pc]
End(r) == task' = [task EXCEPT ![r] = Idle]

--------------------------------------------------------------------------------
\* Filing.  A record's action is filed by its intake, which links the two after.

File(r) ==
    /\ kind # "record" /\ status = "none"
    /\ \/ Begin(r, "file", "route", Nobody, "log")
       \/ kind \in {"suggest", "reversible"} /\ Begin(r, "file", "triage", Nobody, "log")
    /\ status' = "queued"
    /\ UNCHANGED <<kind, approver, toggle, log, effects>>

Intake(r) ==
    /\ kind = "record" /\ record = "none"
    /\ Begin(r, "file", "intake", Nobody, "file")
    /\ record' = "generated"
    /\ UNCHANGED <<kind, action, toggle, log, linked, settled>>

FileForRecord(r) ==
    /\ At(r, "file", "file")
    /\ status' = "queued" /\ Go(r, "log")
    /\ UNCHANGED <<kind, approver, toggle, log, effects>>

Link(r) ==
    /\ At(r, "file", "record")
    /\ linked' = TRUE /\ End(r)
    /\ UNCHANGED <<kind, action, toggle, log, record, settled>>

--------------------------------------------------------------------------------
\* The three calls on a filed action, for a route of the queue or for a caller.

Ask(r) ==
    /\ status # "none"
    /\ \/ \E a \in Admins : Begin(r, "approve", "route", a, "load")
       \/ \E call \in {"reject", "execute"} : Begin(r, call, "route", Nobody, "load")
    /\ UNCHANGED <<kind, action, toggle, log, effects>>

MayDecide(call, a) ==
    /\ status = "queued"
    /\ call = "approve" => Level[kind] # "L1" /\ (Level[kind] = "L4" => a \in Board)

LoadToDecide(r) ==
    /\ task[r].pc = "load" /\ task[r].call \in {"approve", "reject"}
    /\ IF MayDecide(task[r].call, task[r].by) THEN Go(r, "write") ELSE End(r)
    /\ UNCHANGED <<kind, action, toggle, log, effects>>

Approve(r) ==
    /\ At(r, "approve", "write")
    /\ status' = "approved" /\ approver' = task[r].by
    /\ task' = [task EXCEPT ![r].pc = "log", ![r].by = Nobody]
    /\ UNCHANGED <<kind, toggle, log, effects>>

\* mutant: a rejected action goes by a word the enum does not have
RejectOther(r) ==
    /\ At(r, "reject", "write")
    /\ status' = "declined"
    /\ Go(r, "log")
    /\ UNCHANGED <<kind, approver, toggle, log, effects>>

Reject(r) ==
    /\ At(r, "reject", "write")
    /\ status' = "rejected"
    /\ Go(r, "log")
    /\ UNCHANGED <<kind, approver, toggle, log, effects>>

\* mutant: the toggle of a type lets every level through
GateAny(seen, auto) == seen \notin {"executed", "rejected"} /\ (Level[kind] = "L1" \/ seen = "approved" \/ auto)

\* evaluateGate
Gate(seen, auto) ==
    /\ seen \notin {"executed", "rejected"}
    /\ \/ Level[kind] = "L1"
       \/ Level[kind] = "L2" /\ auto
       \/ seen = "approved"

LoadToExecute(r) ==
    /\ At(r, "execute", "load")
    /\ task' = [task EXCEPT ![r].pc = "gate", ![r].seen = status]
    /\ UNCHANGED <<kind, action, toggle, log, effects>>

PassGate(r) ==
    /\ At(r, "execute", "gate")
    /\ IF Gate(task[r].seen, toggle)
       THEN task' = [task EXCEPT ![r].pc = "write", ![r].seen = "none"]
       ELSE End(r)
    /\ UNCHANGED <<kind, action, toggle, log, effects>>

Execute(r) ==
    /\ At(r, "execute", "write")
    /\ status' = "executed" /\ Go(r, "log")
    /\ UNCHANGED <<kind, approver, toggle, log, effects>>

\* What the caller of a call does when it returns: triage tries the gate itself.
Return(r) ==
    CASE task[r].for \in {"intake", "sign", "issue"} -> Go(r, "record")
      [] task[r].for = "triage" /\ task[r].call = "file" /\ Level[kind] = "L2" ->
            task' = [task EXCEPT ![r].call = "execute", ![r].pc = "load"]
      [] OTHER -> End(r)

\* mutant: nobody waits for the row of the log
LogLater(r) ==
    /\ task[r].pc = "log" /\ Return(r)
    /\ log' \in {log, log \cup {task[r].call}}
    /\ UNCHANGED <<kind, action, toggle, effects>>

\* Every call ends with its row in the log.
Log(r) ==
    /\ task[r].pc = "log" /\ Return(r)
    /\ log' = log \cup {task[r].call}
    /\ UNCHANGED <<kind, action, toggle, effects>>

SetToggle ==
    /\ toggle' = ~toggle
    /\ UNCHANGED <<kind, action, log, effects, task>>

--------------------------------------------------------------------------------
\* A proposed match: the gate is looked at, the match committed, the action executed.

\* mutant: a proposal is committed before anybody has decided
StartMatchAny(r) ==
    /\ kind = "match" /\ status \notin {"none", "executed", "rejected"}
    /\ Begin(r, "execute", "match", Nobody, "commit")
    /\ UNCHANGED <<kind, action, toggle, log, effects>>

StartMatch(r) ==
    /\ kind = "match" /\ Gate(status, FALSE) /\ status # "none"
    /\ Begin(r, "execute", "match", Nobody, "commit")
    /\ UNCHANGED <<kind, action, toggle, log, effects>>

\* manualMatchBankTransaction re-validates the pair and may refuse it.
Commit(r) ==
    /\ At(r, "execute", "commit")
    /\ \/ ~settled /\ settled' = TRUE /\ Go(r, "load")
       \/ UNCHANGED settled /\ End(r)
    /\ UNCHANGED <<kind, action, toggle, log, record, linked>>

--------------------------------------------------------------------------------
\* A statutory record: signed by approving its action, issued by executing it.

Sign(r) ==
    /\ record = "generated" /\ linked
    /\ \E a \in Admins : Begin(r, "approve", "sign", a, "load")
    /\ UNCHANGED <<kind, action, toggle, log, effects>>

Issue(r) ==
    /\ record \in {"generated", "signed"} /\ linked
    /\ Begin(r, "execute", "issue", Nobody, "load")
    /\ UNCHANGED <<kind, action, toggle, log, effects>>

Decline(r) ==
    /\ record \in {"generated", "signed", "rejected"}
    /\ Begin(r, "reject", "decline", Nobody, "record")
    /\ UNCHANGED <<kind, action, toggle, log, effects>>

Outcome == [sign |-> "signed", issue |-> "issued", decline |-> "rejected"]

Finished(r) ==
    /\ task[r].for \in DOMAIN Outcome /\ task[r].pc = "record"
    /\ record' = Outcome[task[r].for] /\ End(r)
    /\ UNCHANGED <<kind, action, toggle, log, linked, settled>>

--------------------------------------------------------------------------------
\* A trip fails or the process dies: what was written stays.
Fail(r) ==
    /\ task[r] # Idle
    /\ End(r)
    /\ UNCHANGED <<kind, action, toggle, log, effects>>

Step(r) ==
    \/ LoadToDecide(r) \/ Approve(r) \/ Reject(r)
    \/ LoadToExecute(r) \/ PassGate(r) \/ Execute(r) \/ Log(r)
    \/ FileForRecord(r) \/ Link(r) \/ Commit(r) \/ Finished(r)

Next ==
    \/ SetToggle
    \/ \E r \in Requests :
         \/ File(r) \/ Intake(r) \/ Ask(r)
         \/ StartMatch(r) \/ Sign(r) \/ Issue(r) \/ Decline(r)
         \/ Step(r) \/ Fail(r)

Spec == Init /\ [][Next]_vars

--------------------------------------------------------------------------------
\* An action that needs a person was approved by one before it was executed, and
\* one for the board by a board role, however requests are interleaved
\* (agent-action-service.ts, "refuses an L3/L4 action without a recorded approval").
ExecutedWasApproved ==
    status = "executed" /\ Level[kind] \in {"L3", "L4"} =>
        approver \in IF Level[kind] = "L4" THEN Board ELSE Admins

\* No ledger entry is settled from a proposal, and no record issued, without an
\* approval on the action ("issuance without the PM sign is impossible").
EffectWasApproved == settled \/ record = "issued" => approver \in Admins

\* An issued record's execution is in the log, whatever failed on the way.
IssuedIsLogged == record = "issued" => "execute" \in log
================================================================================
