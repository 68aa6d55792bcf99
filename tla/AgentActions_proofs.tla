------------------------- MODULE AgentActions_proofs -------------------------
(***************************************************************************)
(* AgentActions: types, ExecutedWasApproved, EffectWasApproved and         *)
(* IssuedIsLogged, for any admins, any board among them and any number of  *)
(* requests.  The status of an action goes back and forth under races, but *)
(* an approval by the right person, once recorded, stays recorded: each    *)
(* request past a check knows that one was.                                *)
(***************************************************************************)
EXTENDS AgentActions, TLAPS

Right == IF Level[kind] = "L4" THEN Board ELSE Admins
Approved == approver \in Right
Serious == Level[kind] \in {"L3", "L4"}

\* What a request past its check knows of the action.
Knows(t) ==
    /\ t.call = "approve" /\ t.pc = "load" => t.by \in Admins
    /\ t.call = "approve" /\ t.pc = "write" => t.by \in Right
    /\ t.call = "execute" /\ t.pc = "gate" /\ t.seen = "approved" => Approved
    /\ t.call = "execute" /\ t.pc \in {"write", "log", "record"} /\ Serious => Approved
    /\ t.pc = "commit" => Approved
    /\ t.for \in {"sign", "issue", "decline"} => kind = "record"
    /\ t.for = "issue" => t.call = "execute"
    /\ t.for = "issue" /\ t.pc = "record" => "execute" \in log

\* What the rows say.
Books ==
    /\ status = "approved" => Approved
    /\ status = "executed" /\ Serious => Approved
    /\ settled \/ record = "issued" => approver \in Admins
    /\ record = "issued" => "execute" \in log
    /\ record # "none" => kind = "record"

TasksOK == \A r \in Requests : Knows(task[r])

IInv == TypeOK /\ Books /\ TasksOK

\* A step never takes an approval or a log row back.
Grows ==
    /\ kind' = kind /\ log \subseteq log'
    /\ Approved => Approved'
    /\ approver \in Admins => approver' \in Admins

Steps == {"idle", "load", "gate", "write", "log", "commit", "file", "record"}

USE AgentAssumption

--------------------------------------------------------------------------------
(* Levels, tasks and frames.                                                 *)

LEMMA Levels == Level["match"] = "L3" /\ Level["record"] = "L3"
BY DEF Level

LEMMA RightPeople == Right \subseteq Admins /\ (kind = "record" => Serious)
BY Levels DEF Right, Serious

LEMMA IdleTask == Idle \in Task /\ Knows(Idle)
<1>1. Idle \in Task
  BY DEF Idle, Task, Calls, Callers, Somebody, ActionStatus
<1>2. Knows(Idle)
  BY DEF Idle, Knows
<1> QED BY <1>1, <1>2

\* A step of a request leaves the rest of its task alone.
LEMMA MovedTask ==
    ASSUME NEW t \in Task, NEW l \in Steps
    PROVE  LET u == [t EXCEPT !.pc = l] IN
           /\ u \in Task /\ u.call = t.call /\ u.for = t.for /\ u.by = t.by
           /\ u.seen = t.seen /\ u.pc = l
BY DEF Task, Steps

LEMMA NewTask ==
    ASSUME NEW c \in Calls, NEW f \in Callers, NEW a \in Somebody, NEW l \in Steps
    PROVE  [call |-> c, for |-> f, by |-> a, seen |-> "none", pc |-> l] \in Task
BY DEF Task, Steps, ActionStatus

\* The other requests keep what they know.
LEMMA TasksFrame ==
    ASSUME TypeOK, TasksOK, Grows, NEW r \in Requests, NEW u \in Task, Knows(u)',
           task' = [task EXCEPT ![r] = u]
    PROVE  task' \in [Requests -> Task] /\ TasksOK'
<1>1. task' \in [Requests -> Task]
  BY DEF TypeOK
<1>2. ASSUME NEW q \in Requests PROVE Knows(task[q])'
  <2>1. CASE q = r
    <3>1. task'[q] = u
      BY <2>1 DEF TypeOK
    <3> QED BY <3>1 DEF Knows, Approved, Right, Serious
  <2>2. CASE q # r
    <3>1. task'[q] = task[q]
      BY <2>2 DEF TypeOK
    <3>2. Knows(task[q])
      BY DEF TasksOK
    <3> QED BY <3>1, <3>2 DEF Knows, Grows, Approved, Right, Serious
  <2> QED BY <2>1, <2>2
<1> QED BY <1>1, <1>2 DEF TasksOK

LEMMA EndFrame ==
    ASSUME TypeOK, TasksOK, Grows, NEW r \in Requests, End(r)
    PROVE  task' \in [Requests -> Task] /\ TasksOK'
<1>1. Idle \in Task /\ Knows(Idle)'
  BY IdleTask DEF Knows, Idle
<1> QED BY <1>1, TasksFrame DEF End

\* A request that begins: its caller, and who approves, are as its check found.
LEMMA BeginFrame ==
    ASSUME TypeOK, TasksOK, Grows, NEW r \in Requests,
           NEW c \in Calls, NEW f \in Callers, NEW a \in Somebody, NEW l \in Steps,
           Begin(r, c, f, a, l),
           l \in {"load", "commit", "file", "record"} \/ c = "file",
           c = "approve" => a \in Admins,
           l = "commit" => Approved',
           l = "record" => c # "execute",
           f \in {"sign", "issue", "decline"} => kind = "record",
           f = "issue" => c = "execute"
    PROVE  task' \in [Requests -> Task] /\ TasksOK'
<1>1. PICK u : u = [call |-> c, for |-> f, by |-> a, seen |-> "none", pc |-> l]
  OBVIOUS
<1>2. u \in Task
  BY <1>1, NewTask
<1>3. Knows(u)'
  BY <1>1 DEF Knows, Grows
<1>4. task' = [task EXCEPT ![r] = u]
  BY <1>1 DEF Begin
<1> QED BY <1>2, <1>3, <1>4, TasksFrame

LEMMA MoveFrame ==
    ASSUME TypeOK, TasksOK, Grows, NEW r \in Requests, NEW l \in Steps,
           task' = [task EXCEPT ![r].pc = l],
           l # "load", l # "gate", l # "commit",
           l = "write" => /\ task[r].call = "approve" => task[r].by \in Right
                          /\ task[r].call = "execute" /\ Serious => Approved',
           l \in {"log", "record"} /\ task[r].call = "execute" /\ Serious => Approved',
           l = "record" /\ task[r].for = "issue" => "execute" \in log'
    PROVE  task' \in [Requests -> Task] /\ TasksOK'
<1>1. PICK u : u = [task[r] EXCEPT !.pc = l]
  OBVIOUS
<1>2. task[r] \in Task
  BY DEF TypeOK
<1>3. /\ u \in Task /\ u.call = task[r].call /\ u.for = task[r].for /\ u.by = task[r].by
      /\ u.seen = task[r].seen /\ u.pc = l
  BY <1>1, <1>2, MovedTask
<1>4. Knows(task[r])
  BY DEF TasksOK
<1>5. Knows(u)'
  BY <1>3, <1>4 DEF Knows, Grows, Right, Serious
<1>6. task' = [task EXCEPT ![r] = u]
  BY <1>1
<1> QED BY <1>3, <1>5, <1>6, TasksFrame

\* Rows that are left alone stay true.
LEMMA BooksFrame ==
    ASSUME Books, Grows, UNCHANGED <<status, record, settled>> PROVE Books'
BY DEF Books, Grows, Serious

LEMMA QuietGrows ==
    ASSUME UNCHANGED <<kind, approver>>, log \subseteq log' PROVE Grows /\ Approved' = Approved
BY DEF Grows, Approved, Right

\* A step that touches no row but the task of its request.
LEMMA TaskOnly ==
    ASSUME IInv, task' \in [Requests -> Task], TasksOK',
           UNCHANGED <<kind, status, approver, toggle, log, record, linked, settled>>
    PROVE  IInv'
<1>1. Grows
  BY QuietGrows
<1>2. Books'
  BY <1>1, BooksFrame DEF IInv
<1>3. TypeOK'
  BY DEF IInv, TypeOK
<1> QED BY <1>2, <1>3 DEF IInv

--------------------------------------------------------------------------------
(* The initial states, and one lemma per group of actions.                   *)

LEMMA InitInvariant == Init => IInv
<1> SUFFICES ASSUME Init PROVE IInv
  OBVIOUS
<1>1. TypeOK
  BY IdleTask DEF Init, TypeOK, ActionStatus, RecordStatus, Somebody, Calls
<1>2. Books
  BY DEF Init, Books
<1>3. TasksOK
  BY IdleTask DEF Init, TasksOK
<1> QED BY <1>1, <1>2, <1>3 DEF IInv

LEMMA FilingKeeps ==
    ASSUME IInv, NEW r \in Requests,
           File(r) \/ Intake(r) \/ FileForRecord(r) \/ Link(r)
    PROVE  IInv'
<1> USE DEF IInv
<1>0. "file" \in Calls /\ {"route", "triage", "intake"} \subseteq Callers
      /\ {"log", "file", "record"} \subseteq Steps /\ Nobody \in Somebody
  BY DEF Calls, Callers, Steps, Somebody
<1>1. Grows
  BY QuietGrows DEF File, Intake, FileForRecord, Link, effects, action
<1>2. CASE File(r)
  <2>1. PICK f \in {"route", "triage"} : Begin(r, "file", f, Nobody, "log")
    BY <1>2 DEF File
  <2>2. task' \in [Requests -> Task] /\ TasksOK'
    BY <1>0, <1>1, <2>1, BeginFrame
  <2>3. /\ status' = "queued"
        /\ UNCHANGED <<kind, approver, toggle, log, record, linked, settled>>
    BY <1>2 DEF File, effects
  <2>4. Books' /\ TypeOK'
    BY <1>1, <2>2, <2>3 DEF Books, TypeOK, ActionStatus
  <2> QED BY <2>2, <2>4
<1>3. CASE Intake(r)
  <2>1. task' \in [Requests -> Task] /\ TasksOK'
    BY <1>0, <1>1, <1>3, BeginFrame DEF Intake
  <2>2. /\ record' = "generated" /\ kind = "record"
        /\ UNCHANGED <<kind, status, approver, toggle, log, linked, settled>>
    BY <1>3 DEF Intake, action
  <2>3. Books'
    BY <2>2, QuietGrows DEF Books, Serious
  <2>4. TypeOK'
    BY <2>1, <2>2 DEF TypeOK, RecordStatus
  <2> QED BY <2>1, <2>3, <2>4
<1>4. CASE FileForRecord(r)
  <2>1. task[r].call = "file" /\ task' = [task EXCEPT ![r].pc = "log"]
    BY <1>4 DEF FileForRecord, At, Go
  <2>2. task' \in [Requests -> Task] /\ TasksOK'
    BY <1>0, <1>1, <2>1, MoveFrame
  <2>3. /\ status' = "queued"
        /\ UNCHANGED <<kind, approver, toggle, log, record, linked, settled>>
    BY <1>4 DEF FileForRecord, effects
  <2>4. Books' /\ TypeOK'
    BY <1>1, <2>2, <2>3 DEF Books, TypeOK, ActionStatus
  <2> QED BY <2>2, <2>4
<1>5. CASE Link(r)
  <2>1. task' \in [Requests -> Task] /\ TasksOK'
    BY <1>1, <1>5, EndFrame DEF Link
  <2>2. linked' = TRUE /\ UNCHANGED <<kind, status, approver, toggle, log, record, settled>>
    BY <1>5 DEF Link, action
  <2>3. Books'
    BY <1>1, <2>2, BooksFrame
  <2>4. TypeOK'
    BY <2>1, <2>2 DEF TypeOK
  <2> QED BY <2>1, <2>3, <2>4
<1> QED BY <1>2, <1>3, <1>4, <1>5

LEMMA BeginningKeeps ==
    ASSUME IInv, NEW r \in Requests,
           Ask(r) \/ StartMatch(r) \/ Sign(r) \/ Issue(r) \/ Decline(r)
    PROVE  IInv'
<1> USE DEF IInv
<1>0. /\ {"approve", "reject", "execute"} \subseteq Calls
      /\ {"route", "match", "sign", "issue", "decline"} \subseteq Callers
      /\ {"load", "commit", "record"} \subseteq Steps
      /\ Admins \cup {Nobody} = Somebody
  BY DEF Calls, Callers, Steps, Somebody
<1>1. UNCHANGED <<kind, status, approver, toggle, log, record, linked, settled>>
  BY DEF Ask, StartMatch, Sign, Issue, Decline, action, effects
<1>2. Grows /\ Approved' = Approved
  BY <1>1, QuietGrows
<1>3. CASE Ask(r)
  <2>1. CASE \E a \in Admins : Begin(r, "approve", "route", a, "load")
    <3>1. PICK a \in Admins : Begin(r, "approve", "route", a, "load")
      BY <2>1
    <3> QED BY <1>0, <1>1, <1>2, <3>1, BeginFrame, TaskOnly
  <2>2. CASE \E c \in {"reject", "execute"} : Begin(r, c, "route", Nobody, "load")
    <3>1. PICK c \in {"reject", "execute"} : Begin(r, c, "route", Nobody, "load")
      BY <2>2
    <3> QED BY <1>0, <1>1, <1>2, <3>1, BeginFrame, TaskOnly
  <2> QED BY <1>3, <2>1, <2>2 DEF Ask
<1>4. CASE StartMatch(r)
  <2>1. Level[kind] = "L3" /\ Gate(status, FALSE) /\ Begin(r, "execute", "match", Nobody, "commit")
    BY <1>4, Levels DEF StartMatch
  <2>2. Approved
    BY <2>1 DEF Gate, Books
  <2> QED BY <1>0, <1>1, <1>2, <2>1, <2>2, BeginFrame, TaskOnly
<1>5. CASE Sign(r)
  <2>1. PICK a \in Admins : Begin(r, "approve", "sign", a, "load")
    BY <1>5 DEF Sign
  <2>2. kind = "record"
    BY <1>5 DEF Sign, Books
  <2> QED BY <2>2, <1>0, <1>1, <1>2, <2>1, BeginFrame, TaskOnly
<1>6. CASE Issue(r)
  <2>1. kind = "record" /\ Begin(r, "execute", "issue", Nobody, "load")
    BY <1>6 DEF Issue, Books
  <2> QED BY <1>0, <1>1, <1>2, <2>1, BeginFrame, TaskOnly
<1>7. CASE Decline(r)
  <2>1. kind = "record" /\ Begin(r, "reject", "decline", Nobody, "record")
    BY <1>7 DEF Decline, Books
  <2> QED BY <1>0, <1>1, <1>2, <2>1, BeginFrame, TaskOnly
<1> QED BY <1>3, <1>4, <1>5, <1>6, <1>7

LEMMA DecidingKeeps ==
    ASSUME IInv, NEW r \in Requests, LoadToDecide(r) \/ Approve(r) \/ Reject(r)
    PROVE  IInv'
<1> USE DEF IInv
<1>0. {"write", "log"} \subseteq Steps /\ Knows(task[r]) /\ task[r] \in Task
  BY DEF Steps, TasksOK, TypeOK
<1>1. CASE LoadToDecide(r)
  <2>1. UNCHANGED <<kind, status, approver, toggle, log, record, linked, settled>>
    BY <1>1 DEF LoadToDecide, action, effects
  <2>2. Grows
    BY <2>1, QuietGrows
  <2>3. CASE MayDecide(task[r].call, task[r].by)
    <3>1. /\ task' = [task EXCEPT ![r].pc = "write"] /\ task[r].pc = "load"
          /\ task[r].call \in {"approve", "reject"}
      BY <1>1, <2>3 DEF LoadToDecide, Go
    <3>2. task[r].call = "approve" => task[r].by \in Right
      BY <1>0, <2>3, <3>1 DEF MayDecide, Right, Knows
    <3> QED BY <1>0, <2>1, <2>2, <3>1, <3>2, MoveFrame, TaskOnly
  <2>4. CASE ~MayDecide(task[r].call, task[r].by)
    <3>1. End(r)
      BY <1>1, <2>4 DEF LoadToDecide
    <3> QED BY <2>1, <2>2, <3>1, EndFrame, TaskOnly
  <2> QED BY <2>3, <2>4
<1>2. CASE Approve(r)
  <2>1. /\ status' = "approved" /\ approver' = task[r].by
        /\ UNCHANGED <<kind, toggle, log, record, linked, settled>>
        /\ task[r].call = "approve" /\ task[r].pc = "write"
    BY <1>2 DEF Approve, At, effects
  <2>2. task[r].by \in Right
    BY <1>0, <2>1 DEF Knows
  <2>3. Approved' /\ approver' \in Admins /\ Grows
    BY <2>1, <2>2, RightPeople DEF Approved, Right, Grows
  <2>4. PICK u : u = [task[r] EXCEPT !.pc = "log", !.by = Nobody]
    OBVIOUS
  <2>5. /\ u \in Task /\ u.call = "approve" /\ u.for = task[r].for /\ u.pc = "log"
    BY <1>0, <2>1, <2>4 DEF Task, Somebody
  <2>6. Knows(u)'
    BY <1>0, <2>1, <2>5 DEF Knows
  <2>7. task' = [task EXCEPT ![r] = u]
    BY <1>2, <2>4 DEF Approve
  <2>8. task' \in [Requests -> Task] /\ TasksOK'
    BY <2>3, <2>5, <2>6, <2>7, TasksFrame
  <2>9. Books'
    BY <2>1, <2>3 DEF Books
  <2>10. TypeOK'
    BY <2>1, <2>3, <2>8 DEF TypeOK, ActionStatus, Somebody
  <2> QED BY <2>8, <2>9, <2>10
<1>3. CASE Reject(r)
  <2>1. /\ status' = "rejected" /\ UNCHANGED <<kind, approver, toggle, log, record, linked, settled>>
        /\ task[r].call = "reject" /\ task' = [task EXCEPT ![r].pc = "log"]
    BY <1>3 DEF Reject, At, effects, Go
  <2>2. Grows
    BY <2>1, QuietGrows
  <2>3. task' \in [Requests -> Task] /\ TasksOK'
    BY <1>0, <2>1, <2>2, MoveFrame
  <2>4. Books' /\ TypeOK'
    BY <2>1, <2>2, <2>3 DEF Books, TypeOK, ActionStatus
  <2> QED BY <2>3, <2>4
<1> QED BY <1>1, <1>2, <1>3
LEMMA ExecutingKeeps ==
    ASSUME IInv, NEW r \in Requests, LoadToExecute(r) \/ PassGate(r) \/ Execute(r)
    PROVE  IInv'
<1> USE DEF IInv
<1>0. {"write", "log", "gate"} \subseteq Steps /\ Knows(task[r]) /\ task[r] \in Task
  BY DEF Steps, TasksOK, TypeOK
<1>1. CASE LoadToExecute(r)
  <2>1. UNCHANGED <<kind, status, approver, toggle, log, record, linked, settled>>
    BY <1>1 DEF LoadToExecute, action, effects
  <2>2. Grows /\ Approved' = Approved
    BY <2>1, QuietGrows
  <2>3. PICK u : u = [task[r] EXCEPT !.pc = "gate", !.seen = status]
    OBVIOUS
  <2>4. u \in Task /\ u.call = "execute" /\ u.for = task[r].for /\ u.pc = "gate" /\ u.seen = status
    BY <1>0, <1>1, <2>3 DEF Task, TypeOK, LoadToExecute, At
  <2>5. Knows(u)'
    BY <1>0, <2>1, <2>2, <2>4 DEF Knows, Books
  <2>6. task' = [task EXCEPT ![r] = u]
    BY <1>1, <2>3 DEF LoadToExecute
  <2> QED BY <2>1, <2>2, <2>4, <2>5, <2>6, TasksFrame, TaskOnly
<1>2. CASE PassGate(r)
  <2>1. UNCHANGED <<kind, status, approver, toggle, log, record, linked, settled>>
    BY <1>2 DEF PassGate, action, effects
  <2>2. Grows /\ Approved' = Approved
    BY <2>1, QuietGrows
  <2>3. CASE Gate(task[r].seen, toggle)
    <3>1. task[r].call = "execute" /\ task[r].pc = "gate"
      BY <1>2 DEF PassGate, At
    <3>2. Serious => Approved
      BY <1>0, <2>3, <3>1 DEF Gate, Knows, Serious
    <3>3. PICK u : u = [task[r] EXCEPT !.pc = "write", !.seen = "none"]
      OBVIOUS
    <3>4. u \in Task /\ u.call = "execute" /\ u.for = task[r].for /\ u.pc = "write"
      BY <1>0, <3>1, <3>3 DEF Task, ActionStatus
    <3>5. Knows(u)'
      BY <1>0, <2>1, <2>2, <3>2, <3>4 DEF Knows, Serious
    <3>6. task' = [task EXCEPT ![r] = u]
      BY <1>2, <2>3, <3>3 DEF PassGate
    <3> QED BY <2>1, <2>2, <3>4, <3>5, <3>6, TasksFrame, TaskOnly
  <2>4. CASE ~Gate(task[r].seen, toggle)
    <3>1. End(r)
      BY <1>2, <2>4 DEF PassGate
    <3> QED BY <2>1, <2>2, <3>1, EndFrame, TaskOnly
  <2> QED BY <2>3, <2>4
<1>3. CASE Execute(r)
  <2>1. /\ status' = "executed" /\ UNCHANGED <<kind, approver, toggle, log, record, linked, settled>>
        /\ task[r].call = "execute" /\ task[r].pc = "write" /\ task' = [task EXCEPT ![r].pc = "log"]
    BY <1>3 DEF Execute, At, effects, Go
  <2>2. Grows /\ Approved' = Approved /\ Serious' = Serious
    BY <2>1, QuietGrows DEF Serious
  <2>3. Serious => Approved
    BY <1>0, <2>1 DEF Knows
  <2>4. task' \in [Requests -> Task] /\ TasksOK'
    BY <1>0, <2>1, <2>2, <2>3, MoveFrame
  <2>5. Books' /\ TypeOK'
    BY <2>1, <2>2, <2>3, <2>4 DEF Books, TypeOK, ActionStatus
  <2> QED BY <2>4, <2>5
<1> QED BY <1>1, <1>2, <1>3

LEMMA LogKeeps ==
    ASSUME IInv, NEW r \in Requests, Log(r)
    PROVE  IInv'
<1> USE DEF IInv
<1>0. "record" \in Steps /\ Knows(task[r]) /\ task[r] \in Task
  BY DEF Steps, TasksOK, TypeOK
<1>1. /\ log' = log \cup {task[r].call} /\ task[r].pc = "log"
      /\ UNCHANGED <<kind, status, approver, toggle, record, linked, settled>>
  BY DEF Log, action, effects
<1>2. Grows /\ Approved' = Approved
  BY <1>1, QuietGrows
<1>3. task' \in [Requests -> Task] /\ TasksOK'
  <2>1. CASE task' = [task EXCEPT ![r].pc = "record"]
    <3>1. task[r].for = "issue" => "execute" \in log'
      BY <1>0, <1>1 DEF Knows
    <3>2. task[r].call = "execute" /\ Serious => Approved'
      BY <1>0, <1>1, <1>2 DEF Knows
    <3> QED BY <1>0, <1>2, <2>1, <3>1, <3>2, MoveFrame
  <2>2. CASE /\ task[r].for = "triage"
             /\ task' = [task EXCEPT ![r].call = "execute", ![r].pc = "load"]
    <3>1. PICK u : u = [task[r] EXCEPT !.call = "execute", !.pc = "load"]
      OBVIOUS
    <3>2. u \in Task /\ u.call = "execute" /\ u.for = "triage" /\ u.pc = "load"
      BY <1>0, <2>2, <3>1 DEF Task, Calls
    <3>3. Knows(u)'
      BY <3>2 DEF Knows
    <3>4. task' = [task EXCEPT ![r] = u]
      BY <2>2, <3>1
    <3> QED BY <1>2, <3>2, <3>3, <3>4, TasksFrame
  <2>3. CASE End(r)
    BY <1>2, <2>3, EndFrame
  <2>4. Return(r)
    BY DEF Log
  <2> QED BY <2>1, <2>2, <2>3, <2>4 DEF Return, Go
<1>4. Books'
  BY <1>1, <1>2 DEF Books, Serious
<1>5. TypeOK'
  BY <1>0, <1>1, <1>3 DEF TypeOK, Task
<1> QED BY <1>3, <1>4, <1>5

LEMMA EffectKeeps ==
    ASSUME IInv, NEW r \in Requests, Commit(r) \/ Finished(r)
    PROVE  IInv'
<1> USE DEF IInv
<1>0. Knows(task[r]) /\ task[r] \in Task
  BY DEF TasksOK, TypeOK
<1>1. Grows /\ Approved' = Approved
  BY QuietGrows DEF Commit, Finished, action
<1>2. CASE Commit(r)
  <2>1. task[r].pc = "commit" /\ task[r].call = "execute"
        /\ UNCHANGED <<kind, status, approver, toggle, log, record, linked>>
    BY <1>2 DEF Commit, At, action
  <2>2. approver \in Admins
    BY <1>0, <2>1, RightPeople DEF Knows, Approved
  <2>3. settled' \in BOOLEAN
    BY <1>2 DEF Commit, TypeOK
  <2>4. task' \in [Requests -> Task] /\ TasksOK'
    <3>1. CASE task' = [task EXCEPT ![r].pc = "load"]
      <4>1. PICK u : u = [task[r] EXCEPT !.pc = "load"]
        OBVIOUS
      <4>2. u \in Task /\ u.call = "execute" /\ u.for = task[r].for /\ u.pc = "load"
        BY <1>0, <2>1, <4>1 DEF Task
      <4>3. Knows(u)'
        BY <1>0, <2>1, <4>2 DEF Knows
      <4>4. task' = [task EXCEPT ![r] = u]
        BY <3>1, <4>1
      <4> QED BY <1>1, <4>2, <4>3, <4>4, TasksFrame
    <3>2. CASE End(r)
      BY <1>1, <3>2, EndFrame
    <3> QED BY <1>2, <3>1, <3>2 DEF Commit, Go
  <2>5. Books'
    BY <1>1, <2>1, <2>2 DEF Books, Serious
  <2>6. TypeOK'
    BY <2>1, <2>3, <2>4 DEF TypeOK
  <2> QED BY <2>4, <2>5, <2>6
<1>3. CASE Finished(r)
  <2>1. /\ task[r].for \in DOMAIN Outcome /\ task[r].pc = "record"
        /\ record' = Outcome[task[r].for] /\ End(r)
        /\ UNCHANGED <<kind, status, approver, toggle, log, linked, settled>>
    BY <1>3 DEF Finished, action
  <2>2. record' \in RecordStatus
    BY <2>1 DEF Outcome, RecordStatus
  <2>3. kind = "record"
    BY <1>0, <2>1 DEF Knows, Outcome
  <2>4. record' = "issued" => "execute" \in log /\ approver \in Admins
    <3> SUFFICES ASSUME record' = "issued" PROVE "execute" \in log /\ approver \in Admins
      OBVIOUS
    <3>1. task[r].for = "issue"
      BY <2>1 DEF Outcome
    <3>2. "execute" \in log /\ Approved
      BY <1>0, <2>1, <2>3, <3>1, RightPeople DEF Knows
    <3> QED BY <3>2, RightPeople DEF Approved
  <2>5. task' \in [Requests -> Task] /\ TasksOK'
    BY <1>1, <2>1, EndFrame
  <2>6. Books'
    BY <1>1, <2>1, <2>3, <2>4 DEF Books, Serious
  <2>7. TypeOK'
    BY <2>1, <2>2, <2>5 DEF TypeOK
  <2> QED BY <2>5, <2>6, <2>7
<1> QED BY <1>2, <1>3
LEMMA NextKeeps == IInv /\ [Next]_vars => IInv'
<1> SUFFICES ASSUME IInv, [Next]_vars PROVE IInv'
  OBVIOUS
<1>1. CASE SetToggle
  <2>1. UNCHANGED <<kind, status, approver, log, record, linked, settled, task>> /\ toggle' = ~toggle
    BY <1>1 DEF SetToggle, action, effects
  <2>2. Grows /\ Approved' = Approved
    BY <2>1, QuietGrows
  <2>3. Books'
    BY <2>1, <2>2, BooksFrame DEF IInv
  <2>4. TypeOK' /\ TasksOK'
    BY <2>1, <2>2 DEF IInv, TypeOK, TasksOK, Knows, Serious, Right
  <2> QED BY <2>3, <2>4 DEF IInv
<1>2. CASE \E r \in Requests :
             \/ File(r) \/ Intake(r) \/ Ask(r)
             \/ StartMatch(r) \/ Sign(r) \/ Issue(r) \/ Decline(r)
             \/ Step(r) \/ Fail(r)
  <2>1. PICK r \in Requests :
             \/ File(r) \/ Intake(r) \/ Ask(r)
             \/ StartMatch(r) \/ Sign(r) \/ Issue(r) \/ Decline(r)
             \/ Step(r) \/ Fail(r)
    BY <1>2
  <2>2. CASE File(r) \/ Intake(r) \/ FileForRecord(r) \/ Link(r)
    BY <2>2, FilingKeeps
  <2>3. CASE Ask(r) \/ StartMatch(r) \/ Sign(r) \/ Issue(r) \/ Decline(r)
    BY <2>3, BeginningKeeps
  <2>4. CASE LoadToDecide(r) \/ Approve(r) \/ Reject(r)
    BY <2>4, DecidingKeeps
  <2>5. CASE LoadToExecute(r) \/ PassGate(r) \/ Execute(r)
    BY <2>5, ExecutingKeeps
  <2>6. CASE Log(r)
    BY <2>6, LogKeeps
  <2>7. CASE Commit(r) \/ Finished(r)
    BY <2>7, EffectKeeps
  <2>8. CASE Fail(r)
    <3>1. UNCHANGED <<kind, status, approver, toggle, log, record, linked, settled>> /\ End(r)
      BY <2>8 DEF Fail, action, effects
    <3>2. Grows
      BY <3>1, QuietGrows
    <3> QED BY <3>1, <3>2, EndFrame, TaskOnly DEF IInv
  <2> QED BY <2>1, <2>2, <2>3, <2>4, <2>5, <2>6, <2>7, <2>8 DEF Step
<1>3. CASE UNCHANGED vars
  <2>1. UNCHANGED <<kind, status, approver, toggle, log, record, linked, settled, task>>
    BY <1>3 DEF vars
  <2>2. TasksOK'
    BY <2>1 DEF IInv, TasksOK, Knows, Approved, Serious, Right
  <2> QED BY <2>1, <2>2, TaskOnly DEF IInv, TypeOK
<1> QED BY <1>1, <1>2, <1>3 DEF Next

--------------------------------------------------------------------------------
(* The theorems.                                                             *)

\* What the rows say, and what every request knows of them, holds after any steps
\* of any requests (agent-action-service.ts, approveAction to executeAction).
THEOREM GateInvariance == Spec => []IInv
BY InitInvariant, NextKeeps, PTL DEF Spec

\* Every row and every request stays within its type.
THEOREM GateTypes == Spec => []TypeOK
<1>1. IInv => TypeOK
  BY DEF IInv
<1> QED BY <1>1, GateInvariance, PTL

\* An executed action that needs a person has the approval of one, of the board
\* where it needs the board ("refuses an L3/L4 action without a recorded approval").
THEOREM GatedActionsWereApproved == Spec => []ExecutedWasApproved
<1>1. IInv => ExecutedWasApproved
  BY DEF IInv, Books, Serious, Approved, Right, ExecutedWasApproved
<1> QED BY <1>1, GateInvariance, PTL

\* No match is committed and no record issued before an admin has approved the
\* action behind it (plaid-reconciliation.ts, statutory-records-service.ts).
THEOREM EffectsWereApproved == Spec => []EffectWasApproved
<1>1. IInv => EffectWasApproved
  BY DEF IInv, Books, EffectWasApproved
<1> QED BY <1>1, GateInvariance, PTL

\* A record is issued only once its execution is in the log.
THEOREM IssuedRecordsAreLogged == Spec => []IssuedIsLogged
<1>1. IInv => IssuedIsLogged
  BY DEF IInv, Books, IssuedIsLogged
<1> QED BY <1>1, GateInvariance, PTL
================================================================================
