------------------------- MODULE AssessmentExecution -------------------------
(***************************************************************************)
(* How owners are charged.  Rules (recurring dues, special assessments,    *)
(* late fees) are executed by runs: the automation sweep, which every      *)
(* machine starts on a timer under one advisory lock, and on-demand runs,  *)
(* either inside a request or as a background job.  A run lists the        *)
(* (rule, unit, period) keys that are due, and for each of them looks for  *)
(* the ledger row, resolves the owner, inserts the row and writes a run    *)
(* log row, each in a database round trip of its own; recurring schedules  *)
(* are then advanced.  No unique index covers the charge rows.             *)
(*                                                                         *)
(* One association.  Left out: amounts and descriptions, the invoice       *)
(* e-mail (never throws), the alert cache, inactive rules, zero fees.      *)
(* Entries are taken in any order: the SELECTs of units have none.         *)
(***************************************************************************)
EXTENDS Naturals, Sequences, FiniteSets

CONSTANTS
    Machines,    \* server processes
    Sweepers,    \* those that sweep: AUTOMATION_SWEEPS_ENABLED
    Units,
    Rules,
    TypeOf,      \* [Rules -> RuleTypes]
    MonthsOf,    \* [Rules -> Nat]: the schedule's frequency, 1 for the other types
    UnitsOf,     \* [Rules -> SUBSET Units]: the schedule's unit, or all that are
                 \* not excluded
    OwnersAt,    \* [Periods -> SUBSET Units]: the units with an owner
    Delinquent,  \* [Periods -> SUBSET Units]: active escalations past grace
    Demands,     \* the on-demand runs that are asked for
    Large,       \* more than 500 units: on-demand runs are background jobs
    Jobs,        \* bound: rows of background_jobs
    MaxPeriod,   \* bound: periods (months) the clock runs through
    MaxFaults,   \* bound: crashes, failed round trips, lost locks
    NoMachine, NoJob, NoKey

--------------------------------------------------------------------------------
RuleTypes == {"recurring", "special-assessment", "late-fee"}
Periods == 1..MaxPeriod

\* What a ledger row's reference and date name: the period is the month charged
\* (from the schedule's day of one month to that day of the next), for special
\* assessments the installment, which falls due in that month.
Key == Rules \X Units \X Periods
RuleOf(k) == k[1]
PeriodOf(k) == k[3]
Type(k) == TypeOf[RuleOf(k)]

Outcomes == {"success", "skipped", "failed", "deferred"}
JobStates == {"queued", "running", "done", "failed"}

Slots == Machines \X {"sweep", "demand"}
MachineOf(s) == s[1]
IsSweep(s) == s[2] = "sweep"

Run == [pc : {"idle", "mark", "list", "next", "owner", "insert", "log", "finish", "rescan"},
        types : Seq(RuleTypes),      \* still to be done, Head is in progress
        rules : SUBSET Rules,        \* the rule filter
        asOf : Periods, dry : BOOLEAN, job : Jobs \cup {NoJob},
        todo : SUBSET Key, fired : SUBSET Rules,
        key : Key \cup {NoKey}, outcome : Outcomes]

IdleRun == [pc |-> "idle", types |-> <<>>, rules |-> {}, asOf |-> 1, dry |-> FALSE,
            job |-> NoJob, todo |-> {}, fired |-> {}, key |-> NoKey, outcome |-> "skipped"]

Demand == [rule : Rules, asOf : Periods, dry : BOOLEAN]
JobRow == [state : JobStates, demand : Demands]

ASSUME PeriodsAssumption == MaxPeriod \in Nat \ {0} /\ MaxFaults \in Nat
ASSUME RulesAssumption ==
    /\ TypeOf \in [Rules -> RuleTypes] /\ UnitsOf \in [Rules -> SUBSET Units]
    /\ MonthsOf \in [Rules -> Nat \ {0}]
    /\ \A r \in Rules : TypeOf[r] # "recurring" => MonthsOf[r] = 1
ASSUME OwnersAssumption ==
    OwnersAt \in [Periods -> SUBSET Units] /\ Delinquent \in [Periods -> SUBSET Units]
ASSUME DemandsAssumption ==
    Demands \subseteq {d \in Demand : TypeOf[d.rule] # "late-fee"}
ASSUME LargeAssumption == Large \in BOOLEAN
ASSUME NoneAssumption ==
    NoMachine \notin Machines /\ NoJob \notin Jobs \cup JobRow /\ NoKey \notin Key
ASSUME FiniteAssumption == IsFiniteSet(Jobs)

VARIABLES
    now,        \* the current month
    nextRun,    \* recurring_charge_schedules.nextRunDate, as a month; 0 is NULL
    charged,    \* number of owner_ledger_entries rows, by key
    runLog,     \* assessment_run_log, as a set of (key, status)
    feeEvents,  \* keys with a row in late_fee_events
    lock,       \* the machine whose session holds the sweep's advisory lock
    up,         \* the machines that run
    run,        \* what each slot is doing
    job,        \* background_jobs
    drains,     \* drains scheduled on the association's promise chain
    faults,
    contended,  \* history: keys that two runs have been charging at once
    stranded    \* history: jobs that a database failure made everybody forget

bookVars == <<nextRun, charged, runLog, feeEvents, contended>>
queueVars == <<job, drains, stranded>>
vars == <<now, bookVars, lock, up, run, queueVars, faults>>

TypeOK ==
    /\ now \in Periods
    /\ nextRun \in [Rules -> Nat]
    /\ charged \in [Key -> Nat]
    /\ runLog \subseteq Key \X Outcomes
    /\ feeEvents \subseteq Key /\ contended \subseteq Key
    /\ lock \in Machines \cup {NoMachine}
    /\ up \subseteq Machines
    /\ run \in [Slots -> Run]
    /\ job \in [Jobs -> JobRow \cup {NoJob}]
    /\ drains \in [Machines -> Nat]
    /\ stranded \subseteq Jobs
    /\ faults \in 0..MaxFaults

Init ==
    /\ now = 1
    /\ nextRun = [r \in Rules |-> 0]
    /\ charged = [k \in Key |-> 0]
    /\ runLog = {} /\ feeEvents = {} /\ contended = {}
    /\ lock = NoMachine
    /\ up = Machines
    /\ run = [s \in Slots |-> IdleRun]
    /\ job = [j \in Jobs |-> NoJob]
    /\ drains = [m \in Machines |-> 0]
    /\ stranded = {}
    /\ faults = 0

--------------------------------------------------------------------------------
At(s, l) == run[s].pc = l
Fault == faults < MaxFaults /\ faults' = faults + 1

\* The month ends.
Tick ==
    /\ now < MaxPeriod
    /\ now' = now + 1
    /\ UNCHANGED <<bookVars, lock, up, run, queueVars, faults>>

--------------------------------------------------------------------------------
(* The sweep: withSchedulerLock("automation-sweep", runAutomationSweep).     *)

\* pg_try_advisory_lock: a tick that does not get the lock is skipped.
StartSweep(m) ==
    /\ m \in up \cap Sweepers /\ At(<<m, "sweep">>, "idle") /\ lock = NoMachine
    /\ lock' = m
    /\ run' = [run EXCEPT ![<<m, "sweep">>] =
         [IdleRun EXCEPT !.pc = "list", !.rules = Rules, !.asOf = now,
                         !.types = <<"recurring", "special-assessment", "late-fee">>]]
    /\ UNCHANGED <<now, bookVars, up, queueVars, faults>>

\* The lock goes although the run goes on: its session is lost, or another
\* part of the sweep's Promise.all rejects, which ends withSchedulerLock.
FreeLock(m) ==
    /\ lock = m /\ Fault
    /\ lock' = NoMachine
    /\ UNCHANGED <<now, bookVars, up, run, queueVars>>

--------------------------------------------------------------------------------
(* On-demand runs: POST /api/financial/rules/:ruleId/run, of recurring and   *)
(* special-assessment rules, as of a date of the caller's choice.            *)

DemandRunNextPeriod(d, j, pc) ==   \* mutant: the period after the one asked for
    [IdleRun EXCEPT !.pc = pc, !.rules = {d.rule}, !.types = <<TypeOf[d.rule]>>,
                    !.asOf = d.asOf + 1, !.dry = d.dry, !.job = j]

DemandRun(d, j, pc) ==
    [IdleRun EXCEPT !.pc = pc, !.rules = {d.rule}, !.types = <<TypeOf[d.rule]>>,
                    !.asOf = d.asOf, !.dry = d.dry, !.job = j]

StartRequest(m) ==
    /\ ~Large /\ m \in up /\ At(<<m, "demand">>, "idle")
    /\ \E d \in Demands : run' = [run EXCEPT ![<<m, "demand">>] = DemandRun(d, NoJob, "list")]
    /\ UNCHANGED <<now, bookVars, lock, up, queueVars, faults>>

InState(j, states) == job[j] # NoJob /\ job[j].state \in states
Queued == {j \in Jobs : InState(j, {"queued"})}
InFlight == {j \in Jobs : InState(j, {"queued", "running"})}

\* enqueueAssessmentRuleRun: a request for a run that is in flight gets that
\* job's id, under the partial unique index over idempotencyKey.
Enqueue(m) ==
    /\ Large /\ m \in up
    /\ \E j \in Jobs, d \in Demands :
         /\ job[j] = NoJob
         /\ \A i \in InFlight : job[i].demand # d
         /\ job' = [job EXCEPT ![j] = [state |-> "queued", demand |-> d]]
    /\ drains' = [drains EXCEPT ![m] = @ + 1]
    /\ stranded' = stranded \ Queued
    /\ UNCHANGED <<now, bookVars, lock, up, run, faults>>

\* Bookkeeping of the model: a queued job that no drain is pending for on any
\* machine and no job at work will look for, or a running one that nobody runs;
\* a machine that is down looks for both when it boots.
Forgotten(j) ==
    /\ up = Machines
    /\ \/ InState(j, {"queued"}) /\ \A m \in Machines : drains[m] = 0 /\ run[<<m, "demand">>].job = NoJob
       \/ InState(j, {"running"}) /\ \A s \in Slots : run[s].job = j => At(s, "rescan")
NoteForgotten == stranded' = stranded \cup {j \in Jobs : Forgotten(j)'}

\* drainOneForAssociation: one at a time on each machine; the row is read here
\* and marked in the next step, by id alone.
Drain(m) ==
    /\ m \in up /\ At(<<m, "demand">>, "idle") /\ drains[m] > 0
    /\ drains' = [drains EXCEPT ![m] = @ - 1]
    /\ \/ Queued = {} /\ UNCHANGED run
       \/ \E j \in Queued :
            run' = [run EXCEPT ![<<m, "demand">>] = DemandRun(job[j].demand, j, "mark")]
    /\ UNCHANGED <<now, bookVars, lock, up, job, stranded, faults>>

\* Its SELECT throws: this drain is over.  Later ones on the chain go on.
DrainFails(m) ==
    /\ m \in up /\ At(<<m, "demand">>, "idle") /\ drains[m] > 0 /\ Fault
    /\ drains' = [drains EXCEPT ![m] = @ - 1]
    /\ UNCHANGED <<now, bookVars, lock, up, run, job>>
    /\ NoteForgotten

MarkRunning(s) ==
    /\ At(s, "mark")
    /\ job' = [job EXCEPT ![run[s].job].state = "running"]
    /\ run' = [run EXCEPT ![s].pc = "list"]
    /\ UNCHANGED <<now, bookVars, lock, up, drains, stranded, faults>>

--------------------------------------------------------------------------------
(* runSweep and runOnDemand: list, execute each entry, advance.              *)

Keys(rules, periods) ==
    {k \in Key : RuleOf(k) \in rules /\ k[2] \in UnitsOf[RuleOf(k)] /\ PeriodOf(k) \in periods}

ListedThisMonth(type, rules, asOf) ==   \* mutant: only the installment of the month
    LET ofType == {r \in rules : TypeOf[r] = type} IN
    CASE type = "recurring" -> Keys({r \in ofType : nextRun[r] <= asOf}, {asOf})
      [] type = "special-assessment" -> Keys(ofType, {asOf})
      [] type = "late-fee" -> {k \in Keys(ofType, {asOf}) : k[2] \in Delinquent[asOf]}

\* The entries of one rule type, as the three listers select them.
Listed(type, rules, asOf) ==
    LET ofType == {r \in rules : TypeOf[r] = type} IN
    CASE type = "recurring" -> Keys({r \in ofType : nextRun[r] <= asOf}, {asOf})
      [] type = "special-assessment" -> Keys(ofType, 1..asOf)
      [] type = "late-fee" -> {k \in Keys(ofType, {asOf}) : k[2] \in Delinquent[asOf]}

List(s) ==
    /\ At(s, "list")
    /\ LET t == Head(run[s].types)
           entries == Listed(t, run[s].rules, run[s].asOf) IN
       run' = [run EXCEPT
                 ![s].todo = entries, ![s].pc = "next",
                 ![s].fired = IF t = "recurring" /\ ~run[s].dry
                              THEN {RuleOf(k) : k \in entries} ELSE {}]
    /\ UNCHANGED <<now, bookVars, lock, up, queueVars, faults>>

\* Between the check and the insert of key k.
InWindow(s, k) == run[s].pc \in {"owner", "insert"} /\ run[s].key = k /\ ~run[s].dry

CheckRunLog(s) ==   \* mutant: the guard asks the run log
    /\ At(s, "next")
    /\ \E k \in run[s].todo :
         /\ run' = [run EXCEPT ![s].todo = @ \ {k}, ![s].key = k, ![s].outcome = "skipped",
                               ![s].pc = IF <<k, "success">> \in runLog THEN "log" ELSE "owner"]
         /\ contended' = IF ~run[s].dry /\ \E t \in Slots \ {s} : InWindow(t, k)
                         THEN contended \cup {k} ELSE contended
    /\ UNCHANGED <<now, nextRun, charged, runLog, feeEvents, lock, up, queueVars, faults>>

\* A row posted from the entry's period to the end of the schedule's interval.
Posted(k) == \E p \in Periods : /\ PeriodOf(k) <= p /\ p < PeriodOf(k) + MonthsOf[RuleOf(k)]
                               /\ charged[<<RuleOf(k), k[2], p>>] > 0

\* The handler's idempotency guard.
Check(s) ==
    /\ At(s, "next")
    /\ \E k \in run[s].todo :
         /\ run' = [run EXCEPT ![s].todo = @ \ {k}, ![s].key = k, ![s].outcome = "skipped",
                               ![s].pc = IF Posted(k) THEN "log" ELSE "owner"]
         /\ contended' = IF ~run[s].dry /\ \E t \in Slots \ {s} : InWindow(t, k)
                         THEN contended \cup {k} ELSE contended
    /\ UNCHANGED <<now, nextRun, charged, runLog, feeEvents, lock, up, queueVars, faults>>

\* Recurring dues go to the owner of today, installments to the owner of the
\* due date, late fees to the escalation's person if the unit has no owner.
HasOwner(k) == CASE Type(k) = "recurring" -> k[2] \in OwnersAt[now]
                 [] Type(k) = "special-assessment" -> k[2] \in OwnersAt[PeriodOf(k)]
                 [] Type(k) = "late-fee" -> TRUE

\* The late-fee handler inserts its event row here, in dry runs as well.
ResolveOwner(s) ==
    /\ At(s, "owner")
    /\ LET k == run[s].key
           ok == HasOwner(k) IN
       /\ run' = [run EXCEPT ![s].outcome = IF ok THEN "success" ELSE "skipped",
                             ![s].pc = IF ok /\ ~run[s].dry THEN "insert" ELSE "log"]
       /\ feeEvents' = IF Type(k) = "late-fee" THEN feeEvents \cup {k} ELSE feeEvents
    /\ UNCHANGED <<now, nextRun, charged, runLog, contended, lock, up, queueVars, faults>>

InsertCharge(s) ==
    /\ At(s, "insert")
    /\ charged' = [charged EXCEPT ![run[s].key] = @ + 1]
    /\ run' = [run EXCEPT ![s].pc = "log"]
    /\ UNCHANGED <<now, nextRun, runLog, feeEvents, contended, lock, up, queueVars, faults>>

LogHandlersOutcome(s) ==   \* mutant: a failed INSERT keeps the handler's outcome
    /\ run[s].pc \in {"owner", "insert"} /\ Fault
    /\ run' = [run EXCEPT ![s].pc = "log"]
    /\ UNCHANGED <<now, bookVars, lock, up, queueVars>>

\* A handler that throws and an INSERT that fails are outcomes to be logged.
ExecuteFails(s) ==
    /\ run[s].pc \in {"owner", "insert"} /\ Fault
    /\ run' = [run EXCEPT ![s].outcome = "failed", ![s].pc = "log"]
    /\ UNCHANGED <<now, bookVars, lock, up, queueVars>>

WriteLog(s) ==
    /\ At(s, "log")
    /\ runLog' = runLog \cup {<<run[s].key, IF run[s].dry THEN "deferred" ELSE run[s].outcome>>}
    /\ run' = [run EXCEPT ![s].pc = "next", ![s].key = NoKey, ![s].outcome = "skipped"]
    /\ UNCHANGED <<now, nextRun, charged, feeEvents, contended, lock, up, queueVars, faults>>

AdvanceFirst(s) ==   \* mutant: schedules are advanced before their entries are done
    /\ At(s, "next")
    /\ \E r \in run[s].fired :
         /\ run' = [run EXCEPT ![s].fired = @ \ {r}]
         /\ \/ nextRun' = [nextRun EXCEPT ![r] = run[s].asOf + MonthsOf[r]] /\ UNCHANGED faults
            \/ Fault /\ UNCHANGED nextRun
    /\ UNCHANGED <<now, charged, runLog, feeEvents, contended, lock, up, queueVars>>

\* advanceRecurringSchedules, one UPDATE per schedule that fired, whatever
\* became of its entries; an UPDATE that throws is logged and forgotten.
Advance(s) ==
    /\ At(s, "next") /\ run[s].todo = {}
    /\ \E r \in run[s].fired :
         /\ run' = [run EXCEPT ![s].fired = @ \ {r}]
         /\ \/ nextRun' = [nextRun EXCEPT ![r] = run[s].asOf + MonthsOf[r]] /\ UNCHANGED faults
            \/ Fault /\ UNCHANGED nextRun
    /\ UNCHANGED <<now, charged, runLog, feeEvents, contended, lock, up, queueVars>>

NextType(s) ==
    /\ At(s, "next") /\ run[s].todo = {} /\ run[s].fired = {}
    /\ run' = [run EXCEPT ![s].types = Tail(@),
                          ![s].pc = IF Len(run[s].types) = 1 THEN "finish" ELSE "list"]
    /\ UNCHANGED <<now, bookVars, lock, up, queueVars, faults>>

\* The end of a run: the sweep unlocks; a job's row gets its state, by id, and
\* the drain goes on to look for other rows.
End(s, state) ==
    /\ run' = [run EXCEPT ![s] = IF @.job = NoJob THEN IdleRun
                                ELSE [IdleRun EXCEPT !.pc = "rescan", !.job = run[s].job]]
    /\ lock' = IF IsSweep(s) /\ lock = MachineOf(s) THEN NoMachine ELSE lock
    /\ job' = IF run[s].job = NoJob THEN job ELSE [job EXCEPT ![run[s].job].state = state]
    /\ UNCHANGED <<now, bookVars, up, drains, stranded>>

Finish(s) == At(s, "finish") /\ End(s, "done") /\ UNCHANGED faults

\* A lister or a run log INSERT that throws ends the whole run, and what
\* throws after the last entry makes a failed job of one that did its work.
RunFails(s) == run[s].pc \in {"list", "log", "finish"} /\ Fault /\ End(s, "failed")

\* If rows are queued another drain is scheduled.
Rescan(s) ==
    /\ At(s, "rescan")
    /\ run' = [run EXCEPT ![s] = IdleRun]
    /\ drains' = IF Queued = {} THEN drains ELSE [drains EXCEPT ![MachineOf(s)] = @ + 1]
    /\ UNCHANGED <<now, bookVars, lock, up, job, stranded, faults>>

\* The UPDATE to running throws, or the one to failed does, or the SELECT of other
\* rows: the drain is over.
LoseJob(s) ==
    /\ run[s].pc \in {"mark", "list", "log", "finish", "rescan"} /\ run[s].job # NoJob /\ Fault
    /\ run' = [run EXCEPT ![s] = IdleRun]
    /\ UNCHANGED <<now, bookVars, lock, up, job, drains>>
    /\ NoteForgotten

--------------------------------------------------------------------------------
Crash(m) ==
    /\ m \in up /\ Fault
    /\ up' = up \ {m}
    /\ run' = [s \in Slots |-> IF MachineOf(s) = m THEN IdleRun ELSE run[s]]
    /\ lock' = IF lock = m THEN NoMachine ELSE lock
    /\ drains' = [drains EXCEPT ![m] = 0]
    /\ UNCHANGED <<now, bookVars, job, stranded>>

Recovered(states) ==
    /\ job' = [j \in Jobs |-> IF InState(j, states)
                              THEN [job[j] EXCEPT !.state = "queued"] ELSE job[j]]
    /\ stranded' = {}

BootQueuedOnly(m) ==   \* mutant: rows left in state running are not recovered
    /\ m \notin up
    /\ up' = up \cup {m}
    /\ Recovered({"queued"})
    /\ drains' = [drains EXCEPT ![m] = Cardinality(Queued)]
    /\ UNCHANGED <<now, bookVars, lock, run, faults>>

\* recoverInFlightJobs: rows another machine is running are queued as well.
\* If it throws, the machine serves without it.
Boot(m) ==
    /\ m \notin up
    /\ up' = up \cup {m}
    /\ UNCHANGED <<now, bookVars, lock, run>>
    /\ \/ /\ Recovered({"queued", "running"})
          /\ drains' = [drains EXCEPT ![m] = Cardinality(InFlight)]
          /\ UNCHANGED faults
       \/ Fault /\ UNCHANGED <<job, drains>> /\ NoteForgotten

--------------------------------------------------------------------------------
RunStep(s) == \/ MarkRunning(s) \/ List(s) \/ Check(s) \/ ResolveOwner(s)
              \/ InsertCharge(s) \/ WriteLog(s) \/ Advance(s) \/ NextType(s) \/ Finish(s)
              \/ Rescan(s)

Next ==
    \/ Tick
    \/ \E m \in Machines : \/ StartSweep(m) \/ FreeLock(m)
                           \/ StartRequest(m) \/ Enqueue(m) \/ Drain(m) \/ DrainFails(m)
                           \/ Crash(m) \/ Boot(m)
    \/ \E s \in Slots : RunStep(s) \/ ExecuteFails(s) \/ RunFails(s) \/ LoseJob(s)

Spec == Init /\ [][Next]_vars

\* The timer goes on firing, a machine that is up goes on with its runs and
\* its promise chain, and one that is down is started again.
Fairness ==
    /\ WF_vars(\E m \in Machines : StartSweep(m))
    /\ \A s \in Slots : WF_vars(RunStep(s))
    /\ \A m \in Machines : WF_vars(Drain(m)) /\ WF_vars(Boot(m))

FairSpec == Spec /\ Fairness

--------------------------------------------------------------------------------
(* Properties.                                                               *)

\* A unit is charged once for a period by all the sweeps, jobs, requests,
\* crashes, restarts and failed or late advances there are, unless two runs
\* were between the check and the insert of the very same charge at once.
ChargedOncePerPeriod == \A k \in Key \ contended : charged[k] <= 1

\* A schedule that has been advanced past a month by a run of that month leaves
\* no unit behind without a trace: it is charged, or the run log has a row that
\* says why not (advanceRecurringSchedules: "advancing is keyed on dispatch").
Accounted(k) == charged[k] > 0 \/ <<k, "skipped">> \in runLog \/ <<k, "failed">> \in runLog
NoSilentMiss ==
    \A k \in Key : Type(k) = "recurring" /\ k[2] \in UnitsOf[RuleOf(k)]
                   /\ nextRun[RuleOf(k)] = PeriodOf(k) + MonthsOf[RuleOf(k)] => Accounted(k)

\* A charge and its log row agree: no "success" without the ledger row, and no
\* late fee in the ledger without its late_fee_events row.
LogIsTrue ==
    \A k \in Key : /\ <<k, "success">> \in runLog => charged[k] > 0
                   /\ Type(k) = "late-fee" /\ charged[k] > 0 => k \in feeEvents

\* An installment that has fallen due on a unit with an owner is posted in the
\* end, however long the server was down and whatever failed meanwhile: nothing
\* that is due stays unposted for ever (a posted charge is never taken back).
Due(k) == /\ Type(k) = "special-assessment" /\ PeriodOf(k) <= now
          /\ k[2] \in UnitsOf[RuleOf(k)] \cap OwnersAt[PeriodOf(k)]
InstallmentsArePosted == []<>(\A k \in Key : Due(k) => charged[k] > 0)

\* Every background job ends, in state done or failed, over crashes of the
\* process that runs it, boots that take it from another process, and drains of
\* one process that another one was to make, unless a failed SELECT or UPDATE left
\* it without anybody who would look for it: no drain, no job at work and no boot.
EveryJobEnds ==
    \A j \in Jobs : InState(j, {"queued"}) ~> InState(j, {"done", "failed"}) \/ j \in stranded
==============================================================================
