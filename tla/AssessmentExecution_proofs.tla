-------------------- MODULE AssessmentExecution_proofs --------------------
(***************************************************************************)
(* For any machines, units, rules, ownerships, demands and bounds: what    *)
(* runs that overlap, fail and die can do to the ledger of charges.        *)
(***************************************************************************)
EXTENDS AssessmentExecution, TLAPS, SequenceTheorems, FiniteSetTheorems

--------------------------------------------------------------------------------
(* The inductive invariant.                                                 *)

AtEntry == {"owner", "insert", "log"}
Working == {"list", "next"} \cup AtEntry

\* A unit of a schedule that a run has fired: to be done, being done, or done.
Covered(u, k) == k \in u.todo \/ (u.key = k /\ u.pc \in AtEntry) \/ Accounted(k)

\* The schedules that a run is going to advance, with all their units covered.
FiredOK(u) ==
    \A r \in u.fired : /\ ~u.dry /\ TypeOf[r] = "recurring"
                       /\ \A v \in UnitsOf[r] : Covered(u, <<r, v, u.asOf>>)

\* What a run knows at the step it is at.
RunOK(u) ==
    /\ u.pc \in Working \cup {"mark"} => u.types # <<>>
    /\ u.pc \in AtEntry => u.key \in Key
    /\ u.job # NoJob => job[u.job] # NoJob
    /\ u.pc = "mark" => u.job # NoJob
    /\ u.pc = "insert" => /\ ~u.dry /\ u.outcome = "success"
                          /\ Type(u.key) = "late-fee" => u.key \in feeEvents
    /\ u.pc = "log" => /\ u.outcome # "deferred"
                       /\ u.outcome = "success" /\ ~u.dry => charged[u.key] > 0
    /\ FiredOK(u)

RunsOK == \A s \in Slots : RunOK(run[s])

\* A charge that is not contended has one writer at most, which saw no row.
OneWriter ==
    \A k \in Key \ contended :
        /\ charged[k] <= 1
        /\ \A s \in Slots : InWindow(s, k) => charged[k] = 0
        /\ \A s, t \in Slots : InWindow(s, k) /\ InWindow(t, k) => s = t

IInv == TypeOK /\ RunsOK /\ OneWriter /\ NoSilentMiss /\ LogIsTrue

--------------------------------------------------------------------------------
(* What no step takes back.                                                 *)

Grows == /\ \A k \in Key : charged'[k] >= charged[k]
         /\ runLog \subseteq runLog' /\ feeEvents \subseteq feeEvents'
         /\ \A j \in Jobs : job[j] # NoJob => job'[j] # NoJob

\* A charge that is accounted for stays so.
LEMMA AccountedStays ==
    ASSUME TypeOK, TypeOK', Grows, NEW k \in Key, Accounted(k)
    PROVE  Accounted(k)'
BY DEF Grows, Accounted, TypeOK

\* Whatever the others do, a run that does not move knows what it knew.
LEMMA RunFrame ==
    ASSUME TypeOK, TypeOK', Grows, NEW u \in Run, RunOK(u)
    PROVE  RunOK(u)'
<1>1. \A k \in Key : Accounted(k) => Accounted(k)'
  BY AccountedStays
<1>2. \A r \in u.fired : \A v \in UnitsOf[r] : <<r, v, u.asOf>> \in Key
  BY RulesAssumption DEF Run, Key
<1>3. FiredOK(u)'
  BY <1>1, <1>2 DEF RunOK, FiredOK, Covered
<1>4. u.job # NoJob => job'[u.job] # NoJob
  BY DEF RunOK, Grows, Run
<1>5. u.pc \in AtEntry => charged'[u.key] >= charged[u.key]
  BY DEF RunOK, Grows
<1>6. /\ u.pc = "log" => /\ u.outcome # "deferred"
                         /\ u.outcome = "success" /\ ~u.dry => charged'[u.key] > 0
  BY <1>5 DEF RunOK, AtEntry, TypeOK
<1> QED
  BY <1>3, <1>4, <1>6 DEF RunOK, Grows, Type, RuleOf

\* A step of one run: only that run has to be looked at.
LEMMA SlotStep ==
    ASSUME TypeOK, TypeOK', RunsOK, Grows, NEW s \in Slots, NEW u \in Run,
           run' = [run EXCEPT ![s] = u], RunOK(u)'
    PROVE  RunsOK'
<1> SUFFICES ASSUME NEW t \in Slots PROVE RunOK(run[t])'
  BY DEF RunsOK
<1>1. CASE t = s
  BY <1>1 DEF TypeOK
<1>2. CASE t # s
  <2>1. run'[t] = run[t] /\ run[t] \in Run /\ RunOK(run[t])
    BY <1>2 DEF TypeOK, RunsOK
  <2>2. PICK w \in Run : w = run[t]
    BY <2>1
  <2>3. RunOK(w)'
    BY <2>1, <2>2, RunFrame
  <2> QED
    BY <2>1, <2>2, <2>3
<1> QED
  BY <1>1, <1>2

\* A step that opens no window and inserts nothing.
LEMMA NoNewWriter ==
    ASSUME OneWriter, UNCHANGED <<charged, contended>>,
           \A t \in Slots, k \in Key : InWindow(t, k)' => InWindow(t, k)
    PROVE  OneWriter'
BY DEF OneWriter

\* A step that advances no schedule and writes no charge and no log row.
LEMMA SameBooks ==
    ASSUME NoSilentMiss, LogIsTrue, UNCHANGED <<nextRun, charged, runLog>>, feeEvents \subseteq feeEvents'
    PROVE  NoSilentMiss' /\ LogIsTrue'
BY DEF NoSilentMiss, LogIsTrue, Accounted, Type, RuleOf, PeriodOf

\* A step of one run that writes no charge and no log row, and opens no window.
LEMMA QuietStep ==
    ASSUME IInv, TypeOK', NEW s \in Slots, NEW u \in Run, run' = [run EXCEPT ![s] = u],
           RunOK(u)', UNCHANGED <<nextRun, charged, runLog, contended>>,
           feeEvents \subseteq feeEvents', \A j \in Jobs : job[j] # NoJob => job'[j] # NoJob,
           u.pc \in {"owner", "insert"} =>
              run[s].pc \in {"owner", "insert"} /\ u.key = run[s].key /\ u.dry = run[s].dry
    PROVE  IInv'
<1>1. Grows
  BY DEF Grows, IInv, TypeOK
<1>2. RunsOK'
  BY <1>1, SlotStep DEF IInv
<1>3. \A t \in Slots, k \in Key : InWindow(t, k)' => InWindow(t, k)
  <2>1. \A t \in Slots \ {s} : run'[t] = run[t]
    BY DEF IInv, TypeOK
  <2>2. run'[s] = u
    BY DEF IInv, TypeOK
  <2> QED
    BY <2>1, <2>2 DEF InWindow
<1>4. OneWriter'
  BY <1>3, NoNewWriter DEF IInv
<1>5. NoSilentMiss' /\ LogIsTrue'
  BY SameBooks DEF IInv
<1> QED
  BY <1>2, <1>4, <1>5 DEF IInv

\* A step that leaves all the runs alone.
LEMMA NoRunStep ==
    ASSUME IInv, TypeOK', UNCHANGED <<run, bookVars>>,
           \A j \in Jobs : job[j] # NoJob => job'[j] # NoJob
    PROVE  IInv'
<1>1. Grows
  BY DEF Grows, IInv, TypeOK, bookVars
<1>2. RunsOK'
  <2> SUFFICES ASSUME NEW t \in Slots PROVE RunOK(run[t])'
    BY DEF RunsOK
  <2>1. PICK w \in Run : w = run[t]
    BY DEF IInv, TypeOK
  <2>2. RunOK(w)'
    BY <1>1, <2>1, RunFrame DEF IInv, RunsOK
  <2> QED
    BY <2>1, <2>2
<1>3. OneWriter'
  BY NoNewWriter DEF IInv, bookVars, InWindow
<1>4. NoSilentMiss' /\ LogIsTrue'
  BY SameBooks DEF IInv, bookVars
<1> QED
  BY <1>2, <1>3, <1>4 DEF IInv

--------------------------------------------------------------------------------
(* The beginning.                                                           *)

\* A slot that does nothing is well typed and knows nothing.
LEMMA Idle == IdleRun \in Run /\ RunOK(IdleRun) /\ RunOK(IdleRun)'
<1>1. 1 \in Periods
  BY PeriodsAssumption DEF Periods
<1>2. IdleRun \in Run
  BY <1>1 DEF IdleRun, Run, Outcomes
<1>3. RunOK(IdleRun) /\ RunOK(IdleRun)'
  BY DEF RunOK, FiredOK, IdleRun, Working, AtEntry
<1> QED
  BY <1>2, <1>3

\* The invariant holds at first.
LEMMA InitInv == Init => IInv
<1> SUFFICES ASSUME Init PROVE IInv
  OBVIOUS
<1>1. TypeOK
  <2>1. 1 \in Periods /\ 0 \in 0..MaxFaults
    BY PeriodsAssumption DEF Periods
  <2> QED
    BY <2>1, Idle DEF Init, TypeOK
<1>2. RunsOK
  BY Idle DEF Init, RunsOK
<1>3. OneWriter
  BY DEF Init, OneWriter, InWindow, IdleRun
<1>4. NoSilentMiss
  <2> SUFFICES ASSUME NEW k \in Key, k[2] \in UnitsOf[RuleOf(k)],
                      nextRun[RuleOf(k)] = PeriodOf(k) + MonthsOf[RuleOf(k)]
               PROVE  Accounted(k)
    BY DEF NoSilentMiss
  <2>1. RuleOf(k) \in Rules /\ PeriodOf(k) \in Nat
    BY DEF Key, RuleOf, PeriodOf, Periods
  <2>2. MonthsOf[RuleOf(k)] \in Nat \ {0}
    BY <2>1, RulesAssumption
  <2> QED
    BY <2>1, <2>2 DEF Init
<1>5. LogIsTrue
  BY DEF Init, LogIsTrue
<1> QED
  BY <1>1, <1>2, <1>3, <1>4, <1>5 DEF IInv

--------------------------------------------------------------------------------
(* The clock, the lock, the machines and the queue.                         *)

\* Time leaves every run as it is.
LEMMA TickInv == ASSUME IInv, Tick PROVE IInv'
<1>1. TypeOK'
  BY PeriodsAssumption DEF Tick, TypeOK, bookVars, queueVars, Periods, IInv
<1> QED
  BY <1>1, NoRunStep DEF Tick, queueVars

\* And so do a lost lock and a new job.
LEMMA OutsideInv ==
    ASSUME IInv, NEW m \in Machines, FreeLock(m) \/ Enqueue(m)
    PROVE  IInv'
<1> USE DEF IInv
<1>1. CASE FreeLock(m)
  <2>1. TypeOK'
    BY <1>1, PeriodsAssumption DEF FreeLock, Fault, TypeOK, bookVars, queueVars
  <2> QED
    BY <1>1, <2>1, NoRunStep DEF FreeLock, queueVars
<1>2. CASE Enqueue(m)
  <2>1. PICK j \in Jobs, d \in Demands :
            job[j] = NoJob /\ job' = [job EXCEPT ![j] = [state |-> "queued", demand |-> d]]
    BY <1>2 DEF Enqueue
  <2>2. [state |-> "queued", demand |-> d] \in JobRow
    BY DEF JobRow, JobStates
  <2>3. TypeOK'
    BY <1>2, <2>1, <2>2 DEF Enqueue, TypeOK, bookVars
  <2>4. \A i \in Jobs : job[i] # NoJob => job'[i] # NoJob
    BY <2>1 DEF TypeOK
  <2> QED
    BY <1>2, <2>3, <2>4, NoRunStep DEF Enqueue
<1> QED
  BY <1>1, <1>2

\* A crash leaves charges without log rows, and fired schedules where they were.
LEMMA CrashInv == ASSUME IInv, NEW m \in Machines, Crash(m) PROVE IInv'
<1> USE DEF IInv
<1>1. run' \in [Slots -> Run] /\ \A t \in Slots : run'[t] = run[t] \/ run'[t] = IdleRun
  BY Idle DEF Crash, TypeOK
<1>2. TypeOK'
  BY <1>1, PeriodsAssumption DEF Crash, Fault, TypeOK, bookVars
<1>3. Grows
  BY DEF Crash, Grows, bookVars, TypeOK
<1>4. RunsOK'
  <2> SUFFICES ASSUME NEW t \in Slots PROVE RunOK(run[t])'
    BY DEF RunsOK
  <2>1. CASE run'[t] = IdleRun
    BY <2>1, Idle DEF RunOK, FiredOK, IdleRun, Working, AtEntry
  <2>2. CASE run'[t] = run[t]
    <3>1. PICK w \in Run : w = run[t]
      BY DEF TypeOK
    <3>2. RunOK(w)'
      BY <1>2, <1>3, <3>1, RunFrame DEF RunsOK
    <3> QED
      BY <2>2, <3>1, <3>2
  <2> QED
    BY <1>1, <2>1, <2>2
<1>5. OneWriter'
  <2>1. \A t \in Slots, k \in Key : InWindow(t, k)' => InWindow(t, k)
    BY <1>1 DEF InWindow, IdleRun
  <2> QED
    BY <2>1, NoNewWriter DEF Crash, bookVars
<1>6. NoSilentMiss' /\ LogIsTrue'
  BY SameBooks DEF Crash, bookVars
<1> QED
  BY <1>2, <1>4, <1>5, <1>6

\* What nobody looks for is noted, of the rows there are.
LEMMA Noted == ASSUME TypeOK, NoteForgotten PROVE stranded' \subseteq Jobs
BY DEF NoteForgotten, TypeOK

\* The recovery changes states of job rows, and removes none.
LEMMA BootInv == ASSUME IInv, NEW m \in Machines, Boot(m) PROVE IInv'
<1> USE DEF IInv
<1>1. Cardinality(InFlight) \in Nat
  BY FiniteAssumption, FS_Subset, FS_CardinalityType DEF InFlight
<1>2. job' \in [Jobs -> JobRow \cup {NoJob}] /\ \A j \in Jobs : job[j] # NoJob => job'[j] # NoJob
  <2>1. CASE UNCHANGED job
    BY <2>1 DEF TypeOK
  <2>2. CASE Recovered({"queued", "running"})
    <3>1. \A j \in Jobs : job[j] # NoJob =>
             /\ job[j] \in JobRow
             /\ [job[j] EXCEPT !.state = "queued"] \in JobRow
      BY DEF TypeOK, JobRow, JobStates
    <3> QED
      BY <2>2, <3>1, NoneAssumption DEF Recovered, InState, TypeOK
  <2> QED
    BY <2>1, <2>2 DEF Boot
<1>3. stranded' \subseteq Jobs
  <2>1. CASE NoteForgotten
    BY <2>1, Noted
  <2>2. CASE Recovered({"queued", "running"})
    BY <2>2 DEF Recovered
  <2> QED
    BY <2>1, <2>2 DEF Boot
<1>4. drains' \in [Machines -> Nat] /\ faults' \in 0..MaxFaults
  BY <1>1, PeriodsAssumption DEF Boot, Fault, TypeOK
<1>5. TypeOK'
  BY <1>2, <1>3, <1>4 DEF Boot, TypeOK, bookVars
<1> QED
  BY <1>2, <1>5, NoRunStep DEF Boot

--------------------------------------------------------------------------------
(* How runs start, and how they end.                                        *)

\* A sweep starts with an empty list of entries.
LEMMA StartSweepInv == ASSUME IInv, NEW m \in Machines, StartSweep(m) PROVE IInv'
<1> USE DEF IInv
<1> DEFINE s == <<m, "sweep">>
<1>1. s \in Slots
  BY DEF Slots
<1>2. PICK u : u = [IdleRun EXCEPT !.pc = "list", !.rules = Rules, !.asOf = now,
                       !.types = <<"recurring", "special-assessment", "late-fee">>]
  OBVIOUS
<1>3. u \in Run /\ u.pc = "list" /\ u.job = NoJob /\ u.fired = {} /\ u.types # <<>>
  <2>1. /\ <<"recurring", "special-assessment", "late-fee">> \in Seq(RuleTypes)
        /\ <<"recurring", "special-assessment", "late-fee">> # <<>>
    BY DEF RuleTypes
  <2>2. now \in Periods /\ Rules \in SUBSET Rules
    BY DEF TypeOK
  <2>3. u = [pc |-> "list", types |-> <<"recurring", "special-assessment", "late-fee">>,
             rules |-> Rules, asOf |-> now, dry |-> FALSE, job |-> NoJob, todo |-> {},
             fired |-> {}, key |-> NoKey, outcome |-> "skipped"]
    BY <1>2 DEF IdleRun
  <2> HIDE <1>2
  <2>4. u \in Run
    BY <2>1, <2>2, <2>3 DEF Run, Outcomes
  <2> QED
    BY <2>1, <2>3, <2>4
<1>4. run' = [run EXCEPT ![s] = u]
  BY <1>2 DEF StartSweep
<1>5. RunOK(u)'
  BY <1>3 DEF RunOK, FiredOK, AtEntry
<1>6. TypeOK'
  BY <1>1, <1>3, <1>4 DEF StartSweep, TypeOK, bookVars, queueVars
<1> HIDE DEF s
<1> QED
  BY <1>1, <1>3, <1>4, <1>5, <1>6, QuietStep DEF StartSweep, bookVars, queueVars

\* A run on demand is well typed, and knows what it was started with.
LEMMA DemandRunOK ==
    ASSUME NEW d \in Demands, NEW j \in Jobs \cup {NoJob}, NEW l \in {"mark", "list"}
    PROVE  LET u == DemandRun(d, j, l) IN
           u \in Run /\ u.pc = l /\ u.job = j /\ u.fired = {} /\ u.types # <<>>
<1>1. d.rule \in Rules /\ d.asOf \in Periods /\ d.dry \in BOOLEAN /\ TypeOf[d.rule] \in RuleTypes
  BY DemandsAssumption, RulesAssumption DEF Demand
<1>2. <<TypeOf[d.rule]>> \in Seq(RuleTypes) /\ <<TypeOf[d.rule]>> # <<>>
  BY <1>1
<1>3. DemandRun(d, j, l) =
         [pc |-> l, types |-> <<TypeOf[d.rule]>>, rules |-> {d.rule}, asOf |-> d.asOf,
          dry |-> d.dry, job |-> j, todo |-> {}, fired |-> {}, key |-> NoKey,
          outcome |-> "skipped"]
  <2>1. DemandRun(d, j, l) =
           [IdleRun EXCEPT !.pc = l, !.rules = {d.rule}, !.types = <<TypeOf[d.rule]>>,
                           !.asOf = d.asOf, !.dry = d.dry, !.job = j]
    BY DEF DemandRun
  <2> QED
    BY <2>1 DEF IdleRun
<1>4. DemandRun(d, j, l) \in Run
  BY <1>1, <1>2, <1>3 DEF Run, Outcomes
<1> QED
  BY <1>2, <1>3, <1>4

\* A request starts a run.
LEMMA StartRequestInv == ASSUME IInv, NEW m \in Machines, StartRequest(m) PROVE IInv'
<1> USE DEF IInv
<1> DEFINE s == <<m, "demand">>
<1>1. s \in Slots
  BY DEF Slots
<1>2. PICK d \in Demands : run' = [run EXCEPT ![s] = DemandRun(d, NoJob, "list")]
  BY DEF StartRequest
<1>3. PICK u : u = DemandRun(d, NoJob, "list")
  OBVIOUS
<1>4. u \in Run /\ u.pc = "list" /\ u.job = NoJob /\ u.fired = {} /\ u.types # <<>>
  BY <1>3, DemandRunOK
<1>5. RunOK(u)'
  BY <1>4 DEF RunOK, FiredOK, AtEntry
<1>6. run' = [run EXCEPT ![s] = u]
  BY <1>2, <1>3
<1>7. TypeOK'
  BY <1>1, <1>4, <1>6 DEF StartRequest, TypeOK, bookVars, queueVars
<1> HIDE DEF s
<1> QED
  BY <1>1, <1>4, <1>5, <1>6, <1>7, QuietStep DEF StartRequest, bookVars, queueVars

\* A drain starts the run of a queued row, or finds none.
LEMMA DrainInv == ASSUME IInv, NEW m \in Machines, Drain(m) PROVE IInv'
<1> USE DEF IInv
<1> DEFINE s == <<m, "demand">>
<1>1. s \in Slots
  BY DEF Slots
<1>2. drains' \in [Machines -> Nat]
  BY DEF Drain, TypeOK
<1>3. CASE UNCHANGED run
  <2>1. TypeOK'
    BY <1>2, <1>3 DEF Drain, TypeOK, bookVars
  <2> QED
    BY <1>3, <2>1, NoRunStep DEF Drain
<1>4. ASSUME NEW j \in Queued, run' = [run EXCEPT ![s] = DemandRun(job[j].demand, j, "mark")]
      PROVE  IInv'
  <2>1. j \in Jobs /\ job[j] # NoJob /\ job[j].demand \in Demands
    BY <1>4 DEF Queued, InState, TypeOK, JobRow
  <2>2. PICK u : u = DemandRun(job[j].demand, j, "mark")
    OBVIOUS
  <2>3. u \in Run /\ u.pc = "mark" /\ u.job = j /\ u.fired = {} /\ u.types # <<>>
    BY <2>1, <2>2, DemandRunOK
  <2>4. job' = job /\ j # NoJob
    BY <2>1, NoneAssumption DEF Drain
  <2>5. RunOK(u)'
    BY <2>1, <2>3, <2>4 DEF RunOK, FiredOK, AtEntry
  <2>6. run' = [run EXCEPT ![s] = u]
    BY <1>4, <2>2
  <2>7. TypeOK'
    BY <1>1, <1>2, <2>3, <2>6 DEF Drain, TypeOK, bookVars
  <2> HIDE DEF s
  <2> QED
    BY <1>1, <2>3, <2>5, <2>6, <2>7, QuietStep DEF Drain, bookVars
<1> QED
  BY <1>3, <1>4 DEF Drain

\* A drain whose SELECT throws changes nothing but the promise chain.
LEMMA DrainFailsInv == ASSUME IInv, NEW m \in Machines, DrainFails(m) PROVE IInv'
<1> USE DEF IInv
<1>1. stranded' \subseteq Jobs
  BY Noted DEF DrainFails
<1>2. drains' \in [Machines -> Nat] /\ faults' \in 0..MaxFaults
  BY PeriodsAssumption DEF DrainFails, Fault, TypeOK
<1>3. TypeOK'
  BY <1>1, <1>2 DEF DrainFails, TypeOK, bookVars
<1> QED
  BY <1>3, NoRunStep DEF DrainFails

\* Writing a state into a job's row leaves a row.
LEMMA JobStateType ==
    ASSUME TypeOK, NEW j \in Jobs, job[j] # NoJob, NEW st \in JobStates,
           job' = [job EXCEPT ![j].state = st]
    PROVE  /\ job' \in [Jobs -> JobRow \cup {NoJob}]
           /\ \A i \in Jobs : job[i] # NoJob => job'[i] # NoJob
<1>1. job[j] \in JobRow /\ [job[j] EXCEPT !.state = st] \in JobRow
  BY DEF TypeOK, JobRow
<1> QED
  BY <1>1, NoneAssumption DEF TypeOK

\* The row of a run's job exists while the run does.
LEMMA RunsJob ==
    ASSUME IInv, NEW s \in Slots, run[s].job # NoJob
    PROVE  run[s].job \in Jobs /\ job[run[s].job] # NoJob
BY DEF IInv, TypeOK, Run, RunsOK, RunOK

\* Once the run is over nothing that it knew is needed.
LEMMA EndInv == ASSUME IInv, NEW s \in Slots, Finish(s) \/ RunFails(s) PROVE IInv'
<1> USE DEF IInv
<1>1. PICK st \in {"done", "failed"} : End(s, st)
  BY DEF Finish, RunFails
<1>2. PICK u : u = IF run[s].job = NoJob THEN IdleRun
                  ELSE [IdleRun EXCEPT !.pc = "rescan", !.job = run[s].job]
  OBVIOUS
<1>3. u \in Run /\ u.pc \in {"idle", "rescan"} /\ u.fired = {} /\ u.job = run[s].job
  BY <1>2, Idle, RunsJob DEF IdleRun, Run
<1>4. run' = [run EXCEPT ![s] = u] /\ UNCHANGED <<now, bookVars, up, drains, stranded>>
  BY <1>1, <1>2 DEF End, TypeOK
<1>5. faults' \in 0..MaxFaults
  BY PeriodsAssumption DEF Finish, RunFails, Fault, TypeOK
<1>6. lock' \in Machines \cup {NoMachine}
  BY <1>1 DEF End, TypeOK
<1>7. job' \in [Jobs -> JobRow \cup {NoJob}] /\ \A i \in Jobs : job[i] # NoJob => job'[i] # NoJob
  <2>1. CASE run[s].job = NoJob
    BY <1>1, <2>1 DEF End, TypeOK
  <2>2. CASE run[s].job # NoJob
    BY <1>1, <2>2, RunsJob, JobStateType DEF End, JobStates
  <2> QED
    BY <2>1, <2>2
<1>8. TypeOK'
  BY <1>3, <1>4, <1>5, <1>6, <1>7 DEF TypeOK, bookVars
<1>9. RunOK(u)'
  BY <1>3, <1>7, RunsJob DEF RunOK, FiredOK, Working, AtEntry
<1> QED
  BY <1>3, <1>4, <1>7, <1>8, <1>9, QuietStep DEF bookVars

\* A slot that has looked for other rows, or lost its job, is idle.
LEMMA LeaveInv == ASSUME IInv, NEW s \in Slots, Rescan(s) \/ LoseJob(s) PROVE IInv'
<1> USE DEF IInv
<1>1. PICK u : u = IdleRun
  OBVIOUS
<1>2. u \in Run /\ RunOK(u)' /\ u.pc = "idle"
  <2>1. RunOK(u)'
    BY <1>1 DEF RunOK, FiredOK, IdleRun, Working, AtEntry
  <2> QED
    BY <1>1, <2>1, Idle DEF IdleRun
<1>3. run' = [run EXCEPT ![s] = u] /\ UNCHANGED <<now, bookVars, lock, up, job>>
  BY <1>1 DEF Rescan, LoseJob
<1>4. faults' \in 0..MaxFaults
  BY PeriodsAssumption DEF Rescan, LoseJob, Fault, TypeOK
<1>5. stranded' \subseteq Jobs
  BY Noted DEF Rescan, LoseJob, TypeOK
<1>6. drains' \in [Machines -> Nat]
  BY DEF Rescan, LoseJob, TypeOK, Slots, MachineOf
<1>7. TypeOK'
  BY <1>2, <1>3, <1>4, <1>5, <1>6 DEF TypeOK, bookVars
<1> QED
  BY <1>2, <1>3, <1>7, QuietStep DEF bookVars

\* Marking the row starts the run of a job.
LEMMA MarkInv == ASSUME IInv, NEW s \in Slots, MarkRunning(s) PROVE IInv'
<1> USE DEF IInv
<1>1. run[s] \in Run /\ RunOK(run[s]) /\ run[s].pc = "mark" /\ run[s].job # NoJob
  BY DEF TypeOK, RunsOK, RunOK, MarkRunning, At
<1>2. PICK u : u = [run[s] EXCEPT !.pc = "list"]
  OBVIOUS
<1>3. u \in Run /\ u.pc = "list"
  BY <1>1, <1>2 DEF Run
<1>4. run' = [run EXCEPT ![s] = u]
  BY <1>2 DEF MarkRunning, TypeOK
<1>5. /\ job' \in [Jobs -> JobRow \cup {NoJob}]
      /\ \A i \in Jobs : job[i] # NoJob => job'[i] # NoJob
  BY <1>1, RunsJob, JobStateType DEF MarkRunning, JobStates
<1>6. TypeOK'
  BY <1>3, <1>4, <1>5 DEF MarkRunning, TypeOK, bookVars
<1>7. RunOK(u)
  <2>1. /\ u.types = run[s].types /\ u.job = run[s].job /\ u.fired = run[s].fired
        /\ u.dry = run[s].dry /\ u.todo = run[s].todo /\ u.asOf = run[s].asOf
    BY <1>1, <1>2 DEF Run
  <2>2. FiredOK(u)
    BY <1>1, <1>3, <2>1 DEF RunOK, FiredOK, Covered, AtEntry
  <2> QED
    BY <1>1, <1>3, <2>1, <2>2 DEF RunOK, AtEntry
<1>8. Grows
  BY <1>5 DEF MarkRunning, Grows, bookVars, TypeOK
<1>9. RunOK(u)'
  BY <1>3, <1>6, <1>7, <1>8, RunFrame
<1> QED
  BY <1>3, <1>4, <1>5, <1>6, <1>9, QuietStep DEF MarkRunning, bookVars

--------------------------------------------------------------------------------
(* The steps of a run.                                                      *)

\* What the three listers select are keys; a schedule that is listed is listed
\* with all of its units, and for the run's own period.
LEMMA ListedKeys ==
    ASSUME NEW t \in RuleTypes, NEW rules \in SUBSET Rules, NEW d \in Periods
    PROVE  /\ Listed(t, rules, d) \subseteq Key
           /\ t = "recurring" =>
                \A k \in Listed(t, rules, d) :
                    /\ TypeOf[RuleOf(k)] = "recurring"
                    /\ \A v \in UnitsOf[RuleOf(k)] : <<RuleOf(k), v, d>> \in Listed(t, rules, d)
<1>1. Listed(t, rules, d) \subseteq Key
  BY DEF Listed, Keys, RuleTypes
<1>2. CASE t = "recurring"
  <2> DEFINE due == {r \in {q \in rules : TypeOf[q] = t} : nextRun[r] <= d}
  <2>1. Listed(t, rules, d) = Keys(due, {d})
    BY <1>2 DEF Listed
  <2> SUFFICES ASSUME NEW k \in Keys(due, {d})
               PROVE  /\ TypeOf[RuleOf(k)] = "recurring"
                      /\ \A v \in UnitsOf[RuleOf(k)] : <<RuleOf(k), v, d>> \in Keys(due, {d})
    BY <1>1, <2>1
  <2>2. RuleOf(k) \in due /\ RuleOf(k) \in Rules
    BY DEF Keys
  <2>3. \A v \in UnitsOf[RuleOf(k)] : <<RuleOf(k), v, d>> \in Key
    BY <2>2, RulesAssumption DEF Key
  <2>4. \A v \in UnitsOf[RuleOf(k)] : <<RuleOf(k), v, d>> \in Keys(due, {d})
    BY <2>2, <2>3 DEF Keys, RuleOf, PeriodOf
  <2> QED
    BY <1>2, <2>2, <2>4
<1> QED
  BY <1>1, <1>2

\* The lister's answer covers every unit of the schedules it fires.
LEMMA ListInv == ASSUME IInv, NEW s \in Slots, List(s) PROVE IInv'
<1> USE DEF IInv
<1>1. run[s] \in Run /\ RunOK(run[s]) /\ run[s].pc = "list"
  BY DEF TypeOK, RunsOK, List, At
<1> DEFINE t == Head(run[s].types)
           entries == Listed(t, run[s].rules, run[s].asOf)
           fired == IF t = "recurring" /\ ~run[s].dry THEN {RuleOf(k) : k \in entries} ELSE {}
<1>2. run[s].types \in Seq(RuleTypes) /\ run[s].types # <<>>
      /\ run[s].rules \in SUBSET Rules /\ run[s].asOf \in Periods
  BY <1>1 DEF Run, RunOK, Working
<1>3. t \in RuleTypes
  BY <1>2, HeadTailProperties
<1>4. PICK u : u = [run[s] EXCEPT !.todo = entries, !.pc = "next", !.fired = fired]
  OBVIOUS
<1>5. entries \subseteq Key /\ fired \subseteq Rules
  <2>1. entries \subseteq Key
    BY <1>2, <1>3, ListedKeys
  <2> QED
    BY <2>1 DEF Key, RuleOf
<1>6. /\ u.pc = "next" /\ u.fired = fired /\ u.todo = entries /\ u.types = run[s].types
      /\ u.job = run[s].job /\ u.dry = run[s].dry /\ u.asOf = run[s].asOf
  BY <1>1, <1>4 DEF Run
<1>7. u \in Run
  BY <1>1, <1>4, <1>5 DEF Run
<1>8. run' = [run EXCEPT ![s] = u]
  BY <1>4 DEF List, TypeOK
<1>9. TypeOK'
  BY <1>7, <1>8 DEF List, TypeOK, bookVars, queueVars
<1>10. FiredOK(u)
  <2> SUFFICES ASSUME NEW r \in fired
               PROVE  /\ ~run[s].dry /\ TypeOf[r] = "recurring"
                      /\ \A v \in UnitsOf[r] : <<r, v, run[s].asOf>> \in entries
    BY <1>6 DEF FiredOK, Covered
  <2>1. t = "recurring" /\ ~run[s].dry /\ \E k \in entries : r = RuleOf(k)
    OBVIOUS
  <2> QED
    BY <1>2, <1>3, <2>1, ListedKeys
<1>11. RunOK(u)
  BY <1>1, <1>2, <1>6, <1>10 DEF RunOK, AtEntry
<1>12. RunOK(u)'
  <2>1. Grows
    BY DEF List, Grows, bookVars, queueVars, TypeOK
  <2> QED
    BY <1>7, <1>9, <1>11, <2>1, RunFrame
<1> HIDE DEF t, entries, fired
<1> QED
  BY <1>6, <1>7, <1>8, <1>9, <1>12, QuietStep DEF List, bookVars, queueVars

\* The guard opens a window on a key that has no row; if another run has one
\* open on the same key, the key is contended from now on.
LEMMA CheckInv == ASSUME IInv, NEW s \in Slots, Check(s) PROVE IInv'
<1> USE DEF IInv
<1>1. run[s] \in Run /\ RunOK(run[s]) /\ run[s].pc = "next"
  BY DEF TypeOK, RunsOK, Check, At
<1>2. PICK k \in run[s].todo :
        /\ run' = [run EXCEPT ![s].todo = @ \ {k}, ![s].key = k, ![s].outcome = "skipped",
                              ![s].pc = IF Posted(k) THEN "log" ELSE "owner"]
        /\ contended' = IF ~run[s].dry /\ \E t \in Slots \ {s} : InWindow(t, k)
                        THEN contended \cup {k} ELSE contended
  BY DEF Check
<1>3. k \in Key /\ charged[k] \in Nat /\ (~Posted(k) => charged[k] = 0)
  <2>1. k \in Key /\ charged[k] \in Nat
    BY <1>1 DEF Run, TypeOK
  <2>2. PeriodOf(k) \in Periods /\ MonthsOf[RuleOf(k)] \in Nat \ {0} /\ PeriodOf(k) \in Nat
    BY <2>1, RulesAssumption DEF Key, RuleOf, PeriodOf, Periods
  <2>3. k = <<RuleOf(k), k[2], PeriodOf(k)>>
    BY <2>1 DEF Key, RuleOf, PeriodOf
  <2>4. charged[k] > 0 => Posted(k)
    <3>1. PeriodOf(k) <= PeriodOf(k) /\ PeriodOf(k) < PeriodOf(k) + MonthsOf[RuleOf(k)]
      BY <2>2
    <3> QED
      BY <2>2, <2>3, <3>1 DEF Posted
  <2> QED
    BY <2>1, <2>4
<1>4. PICK u : u = [run[s] EXCEPT !.todo = @ \ {k}, !.key = k, !.outcome = "skipped",
                                  !.pc = IF Posted(k) THEN "log" ELSE "owner"]
  OBVIOUS
<1>5. /\ u.pc = (IF Posted(k) THEN "log" ELSE "owner")
      /\ u.key = k /\ u.outcome = "skipped" /\ u.todo = run[s].todo \ {k}
      /\ u.types = run[s].types /\ u.fired = run[s].fired
      /\ u.job = run[s].job /\ u.dry = run[s].dry /\ u.asOf = run[s].asOf
  BY <1>1, <1>4 DEF Run
<1>6. u \in Run
  BY <1>1, <1>3, <1>4 DEF Run, Outcomes
<1>7. run' = [run EXCEPT ![s] = u]
  BY <1>2, <1>4 DEF TypeOK
<1>8. TypeOK'
  <2>1. contended' \subseteq Key
    BY <1>2, <1>3 DEF TypeOK
  <2> QED
    BY <1>6, <1>7, <2>1 DEF Check, TypeOK, queueVars
<1>9. Grows
  BY DEF Check, Grows, queueVars, TypeOK
<1>10. FiredOK(u)
  <2>1. u.pc \in AtEntry
    BY <1>5 DEF AtEntry
  <2> QED
    BY <1>1, <1>5, <2>1 DEF RunOK, FiredOK, Covered, AtEntry
<1>11. RunOK(u)'
  <2>1. RunOK(u)
    BY <1>1, <1>3, <1>5, <1>10 DEF RunOK, Working, AtEntry
  <2> QED
    BY <1>6, <1>8, <1>9, <2>1, RunFrame
<1>12. RunsOK'
  BY <1>6, <1>7, <1>8, <1>9, <1>11, SlotStep
<1>13. OneWriter'
  <2>1. charged' = charged
    BY DEF Check
  <2>2. \A t \in Slots \ {s} : run'[t] = run[t]
    BY <1>7 DEF TypeOK
  <2>3. run'[s] = u
    BY <1>7 DEF TypeOK
  <2>4. \A t \in Slots \ {s}, c \in Key : InWindow(t, c)' <=> InWindow(t, c)
    BY <2>2 DEF InWindow
  <2>5. \A c \in Key : InWindow(s, c)' => c = k /\ charged[k] = 0 /\ ~run[s].dry
    BY <1>3, <1>5, <2>3 DEF InWindow
  <2>6. \A t \in Slots \ {s} : InWindow(t, k) /\ ~run[s].dry => k \in contended'
    BY <1>2
  <2>7. contended \subseteq contended'
    BY <1>2
  <2> SUFFICES ASSUME NEW c \in Key \ contended'
               PROVE  /\ charged[c] <= 1
                      /\ \A t \in Slots : InWindow(t, c)' => charged[c] = 0
                      /\ \A t, v \in Slots : InWindow(t, c)' /\ InWindow(v, c)' => t = v
    BY <2>1 DEF OneWriter
  <2>8. charged[c] <= 1 /\ \A t \in Slots : InWindow(t, c)' => charged[c] = 0
    BY <2>4, <2>5, <2>7 DEF OneWriter
  <2>9. ASSUME NEW t \in Slots, NEW v \in Slots, InWindow(t, c)', InWindow(v, c)' PROVE t = v
    <3>1. CASE t # s /\ v # s
      BY <2>4, <2>7, <2>9, <3>1 DEF OneWriter
    <3>2. CASE t = s \/ v = s
      BY <2>4, <2>5, <2>6, <2>9, <3>2
    <3> QED
      BY <3>1, <3>2
  <2> QED
    BY <2>8, <2>9
<1>14. NoSilentMiss' /\ LogIsTrue'
  BY SameBooks DEF Check
<1> QED
  BY <1>8, <1>12, <1>13, <1>14

\* The owner decides what becomes of the entry; a late fee has its event by now.
LEMMA ResolveInv == ASSUME IInv, NEW s \in Slots, ResolveOwner(s) PROVE IInv'
<1> USE DEF IInv
<1>1. run[s] \in Run /\ RunOK(run[s]) /\ run[s].pc = "owner" /\ run[s].key \in Key
  BY DEF TypeOK, RunsOK, RunOK, AtEntry, ResolveOwner, At
<1> DEFINE ok == HasOwner(run[s].key)
<1>2. PICK u : u = [run[s] EXCEPT !.outcome = IF ok THEN "success" ELSE "skipped",
                                  !.pc = IF ok /\ ~run[s].dry THEN "insert" ELSE "log"]
  OBVIOUS
<1>3. /\ u.pc = (IF ok /\ ~run[s].dry THEN "insert" ELSE "log")
      /\ u.outcome = (IF ok THEN "success" ELSE "skipped")
      /\ u.key = run[s].key /\ u.todo = run[s].todo
      /\ u.types = run[s].types /\ u.fired = run[s].fired
      /\ u.job = run[s].job /\ u.dry = run[s].dry /\ u.asOf = run[s].asOf
  BY <1>1, <1>2 DEF Run
<1>4. u \in Run
  BY <1>1, <1>2 DEF Run, Outcomes
<1>5. run' = [run EXCEPT ![s] = u]
  BY <1>2 DEF ResolveOwner, TypeOK
<1>6. feeEvents \subseteq feeEvents' /\ feeEvents' \subseteq Key
      /\ (Type(u.key) = "late-fee" => u.key \in feeEvents')
  BY <1>1, <1>3 DEF ResolveOwner, TypeOK
<1>7. TypeOK'
  BY <1>4, <1>5, <1>6 DEF ResolveOwner, TypeOK, queueVars
<1> HIDE DEF ok
<1>8. FiredOK(u)'
  <2>1. u.pc \in AtEntry /\ run[s].pc \in AtEntry
    BY <1>1, <1>3 DEF AtEntry
  <2>2. FiredOK(u)
    BY <1>1, <1>3, <2>1 DEF RunOK, FiredOK, Covered
  <2> QED
    BY <2>2 DEF ResolveOwner, FiredOK, Covered, Accounted
<1>9. RunOK(u)'
  BY <1>1, <1>3, <1>6, <1>8 DEF RunOK, Working, AtEntry, ResolveOwner, Type, RuleOf, queueVars
<1> QED
  BY <1>1, <1>3, <1>4, <1>5, <1>6, <1>7, <1>9, QuietStep DEF ResolveOwner, queueVars

\* A failure closes the window, and is to be logged.
LEMMA FailInv == ASSUME IInv, NEW s \in Slots, ExecuteFails(s) PROVE IInv'
<1> USE DEF IInv
<1>1. run[s] \in Run /\ RunOK(run[s]) /\ run[s].pc \in {"owner", "insert"}
  BY DEF TypeOK, RunsOK, ExecuteFails
<1>2. PICK u : u = [run[s] EXCEPT !.outcome = "failed", !.pc = "log"]
  OBVIOUS
<1>3. /\ u.pc = "log" /\ u.outcome = "failed" /\ u.key = run[s].key /\ u.todo = run[s].todo
      /\ u.types = run[s].types /\ u.fired = run[s].fired
      /\ u.job = run[s].job /\ u.dry = run[s].dry /\ u.asOf = run[s].asOf
  BY <1>1, <1>2 DEF Run
<1>4. u \in Run
  BY <1>1, <1>2 DEF Run, Outcomes
<1>5. run' = [run EXCEPT ![s] = u]
  BY <1>2 DEF ExecuteFails, TypeOK
<1>6. TypeOK'
  <2>1. faults' \in 0..MaxFaults
    BY PeriodsAssumption DEF ExecuteFails, Fault, TypeOK
  <2>2. run' \in [Slots -> Run]
    BY <1>4, <1>5 DEF TypeOK
  <2> QED
    BY <2>1, <2>2 DEF ExecuteFails, TypeOK, bookVars, queueVars
<1>7. RunOK(u)
  <2>1. FiredOK(u)
    BY <1>1, <1>3 DEF RunOK, FiredOK, Covered, AtEntry
  <2> QED
    BY <1>1, <1>3, <2>1 DEF RunOK, Working, AtEntry
<1>8. RunOK(u)'
  <2>1. Grows
    BY DEF ExecuteFails, Grows, bookVars, queueVars, TypeOK
  <2> QED
    BY <1>4, <1>6, <1>7, <2>1, RunFrame
<1> QED
  BY <1>3, <1>4, <1>5, <1>6, <1>8, QuietStep DEF ExecuteFails, bookVars, queueVars

\* The next rule type, if any is left.
LEMMA NextTypeInv == ASSUME IInv, NEW s \in Slots, NextType(s) PROVE IInv'
<1> USE DEF IInv
<1>1. run[s] \in Run /\ RunOK(run[s]) /\ run[s].pc = "next" /\ run[s].fired = {}
  BY DEF TypeOK, RunsOK, NextType, At
<1>2. run[s].types \in Seq(RuleTypes) /\ run[s].types # <<>>
  BY <1>1 DEF Run, RunOK, Working
<1>3. PICK u : u = [run[s] EXCEPT !.types = Tail(@),
                                  !.pc = IF Len(run[s].types) = 1 THEN "finish" ELSE "list"]
  OBVIOUS
<1>4. Tail(run[s].types) \in Seq(RuleTypes) /\ Len(Tail(run[s].types)) = Len(run[s].types) - 1
  BY <1>2, HeadTailProperties
<1>5. /\ u.pc = (IF Len(run[s].types) = 1 THEN "finish" ELSE "list")
      /\ u.types = Tail(run[s].types) /\ u.fired = {} /\ u.job = run[s].job
  BY <1>1, <1>3 DEF Run
<1>6. u \in Run
  BY <1>1, <1>3, <1>4 DEF Run
<1>7. u.pc = "list" => u.types # <<>>
  <2>1. Len(run[s].types) \in Nat /\ Len(<<>>) = 0
    BY <1>2
  <2>2. u.pc = "list" => Len(u.types) # 0
    BY <1>4, <1>5, <2>1
  <2> QED
    BY <2>1, <2>2
<1>8. run' = [run EXCEPT ![s] = u]
  BY <1>3 DEF NextType, TypeOK
<1>9. TypeOK'
  BY <1>6, <1>8 DEF NextType, TypeOK, bookVars, queueVars
<1>10. RunOK(u)'
  BY <1>1, <1>5, <1>7 DEF RunOK, FiredOK, Working, AtEntry, NextType, queueVars
<1> QED
  BY <1>5, <1>6, <1>8, <1>9, <1>10, QuietStep DEF NextType, bookVars, queueVars

\* The insert is the only one of its key unless the key is contended.
LEMMA InsertInv == ASSUME IInv, NEW s \in Slots, InsertCharge(s) PROVE IInv'
<1> USE DEF IInv
<1> DEFINE k == run[s].key
<1>1. run[s] \in Run /\ RunOK(run[s]) /\ run[s].pc = "insert" /\ k \in Key /\ charged[k] \in Nat
  BY DEF TypeOK, RunsOK, RunOK, AtEntry, InsertCharge, At
<1>2. PICK u : u = [run[s] EXCEPT !.pc = "log"]
  OBVIOUS
<1>3. /\ u.pc = "log" /\ u.key = k /\ u.todo = run[s].todo /\ u.outcome = run[s].outcome
      /\ u.types = run[s].types /\ u.fired = run[s].fired
      /\ u.job = run[s].job /\ u.dry = run[s].dry /\ u.asOf = run[s].asOf
  BY <1>1, <1>2 DEF Run
<1>4. u \in Run
  BY <1>1, <1>2 DEF Run
<1>5. run' = [run EXCEPT ![s] = u]
  BY <1>2 DEF InsertCharge, TypeOK
<1>6. /\ charged' \in [Key -> Nat] /\ charged'[k] = charged[k] + 1
      /\ \A c \in Key \ {k} : charged'[c] = charged[c]
  BY <1>1 DEF InsertCharge, TypeOK
<1>7. TypeOK'
  BY <1>4, <1>5, <1>6 DEF InsertCharge, TypeOK, queueVars
<1>8. Grows
  BY <1>1, <1>6 DEF InsertCharge, Grows, queueVars, TypeOK
<1>9. FiredOK(u)'
  <2>1. FiredOK(u)
    BY <1>1, <1>3 DEF RunOK, FiredOK, Covered, AtEntry
  <2>2. \A c \in Key : Accounted(c) => Accounted(c)'
    BY <1>7, <1>8, AccountedStays
  <2>3. \A r \in u.fired : \A v \in UnitsOf[r] : <<r, v, u.asOf>> \in Key
    BY <1>4, RulesAssumption DEF Run, Key
  <2> QED
    BY <2>1, <2>2, <2>3 DEF FiredOK, Covered
<1>10. RunOK(u)'
  BY <1>1, <1>3, <1>6, <1>9 DEF RunOK, Working, AtEntry, InsertCharge, queueVars
<1>11. RunsOK'
  BY <1>4, <1>5, <1>7, <1>8, <1>10, SlotStep
<1>12. OneWriter'
  <2>1. contended' = contended
    BY DEF InsertCharge
  <2>2. \A t \in Slots \ {s} : run'[t] = run[t]
    BY <1>5 DEF TypeOK
  <2>3. run'[s] = u
    BY <1>5 DEF TypeOK
  <2>4. \A t \in Slots, c \in Key : InWindow(t, c)' => t # s /\ InWindow(t, c)
    BY <1>3, <2>2, <2>3 DEF InWindow
  <2>5. InWindow(s, k)
    BY <1>1 DEF InWindow, RunOK
  <2> HIDE DEF k
  <2> SUFFICES ASSUME NEW c \in Key \ contended
               PROVE  /\ charged'[c] <= 1
                      /\ \A t \in Slots : InWindow(t, c)' => charged'[c] = 0
                      /\ \A t, v \in Slots : InWindow(t, c)' /\ InWindow(v, c)' => t = v
    BY <2>1 DEF OneWriter
  <2>6. CASE c = k
    <3>1. charged[k] = 0 /\ \A t \in Slots : InWindow(t, k) => t = s
      BY <2>5, <2>6 DEF OneWriter
    <3> QED
      BY <1>6, <2>4, <2>6, <3>1
  <2>7. CASE c # k
    BY <1>6, <2>4, <2>7 DEF OneWriter
  <2> QED
    BY <2>6, <2>7
<1>13. NoSilentMiss'
  BY <1>7, <1>8, AccountedStays DEF NoSilentMiss, InsertCharge, Type, RuleOf, PeriodOf
<1>14. LogIsTrue'
  <2>1. runLog' = runLog /\ feeEvents' = feeEvents
    BY DEF InsertCharge
  <2>2. Type(k) = "late-fee" => k \in feeEvents
    BY <1>1 DEF RunOK
  <2> HIDE DEF k
  <2>3. ASSUME NEW c \in Key PROVE /\ <<c, "success">> \in runLog => charged'[c] > 0
                                   /\ Type(c) = "late-fee" /\ charged'[c] > 0 => c \in feeEvents
    BY <1>1, <1>6, <2>2 DEF LogIsTrue
  <2> QED
    BY <2>1, <2>3 DEF LogIsTrue, Type, RuleOf
<1> QED
  BY <1>7, <1>11, <1>12, <1>13, <1>14

\* The log row tells what became of the entry: if it was not charged, why not.
LEMMA LogInv == ASSUME IInv, NEW s \in Slots, WriteLog(s) PROVE IInv'
<1> USE DEF IInv
<1>1. PICK k \in Key, status \in Outcomes :
           /\ k = run[s].key /\ status = (IF run[s].dry THEN "deferred" ELSE run[s].outcome)
           /\ run[s] \in Run /\ RunOK(run[s]) /\ run[s].pc = "log" /\ charged[k] \in Nat
  <2>1. run[s] \in Run /\ RunOK(run[s]) /\ run[s].pc = "log"
    BY DEF TypeOK, RunsOK, WriteLog, At
  <2>2. run[s].key \in Key /\ run[s].outcome \in Outcomes /\ "deferred" \in Outcomes
    BY <2>1 DEF RunOK, AtEntry, Run, Outcomes
  <2> QED
    BY <2>1, <2>2 DEF TypeOK
<1>2. PICK u : u = [run[s] EXCEPT !.pc = "next", !.key = NoKey, !.outcome = "skipped"]
  OBVIOUS
<1>3. /\ u.pc = "next" /\ u.key = NoKey /\ u.todo = run[s].todo
      /\ u.types = run[s].types /\ u.fired = run[s].fired
      /\ u.job = run[s].job /\ u.dry = run[s].dry /\ u.asOf = run[s].asOf
  BY <1>1, <1>2 DEF Run
<1>4. u \in Run
  BY <1>1, <1>2 DEF Run, Outcomes
<1>5. run' = [run EXCEPT ![s] = u]
  BY <1>2 DEF WriteLog, TypeOK
<1>6. runLog' = runLog \cup {<<k, status>>}
  BY <1>1 DEF WriteLog
<1>7. TypeOK'
  <2>1. run' \in [Slots -> Run]
    BY <1>4, <1>5 DEF TypeOK
  <2>2. runLog' \subseteq Key \X Outcomes
    BY <1>6 DEF TypeOK
  <2> QED
    BY <2>1, <2>2 DEF WriteLog, TypeOK, queueVars
<1>8. Grows
  BY <1>6 DEF WriteLog, Grows, queueVars, TypeOK
<1>9. ~run[s].dry => Accounted(k)'
  <2>1. ~run[s].dry => charged[k] > 0 \/ status \in {"skipped", "failed"}
    BY <1>1, <1>6 DEF RunOK, Outcomes
  <2> QED
    BY <1>6, <2>1 DEF Accounted, WriteLog
<1>10. FiredOK(u)'
  <2>1. \A c \in Key : Accounted(c) => Accounted(c)'
    BY <1>7, <1>8, AccountedStays
  <2>2. \A r \in u.fired : \A v \in UnitsOf[r] : <<r, v, u.asOf>> \in Key
    BY <1>4, RulesAssumption DEF Run, Key
  <2>3. ASSUME NEW r \in u.fired, NEW v \in UnitsOf[r]
        PROVE  Covered(u, <<r, v, u.asOf>>)'
    <3>1. ~run[s].dry /\ Covered(run[s], <<r, v, u.asOf>>)
      BY <1>1, <1>3 DEF RunOK, FiredOK
    <3> QED
      BY <1>1, <1>3, <1>9, <2>1, <2>2, <3>1 DEF Covered
  <2>4. \A r \in u.fired : ~u.dry /\ TypeOf[r] = "recurring"
    BY <1>1, <1>3 DEF RunOK, FiredOK
  <2> QED
    BY <2>3, <2>4 DEF FiredOK
<1>11. RunOK(u)'
  BY <1>1, <1>3, <1>10 DEF RunOK, Working, AtEntry, WriteLog, queueVars
<1>12. RunsOK'
  BY <1>4, <1>5, <1>7, <1>8, <1>11, SlotStep
<1>13. OneWriter'
  <2>1. \A t \in Slots \ {s} : run'[t] = run[t]
    BY <1>5 DEF TypeOK
  <2>2. run'[s] = u
    BY <1>5 DEF TypeOK
  <2>3. \A t \in Slots, c \in Key : InWindow(t, c)' => InWindow(t, c)
    BY <1>3, <2>1, <2>2 DEF InWindow
  <2> QED
    BY <2>3, NoNewWriter DEF WriteLog
<1>14. NoSilentMiss'
  BY <1>7, <1>8, AccountedStays DEF NoSilentMiss, WriteLog, Type, RuleOf, PeriodOf
<1>15. LogIsTrue'
  <2>1. status = "success" => charged[k] > 0
    BY <1>1 DEF RunOK
  <2>2. charged' = charged /\ feeEvents' = feeEvents
    BY DEF WriteLog
  <2> QED
    BY <1>6, <2>1, <2>2 DEF LogIsTrue, Type, RuleOf
<1> QED
  BY <1>7, <1>12, <1>13, <1>14, <1>15

\* When a schedule is advanced, every unit of it is accounted for.
LEMMA AdvanceInv == ASSUME IInv, NEW s \in Slots, Advance(s) PROVE IInv'
<1> USE DEF IInv
<1>1. run[s] \in Run /\ RunOK(run[s]) /\ run[s].pc = "next" /\ run[s].todo = {}
  BY DEF TypeOK, RunsOK, Advance, At
<1>2. PICK r \in run[s].fired :
        /\ run' = [run EXCEPT ![s].fired = @ \ {r}]
        /\ \/ nextRun' = [nextRun EXCEPT ![r] = run[s].asOf + MonthsOf[r]] /\ UNCHANGED faults
           \/ Fault /\ UNCHANGED nextRun
  BY DEF Advance
<1>3. PICK u : u = [run[s] EXCEPT !.fired = @ \ {r}]
  OBVIOUS
<1>4. /\ u.pc = "next" /\ u.key = run[s].key /\ u.todo = {}
      /\ u.types = run[s].types /\ u.fired = run[s].fired \ {r}
      /\ u.job = run[s].job /\ u.dry = run[s].dry /\ u.asOf = run[s].asOf
  BY <1>1, <1>3 DEF Run
<1>5. /\ u \in Run /\ r \in Rules /\ run[s].asOf \in Periods
      /\ MonthsOf[r] \in Nat \ {0}
  BY <1>1, <1>3, RulesAssumption DEF Run
<1>6. run' = [run EXCEPT ![s] = u]
  BY <1>2, <1>3 DEF TypeOK
<1>7. nextRun' \in [Rules -> Nat] /\ faults' \in 0..MaxFaults
  <2>1. run[s].asOf + MonthsOf[r] \in Nat
    BY <1>5 DEF Periods
  <2> QED
    BY <1>2, <2>1, PeriodsAssumption DEF TypeOK, Fault
<1>8. TypeOK'
  BY <1>5, <1>6, <1>7 DEF Advance, TypeOK, queueVars
<1>9. Grows
  BY DEF Advance, Grows, queueVars, TypeOK
<1>10. RunOK(u)
  <2>1. FiredOK(u)
    BY <1>1, <1>4 DEF RunOK, FiredOK, Covered, AtEntry
  <2> QED
    BY <1>1, <1>4, <2>1 DEF RunOK, Working, AtEntry
<1>11. RunsOK'
  <2>1. RunOK(u)'
    BY <1>5, <1>8, <1>9, <1>10, RunFrame
  <2> QED
    BY <1>5, <1>6, <1>8, <1>9, <2>1, SlotStep
<1>12. OneWriter'
  <2>1. \A t \in Slots \ {s} : run'[t] = run[t]
    BY <1>6 DEF TypeOK
  <2>2. run'[s] = u
    BY <1>6 DEF TypeOK
  <2>3. \A t \in Slots, c \in Key : InWindow(t, c)' => InWindow(t, c)
    BY <1>4, <2>1, <2>2 DEF InWindow
  <2> QED
    BY <2>3, NoNewWriter DEF Advance
<1>13. NoSilentMiss'
  <2> SUFFICES ASSUME NEW k \in Key, Type(k) = "recurring", k[2] \in UnitsOf[RuleOf(k)],
                      nextRun'[RuleOf(k)] = PeriodOf(k) + MonthsOf[RuleOf(k)]
               PROVE  Accounted(k)
    BY DEF NoSilentMiss, Advance, Accounted, Type, RuleOf, PeriodOf
  <2>1. CASE nextRun'[RuleOf(k)] = nextRun[RuleOf(k)]
    BY <2>1 DEF NoSilentMiss
  <2>2. CASE nextRun'[RuleOf(k)] # nextRun[RuleOf(k)]
    <3>1. RuleOf(k) = r /\ nextRun'[r] = run[s].asOf + MonthsOf[r]
      <4>1. RuleOf(k) \in Rules
        BY DEF Key, RuleOf
      <4> QED
        BY <1>2, <1>5, <2>2, <4>1 DEF TypeOK
    <3>2. PeriodOf(k) = run[s].asOf
      BY <1>5, <3>1 DEF Key, PeriodOf, Periods
    <3>3. k = <<r, k[2], run[s].asOf>>
      BY <3>1, <3>2 DEF Key, RuleOf, PeriodOf
    <3>4. Covered(run[s], k)
      BY <1>1, <3>1, <3>3 DEF RunOK, FiredOK
    <3> QED
      BY <1>1, <3>4 DEF Covered, AtEntry
  <2> QED
    BY <2>1, <2>2
<1>14. LogIsTrue'
  BY DEF Advance, LogIsTrue, Type, RuleOf
<1> QED
  BY <1>8, <1>11, <1>12, <1>13, <1>14

--------------------------------------------------------------------------------
(* The theorems.                                                            *)

\* Every step keeps the invariant.
LEMMA InvNext == IInv /\ [Next]_vars => IInv'
<1> SUFFICES ASSUME IInv, [Next]_vars PROVE IInv'
  OBVIOUS
<1>1. CASE UNCHANGED vars
  <2>1. TypeOK'
    BY <1>1 DEF vars, bookVars, queueVars, IInv, TypeOK
  <2> QED
    BY <1>1, <2>1, NoRunStep DEF vars, queueVars
<1>2. CASE Tick
  BY <1>2, TickInv
<1>3. ASSUME NEW m \in Machines,
             \/ StartSweep(m) \/ FreeLock(m) \/ StartRequest(m) \/ Enqueue(m)
             \/ Drain(m) \/ DrainFails(m) \/ Crash(m) \/ Boot(m)
      PROVE  IInv'
  BY <1>3, StartSweepInv, OutsideInv, StartRequestInv, DrainInv,
     DrainFailsInv, CrashInv, BootInv
<1>4. ASSUME NEW s \in Slots, RunStep(s) \/ ExecuteFails(s) \/ RunFails(s) \/ LoseJob(s)
      PROVE  IInv'
  BY <1>4, MarkInv, ListInv, CheckInv, ResolveInv, InsertInv, LogInv, AdvanceInv,
     NextTypeInv, EndInv, LeaveInv, FailInv DEF RunStep
<1> QED
  BY <1>1, <1>2, <1>3, <1>4 DEF Next

\* In every reachable state of the sweeps, requests and jobs, whatever
\* fails or dies, the inductive invariant holds.
THEOREM ChargingInvariance == Spec => []IInv
BY InitInv, InvNext, PTL DEF Spec

\* Every reachable state is well typed.
THEOREM ChargingTypes == Spec => []TypeOK
BY ChargingInvariance, PTL DEF IInv

\* The check before each insert of a charge suffices but for runs that have
\* been between the check and the insert of the same charge at once.
THEOREM OneChargePerPeriod == Spec => []ChargedOncePerPeriod
<1>1. IInv => ChargedOncePerPeriod
  BY DEF IInv, OneWriter, ChargedOncePerPeriod
<1> QED
  BY <1>1, ChargingInvariance, PTL

\* advanceRecurringSchedules leaves no unit of the month behind unaccounted.
THEOREM AdvanceMissesNothing == Spec => []NoSilentMiss
BY ChargingInvariance, PTL DEF IInv

\* The run log and the late-fee events agree with the ledger of charges.
THEOREM RunLogAgrees == Spec => []LogIsTrue
BY ChargingInvariance, PTL DEF IInv
==============================================================================
