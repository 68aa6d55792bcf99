-------------------------- MODULE AutopayCollection --------------------------
(***************************************************************************)
(* How enrolled owners are charged.  The sweep runs two parts at once: the *)
(* collection charges every enrollment whose nextPaymentDate has come, and *)
(* the retries charge failed payments again after some days.  A manual run *)
(* (POST /api/financial/autopay/run) is one more collection.  A worker is  *)
(* one such run; each of its database round trips is a step, so is the     *)
(* call of Stripe, and the events of the charges come in between.          *)
(*                                                                         *)
(* Left out: amounts, the ledger rows (PaymentWebhooks), failed and        *)
(* skipped autopay_runs rows, which nothing reads, changes of dayOfMonth,  *)
(* days of the month that some months lack, HOAs without a gateway.  The   *)
(* handling of an event, and the read and write of a status, are one step: *)
(* PaymentWebhooks has both.                                               *)
(***************************************************************************)
EXTENDS Naturals, Sequences, FiniteSets

CONSTANTS
    Enrollments,
    Collectors,   \* collections: of the sweep, and manual ones
    Retriers,     \* the retries of the sweep; two where its lock was lost
    MaxTxns,      \* bound: rows of payment_transactions
    MonthLength,  \* days of a month
    DueDay,       \* autopay_enrollments.dayOfMonth
    Every,        \* frequency: 1 monthly, 3 quarterly, 12 annual
    RetryDays,    \* delinquency_settings.retryScheduleJson
    MaxAttempts,  \* delinquency_settings.maxRetryAttempts
    Outcomes,     \* what Stripe may do when it is asked to charge: bank debits
                  \* are "processing" or "none", a refusal; cards may succeed
    MaxDay,       \* bound: days the clock runs through
    MaxEdits,     \* bound: changes an owner makes
    MaxFaults,    \* bound: lost answers, failed round trips, workers that die
    FailureEvents,  \* events of one failure: payment_intent.payment_failed
                    \* and charge.failed
    NoEnrollment, NoTxn

--------------------------------------------------------------------------------
Workers == Collectors \cup Retriers
Txns == 1..MaxTxns
Days == 1..MaxDay

Month(d) == (d - 1) \div MonthLength
DueIn(month) == month * MonthLength + DueDay

\* The day advanceDate and computeFirstRunDate come to, from day d.
AdvanceDate(d) == DueIn(Month(d) + Every)
FirstRunDate(d) == IF DueIn(Month(d)) > d THEN DueIn(Month(d)) ELSE DueIn(Month(d) + 1)

Enrollment == [status : {"active", "paused", "cancelled"}, next : Nat, usable : BOOLEAN]

\* A row of payment_transactions; day is createdAt, of is retryOfTransactionId
\* (0: NULL), known says whether providerIntentId is set.
Txn == [enr : Enrollments, day : Days, status : {"draft", "pending", "succeeded", "failed"},
        attempt : Nat \ {0}, of : Txns \cup {0}, eligible : BOOLEAN, retryAt : Nat,
        known : BOOLEAN]

Answers == {"succeeded", "pending", "failed", "no_intent"}

Task == [pc : {"idle", "next", "inflight", "method", "drop", "create", "link", "spend",
               "charge", "answer", "record", "advance", "mark"},
         day : Days,                        \* now, as the run began
         due : SUBSET Enrollments,          \* a collection's enrollments to do
         list : SUBSET Txns,                \* the retries' payments to do
         enr : Enrollments \cup {NoEnrollment},
         orig : Txns \cup {0},              \* the payment that is retried
         txn : Txns \cup {0}, answer : Answers]

Idle == [pc |-> "idle", day |-> 1, due |-> {}, list |-> {}, enr |-> NoEnrollment,
         orig |-> 0, txn |-> 0, answer |-> "failed"]

ASSUME CalendarAssumption ==
    /\ MonthLength \in Nat \ {0} /\ DueDay \in 1..MonthLength /\ Every \in Nat \ {0}
    /\ MaxDay \in Nat \ {0}
ASSUME RetryAssumption ==   \* a retry is not due before the run that failed is over
    RetryDays \in Seq(Nat \ {0, 1}) /\ Len(RetryDays) > 0 /\ MaxAttempts \in Nat \ {0}
ASSUME OutcomesAssumption == Outcomes \subseteq {"none", "processing", "succeeded"}
ASSUME BoundsAssumption == MaxTxns \in Nat /\ MaxEdits \in Nat /\ MaxFaults \in Nat
                           /\ FailureEvents \in Nat
ASSUME WorkersAssumption == Collectors \cap Retriers = {}
ASSUME NoneAssumption == NoEnrollment \notin Enrollments /\ NoTxn \notin Txn

VARIABLES
    today,
    enr,        \* autopay_enrollments, usable: its saved method is active
    txn,        \* payment_transactions
    stripe,     \* what Stripe did under the transaction's idempotency key
    reports,    \* events of the failure that were handled
    paid,       \* (enrollment, month) with an autopay_runs row in status success
    task,       \* what each worker is doing
    edits, faults,
    doubtful    \* history: see below

vars == <<today, enr, txn, stripe, reports, paid, task, edits, faults, doubtful>>

TypeOK ==
    /\ today \in Days
    /\ enr \in [Enrollments -> Enrollment]
    /\ txn \in [Txns -> Txn \cup {NoTxn}]
    /\ stripe \in [Txns -> {"none", "processing", "succeeded", "failed"}]
    /\ reports \in [Txns -> 0..FailureEvents]
    /\ paid \subseteq Enrollments \X (0..MaxDay)
    /\ task \in [Workers -> Task]
    /\ edits \in 0..MaxEdits /\ faults \in 0..MaxFaults
    /\ doubtful \subseteq Enrollments

Init ==
    /\ today = 1
    /\ enr = [e \in Enrollments |-> [status |-> "active", next |-> DueDay, usable |-> TRUE]]
    /\ txn = [t \in Txns |-> NoTxn]
    /\ stripe = [t \in Txns |-> "none"]
    /\ reports = [t \in Txns |-> 0]
    /\ paid = {}
    /\ task = [w \in Workers |-> Idle]
    /\ edits = 0 /\ faults = 0
    /\ doubtful = {}

--------------------------------------------------------------------------------
Rows == {t \in Txns : txn[t] # NoTxn}
RowsOf(e) == {t \in Rows : txn[t].enr = e}
Live(t) == stripe[t] \in {"processing", "succeeded"}
Fault == faults < MaxFaults /\ faults' = faults + 1

At(w, l) == task[w].pc = l
Go(w, l) == task' = [task EXCEPT ![w].pc = l]

\* The worker is done with this enrollment or payment.
Ended(w, rest) == [Idle EXCEPT !.pc = IF rest.due = {} /\ rest.list = {} THEN "idle" ELSE "next",
                               !.day = rest.day, !.due = rest.due, !.list = rest.list]
EndTurn(w) == task' = [task EXCEPT ![w] = Ended(w, task[w])]

\* A day ends.  No run takes more than a day.
Tick ==
    /\ today < MaxDay /\ \A w \in Workers : At(w, "idle") \/ task[w].day = today
    /\ today' = today + 1
    /\ UNCHANGED <<enr, txn, stripe, reports, paid, task, edits, faults, doubtful>>

\* Owners and managers pause, resume and cancel, and methods come and go.
Edit(e) ==
    /\ edits < MaxEdits /\ edits' = edits + 1
    /\ \/ \E s \in {"active", "paused", "cancelled"} :
            enr' = [enr EXCEPT ![e].status = s,
                               ![e].next = IF s = "active" /\ enr[e].status = "paused"
                                           THEN FirstRunDate(today) ELSE @]
       \/ enr' = [enr EXCEPT ![e].usable = ~@]
    /\ UNCHANGED <<today, txn, stripe, reports, paid, task, faults, doubtful>>

--------------------------------------------------------------------------------
(* runAutopayCollectionForAssociation.                                       *)

DueOnTheDay ==   \* mutant: a day without a sweep is not made up for
    {e \in Enrollments : enr[e].status = "active" /\ enr[e].next = today}
Due == {e \in Enrollments : enr[e].status = "active" /\ enr[e].next <= today}

\* An enrollment that another collection has listed, or is charging, becomes
\* doubtful: neither sees what the other is about to do.
StartCollecting(c) ==
    /\ At(c, "idle") /\ Due # {}
    /\ task' = [task EXCEPT ![c] = [Idle EXCEPT !.pc = "next", !.day = today, !.due = Due]]
    /\ doubtful' = doubtful \cup
         {e \in Due : \E b \in Collectors \ {c} : e \in task[b].due \cup {task[b].enr}}
    /\ UNCHANGED <<today, enr, txn, stripe, reports, paid, edits, faults>>

CheckNoRun(c) ==   \* mutant: runs of this month are not looked for
    /\ c \in Collectors /\ At(c, "next")
    /\ \E e \in task[c].due :
         task' = [task EXCEPT ![c] = [@ EXCEPT !.due = @ \ {e}, !.pc = "inflight", !.enr = e]]
    /\ UNCHANGED <<today, enr, txn, stripe, reports, paid, edits, faults, doubtful>>

HasRun(e, day) == \E r \in paid : r[1] = e /\ r[2] >= Month(day)

\* A run of this month that succeeded ends the turn.
CheckRun(c) ==
    /\ c \in Collectors /\ At(c, "next")
    /\ \E e \in task[c].due :
         LET rest == [task[c] EXCEPT !.due = @ \ {e}] IN
         task' = [task EXCEPT ![c] =
           IF HasRun(e, task[c].day) THEN Ended(c, rest)
           ELSE [rest EXCEPT !.pc = "inflight", !.enr = e]]
    /\ UNCHANGED <<today, enr, txn, stripe, reports, paid, edits, faults, doubtful>>

InFlight(e, day) == {t \in RowsOf(e) : txn[t].status \in {"pending", "succeeded"}
                                       /\ Month(txn[t].day) >= Month(day)}

CheckInFlight(c) ==
    /\ At(c, "inflight")
    /\ IF InFlight(task[c].enr, task[c].day) # {} THEN EndTurn(c) ELSE Go(c, "method")
    /\ UNCHANGED <<today, enr, txn, stripe, reports, paid, edits, faults, doubtful>>

\* Without a usable method the enrollment is skipped, and stays due.
LoadMethod(c) ==
    /\ At(c, "method")
    /\ IF enr[task[c].enr].usable THEN Go(c, "create") ELSE EndTurn(c)
    /\ UNCHANGED <<today, enr, txn, stripe, reports, paid, edits, faults, doubtful>>

CreateTxn(w) ==
    /\ At(w, "create")
    /\ \E t \in Txns :
         /\ t = Cardinality(Rows) + 1
         /\ txn' = [txn EXCEPT ![t] =
              [enr |-> task[w].enr, day |-> today, status |-> "draft", attempt |-> 1, of |-> 0,
               eligible |-> FALSE, retryAt |-> 0, known |-> FALSE]]
         /\ task' = [task EXCEPT ![w].txn = t,
                                 ![w].pc = IF w \in Collectors THEN "charge" ELSE "link"]
    /\ UNCHANGED <<today, enr, stripe, reports, paid, edits, faults, doubtful>>

\* chargeOffSession: a refusal may have no intent in it, an answer that cannot
\* be read has none; an answer that never comes is an exception.
Charge(w) ==
    /\ At(w, "charge")
    /\ \E did \in Outcomes :
         /\ stripe' = [stripe EXCEPT ![task[w].txn] = did]
         /\ \/ \E a \in CASE did = "none" -> {"failed", "no_intent"}
                          [] did = "processing" -> {"pending"}
                          [] did = "succeeded" -> {"succeeded"} :
                 /\ task' = [task EXCEPT ![w].pc = "answer", ![w].answer = a]
                 /\ UNCHANGED <<faults, doubtful>>
            \/ /\ Fault
               /\ doubtful' = IF did \in {"processing", "succeeded"}
                              THEN doubtful \cup {task[w].enr} ELSE doubtful
               /\ \/ task' = [task EXCEPT ![w].pc = "answer", ![w].answer = "no_intent"]
                  \/ EndTurn(w)
    /\ UNCHANGED <<today, enr, txn, reports, paid, edits>>

AnsweredAsIs(x, answer) ==   \* mutant: the provider's answer is saved as it is
    IF x.status \in {"succeeded", "failed"} THEN x
    ELSE [x EXCEPT !.status = answer, !.known = @ \/ answer # "no_intent"]

\* updatePaymentTransactionStatus; a status that is final stays.
Answered(x, answer) ==
    IF x.status \in {"succeeded", "failed"} THEN x
    ELSE [x EXCEPT !.status = IF answer = "no_intent" THEN "failed" ELSE answer,
                   !.known = @ \/ answer # "no_intent"]

Failed(w) == task[w].answer \in {"failed", "no_intent"}

SaveAnswer(w) ==
    /\ At(w, "answer")
    /\ txn' = [txn EXCEPT ![task[w].txn] = Answered(@, task[w].answer)]
    /\ IF w \in Collectors THEN Go(w, "record")
       ELSE IF Failed(w) THEN Go(w, "mark")
       ELSE IF task[w].answer = "succeeded" THEN Go(w, "record") ELSE EndTurn(w)
    /\ UNCHANGED <<today, enr, stripe, reports, paid, edits, faults, doubtful>>

\* The autopay_runs row; a pending charge counts as a success.  The retries'
\* row is dated today, a collection's when the run began.
RecordRun(w) ==
    /\ At(w, "record")
    /\ paid' = IF Failed(w) THEN paid
               ELSE paid \cup {<<task[w].enr, Month(IF w \in Collectors THEN task[w].day ELSE today)>>}
    /\ IF w \in Collectors THEN Go(w, "advance") ELSE EndTurn(w)
    /\ UNCHANGED <<today, enr, txn, stripe, reports, edits, faults, doubtful>>

AdvanceNextDate(c) ==
    /\ At(c, "advance")
    /\ enr' = [enr EXCEPT ![task[c].enr].next = AdvanceDate(task[c].day)]
    /\ IF Failed(c) THEN Go(c, "mark") ELSE EndTurn(c)
    /\ UNCHANGED <<today, txn, stripe, reports, paid, edits, faults, doubtful>>

\* markTransactionForRetry: hard failures and last attempts are not eligible.
Marked(x) ==
    {[x EXCEPT !.eligible = FALSE]} \cup
    (IF x.attempt >= MaxAttempts THEN {} ELSE
     {[x EXCEPT !.eligible = TRUE,
                !.retryAt = today + RetryDays[IF x.attempt < Len(RetryDays)
                                              THEN x.attempt ELSE Len(RetryDays)]]})

MarkForRetry(w) ==
    /\ At(w, "mark")
    /\ \E x \in Marked(txn[task[w].txn]) : txn' = [txn EXCEPT ![task[w].txn] = x]
    /\ EndTurn(w)
    /\ UNCHANGED <<today, enr, stripe, reports, paid, edits, faults, doubtful>>

--------------------------------------------------------------------------------
(* runAutopayRetries.                                                        *)

EligibleOnTheDay ==   \* mutant: a day without a sweep is not made up for
    {t \in Rows : txn[t].status = "failed" /\ txn[t].eligible /\ txn[t].retryAt = today}
Eligible == {t \in Rows : txn[t].status = "failed" /\ txn[t].eligible /\ txn[t].retryAt <= today}

\* Likewise a payment that other retries have listed, or are about to charge.
StartRetrying(r) ==
    /\ At(r, "idle") /\ Eligible # {}
    /\ task' = [task EXCEPT ![r] = [Idle EXCEPT !.pc = "next", !.day = today, !.list = Eligible]]
    /\ doubtful' = doubtful \cup
         {txn[t].enr : t \in {u \in Eligible : \E q \in Retriers \ {r} :
                                                 u \in task[q].list \cup {task[q].orig}}}
    /\ UNCHANGED <<today, enr, txn, stripe, reports, paid, edits, faults>>

\* The row is the one that was listed; only the method is read again.
TakeRetry(r) ==
    /\ r \in Retriers /\ At(r, "next")
    /\ \E t \in task[r].list :
         task' = [task EXCEPT ![r] =
           [task[r] EXCEPT !.list = @ \ {t}, !.orig = t, !.enr = txn[t].enr,
                           !.pc = IF enr[txn[t].enr].usable THEN "create" ELSE "drop"]]
    /\ UNCHANGED <<today, enr, txn, stripe, reports, paid, edits, faults, doubtful>>

LinkRetry(r) ==
    /\ At(r, "link")
    /\ txn' = [txn EXCEPT ![task[r].txn].attempt = txn[task[r].orig].attempt + 1,
                          ![task[r].txn].of = task[r].orig]
    /\ Go(r, "spend")
    /\ UNCHANGED <<today, enr, stripe, reports, paid, edits, faults, doubtful>>

SpendTheRetry(r) ==   \* mutant: the new row is updated instead of the old one
    /\ At(r, "spend") \/ At(r, "drop")
    /\ IF At(r, "spend") THEN txn' = [txn EXCEPT ![task[r].txn].eligible = FALSE]
                         ELSE txn' = [txn EXCEPT ![task[r].orig].eligible = FALSE]
    /\ IF At(r, "spend") THEN Go(r, "charge") ELSE EndTurn(r)
    /\ UNCHANGED <<today, enr, stripe, reports, paid, edits, faults, doubtful>>

\* The failed payment is no longer eligible: it is retried, or cannot be.
Spend(r) ==
    /\ At(r, "spend") \/ At(r, "drop")
    /\ txn' = [txn EXCEPT ![task[r].orig].eligible = FALSE]
    /\ IF At(r, "spend") THEN Go(r, "charge") ELSE EndTurn(r)
    /\ UNCHANGED <<today, enr, stripe, reports, paid, edits, faults, doubtful>>

--------------------------------------------------------------------------------
(* What comes between.                                                       *)

\* A collection's turn that is cut short leaves the enrollment doubtful when a
\* charge has no run row yet, or has failed and the enrollment is still due.
CutShort(w) ==
    doubtful' = IF /\ w \in Collectors
                   /\ \/ At(w, "answer") /\ stripe[task[w].txn] # "none"
                      \/ At(w, "record")
                      \/ At(w, "advance") /\ Failed(w)
                THEN doubtful \cup {task[w].enr} ELSE doubtful

\* A round trip throws: the turn is over, the loop goes on.
Throw(w) ==
    /\ task[w].enr # NoEnrollment /\ Fault
    /\ EndTurn(w) /\ CutShort(w)
    /\ UNCHANGED <<today, enr, txn, stripe, reports, paid, edits>>

\* The process dies, or a query outside the loop's try throws.
Die(w) ==
    /\ ~At(w, "idle") /\ Fault
    /\ task' = [task EXCEPT ![w] = Idle] /\ CutShort(w)
    /\ UNCHANGED <<today, enr, txn, stripe, reports, paid, edits>>

\* A bank debit clears or is returned.
Settle(t) ==
    /\ stripe[t] = "processing"
    /\ \E s \in {"succeeded", "failed"} : stripe' = [stripe EXCEPT ![t] = s]
    /\ UNCHANGED <<today, enr, txn, reports, paid, task, edits, faults, doubtful>>

\* payment_intent.processing, which may come late, and the success events.
ReportProgress(t) ==
    /\ stripe[t] # "none" /\ txn[t].status \in {"draft", "pending"}
    /\ \E s \in {"pending", stripe[t]} \cap {"pending", "succeeded"} :
         txn' = [txn EXCEPT ![t].status = s, ![t].known = TRUE]
    /\ UNCHANGED <<today, enr, stripe, reports, paid, task, edits, faults, doubtful>>

\* A refusal that named its intent, which the row has from the answer.
Refused(t) == txn[t] # NoTxn /\ stripe[t] = "none" /\ txn[t].known

\* handleAchFailureEvent, of payment_intent.payment_failed and of charge.failed,
\* for a returned debit or a refused charge: the row is found by its intent
\* alone.  Of a payment whose retry has been made, the event makes the
\* enrollment doubtful.
ReportFailure(t) ==
    /\ stripe[t] = "failed" \/ Refused(t)
    /\ reports[t] < FailureEvents
    /\ reports' = [reports EXCEPT ![t] = @ + 1]
    /\ IF ~txn[t].known THEN UNCHANGED txn
       ELSE \E x \in Marked(txn[t]) : txn' = [txn EXCEPT ![t] = [x EXCEPT !.status = "failed"]]
    /\ doubtful' = IF \E u \in Rows : txn[u].of = t
                   THEN doubtful \cup {txn[t].enr} ELSE doubtful
    /\ UNCHANGED <<today, enr, stripe, paid, task, edits, faults>>

--------------------------------------------------------------------------------
WorkerStep(w) ==
    \/ CheckRun(w) \/ CheckInFlight(w) \/ LoadMethod(w) \/ CreateTxn(w) \/ Charge(w)
    \/ SaveAnswer(w) \/ RecordRun(w) \/ AdvanceNextDate(w) \/ MarkForRetry(w)
    \/ TakeRetry(w) \/ LinkRetry(w) \/ Spend(w)

Next ==
    \/ Tick
    \/ \E e \in Enrollments : Edit(e)
    \/ \E c \in Collectors : StartCollecting(c)
    \/ \E r \in Retriers : StartRetrying(r)
    \/ \E w \in Workers : WorkerStep(w) \/ Throw(w) \/ Die(w)
    \/ \E t \in Txns : Settle(t) \/ ReportProgress(t) \/ ReportFailure(t)

Spec == Init /\ [][Next]_vars

\* Time passes, the timer goes on firing and a run goes on once started.
Fairness ==
    /\ WF_vars(Tick)
    /\ \A c \in Collectors : WF_vars(StartCollecting(c))
    /\ \A r \in Retriers : WF_vars(StartRetrying(r))
    /\ \A w \in Workers : WF_vars(WorkerStep(w))

FairSpec == Spec /\ Fairness

--------------------------------------------------------------------------------
(* Properties.                                                               *)

\* Collections, retries, events, returned debits, failures and owners' changes
\* together never take more from an owner than one payment for each interval
\* that has begun, unless the enrollment is doubtful.
Charged(e) == Cardinality({t \in RowsOf(e) : Live(t)})
Intervals == Month(today) \div Every + 1
NeverOvercharged == \A e \in Enrollments \ doubtful : Charged(e) <= Intervals

\* A failed payment is charged again once at most: a retry has the next attempt
\* number, and the payment it was made for is spent, whoever dies in between.
OneRetryEach ==
    \A t \in Rows : txn[t].enr \notin doubtful =>
        Cardinality({u \in Rows : txn[u].of = t /\ stripe[u] # "none"}) <= 1

\* Every enrollment that comes due is charged and gets its next date, or is
\* covered by another payment of the month, unless it is paused, cancelled or
\* without a method: however many sweeps the day itself saw.  (It does not stay
\* due for ever: IsDue ~> ~IsDue or one of the others.)
IsDue(e) == enr[e].status = "active" /\ enr[e].next <= today
Covered(e) == <<e, Month(today)>> \in paid \/ InFlight(e, today) # {}
DueIsCollected ==
    \A e \in Enrollments : []<>(~IsDue(e) \/ ~enr[e].usable \/ Covered(e))

\* A failed payment whose retry has come is retried, or ruled out, in the end,
\* unless its owner has no method.
IsEligible(t) == txn[t] # NoTxn /\ txn[t].status = "failed" /\ txn[t].eligible
                 /\ txn[t].retryAt <= today
EligibleIsRetried ==
    \A t \in Txns : []<>(IsEligible(t) => ~enr[txn[t].enr].usable)
==============================================================================
