---------------------- MODULE AutopayCollection_proofs ----------------------
(***************************************************************************)
(* AutopayCollection: types, OneRetryEach and NeverOvercharged, for any    *)
(* enrollments, collections, retries and numbers of rows, events, faults   *)
(* and days.                                                               *)
(***************************************************************************)
EXTENDS AutopayCollection, FiniteSetTheorems, TLAPS

Labels == {"idle", "next", "inflight", "method", "drop", "create", "link", "spend",
           "charge", "answer", "record", "advance", "mark"}
Resting == {"idle", "next"}
Charging == {"charge", "answer", "record", "advance", "mark"}
Holding == Charging \cup {"link", "spend"}

\* The row a worker has made, and a failed payment whose retry is to come.
Holds(w, t) == task[w].pc \in Holding /\ task[w].txn = t
Asks(r, t) == task[r].pc \in {"drop", "create", "link", "spend", "charge"} /\ task[r].orig = t
Wants(r, t) == t \in task[r].list \/ Asks(r, t)

--------------------------------------------------------------------------------
(* What workers hold.                                                        *)

KindOK(w) ==
    /\ task[w].pc \in {"inflight", "method", "advance"} \/ task[w].due # {} => w \in Collectors
    /\ task[w].pc \in {"drop", "link", "spend"} \/ task[w].list # {} => w \in Retriers

RefsOK(w) ==
    /\ task[w].pc \in Resting => task[w].enr = NoEnrollment /\ task[w].orig = 0
    /\ task[w].pc = "idle" => task[w].due = {} /\ task[w].list = {}
    /\ task[w].pc \notin Resting => task[w].enr \in Enrollments
    /\ task[w].pc \in Holding => task[w].txn \in Rows /\ txn[task[w].txn].enr = task[w].enr
    /\ w \in Retriers /\ task[w].pc \notin Resting =>
          /\ task[w].orig \in Rows /\ txn[task[w].orig].enr = task[w].enr
          /\ task[w].orig \notin task[w].list
    /\ w \in Collectors => task[w].orig = 0 /\ task[w].enr \notin task[w].due
    /\ task[w].list \subseteq Rows
    /\ task[w].pc # "idle" => task[w].day <= today /\ today <= task[w].day + 1

RowsOK ==
    /\ \E n \in 0..MaxTxns : Rows = 1..n
    /\ \A t \in Txns : stripe[t] # "none" => t \in Rows
    /\ \A t \in Rows : txn[t].of \in Rows \cup {0}

\* The row in hand: not charged before its step, not due to be retried while it
\* is in hand, and no retry of it is on its way or made.
HeldOK(w) ==
    LET t == task[w].txn IN
    task[w].pc \in Holding =>
      /\ task[w].pc \in {"link", "spend", "charge"} => stripe[t] = "none"
      /\ task[w].pc \in {"link", "spend", "charge", "answer"} /\ stripe[t] = "none" => ~txn[t].known
      /\ stripe[t] = "none" /\ ~txn[t].known => ~txn[t].eligible
      /\ txn[t].eligible => txn[t].retryAt >= task[w].day + 2
      /\ \A r \in Retriers : ~Wants(r, t)
      /\ \A u \in Rows : txn[u].of # t
      /\ w \in Collectors \/ task[w].pc = "link" => txn[t].of = 0
      /\ w \in Retriers /\ task[w].pc \in {"spend", "charge"} => txn[t].of = task[w].orig

Distinct == \A v, w \in Workers : \A t \in Txns : Holds(v, t) /\ Holds(w, t) => v = w

TasksOK == (\A w \in Workers : KindOK(w) /\ RefsOK(w) /\ HeldOK(w)) /\ Distinct

TypeInv == TypeOK /\ RowsOK /\ TasksOK

--------------------------------------------------------------------------------
(* Retries.                                                                  *)

Sure(t) == txn[t].enr \notin doubtful
Made(t, u) == txn[u].of = t /\ stripe[u] # "none"

WantedOnce ==
    \A t \in Rows : Sure(t) => \A q, r \in Retriers : Wants(q, t) /\ Wants(r, t) => q = r
SpentFirst ==
    \A r \in Retriers : task[r].pc = "charge" /\ Sure(task[r].orig) => ~txn[task[r].orig].eligible
RetriedOnce ==
    \A t \in Rows : Sure(t) => \A u \in Rows : Made(t, u) =>
        /\ ~txn[t].eligible /\ \A r \in Retriers : ~Wants(r, t)
        /\ \A v \in Rows : Made(t, v) => v = u

RetryInv == TypeInv /\ WantedOnce /\ SpentFirst /\ RetriedOnce

--------------------------------------------------------------------------------
(* Charges and months.                                                       *)

\* The rows that are charged or may yet be, a chain of retries having one.
Lists(r, t) == \/ t \in task[r].list
               \/ task[r].pc \in {"create", "link", "spend"} /\ task[r].orig = t
Charges(w, t) == task[w].pc \in Charging /\ task[w].txn = t
Unlinked(t) == (stripe[t] = "failed" \/ Refused(t)) /\ (\A u \in Rows : txn[u].of # t)
Owed(t) == \/ txn[t].eligible \/ Unlinked(t)
           \/ \E r \in Retriers : Lists(r, t)
           \/ \E w \in Workers : Charges(w, t)
Claims(e) == {t \in RowsOf(e) : Live(t) \/ Owed(t)}

\* A collection's row, until the next date is advanced.
Paying == {"charge", "answer", "record", "advance"}
Current(t) == \E c \in Collectors : task[c].pc \in Paying /\ task[c].txn = t
Old(e) == {t \in Claims(e) : ~Current(t)}

\* What is charged waits for no retry, and what is known to have failed is not.
LiveUnwanted ==
    \A t \in Rows : Sure(t) /\ Live(t) =>
        ~txn[t].eligible /\ \A r \in Retriers : ~Wants(r, t)
FailureOK(w) ==
    /\ task[w].pc = "mark" => Failed(w)
    /\ task[w].pc \in {"answer", "record", "advance", "mark"} /\ Failed(w)
       /\ task[w].enr \notin doubtful => stripe[task[w].txn] = "none"
NotLive == LiveUnwanted /\ \A w \in Workers : FailureOK(w)

\* A collection that has an enrollment on its list, looks at it, or charges it.
Listed(c, e) == e \in task[c].due
Looks(c, e) == task[c].pc \in {"inflight", "method", "create"} /\ task[c].enr = e
Pays(c, e) == task[c].pc \in Paying /\ task[c].enr = e
Involved(c, e) == Listed(c, e) \/ task[c].enr = e
InvolvedOnce ==
    \A e \in Enrollments \ doubtful : \A b, c \in Collectors : Involved(b, e) /\ Involved(c, e) => b = c

\* There is a run row of the month before the n-th, or of a later one.
RanFor(e, n) == \E r \in paid : r[1] = e /\ n <= r[2] + 1

\* Each claim has a month of its own that has begun; what is not being charged
\* has one before the month of the next date, or a run row in the last of them.
SlotOK(e) ==
    /\ DueIn(Cardinality(Old(e))) <= enr[e].next \/ RanFor(e, Cardinality(Old(e)))
    /\ Cardinality(Claims(e)) <= Month(today) + 1
    /\ \A c \in Collectors :
         /\ Listed(c, e) => \/ Cardinality(Claims(e)) <= Month(task[c].day)
                            \/ RanFor(e, Cardinality(Claims(e)))
         /\ Looks(c, e) => Cardinality(Claims(e)) <= Month(task[c].day)
         /\ Pays(c, e) => Cardinality(Claims(e)) <= Month(task[c].day) + 1
         /\ Pays(c, e) /\ task[c].pc = "advance" /\ ~Failed(c) => <<e, Month(task[c].day)>> \in paid
Slots == \A e \in Enrollments \ doubtful : SlotOK(e)

ChargeInv == RetryInv /\ NotLive /\ InvolvedOnce /\ Slots

--------------------------------------------------------------------------------
(* What the steps do to a worker.                                            *)

Moves(w) == task' \in [Workers -> Task] /\ \A v \in Workers \ {w} : task'[v] = task[v]
Same(w) == /\ task'[w].day = task[w].day /\ task'[w].due = task[w].due
           /\ task'[w].list = task[w].list /\ task'[w].enr = task[w].enr
           /\ task'[w].orig = task[w].orig /\ task'[w].txn = task[w].txn
Goes(w, l) == Moves(w) /\ Same(w) /\ task'[w].pc = l
Rests(w) == /\ Moves(w) /\ task'[w].pc \in Resting
            /\ task'[w].enr = NoEnrollment /\ task'[w].orig = 0
            /\ (task'[w].pc = "idle" => task'[w].due = {} /\ task'[w].list = {})
EndsTurn(w) == /\ Rests(w) /\ task'[w].day = task[w].day
               /\ task'[w].due = task[w].due /\ task'[w].list = task[w].list

\* A worker that has ended its turn is at rest.
LEMMA EndedTask ==
    ASSUME NEW w, NEW u \in Task
    PROVE  /\ Ended(w, u) \in Task /\ Ended(w, u).pc \in Resting
           /\ Ended(w, u).enr = NoEnrollment /\ Ended(w, u).orig = 0
           /\ Ended(w, u).day = u.day /\ Ended(w, u).due = u.due /\ Ended(w, u).list = u.list
           /\ (Ended(w, u).pc = "idle" => u.due = {} /\ u.list = {})
<1>1. PICK l \in {"idle", "next"} :
        l = IF u.due = {} /\ u.list = {} THEN "idle" ELSE "next"
  OBVIOUS
<1>2. PICK x : x = [Idle EXCEPT !.pc = l, !.day = u.day, !.due = u.due, !.list = u.list]
  OBVIOUS
<1>3. 1 \in Days
  BY CalendarAssumption DEF Days
<1>4. u.day \in Days /\ u.due \in SUBSET Enrollments /\ u.list \in SUBSET Txns
  BY DEF Task
<1>5. x = [pc |-> l, day |-> u.day, due |-> u.due, list |-> u.list, enr |-> NoEnrollment,
           orig |-> 0, txn |-> 0, answer |-> "failed"]
  BY <1>2 DEF Idle
<1>6. x \in Task
  BY <1>4, <1>5 DEF Task, Answers
<1>7. Ended(w, u) = x
  BY <1>1, <1>2 DEF Ended
<1>8. QED
  BY <1>1, <1>5, <1>6, <1>7 DEF Resting

\* The turn of a worker ends, and the others' go on.
LEMMA TurnEnds ==
    ASSUME task \in [Workers -> Task], NEW w \in Workers, EndTurn(w)
    PROVE  EndsTurn(w)
<1>1. PICK x : x = Ended(w, task[w])
  OBVIOUS
<1>2. x \in Task /\ task' = [task EXCEPT ![w] = x]
  BY <1>1, EndedTask DEF EndTurn
<1>3. Moves(w) /\ task'[w] = x
  BY <1>2 DEF Moves
<1>4. QED
  BY <1>1, <1>3, EndedTask DEF EndsTurn, Rests

\* A worker goes on to its next round trip.
LEMMA WorkerGoes ==
    ASSUME task \in [Workers -> Task], NEW w \in Workers, NEW l \in Labels, Go(w, l)
    PROVE  Goes(w, l) /\ task'[w].answer = task[w].answer
<1>1. PICK x : x = [task[w] EXCEPT !.pc = l]
  OBVIOUS
<1>2. x \in Task /\ task' = [task EXCEPT ![w] = x]
  BY <1>1 DEF Go, Task, Labels
<1>3. Moves(w) /\ task'[w] = x
  BY <1>2 DEF Moves
<1>4. QED
  BY <1>1, <1>3 DEF Goes, Same, Task

\* A collection, or the retries, begin.
LEMMA CollectingStarts ==
    ASSUME TypeOK, NEW c \in Collectors, StartCollecting(c)
    PROVE  /\ Moves(c) /\ task'[c].pc = "next" /\ task'[c].day = today /\ task'[c].due = Due
           /\ task'[c].list = {} /\ task'[c].enr = NoEnrollment /\ task'[c].orig = 0
<1>1. PICK x : x = [Idle EXCEPT !.pc = "next", !.day = today, !.due = Due]
  OBVIOUS
<1>2. x = [pc |-> "next", day |-> today, due |-> Due, list |-> {}, enr |-> NoEnrollment,
           orig |-> 0, txn |-> 0, answer |-> "failed"]
  BY <1>1 DEF Idle
<1>3. x \in Task
  BY <1>2 DEF TypeOK, Task, Answers, Due
<1>4. c \in Workers /\ task' = [task EXCEPT ![c] = x] /\ task \in [Workers -> Task]
  BY <1>1 DEF StartCollecting, Workers, TypeOK
<1>5. Moves(c) /\ task'[c] = x
  BY <1>3, <1>4 DEF Moves
<1>6. QED
  BY <1>2, <1>5

LEMMA RetryingStarts ==
    ASSUME TypeOK, NEW r \in Retriers, StartRetrying(r)
    PROVE  /\ Moves(r) /\ task'[r].pc = "next" /\ task'[r].day = today /\ task'[r].due = {}
           /\ task'[r].list = Eligible /\ task'[r].enr = NoEnrollment /\ task'[r].orig = 0
<1>1. PICK x : x = [Idle EXCEPT !.pc = "next", !.day = today, !.list = Eligible]
  OBVIOUS
<1>2. x = [pc |-> "next", day |-> today, due |-> {}, list |-> Eligible, enr |-> NoEnrollment,
           orig |-> 0, txn |-> 0, answer |-> "failed"]
  BY <1>1 DEF Idle
<1>3. x \in Task
  BY <1>2 DEF TypeOK, Task, Answers, Eligible, Rows
<1>4. r \in Workers /\ task' = [task EXCEPT ![r] = x] /\ task \in [Workers -> Task]
  BY <1>1 DEF StartRetrying, Workers, TypeOK
<1>5. Moves(r) /\ task'[r] = x
  BY <1>3, <1>4 DEF Moves
<1>6. QED
  BY <1>2, <1>5

\* The look for a run takes an enrollment off the list, and may be the turn's end.
LEMMA RunIsChecked ==
    ASSUME TypeOK, NEW w \in Workers, CheckRun(w)
    PROVE  \E e \in task[w].due :
             /\ Moves(w) /\ task'[w].day = task[w].day /\ task'[w].due = task[w].due \ {e}
             /\ task'[w].list = task[w].list
             /\ \/ Rests(w) /\ HasRun(e, task[w].day)
                \/ /\ ~HasRun(e, task[w].day) /\ task'[w].pc = "inflight" /\ task'[w].enr = e
                   /\ task'[w].orig = task[w].orig
<1>1. PICK e \in task[w].due : LET rest == [task[w] EXCEPT !.due = @ \ {e}] IN
        task' = [task EXCEPT ![w] =
           IF HasRun(e, task[w].day) THEN Ended(w, rest)
           ELSE [rest EXCEPT !.pc = "inflight", !.enr = e]]
  BY DEF CheckRun
<1>2. task \in [Workers -> Task] /\ task[w] \in Task /\ e \in Enrollments
  BY DEF TypeOK, Task
<1>3. PICK y : y = [task[w] EXCEPT !.due = @ \ {e}]
  OBVIOUS
<1>4. y \in Task /\ y.day = task[w].day /\ y.due = task[w].due \ {e} /\ y.list = task[w].list
      /\ y.orig = task[w].orig
  BY <1>2, <1>3 DEF Task
<1>5. CASE HasRun(e, task[w].day)
  <2>1. PICK x : x = Ended(w, y)
    OBVIOUS
  <2>2. task' = [task EXCEPT ![w] = x] /\ x \in Task
    BY <1>1, <1>3, <1>4, <1>5, <2>1, EndedTask
  <2>3. Moves(w) /\ task'[w] = x
    BY <1>2, <2>2 DEF Moves
  <2>4. QED
    BY <1>4, <1>5, <2>1, <2>3, EndedTask DEF Rests
<1>6. CASE ~HasRun(e, task[w].day)
  <2>1. PICK x : x = [y EXCEPT !.pc = "inflight", !.enr = e]
    OBVIOUS
  <2>2. task' = [task EXCEPT ![w] = x]
    BY <1>1, <1>3, <1>6, <2>1
  <2>3. x \in Task /\ x.pc = "inflight" /\ x.enr = e /\ x.day = y.day /\ x.due = y.due
        /\ x.list = y.list /\ x.orig = y.orig
    BY <1>2, <1>4, <2>1 DEF Task
  <2>4. Moves(w) /\ task'[w] = x
    BY <1>2, <2>2, <2>3 DEF Moves
  <2>5. QED
    BY <1>4, <1>6, <2>3, <2>4
<1>7. QED
  BY <1>5, <1>6

\* The retries take a payment, to charge it again or to drop it.
LEMMA RetryIsTaken ==
    ASSUME TypeOK, NEW w \in Workers, TakeRetry(w), task[w].list \subseteq Rows
    PROVE  /\ w \in Retriers /\ task[w].pc = "next"
           /\ \E t \in task[w].list :
             /\ Moves(w) /\ task'[w].day = task[w].day /\ task'[w].due = task[w].due
             /\ task'[w].list = task[w].list \ {t} /\ task'[w].orig = t
             /\ task'[w].enr = txn[t].enr /\ task'[w].txn = task[w].txn
             /\ task'[w].pc \in {"create", "drop"}
<1>1. PICK t \in task[w].list :
         task' = [task EXCEPT ![w] =
           [task[w] EXCEPT !.list = @ \ {t}, !.orig = t, !.enr = txn[t].enr,
                           !.pc = IF enr[txn[t].enr].usable THEN "create" ELSE "drop"]]
  BY DEF TakeRetry
<1>2. PICK l \in {"create", "drop"} : l = IF enr[txn[t].enr].usable THEN "create" ELSE "drop"
  OBVIOUS
<1>3. PICK e \in Enrollments : e = txn[t].enr
  BY DEF TypeOK, Rows, Txn
<1>4. PICK x : x = [task[w] EXCEPT !.list = @ \ {t}, !.orig = t, !.enr = e, !.pc = l]
  OBVIOUS
<1>5. task \in [Workers -> Task] /\ task[w] \in Task /\ t \in Txns
  BY DEF TypeOK, Task
<1>6. task' = [task EXCEPT ![w] = x]
  BY <1>1, <1>2, <1>3, <1>4, <1>5
<1>7. x \in Task
  BY <1>2, <1>4, <1>5 DEF Task
<1>8. /\ x.day = task[w].day /\ x.due = task[w].due /\ x.list = task[w].list \ {t}
      /\ x.orig = t /\ x.enr = e /\ x.txn = task[w].txn /\ x.pc = l
  BY <1>4, <1>5 DEF Task
<1>9. Moves(w) /\ task'[w] = x
  BY <1>5, <1>6, <1>7 DEF Moves
<1>10. /\ task'[w].day = task[w].day /\ task'[w].due = task[w].due
       /\ task'[w].list = task[w].list \ {t} /\ task'[w].orig = t
       /\ task'[w].enr = txn[t].enr /\ task'[w].txn = task[w].txn
       /\ task'[w].pc \in {"create", "drop"}
  BY <1>2, <1>3, <1>8, <1>9
<1>11. w \in Retriers /\ task[w].pc = "next"
  BY DEF TakeRetry, At
<1>12. QED
  BY <1>9, <1>10, <1>11


--------------------------------------------------------------------------------
(* Dates and rows.                                                           *)

\* Months are counted from the day 1, and due dates are days.
LEMMA MonthIsNat ==
    ASSUME NEW d \in Nat \ {0} PROVE Month(d) \in Nat /\ Month(d) <= d - 1
<1>1. PICK n \in Nat : n = d - 1
  OBVIOUS
<1>2. MonthLength \in Nat /\ MonthLength >= 1
  BY CalendarAssumption
<1>3. n \div MonthLength \in Int /\ n \div MonthLength >= 0 /\ n \div MonthLength <= n
  BY <1>2, Z3
<1>4. QED
  BY <1>1, <1>3 DEF Month
LEMMA DueIsNat ==
    ASSUME NEW m \in Nat PROVE DueIn(m) \in Nat
<1>1. m * MonthLength \in Nat
  BY CalendarAssumption, Z3
<1>2. QED
  BY <1>1, CalendarAssumption DEF DueIn
LEMMA NextDateIsNat ==
    ASSUME NEW d \in Nat \ {0} PROVE AdvanceDate(d) \in Nat /\ FirstRunDate(d) \in Nat
<1>1. PICK m \in Nat : m = Month(d)
  BY MonthIsNat
<1>2. DueIn(m) \in Nat /\ DueIn(m + 1) \in Nat /\ DueIn(m + Every) \in Nat
  BY DueIsNat, CalendarAssumption
<1>3. QED
  BY <1>1, <1>2 DEF AdvanceDate, FirstRunDate

\* A write of one row keeps the others.
LEMMA RowWritten ==
    ASSUME TypeOK, NEW t \in Rows, NEW x \in Txn, txn' = [txn EXCEPT ![t] = x]
    PROVE  /\ txn' \in [Txns -> Txn \cup {NoTxn}] /\ Rows' = Rows
           /\ txn'[t] = x /\ \A u \in Txns \ {t} : txn'[u] = txn[u]
<1>1. txn' \in [Txns -> Txn \cup {NoTxn}] /\ txn'[t] = x /\ \A u \in Txns \ {t} : txn'[u] = txn[u]
  BY DEF TypeOK, Rows
<1>2. x # NoTxn /\ txn[t] # NoTxn
  BY NoneAssumption DEF Rows
<1>3. Rows' = Rows
  BY <1>1, <1>2 DEF Rows
<1>4. QED
  BY <1>1, <1>3

\* A row that is marked keeps what it is, and waits two days or more.
LEMMA MarkedRow ==
    ASSUME today \in Days, NEW x \in Txn, NEW y \in Marked(x)
    PROVE  /\ y \in Txn /\ y.enr = x.enr /\ y.day = x.day /\ y.of = x.of
           /\ y.known = x.known /\ (y.eligible => y.retryAt >= today + 2)
<1>1. CASE y = [x EXCEPT !.eligible = FALSE]
  BY <1>1 DEF Txn
<1>2. CASE y # [x EXCEPT !.eligible = FALSE]
  <2>1. PICK i : i = IF x.attempt < Len(RetryDays) THEN x.attempt ELSE Len(RetryDays)
    OBVIOUS
  <2>2. i \in 1..Len(RetryDays)
    BY <2>1, RetryAssumption DEF Txn
  <2>3. PICK n \in Nat \ {0, 1} : n = RetryDays[i]
    BY <2>2, RetryAssumption
  <2>4. PICK d \in Nat : d = today + n /\ d >= today + 2
    BY <2>3 DEF Days
  <2>5. y = [x EXCEPT !.eligible = TRUE, !.retryAt = d]
    BY <1>2, <2>1, <2>3, <2>4 DEF Marked
  <2>6. QED
    BY <2>4, <2>5 DEF Txn
<1>3. QED
  BY <1>1, <1>2

\* An answer that is saved changes the status only.
LEMMA AnsweredRow ==
    ASSUME NEW x \in Txn, NEW a \in Answers
    PROVE  /\ Answered(x, a) \in Txn /\ Answered(x, a).enr = x.enr /\ Answered(x, a).of = x.of
           /\ Answered(x, a).day = x.day /\ Answered(x, a).eligible = x.eligible
           /\ Answered(x, a).retryAt = x.retryAt
           /\ (x.known => Answered(x, a).known)
<1>1. CASE x.status \in {"succeeded", "failed"}
  BY <1>1 DEF Answered
<1>2. CASE x.status \notin {"succeeded", "failed"}
  <2>1. PICK s \in {"draft", "pending", "succeeded", "failed"} :
          s = IF a = "no_intent" THEN "failed" ELSE a
    BY DEF Answers
  <2>2. PICK b \in BOOLEAN : b = (x.known \/ a # "no_intent")
    BY DEF Txn
  <2>3. Answered(x, a) = [x EXCEPT !.status = s, !.known = b]
    BY <1>2, <2>1, <2>2 DEF Answered
  <2>4. x.known => Answered(x, a).known
    BY <2>2, <2>3 DEF Txn
  <2>5. QED
    BY <2>3, <2>4 DEF Txn
<1>3. QED
  BY <1>1, <1>2


\* A new row is one more, for the enrollment in hand, and is linked to none.
LEMMA RowCreated ==
    ASSUME TypeOK, RowsOK, NEW w \in Workers, CreateTxn(w), task[w].enr \in Enrollments
    PROVE  \E t \in Txns \ Rows :
             /\ Rows' = Rows \cup {t} /\ (\E n \in 0..MaxTxns : Rows' = 1..n)
             /\ txn' \in [Txns -> Txn \cup {NoTxn}]
             /\ \A u \in Txns \ {t} : txn'[u] = txn[u]
             /\ txn'[t].enr = task[w].enr /\ txn'[t].of = 0 /\ ~txn'[t].eligible /\ ~txn'[t].known
             /\ Moves(w) /\ task'[w].day = task[w].day /\ task'[w].due = task[w].due
             /\ task'[w].list = task[w].list /\ task'[w].enr = task[w].enr
             /\ task'[w].orig = task[w].orig /\ task'[w].txn = t
             /\ task'[w].pc = IF w \in Collectors THEN "charge" ELSE "link"
<1>1. PICK n \in 0..MaxTxns : Rows = 1..n
  BY DEF RowsOK
<1>2. Cardinality(Rows) = n
  <2>1. Cardinality(1..n) = IF 1 > n THEN 0 ELSE n - 1 + 1
    BY FS_Interval
  <2>2. QED
    BY <1>1, <2>1
<1>3. PICK t \in Txns :
         /\ t = Cardinality(Rows) + 1
         /\ txn' = [txn EXCEPT ![t] =
              [enr |-> task[w].enr, day |-> today, status |-> "draft", attempt |-> 1, of |-> 0,
               eligible |-> FALSE, retryAt |-> 0, known |-> FALSE]]
         /\ task' = [task EXCEPT ![w].txn = t,
                                 ![w].pc = IF w \in Collectors THEN "charge" ELSE "link"]
  BY DEF CreateTxn
<1>4. PICK x : x = [enr |-> task[w].enr, day |-> today, status |-> "draft", attempt |-> 1,
                    of |-> 0, eligible |-> FALSE, retryAt |-> 0, known |-> FALSE]
  OBVIOUS
<1>5. x \in Txn /\ x # NoTxn
  <2>1. PICK e \in Enrollments : e = task[w].enr
    OBVIOUS
  <2>2. PICK d \in Days : d = today
    BY DEF TypeOK
  <2>3. x = [enr |-> e, day |-> d, status |-> "draft", attempt |-> 1,
             of |-> 0, eligible |-> FALSE, retryAt |-> 0, known |-> FALSE]
    BY <1>4, <2>1, <2>2
  <2>4. x \in Txn
    BY <2>3 DEF Txn
  <2>5. QED
    BY <2>4, NoneAssumption
<1>6. /\ txn' \in [Txns -> Txn \cup {NoTxn}] /\ txn'[t] = x
      /\ \A u \in Txns \ {t} : txn'[u] = txn[u]
  BY <1>3, <1>4, <1>5 DEF TypeOK
<1>7. t \notin Rows /\ t = n + 1 /\ n + 1 \in 0..MaxTxns
  BY <1>1, <1>2, <1>3, BoundsAssumption DEF Txns
<1>8. Rows' = Rows \cup {t}
  BY <1>5, <1>6 DEF Rows
<1>9. Rows' = 1..(n + 1)
  BY <1>1, <1>7, <1>8
<1>10. PICK l \in {"charge", "link"} : l = IF w \in Collectors THEN "charge" ELSE "link"
  OBVIOUS
<1>11. PICK y : y = [task[w] EXCEPT !.txn = t, !.pc = l]
  OBVIOUS
<1>12. task \in [Workers -> Task]
  BY DEF TypeOK
<1>13. task' = [task EXCEPT ![w] = y]
  BY <1>3, <1>10, <1>11, <1>12
<1>14. /\ y \in Task /\ y.day = task[w].day /\ y.due = task[w].due /\ y.list = task[w].list
       /\ y.enr = task[w].enr /\ y.orig = task[w].orig /\ y.txn = t /\ y.pc = l
  BY <1>10, <1>11, <1>12 DEF Task
<1>15. Moves(w) /\ task'[w] = y
  BY <1>12, <1>13, <1>14 DEF Moves
<1>16. txn'[t].enr = task[w].enr /\ txn'[t].of = 0 /\ ~txn'[t].eligible /\ ~txn'[t].known
  BY <1>4, <1>6
<1>17. /\ task'[w].day = task[w].day /\ task'[w].due = task[w].due
       /\ task'[w].list = task[w].list /\ task'[w].enr = task[w].enr
       /\ task'[w].orig = task[w].orig /\ task'[w].txn = t
       /\ task'[w].pc = IF w \in Collectors THEN "charge" ELSE "link"
  BY <1>10, <1>14, <1>15
<1>18. \E k \in 0..MaxTxns : Rows' = 1..k
  BY <1>7, <1>9
<1>19. QED
  BY <1>6, <1>7, <1>8, <1>15, <1>16, <1>17, <1>18

\* What a write of rows other than a new one may change.
RowsKept ==
    /\ txn' \in [Txns -> Txn \cup {NoTxn}] /\ Rows' = Rows
    /\ \A t \in Rows : txn'[t].enr = txn[t].enr /\ txn'[t].day = txn[t].day
\* A row that was not charged gets no intent.
KnownKept == \A t \in Txns : stripe[t] = "none" => txn'[t].known = txn[t].known
\* Of a row that a worker holds, nothing but its status.
RowKept(t) == /\ txn'[t].of = txn[t].of /\ stripe'[t] = stripe[t]
              /\ (stripe[t] = "none" => txn'[t].known = txn[t].known)
              /\ (txn'[t].eligible => txn[t].eligible /\ txn'[t].retryAt = txn[t].retryAt)

LEMMA NothingWritten ==
    ASSUME TypeOK, UNCHANGED txn
    PROVE  RowsKept /\ KnownKept /\ \A t \in Txns : txn'[t].of = txn[t].of
BY DEF RowsKept, KnownKept, Rows, TypeOK

\* The charge: Stripe did one of the outcomes, and the worker knows it or not.
LEMMA ChargeShape ==
    ASSUME TypeOK, NEW w \in Workers, Charge(w)
    PROVE  /\ \/ Goes(w, "answer")
              \/ EndsTurn(w)
           /\ \E did \in Outcomes : stripe' = [stripe EXCEPT ![task[w].txn] = did]
                /\ (Goes(w, "answer") => (Failed(w)' => did = "none"
                                          \/ task[w].enr \in doubtful'))
                /\ (EndsTurn(w) => (did = "none" \/ task[w].enr \in doubtful'))
           /\ doubtful \subseteq doubtful' /\ doubtful' \subseteq doubtful \cup {task[w].enr}
<1>1. PICK did \in Outcomes :
         /\ stripe' = [stripe EXCEPT ![task[w].txn] = did]
         /\ \/ \E a \in CASE did = "none" -> {"failed", "no_intent"}
                          [] did = "processing" -> {"pending"}
                          [] did = "succeeded" -> {"succeeded"} :
                 /\ task' = [task EXCEPT ![w].pc = "answer", ![w].answer = a]
                 /\ UNCHANGED <<faults, doubtful>>
            \/ /\ Fault
               /\ doubtful' = IF did \in {"processing", "succeeded"}
                              THEN doubtful \cup {task[w].enr} ELSE doubtful
               /\ \/ task' = [task EXCEPT ![w].pc = "answer", ![w].answer = "no_intent"]
                  \/ EndTurn(w)
  BY DEF Charge
<1>2. did \in {"none", "processing", "succeeded"} /\ task \in [Workers -> Task]
  BY OutcomesAssumption DEF TypeOK
<1>3. ASSUME NEW a \in Answers, task' = [task EXCEPT ![w].pc = "answer", ![w].answer = a]
      PROVE  Goes(w, "answer") /\ task'[w].answer = a
  <2>1. PICK y : y = [task[w] EXCEPT !.pc = "answer", !.answer = a]
    OBVIOUS
  <2>2. task' = [task EXCEPT ![w] = y]
    BY <1>2, <1>3, <2>1
  <2>3. /\ y \in Task /\ y.day = task[w].day /\ y.due = task[w].due /\ y.list = task[w].list
        /\ y.enr = task[w].enr /\ y.orig = task[w].orig /\ y.txn = task[w].txn
        /\ y.pc = "answer" /\ y.answer = a
    BY <1>2, <2>1 DEF Task
  <2>4. Moves(w) /\ task'[w] = y
    BY <1>2, <2>2, <2>3 DEF Moves
  <2>5. QED
    BY <2>3, <2>4 DEF Goes, Same
<1>4. CASE \E a \in CASE did = "none" -> {"failed", "no_intent"}
                       [] did = "processing" -> {"pending"}
                       [] did = "succeeded" -> {"succeeded"} :
                 /\ task' = [task EXCEPT ![w].pc = "answer", ![w].answer = a]
                 /\ UNCHANGED <<faults, doubtful>>
  <2>1. PICK a \in CASE did = "none" -> {"failed", "no_intent"}
                       [] did = "processing" -> {"pending"}
                       [] did = "succeeded" -> {"succeeded"} :
                 /\ task' = [task EXCEPT ![w].pc = "answer", ![w].answer = a]
                 /\ UNCHANGED <<faults, doubtful>>
    BY <1>4
  <2>2. a \in Answers /\ (a \in {"failed", "no_intent"} => did = "none")
    BY <1>2, <2>1 DEF Answers
  <2>3. Goes(w, "answer") /\ task'[w].answer = a
    BY <1>3, <2>1, <2>2
  <2>4. ~EndsTurn(w)
    BY <2>3 DEF Goes, EndsTurn, Rests, Resting
  <2>5. QED
    BY <1>1, <2>1, <2>2, <2>3, <2>4 DEF Failed
<1>5. CASE /\ doubtful' = IF did \in {"processing", "succeeded"}
                          THEN doubtful \cup {task[w].enr} ELSE doubtful
           /\ \/ task' = [task EXCEPT ![w].pc = "answer", ![w].answer = "no_intent"]
              \/ EndTurn(w)
  <2>1. Goes(w, "answer") \/ EndsTurn(w)
    <3>1. "no_intent" \in Answers
      BY DEF Answers
    <3>2. QED
      BY <1>2, <1>3, <1>5, <3>1, TurnEnds
  <2>2. /\ did = "none" \/ task[w].enr \in doubtful'
        /\ doubtful \subseteq doubtful' /\ doubtful' \subseteq doubtful \cup {task[w].enr}
    BY <1>2, <1>5
  <2>3. QED
    BY <1>1, <2>1, <2>2
<1>6. QED
  BY <1>1, <1>4, <1>5


--------------------------------------------------------------------------------
(* What workers hold is kept.                                                *)

LEMMA HeldFrame ==
    ASSUME TypeInv, NEW v \in Workers, task'[v] = task[v],
           task[v].pc \in Holding =>
             /\ RowKept(task[v].txn)
             /\ \A r \in Retriers : Wants(r, task[v].txn)' => Wants(r, task[v].txn)
             /\ \A u \in Rows' : txn'[u].of = task[v].txn => u \in Rows /\ txn[u].of = task[v].txn
    PROVE  HeldOK(v)'
<1>1. HeldOK(v)
  BY DEF TypeInv, TasksOK
<1>2. SUFFICES ASSUME task[v].pc \in Holding PROVE HeldOK(v)'
  BY DEF HeldOK
<1>3. PICK t : t = task[v].txn
  OBVIOUS
<1>4. \A r \in Retriers : ~Wants(r, t)
  BY <1>1, <1>2, <1>3 DEF HeldOK
<1>5. \A r \in Retriers : ~Wants(r, t)'
  BY <1>2, <1>3, <1>4
<1>6. \A u \in Rows' : txn'[u].of # t
  BY <1>1, <1>2, <1>3 DEF HeldOK
<1>7. /\ task[v].pc \in {"link", "spend", "charge"} => stripe'[t] = "none"
      /\ task[v].pc \in {"link", "spend", "charge", "answer"} /\ stripe'[t] = "none"
            => ~txn'[t].known
      /\ stripe'[t] = "none" /\ ~txn'[t].known => ~txn'[t].eligible
      /\ txn'[t].eligible => txn'[t].retryAt >= task[v].day + 2
      /\ v \in Collectors \/ task[v].pc = "link" => txn'[t].of = 0
      /\ v \in Retriers /\ task[v].pc \in {"spend", "charge"} => txn'[t].of = task[v].orig
  BY <1>1, <1>2, <1>3 DEF HeldOK, RowKept
<1>8. QED
  BY <1>2, <1>3, <1>5, <1>6, <1>7 DEF HeldOK

LEMMA RefsFrame ==
    ASSUME TypeInv, NEW v \in Workers, task'[v] = task[v], Rows \subseteq Rows',
           \A u \in Rows : txn'[u].enr = txn[u].enr, today' = today
    PROVE  KindOK(v)' /\ RefsOK(v)'
<1>1. KindOK(v) /\ RefsOK(v)
  BY DEF TypeInv, TasksOK
<1>2. KindOK(v)'
  BY <1>1 DEF KindOK
<1>3. QED
  BY <1>1, <1>2 DEF RefsOK, Holding, Charging, Resting

LEMMA DistinctFrame ==
    ASSUME TypeInv, NEW w \in Workers, Moves(w), \A t \in Txns : Holds(w, t)' => Holds(w, t)
    PROVE  Distinct'
<1>1. \A v \in Workers : \A t \in Txns : Holds(v, t)' => Holds(v, t)
  BY DEF Moves, Holds
<1>2. QED
  BY <1>1 DEF Distinct, TypeInv, TasksOK

\* A worker at rest holds and wants nothing but what is on its list.
LEMMA AtRest ==
    ASSUME TypeInv, NEW w \in Workers, Rests(w), Rows' = Rows, today' = today,
           task'[w].day = task[w].day, task'[w].due \subseteq task[w].due,
           task'[w].list \subseteq task[w].list, task[w].pc # "idle"
    PROVE  /\ KindOK(w)' /\ RefsOK(w)' /\ HeldOK(w)'
           /\ \A t : ~Holds(w, t)'
           /\ \A t : Wants(w, t)' => Wants(w, t)
<1>1. KindOK(w) /\ RefsOK(w) /\ task[w] \in Task
  BY DEF TypeInv, TasksOK, TypeOK
<1>2. task'[w].pc \in {"idle", "next"}
  BY DEF Rests, Resting
<1>3. KindOK(w)'
  BY <1>1, <1>2 DEF KindOK
<1>4. NoEnrollment \notin task'[w].due
  BY <1>1, NoneAssumption DEF Task
<1>5. RefsOK(w)'
  BY <1>1, <1>2, <1>4 DEF RefsOK, Rests, Resting, Holding, Charging
<1>6. HeldOK(w)' /\ \A t : ~Holds(w, t)'
  BY <1>2 DEF HeldOK, Holds, Holding, Charging
<1>7. \A t : Wants(w, t)' => Wants(w, t)
  BY <1>2 DEF Wants, Asks
<1>8. QED
  BY <1>3, <1>5, <1>6, <1>7

\* The types of the step's rows, and the workers' other than the one that moves.
LEMMA OthersGoOn ==
    ASSUME TypeInv, NEW w \in Workers, Moves(w), today' = today, RowsKept,
           \A t \in Txns : Wants(w, t)' => Wants(w, t),
           \A v \in Workers \ {w} : task[v].pc \in Holding =>
              /\ RowKept(task[v].txn)
              /\ \A u \in Rows : txn'[u].of = task[v].txn => txn[u].of = task[v].txn
    PROVE  \A v \in Workers \ {w} : KindOK(v)' /\ RefsOK(v)' /\ HeldOK(v)'
<1> SUFFICES ASSUME NEW v \in Workers \ {w} PROVE KindOK(v)' /\ RefsOK(v)' /\ HeldOK(v)'
  OBVIOUS
<1>1. task'[v] = task[v] /\ Rows' = Rows
  BY DEF Moves, RowsKept
<1>2. KindOK(v)' /\ RefsOK(v)'
  BY <1>1, RefsFrame DEF RowsKept
<1>3. task[v].pc \in Holding => task[v].txn \in Txns
  BY DEF TypeInv, TasksOK, RefsOK, Rows
<1>4. ASSUME task[v].pc \in Holding, NEW r \in Retriers, Wants(r, task[v].txn)'
      PROVE  Wants(r, task[v].txn)
  <2>1. CASE r = w
    BY <1>3, <1>4, <2>1, <1>1
  <2>2. CASE r # w
    <3>1. task'[r] = task[r]
      BY <2>2 DEF Moves, Workers
    <3>2. QED
      BY <1>4, <3>1, <1>1 DEF Wants, Asks
  <2>3. QED
    BY <2>1, <2>2
<1>5. HeldOK(v)'
  BY <1>1, <1>4, HeldFrame
<1>6. QED
  BY <1>2, <1>5

\* A turn that ends: rows that others hold are as they were.
LEMMA TurnIsOver ==
    ASSUME TypeInv, NEW w \in Workers, Rests(w), today' = today, RowsKept,
           task'[w].day = task[w].day, task'[w].due \subseteq task[w].due,
           task'[w].list \subseteq task[w].list, task[w].pc # "idle",
           \A v \in Workers \ {w} : task[v].pc \in Holding =>
              /\ RowKept(task[v].txn)
              /\ \A u \in Rows : txn'[u].of = task[v].txn => txn[u].of = task[v].txn
    PROVE  TasksOK'
<1>1. Moves(w) /\ Rows' = Rows
  BY DEF Rests, RowsKept
<1>2. /\ KindOK(w)' /\ RefsOK(w)' /\ HeldOK(w)'
      /\ \A t : ~Holds(w, t)'
      /\ \A t : Wants(w, t)' => Wants(w, t)
  BY <1>1, AtRest
<1>3. \A v \in Workers \ {w} : KindOK(v)' /\ RefsOK(v)' /\ HeldOK(v)'
  BY <1>1, <1>2, OthersGoOn
<1>4. Distinct'
  BY <1>1, <1>2, DistinctFrame
<1>5. QED
  BY <1>2, <1>3, <1>4 DEF TasksOK

\* A step to the next round trip: likewise, when what it holds is as it was.
LEMMA WorkerGoesOn ==
    ASSUME TypeInv, NEW w \in Workers, NEW l \in Labels \ Resting, Goes(w, l),
           today' = today, RowsKept, KindOK(w)', HeldOK(w)', task[w].pc \notin Resting,
           l \in Holding => task[w].pc \in Holding,
           \A t \in Txns : Wants(w, t)' => Wants(w, t),
           \A v \in Workers \ {w} : task[v].pc \in Holding =>
              /\ RowKept(task[v].txn)
              /\ \A u \in Rows : txn'[u].of = task[v].txn => txn[u].of = task[v].txn
    PROVE  TasksOK'
<1>1. Moves(w) /\ Rows' = Rows /\ RefsOK(w)
  BY DEF Goes, RowsKept, TypeInv, TasksOK
<1>2. RefsOK(w)'
  BY <1>1 DEF RefsOK, Goes, Same, RowsKept, Resting
<1>3. \A v \in Workers \ {w} : KindOK(v)' /\ RefsOK(v)' /\ HeldOK(v)'
  BY <1>1, OthersGoOn
<1>4. Distinct'
  <2>1. \A t \in Txns : Holds(w, t)' => Holds(w, t)
    BY DEF Holds, Goes, Same
  <2>2. QED
    BY <1>1, <2>1, DistinctFrame
<1>5. QED
  BY <1>2, <1>3, <1>4 DEF TasksOK


LEMMA RowsFrame ==
    ASSUME TypeInv, RowsKept, \A t \in Txns : stripe'[t] # "none" => t \in Rows,
           \A t \in Rows : txn'[t].of \in Rows \cup {0}
    PROVE  RowsOK'
BY DEF RowsOK, RowsKept, TypeInv

LEMMA RowsQuiet ==
    ASSUME TypeInv, UNCHANGED <<txn, stripe>>
    PROVE  /\ RowsKept /\ RowsOK'
           /\ \A v \in Workers : task[v].pc \in Holding =>
                 /\ RowKept(task[v].txn)
                 /\ \A u \in Rows : txn'[u].of = task[v].txn => txn[u].of = task[v].txn
<1>1. RowsKept
  BY NothingWritten DEF TypeInv
<1>2. RowsOK'
  BY <1>1, RowsFrame DEF TypeInv, RowsOK
<1>3. QED
  BY <1>1, <1>2 DEF RowKept

--------------------------------------------------------------------------------
(* Each step keeps TypeInv.                                                  *)

LEMMA TickKeepsTypes == TypeInv /\ Tick => TypeInv'
<1> SUFFICES ASSUME TypeInv, Tick PROVE TypeInv'
  OBVIOUS
<1>1. today' \in Days /\ today' = today + 1
  BY CalendarAssumption DEF Tick, TypeInv, TypeOK, Days
<1>2. TypeOK'
  BY <1>1 DEF Tick, TypeInv, TypeOK
<1>3. RowsKept /\ RowsOK' /\ Rows' = Rows
  BY RowsQuiet DEF Tick, RowsKept
<1>4. ASSUME NEW v \in Workers PROVE KindOK(v)' /\ RefsOK(v)' /\ HeldOK(v)'
  <2>1. KindOK(v) /\ RefsOK(v) /\ HeldOK(v) /\ task[v].day \in Days /\ today \in Days
    BY DEF TypeInv, TasksOK, TypeOK, Task
  <2>2. KindOK(v)' /\ HeldOK(v)'
    BY <2>1, <1>3 DEF Tick, KindOK, HeldOK, Wants, Asks
  <2>3. task[v].pc = "idle" \/ task[v].day = today
    BY DEF Tick, At
  <2>4. task'[v].pc # "idle" => task'[v].day <= today' /\ today' <= task'[v].day + 1
    BY <2>1, <2>3, <1>1 DEF Tick, Days
  <2>5. RefsOK(v)'
    BY <2>1, <2>4, <1>3 DEF Tick, RefsOK
  <2>6. QED
    BY <2>2, <2>5
<1>5. Distinct'
  BY DEF Tick, TypeInv, TasksOK, Distinct, Holds
<1>6. QED
  BY <1>2, <1>3, <1>4, <1>5 DEF TypeInv, TasksOK

\* A step that leaves the workers and the calendar alone, and keeps the rows.
LEMMA WorkersRest ==
    ASSUME TypeInv, UNCHANGED <<task, today>>, RowsKept,
           \A t \in Rows : txn'[t].of = txn[t].of,
           \A v \in Workers : task[v].pc \in Holding => HeldOK(v)'
    PROVE  TasksOK'
<1>1. ASSUME NEW v \in Workers PROVE KindOK(v)' /\ RefsOK(v)' /\ HeldOK(v)'
  <2>1. HeldOK(v)'
    BY DEF HeldOK
  <2>2. KindOK(v)' /\ RefsOK(v)'
    BY RefsFrame DEF RowsKept
  <2>3. QED
    BY <2>1, <2>2
<1>2. Distinct'
  BY DEF TypeInv, TasksOK, Distinct, Holds
<1>3. QED
  BY <1>1, <1>2 DEF TasksOK

LEMMA EditKeepsTypes ==
    ASSUME TypeInv, NEW e \in Enrollments, Edit(e) PROVE TypeInv'
<1>1. RowsKept /\ RowsOK'
  BY RowsQuiet DEF Edit
<1>2. TasksOK'
  <2>1. \A v \in Workers : HeldOK(v)'
    BY DEF Edit, HeldOK, Wants, Asks, Rows, TypeInv, TasksOK
  <2>2. QED
    BY <1>1, <2>1, WorkersRest DEF Edit
<1>3. enr' \in [Enrollments -> Enrollment]
  <2>1. enr[e] \in Enrollment /\ enr \in [Enrollments -> Enrollment]
    BY DEF TypeInv, TypeOK
  <2>2. CASE enr' = [enr EXCEPT ![e].usable = ~@]
    <3>1. PICK x : x = [enr[e] EXCEPT !.usable = ~enr[e].usable]
      OBVIOUS
    <3>2. x \in Enrollment /\ enr' = [enr EXCEPT ![e] = x]
      BY <2>1, <2>2, <3>1 DEF Enrollment
    <3>3. QED
      BY <2>1, <3>2
  <2>3. CASE \E s \in {"active", "paused", "cancelled"} :
            enr' = [enr EXCEPT ![e].status = s,
                               ![e].next = IF s = "active" /\ enr[e].status = "paused"
                                           THEN FirstRunDate(today) ELSE @]
    <3>1. PICK s \in {"active", "paused", "cancelled"} :
            enr' = [enr EXCEPT ![e].status = s,
                               ![e].next = IF s = "active" /\ enr[e].status = "paused"
                                           THEN FirstRunDate(today) ELSE @]
      BY <2>3
    <3>2. FirstRunDate(today) \in Nat
      BY NextDateIsNat DEF TypeInv, TypeOK, Days
    <3>3. PICK n \in Nat : n = IF s = "active" /\ enr[e].status = "paused"
                               THEN FirstRunDate(today) ELSE enr[e].next
      BY <2>1, <3>2 DEF Enrollment
    <3>4. PICK x : x = [enr[e] EXCEPT !.status = s, !.next = n]
      OBVIOUS
    <3>5. x \in Enrollment /\ enr' = [enr EXCEPT ![e] = x]
      BY <2>1, <3>1, <3>3, <3>4 DEF Enrollment
    <3>6. QED
      BY <2>1, <3>5
  <2>4. QED
    BY <2>2, <2>3 DEF Edit
<1>4. edits' \in 0..MaxEdits
  BY BoundsAssumption DEF Edit, TypeInv, TypeOK
<1>5. TypeOK'
  BY <1>3, <1>4 DEF Edit, TypeInv, TypeOK
<1>6. QED
  BY <1>1, <1>2, <1>5 DEF TypeInv

LEMMA SettleKeepsTypes ==
    ASSUME TypeInv, NEW t \in Txns, Settle(t) PROVE TypeInv'
<1>1. PICK s \in {"succeeded", "failed"} : stripe' = [stripe EXCEPT ![t] = s]
  BY DEF Settle
<1>2. stripe' \in [Txns -> {"none", "processing", "succeeded", "failed"}]
      /\ \A u \in Txns : (stripe'[u] = "none") <=> (stripe[u] = "none")
  BY <1>1 DEF Settle, TypeInv, TypeOK
<1>3. TypeOK'
  BY <1>2 DEF Settle, TypeInv, TypeOK
<1>4. RowsKept /\ Rows' = Rows
  BY NothingWritten DEF Settle, TypeInv, RowsKept
<1>5. RowsOK'
  BY <1>2, <1>4, RowsFrame DEF Settle, TypeInv, RowsOK
<1>6. ASSUME NEW v \in Workers, task[v].pc \in Holding PROVE HeldOK(v)'
  <2>1. HeldOK(v) /\ task[v].txn \in Txns
    BY <1>6 DEF TypeInv, TasksOK, RefsOK, Rows
  <2>2. QED
    BY <1>2, <1>4, <1>6, <2>1 DEF Settle, HeldOK, Wants, Asks
<1>7. TasksOK'
  BY <1>4, <1>6, WorkersRest DEF Settle
<1>8. QED
  BY <1>3, <1>5, <1>7 DEF TypeInv

LEMMA ReportProgressShape ==
    ASSUME TypeInv, NEW t \in Txns, ReportProgress(t)
    PROVE  /\ RowsKept /\ KnownKept
           /\ \A u \in Txns : /\ txn'[u].of = txn[u].of /\ txn'[u].retryAt = txn[u].retryAt
                              /\ txn'[u].eligible = txn[u].eligible
<1>1. PICK s \in {"pending", "succeeded"} :
         txn' = [txn EXCEPT ![t].status = s, ![t].known = TRUE]
  BY DEF ReportProgress
<1>2. t \in Rows /\ txn[t] \in Txn /\ stripe[t] # "none"
  BY DEF ReportProgress, TypeInv, TypeOK, RowsOK, Rows
<1>3. PICK x : x = [txn[t] EXCEPT !.status = s, !.known = TRUE]
  OBVIOUS
<1>4. /\ x \in Txn /\ x.enr = txn[t].enr /\ x.day = txn[t].day /\ x.of = txn[t].of
      /\ x.eligible = txn[t].eligible /\ x.retryAt = txn[t].retryAt
      /\ txn' = [txn EXCEPT ![t] = x]
  BY <1>1, <1>2, <1>3 DEF Txn, TypeInv, TypeOK
<1>5. /\ txn' \in [Txns -> Txn \cup {NoTxn}] /\ Rows' = Rows
      /\ txn'[t] = x /\ \A u \in Txns \ {t} : txn'[u] = txn[u]
  BY <1>2, <1>4, RowWritten DEF TypeInv
<1>6. \A u \in Txns : /\ txn'[u].of = txn[u].of /\ txn'[u].retryAt = txn[u].retryAt
                      /\ txn'[u].eligible = txn[u].eligible
                      /\ txn'[u].enr = txn[u].enr /\ txn'[u].day = txn[u].day
  BY <1>4, <1>5
<1>7. KnownKept
  BY <1>2, <1>5 DEF KnownKept
<1>8. QED
  BY <1>5, <1>6, <1>7 DEF RowsKept, Rows

LEMMA ReportProgressKeepsTypes ==
    ASSUME TypeInv, NEW t \in Txns, ReportProgress(t) PROVE TypeInv'
<1>1. /\ RowsKept /\ KnownKept /\ Rows' = Rows
      /\ \A u \in Txns : /\ txn'[u].of = txn[u].of /\ txn'[u].retryAt = txn[u].retryAt
                         /\ txn'[u].eligible = txn[u].eligible
  BY ReportProgressShape DEF RowsKept
<1>2. TypeOK'
  BY <1>1 DEF ReportProgress, RowsKept, TypeInv, TypeOK
<1>3. Rows \subseteq Txns
  BY DEF Rows
<1>4. RowsOK'
  BY <1>1, <1>3, RowsFrame DEF ReportProgress, TypeInv, RowsOK
<1>5. ASSUME NEW v \in Workers, task[v].pc \in Holding PROVE HeldOK(v)'
  <2>1. HeldOK(v) /\ task[v].txn \in Txns
    BY <1>5 DEF TypeInv, TasksOK, RefsOK, Rows
  <2>2. QED
    BY <1>1, <1>3, <1>5, <2>1 DEF ReportProgress, KnownKept, HeldOK, Wants, Asks
<1>6. TasksOK'
  BY <1>1, <1>3, <1>5, WorkersRest DEF ReportProgress
<1>7. QED
  BY <1>2, <1>4, <1>6 DEF TypeInv


LEMMA ReportFailureShape ==
    ASSUME TypeInv, NEW t \in Txns, ReportFailure(t)
    PROVE  /\ RowsKept /\ t \in Rows /\ (stripe[t] = "none" => txn[t].known)
           /\ \A u \in Txns : txn'[u].of = txn[u].of /\ txn'[u].known = txn[u].known
           /\ \A u \in Txns \ {t} : txn'[u] = txn[u]
           /\ (txn'[t].eligible => txn'[t].retryAt >= today + 2 \/ txn'[t] = txn[t])
<1>1. /\ t \in Rows /\ txn[t] \in Txn /\ today \in Days
      /\ (stripe[t] = "none" => txn[t].known)
  BY DEF ReportFailure, Refused, TypeInv, TypeOK, RowsOK, Rows
<1>2. CASE UNCHANGED txn
  BY <1>1, <1>2, NothingWritten DEF TypeInv, RowsKept
<1>3. CASE \E x \in Marked(txn[t]) : txn' = [txn EXCEPT ![t] = [x EXCEPT !.status = "failed"]]
  <2>1. PICK y \in Marked(txn[t]) : txn' = [txn EXCEPT ![t] = [y EXCEPT !.status = "failed"]]
    BY <1>3
  <2>2. PICK x : x = [y EXCEPT !.status = "failed"]
    OBVIOUS
  <2>3. /\ y \in Txn /\ y.enr = txn[t].enr /\ y.day = txn[t].day /\ y.of = txn[t].of
        /\ y.known = txn[t].known
        /\ (y.eligible => y.retryAt >= today + 2)
    BY <1>1, MarkedRow
  <2>4. /\ x \in Txn /\ x.enr = y.enr /\ x.day = y.day /\ x.of = y.of
        /\ x.eligible = y.eligible /\ x.retryAt = y.retryAt /\ x.known = y.known
    BY <2>2, <2>3 DEF Txn
  <2>5. /\ txn' \in [Txns -> Txn \cup {NoTxn}] /\ Rows' = Rows
        /\ txn'[t] = x /\ \A u \in Txns \ {t} : txn'[u] = txn[u]
    BY <1>1, <2>1, <2>2, <2>4, RowWritten DEF TypeInv
  <2>6. \A u \in Txns : /\ txn'[u].of = txn[u].of /\ txn'[u].known = txn[u].known
                        /\ txn'[u].enr = txn[u].enr /\ txn'[u].day = txn[u].day
    BY <2>3, <2>4, <2>5
  <2>7. QED
    BY <1>1, <2>3, <2>4, <2>5, <2>6 DEF RowsKept, Rows
<1>4. QED
  BY <1>2, <1>3 DEF ReportFailure

LEMMA ReportFailureKeepsTypes ==
    ASSUME TypeInv, NEW t \in Txns, ReportFailure(t) PROVE TypeInv'
<1>1. /\ RowsKept /\ Rows' = Rows /\ t \in Rows /\ (stripe[t] = "none" => txn[t].known)
      /\ \A u \in Txns : txn'[u].of = txn[u].of /\ txn'[u].known = txn[u].known
      /\ \A u \in Txns \ {t} : txn'[u] = txn[u]
      /\ (txn'[t].eligible => txn'[t].retryAt >= today + 2 \/ txn'[t] = txn[t])
  BY ReportFailureShape DEF RowsKept
<1>2. reports' \in [Txns -> 0..FailureEvents]
  BY BoundsAssumption DEF ReportFailure, TypeInv, TypeOK
<1>3. doubtful' \subseteq Enrollments
  BY <1>1 DEF ReportFailure, TypeInv, TypeOK, Txn, Rows
<1>4. TypeOK'
  BY <1>1, <1>2, <1>3 DEF ReportFailure, RowsKept, TypeInv, TypeOK
<1>5. Rows \subseteq Txns
  BY DEF Rows
<1>6. RowsOK'
  BY <1>1, <1>5, RowsFrame DEF ReportFailure, TypeInv, RowsOK
<1>7. ASSUME NEW v \in Workers, task[v].pc \in Holding PROVE HeldOK(v)'
  <2>1. HeldOK(v) /\ RefsOK(v) /\ task[v].txn \in Txns
    BY <1>7 DEF TypeInv, TasksOK, RefsOK, Rows
  <2>2. task[v].day <= today /\ task[v].day \in Nat /\ today \in Nat
    BY <1>7, <2>1 DEF RefsOK, Holding, Charging, TypeInv, TypeOK, Task, Days
  <2>3. \A r \in Retriers : Wants(r, task[v].txn)' => Wants(r, task[v].txn)
    BY DEF ReportFailure, Wants, Asks
  <2>4. CASE task[v].txn # t
    BY <1>1, <1>5, <1>7, <2>1, <2>3, <2>4, HeldFrame DEF ReportFailure, RowKept
  <2>5. CASE task[v].txn = t
    <3>1. /\ stripe' = stripe /\ task[v].pc \notin {"link", "spend", "charge"}
          /\ (stripe[t] = "none" => txn'[t].known /\ task[v].pc # "answer")
      BY <1>1, <1>7, <2>1, <2>5 DEF ReportFailure, HeldOK
    <3>2. txn'[t].eligible => txn'[t].retryAt >= task[v].day + 2
      <4>1. CASE txn'[t] = txn[t]
        BY <4>1, <1>7, <2>1, <2>5 DEF HeldOK
      <4>2. CASE txn'[t].eligible /\ txn'[t].retryAt >= today + 2
        <5>1. txn'[t] \in Txn
          BY <1>1, NoneAssumption DEF RowsKept, Rows
        <5>2. QED
          BY <4>2, <2>2, <5>1 DEF Txn
      <4>3. QED
        BY <1>1, <4>1, <4>2
    <3>3. \A r \in Retriers : ~Wants(r, t)'
      BY <1>7, <2>1, <2>5 DEF ReportFailure, HeldOK, Wants, Asks
    <3>4. \A u \in Rows' : txn'[u].of # t
      BY <1>1, <1>5, <1>7, <2>1, <2>5 DEF HeldOK
    <3>5. QED
      BY <1>1, <1>7, <2>1, <2>5, <3>1, <3>2, <3>3, <3>4 DEF ReportFailure, HeldOK
  <2>6. QED
    BY <2>4, <2>5
<1>8. TasksOK'
  BY <1>1, <1>5, <1>7, WorkersRest DEF ReportFailure
<1>9. QED
  BY <1>4, <1>6, <1>8 DEF TypeInv

LEMMA StartCollectingKeepsTypes ==
    ASSUME TypeInv, NEW c \in Collectors, StartCollecting(c) PROVE TypeInv'
<1>1. /\ Moves(c) /\ task'[c].pc = "next" /\ task'[c].day = today /\ task'[c].due = Due
      /\ task'[c].list = {} /\ task'[c].enr = NoEnrollment /\ task'[c].orig = 0
  BY CollectingStarts DEF TypeInv
<1>2. c \in Workers /\ Due \subseteq Enrollments /\ today \in Nat
  BY DEF Workers, Due, TypeInv, TypeOK, Days
<1>3. TypeOK'
  BY <1>1, <1>2 DEF StartCollecting, Moves, TypeInv, TypeOK
<1>4. /\ RowsKept /\ RowsOK' /\ Rows' = Rows
      /\ \A v \in Workers : task[v].pc \in Holding =>
            /\ RowKept(task[v].txn)
            /\ \A u \in Rows : txn'[u].of = task[v].txn => txn[u].of = task[v].txn
  BY RowsQuiet DEF StartCollecting, RowsKept
<1>5. \A t : ~Wants(c, t)' /\ ~Holds(c, t)'
  BY <1>1 DEF Wants, Asks, Holds, Holding, Charging
<1>6. KindOK(c)'
  BY <1>1 DEF KindOK
<1>7. RefsOK(c)'
  BY <1>1, <1>2, WorkersAssumption, NoneAssumption DEF RefsOK, Resting, Holding, Charging,
     StartCollecting
<1>8. HeldOK(c)'
  BY <1>1 DEF HeldOK, Holding, Charging
<1>9. \A v \in Workers \ {c} : KindOK(v)' /\ RefsOK(v)' /\ HeldOK(v)'
  BY <1>1, <1>2, <1>4, <1>5, OthersGoOn DEF StartCollecting
<1>10. Distinct'
  BY <1>1, <1>2, <1>5, DistinctFrame
<1>11. QED
  BY <1>3, <1>4, <1>6, <1>7, <1>8, <1>9, <1>10 DEF TypeInv, TasksOK

LEMMA StartRetryingKeepsTypes ==
    ASSUME TypeInv, NEW r \in Retriers, StartRetrying(r) PROVE TypeInv'
<1>1. /\ Moves(r) /\ task'[r].pc = "next" /\ task'[r].day = today /\ task'[r].due = {}
      /\ task'[r].list = Eligible /\ task'[r].enr = NoEnrollment /\ task'[r].orig = 0
  BY RetryingStarts DEF TypeInv
<1>2. r \in Workers /\ Eligible \subseteq Rows /\ today \in Nat
  BY DEF Workers, Eligible, TypeInv, TypeOK, Days
<1>3. doubtful' \subseteq Enrollments
  BY <1>2 DEF StartRetrying, TypeInv, TypeOK, Rows, Txn, Eligible
<1>4. TypeOK'
  BY <1>1, <1>2, <1>3 DEF StartRetrying, Moves, TypeInv, TypeOK
<1>5. RowsKept /\ RowsOK' /\ Rows' = Rows /\ txn' = txn /\ stripe' = stripe
  BY RowsQuiet DEF StartRetrying, RowsKept
<1>6. \A t : ~Holds(r, t)'
  BY <1>1 DEF Holds, Holding, Charging
<1>7. KindOK(r)'
  BY <1>1, <1>2 DEF KindOK
<1>8. RefsOK(r)'
  BY <1>1, <1>2, <1>5, WorkersAssumption DEF RefsOK, Resting, Holding, Charging, StartRetrying
<1>9. HeldOK(r)'
  BY <1>1 DEF HeldOK, Holding, Charging
<1>10. ASSUME NEW v \in Workers \ {r} PROVE KindOK(v)' /\ RefsOK(v)' /\ HeldOK(v)'
  <2>1. task'[v] = task[v] /\ KindOK(v) /\ RefsOK(v) /\ HeldOK(v)
    BY <1>1 DEF Moves, TypeInv, TasksOK
  <2>2. KindOK(v)' /\ RefsOK(v)'
    BY <1>5, <2>1, RefsFrame DEF StartRetrying
  <2>3. ASSUME task[v].pc \in Holding, NEW q \in Retriers, Wants(q, task[v].txn)'
        PROVE  Wants(q, task[v].txn)
    <3>1. CASE q = r
      <4>1. task[v].txn \in Eligible
        BY <1>1, <2>3, <3>1, <2>1 DEF Wants, Asks
      <4>2. /\ task[v].day <= today /\ task[v].day \in Nat /\ today <= task[v].day + 1
            /\ task[v].txn \in Rows
        BY <2>1, <2>3 DEF RefsOK, Holding, Charging, TypeInv, TypeOK, Task, Days
      <4>3. txn[task[v].txn].retryAt >= task[v].day + 2 /\ txn[task[v].txn].retryAt <= today
        BY <2>1, <2>3, <4>1 DEF HeldOK, Eligible
      <4>4. txn[task[v].txn].retryAt \in Nat
        BY <4>2 DEF TypeInv, TypeOK, Rows, Txn
      <4>5. QED
        BY <1>2, <4>2, <4>3, <4>4
    <3>2. CASE q # r
      BY <1>1, <2>1, <2>3, <3>2 DEF Moves, Workers, Wants, Asks
    <3>3. QED
      BY <3>1, <3>2
  <2>4. HeldOK(v)'
    BY <1>5, <2>1, <2>3, HeldFrame DEF RowKept
  <2>5. QED
    BY <2>2, <2>4
<1>11. Distinct'
  BY <1>1, <1>2, <1>6, DistinctFrame
<1>12. QED
  BY <1>4, <1>5, <1>7, <1>8, <1>9, <1>10, <1>11 DEF TypeInv, TasksOK


LEMMA CheckRunKeepsTypes ==
    ASSUME TypeInv, NEW w \in Workers, CheckRun(w) PROVE TypeInv'
<1>1. PICK e \in task[w].due :
             /\ Moves(w) /\ task'[w].day = task[w].day /\ task'[w].due = task[w].due \ {e}
             /\ task'[w].list = task[w].list
             /\ \/ Rests(w) /\ HasRun(e, task[w].day)
                \/ /\ ~HasRun(e, task[w].day) /\ task'[w].pc = "inflight" /\ task'[w].enr = e
                   /\ task'[w].orig = task[w].orig
  BY RunIsChecked DEF TypeInv
<1>2. TypeOK'
  BY <1>1 DEF CheckRun, Moves, TypeInv, TypeOK
<1>3. /\ RowsKept /\ RowsOK' /\ Rows' = Rows
      /\ \A v \in Workers : task[v].pc \in Holding =>
            /\ RowKept(task[v].txn)
            /\ \A u \in Rows : txn'[u].of = task[v].txn => txn[u].of = task[v].txn
  BY RowsQuiet DEF CheckRun, RowsKept
<1>4. task[w].pc = "next" /\ w \in Collectors /\ KindOK(w) /\ RefsOK(w) /\ task[w] \in Task
  BY DEF CheckRun, At, TypeInv, TasksOK, TypeOK
<1>5. CASE Rests(w)
  <2>1. TasksOK'
    BY <1>1, <1>3, <1>4, <1>5, TurnIsOver DEF CheckRun
  <2>2. QED
    BY <1>2, <1>3, <2>1 DEF TypeInv
<1>6. CASE task'[w].pc = "inflight" /\ task'[w].enr = e /\ task'[w].orig = task[w].orig
  <2>1. KindOK(w)'
    BY <1>1, <1>4, <1>6 DEF KindOK
  <2>2. RefsOK(w)'
    BY <1>1, <1>3, <1>4, <1>6, WorkersAssumption DEF RefsOK, Resting, Holding, Charging,
       CheckRun, Task
  <2>3. HeldOK(w)' /\ \A t : ~Holds(w, t)' /\ (Wants(w, t)' => Wants(w, t))
    BY <1>1, <1>6 DEF HeldOK, Holds, Holding, Charging, Wants, Asks
  <2>4. \A v \in Workers \ {w} : KindOK(v)' /\ RefsOK(v)' /\ HeldOK(v)'
    BY <1>1, <1>3, <2>3, OthersGoOn DEF CheckRun
  <2>5. Distinct'
    BY <1>1, <2>3, DistinctFrame
  <2>6. QED
    BY <1>2, <1>3, <2>1, <2>2, <2>3, <2>4, <2>5 DEF TypeInv, TasksOK
<1>7. QED
  BY <1>1, <1>5, <1>6

\* A collection that ends its turn, or goes on to look at the method or make a row.
LEMMA LookKeepsTypes ==
    ASSUME TypeInv, NEW w \in Workers, UNCHANGED <<txn, stripe, today>>,
           task[w].pc \in {"inflight", "method"},
           EndTurn(w) \/ (\E l \in {"method", "create"} : Go(w, l))
    PROVE  RowsOK' /\ TasksOK' /\ task' \in [Workers -> Task]
<1>1. /\ RowsKept /\ RowsOK' /\ Rows' = Rows
      /\ \A v \in Workers : task[v].pc \in Holding =>
            /\ RowKept(task[v].txn)
            /\ \A u \in Rows : txn'[u].of = task[v].txn => txn[u].of = task[v].txn
  BY RowsQuiet DEF RowsKept
<1>2. task \in [Workers -> Task] /\ KindOK(w) /\ RefsOK(w) /\ w \in Collectors
  BY DEF TypeInv, TypeOK, TasksOK, KindOK
<1>3. CASE EndTurn(w)
  <2>1. EndsTurn(w)
    BY <1>2, <1>3, TurnEnds
  <2>2. TasksOK'
    BY <1>1, <2>1, TurnIsOver DEF EndsTurn
  <2>3. QED
    BY <1>1, <2>1, <2>2 DEF EndsTurn, Rests, Moves
<1>4. CASE \E l \in {"method", "create"} : Go(w, l)
  <2>1. PICK l \in {"method", "create"} : Go(w, l)
    BY <1>4
  <2>2. Goes(w, l)
    BY <1>2, <2>1, WorkerGoes DEF Labels
  <2>3. KindOK(w)' /\ HeldOK(w)'
    BY <1>2, <2>1, <2>2 DEF KindOK, HeldOK, Goes, Same, Holding, Charging
  <2>4. l \in Labels \ Resting /\ l \notin Holding /\ task[w].pc \notin Resting
    BY <2>1 DEF Labels, Resting, Holding, Charging
  <2>5. \A t \in Txns : Wants(w, t)' => Wants(w, t)
    <3>1. task[w].orig = 0 /\ 0 \notin Txns
      BY <1>2 DEF RefsOK, Txns
    <3>2. QED
      BY <2>2, <3>1 DEF Wants, Asks, Goes, Same
  <2>6. TasksOK'
    BY <1>1, <2>2, <2>3, <2>4, <2>5, WorkerGoesOn
  <2>7. QED
    BY <1>1, <2>2, <2>6 DEF Goes, Moves
<1>5. QED
  BY <1>3, <1>4

LEMMA CheckInFlightKeepsTypes ==
    ASSUME TypeInv, NEW w \in Workers, CheckInFlight(w) PROVE TypeInv'
<1>1. /\ UNCHANGED <<txn, stripe, today>> /\ task[w].pc \in {"inflight", "method"}
      /\ (EndTurn(w) \/ (\E l \in {"method", "create"} : Go(w, l)))
  BY DEF CheckInFlight, At
<1>2. RowsOK' /\ TasksOK' /\ task' \in [Workers -> Task]
  BY <1>1, LookKeepsTypes
<1>3. TypeOK'
  BY <1>2 DEF CheckInFlight, TypeInv, TypeOK
<1>4. QED
  BY <1>2, <1>3 DEF TypeInv

LEMMA LoadMethodKeepsTypes ==
    ASSUME TypeInv, NEW w \in Workers, LoadMethod(w) PROVE TypeInv'
<1>1. /\ UNCHANGED <<txn, stripe, today>> /\ task[w].pc \in {"inflight", "method"}
      /\ (EndTurn(w) \/ (\E l \in {"method", "create"} : Go(w, l)))
  BY DEF LoadMethod, At
<1>2. RowsOK' /\ TasksOK' /\ task' \in [Workers -> Task]
  BY <1>1, LookKeepsTypes
<1>3. TypeOK'
  BY <1>2 DEF LoadMethod, TypeInv, TypeOK
<1>4. QED
  BY <1>2, <1>3 DEF TypeInv

LEMMA CreateTxnKeepsTypes ==
    ASSUME TypeInv, NEW w \in Workers, CreateTxn(w) PROVE TypeInv'
<1>1. task[w].pc = "create" /\ KindOK(w) /\ RefsOK(w) /\ task[w].enr \in Enrollments
  BY DEF CreateTxn, At, TypeInv, TasksOK, RefsOK, Resting
<1>2. PICK t \in Txns \ Rows :
             /\ Rows' = Rows \cup {t} /\ (\E n \in 0..MaxTxns : Rows' = 1..n)
             /\ txn' \in [Txns -> Txn \cup {NoTxn}]
             /\ \A u \in Txns \ {t} : txn'[u] = txn[u]
             /\ txn'[t].enr = task[w].enr /\ txn'[t].of = 0 /\ ~txn'[t].eligible /\ ~txn'[t].known
             /\ Moves(w) /\ task'[w].day = task[w].day /\ task'[w].due = task[w].due
             /\ task'[w].list = task[w].list /\ task'[w].enr = task[w].enr
             /\ task'[w].orig = task[w].orig /\ task'[w].txn = t
             /\ task'[w].pc = IF w \in Collectors THEN "charge" ELSE "link"
  BY <1>1, RowCreated DEF TypeInv
<1>3. TypeOK'
  BY <1>2 DEF CreateTxn, Moves, TypeInv, TypeOK
<1>4. Rows \subseteq Txns /\ 0 \notin Txns /\ stripe' = stripe /\ today' = today
  BY DEF CreateTxn, Rows, Txns
<1>5. /\ \A u \in Txns : stripe[u] # "none" => u \in Rows
      /\ \A u \in Rows : txn[u].of \in Rows \cup {0} /\ txn'[u] = txn[u]
  BY <1>2, <1>4 DEF TypeInv, RowsOK
<1>6. RowsOK'
  BY <1>2, <1>4, <1>5 DEF RowsOK
<1>7. \/ task'[w].pc = "charge" /\ w \in Collectors /\ w \notin Retriers
      \/ task'[w].pc = "link" /\ w \in Retriers /\ w \notin Collectors
  BY <1>2, WorkersAssumption DEF Workers
<1>8. KindOK(w)'
  BY <1>1, <1>2, <1>7 DEF KindOK
<1>9. RefsOK(w)'
  BY <1>1, <1>2, <1>4, <1>5, <1>7 DEF RefsOK, Resting, Holding, Charging
<1>10. \A r \in Retriers : \A u \in Txns : Wants(r, u)' => Wants(r, u)
  BY <1>1, <1>2, <1>7 DEF Moves, Wants, Asks, Workers
<1>11. \A r \in Retriers : ~Wants(r, t)
  <2>1. \A r \in Retriers : RefsOK(r)
    BY DEF TypeInv, TasksOK, Workers
  <2>2. \A r \in Retriers : Wants(r, t) => t \in Rows
    BY <2>1, <1>2 DEF RefsOK, Wants, Asks, Resting, Workers
  <2>3. QED
    BY <1>2, <2>2
<1>12. HeldOK(w)'
  <2>1. \A u \in Rows' : txn'[u].of # t
    BY <1>2, <1>4, <1>5
  <2>2. stripe'[t] = "none"
    BY <1>2, <1>4, <1>5
  <2>3. QED
    BY <1>2, <1>4, <1>7, <1>10, <1>11, <2>1, <2>2 DEF HeldOK
<1>13. ASSUME NEW v \in Workers \ {w} PROVE KindOK(v)' /\ RefsOK(v)' /\ HeldOK(v)'
  <2>1. task'[v] = task[v] /\ (task[v].pc \in Holding => task[v].txn \in Rows)
    BY <1>2 DEF Moves, TypeInv, TasksOK, RefsOK
  <2>2. KindOK(v)' /\ RefsOK(v)'
    BY <1>2, <1>4, <1>5, <2>1, RefsFrame
  <2>3. task[v].pc \in Holding => RowKept(task[v].txn)
    BY <1>4, <1>5, <2>1 DEF RowKept
  <2>4. task[v].pc \in Holding =>
          \A u \in Rows' : txn'[u].of = task[v].txn => u \in Rows /\ txn[u].of = task[v].txn
    BY <1>2, <1>4, <1>5, <2>1
  <2>5. task[v].pc \in Holding =>
          \A r \in Retriers : Wants(r, task[v].txn)' => Wants(r, task[v].txn)
    BY <1>4, <1>10, <2>1 DEF Wants, Asks
  <2>6. HeldOK(v)'
    BY <2>1, <2>3, <2>4, <2>5, HeldFrame
  <2>7. QED
    BY <2>2, <2>6
<1>14. Distinct'
  <2>1. \A v \in Workers \ {w} : \A u \in Txns : Holds(v, u)' => Holds(v, u) /\ u \in Rows
    BY <1>2 DEF Moves, Holds, TypeInv, TasksOK, RefsOK
  <2>2. \A u \in Txns : Holds(w, u)' => u = t
    BY <1>2 DEF Holds
  <2>3. QED
    BY <1>2, <2>1, <2>2 DEF Distinct, TypeInv, TasksOK
<1>15. QED
  BY <1>3, <1>6, <1>8, <1>9, <1>12, <1>13, <1>14 DEF TypeInv, TasksOK


\* What others hold is not what this worker holds.
LEMMA NotMine ==
    ASSUME TypeInv, NEW w \in Workers, task[w].pc \in Holding,
           NEW v \in Workers \ {w}, task[v].pc \in Holding
    PROVE  task[v].txn # task[w].txn /\ task[v].txn \in Txns
<1>1. task[v].txn \in Txns /\ task[w].txn \in Txns
  BY DEF TypeInv, TasksOK, RefsOK, Rows
<1>2. QED
  BY <1>1 DEF TypeInv, TasksOK, Distinct, Holds

LEMMA ChargeKeepsTypes ==
    ASSUME TypeInv, NEW w \in Workers, Charge(w) PROVE TypeInv'
<1>1. /\ task[w].pc = "charge" /\ task[w].pc \in Holding
      /\ UNCHANGED <<today, enr, txn, reports, paid, edits>>
      /\ KindOK(w) /\ RefsOK(w) /\ HeldOK(w)
  BY DEF Charge, At, Holding, Charging, TypeInv, TasksOK
<1>2. PICK t \in Rows : t = task[w].txn
  BY <1>1 DEF RefsOK
<1>3. /\ Goes(w, "answer") \/ EndsTurn(w)
      /\ \E did \in Outcomes : stripe' = [stripe EXCEPT ![t] = did]
      /\ doubtful' \subseteq doubtful \cup {task[w].enr}
  BY <1>2, ChargeShape DEF TypeInv
<1>4. PICK did \in Outcomes : stripe' = [stripe EXCEPT ![t] = did]
  BY <1>3
<1>5. t \in Txns /\ stripe' \in [Txns -> {"none", "processing", "succeeded", "failed"}]
      /\ \A u \in Txns \ {t} : stripe'[u] = stripe[u]
  BY <1>4, OutcomesAssumption DEF Rows, TypeInv, TypeOK
<1>6. doubtful' \subseteq Enrollments
  BY <1>1, <1>3 DEF RefsOK, Resting, TypeInv, TypeOK
<1>7. faults' \in 0..MaxFaults
  BY BoundsAssumption DEF Charge, Fault, TypeInv, TypeOK
<1>8. task' \in [Workers -> Task]
  BY <1>3 DEF Goes, EndsTurn, Rests, Moves
<1>9. TypeOK'
  BY <1>1, <1>5, <1>6, <1>7, <1>8 DEF TypeInv, TypeOK
<1>10. RowsKept /\ Rows' = Rows
  BY <1>1, NothingWritten DEF RowsKept, TypeInv
<1>11. RowsOK'
  BY <1>1, <1>2, <1>5, <1>10, RowsFrame DEF TypeInv, RowsOK
<1>12. \A v \in Workers \ {w} : task[v].pc \in Holding =>
              /\ RowKept(task[v].txn)
              /\ \A u \in Rows : txn'[u].of = task[v].txn => txn[u].of = task[v].txn
  BY <1>1, <1>2, <1>5, NotMine DEF RowKept
<1>13. CASE EndsTurn(w)
  <2>1. TasksOK'
    BY <1>1, <1>10, <1>12, <1>13, TurnIsOver DEF EndsTurn
  <2>2. QED
    BY <1>9, <1>11, <2>1 DEF TypeInv
<1>14. CASE Goes(w, "answer")
  <2>1. KindOK(w)'
    BY <1>1, <1>14 DEF KindOK, Goes, Same
  <2>2. \A r \in Retriers : \A u \in Txns : Wants(r, u)' => Wants(r, u)
    BY <1>14 DEF Goes, Same, Moves, Wants, Asks, Workers
  <2>3. HeldOK(w)'
    <3>1. ~txn[t].eligible /\ ~txn[t].known
      BY <1>1, <1>2 DEF HeldOK
    <3>2. w \in Collectors => txn[t].of = 0
      BY <1>1, <1>2 DEF HeldOK
    <3>3. \A r \in Retriers : ~Wants(r, t)'
      BY <1>1, <1>2, <1>5, <2>2 DEF HeldOK
    <3>4. \A u \in Rows : txn[u].of # t
      BY <1>1, <1>2 DEF HeldOK
    <3>5. QED
      BY <1>1, <1>2, <1>10, <1>14, <3>1, <3>2, <3>3, <3>4 DEF HeldOK, Goes, Same
  <2>4. \A u \in Txns : Wants(w, u)' => Wants(w, u)
    BY <1>14 DEF Goes, Same, Wants, Asks
  <2>5. "answer" \in Labels \ Resting /\ task[w].pc \notin Resting
    BY <1>1 DEF Labels, Resting
  <2>6. TasksOK'
    BY <1>1, <1>10, <1>12, <1>14, <2>1, <2>3, <2>4, <2>5, WorkerGoesOn
  <2>7. QED
    BY <1>9, <1>11, <2>6 DEF TypeInv
<1>15. QED
  BY <1>3, <1>13, <1>14

\* A write of the row in hand that leaves its links alone.
HeldWrite(w) ==
    /\ RowsKept /\ UNCHANGED <<stripe, today>>
    /\ \A u \in Txns : txn'[u].of = txn[u].of /\ (txn[u].known => txn'[u].known)
    /\ \A u \in Txns \ {task[w].txn} : txn'[u] = txn[u]

LEMMA HeldWriteKeeps ==
    ASSUME TypeInv, NEW w \in Workers, task[w].pc \in Holding, HeldWrite(w)
    PROVE  /\ RowsKept /\ RowsOK' /\ Rows' = Rows
           /\ \A v \in Workers \ {w} : task[v].pc \in Holding =>
                 /\ RowKept(task[v].txn)
                 /\ \A u \in Rows : txn'[u].of = task[v].txn => txn[u].of = task[v].txn
<1>1. RowsKept /\ Rows' = Rows /\ Rows \subseteq Txns
  BY DEF HeldWrite, RowsKept, Rows
<1>2. RowsOK'
  BY <1>1, RowsFrame DEF HeldWrite, TypeInv, RowsOK
<1>3. ASSUME NEW v \in Workers \ {w}, task[v].pc \in Holding
      PROVE  /\ RowKept(task[v].txn)
             /\ \A u \in Rows : txn'[u].of = task[v].txn => txn[u].of = task[v].txn
  BY <1>1, <1>3, NotMine DEF HeldWrite, RowKept
<1>4. QED
  BY <1>1, <1>2, <1>3

\* A worker past the charge goes on with a row that is as eligible as it was.
LEMMA PastTheCharge ==
    ASSUME TypeInv, NEW w \in Workers, task[w].pc \in {"answer", "record", "advance", "mark"},
           HeldWrite(w), EndsTurn(w) \/ (\E l \in {"record", "advance", "mark"} : Goes(w, l)),
           task'[w].pc = "advance" => w \in Collectors,
           EndsTurn(w) \/ (txn'[task[w].txn].eligible = txn[task[w].txn].eligible
                           /\ txn'[task[w].txn].retryAt = txn[task[w].txn].retryAt)
    PROVE  RowsOK' /\ TasksOK'
<1>1. task[w].pc \in Holding /\ KindOK(w) /\ RefsOK(w) /\ HeldOK(w)
  BY DEF Holding, Charging, TypeInv, TasksOK
<1>2. /\ RowsKept /\ RowsOK' /\ Rows' = Rows /\ today' = today
      /\ \A v \in Workers \ {w} : task[v].pc \in Holding =>
            /\ RowKept(task[v].txn)
            /\ \A u \in Rows : txn'[u].of = task[v].txn => txn[u].of = task[v].txn
  BY <1>1, HeldWriteKeeps DEF HeldWrite
<1>3. CASE EndsTurn(w)
  BY <1>2, <1>3, TurnIsOver DEF EndsTurn
<1>4. CASE ~EndsTurn(w)
  <2>1. PICK l \in {"record", "advance", "mark"} : Goes(w, l)
    BY <1>4
  <2>2. KindOK(w)'
    BY <1>1, <2>1 DEF KindOK, Goes, Same
  <2>3. PICK t \in Txns : t = task[w].txn
    BY <1>1 DEF RefsOK, Rows
  <2>4. \A r \in Retriers : \A u \in Txns : Wants(r, u)' => Wants(r, u)
    BY <2>1 DEF Goes, Same, Moves, Wants, Asks, Workers
  <2>5. \A u \in Txns : Wants(w, u)' => Wants(w, u)
    BY <2>1 DEF Goes, Same, Wants, Asks
  <2>6. HeldOK(w)'
    <3>1. \A r \in Retriers : ~Wants(r, t)'
      BY <1>1, <2>3, <2>4 DEF HeldOK
    <3>2. Rows \subseteq Txns
      BY DEF Rows
    <3>3. \A u \in Rows' : txn'[u].of # t
      BY <1>1, <1>2, <2>3, <3>2 DEF HeldOK, HeldWrite
    <3>4. /\ stripe'[t] = "none" /\ ~txn'[t].known => ~txn'[t].eligible
          /\ txn'[t].eligible => txn'[t].retryAt >= task[w].day + 2
          /\ w \in Collectors => txn'[t].of = 0
      BY <1>1, <1>4, <2>3 DEF HeldOK, HeldWrite
    <3>5. QED
      BY <2>1, <2>3, <3>1, <3>3, <3>4 DEF HeldOK, Goes, Same
  <2>7. l \in Labels \ Resting /\ task[w].pc \notin Resting
    BY <2>1 DEF Labels, Resting
  <2>8. QED
    BY <1>1, <1>2, <2>1, <2>2, <2>5, <2>6, <2>7, WorkerGoesOn
<1>5. QED
  BY <1>3, <1>4

LEMMA SaveAnswerShape ==
    ASSUME TypeInv, NEW w \in Workers, SaveAnswer(w)
    PROVE  /\ HeldWrite(w)
           /\ \A u \in Txns : txn'[u].eligible = txn[u].eligible /\ txn'[u].retryAt = txn[u].retryAt
           /\ \/ Goes(w, "record") /\ (w \in Collectors \/ task[w].answer = "succeeded")
              \/ Goes(w, "mark") /\ Failed(w) /\ w \notin Collectors
              \/ EndsTurn(w) /\ w \notin Collectors /\ ~Failed(w)
           /\ Goes(w, task'[w].pc) => Failed(w)' = Failed(w)
<1>1. task[w].pc = "answer" /\ RefsOK(w) /\ task \in [Workers -> Task]
  BY DEF SaveAnswer, At, TypeInv, TasksOK, TypeOK
<1>2. PICK t \in Rows : t = task[w].txn
  BY <1>1 DEF RefsOK, Holding, Charging
<1>3. PICK x : x = Answered(txn[t], task[w].answer)
  OBVIOUS
<1>4. txn[t] \in Txn /\ task[w].answer \in Answers
  BY <1>1, <1>2 DEF TypeInv, TypeOK, Rows, Task
<1>5. /\ x \in Txn /\ x.enr = txn[t].enr /\ x.of = txn[t].of /\ x.day = txn[t].day
      /\ x.eligible = txn[t].eligible /\ x.retryAt = txn[t].retryAt
      /\ (txn[t].known => x.known)
  BY <1>3, <1>4, AnsweredRow
<1>6. txn' = [txn EXCEPT ![t] = x]
  BY <1>2, <1>3 DEF SaveAnswer
<1>7. /\ txn' \in [Txns -> Txn \cup {NoTxn}] /\ Rows' = Rows
      /\ txn'[t] = x /\ \A u \in Txns \ {t} : txn'[u] = txn[u]
  BY <1>5, <1>6, RowWritten DEF TypeInv
<1>8. \A u \in Txns : /\ txn'[u].of = txn[u].of /\ txn'[u].enr = txn[u].enr
                      /\ txn'[u].day = txn[u].day /\ txn'[u].eligible = txn[u].eligible
                      /\ txn'[u].retryAt = txn[u].retryAt /\ (txn[u].known => txn'[u].known)
  BY <1>5, <1>7
<1>9. HeldWrite(w)
  BY <1>2, <1>7, <1>8 DEF HeldWrite, RowsKept, Rows, SaveAnswer
<1>10. "record" \in Labels /\ "mark" \in Labels
  BY DEF Labels
<1>11. \/ Goes(w, "record") /\ (w \in Collectors \/ task[w].answer = "succeeded")
       \/ Goes(w, "mark") /\ Failed(w) /\ w \notin Collectors
       \/ EndsTurn(w) /\ w \notin Collectors /\ ~Failed(w)
  BY <1>1, <1>10, WorkerGoes, TurnEnds DEF SaveAnswer
<1>12. Go(w, "record") \/ Go(w, "mark") \/ EndTurn(w)
  BY DEF SaveAnswer
<1>13. Goes(w, task'[w].pc) => Failed(w)' = Failed(w)
  <2>1. CASE Go(w, "record") \/ Go(w, "mark")
    BY <1>1, <1>10, <2>1, WorkerGoes DEF Failed
  <2>2. CASE EndTurn(w)
    <3>1. EndsTurn(w)
      BY <1>1, <2>2, TurnEnds
    <3>2. task'[w].enr = NoEnrollment /\ task[w].enr \in Enrollments
      BY <1>1, <3>1 DEF EndsTurn, Rests, RefsOK, Resting
    <3>3. QED
      BY <3>2, NoneAssumption DEF Goes, Same
  <2>3. QED
    BY <1>12, <2>1, <2>2
<1>14. QED
  BY <1>8, <1>9, <1>11, <1>13

LEMMA SaveAnswerKeepsTypes ==
    ASSUME TypeInv, NEW w \in Workers, SaveAnswer(w) PROVE TypeInv'
<1>1. /\ HeldWrite(w) /\ task[w].pc = "answer"
      /\ \A u \in Txns : txn'[u].eligible = txn[u].eligible /\ txn'[u].retryAt = txn[u].retryAt
      /\ EndsTurn(w) \/ (\E l \in {"record", "mark"} : Goes(w, l))
  BY SaveAnswerShape DEF SaveAnswer, At
<1>2. task[w].txn \in Txns
  BY <1>1 DEF TypeInv, TasksOK, RefsOK, Holding, Charging, Rows
<1>3. task'[w].pc \in {"idle", "next", "record", "mark"}
  BY <1>1 DEF Goes, EndsTurn, Rests, Resting
<1>4. RowsOK' /\ TasksOK'
  BY <1>1, <1>2, <1>3, PastTheCharge
<1>5. task' \in [Workers -> Task]
  BY <1>1 DEF Goes, EndsTurn, Rests, Moves
<1>6. TypeOK'
  BY <1>1, <1>5 DEF HeldWrite, RowsKept, SaveAnswer, TypeInv, TypeOK
<1>7. QED
  BY <1>4, <1>6 DEF TypeInv


\* A step that writes no row.
LEMMA NoWrite ==
    ASSUME TypeInv, NEW w, UNCHANGED <<txn, stripe, today>> PROVE HeldWrite(w)
<1>1. \A u \in Txns : txn[u].known => txn'[u].known
  OBVIOUS
<1>2. QED
  BY <1>1, NothingWritten DEF HeldWrite, TypeInv

LEMMA RecordRunShape ==
    ASSUME TypeInv, NEW w \in Workers, RecordRun(w)
    PROVE  /\ HeldWrite(w)
           /\ \/ Goes(w, "advance") /\ w \in Collectors /\ Failed(w)' = Failed(w)
              \/ EndsTurn(w) /\ w \notin Collectors
<1>1. task \in [Workers -> Task] /\ "advance" \in Labels
  BY DEF TypeInv, TypeOK, Labels
<1>2. HeldWrite(w)
  BY NoWrite DEF RecordRun
<1>3. CASE w \in Collectors
  BY <1>1, <1>2, <1>3, WorkerGoes DEF RecordRun, Failed
<1>4. CASE w \notin Collectors
  BY <1>1, <1>2, <1>4, TurnEnds DEF RecordRun
<1>5. QED
  BY <1>3, <1>4

LEMMA RecordRunKeepsTypes ==
    ASSUME TypeInv, NEW w \in Workers, RecordRun(w) PROVE TypeInv'
<1>1. /\ HeldWrite(w) /\ task[w].pc = "record" /\ UNCHANGED <<txn, stripe, today>>
      /\ (EndsTurn(w) \/ (Goes(w, "advance") /\ w \in Collectors))
  BY RecordRunShape DEF RecordRun, At
<1>2. task'[w].pc = "advance" => w \in Collectors
  BY <1>1 DEF EndsTurn, Rests, Resting
<1>3. RowsOK' /\ TasksOK'
  BY <1>1, <1>2, PastTheCharge
<1>4. task' \in [Workers -> Task]
  BY <1>1 DEF Goes, EndsTurn, Rests, Moves
<1>5. paid' \subseteq Enrollments \X (0..MaxDay)
  <2>1. task[w].day \in 1..MaxDay /\ today \in 1..MaxDay /\ task[w].enr \in Enrollments
    BY <1>1 DEF TypeInv, TypeOK, TasksOK, RefsOK, Resting, Task, Days
  <2>2. PICK d \in 1..MaxDay : d = IF w \in Collectors THEN task[w].day ELSE today
    BY <2>1
  <2>3. Month(d) \in 0..MaxDay
    <3>1. d \in Nat \ {0} /\ d <= MaxDay /\ MaxDay \in Nat
      BY CalendarAssumption
    <3>2. Month(d) \in Nat /\ Month(d) <= d - 1
      BY <3>1, MonthIsNat
    <3>3. QED
      BY <3>1, <3>2
  <2>4. paid' = paid \/ paid' = paid \cup {<<task[w].enr, Month(d)>>}
    BY <2>2 DEF RecordRun
  <2>5. QED
    BY <2>1, <2>3, <2>4 DEF TypeInv, TypeOK
<1>6. TypeOK'
  BY <1>4, <1>5 DEF RecordRun, TypeInv, TypeOK
<1>7. QED
  BY <1>3, <1>6 DEF TypeInv

LEMMA AdvanceShape ==
    ASSUME TypeInv, NEW w \in Workers, AdvanceNextDate(w)
    PROVE  /\ HeldWrite(w)
           /\ \/ Goes(w, "mark") /\ Failed(w) /\ Failed(w)'
              \/ EndsTurn(w) /\ ~Failed(w)
<1>1. task \in [Workers -> Task] /\ "mark" \in Labels
  BY DEF TypeInv, TypeOK, Labels
<1>2. HeldWrite(w)
  BY NoWrite DEF AdvanceNextDate
<1>3. CASE Failed(w)
  BY <1>1, <1>2, <1>3, WorkerGoes DEF AdvanceNextDate, Failed
<1>4. CASE ~Failed(w)
  BY <1>1, <1>2, <1>4, TurnEnds DEF AdvanceNextDate
<1>5. QED
  BY <1>3, <1>4

LEMMA AdvanceKeepsTypes ==
    ASSUME TypeInv, NEW w \in Workers, AdvanceNextDate(w) PROVE TypeInv'
<1>1. /\ HeldWrite(w) /\ task[w].pc = "advance" /\ UNCHANGED <<txn, stripe, today>>
      /\ (EndsTurn(w) \/ Goes(w, "mark"))
  BY AdvanceShape DEF AdvanceNextDate, At
<1>2. task'[w].pc # "advance"
  BY <1>1 DEF EndsTurn, Rests, Resting, Goes
<1>3. RowsOK' /\ TasksOK'
  BY <1>1, <1>2, PastTheCharge
<1>4. task' \in [Workers -> Task]
  BY <1>1 DEF Goes, EndsTurn, Rests, Moves
<1>5. enr' \in [Enrollments -> Enrollment]
  <2>1. task[w].day \in Nat \ {0}
    BY DEF TypeInv, TypeOK, Task, Days
  <2>2. PICK n \in Nat : n = AdvanceDate(task[w].day)
    BY <2>1, NextDateIsNat
  <2>3. enr' = [enr EXCEPT ![task[w].enr].next = n] /\ enr \in [Enrollments -> Enrollment]
    BY <2>2 DEF AdvanceNextDate, TypeInv, TypeOK
  <2>4. PICK e \in Enrollments : e = task[w].enr
    BY <1>1 DEF TypeInv, TasksOK, RefsOK, Resting
  <2>5. PICK x : x = [enr[e] EXCEPT !.next = n]
    OBVIOUS
  <2>6. x \in Enrollment /\ enr' = [enr EXCEPT ![e] = x]
    BY <2>3, <2>4, <2>5 DEF Enrollment
  <2>7. QED
    BY <2>3, <2>6
<1>6. TypeOK'
  BY <1>4, <1>5 DEF AdvanceNextDate, TypeInv, TypeOK
<1>7. QED
  BY <1>3, <1>6 DEF TypeInv

LEMMA MarkShape ==
    ASSUME TypeInv, NEW w \in Workers, MarkForRetry(w)
    PROVE  HeldWrite(w) /\ KnownKept /\ EndsTurn(w) /\ task[w].pc = "mark"
<1>1. task[w].pc = "mark" /\ RefsOK(w) /\ task \in [Workers -> Task] /\ today \in Days
  BY DEF MarkForRetry, At, TypeInv, TasksOK, TypeOK
<1>2. PICK t \in Rows : t = task[w].txn
  BY <1>1 DEF RefsOK, Holding, Charging
<1>3. PICK x \in Marked(txn[t]) : txn' = [txn EXCEPT ![t] = x]
  BY <1>2 DEF MarkForRetry
<1>4. txn[t] \in Txn
  BY <1>2 DEF TypeInv, TypeOK, Rows
<1>5. /\ x \in Txn /\ x.enr = txn[t].enr /\ x.of = txn[t].of /\ x.day = txn[t].day
      /\ x.known = txn[t].known
  BY <1>1, <1>3, <1>4, MarkedRow
<1>6. /\ txn' \in [Txns -> Txn \cup {NoTxn}] /\ Rows' = Rows
      /\ txn'[t] = x /\ \A u \in Txns \ {t} : txn'[u] = txn[u]
  BY <1>3, <1>5, RowWritten DEF TypeInv
<1>7. \A u \in Txns : /\ txn'[u].of = txn[u].of /\ txn'[u].enr = txn[u].enr
                      /\ txn'[u].day = txn[u].day /\ txn'[u].known = txn[u].known
  BY <1>5, <1>6
<1>8. HeldWrite(w) /\ KnownKept
  BY <1>2, <1>6, <1>7 DEF HeldWrite, KnownKept, RowsKept, Rows, MarkForRetry
<1>9. EndsTurn(w)
  BY <1>1, TurnEnds DEF MarkForRetry
<1>10. QED
  BY <1>1, <1>8, <1>9

LEMMA MarkKeepsTypes ==
    ASSUME TypeInv, NEW w \in Workers, MarkForRetry(w) PROVE TypeInv'
<1>1. HeldWrite(w) /\ EndsTurn(w) /\ task[w].pc = "mark"
  BY MarkShape
<1>2. task'[w].pc # "advance"
  BY <1>1 DEF EndsTurn, Rests, Resting
<1>3. RowsOK' /\ TasksOK'
  BY <1>1, <1>2, PastTheCharge
<1>4. TypeOK'
  BY <1>1 DEF HeldWrite, RowsKept, EndsTurn, Rests, Moves, MarkForRetry, TypeInv, TypeOK
<1>5. QED
  BY <1>3, <1>4 DEF TypeInv

LEMMA TakeRetryKeepsTypes ==
    ASSUME TypeInv, NEW w \in Workers, TakeRetry(w) PROVE TypeInv'
<1>1. KindOK(w) /\ RefsOK(w) /\ task[w] \in Task
  BY DEF TypeInv, TasksOK, TypeOK
<1>2. w \in Retriers /\ task[w].pc = "next" /\ w \notin Collectors
  BY <1>1, RetryIsTaken, WorkersAssumption DEF TypeInv, RefsOK
<1>3. PICK t \in task[w].list :
             /\ Moves(w) /\ task'[w].day = task[w].day /\ task'[w].due = task[w].due
             /\ task'[w].list = task[w].list \ {t} /\ task'[w].orig = t
             /\ task'[w].enr = txn[t].enr /\ task'[w].txn = task[w].txn
             /\ task'[w].pc \in {"create", "drop"}
  BY <1>1, RetryIsTaken DEF TypeInv, RefsOK
<1>4. TypeOK'
  BY <1>3 DEF TakeRetry, Moves, TypeInv, TypeOK
<1>5. /\ RowsKept /\ RowsOK' /\ Rows' = Rows /\ UNCHANGED <<txn, today>>
      /\ \A v \in Workers : task[v].pc \in Holding =>
            /\ RowKept(task[v].txn)
            /\ \A u \in Rows : txn'[u].of = task[v].txn => txn[u].of = task[v].txn
  BY RowsQuiet DEF TakeRetry, RowsKept
<1>6. t \in Rows /\ txn[t].enr \in Enrollments
  BY <1>1 DEF RefsOK, TypeInv, TypeOK, Txn, Rows
<1>7. KindOK(w)'
  BY <1>1, <1>2, <1>3 DEF KindOK
<1>8. RefsOK(w)'
  BY <1>1, <1>2, <1>3, <1>5, <1>6 DEF RefsOK, Resting, Holding, Charging
<1>9. HeldOK(w)' /\ \A u : ~Holds(w, u)' /\ (Wants(w, u)' => Wants(w, u))
  BY <1>3 DEF HeldOK, Holds, Holding, Charging, Wants, Asks
<1>10. \A v \in Workers \ {w} : KindOK(v)' /\ RefsOK(v)' /\ HeldOK(v)'
  BY <1>3, <1>5, <1>9, OthersGoOn
<1>11. Distinct'
  BY <1>3, <1>9, DistinctFrame
<1>12. QED
  BY <1>4, <1>5, <1>7, <1>8, <1>9, <1>10, <1>11 DEF TypeInv, TasksOK

LEMMA LinkShape ==
    ASSUME TypeInv, NEW w \in Workers, LinkRetry(w)
    PROVE  /\ w \in Retriers /\ task[w].pc = "link" /\ Goes(w, "spend") /\ RowsKept /\ KnownKept
           /\ task[w].txn \in Rows /\ task[w].orig \in Rows /\ task[w].txn # task[w].orig
           /\ txn'[task[w].txn].of = task[w].orig
           /\ \A u \in Txns \ {task[w].txn} : txn'[u] = txn[u]
           /\ \A u \in Txns : txn'[u].eligible = txn[u].eligible /\ txn'[u].retryAt = txn[u].retryAt
<1>1. /\ task[w].pc = "link" /\ RefsOK(w) /\ KindOK(w) /\ HeldOK(w)
      /\ task \in [Workers -> Task] /\ "spend" \in Labels
  BY DEF LinkRetry, At, TypeInv, TasksOK, TypeOK, Labels
<1>2. w \in Retriers /\ Goes(w, "spend")
  BY <1>1, WorkerGoes DEF LinkRetry, KindOK
<1>3. PICK t \in Rows, o \in Rows : t = task[w].txn /\ o = task[w].orig
  BY <1>1, <1>2 DEF RefsOK, Resting, Holding
<1>4. t # o
  BY <1>1, <1>2, <1>3 DEF HeldOK, Wants, Asks, Holding
<1>5. txn[t] \in Txn /\ txn[o] \in Txn /\ o \in Txns
  BY DEF TypeInv, TypeOK, Rows
<1>6. PICK n \in Nat \ {0} : n = txn[o].attempt + 1
  BY <1>5 DEF Txn
<1>7. PICK x : x = [txn[t] EXCEPT !.attempt = n, !.of = o]
  OBVIOUS
<1>8. /\ x \in Txn /\ x.enr = txn[t].enr /\ x.day = txn[t].day /\ x.of = o
      /\ x.eligible = txn[t].eligible /\ x.retryAt = txn[t].retryAt /\ x.known = txn[t].known
  BY <1>5, <1>7 DEF Txn
<1>9. txn' = [txn EXCEPT ![t] = x]
  BY <1>3, <1>5, <1>6, <1>7 DEF LinkRetry, TypeInv, TypeOK
<1>10. /\ txn' \in [Txns -> Txn \cup {NoTxn}] /\ Rows' = Rows
       /\ txn'[t] = x /\ \A u \in Txns \ {t} : txn'[u] = txn[u]
  BY <1>8, <1>9, RowWritten DEF TypeInv
<1>11. \A u \in Txns : /\ txn'[u].enr = txn[u].enr /\ txn'[u].day = txn[u].day
                       /\ txn'[u].eligible = txn[u].eligible
                       /\ txn'[u].retryAt = txn[u].retryAt /\ txn'[u].known = txn[u].known
  BY <1>8, <1>10
<1>12. RowsKept /\ KnownKept
  BY <1>10, <1>11 DEF RowsKept, KnownKept, Rows
<1>13. QED
  BY <1>1, <1>2, <1>3, <1>4, <1>8, <1>10, <1>11, <1>12

LEMMA LinkKeepsTypes ==
    ASSUME TypeInv, NEW w \in Workers, LinkRetry(w) PROVE TypeInv'
<1>1. PICK t, o : t = task[w].txn /\ o = task[w].orig
  OBVIOUS
<1>2. /\ w \in Retriers /\ task[w].pc = "link" /\ Goes(w, "spend") /\ RowsKept /\ KnownKept
      /\ t \in Rows /\ o \in Rows /\ t # o /\ txn'[t].of = o
      /\ \A u \in Txns \ {t} : txn'[u] = txn[u]
      /\ \A u \in Txns : txn'[u].eligible = txn[u].eligible /\ txn'[u].retryAt = txn[u].retryAt
  BY <1>1, LinkShape
<1>3. Rows' = Rows /\ Rows \subseteq Txns /\ stripe' = stripe /\ today' = today
  BY <1>2 DEF RowsKept, Rows, LinkRetry
<1>4. TypeOK'
  BY <1>2 DEF LinkRetry, RowsKept, Goes, Moves, TypeInv, TypeOK
<1>5. RowsOK'
  BY <1>2, <1>3, RowsFrame DEF TypeInv, RowsOK
<1>6. KindOK(w) /\ RefsOK(w) /\ HeldOK(w) /\ task[w].pc \in Holding /\ w \notin Collectors
  BY <1>2, WorkersAssumption DEF TypeInv, TasksOK, Holding
<1>7. KindOK(w)'
  BY <1>2, <1>6 DEF KindOK, Goes, Same
<1>8. \A r \in Retriers : \A u \in Txns : Wants(r, u)' => Wants(r, u)
  BY <1>2 DEF Goes, Same, Moves, Wants, Asks, Workers
<1>9. HeldOK(w)'
  <2>1. /\ stripe[t] = "none" /\ ~txn[t].eligible /\ ~txn'[t].known
        /\ \A r \in Retriers : ~Wants(r, t)'
        /\ \A u \in Rows : txn[u].of # t
    BY <1>1, <1>2, <1>3, <1>6, <1>8 DEF HeldOK, KnownKept
  <2>2. \A u \in Rows' : txn'[u].of # t
    BY <1>2, <1>3, <2>1
  <2>3. QED
    BY <1>1, <1>2, <1>3, <1>6, <2>1, <2>2 DEF HeldOK, Goes, Same
<1>10. ASSUME NEW v \in Workers \ {w}, task[v].pc \in Holding
       PROVE  /\ RowKept(task[v].txn)
              /\ \A u \in Rows : txn'[u].of = task[v].txn => txn[u].of = task[v].txn
  <2>1. task[v].txn # t /\ task[v].txn \in Txns
    BY <1>1, <1>6, <1>10, NotMine
  <2>2. RowKept(task[v].txn)
    BY <1>2, <1>3, <2>1 DEF RowKept
  <2>3. task[v].txn # o
    BY <1>1, <1>2, <1>10 DEF TypeInv, TasksOK, HeldOK, Wants, Asks
  <2>4. QED
    BY <1>2, <1>3, <2>2, <2>3
<1>11. "spend" \in Labels \ Resting /\ task[w].pc \notin Resting
  BY <1>2 DEF Labels, Resting
<1>12. TasksOK'
  BY <1>2, <1>3, <1>6, <1>7, <1>8, <1>9, <1>10, <1>11, WorkerGoesOn
<1>13. QED
  BY <1>4, <1>5, <1>12 DEF TypeInv


LEMMA SpendShape ==
    ASSUME TypeInv, NEW w \in Workers, Spend(w)
    PROVE  /\ w \in Retriers /\ RowsKept /\ KnownKept /\ task[w].orig \in Rows
           /\ \/ task[w].pc = "spend" /\ Goes(w, "charge")
              \/ task[w].pc = "drop" /\ EndsTurn(w)
           /\ ~txn'[task[w].orig].eligible
           /\ \A u \in Txns \ {task[w].orig} : txn'[u] = txn[u]
           /\ \A u \in Txns : txn'[u].of = txn[u].of
<1>1. /\ task[w].pc \in {"spend", "drop"} /\ RefsOK(w) /\ KindOK(w)
      /\ task \in [Workers -> Task] /\ "charge" \in Labels
  BY DEF Spend, At, TypeInv, TasksOK, TypeOK, Labels
<1>2. w \in Retriers
  BY <1>1 DEF KindOK
<1>3. PICK o \in Rows : o = task[w].orig
  BY <1>1, <1>2 DEF RefsOK, Resting
<1>4. PICK x : x = [txn[o] EXCEPT !.eligible = FALSE]
  OBVIOUS
<1>5. txn[o] \in Txn /\ o \in Txns
  BY DEF TypeInv, TypeOK, Rows
<1>6. /\ x \in Txn /\ x.enr = txn[o].enr /\ x.day = txn[o].day /\ x.of = txn[o].of
      /\ ~x.eligible /\ x.known = txn[o].known
  BY <1>4, <1>5 DEF Txn
<1>7. txn' = [txn EXCEPT ![o] = x]
  BY <1>3, <1>4, <1>5 DEF Spend, TypeInv, TypeOK
<1>8. /\ txn' \in [Txns -> Txn \cup {NoTxn}] /\ Rows' = Rows
      /\ txn'[o] = x /\ \A u \in Txns \ {o} : txn'[u] = txn[u]
  BY <1>6, <1>7, RowWritten DEF TypeInv
<1>9. \A u \in Txns : /\ txn'[u].of = txn[u].of /\ txn'[u].enr = txn[u].enr
                      /\ txn'[u].day = txn[u].day /\ txn'[u].known = txn[u].known
  BY <1>6, <1>8
<1>10. RowsKept /\ KnownKept
  BY <1>8, <1>9 DEF RowsKept, KnownKept, Rows
<1>11. CASE task[w].pc = "spend"
  <2>1. Go(w, "charge")
    BY <1>11 DEF Spend, At
  <2>2. Goes(w, "charge")
    BY <1>1, <2>1, WorkerGoes
  <2>3. QED
    BY <1>2, <1>3, <1>6, <1>8, <1>9, <1>10, <1>11, <2>2
<1>12. CASE task[w].pc = "drop"
  <2>1. EndTurn(w)
    BY <1>12 DEF Spend, At
  <2>2. EndsTurn(w)
    BY <1>1, <2>1, TurnEnds
  <2>3. QED
    BY <1>2, <1>3, <1>6, <1>8, <1>9, <1>10, <1>12, <2>2
<1>13. QED
  BY <1>1, <1>11, <1>12

LEMMA SpendKeepsTypes ==
    ASSUME TypeInv, NEW w \in Workers, Spend(w) PROVE TypeInv'
<1>1. PICK o : o = task[w].orig
  OBVIOUS
<1>2. /\ w \in Retriers /\ RowsKept /\ KnownKept /\ o \in Rows
      /\ \/ task[w].pc = "spend" /\ Goes(w, "charge")
         \/ task[w].pc = "drop" /\ EndsTurn(w)
      /\ ~txn'[o].eligible
      /\ \A u \in Txns \ {o} : txn'[u] = txn[u]
      /\ \A u \in Txns : txn'[u].of = txn[u].of
  BY <1>1, SpendShape
<1>3. Rows' = Rows /\ Rows \subseteq Txns /\ stripe' = stripe /\ today' = today
  BY <1>2 DEF RowsKept, Rows, Spend
<1>4. task' \in [Workers -> Task]
  BY <1>2 DEF Goes, EndsTurn, Rests, Moves
<1>5. TypeOK'
  BY <1>2, <1>4 DEF Spend, RowsKept, TypeInv, TypeOK
<1>6. RowsOK'
  BY <1>2, <1>3, RowsFrame DEF TypeInv, RowsOK
<1>7. \A v \in Workers : task[v].pc \in Holding =>
              /\ RowKept(task[v].txn)
              /\ \A u \in Rows : txn'[u].of = task[v].txn => txn[u].of = task[v].txn
  <2>1. ASSUME NEW v \in Workers, task[v].pc \in Holding PROVE RowKept(task[v].txn)
    <3>1. task[v].txn \in Txns
      BY <2>1, <1>3 DEF TypeInv, TasksOK, RefsOK
    <3>2. QED
      BY <1>2, <1>3, <3>1 DEF RowKept, KnownKept
  <2>2. QED
    BY <1>2, <1>3, <2>1
<1>8. CASE task[w].pc = "drop" /\ EndsTurn(w)
  <2>1. TasksOK'
    BY <1>2, <1>3, <1>7, <1>8, TurnIsOver DEF EndsTurn
  <2>2. QED
    BY <1>5, <1>6, <2>1 DEF TypeInv
<1>9. CASE task[w].pc = "spend" /\ Goes(w, "charge")
  <2>1. KindOK(w) /\ RefsOK(w) /\ HeldOK(w) /\ task[w].pc \in Holding /\ w \notin Collectors
    BY <1>2, <1>9, WorkersAssumption DEF TypeInv, TasksOK, Holding
  <2>2. PICK t \in Txns : t = task[w].txn
    BY <2>1, <1>3 DEF RefsOK
  <2>3. KindOK(w)'
    BY <1>9, <2>1 DEF KindOK, Goes, Same
  <2>4. \A r \in Retriers : \A u \in Txns : Wants(r, u)' => Wants(r, u)
    BY <1>9 DEF Goes, Same, Moves, Wants, Asks, Workers
  <2>5. HeldOK(w)'
    <3>1. /\ stripe[t] = "none" /\ ~txn'[t].eligible /\ ~txn'[t].known /\ txn[t].of = o
          /\ \A r \in Retriers : ~Wants(r, t)'
          /\ \A u \in Rows : txn[u].of # t
      BY <1>1, <1>2, <1>7, <1>9, <2>1, <2>2, <2>4 DEF HeldOK, RowKept
    <3>2. \A u \in Rows' : txn'[u].of # t
      BY <1>2, <1>3, <3>1
    <3>3. QED
      BY <1>1, <1>2, <1>3, <1>9, <2>1, <2>2, <3>1, <3>2 DEF HeldOK, Goes, Same
  <2>6. "charge" \in Labels \ Resting /\ task[w].pc \notin Resting
    BY <1>9 DEF Labels, Resting
  <2>7. TasksOK'
    BY <1>2, <1>3, <1>7, <1>9, <2>1, <2>3, <2>4, <2>5, <2>6, WorkerGoesOn
  <2>8. QED
    BY <1>5, <1>6, <2>7 DEF TypeInv
<1>10. QED
  BY <1>2, <1>8, <1>9

\* A turn that is cut short, or a worker that dies.
LEMMA FaultShape ==
    ASSUME TypeInv, NEW w \in Workers, Throw(w) \/ Die(w)
    PROVE  /\ UNCHANGED <<today, enr, txn, stripe, reports, paid, edits>>
           /\ task[w].pc # "idle" /\ Fault /\ CutShort(w)
           /\ EndsTurn(w) \/ (Rests(w) /\ task'[w].pc = "idle")
<1>1. task \in [Workers -> Task] /\ RefsOK(w)
  BY DEF TypeInv, TypeOK, TasksOK
<1>2. CASE Throw(w)
  <2>1. task[w].pc # "idle"
    BY <1>1, <1>2 DEF Throw, RefsOK, Resting
  <2>2. EndsTurn(w)
    BY <1>1, <1>2, TurnEnds DEF Throw
  <2>3. QED
    BY <1>2, <2>1, <2>2 DEF Throw
<1>3. CASE Die(w)
  <2>1. PICK x : x = Idle
    OBVIOUS
  <2>2. x = [pc |-> "idle", day |-> 1, due |-> {}, list |-> {}, enr |-> NoEnrollment,
             orig |-> 0, txn |-> 0, answer |-> "failed"]
    BY <2>1 DEF Idle
  <2>3. x \in Task
    BY <2>2, CalendarAssumption DEF Task, Answers, Days
  <2>4. task' = [task EXCEPT ![w] = x]
    BY <1>3, <2>1 DEF Die
  <2>5. Moves(w) /\ task'[w] = x
    BY <1>1, <2>3, <2>4 DEF Moves
  <2>6. Rests(w) /\ task'[w].pc = "idle"
    BY <2>2, <2>5 DEF Rests, Resting
  <2>7. QED
    BY <1>3, <2>6 DEF Die, At
<1>4. QED
  BY <1>2, <1>3

LEMMA FaultKeepsTypes ==
    ASSUME TypeInv, NEW w \in Workers, Throw(w) \/ Die(w) PROVE TypeInv'
<1>1. /\ UNCHANGED <<today, enr, txn, stripe, reports, paid, edits>>
      /\ task[w].pc # "idle" /\ Fault /\ CutShort(w) /\ RefsOK(w)
      /\ EndsTurn(w) \/ (Rests(w) /\ task'[w].pc = "idle")
  BY FaultShape DEF TypeInv, TasksOK
<1>2. doubtful' \subseteq Enrollments
  <2>1. doubtful' = doubtful \/ (doubtful' = doubtful \cup {task[w].enr}
                                 /\ task[w].pc \in {"answer", "record", "advance"})
    BY <1>1 DEF CutShort, At
  <2>2. QED
    BY <1>1, <2>1 DEF RefsOK, Resting, TypeInv, TypeOK
<1>3. faults' \in 0..MaxFaults
  BY <1>1, BoundsAssumption DEF Fault, TypeInv, TypeOK
<1>4. task' \in [Workers -> Task] /\ Rests(w)
  BY <1>1 DEF EndsTurn, Rests, Moves
<1>5. TypeOK'
  BY <1>1, <1>2, <1>3, <1>4 DEF TypeInv, TypeOK
<1>6. /\ RowsKept /\ RowsOK' /\ Rows' = Rows
      /\ \A v \in Workers : task[v].pc \in Holding =>
            /\ RowKept(task[v].txn)
            /\ \A u \in Rows : txn'[u].of = task[v].txn => txn[u].of = task[v].txn
  BY <1>1, RowsQuiet DEF RowsKept
<1>7. CASE EndsTurn(w)
  <2>1. TasksOK'
    BY <1>1, <1>6, <1>7, TurnIsOver DEF EndsTurn
  <2>2. QED
    BY <1>5, <1>6, <2>1 DEF TypeInv
<1>8. CASE Rests(w) /\ task'[w].pc = "idle"
  <2>1. KindOK(w)' /\ HeldOK(w)' /\ \A t : ~Holds(w, t)' /\ ~Wants(w, t)'
    BY <1>8 DEF Rests, KindOK, HeldOK, Holds, Holding, Charging, Wants, Asks
  <2>2. RefsOK(w)'
    BY <1>8, NoneAssumption DEF Rests, RefsOK, Resting, Holding, Charging
  <2>3. Moves(w)
    BY <1>8 DEF Rests
  <2>4. \A v \in Workers \ {w} : KindOK(v)' /\ RefsOK(v)' /\ HeldOK(v)'
    BY <1>1, <1>6, <2>1, <2>3, OthersGoOn
  <2>5. Distinct'
    BY <2>1, <2>3, DistinctFrame
  <2>6. QED
    BY <1>5, <1>6, <2>1, <2>2, <2>4, <2>5 DEF TypeInv, TasksOK
<1>9. QED
  BY <1>1, <1>7, <1>8

--------------------------------------------------------------------------------
(* TypeInv is an invariant.                                                  *)

LEMMA InitTypes == Init => TypeInv
<1> SUFFICES ASSUME Init PROVE TypeInv
  OBVIOUS
<1>1. Idle \in Task /\ Idle.pc = "idle" /\ Idle.due = {} /\ Idle.list = {}
      /\ Idle.enr = NoEnrollment /\ Idle.orig = 0
  BY CalendarAssumption DEF Idle, Task, Answers, Days
<1>2. Rows = {}
  BY DEF Init, Rows
<1>3. DueDay \in Nat /\ 1 \in Days
  BY CalendarAssumption DEF Days
<1>4. enr \in [Enrollments -> Enrollment]
  BY <1>3 DEF Init, Enrollment
<1>5. TypeOK
  <2>1. 0 \in 0..FailureEvents /\ 0 \in 0..MaxEdits /\ 0 \in 0..MaxFaults
    BY BoundsAssumption
  <2>2. PICK x \in Task : x = Idle
    BY <1>1
  <2>3. task \in [Workers -> Task]
    BY <2>2 DEF Init
  <2>4. reports \in [Txns -> 0..FailureEvents]
    BY <2>1 DEF Init
  <2>5. /\ txn \in [Txns -> Txn \cup {NoTxn}]
        /\ stripe \in [Txns -> {"none", "processing", "succeeded", "failed"}]
        /\ paid \subseteq Enrollments \X (0..MaxDay) /\ doubtful \subseteq Enrollments
    BY DEF Init
  <2>6. edits \in 0..MaxEdits /\ faults \in 0..MaxFaults /\ today \in Days
    BY <1>3, <2>1 DEF Init
  <2>7. QED
    BY <1>4, <2>3, <2>4, <2>5, <2>6 DEF TypeOK
<1>6. RowsOK
  <2>1. 1..0 = {} /\ 0 \in 0..MaxTxns
    BY BoundsAssumption
  <2>2. QED
    BY <1>2, <2>1 DEF Init, RowsOK
<1>7. TasksOK
  <2>1. \A w \in Workers : task[w] = Idle
    BY DEF Init
  <2>2. ASSUME NEW w \in Workers PROVE KindOK(w) /\ RefsOK(w) /\ HeldOK(w)
    <3>1. KindOK(w) /\ HeldOK(w)
      BY <1>1, <2>1 DEF KindOK, HeldOK, Holding, Charging
    <3>2. RefsOK(w)
      BY <1>1, <2>1, NoneAssumption DEF RefsOK, Resting, Holding, Charging
    <3>3. QED
      BY <3>1, <3>2
  <2>3. Distinct
    BY <1>1, <2>1 DEF Distinct, Holds, Holding, Charging
  <2>4. QED
    BY <2>2, <2>3 DEF TasksOK
<1>8. QED
  BY <1>5, <1>6, <1>7 DEF TypeInv

LEMMA StutterTypes == TypeInv /\ UNCHANGED vars => TypeInv'
<1> SUFFICES ASSUME TypeInv, UNCHANGED vars PROVE TypeInv'
  OBVIOUS
<1>1. TypeOK'
  BY DEF vars, TypeInv, TypeOK
<1>2. RowsKept /\ RowsOK'
  BY RowsQuiet DEF vars
<1>3. \A v \in Workers : HeldOK(v)'
  BY DEF vars, HeldOK, Wants, Asks, Rows, TypeInv, TasksOK
<1>4. TasksOK'
  BY <1>2, <1>3, WorkersRest DEF vars
<1>5. QED
  BY <1>1, <1>2, <1>4 DEF TypeInv

LEMMA NextTypes == TypeInv /\ [Next]_vars => TypeInv'
<1> SUFFICES ASSUME TypeInv, [Next]_vars PROVE TypeInv'
  OBVIOUS
<1>1. CASE Tick
  BY <1>1, TickKeepsTypes
<1>2. CASE \E e \in Enrollments : Edit(e)
  BY <1>2, EditKeepsTypes
<1>3. CASE \E c \in Collectors : StartCollecting(c)
  BY <1>3, StartCollectingKeepsTypes
<1>4. CASE \E r \in Retriers : StartRetrying(r)
  BY <1>4, StartRetryingKeepsTypes
<1>5. CASE \E w \in Workers : WorkerStep(w)
  BY <1>5, CheckRunKeepsTypes, CheckInFlightKeepsTypes, LoadMethodKeepsTypes,
     CreateTxnKeepsTypes, ChargeKeepsTypes, SaveAnswerKeepsTypes, RecordRunKeepsTypes,
     AdvanceKeepsTypes, MarkKeepsTypes, TakeRetryKeepsTypes, LinkKeepsTypes, SpendKeepsTypes
     DEF WorkerStep
<1>6. CASE \E w \in Workers : Throw(w) \/ Die(w)
  BY <1>6, FaultKeepsTypes
<1>7. CASE \E t \in Txns : Settle(t) \/ ReportProgress(t) \/ ReportFailure(t)
  BY <1>7, SettleKeepsTypes, ReportProgressKeepsTypes, ReportFailureKeepsTypes
<1>8. CASE UNCHANGED vars
  BY <1>8, StutterTypes
<1>9. QED
  BY <1>1, <1>2, <1>3, <1>4, <1>5, <1>6, <1>7, <1>8 DEF Next

\* Workers hold what the rows say they hold: a row that is being made or charged
\* is one worker's alone, no retry of it is listed, and it is not charged before
\* its turn, whatever the other collections, retries, events and owners do.
THEOREM AutopayInvariance == Spec => []TypeInv
<1>1. Init => TypeInv
  BY InitTypes
<1>2. TypeInv /\ [Next]_vars => TypeInv'
  BY NextTypes
<1>3. QED
  BY <1>1, <1>2, PTL DEF Spec

\* AutopayCollection's variables keep their types.
THEOREM AutopayTypes == Spec => []TypeOK
<1>1. TypeInv => TypeOK
  BY DEF TypeInv
<1>2. QED
  BY <1>1, AutopayInvariance, PTL


--------------------------------------------------------------------------------
(* Each step keeps RetryInv.                                                 *)

\* Steps that list, charge and mark no payment again keep what retries rest on.
LEMMA RetryFrame ==
    ASSUME RetryInv, Rows \subseteq Rows', doubtful \subseteq doubtful',
           \A t \in Rows : txn'[t].enr = txn[t].enr /\ (txn'[t].eligible => txn[t].eligible),
           \A t \in Rows' : \A r \in Retriers : Wants(r, t)' => t \in Rows /\ Wants(r, t),
           \A t, u \in Rows' : Made(t, u)' => t \in Rows /\ u \in Rows /\ Made(t, u),
           \A r \in Retriers : task'[r].pc = "charge" =>
              task[r].pc = "charge" /\ task'[r].orig = task[r].orig
    PROVE  WantedOnce' /\ SpentFirst' /\ RetriedOnce'
<1>1. ASSUME NEW t \in Rows, Sure(t)' PROVE Sure(t)
  BY <1>1 DEF Sure
<1>2. WantedOnce'
  BY <1>1 DEF WantedOnce, RetryInv
<1>3. SpentFirst'
  <2>1. SUFFICES ASSUME NEW r \in Retriers, task'[r].pc = "charge", Sure(task[r].orig)'
                 PROVE  ~txn'[task'[r].orig].eligible
    BY DEF SpentFirst
  <2>2. task[r].pc = "charge" /\ task'[r].orig = task[r].orig
    BY <2>1
  <2>3. task[r].orig \in Rows
    BY <2>2 DEF RetryInv, TypeInv, TasksOK, RefsOK, Resting, Workers
  <2>4. ~txn[task[r].orig].eligible
    BY <1>1, <2>1, <2>2, <2>3 DEF SpentFirst, RetryInv
  <2>5. QED
    BY <2>2, <2>3, <2>4
<1>4. RetriedOnce'
  BY <1>1 DEF RetriedOnce, RetryInv
<1>5. QED
  BY <1>2, <1>3, <1>4

\* In particular steps that write no row.
LEMMA RetryQuiet ==
    ASSUME RetryInv, UNCHANGED <<txn, stripe>>, doubtful \subseteq doubtful',
           \A t \in Rows : \A r \in Retriers : Wants(r, t)' => Wants(r, t),
           \A r \in Retriers : task'[r].pc = "charge" =>
              task[r].pc = "charge" /\ task'[r].orig = task[r].orig
    PROVE  WantedOnce' /\ SpentFirst' /\ RetriedOnce'
<1>1. Rows' = Rows
  BY DEF Rows
<1>2. \A t, u \in Rows' : Made(t, u)' => Made(t, u)
  BY DEF Made
<1>3. QED
  BY <1>1, <1>2, RetryFrame

\* A worker that moves wants no more than it did, and comes to no charge.
LEMMA WantsNoMore ==
    ASSUME TypeInv, NEW w \in Workers, Moves(w), task'[w].pc # "charge" \/ w \notin Retriers,
           \A t \in Rows : w \in Retriers => (Wants(w, t)' => Wants(w, t))
    PROVE  /\ \A t \in Rows : \A r \in Retriers : Wants(r, t)' => Wants(r, t)
           /\ \A r \in Retriers : task'[r].pc = "charge" =>
                task[r].pc = "charge" /\ task'[r].orig = task[r].orig
<1>1. \A r \in Retriers : r \in Workers
  BY DEF Workers
<1>2. \A r \in Retriers \ {w} : task'[r] = task[r]
  BY <1>1 DEF Moves
<1>3. \A t \in Rows : \A r \in Retriers : Wants(r, t)' => Wants(r, t)
  BY <1>2 DEF Wants, Asks
<1>4. \A r \in Retriers : task'[r].pc = "charge" =>
         task[r].pc = "charge" /\ task'[r].orig = task[r].orig
  BY <1>2
<1>5. QED
  BY <1>3, <1>4

\* A worker that ends its turn, or goes on but to a charge.
LEMMA RestsWantsNoMore ==
    ASSUME TypeInv, NEW w \in Workers,
           \/ Rests(w) /\ task'[w].list \subseteq task[w].list
           \/ \E l \in Labels \ {"create", "drop", "link", "spend", "charge"} : Goes(w, l)
    PROVE  /\ \A t \in Rows : \A r \in Retriers : Wants(r, t)' => Wants(r, t)
           /\ \A r \in Retriers : task'[r].pc = "charge" =>
                task[r].pc = "charge" /\ task'[r].orig = task[r].orig
<1>1. Moves(w) /\ task'[w].list \subseteq task[w].list
      /\ task'[w].pc \notin {"create", "drop", "link", "spend", "charge"}
  BY DEF Rests, Resting, Goes, Same
<1>2. \A t \in Rows : Wants(w, t)' => Wants(w, t)
  BY <1>1 DEF Wants, Asks
<1>3. QED
  BY <1>1, <1>2, WantsNoMore

LEMMA RetryStart ==
    ASSUME RetryInv, NEW r \in Retriers, StartRetrying(r)
    PROVE  WantedOnce' /\ SpentFirst' /\ RetriedOnce'
<1>1. /\ Moves(r) /\ task'[r].pc = "next" /\ task'[r].list = Eligible /\ r \in Workers
      /\ TypeInv /\ WantedOnce /\ SpentFirst /\ RetriedOnce
  BY RetryingStarts DEF RetryInv, TypeInv, Workers
<1>2. /\ UNCHANGED <<txn, stripe>> /\ Rows' = Rows /\ doubtful \subseteq doubtful'
      /\ \A t \in Eligible : (\E q \in Retriers \ {r} : t \in task[q].list \cup {task[q].orig})
                             => txn[t].enr \in doubtful'
  BY DEF StartRetrying, Rows
<1>3. \A q \in Retriers \ {r} : task'[q] = task[q]
  BY <1>1 DEF Moves, Workers
<1>4. \A t : Wants(r, t)' => t \in Eligible
  BY <1>1 DEF Wants, Asks
<1>5. \A q \in Retriers \ {r} : \A t :
         /\ Wants(q, t)' <=> Wants(q, t)
         /\ Wants(q, t) => t \in task[q].list \cup {task[q].orig}
  BY <1>3 DEF Wants, Asks
<1>6. \A t \in Rows : Sure(t)' => Sure(t)
  BY <1>2 DEF Sure
<1>7. WantedOnce'
  <2>1. SUFFICES ASSUME NEW t \in Rows, Sure(t)', NEW p \in Retriers, NEW q \in Retriers,
                        Wants(p, t)', Wants(q, t)', p # q
                 PROVE  FALSE
    BY <1>2 DEF WantedOnce
  <2>2. CASE p # r /\ q # r
    BY <1>1, <1>5, <1>6, <2>1, <2>2 DEF WantedOnce
  <2>3. CASE p = r \/ q = r
    BY <1>2, <1>4, <1>5, <2>1, <2>3 DEF Sure
  <2>4. QED
    BY <2>2, <2>3
<1>8. SpentFirst'
  <2>1. SUFFICES ASSUME NEW q \in Retriers, task'[q].pc = "charge", Sure(task[q].orig)'
                 PROVE  ~txn'[task'[q].orig].eligible
    BY DEF SpentFirst
  <2>2. task'[q] = task[q]
    BY <1>1, <1>3, <2>1
  <2>3. task[q].orig \in Rows
    BY <1>1, <2>1, <2>2 DEF TypeInv, TasksOK, RefsOK, Resting, Workers
  <2>4. QED
    BY <1>1, <1>2, <1>6, <2>1, <2>2, <2>3 DEF SpentFirst
<1>9. RetriedOnce'
  <2>1. SUFFICES ASSUME NEW t \in Rows, Sure(t)', NEW u \in Rows, Made(t, u)'
                 PROVE  /\ ~txn'[t].eligible /\ \A q \in Retriers : ~Wants(q, t)'
                        /\ \A v \in Rows : Made(t, v)' => v = u
    BY <1>2 DEF RetriedOnce
  <2>2. Made(t, u) /\ \A v \in Rows : Made(t, v)' => Made(t, v)
    BY <1>2, <2>1 DEF Made
  <2>3. /\ ~txn[t].eligible /\ \A q \in Retriers : ~Wants(q, t)
        /\ \A v \in Rows : Made(t, v) => v = u
    BY <1>1, <1>6, <2>1, <2>2 DEF RetriedOnce
  <2>4. t \notin Eligible
    BY <2>3 DEF Eligible
  <2>5. QED
    BY <1>2, <1>4, <1>5, <2>2, <2>3, <2>4
<1>10. QED
  BY <1>7, <1>8, <1>9

LEMMA RetryCharged ==
    ASSUME RetryInv, NEW w \in Workers, Charge(w)
    PROVE  WantedOnce' /\ SpentFirst' /\ RetriedOnce'
<1>1. /\ task[w].pc = "charge" /\ UNCHANGED txn /\ Rows' = Rows /\ Rows \subseteq Txns
      /\ TypeInv /\ RefsOK(w) /\ HeldOK(w) /\ WantedOnce /\ SpentFirst /\ RetriedOnce
  BY DEF Charge, At, Rows, RetryInv, TypeInv, TasksOK
<1>2. PICK t \in Rows : t = task[w].txn
  BY <1>1 DEF RefsOK, Holding, Charging
<1>3. /\ Goes(w, "answer") \/ EndsTurn(w)
      /\ \E did \in Outcomes : stripe' = [stripe EXCEPT ![t] = did]
      /\ doubtful \subseteq doubtful'
  BY <1>1, <1>2, ChargeShape DEF TypeInv
<1>4. \A u \in Rows \ {t} : stripe'[u] = stripe[u]
  BY <1>1, <1>3 DEF TypeInv, TypeOK
<1>5. /\ \A u \in Rows : \A r \in Retriers : Wants(r, u)' => Wants(r, u)
      /\ \A r \in Retriers : task'[r].pc = "charge" =>
           task[r].pc = "charge" /\ task'[r].orig = task[r].orig
  <2>1. \/ Rests(w) /\ task'[w].list \subseteq task[w].list
        \/ \E l \in Labels \ {"create", "drop", "link", "spend", "charge"} : Goes(w, l)
    BY <1>3 DEF EndsTurn, Labels
  <2>2. QED
    BY <1>1, <2>1, RestsWantsNoMore
<1>6. CASE w \in Collectors
  <2>1. txn[t].of = 0 /\ 0 \notin Rows
    BY <1>1, <1>2, <1>6 DEF HeldOK, Txns, Holding, Charging
  <2>2. \A s, u \in Rows' : Made(s, u)' => Made(s, u)
    BY <1>1, <1>4, <2>1 DEF Made
  <2>3. QED
    BY <1>1, <1>3, <1>5, <2>2, RetryFrame
<1>7. CASE w \in Retriers
  <2>1. PICK o \in Rows : o = task[w].orig /\ txn[t].of = o /\ o \notin task[w].list
    BY <1>1, <1>2, <1>7 DEF RefsOK, HeldOK, Resting, Holding, Charging
  <2>2. Wants(w, o) /\ ~Wants(w, o)'
    BY <1>1, <1>3, <2>1 DEF Wants, Asks, Goes, Same, EndsTurn, Rests, Resting
  <2>3. \A s \in Rows : Sure(s)' => Sure(s)
    BY <1>1, <1>3 DEF Sure
  <2>4. WantedOnce'
    BY <1>1, <1>5, <2>3 DEF WantedOnce
  <2>5. SpentFirst'
    <3>1. SUFFICES ASSUME NEW q \in Retriers, task'[q].pc = "charge", Sure(task[q].orig)'
                   PROVE  ~txn'[task'[q].orig].eligible
      BY DEF SpentFirst
    <3>2. task[q].pc = "charge" /\ task'[q].orig = task[q].orig
      BY <1>5, <3>1
    <3>3. task[q].orig \in Rows
      BY <1>1, <3>2 DEF TypeInv, TasksOK, RefsOK, Resting, Workers
    <3>4. QED
      BY <1>1, <2>3, <3>1, <3>2, <3>3 DEF SpentFirst
  <2>6. RetriedOnce'
    <3>1. SUFFICES ASSUME NEW s \in Rows, Sure(s)', NEW u \in Rows, Made(s, u)'
                   PROVE  /\ ~txn'[s].eligible /\ \A q \in Retriers : ~Wants(q, s)'
                          /\ \A v \in Rows : Made(s, v)' => v = u
      BY <1>1 DEF RetriedOnce
    <3>2. \A v \in Rows \ {t} : Made(s, v)' => Made(s, v)
      BY <1>1, <1>4 DEF Made
    <3>3. CASE s = o
      <4>1. \A v \in Rows : ~Made(o, v)
        BY <1>1, <1>7, <2>2, <2>3, <3>1, <3>3 DEF RetriedOnce
      <4>2. \A v \in Rows : Made(o, v)' => v = t
        BY <3>2, <3>3, <4>1
      <4>3. ~txn[o].eligible
        BY <1>1, <1>7, <2>1, <2>3, <3>1, <3>3 DEF SpentFirst
      <4>4. \A q \in Retriers : ~Wants(q, o)'
        BY <1>1, <1>5, <1>7, <2>2, <2>3, <3>1, <3>3 DEF WantedOnce
      <4>5. QED
        BY <1>1, <3>1, <3>3, <4>2, <4>3, <4>4
    <3>4. CASE s # o
      <4>1. ~Made(s, t)'
        BY <1>1, <2>1, <3>4 DEF Made
      <4>2. Made(s, u) /\ \A v \in Rows : Made(s, v)' => Made(s, v)
        BY <3>1, <3>2, <4>1
      <4>3. /\ ~txn[s].eligible /\ \A q \in Retriers : ~Wants(q, s)
            /\ \A v \in Rows : Made(s, v) => v = u
        BY <1>1, <2>3, <3>1, <4>2 DEF RetriedOnce
      <4>4. QED
        BY <1>1, <1>5, <4>2, <4>3
    <3>5. QED
      BY <3>3, <3>4
  <2>7. QED
    BY <2>4, <2>5, <2>6
<1>8. QED
  BY <1>6, <1>7 DEF Workers


LEMMA RetryMarked ==
    ASSUME RetryInv, NEW w \in Workers, MarkForRetry(w)
    PROVE  WantedOnce' /\ SpentFirst' /\ RetriedOnce'
<1>1. /\ HeldWrite(w) /\ EndsTurn(w) /\ task[w].pc = "mark" /\ RefsOK(w) /\ HeldOK(w)
      /\ TypeInv /\ WantedOnce /\ SpentFirst /\ RetriedOnce /\ UNCHANGED doubtful
  BY MarkShape DEF RetryInv, TypeInv, TasksOK, MarkForRetry
<1>2. PICK t \in Rows : t = task[w].txn
  BY <1>1 DEF RefsOK, Holding, Charging
<1>3. /\ Rows' = Rows /\ Rows \subseteq Txns /\ stripe' = stripe
      /\ \A u \in Rows : txn'[u].enr = txn[u].enr /\ txn'[u].of = txn[u].of
      /\ \A u \in Rows \ {t} : txn'[u] = txn[u]
  BY <1>1, <1>2 DEF HeldWrite, RowsKept, Rows
<1>4. \A r \in Retriers : ~Wants(r, t)
  BY <1>1, <1>2 DEF HeldOK, Holding, Charging
<1>5. \A u \in Rows : txn[u].of # t
  BY <1>1, <1>2 DEF HeldOK, Holding, Charging
<1>6. /\ \A u \in Rows : \A r \in Retriers : Wants(r, u)' => Wants(r, u)
      /\ \A r \in Retriers : task'[r].pc = "charge" =>
           task[r].pc = "charge" /\ task'[r].orig = task[r].orig
  BY <1>1, RestsWantsNoMore DEF EndsTurn
<1>7. \A s \in Rows : Sure(s)' => Sure(s)
  BY <1>1, <1>3 DEF Sure
<1>8. WantedOnce'
  BY <1>1, <1>3, <1>6, <1>7 DEF WantedOnce
<1>9. SpentFirst'
  <2>1. SUFFICES ASSUME NEW q \in Retriers, task'[q].pc = "charge", Sure(task[q].orig)'
                 PROVE  ~txn'[task'[q].orig].eligible
    BY DEF SpentFirst
  <2>2. task[q].pc = "charge" /\ task'[q].orig = task[q].orig
    BY <1>6, <2>1
  <2>3. task[q].orig \in Rows
    BY <1>1, <2>2 DEF TypeInv, TasksOK, RefsOK, Resting, Workers
  <2>4. task[q].orig # t
    BY <1>4, <2>2 DEF Wants, Asks
  <2>5. QED
    BY <1>1, <1>3, <1>7, <2>1, <2>2, <2>3, <2>4 DEF SpentFirst
<1>10. RetriedOnce'
  <2>1. \A s, u \in Rows : Made(s, u)' => Made(s, u) /\ s # t
    BY <1>3, <1>5 DEF Made
  <2>2. QED
    BY <1>1, <1>3, <1>6, <1>7, <2>1 DEF RetriedOnce
<1>11. QED
  BY <1>8, <1>9, <1>10

LEMMA RetryFailed ==
    ASSUME RetryInv, NEW t \in Txns, ReportFailure(t)
    PROVE  WantedOnce' /\ SpentFirst' /\ RetriedOnce'
<1>1. /\ RowsKept /\ t \in Rows /\ TypeInv /\ WantedOnce /\ SpentFirst /\ RetriedOnce
      /\ \A u \in Txns : txn'[u].of = txn[u].of
      /\ \A u \in Txns \ {t} : txn'[u] = txn[u]
  BY ReportFailureShape DEF RetryInv
<1>2. /\ UNCHANGED <<task, stripe>> /\ doubtful \subseteq doubtful'
      /\ (\E u \in Rows : txn[u].of = t) => txn[t].enr \in doubtful'
      /\ Rows' = Rows /\ Rows \subseteq Txns
  BY <1>1 DEF ReportFailure, RowsKept, Rows
<1>3. \A s \in Rows : Sure(s)' => Sure(s)
  BY <1>1, <1>2 DEF Sure, RowsKept
<1>4. \A r : \A u : Wants(r, u)' <=> Wants(r, u)
  BY <1>2 DEF Wants, Asks
<1>5. WantedOnce'
  BY <1>1, <1>2, <1>3, <1>4 DEF WantedOnce
<1>6. Sure(t)' => \A u \in Rows : txn[u].of # t
  BY <1>1, <1>2 DEF Sure, RowsKept
<1>7. SpentFirst'
  <2>1. SUFFICES ASSUME NEW q \in Retriers, task[q].pc = "charge", Sure(task[q].orig)'
                 PROVE  ~txn'[task[q].orig].eligible
    BY <1>2 DEF SpentFirst
  <2>2. /\ task[q].orig \in Rows /\ task[q].txn \in Rows
        /\ txn[task[q].txn].of = task[q].orig
    BY <1>1, <2>1 DEF TypeInv, TasksOK, RefsOK, HeldOK, Resting, Holding, Charging, Workers
  <2>3. task[q].orig # t
    BY <1>2, <1>6, <2>1, <2>2
  <2>4. QED
    BY <1>1, <1>2, <1>3, <2>1, <2>2, <2>3 DEF SpentFirst
<1>8. RetriedOnce'
  <2>1. \A s, u \in Rows : Made(s, u)' => Made(s, u)
    BY <1>1, <1>2 DEF Made
  <2>2. \A u \in Rows : Sure(t)' => ~Made(t, u)'
    BY <1>1, <1>2, <1>6 DEF Made
  <2>3. QED
    BY <1>1, <1>2, <1>3, <1>4, <2>1, <2>2 DEF RetriedOnce
<1>9. QED
  BY <1>5, <1>7, <1>8

LEMMA RetrySpent ==
    ASSUME RetryInv, NEW w \in Workers, Spend(w)
    PROVE  WantedOnce' /\ SpentFirst' /\ RetriedOnce'
<1>1. PICK o : o = task[w].orig
  OBVIOUS
<1>2. /\ w \in Retriers /\ RowsKept /\ o \in Rows
      /\ \/ task[w].pc = "spend" /\ Goes(w, "charge")
         \/ task[w].pc = "drop" /\ EndsTurn(w)
      /\ ~txn'[o].eligible
      /\ \A u \in Txns \ {o} : txn'[u] = txn[u]
      /\ \A u \in Txns : txn'[u].of = txn[u].of
      /\ TypeInv /\ WantedOnce /\ SpentFirst /\ RetriedOnce
  BY <1>1, SpendShape DEF RetryInv
<1>3. UNCHANGED <<stripe, doubtful>> /\ Rows' = Rows /\ Rows \subseteq Txns
  BY <1>2 DEF Spend, RowsKept, Rows
<1>4. \A s \in Rows : Sure(s)' => Sure(s)
  BY <1>2, <1>3 DEF Sure, RowsKept
<1>5. \A r \in Retriers \ {w} : task'[r] = task[r]
  BY <1>2 DEF Goes, EndsTurn, Rests, Moves, Workers
<1>6. \A u : Wants(w, u)' => Wants(w, u)
  BY <1>2 DEF Wants, Asks, Goes, Same, EndsTurn, Rests, Resting
<1>7. \A u : \A r \in Retriers : Wants(r, u)' => Wants(r, u)
  BY <1>5, <1>6 DEF Wants, Asks
<1>8. \A u \in Rows : txn'[u].eligible => txn[u].eligible
  BY <1>2, <1>3
<1>9. WantedOnce'
  BY <1>2, <1>3, <1>4, <1>7 DEF WantedOnce
<1>10. SpentFirst'
  <2>1. SUFFICES ASSUME NEW q \in Retriers, task'[q].pc = "charge", Sure(task[q].orig)'
                 PROVE  ~txn'[task'[q].orig].eligible
    BY DEF SpentFirst
  <2>2. CASE q = w
    BY <1>1, <1>2, <2>1, <2>2 DEF Goes, Same, EndsTurn, Rests, Resting
  <2>3. CASE q # w
    <3>1. task'[q] = task[q]
      BY <1>5, <2>3
    <3>2. task[q].orig \in Rows
      BY <1>2, <2>1, <3>1 DEF TypeInv, TasksOK, RefsOK, Resting, Workers
    <3>3. Sure(task[q].orig)
      BY <1>2, <1>3, <2>1, <3>1, <3>2 DEF Sure, RowsKept
    <3>4. QED
      BY <1>2, <1>8, <2>1, <3>1, <3>2, <3>3 DEF SpentFirst
  <2>4. QED
    BY <2>2, <2>3
<1>11. RetriedOnce'
  <2>1. \A s, u \in Rows : Made(s, u)' => Made(s, u)
    BY <1>2, <1>3 DEF Made
  <2>2. QED
    BY <1>2, <1>3, <1>4, <1>7, <1>8, <2>1 DEF RetriedOnce
<1>12. QED
  BY <1>9, <1>10, <1>11

LEMMA RetryLinked ==
    ASSUME RetryInv, NEW w \in Workers, LinkRetry(w)
    PROVE  WantedOnce' /\ SpentFirst' /\ RetriedOnce'
<1>1. PICK t : t = task[w].txn
  OBVIOUS
<1>2. /\ w \in Retriers /\ task[w].pc = "link" /\ Goes(w, "spend") /\ RowsKept /\ t \in Rows
      /\ \A u \in Txns \ {t} : txn'[u] = txn[u]
      /\ \A u \in Txns : txn'[u].eligible = txn[u].eligible
      /\ TypeInv /\ HeldOK(w)
  BY <1>1, LinkShape DEF RetryInv, TypeInv, TasksOK
<1>3. stripe' = stripe /\ doubtful' = doubtful /\ Rows' = Rows /\ Rows \subseteq Txns
  BY <1>2 DEF LinkRetry, RowsKept, Rows
<1>4. stripe[t] = "none"
  BY <1>1, <1>2 DEF HeldOK, Holding
<1>5. \A s, u \in Rows : Made(s, u)' => Made(s, u)
  BY <1>2, <1>3, <1>4 DEF Made
<1>6. \A u \in Rows : Wants(w, u)' => Wants(w, u)
  BY <1>2 DEF Wants, Asks, Goes, Same
<1>7. /\ \A u \in Rows : \A r \in Retriers : Wants(r, u)' => Wants(r, u)
      /\ \A r \in Retriers : task'[r].pc = "charge" =>
           task[r].pc = "charge" /\ task'[r].orig = task[r].orig
  <2>1. Moves(w) /\ task'[w].pc # "charge"
    BY <1>2 DEF Goes
  <2>2. QED
    BY <1>2, <1>6, <2>1, WantsNoMore
<1>8. QED
  BY <1>2, <1>3, <1>5, <1>7, RetryFrame DEF RowsKept

LEMMA RetryCreated ==
    ASSUME RetryInv, NEW w \in Workers, CreateTxn(w)
    PROVE  WantedOnce' /\ SpentFirst' /\ RetriedOnce'
<1>1. task[w].pc = "create" /\ KindOK(w) /\ RefsOK(w) /\ task[w].enr \in Enrollments /\ TypeInv
  BY DEF CreateTxn, At, RetryInv, TypeInv, TasksOK, RefsOK, Resting
<1>2. PICK t \in Txns \ Rows :
             /\ Rows' = Rows \cup {t}
             /\ \A u \in Txns \ {t} : txn'[u] = txn[u]
             /\ txn'[t].of = 0
             /\ Moves(w)
             /\ task'[w].list = task[w].list
             /\ task'[w].orig = task[w].orig
             /\ task'[w].pc = IF w \in Collectors THEN "charge" ELSE "link"
  BY <1>1, RowCreated DEF TypeInv
<1>3. /\ stripe' = stripe /\ doubtful' = doubtful /\ Rows \subseteq Txns /\ 0 \notin Txns
  BY DEF CreateTxn, Rows, Txns
<1>4. w \in Retriers => task'[w].pc = "link"
  BY <1>2, WorkersAssumption
<1>5. w \notin Retriers => w \in Collectors
  BY DEF Workers
<1>6. \A r \in Retriers : RefsOK(r)
  BY <1>1 DEF TypeInv, TasksOK, Workers
<1>7. \A r \in Retriers : \A u : Wants(r, u) => u \in Rows
  BY <1>6 DEF RefsOK, Wants, Asks, Resting
<1>8. /\ \A r \in Retriers : \A u : Wants(r, u)' => Wants(r, u)
      /\ \A r \in Retriers : task'[r].pc = "charge" =>
           task[r].pc = "charge" /\ task'[r].orig = task[r].orig
  <2>1. \A r \in Retriers \ {w} : task'[r] = task[r]
    BY <1>2 DEF Moves, Workers
  <2>2. w \in Retriers => (\A u : Wants(w, u)' => Wants(w, u)) /\ task'[w].pc # "charge"
    BY <1>1, <1>2, <1>4 DEF Wants, Asks
  <2>3. QED
    BY <2>1, <2>2 DEF Wants, Asks
<1>9. \A s, u \in Rows' : Made(s, u)' => s \in Rows /\ u \in Rows /\ Made(s, u)
  <2>1. \A u \in Rows : txn[u].of \in Rows \cup {0} /\ txn'[u] = txn[u]
    BY <1>1, <1>2, <1>3 DEF TypeInv, RowsOK
  <2>2. QED
    BY <1>2, <1>3, <2>1 DEF Made
<1>10. \A u \in Rows : txn'[u].enr = txn[u].enr /\ (txn'[u].eligible => txn[u].eligible)
  BY <1>2, <1>3
<1>11. QED
  BY <1>2, <1>3, <1>7, <1>8, <1>9, <1>10, RetryFrame

LEMMA RetrySaved ==
    ASSUME RetryInv, NEW w \in Workers, SaveAnswer(w)
    PROVE  WantedOnce' /\ SpentFirst' /\ RetriedOnce'
<1>1. /\ HeldWrite(w)
      /\ \A u \in Txns : txn'[u].eligible = txn[u].eligible
      /\ EndsTurn(w) \/ (\E l \in {"record", "mark"} : Goes(w, l))
      /\ TypeInv /\ UNCHANGED doubtful
  BY SaveAnswerShape DEF RetryInv, SaveAnswer
<1>2. /\ Rows' = Rows /\ Rows \subseteq Txns /\ stripe' = stripe
      /\ \A u \in Rows : txn'[u].enr = txn[u].enr /\ txn'[u].of = txn[u].of
  BY <1>1 DEF HeldWrite, RowsKept, Rows
<1>3. \A s, u \in Rows : Made(s, u)' => Made(s, u)
  BY <1>2 DEF Made
<1>4. \/ Rests(w) /\ task'[w].list \subseteq task[w].list
      \/ \E l \in Labels \ {"create", "drop", "link", "spend", "charge"} : Goes(w, l)
  BY <1>1 DEF EndsTurn, Labels
<1>5. /\ \A u \in Rows : \A r \in Retriers : Wants(r, u)' => Wants(r, u)
      /\ \A r \in Retriers : task'[r].pc = "charge" =>
           task[r].pc = "charge" /\ task'[r].orig = task[r].orig
  BY <1>1, <1>4, RestsWantsNoMore
<1>6. QED
  BY <1>1, <1>2, <1>3, <1>5, RetryFrame

\* The steps of workers that write no row.
LEMMA RetryLooks ==
    ASSUME RetryInv, NEW w \in Workers,
           \/ CheckRun(w) \/ CheckInFlight(w) \/ LoadMethod(w) \/ RecordRun(w)
           \/ AdvanceNextDate(w) \/ TakeRetry(w) \/ Throw(w) \/ Die(w)
    PROVE  WantedOnce' /\ SpentFirst' /\ RetriedOnce'
<1>1. TypeInv /\ TypeOK /\ task \in [Workers -> Task] /\ RefsOK(w) /\ KindOK(w)
  BY DEF RetryInv, TypeInv, TypeOK, TasksOK
<1>2. UNCHANGED <<txn, stripe>>
  BY DEF CheckRun, CheckInFlight, LoadMethod, RecordRun, AdvanceNextDate, TakeRetry, Throw, Die
<1>3. doubtful \subseteq doubtful'
  BY DEF CheckRun, CheckInFlight, LoadMethod, RecordRun, AdvanceNextDate, TakeRetry, Throw, Die,
     CutShort
<1>4. SUFFICES /\ Moves(w)
               /\ task'[w].pc # "charge" \/ w \notin Retriers
               /\ \A t \in Rows : w \in Retriers => (Wants(w, t)' => Wants(w, t))
  BY <1>1, <1>2, <1>3, WantsNoMore, RetryQuiet
<1>5. ASSUME Rests(w), task'[w].list \subseteq task[w].list
      PROVE  /\ Moves(w) /\ task'[w].pc # "charge"
             /\ \A t \in Rows : Wants(w, t)' => Wants(w, t)
  BY <1>5 DEF Rests, Resting, Wants, Asks
<1>6. ASSUME NEW l \in {"method", "advance", "mark"}, Goes(w, l)
      PROVE  /\ Moves(w) /\ task'[w].pc # "charge"
             /\ \A t \in Rows : Wants(w, t)' => Wants(w, t)
  BY <1>6 DEF Goes, Same, Wants, Asks
<1>7. CASE CheckRun(w)
  BY <1>1, <1>5, <1>7, RunIsChecked, WorkersAssumption DEF CheckRun, Wants, Asks
<1>8. CASE CheckInFlight(w)
  BY <1>1, <1>5, <1>6, <1>8, WorkerGoes, TurnEnds DEF CheckInFlight, EndsTurn, Labels
<1>9. CASE LoadMethod(w)
  <2>1. w \notin Retriers /\ "create" \in Labels
    BY <1>1, <1>9, WorkersAssumption DEF LoadMethod, At, KindOK, Labels
  <2>2. Moves(w)
    BY <1>1, <1>9, <2>1, WorkerGoes, TurnEnds DEF LoadMethod, EndsTurn, Rests, Goes
  <2>3. QED
    BY <2>1, <2>2
<1>10. CASE RecordRun(w)
  BY <1>1, <1>5, <1>6, <1>10, RecordRunShape DEF EndsTurn
<1>11. CASE AdvanceNextDate(w)
  BY <1>1, <1>5, <1>6, <1>11, AdvanceShape DEF EndsTurn
<1>12. CASE TakeRetry(w)
  BY <1>1, <1>12, RetryIsTaken DEF RefsOK, Wants, Asks
<1>13. CASE Throw(w) \/ Die(w)
  <2>1. EndsTurn(w) \/ (Rests(w) /\ task'[w].pc = "idle")
    BY <1>1, <1>13, FaultShape
  <2>2. Rests(w) /\ task'[w].list \subseteq task[w].list
    BY <2>1 DEF EndsTurn, Rests
  <2>3. QED
    BY <1>5, <2>2
<1>14. QED
  BY <1>7, <1>8, <1>9, <1>10, <1>11, <1>12, <1>13


LEMMA NextRetries == RetryInv /\ [Next]_vars => RetryInv'
<1> SUFFICES ASSUME RetryInv, [Next]_vars PROVE RetryInv'
  OBVIOUS
<1>1. TypeInv'
  BY NextTypes DEF RetryInv
<1>2. CASE \E w \in Workers : WorkerStep(w) \/ Throw(w) \/ Die(w)
  <2>1. WantedOnce' /\ SpentFirst' /\ RetriedOnce'
    BY <1>2, RetryCharged, RetryMarked, RetrySpent, RetryLinked, RetryCreated, RetrySaved,
       RetryLooks DEF WorkerStep
  <2>2. QED
    BY <1>1, <2>1 DEF RetryInv
<1>3. CASE \E r \in Retriers : StartRetrying(r)
  BY <1>1, <1>3, RetryStart DEF RetryInv
<1>4. CASE \E c \in Collectors : StartCollecting(c)
  <2>1. PICK c \in Collectors : StartCollecting(c)
    BY <1>4
  <2>2. /\ Moves(c) /\ task'[c].pc = "next" /\ task'[c].list = {} /\ c \in Workers
    BY <2>1, CollectingStarts DEF RetryInv, TypeInv, Workers
  <2>3. c \notin Retriers /\ TypeInv
    BY WorkersAssumption DEF RetryInv
  <2>4. UNCHANGED <<txn, stripe>> /\ doubtful \subseteq doubtful'
    BY <2>1 DEF StartCollecting
  <2>5. WantedOnce' /\ SpentFirst' /\ RetriedOnce'
    BY <2>2, <2>3, <2>4, WantsNoMore, RetryQuiet
  <2>6. QED
    BY <1>1, <2>5 DEF RetryInv
<1>5. CASE \E t \in Txns : ReportFailure(t)
  BY <1>1, <1>5, RetryFailed DEF RetryInv
<1>6. CASE \E t \in Txns : ReportProgress(t)
  <2>1. PICK t \in Txns : ReportProgress(t)
    BY <1>6
  <2>2. /\ RowsKept
        /\ \A u \in Txns : txn'[u].of = txn[u].of /\ txn'[u].eligible = txn[u].eligible
    BY <2>1, ReportProgressShape DEF RetryInv
  <2>3. /\ UNCHANGED <<stripe, task, doubtful>> /\ Rows' = Rows /\ Rows \subseteq Txns
    BY <2>1, <2>2 DEF ReportProgress, RowsKept, Rows
  <2>4. \A s, u \in Rows : Made(s, u)' => Made(s, u)
    BY <2>2, <2>3 DEF Made
  <2>5. \A u : \A r \in Retriers : Wants(r, u)' => Wants(r, u)
    BY <2>3 DEF Wants, Asks
  <2>6. WantedOnce' /\ SpentFirst' /\ RetriedOnce'
    BY <2>2, <2>3, <2>4, <2>5, RetryFrame DEF RowsKept
  <2>7. QED
    BY <1>1, <2>6 DEF RetryInv
<1>7. CASE \E t \in Txns : Settle(t)
  <2>1. PICK t \in Txns : Settle(t)
    BY <1>7
  <2>2. UNCHANGED <<txn, task, doubtful>> /\ Rows' = Rows /\ Rows \subseteq Txns
    BY <2>1 DEF Settle, Rows
  <2>3. \A u \in Txns : stripe'[u] # "none" => stripe[u] # "none"
    BY <2>1 DEF Settle, RetryInv, TypeInv, TypeOK
  <2>4. \A s, u \in Rows : Made(s, u)' => Made(s, u)
    BY <2>2, <2>3 DEF Made
  <2>5. \A u : \A r \in Retriers : Wants(r, u)' => Wants(r, u)
    BY <2>2 DEF Wants, Asks
  <2>6. WantedOnce' /\ SpentFirst' /\ RetriedOnce'
    BY <2>2, <2>4, <2>5, RetryFrame
  <2>7. QED
    BY <1>1, <2>6 DEF RetryInv
<1>8. CASE Tick \/ (\E e \in Enrollments : Edit(e)) \/ UNCHANGED vars
  <2>1. UNCHANGED <<txn, stripe, task, doubtful>>
    BY <1>8 DEF Tick, Edit, vars
  <2>2. \A u : \A r \in Retriers : Wants(r, u)' => Wants(r, u)
    BY <2>1 DEF Wants, Asks
  <2>3. WantedOnce' /\ SpentFirst' /\ RetriedOnce'
    BY <2>1, <2>2, RetryQuiet
  <2>4. QED
    BY <1>1, <2>3 DEF RetryInv
<1>9. QED
  BY <1>2, <1>3, <1>4, <1>5, <1>6, <1>7, <1>8 DEF Next

LEMMA InitRetries == Init => RetryInv
<1> SUFFICES ASSUME Init PROVE RetryInv
  OBVIOUS
<1>1. TypeInv /\ Rows = {}
  BY InitTypes DEF Init, Rows
<1>2. \A r \in Retriers : task[r].pc = "idle"
  BY DEF Init, Workers, Idle
<1>3. QED
  BY <1>1, <1>2 DEF RetryInv, WantedOnce, SpentFirst, RetriedOnce

\* A payment is listed by one retrier at most, is spent before its retry is
\* charged, and once it has a charged retry is neither eligible nor listed, as
\* long as no two retries overlapped and no event came after its retry was made.
THEOREM RetryInvariance == Spec => []RetryInv
<1>1. Init => RetryInv
  BY InitRetries
<1>2. RetryInv /\ [Next]_vars => RetryInv'
  BY NextRetries
<1>3. QED
  BY <1>1, <1>2, PTL DEF Spec

\* A failed payment is charged again once at most, for any number of retriers,
\* however rows are made, workers die and events come.
THEOREM FailedPaymentIsRetriedOnce == Spec => []OneRetryEach
<1>1. RetryInv => OneRetryEach
  <2>1. SUFFICES ASSUME RetryInv, NEW t \in Rows, txn[t].enr \notin doubtful
                 PROVE  Cardinality({u \in Rows : txn[u].of = t /\ stripe[u] # "none"}) <= 1
    BY DEF OneRetryEach
  <2>2. PICK S : S = {u \in Rows : txn[u].of = t /\ stripe[u] # "none"}
    OBVIOUS
  <2>3. CASE S = {}
    <3>1. Cardinality(S) = 0
      BY <2>3, FS_EmptySet
    <3>2. QED
      BY <2>2, <3>1
  <2>4. CASE S # {}
    <3>1. PICK u \in S : TRUE
      BY <2>4
    <3>2. S = {u}
      BY <2>1, <2>2, <3>1 DEF RetryInv, RetriedOnce, Sure, Made
    <3>3. Cardinality(S) = 1
      BY <3>2, FS_Singleton
    <3>4. QED
      BY <2>2, <3>3
  <2>5. QED
    BY <2>3, <2>4
<1>2. QED
  BY <1>1, RetryInvariance, PTL


--------------------------------------------------------------------------------
(* Months, and counting claims.                                              *)

\* An owner is charged each month, and keeps the day of the month that resuming
\* goes by: the cases in which every charge has a month of its own.
Monthly == Every = 1 /\ (MaxEdits = 0 \/ DueDay = 1)

LEMMA MonthBounds ==
    ASSUME NEW d \in Nat \ {0}
    PROVE  Month(d) * MonthLength + 1 <= d /\ d <= Month(d) * MonthLength + MonthLength
<1>1. PICK n \in Nat : n = d - 1
  OBVIOUS
<1>2. PICK k \in Nat : k = MonthLength /\ k >= 1
  BY CalendarAssumption
<1>3. PICK q \in Int : q = n \div k
  BY <1>2, Z3
<1>4. q * k <= n /\ n < q * k + k
  BY <1>2, <1>3, Z3
<1>5. q * k \in Int
  BY <1>2, <1>3, Z3
<1>6. q * k + 1 <= d /\ d <= q * k + k
  BY <1>1, <1>2, <1>4, <1>5
<1>7. QED
  BY <1>1, <1>2, <1>3, <1>6 DEF Month

LEMMA TimesGrows ==
    ASSUME NEW a \in Nat, NEW b \in Nat, a <= b
    PROVE  a * MonthLength <= b * MonthLength /\ a * MonthLength \in Nat
<1>1. PICK k \in Nat : k = MonthLength
  BY CalendarAssumption
<1>2. PICK c \in Nat : b = a + c
  <2>1. b - a \in Nat /\ b = a + (b - a)
    OBVIOUS
  <2>2. QED
    BY <2>1
<1>3. (a + c) * k = a * k + c * k /\ c * k \in Nat /\ a * k \in Nat
  BY <1>1, <1>2, Z3
<1>4. QED
  BY <1>1, <1>2, <1>3

LEMMA DueGrows ==
    ASSUME NEW a \in Nat, NEW b \in Nat, a <= b
    PROVE  DueIn(a) <= DueIn(b)
<1>1. a * MonthLength <= b * MonthLength /\ a * MonthLength \in Nat /\ b * MonthLength \in Nat
  BY TimesGrows
<1>2. QED
  BY <1>1, CalendarAssumption DEF DueIn

\* Months do not go back, and a due date that has come is of a month that has.
LEMMA MonthGrows ==
    ASSUME NEW c \in Nat \ {0}, NEW d \in Nat \ {0}, c <= d
    PROVE  Month(c) <= Month(d)
<1>1. PICK p \in Nat, q \in Nat : p = Month(c) /\ q = Month(d)
  BY MonthIsNat
<1>2. p * MonthLength + 1 <= c /\ d <= q * MonthLength + MonthLength
  BY <1>1, MonthBounds
<1>3. SUFFICES ASSUME q + 1 <= p PROVE FALSE
  BY <1>1
<1>4. (q + 1) * MonthLength <= p * MonthLength /\ (q + 1) * MonthLength \in Nat
      /\ p * MonthLength \in Nat
  BY <1>3, TimesGrows
<1>5. PICK k \in Nat : k = MonthLength
  BY CalendarAssumption
<1>6. (q + 1) * k = q * k + k /\ q * k \in Nat
  BY <1>5, Z3
<1>7. QED
  BY <1>2, <1>4, <1>5, <1>6

LEMMA DueHasCome ==
    ASSUME NEW n \in Nat, NEW d \in Nat \ {0}, DueIn(n) <= d
    PROVE  n <= Month(d)
<1>1. PICK q \in Nat : q = Month(d)
  BY MonthIsNat
<1>2. d <= q * MonthLength + MonthLength
  BY <1>1, MonthBounds
<1>3. SUFFICES ASSUME q + 1 <= n PROVE FALSE
  BY <1>1
<1>4. (q + 1) * MonthLength <= n * MonthLength /\ n * MonthLength \in Nat
  BY <1>3, TimesGrows
<1>5. PICK k \in Nat : k = MonthLength
  BY CalendarAssumption
<1>6. (q + 1) * k = q * k + k /\ q * k \in Nat
  BY <1>5, Z3
<1>7. QED
  BY <1>2, <1>4, <1>5, <1>6, CalendarAssumption DEF DueIn

\* Claims are counted.
LEMMA CountGrows ==
    ASSUME NEW S, NEW T, S \subseteq T, T \subseteq Txns
    PROVE  /\ Cardinality(S) \in Nat /\ Cardinality(T) \in Nat
           /\ Cardinality(S) <= Cardinality(T) /\ IsFiniteSet(S)
<1>1. IsFiniteSet(Txns)
  BY FS_Interval, BoundsAssumption DEF Txns
<1>2. IsFiniteSet(T)
  BY <1>1, FS_Subset
<1>3. IsFiniteSet(S) /\ Cardinality(S) <= Cardinality(T)
  BY <1>2, FS_Subset
<1>4. QED
  BY <1>2, <1>3, FS_CardinalityType

LEMMA OldAreClaims ==
    ASSUME NEW e
    PROVE  /\ Old(e) \subseteq Claims(e) /\ Claims(e) \subseteq Txns
           /\ Cardinality(Old(e)) \in Nat /\ Cardinality(Claims(e)) \in Nat
           /\ Cardinality(Old(e)) <= Cardinality(Claims(e))
<1>1. Old(e) \subseteq Claims(e) /\ Claims(e) \subseteq Txns
  BY DEF Old, Claims, RowsOf, Rows
<1>2. QED
  BY <1>1, CountGrows

\* One row takes the place of another, or comes first.
LEMMA OneMore ==
    ASSUME NEW S, NEW t, S \subseteq Txns
    PROVE  Cardinality(S \cup {t}) <= Cardinality(S) + 1 /\ Cardinality(S) \in Nat
           /\ IsFiniteSet(S) /\ Cardinality(S \cup {t}) \in Nat
<1>1. IsFiniteSet(S) /\ Cardinality(S) \in Nat
  BY CountGrows
<1>2. IsFiniteSet(S \cup {t})
         /\ Cardinality(S \cup {t}) = IF t \in S THEN Cardinality(S) ELSE Cardinality(S) + 1
  BY <1>1, FS_AddElement
<1>3. QED
  BY <1>1, <1>2
LEMMA OneForAnother ==
    ASSUME NEW S, NEW T, NEW o, NEW t, T \subseteq (S \ {o}) \cup {t}, o \in S, S \subseteq Txns
    PROVE  Cardinality(T) <= Cardinality(S) /\ Cardinality(T) \in Nat /\ Cardinality(S) \in Nat
<1>1. IsFiniteSet(S) /\ Cardinality(S) \in Nat
  BY CountGrows
<1>2. IsFiniteSet(S \ {o}) /\ Cardinality(S \ {o}) = Cardinality(S) - 1
  BY <1>1, FS_RemoveElement
<1>3. IsFiniteSet((S \ {o}) \cup {t}) /\ Cardinality((S \ {o}) \cup {t}) <= Cardinality(S)
  <2>1. IsFiniteSet((S \ {o}) \cup {t})
        /\ Cardinality((S \ {o}) \cup {t}) = IF t \in S \ {o} THEN Cardinality(S \ {o})
                                             ELSE Cardinality(S \ {o}) + 1
    BY <1>2, FS_AddElement
  <2>2. QED
    BY <1>1, <1>2, <2>1
<1>4. IsFiniteSet(T) /\ Cardinality(T) <= Cardinality((S \ {o}) \cup {t})
  BY <1>3, FS_Subset
<1>5. Cardinality(T) \in Nat /\ Cardinality((S \ {o}) \cup {t}) \in Nat
  BY <1>3, <1>4, FS_CardinalityType
<1>6. QED
  BY <1>1, <1>3, <1>4, <1>5

\* A run row serves fewer claims too.
LEMMA RanForFewer ==
    ASSUME TypeOK, NEW e, NEW m \in Nat, NEW n \in Nat, m <= n, RanFor(e, n)
    PROVE  RanFor(e, m)
<1>1. PICK r \in paid : r[1] = e /\ n <= r[2] + 1
  BY DEF RanFor
<1>2. r[2] \in Nat
  BY DEF TypeOK
<1>3. QED
  BY <1>1, <1>2 DEF RanFor


--------------------------------------------------------------------------------
(* What a step may change of charges and months.                             *)

\* A collection that takes up nothing new but what has a month left, and knows
\* of its run row.
Calm(c, e) ==
    /\ Listed(c, e)' => \/ Listed(c, e) /\ task'[c].day = task[c].day
                        \/ Cardinality(Claims(e)) <= Month(task'[c].day)
                        \/ RanFor(e, Cardinality(Claims(e)))
    /\ Looks(c, e)' => /\ task'[c].day = task[c].day
                       /\ Looks(c, e) \/ Cardinality(Claims(e)) <= Month(task[c].day)
    /\ Pays(c, e)' => Pays(c, e) /\ task'[c].day = task[c].day
    /\ Pays(c, e)' /\ task'[c].pc = "advance" /\ ~Failed(c)' =>
         \/ task[c].pc = "advance" /\ ~Failed(c)
         \/ <<e, Month(task'[c].day)>> \in paid'

Fewer(e) == /\ Cardinality(Claims(e))' <= Cardinality(Claims(e))
            /\ Cardinality(Old(e))' <= Cardinality(Old(e))

LEMMA CountsAreNat ==
    ASSUME NEW e
    PROVE  /\ Cardinality(Old(e)) \in Nat /\ Cardinality(Claims(e)) \in Nat
           /\ Cardinality(Old(e))' \in Nat /\ Cardinality(Claims(e))' \in Nat
           /\ Cardinality(Old(e))' <= Cardinality(Claims(e))'
           /\ Claims(e) \subseteq Txns /\ Old(e) \subseteq Claims(e)
           /\ Claims(e)' \subseteq Txns /\ Old(e)' \subseteq Claims(e)'
<1>1. /\ Old(e) \subseteq Claims(e) /\ Claims(e) \subseteq Txns
      /\ Cardinality(Old(e)) \in Nat /\ Cardinality(Claims(e)) \in Nat
  BY OldAreClaims
<1>2. Old(e)' \subseteq Claims(e)' /\ Claims(e)' \subseteq Txns
  BY DEF Old, Claims, RowsOf, Rows
<1>3. PICK S, T : S = Old(e)' /\ T = Claims(e)'
  OBVIOUS
<1>4. Cardinality(S) \in Nat /\ Cardinality(T) \in Nat /\ Cardinality(S) <= Cardinality(T)
  BY <1>2, <1>3, CountGrows
<1>5. QED
  BY <1>1, <1>2, <1>3, <1>4

LEMMA FewerClaims ==
    ASSUME NEW e, Claims(e)' \subseteq Claims(e)
    PROVE  /\ Cardinality(Claims(e))' <= Cardinality(Claims(e))
           /\ (Old(e)' \subseteq Old(e) => Fewer(e))
<1>1. Old(e) \subseteq Claims(e) /\ Claims(e) \subseteq Txns
  BY OldAreClaims
<1>2. PICK S, T, V, W : S = Old(e)' /\ T = Claims(e)' /\ V = Old(e) /\ W = Claims(e)
  OBVIOUS
<1>3. Cardinality(T) <= Cardinality(W)
  BY <1>1, <1>2, CountGrows
<1>4. S \subseteq V => Cardinality(S) <= Cardinality(V)
  BY <1>1, <1>2, CountGrows
<1>5. QED
  BY <1>2, <1>3, <1>4 DEF Fewer

LEMMA SlotFrame ==
    ASSUME ChargeInv, TypeOK', NEW e \in Enrollments \ doubtful, today <= today', Fewer(e),
           enr'[e].next = enr[e].next, paid \subseteq paid',
           \A c \in Collectors : Calm(c, e)
    PROVE  SlotOK(e)'
<1>1. PICK m \in Nat, n \in Nat, o \in Nat, p \in Nat :
        /\ m = Cardinality(Old(e))' /\ n = Cardinality(Old(e))
        /\ o = Cardinality(Claims(e))' /\ p = Cardinality(Claims(e))
  BY CountsAreNat
<1>2. m <= n /\ o <= p
  BY <1>1 DEF Fewer
<1>3. SlotOK(e) /\ TypeOK /\ TypeInv
  BY DEF ChargeInv, RetryInv, TypeInv, Slots
<1>4. \A k \in Nat : RanFor(e, k) => RanFor(e, k)'
  BY DEF RanFor
<1>5. DueIn(m) <= DueIn(n) /\ DueIn(m) \in Nat /\ DueIn(n) \in Nat /\ enr[e].next \in Nat
  BY <1>2, <1>3, DueGrows, DueIsNat DEF TypeOK, Enrollment
<1>6. DueIn(m) <= enr'[e].next \/ RanFor(e, m)'
  <2>1. CASE DueIn(n) <= enr[e].next
    BY <1>5, <2>1
  <2>2. CASE RanFor(e, n)
    BY <1>2, <1>3, <1>4, <2>2, RanForFewer
  <2>3. QED
    BY <1>1, <1>3, <2>1, <2>2 DEF SlotOK
<1>7. o <= Month(today') + 1
  <2>1. today \in Nat \ {0} /\ today' \in Nat \ {0}
    BY <1>3 DEF TypeOK, Days
  <2>2. PICK a \in Nat, b \in Nat : a = Month(today) /\ b = Month(today') /\ a <= b
    BY <2>1, MonthGrows, MonthIsNat
  <2>3. p <= a + 1
    BY <1>1, <1>3, <2>2 DEF SlotOK
  <2>4. QED
    BY <1>2, <2>2, <2>3
<1>8. ASSUME NEW c \in Collectors
      PROVE  /\ Listed(c, e)' => o <= Month(task'[c].day) \/ RanFor(e, o)'
             /\ Looks(c, e)' => o <= Month(task'[c].day)
             /\ Pays(c, e)' => o <= Month(task'[c].day) + 1
             /\ Pays(c, e)' /\ task'[c].pc = "advance" /\ ~Failed(c)'
                => <<e, Month(task'[c].day)>> \in paid'
  <2>1. Calm(c, e) /\ task[c].day \in Nat \ {0}
    BY <1>3 DEF TypeOK, Task, Days, Workers
  <2>2. PICK a \in Nat : a = Month(task[c].day)
    BY <2>1, MonthIsNat
  <2>3. /\ Listed(c, e) => p <= a \/ RanFor(e, p)
        /\ Looks(c, e) => p <= a
        /\ Pays(c, e) => p <= a + 1
        /\ Pays(c, e) /\ task[c].pc = "advance" /\ ~Failed(c) => <<e, a>> \in paid
    BY <1>1, <1>3, <2>2 DEF SlotOK
  <2>4. Listed(c, e)' => o <= Month(task'[c].day) \/ RanFor(e, o)'
    <3>1. PICK b \in Nat : b = Month(task'[c].day)
      <4>1. task'[c].day \in Nat \ {0}
        BY DEF TypeOK, Task, Days, Workers
      <4>2. QED
        BY <4>1, MonthIsNat
    <3>2. Listed(c, e)' => p <= b \/ RanFor(e, p)
      BY <1>1, <2>1, <2>2, <2>3, <3>1 DEF Calm
    <3>3. RanFor(e, p) => RanFor(e, o)'
      BY <1>2, <1>3, <1>4, RanForFewer
    <3>4. QED
      BY <1>2, <3>1, <3>2, <3>3
  <2>5. Looks(c, e)' => o <= Month(task'[c].day)
    BY <1>1, <1>2, <2>1, <2>2, <2>3 DEF Calm
  <2>6. Pays(c, e)' => o <= Month(task'[c].day) + 1
    BY <1>2, <2>1, <2>2, <2>3 DEF Calm
  <2>7. Pays(c, e)' /\ task'[c].pc = "advance" /\ ~Failed(c)'
        => <<e, Month(task'[c].day)>> \in paid'
    BY <2>1, <2>2, <2>3 DEF Calm
  <2>8. QED
    BY <2>4, <2>5, <2>6, <2>7
<1>9. QED
  BY <1>1, <1>6, <1>7, <1>8 DEF SlotOK

\* The claims after a worker's step, in terms of what that worker does.
LEMMA MoveClaims ==
    ASSUME NEW w \in Workers, Moves(w), RowsKept, NEW e,
           \A t \in RowsOf(e) : \/ txn'[t].eligible \/ Unlinked(t)' \/ Live(t)'
                                \/ (w \in Retriers /\ Lists(w, t)') \/ Charges(w, t)'
                                => Live(t) \/ Owed(t)
    PROVE  Claims(e)' \subseteq Claims(e)
<1>1. Rows' = Rows /\ \A t \in Rows : txn'[t].enr = txn[t].enr
  BY DEF RowsKept
<1>2. \A r \in Retriers \ {w} : \A t : Lists(r, t)' => Lists(r, t)
  BY DEF Moves, Lists, Workers
<1>3. \A v \in Workers \ {w} : \A t : Charges(v, t)' => Charges(v, t)
  BY DEF Moves, Charges
<1>4. ASSUME NEW t \in RowsOf(e), Owed(t)' PROVE Live(t) \/ Owed(t)
  <2>1. \/ txn'[t].eligible \/ Unlinked(t)'
        \/ \E r \in Retriers : Lists(r, t)'
        \/ \E v \in Workers : Charges(v, t)'
    BY <1>4 DEF Owed
  <2>2. CASE \E r \in Retriers \ {w} : Lists(r, t)'
    BY <1>2, <2>2 DEF Owed
  <2>3. CASE \E v \in Workers \ {w} : Charges(v, t)'
    BY <1>3, <2>3 DEF Owed
  <2>4. QED
    BY <2>1, <2>2, <2>3
<1>5. QED
  BY <1>1, <1>4 DEF Claims, RowsOf

LEMMA MoveOld ==
    ASSUME NEW w \in Workers, Moves(w), NEW e, Claims(e)' \subseteq Claims(e),
           w \in Collectors /\ task[w].pc \in Paying =>
             \/ task'[w].pc \in Paying /\ task'[w].txn = task[w].txn
             \/ task[w].txn \notin Claims(e)'
    PROVE  Old(e)' \subseteq Old(e)
<1>1. \A t : t \in Claims(e)' /\ Current(t) => Current(t)'
  <2>1. SUFFICES ASSUME NEW t, t \in Claims(e)', NEW c \in Collectors,
                        task[c].pc \in Paying, task[c].txn = t
                 PROVE  Current(t)'
    BY DEF Current
  <2>2. CASE c = w
    BY <2>1, <2>2 DEF Current
  <2>3. CASE c # w
    BY <2>1, <2>3 DEF Current, Moves, Workers
  <2>4. QED
    BY <2>2, <2>3
<1>2. QED
  BY <1>1 DEF Old

\* A worker that is not a collection leaves the collections alone.
LEMMA OthersAreCalm ==
    ASSUME NEW w, \A c \in Collectors \ {w} : task'[c] = task[c], NEW e, NEW c \in Collectors \ {w}
    PROVE  Calm(c, e)
BY DEF Calm, Listed, Looks, Pays, Failed

LEMMA RestIsCalm ==
    ASSUME NEW w, Rests(w), task'[w].due \subseteq task[w].due, task'[w].day = task[w].day, NEW e
    PROVE  Calm(w, e)
BY DEF Calm, Listed, Looks, Pays, Rests, Resting, Paying

\* What a worker that moves is involved in, and what it knows.
LEMMA InvolvedFrame ==
    ASSUME ChargeInv, NEW w \in Workers, Moves(w), doubtful \subseteq doubtful',
           \A e \in Enrollments \ doubtful' : w \in Collectors => (Involved(w, e)' => Involved(w, e))
    PROVE  InvolvedOnce'
<1>1. \A c \in Collectors : \A e \in Enrollments \ doubtful' : Involved(c, e)' => Involved(c, e)
  BY DEF Moves, Involved, Listed, Workers
<1>2. QED
  BY <1>1 DEF InvolvedOnce, ChargeInv

LEMMA FailuresFrame ==
    ASSUME ChargeInv, NEW w \in Workers, Moves(w), doubtful \subseteq doubtful',
           \A v \in Workers \ {w} : task[v].pc \in Holding => stripe'[task[v].txn] = stripe[task[v].txn],
           FailureOK(w)'
    PROVE  \A v \in Workers : FailureOK(v)'
<1>1. SUFFICES ASSUME NEW v \in Workers \ {w} PROVE FailureOK(v)'
  OBVIOUS
<1>2. task'[v] = task[v] /\ FailureOK(v)
  BY DEF Moves, ChargeInv, NotLive
<1>3. QED
  BY <1>2 DEF FailureOK, Failed, Holding, Charging

LEMMA UnwantedFrame ==
    ASSUME ChargeInv, NEW w \in Workers, Moves(w), RowsKept, doubtful \subseteq doubtful',
           \A t \in Rows : Sure(t)' /\ Live(t)' =>
              /\ Live(t)
              /\ txn'[t].eligible => txn[t].eligible
              /\ w \in Retriers /\ Wants(w, t)' => Wants(w, t)
    PROVE  LiveUnwanted'
<1>1. LiveUnwanted
  BY DEF ChargeInv, NotLive
<1>2. \A t \in Rows : Sure(t)' => Sure(t)
  BY DEF Sure, RowsKept
<1>3. \A r \in Retriers \ {w} : \A t : Wants(r, t)' => Wants(r, t)
  BY DEF Moves, Wants, Asks, Workers
<1>4. SUFFICES ASSUME NEW t \in Rows, Sure(t)', Live(t)'
               PROVE  ~txn'[t].eligible /\ \A r \in Retriers : ~Wants(r, t)'
  BY DEF LiveUnwanted, RowsKept
<1>5. Live(t) /\ Sure(t)
  BY <1>2, <1>4
<1>6. ~txn[t].eligible /\ \A r \in Retriers : ~Wants(r, t)
  BY <1>1, <1>5 DEF LiveUnwanted
<1>7. QED
  BY <1>3, <1>4, <1>6

\* A worker's step after which there are no more claims, and no new ones begun.
LEMMA MoveSlot ==
    ASSUME ChargeInv, NEW w \in Workers, Moves(w), TypeOK', today' = today,
           paid \subseteq paid', NEW e \in Enrollments \ doubtful, Fewer(e),
           enr'[e].next = enr[e].next, w \in Collectors => Calm(w, e)
    PROVE  SlotOK(e)'
<1>1. \A c \in Collectors \ {w} : task'[c] = task[c]
  BY DEF Moves, Workers
<1>2. \A c \in Collectors : Calm(c, e)
  BY <1>1, OthersAreCalm
<1>3. today <= today'
  BY DEF ChargeInv, RetryInv, TypeInv, TypeOK, Days
<1>4. QED
  BY <1>2, <1>3, SlotFrame

LEMMA MoveSlots ==
    ASSUME ChargeInv, NEW w \in Workers, Moves(w), TypeOK', today' = today,
           paid \subseteq paid', doubtful \subseteq doubtful',
           \A e \in Enrollments \ doubtful' :
              /\ Fewer(e) /\ enr'[e].next = enr[e].next
              /\ w \in Collectors => Calm(w, e) /\ (Involved(w, e)' => Involved(w, e))
    PROVE  InvolvedOnce' /\ Slots'
<1>1. InvolvedOnce'
  BY InvolvedFrame
<1>2. \A e \in Enrollments \ doubtful' : SlotOK(e)'
  BY MoveSlot
<1>3. QED
  BY <1>1, <1>2 DEF Slots

\* A collection that is done with an enrollment in the month it paid for.
LEMMA LastSlot ==
    ASSUME ChargeInv, NEW w \in Collectors, Moves(w), TypeOK', today' = today,
           paid \subseteq paid', NEW e \in Enrollments \ doubtful,
           Pays(w, e), Claims(e)' \subseteq Claims(e),
           task'[w].pc \in Resting \cup {"mark"}, task'[w].due \subseteq task[w].due,
           \/ DueIn(Month(task[w].day) + 1) <= enr'[e].next
           \/ <<e, Month(task[w].day)>> \in paid'
    PROVE  SlotOK(e)'
<1>1. /\ SlotOK(e) /\ TypeOK /\ RefsOK(w) /\ InvolvedOnce
      /\ task[w].day \in Nat \ {0} /\ today \in Nat \ {0}
  BY DEF ChargeInv, RetryInv, TypeInv, Slots, TypeOK, Task, Days, Workers, TasksOK
<1>2. PICK m \in Nat, o \in Nat, p \in Nat, a \in Nat, b \in Nat :
        /\ m = Cardinality(Old(e))' /\ o = Cardinality(Claims(e))' /\ p = Cardinality(Claims(e))
        /\ a = Month(task[w].day) /\ b = Month(today) /\ m <= o
  BY <1>1, CountsAreNat, MonthIsNat
<1>3. o <= p /\ p <= a + 1 /\ p <= b + 1
  BY <1>1, <1>2, FewerClaims DEF SlotOK
<1>4. DueIn(m) <= enr'[e].next \/ RanFor(e, m)'
  <2>1. CASE DueIn(a + 1) <= enr'[e].next
    <3>1. DueIn(m) <= DueIn(a + 1) /\ DueIn(m) \in Nat /\ DueIn(a + 1) \in Nat
      BY <1>2, <1>3, DueGrows, DueIsNat
    <3>2. enr'[e].next \in Nat
      BY DEF TypeOK, Enrollment
    <3>3. QED
      BY <2>1, <3>1, <3>2
  <2>2. CASE <<e, a>> \in paid'
    BY <1>2, <1>3, <2>2 DEF RanFor
  <2>3. QED
    BY <1>2, <2>1, <2>2
<1>5. \A c \in Collectors : ~Listed(c, e)' /\ ~Looks(c, e)' /\ ~Pays(c, e)'
  <2>1. task[w].enr = e /\ e \notin task[w].due
    BY <1>1 DEF Pays, RefsOK
  <2>2. ~Listed(w, e)' /\ ~Looks(w, e)' /\ ~Pays(w, e)'
    BY <2>1 DEF Listed, Looks, Pays, Paying, Resting
  <2>3. \A c \in Collectors \ {w} : task'[c] = task[c] /\ ~Involved(c, e)
    BY <1>1, <2>1 DEF InvolvedOnce, Involved, Moves, Workers
  <2>4. QED
    BY <2>2, <2>3 DEF Involved, Listed, Looks, Pays
<1>6. QED
  BY <1>2, <1>3, <1>4, <1>5 DEF SlotOK

\* A row that was not charged and is let go is no claim.
LEMMA LetGo ==
    ASSUME TypeInv, NEW w \in Workers, task[w].pc \in Charging, Rests(w),
           task'[w].list \subseteq task[w].list, stripe'[task[w].txn] = "none",
           ~txn'[task[w].txn].eligible, ~txn'[task[w].txn].known, NEW e
    PROVE  task[w].txn \notin Claims(e)'
<1>1. PICK t : t = task[w].txn
  OBVIOUS
<1>2. HeldOK(w) /\ Distinct /\ RefsOK(w)
  BY DEF TypeInv, TasksOK
<1>3. /\ \A r \in Retriers : ~Wants(r, t)
      /\ t \in Txns
      /\ \A v \in Workers \ {w} : ~Holds(v, t)
  BY <1>1, <1>2 DEF HeldOK, RefsOK, Rows, Distinct, Holds, Holding
<1>4. \A r \in Retriers : ~Lists(r, t)'
  <2>1. \A r \in Retriers \ {w} : Lists(r, t)' => Wants(r, t)
    BY DEF Rests, Moves, Lists, Wants, Asks, Workers
  <2>2. w \in Retriers => (Lists(w, t)' => Wants(w, t))
    BY DEF Rests, Resting, Lists, Wants, Asks
  <2>3. QED
    BY <1>3, <2>1, <2>2
<1>5. \A v \in Workers : ~Charges(v, t)'
  <2>1. ~Charges(w, t)'
    BY DEF Rests, Resting, Charges, Charging
  <2>2. \A v \in Workers \ {w} : Charges(v, t)' => Holds(v, t)
    BY DEF Rests, Moves, Charges, Holds, Holding
  <2>3. QED
    BY <1>3, <2>1, <2>2
<1>6. ~Live(t)' /\ ~Unlinked(t)'
  BY <1>1 DEF Live, Unlinked, Refused
<1>7. QED
  BY <1>1, <1>4, <1>5, <1>6 DEF Claims, Owed

\* A payment comes to wait for a retry by an answer, or a returned debit.
LEMMA StillUnlinked ==
    ASSUME RowsKept, KnownKept, UNCHANGED stripe, \A u \in Rows : txn'[u].of = txn[u].of
    PROVE  \A t \in Rows : Unlinked(t)' => Unlinked(t)
BY DEF RowsKept, KnownKept, Unlinked, Refused, Rows

\* A step that is not charged yet, or makes no difference to what is charged.
LEMMA RestFewer ==
    ASSUME NEW w \in Workers, Rests(w), RowsKept, KnownKept, NEW e,
           task'[w].list \subseteq task[w].list, UNCHANGED stripe,
           \A u \in Rows : txn'[u].of = txn[u].of,
           \A t \in RowsOf(e) : txn'[t].eligible => Live(t) \/ Owed(t),
           w \in Collectors /\ task[w].pc \in Paying => task[w].txn \notin Claims(e)'
    PROVE  Fewer(e)
<1>1. Moves(w) /\ Rows' = Rows /\ task'[w].pc \in {"idle", "next"}
  BY DEF Rests, RowsKept, Resting
<1>2. ASSUME NEW t \in RowsOf(e),
             \/ txn'[t].eligible \/ Unlinked(t)' \/ Live(t)'
             \/ (w \in Retriers /\ Lists(w, t)') \/ Charges(w, t)'
      PROVE  Live(t) \/ Owed(t)
  <2>1. Unlinked(t)' => Unlinked(t)
    BY StillUnlinked DEF RowsOf
  <2>2. Live(t)' => Live(t)
    BY DEF Live
  <2>3. w \in Retriers /\ Lists(w, t)' => Lists(w, t)
    BY <1>1 DEF Lists
  <2>4. ~Charges(w, t)'
    BY <1>1 DEF Charges, Charging
  <2>5. QED
    BY <1>2, <2>1, <2>2, <2>3, <2>4 DEF Owed
<1>3. Claims(e)' \subseteq Claims(e)
  BY <1>1, <1>2, MoveClaims
<1>4. Old(e)' \subseteq Old(e)
  BY <1>1, <1>3, MoveOld
<1>5. QED
  BY <1>3, <1>4, FewerClaims


--------------------------------------------------------------------------------
(* Each step keeps ChargeInv.                                                *)

LEMMA QuietStep ==
    ASSUME ChargeInv, TypeInv', NEW w \in Workers, Moves(w), UNCHANGED <<txn, stripe, today>>,
           paid \subseteq paid', doubtful \subseteq doubtful',
           \A e \in Enrollments : enr'[e].next = enr[e].next,
           FailureOK(w)',
           \A t : /\ w \in Retriers /\ Lists(w, t)' => Lists(w, t)
                  /\ w \in Retriers /\ Wants(w, t)' => Wants(w, t)
                  /\ Charges(w, t)' => Charges(w, t),
           w \in Collectors => \A e \in Enrollments \ doubtful' :
                                  Calm(w, e) /\ (Involved(w, e)' => Involved(w, e)),
           w \in Collectors /\ task[w].pc \in Paying =>
              task'[w].pc \in Paying /\ task'[w].txn = task[w].txn
    PROVE  NotLive' /\ InvolvedOnce' /\ Slots'
<1>1. RowsKept /\ Rows' = Rows /\ TypeOK'
  BY NothingWritten DEF ChargeInv, RetryInv, TypeInv, RowsKept
<1>2. NotLive'
  <2>1. \A v \in Workers : FailureOK(v)'
    BY FailuresFrame
  <2>2. \A t \in Rows : Live(t)' => Live(t)
    BY DEF Live
  <2>3. LiveUnwanted'
    BY <1>1, <2>2, UnwantedFrame
  <2>4. QED
    BY <2>1, <2>3 DEF NotLive
<1>3. ASSUME NEW e PROVE Fewer(e)
  <2>1. ASSUME NEW t \in RowsOf(e),
               \/ txn'[t].eligible \/ Unlinked(t)' \/ Live(t)'
               \/ (w \in Retriers /\ Lists(w, t)') \/ Charges(w, t)'
        PROVE  Live(t) \/ Owed(t)
    BY <1>1, <2>1 DEF Owed, Unlinked, Refused, Live
  <2>2. Claims(e)' \subseteq Claims(e)
    BY <1>1, <2>1, MoveClaims
  <2>3. Old(e)' \subseteq Old(e)
    BY <2>2, MoveOld
  <2>4. QED
    BY <2>2, <2>3, FewerClaims
<1>4. InvolvedOnce' /\ Slots'
  BY <1>1, <1>3, MoveSlots
<1>5. QED
  BY <1>2, <1>4

LEMMA TakeKeepsCharges ==
    ASSUME ChargeInv, TypeInv', NEW w \in Workers, TakeRetry(w)
    PROVE  NotLive' /\ InvolvedOnce' /\ Slots'
<1>1. TypeInv /\ TypeOK /\ RefsOK(w)
  BY DEF ChargeInv, RetryInv, TypeInv, TasksOK
<1>2. w \in Retriers /\ w \notin Collectors /\ task[w].pc = "next"
  BY <1>1, RetryIsTaken, WorkersAssumption DEF RefsOK
<1>3. PICK t \in task[w].list :
             /\ Moves(w) /\ task'[w].list = task[w].list \ {t} /\ task'[w].orig = t
             /\ task'[w].pc \in {"create", "drop"}
  BY <1>1, RetryIsTaken DEF RefsOK
<1>4. FailureOK(w)'
  BY <1>3 DEF FailureOK
<1>5. \A u : /\ Lists(w, u)' => Lists(w, u)
             /\ Wants(w, u)' => Wants(w, u)
             /\ Charges(w, u)' => Charges(w, u)
  BY <1>3 DEF Lists, Wants, Asks, Charges, Charging
<1>6. QED
  BY <1>2, <1>3, <1>4, <1>5, QuietStep DEF TakeRetry

LEMMA LookKeepsCharges ==
    ASSUME ChargeInv, TypeInv', NEW w \in Workers, CheckInFlight(w) \/ LoadMethod(w)
    PROVE  NotLive' /\ InvolvedOnce' /\ Slots'
<1>1. /\ TypeInv /\ task \in [Workers -> Task] /\ KindOK(w)
      /\ UNCHANGED <<enr, txn, stripe, today, paid, doubtful>>
      /\ task[w].pc \in {"inflight", "method"}
      /\ (EndTurn(w) \/ (\E l \in {"method", "create"} : Go(w, l)))
  BY DEF CheckInFlight, LoadMethod, At, ChargeInv, RetryInv, TypeInv, TypeOK, TasksOK
<1>2. w \in Collectors /\ w \notin Retriers
  BY <1>1, WorkersAssumption DEF KindOK
<1>3. EndsTurn(w) \/ (\E l \in {"method", "create"} : Goes(w, l))
  BY <1>1, TurnEnds, WorkerGoes DEF Labels
<1>4. Moves(w) /\ FailureOK(w)' /\ task'[w].pc \in {"idle", "next", "method", "create"}
  BY <1>3 DEF EndsTurn, Rests, Goes, FailureOK, Resting
<1>5. \A t : ~Charges(w, t)'
  BY <1>4 DEF Charges, Charging
<1>6. ASSUME NEW e \in Enrollments
      PROVE  Calm(w, e) /\ (Involved(w, e)' => Involved(w, e))
  <2>1. CASE EndsTurn(w)
    BY <2>1, RestIsCalm, NoneAssumption DEF EndsTurn, Rests, Involved, Listed
  <2>2. CASE \E l \in {"method", "create"} : Goes(w, l)
    BY <1>1, <2>2 DEF Calm, Listed, Looks, Pays, Paying, Goes, Same, Involved
  <2>3. QED
    BY <1>3, <2>1, <2>2
<1>7. task[w].pc \notin Paying
  BY <1>1 DEF Paying
<1>8. QED
  BY <1>1, <1>2, <1>4, <1>5, <1>6, <1>7, QuietStep

LEMMA RecordKeepsCharges ==
    ASSUME ChargeInv, TypeInv', NEW w \in Workers, RecordRun(w)
    PROVE  NotLive' /\ InvolvedOnce' /\ Slots'
<1>1. /\ TypeInv /\ RefsOK(w) /\ FailureOK(w)
      /\ UNCHANGED <<enr, txn, stripe, today, doubtful>> /\ task[w].pc = "record"
      /\ paid \subseteq paid'
  BY DEF RecordRun, At, ChargeInv, RetryInv, TypeInv, TasksOK, NotLive
<1>2. \/ Goes(w, "advance") /\ w \in Collectors /\ Failed(w)' = Failed(w)
      \/ EndsTurn(w) /\ w \notin Collectors
  BY <1>1, RecordRunShape
<1>3. CASE EndsTurn(w) /\ w \notin Collectors
  <2>1. Moves(w) /\ FailureOK(w)'
    BY <1>3 DEF EndsTurn, Rests, FailureOK, Resting
  <2>2. \A t : /\ Lists(w, t)' => Lists(w, t)
               /\ Wants(w, t)' => Wants(w, t)
               /\ Charges(w, t)' => Charges(w, t)
    BY <1>3 DEF EndsTurn, Rests, Resting, Lists, Wants, Asks, Charges, Charging
  <2>3. QED
    BY <1>1, <1>3, <2>1, <2>2, QuietStep
<1>4. CASE Goes(w, "advance") /\ w \in Collectors /\ Failed(w)' = Failed(w)
  <2>1. Moves(w) /\ FailureOK(w)'
    BY <1>1, <1>4 DEF Goes, Same, FailureOK
  <2>2. \A t : Charges(w, t)' => Charges(w, t)
    BY <1>1, <1>4 DEF Goes, Same, Charges, Charging
  <2>3. ASSUME NEW e \in Enrollments
        PROVE  Calm(w, e) /\ (Involved(w, e)' => Involved(w, e))
    <3>1. /\ task'[w].pc = "advance" /\ task'[w].day = task[w].day /\ task'[w].enr = task[w].enr
          /\ task'[w].due = task[w].due
      BY <1>4 DEF Goes, Same
    <3>2. ~Failed(w) => <<task[w].enr, Month(task[w].day)>> \in paid'
      BY <1>4 DEF RecordRun
    <3>3. QED
      BY <1>1, <1>4, <3>1, <3>2 DEF Calm, Listed, Looks, Pays, Paying, Involved
  <2>4. task[w].pc \in Paying /\ task'[w].pc \in Paying /\ task'[w].txn = task[w].txn
    BY <1>1, <1>4 DEF Goes, Same, Paying
  <2>5. w \notin Retriers
    BY <1>4, WorkersAssumption
  <2>6. QED
    BY <1>1, <2>1, <2>2, <2>3, <2>4, <2>5, QuietStep
<1>5. QED
  BY <1>2, <1>3, <1>4

LEMMA StartRetryingKeepsCharges ==
    ASSUME ChargeInv, TypeInv', NEW r \in Retriers, StartRetrying(r)
    PROVE  NotLive' /\ InvolvedOnce' /\ Slots'
<1>1. /\ Moves(r) /\ task'[r].pc = "next" /\ task'[r].list = Eligible /\ r \in Workers
      /\ TypeInv /\ LiveUnwanted /\ r \notin Collectors
  BY RetryingStarts, WorkersAssumption DEF ChargeInv, RetryInv, TypeInv, Workers, NotLive
<1>2. /\ UNCHANGED <<txn, stripe, today, enr, paid>> /\ doubtful \subseteq doubtful'
      /\ RowsKept /\ Rows' = Rows
  BY <1>1, NothingWritten DEF StartRetrying, TypeInv, RowsKept
<1>3. \A t : Wants(r, t)' \/ Lists(r, t)' => t \in Rows /\ txn[t].eligible
  BY <1>1 DEF Wants, Asks, Lists, Eligible
<1>4. \A t \in Rows : Live(t)' => Live(t)
  BY <1>2 DEF Live
<1>5. NotLive'
  <2>1. FailureOK(r)'
    BY <1>1 DEF FailureOK
  <2>2. \A v \in Workers : FailureOK(v)'
    BY <1>1, <1>2, <2>1, FailuresFrame
  <2>3. \A t \in Rows : Sure(t)' => Sure(t)
    BY <1>2 DEF Sure
  <2>4. \A t \in Rows : Sure(t)' /\ Live(t)' => ~Wants(r, t)'
    BY <1>1, <1>3, <1>4, <2>3 DEF LiveUnwanted
  <2>5. LiveUnwanted'
    BY <1>1, <1>2, <1>4, <2>4, UnwantedFrame
  <2>6. QED
    BY <2>2, <2>5 DEF NotLive
<1>6. ASSUME NEW e PROVE Fewer(e)
  <2>1. ASSUME NEW t \in RowsOf(e),
               \/ txn'[t].eligible \/ Unlinked(t)' \/ Live(t)'
               \/ (r \in Retriers /\ Lists(r, t)') \/ Charges(r, t)'
        PROVE  Live(t) \/ Owed(t)
    <3>1. ~Charges(r, t)'
      BY <1>1 DEF Charges, Charging
    <3>2. QED
      BY <1>2, <1>3, <2>1, <3>1 DEF Owed, Unlinked, Refused, Live
  <2>2. Claims(e)' \subseteq Claims(e)
    BY <1>1, <1>2, <2>1, MoveClaims
  <2>3. Old(e)' \subseteq Old(e)
    BY <1>1, <2>2, MoveOld
  <2>4. QED
    BY <2>2, <2>3, FewerClaims
<1>7. InvolvedOnce' /\ Slots'
  BY <1>1, <1>2, <1>6, MoveSlots DEF TypeInv
<1>8. QED
  BY <1>5, <1>7


LEMMA SaveKeepsCharges ==
    ASSUME ChargeInv, TypeInv', NEW w \in Workers, SaveAnswer(w)
    PROVE  NotLive' /\ InvolvedOnce' /\ Slots'
<1>1. /\ HeldWrite(w) /\ RowsKept /\ Rows' = Rows /\ Rows \subseteq Txns
      /\ \A u \in Rows : txn'[u].eligible = txn[u].eligible /\ txn'[u].of = txn[u].of
      /\ \/ Goes(w, "record")
         \/ Goes(w, "mark") /\ Failed(w) /\ w \notin Collectors
         \/ EndsTurn(w) /\ w \notin Collectors
      /\ Goes(w, task'[w].pc) => Failed(w)' = Failed(w)
      /\ TypeInv /\ FailureOK(w)
  BY SaveAnswerShape DEF HeldWrite, RowsKept, Rows, ChargeInv, RetryInv, NotLive
<1>2. /\ UNCHANGED <<stripe, today, enr, paid, doubtful>> /\ task[w].pc = "answer"
      /\ Moves(w)
  BY <1>1 DEF SaveAnswer, At, Goes, EndsTurn, Rests
<1>3. FailureOK(w)'
  <2>1. CASE Goes(w, "record")
    BY <1>1, <1>2, <2>1 DEF FailureOK, Goes, Same
  <2>2. CASE Goes(w, "mark") /\ Failed(w)
    BY <1>1, <1>2, <2>2 DEF FailureOK, Goes, Same
  <2>3. CASE EndsTurn(w)
    BY <2>3 DEF FailureOK, EndsTurn, Rests, Resting
  <2>4. QED
    BY <1>1, <2>1, <2>2, <2>3
<1>4. \A t : /\ Lists(w, t)' => Lists(w, t)
             /\ Wants(w, t)' => Wants(w, t)
             /\ Charges(w, t)' => Charges(w, t)
  <2>1. task'[w].pc \in {"record", "mark"} \cup Resting /\ task'[w].list = task[w].list
    BY <1>1 DEF Goes, Same, EndsTurn, Rests
  <2>2. task'[w].pc \notin Resting => task'[w].txn = task[w].txn
    BY <1>1 DEF Goes, Same, EndsTurn, Rests
  <2>3. QED
    BY <1>2, <2>1, <2>2 DEF Lists, Wants, Asks, Charges, Charging, Resting
<1>5. \A t \in Rows : (Live(t)' <=> Live(t)) /\ (Unlinked(t)' => Unlinked(t) \/ Charges(w, t))
  <2>1. ASSUME NEW t \in Rows, t # task[w].txn PROVE Unlinked(t)' => Unlinked(t)
    BY <1>1, <1>2, <2>1 DEF Unlinked, Refused, HeldWrite
  <2>2. Charges(w, task[w].txn)
    BY <1>2 DEF Charges, Charging
  <2>3. QED
    BY <1>2, <2>1, <2>2 DEF Live
<1>6. NotLive'
  <2>1. \A v \in Workers : FailureOK(v)'
    BY <1>2, <1>3, FailuresFrame
  <2>2. LiveUnwanted'
    BY <1>1, <1>2, <1>4, <1>5, UnwantedFrame
  <2>3. QED
    BY <2>1, <2>2 DEF NotLive
<1>7. ASSUME NEW e PROVE Fewer(e)
  <2>1. \A t \in RowsOf(e) : \/ txn'[t].eligible \/ Unlinked(t)' \/ Live(t)'
                             \/ (w \in Retriers /\ Lists(w, t)') \/ Charges(w, t)'
                             => Live(t) \/ Owed(t)
    BY <1>1, <1>4, <1>5 DEF RowsOf, Owed
  <2>2. Claims(e)' \subseteq Claims(e)
    BY <1>1, <1>2, <2>1, MoveClaims
  <2>3. w \in Collectors => task'[w].pc \in Paying /\ task'[w].txn = task[w].txn
    BY <1>1 DEF Goes, Same, Paying
  <2>4. Old(e)' \subseteq Old(e)
    BY <1>2, <2>2, <2>3, MoveOld
  <2>5. QED
    BY <2>2, <2>4, FewerClaims
<1>8. ASSUME NEW e \in Enrollments, w \in Collectors
      PROVE  Calm(w, e) /\ (Involved(w, e)' => Involved(w, e))
  BY <1>1, <1>2, <1>8 DEF Calm, Listed, Looks, Pays, Paying, Involved, Goes, Same
<1>9. InvolvedOnce' /\ Slots'
  BY <1>2, <1>7, <1>8, MoveSlots DEF TypeInv
<1>10. QED
  BY <1>6, <1>9

LEMMA MarkKeepsCharges ==
    ASSUME ChargeInv, TypeInv', NEW w \in Workers, MarkForRetry(w)
    PROVE  NotLive' /\ InvolvedOnce' /\ Slots'
<1>1. PICK t : t = task[w].txn
  OBVIOUS
<1>2. /\ HeldWrite(w) /\ RowsKept /\ KnownKept /\ Rows' = Rows /\ Rows \subseteq Txns
      /\ EndsTurn(w) /\ task[w].pc = "mark"
      /\ TypeInv /\ FailureOK(w) /\ RefsOK(w)
      /\ \A u \in Txns \ {t} : txn'[u] = txn[u]
      /\ \A u \in Rows : txn'[u].of = txn[u].of
  BY <1>1, MarkShape DEF HeldWrite, RowsKept, Rows, ChargeInv, RetryInv, NotLive, TypeInv, TasksOK
<1>3. /\ UNCHANGED <<stripe, today, enr, paid, doubtful>> /\ Moves(w) /\ Rests(w)
      /\ task'[w].list = task[w].list /\ task'[w].pc \in Resting /\ FailureOK(w)'
  BY <1>2 DEF MarkForRetry, EndsTurn, Rests, FailureOK, Resting
<1>4. t \in Rows /\ Charges(w, t)
  BY <1>1, <1>2 DEF RefsOK, Charges, Charging, Holding
<1>5. Sure(t) => ~Live(t)
  BY <1>1, <1>2, <1>4 DEF FailureOK, Sure, Live, RefsOK, Charging, Holding
<1>6. NotLive'
  <2>1. \A v \in Workers : FailureOK(v)'
    BY <1>3, FailuresFrame
  <2>2. \A u \in Rows : Sure(u)' => Sure(u)
    BY <1>2, <1>3 DEF Sure, RowsKept
  <2>3. \A u \in Rows : Live(u)' => Live(u)
    BY <1>3 DEF Live
  <2>4. \A u : Wants(w, u)' => Wants(w, u)
    BY <1>3 DEF Wants, Asks, Resting
  <2>5. LiveUnwanted'
    BY <1>2, <1>3, <1>5, <2>2, <2>3, <2>4, UnwantedFrame
  <2>6. QED
    BY <2>1, <2>5 DEF NotLive
<1>7. ASSUME NEW e PROVE Fewer(e)
  <2>1. \A u \in RowsOf(e) : txn'[u].eligible => Live(u) \/ Owed(u)
    BY <1>2, <1>4 DEF RowsOf, Owed
  <2>2. task[w].pc \notin Paying
    BY <1>2 DEF Paying
  <2>3. QED
    BY <1>2, <1>3, <2>1, <2>2, RestFewer
<1>8. ASSUME NEW e \in Enrollments
      PROVE  Calm(w, e) /\ (Involved(w, e)' => Involved(w, e))
  BY <1>2, RestIsCalm, NoneAssumption DEF EndsTurn, Rests, Involved, Listed
<1>9. InvolvedOnce' /\ Slots'
  BY <1>3, <1>7, <1>8, MoveSlots DEF TypeInv
<1>10. QED
  BY <1>6, <1>9

\* With a charge a month, the next date is in the month after the collection's.
LEMMA AdvanceKeepsCharges ==
    ASSUME ChargeInv, TypeInv', NEW w \in Workers, AdvanceNextDate(w), Every = 1
    PROVE  NotLive' /\ InvolvedOnce' /\ Slots'
<1>1. /\ HeldWrite(w) /\ RowsKept /\ Rows' = Rows
      /\ \/ Goes(w, "mark") /\ Failed(w) /\ Failed(w)'
         \/ EndsTurn(w) /\ ~Failed(w)
      /\ TypeInv /\ FailureOK(w) /\ RefsOK(w) /\ KindOK(w) /\ enr \in [Enrollments -> Enrollment]
  BY AdvanceShape DEF HeldWrite, RowsKept, ChargeInv, RetryInv, NotLive, TypeInv, TasksOK, TypeOK
<1>2. /\ UNCHANGED <<txn, stripe, today, paid, doubtful>> /\ task[w].pc = "advance"
      /\ Moves(w) /\ w \in Collectors /\ w \notin Retriers
      /\ enr' = [enr EXCEPT ![task[w].enr].next = AdvanceDate(task[w].day)]
  BY <1>1, WorkersAssumption DEF AdvanceNextDate, At, Goes, EndsTurn, Rests, KindOK
<1>3. /\ task'[w].pc \in Resting \cup {"mark"} /\ task'[w].list = task[w].list
      /\ task'[w].due = task[w].due /\ task'[w].day = task[w].day
      /\ (task'[w].pc \notin Resting => task'[w].txn = task[w].txn /\ task'[w].enr = task[w].enr)
      /\ (task'[w].pc \in Resting => task'[w].enr = NoEnrollment)
  BY <1>1 DEF Goes, Same, EndsTurn, Rests, Resting
<1>4. FailureOK(w)'
  BY <1>1, <1>2, <1>3 DEF FailureOK, Resting, Goes, EndsTurn, Rests
<1>5. \A t : Charges(w, t)' => Charges(w, t)
  BY <1>2, <1>3 DEF Charges, Charging, Resting
<1>6. \A t \in Rows : (Live(t)' <=> Live(t)) /\ (Unlinked(t)' => Unlinked(t))
  BY <1>1, <1>2 DEF Live, Unlinked, Refused
<1>7. NotLive'
  <2>1. \A v \in Workers : FailureOK(v)'
    BY <1>2, <1>4, FailuresFrame
  <2>2. LiveUnwanted'
    BY <1>1, <1>2, <1>6, UnwantedFrame
  <2>3. QED
    BY <2>1, <2>2 DEF NotLive
<1>8. ASSUME NEW e PROVE Claims(e)' \subseteq Claims(e)
  <2>1. \A t \in RowsOf(e) : \/ txn'[t].eligible \/ Unlinked(t)' \/ Live(t)'
                             \/ (w \in Retriers /\ Lists(w, t)') \/ Charges(w, t)'
                             => Live(t) \/ Owed(t)
    BY <1>2, <1>5, <1>6 DEF RowsOf, Owed
  <2>2. QED
    BY <1>1, <1>2, <2>1, MoveClaims
<1>9. InvolvedOnce'
  <2>1. \A e \in Enrollments : Involved(w, e)' => Involved(w, e)
    BY <1>3, NoneAssumption DEF Involved, Listed
  <2>2. QED
    BY <1>2, <2>1, InvolvedFrame
<1>10. ASSUME NEW e \in Enrollments \ doubtful PROVE SlotOK(e)'
  <2>1. CASE e = task[w].enr
    <3>1. task[w].day \in Nat \ {0}
      BY <1>1 DEF TypeInv, TypeOK, Task, Days
    <3>2. DueIn(Month(task[w].day) + 1) \in Nat
      BY <3>1, MonthIsNat, DueIsNat
    <3>3. enr'[e].next = DueIn(Month(task[w].day) + 1)
      BY <1>1, <1>2, <2>1 DEF AdvanceDate, Enrollment
    <3>4. Pays(w, e)
      BY <1>2, <2>1 DEF Pays, Paying
    <3>5. DueIn(Month(task[w].day) + 1) <= enr'[e].next
      BY <3>2, <3>3
    <3>6. /\ Claims(e)' \subseteq Claims(e) /\ TypeOK' /\ paid \subseteq paid'
          /\ task'[w].due \subseteq task[w].due
      BY <1>2, <1>3, <1>8 DEF TypeInv
    <3>7. QED
      BY <1>2, <1>3, <1>10, <3>4, <3>5, <3>6, LastSlot
  <2>2. CASE e # task[w].enr
    <3>1. task[w].txn \notin Claims(e)'
      BY <1>1, <1>2, <2>2 DEF RefsOK, Holding, Charging, Claims, RowsOf, RowsKept
    <3>2. Old(e)' \subseteq Old(e)
      BY <1>2, <1>8, <3>1, MoveOld
    <3>3. Fewer(e)
      BY <1>8, <3>2, FewerClaims
    <3>4. enr'[e].next = enr[e].next
      BY <1>1, <1>2, <2>2
    <3>5. Calm(w, e)
      BY <1>2, <1>3, <2>2 DEF Calm, Listed, Looks, Pays, Paying, Resting
    <3>6. QED
      BY <1>2, <3>3, <3>4, <3>5, MoveSlot DEF TypeInv
  <2>3. QED
    BY <2>1, <2>2
<1>11. QED
  BY <1>2, <1>7, <1>9, <1>10 DEF Slots


LEMMA FaultKeepsCharges ==
    ASSUME ChargeInv, TypeInv', NEW w \in Workers, Throw(w) \/ Die(w)
    PROVE  NotLive' /\ InvolvedOnce' /\ Slots'
<1>1. /\ UNCHANGED <<today, enr, txn, stripe, paid>> /\ CutShort(w) /\ TypeInv
      /\ EndsTurn(w) \/ (Rests(w) /\ task'[w].pc = "idle")
      /\ RefsOK(w) /\ HeldOK(w) /\ FailureOK(w) /\ KindOK(w)
  BY FaultShape DEF ChargeInv, RetryInv, TypeInv, TasksOK, NotLive
<1>2. /\ Rests(w) /\ Moves(w) /\ FailureOK(w)' /\ doubtful \subseteq doubtful'
      /\ task'[w].list \subseteq task[w].list /\ task'[w].due \subseteq task[w].due
      /\ task'[w].pc \in Resting /\ task'[w].enr = NoEnrollment
      /\ RowsKept /\ KnownKept /\ Rows' = Rows
  BY <1>1, NothingWritten DEF EndsTurn, Rests, CutShort, FailureOK, Resting, TypeInv, RowsKept
<1>3. \A t : /\ Lists(w, t)' => Lists(w, t)
             /\ Wants(w, t)' => Wants(w, t)
             /\ ~Charges(w, t)'
  BY <1>2 DEF Lists, Wants, Asks, Charges, Charging, Resting
<1>4. ASSUME NEW e \in Enrollments
      PROVE  Calm(w, e) /\ (Involved(w, e)' => Involved(w, e))
  BY <1>1, <1>2, NoneAssumption
     DEF Calm, EndsTurn, Rests, Involved, Listed, Looks, Pays, Paying, Resting
<1>5. CASE w \notin Collectors \/ task[w].pc \notin Paying
  BY <1>1, <1>2, <1>3, <1>4, <1>5, QuietStep
<1>6. CASE w \in Collectors /\ task[w].pc \in Paying
  <2>1. NotLive'
    <3>1. \A v \in Workers : FailureOK(v)'
      BY <1>1, <1>2, FailuresFrame
    <3>2. \A t \in Rows : Live(t)' => Live(t)
      BY <1>1 DEF Live
    <3>3. LiveUnwanted'
      BY <1>1, <1>2, <1>3, <3>2, UnwantedFrame
    <3>4. QED
      BY <3>1, <3>3 DEF NotLive
  <2>2. InvolvedOnce'
    BY <1>2, <1>4, InvolvedFrame
  <2>3. ASSUME NEW e \in Enrollments \ doubtful' PROVE SlotOK(e)'
    <3>1. \A u \in Rows : txn'[u].of = txn[u].of
      BY <1>1
    <3>2. \A u \in RowsOf(e) : txn'[u].eligible => Live(u) \/ Owed(u)
      BY <1>1 DEF Owed
    <3>3. CASE task[w].txn \notin Claims(e)'
      <4>1. Fewer(e)
        BY <1>1, <1>2, <3>1, <3>2, <3>3, RestFewer
      <4>2. QED
        BY <1>1, <1>2, <1>4, <4>1, MoveSlot DEF TypeInv
    <3>4. CASE task[w].txn \in Claims(e)'
      <4>1. e = task[w].enr
        BY <1>1, <1>2, <1>6, <3>4 DEF Claims, RowsOf, RefsOK, Holding, Charging, Paying
      <4>2. stripe[task[w].txn] # "none" \/ task[w].pc \in {"record", "advance"}
        <5>1. SUFFICES ASSUME stripe[task[w].txn] = "none", task[w].pc \in {"charge", "answer"}
                       PROVE  FALSE
          BY <1>6 DEF Paying
        <5>2. /\ ~txn'[task[w].txn].eligible /\ ~txn'[task[w].txn].known
              /\ stripe'[task[w].txn] = "none"
          BY <1>1, <1>6, <5>1 DEF HeldOK, Holding, Charging, Paying
        <5>3. QED
          BY <1>1, <1>2, <1>6, <3>4, <5>2, LetGo DEF Charging, Paying
      <4>3. task[w].pc = "advance" /\ ~Failed(w)
        BY <1>1, <1>6, <2>3, <4>1, <4>2 DEF CutShort, At, HeldOK, Holding, Charging, Paying
      <4>4. Pays(w, e) /\ <<e, Month(task[w].day)>> \in paid
        BY <1>2, <1>6, <2>3, <4>1, <4>3 DEF ChargeInv, Slots, SlotOK, Pays, Paying
      <4>5. Claims(e)' \subseteq Claims(e)
        <5>1. \A t \in RowsOf(e) : (Live(t)' => Live(t)) /\ (Unlinked(t)' => Unlinked(t))
          BY <1>1, <1>2 DEF Live, Unlinked, Refused
        <5>2. \A t \in RowsOf(e) : \/ txn'[t].eligible \/ Unlinked(t)' \/ Live(t)'
                                   \/ (w \in Retriers /\ Lists(w, t)') \/ Charges(w, t)'
                                   => Live(t) \/ Owed(t)
          BY <1>1, <1>3, <5>1 DEF Owed
        <5>3. QED
          BY <1>2, <5>2, MoveClaims
      <4>6. QED
        BY <1>1, <1>2, <1>6, <2>3, <4>4, <4>5, LastSlot DEF TypeInv
    <3>5. QED
      BY <3>3, <3>4
  <2>4. QED
    BY <2>1, <2>2, <2>3 DEF Slots
<1>7. QED
  BY <1>5, <1>6

\* Without a run row of this month, the claims of what is looked at are of
\* months before.
LEMMA CheckRunKeepsCharges ==
    ASSUME ChargeInv, TypeInv', NEW w \in Workers, CheckRun(w)
    PROVE  NotLive' /\ InvolvedOnce' /\ Slots'
<1>1. /\ TypeInv /\ TypeOK /\ w \in Collectors /\ w \notin Retriers /\ task[w].pc = "next"
      /\ UNCHANGED <<today, enr, txn, stripe, paid, doubtful>>
      /\ task[w].day \in Nat \ {0} /\ task[w].due \subseteq Enrollments
  BY WorkersAssumption DEF ChargeInv, RetryInv, TypeInv, TypeOK, CheckRun, At, Task, Days
<1>2. PICK e \in task[w].due :
             /\ Moves(w) /\ task'[w].day = task[w].day /\ task'[w].due = task[w].due \ {e}
             /\ task'[w].list = task[w].list
             /\ \/ Rests(w) /\ HasRun(e, task[w].day)
                \/ /\ ~HasRun(e, task[w].day) /\ task'[w].pc = "inflight" /\ task'[w].enr = e
                   /\ task'[w].orig = task[w].orig
  BY <1>1, RunIsChecked
<1>3. FailureOK(w)' /\ (\A t : ~Charges(w, t)') /\ task[w].pc \notin Paying
  BY <1>1, <1>2 DEF FailureOK, Charges, Charging, Rests, Resting, Paying
<1>4. ASSUME NEW x \in Enrollments
      PROVE  Involved(w, x)' => Involved(w, x)
  BY <1>2, NoneAssumption DEF Involved, Listed, Rests
<1>5. ASSUME NEW x \in Enrollments \ doubtful' PROVE Calm(w, x)
  <2>1. CASE Rests(w)
    BY <1>2, <2>1, RestIsCalm
  <2>2. CASE ~HasRun(e, task[w].day) /\ task'[w].pc = "inflight" /\ task'[w].enr = e
    <3>1. x = e => Cardinality(Claims(x)) <= Month(task[w].day)
      <4>1. SUFFICES ASSUME x = e PROVE Cardinality(Claims(e)) <= Month(task[w].day)
        OBVIOUS
      <4>2. PICK n \in Nat, a \in Nat : n = Cardinality(Claims(e)) /\ a = Month(task[w].day)
        BY <1>1, CountsAreNat, MonthIsNat
      <4>3. n <= a \/ RanFor(e, n)
        BY <1>1, <1>2, <1>5, <4>1, <4>2 DEF ChargeInv, Slots, SlotOK, Listed
      <4>4. RanFor(e, n) => n <= a
        <5>1. SUFFICES ASSUME NEW r \in paid, r[1] = e, n <= r[2] + 1 PROVE n <= a
          BY DEF RanFor
        <5>2. r[2] \in Nat
          BY <1>1 DEF TypeOK
        <5>3. ~(r[2] >= a)
          BY <2>2, <4>2, <5>1 DEF HasRun
        <5>4. QED
          BY <5>1, <5>2, <5>3
      <4>5. QED
        BY <4>2, <4>3, <4>4
    <3>2. QED
      BY <1>2, <2>2, <3>1 DEF Calm, Listed, Looks, Pays, Paying
  <2>3. QED
    BY <1>2, <2>1, <2>2
<1>6. QED
  BY <1>1, <1>2, <1>3, <1>4, <1>5, QuietStep


\* What a collection lists is due, and so has a month left: its claims each have
\* one before the month of the next date, which has come.
LEMMA StartCollectingKeepsCharges ==
    ASSUME ChargeInv, TypeInv', NEW c \in Collectors, StartCollecting(c)
    PROVE  NotLive' /\ InvolvedOnce' /\ Slots'
<1>1. /\ TypeInv /\ TypeOK /\ c \in Workers /\ c \notin Retriers /\ task[c].pc = "idle"
      /\ UNCHANGED <<today, enr, txn, stripe, paid>> /\ doubtful \subseteq doubtful'
      /\ today \in Nat \ {0} /\ RowsKept /\ Rows' = Rows
  BY WorkersAssumption, NothingWritten
     DEF ChargeInv, RetryInv, TypeInv, TypeOK, StartCollecting, At, Workers, Days, RowsKept
<1>2. /\ Moves(c) /\ task'[c].pc = "next" /\ task'[c].day = today /\ task'[c].due = Due
      /\ task'[c].enr = NoEnrollment
  BY <1>1, CollectingStarts
<1>3. ASSUME NEW e \in Due \ doubtful', NEW b \in Collectors \ {c}
      PROVE  ~Involved(b, e)
  BY <1>3 DEF StartCollecting, Involved, Listed
<1>4. Due \subseteq Enrollments
  BY DEF Due
<1>5. FailureOK(c)' /\ (\A t : ~Charges(c, t)') /\ task[c].pc \notin Paying
  BY <1>1, <1>2 DEF FailureOK, Charges, Charging, Paying
<1>6. NotLive'
  <2>1. \A v \in Workers : FailureOK(v)'
    BY <1>1, <1>2, <1>5, FailuresFrame
  <2>2. \A t \in Rows : Live(t)' => Live(t)
    BY <1>1 DEF Live
  <2>3. LiveUnwanted'
    BY <1>1, <1>2, <2>2, UnwantedFrame
  <2>4. QED
    BY <2>1, <2>3 DEF NotLive
<1>7. InvolvedOnce'
  <2>1. \A b \in Collectors \ {c} : task'[b] = task[b]
    BY <1>2 DEF Moves, Workers
  <2>2. \A b \in Collectors \ {c} : \A e : Involved(b, e)' => Involved(b, e)
    BY <2>1 DEF Involved, Listed
  <2>3. \A e \in Enrollments : Involved(c, e)' => e \in Due
    BY <1>2, NoneAssumption DEF Involved, Listed
  <2>4. SUFFICES ASSUME NEW e \in Enrollments \ doubtful', NEW a \in Collectors,
                        NEW b \in Collectors, Involved(a, e)', Involved(b, e)'
                 PROVE  a = b
    BY DEF InvolvedOnce
  <2>5. CASE a = c \/ b = c
    BY <1>3, <2>2, <2>3, <2>4, <2>5
  <2>6. CASE a # c /\ b # c
    BY <1>1, <2>2, <2>4, <2>6 DEF ChargeInv, InvolvedOnce
  <2>7. QED
    BY <2>5, <2>6
<1>8. ASSUME NEW e PROVE Fewer(e)
  <2>1. \A t \in RowsOf(e) : (Live(t)' => Live(t)) /\ (Unlinked(t)' => Unlinked(t))
    BY <1>1 DEF Live, Unlinked, Refused
  <2>2. \A t \in RowsOf(e) : \/ txn'[t].eligible \/ Unlinked(t)' \/ Live(t)'
                             \/ (c \in Retriers /\ Lists(c, t)') \/ Charges(c, t)'
                             => Live(t) \/ Owed(t)
    BY <1>1, <1>5, <2>1 DEF Owed
  <2>3. Claims(e)' \subseteq Claims(e)
    BY <1>1, <1>2, <2>2, MoveClaims
  <2>4. Old(e)' \subseteq Old(e)
    BY <1>1, <1>2, <1>5, <2>3, MoveOld
  <2>5. QED
    BY <2>3, <2>4, FewerClaims
<1>9. ASSUME NEW e \in Enrollments \ doubtful', e \in Due
      PROVE  \/ Cardinality(Claims(e)) <= Month(today)
             \/ RanFor(e, Cardinality(Claims(e)))
  <2>1. Old(e) = Claims(e)
    <3>1. SUFFICES ASSUME NEW t \in Claims(e), NEW b \in Collectors, task[b].pc \in Paying,
                          task[b].txn = t
                   PROVE  FALSE
      BY DEF Old, Current
    <3>2. task[b].enr = e
      BY <1>1, <3>1 DEF TypeInv, TasksOK, RefsOK, Workers, Claims, RowsOf, Paying, Holding, Charging
    <3>3. b # c
      BY <1>1, <3>1 DEF Paying
    <3>4. QED
      BY <1>3, <1>9, <3>2, <3>3 DEF Involved
  <2>2. PICK n \in Nat : n = Cardinality(Claims(e))
    BY CountsAreNat
  <2>3. DueIn(n) <= enr[e].next \/ RanFor(e, n)
    BY <1>1, <1>9, <2>1, <2>2 DEF ChargeInv, Slots, SlotOK
  <2>4. enr[e].next <= today /\ enr[e].next \in Nat /\ DueIn(n) \in Nat
    BY <1>1, <1>9, DueIsNat DEF Due, TypeOK, Enrollment
  <2>5. DueIn(n) <= enr[e].next => n <= Month(today)
    BY <1>1, <2>4, DueHasCome
  <2>6. QED
    BY <2>2, <2>3, <2>5
<1>10. ASSUME NEW e \in Enrollments \ doubtful' PROVE SlotOK(e)'
  <2>1. Calm(c, e)
    BY <1>2, <1>9, <1>10, NoneAssumption DEF Calm, Listed, Looks, Pays, Paying
  <2>2. QED
    BY <1>1, <1>2, <1>8, <1>10, <2>1, MoveSlot DEF TypeInv
<1>11. QED
  BY <1>6, <1>7, <1>10 DEF Slots

\* What is charged was claimed, by the worker that charges it.
LEMMA ChargeKeepsCharges ==
    ASSUME ChargeInv, TypeInv', NEW w \in Workers, Charge(w)
    PROVE  NotLive' /\ InvolvedOnce' /\ Slots'
<1>1. PICK t : t = task[w].txn
  OBVIOUS
<1>2. /\ TypeInv /\ TypeOK /\ RefsOK(w) /\ HeldOK(w) /\ task[w].pc = "charge"
      /\ UNCHANGED <<today, enr, txn, paid>>
  BY DEF ChargeInv, RetryInv, TypeInv, TasksOK, Charge, At
<1>3. /\ Goes(w, "answer") \/ EndsTurn(w)
      /\ \E did \in Outcomes : stripe' = [stripe EXCEPT ![t] = did]
           /\ (Goes(w, "answer") => (Failed(w)' => did = "none" \/ task[w].enr \in doubtful'))
           /\ (EndsTurn(w) => (did = "none" \/ task[w].enr \in doubtful'))
      /\ doubtful \subseteq doubtful'
  BY <1>1, <1>2, ChargeShape
<1>4. /\ t \in Rows /\ t \in Txns /\ txn[t].enr = task[w].enr /\ ~txn[t].eligible /\ ~txn[t].known
      /\ \A r \in Retriers : ~Wants(r, t)
  BY <1>1, <1>2 DEF RefsOK, HeldOK, Holding, Charging, Rows
<1>5. PICK did \in Outcomes :
           /\ stripe' = [stripe EXCEPT ![t] = did]
           /\ (Goes(w, "answer") => (Failed(w)' => did = "none" \/ task[w].enr \in doubtful'))
           /\ (EndsTurn(w) => (did = "none" \/ task[w].enr \in doubtful'))
  BY <1>3
<1>6. stripe'[t] = did /\ \A u \in Rows \ {t} : stripe'[u] = stripe[u]
  BY <1>2, <1>4, <1>5 DEF TypeOK, Rows
<1>7. Moves(w) /\ RowsKept /\ Rows' = Rows
  BY <1>2, <1>3, NothingWritten DEF Goes, EndsTurn, Rests, RowsKept
<1>8. \A u : /\ Lists(w, u)' => Lists(w, u)
             /\ Wants(w, u)' => Wants(w, u)
             /\ Charges(w, u)' => u = t
  BY <1>1, <1>3 DEF Goes, Same, EndsTurn, Rests, Resting, Lists, Wants, Asks, Charges, Charging
<1>9. NotLive'
  <2>1. FailureOK(w)'
    <3>1. CASE EndsTurn(w)
      BY <3>1 DEF FailureOK, EndsTurn, Rests, Resting
    <3>2. CASE Goes(w, "answer")
      BY <1>1, <1>5, <1>6, <3>2 DEF FailureOK, Goes, Same
    <3>3. QED
      BY <1>3, <3>1, <3>2
  <2>2. \A v \in Workers \ {w} : task[v].pc \in Holding =>
           task[v].txn \in Rows /\ task[v].txn # t
    BY <1>1, <1>2, NotMine DEF Holding, Charging, TypeInv, TasksOK, RefsOK
  <2>3. \A v \in Workers : FailureOK(v)'
    BY <1>3, <1>6, <1>7, <2>1, <2>2, FailuresFrame
  <2>4. LiveUnwanted'
    <3>1. SUFFICES ASSUME NEW u \in Rows, Sure(u)', Live(u)'
                   PROVE  ~txn[u].eligible /\ \A r \in Retriers : ~Wants(r, u)'
      BY <1>2, <1>7 DEF LiveUnwanted
    <3>2. \A r \in Retriers : Wants(r, u)' => Wants(r, u)
      BY <1>7, <1>8 DEF Moves, Wants, Asks, Workers
    <3>3. CASE u = t
      BY <1>4, <3>2, <3>3
    <3>4. CASE u # t
      <4>1. Sure(u) /\ Live(u)
        BY <1>2, <1>3, <1>6, <3>1, <3>4 DEF Sure, Live
      <4>2. QED
        BY <3>2, <4>1 DEF ChargeInv, NotLive, LiveUnwanted
    <3>5. QED
      BY <3>3, <3>4
  <2>5. QED
    BY <2>3, <2>4 DEF NotLive
<1>10. ASSUME NEW e \in Enrollments \ doubtful' PROVE Fewer(e)
  <2>1. ASSUME NEW u \in RowsOf(e),
               \/ txn'[u].eligible \/ Unlinked(u)' \/ Live(u)'
               \/ (w \in Retriers /\ Lists(w, u)') \/ Charges(w, u)'
        PROVE  Live(u) \/ Owed(u)
    <3>1. CASE u = t
      BY <1>1, <1>2, <3>1 DEF Owed, Charges, Charging
    <3>2. CASE u # t
      <4>1. u \in Rows \ {t}
        BY <3>2 DEF RowsOf
      <4>2. (Live(u)' => Live(u)) /\ (Unlinked(u)' => Unlinked(u))
        BY <1>2, <1>6, <1>7, <4>1 DEF Live, Unlinked, Refused
      <4>3. QED
        BY <1>2, <1>8, <2>1, <3>2, <4>2 DEF Owed
    <3>3. QED
      BY <3>1, <3>2
  <2>2. Claims(e)' \subseteq Claims(e)
    BY <1>7, <2>1, MoveClaims
  <2>3. \/ task'[w].pc \in Paying /\ task'[w].txn = task[w].txn
        \/ task[w].txn \notin Claims(e)'
    <3>1. CASE Goes(w, "answer")
      BY <3>1 DEF Goes, Same, Paying
    <3>2. CASE EndsTurn(w) /\ e # task[w].enr
      BY <1>1, <1>2, <1>4, <1>7, <3>2 DEF Claims, RowsOf
    <3>3. CASE EndsTurn(w) /\ e = task[w].enr
      <4>1. /\ stripe'[task[w].txn] = "none" /\ ~txn'[task[w].txn].eligible
            /\ ~txn'[task[w].txn].known
        BY <1>1, <1>2, <1>4, <1>5, <1>6, <1>10, <3>3
      <4>2. QED
        BY <1>2, <3>3, <4>1, LetGo DEF EndsTurn, Charging
    <3>4. QED
      BY <1>3, <3>1, <3>2, <3>3
  <2>4. Old(e)' \subseteq Old(e)
    BY <1>7, <2>2, <2>3, MoveOld
  <2>5. QED
    BY <2>2, <2>4, FewerClaims
<1>11. ASSUME NEW e \in Enrollments
       PROVE  Calm(w, e) /\ (Involved(w, e)' => Involved(w, e))
  <2>1. CASE Goes(w, "answer")
    BY <1>2, <2>1 DEF Calm, Listed, Looks, Pays, Paying, Involved, Goes, Same
  <2>2. CASE EndsTurn(w)
    BY <2>2, RestIsCalm, NoneAssumption DEF EndsTurn, Rests, Involved, Listed
  <2>3. QED
    BY <1>3, <2>1, <2>2
<1>12. InvolvedOnce' /\ Slots'
  BY <1>2, <1>3, <1>7, <1>10, <1>11, MoveSlots DEF TypeInv
<1>13. QED
  BY <1>9, <1>12


\* A link leaves less that is without a retry.
LEMMA LinkKeepsCharges ==
    ASSUME ChargeInv, TypeInv', NEW w \in Workers, LinkRetry(w)
    PROVE  NotLive' /\ InvolvedOnce' /\ Slots'
<1>1. PICK t : t = task[w].txn
  OBVIOUS
<1>2. /\ w \in Retriers /\ w \notin Collectors /\ task[w].pc = "link" /\ Goes(w, "spend")
      /\ RowsKept /\ KnownKept /\ t \in Rows /\ HeldOK(w) /\ TypeInv
      /\ \A u \in Txns \ {t} : txn'[u] = txn[u]
      /\ \A u \in Txns : txn'[u].eligible = txn[u].eligible
  BY <1>1, LinkShape, WorkersAssumption DEF ChargeInv, RetryInv, TypeInv, TasksOK
<1>3. /\ UNCHANGED <<today, enr, stripe, paid, doubtful>> /\ Moves(w) /\ Rows' = Rows
      /\ Rows \subseteq Txns /\ FailureOK(w)' /\ 0 \notin Txns
  <2>1. UNCHANGED <<today, enr, stripe, paid, doubtful>>
    BY DEF LinkRetry
  <2>2. Moves(w) /\ FailureOK(w)'
    BY <1>2 DEF Goes, FailureOK
  <2>3. Rows' = Rows /\ Rows \subseteq Txns /\ 0 \notin Txns
    BY <1>2 DEF RowsKept, Rows, Txns
  <2>4. QED
    BY <2>1, <2>2, <2>3
<1>4. txn[t].of = 0
  BY <1>1, <1>2 DEF HeldOK, Holding
<1>5. \A u : /\ Lists(w, u)' => Lists(w, u)
             /\ Wants(w, u)' => Wants(w, u)
             /\ ~Charges(w, u)'
  BY <1>2 DEF Goes, Same, Lists, Wants, Asks, Charges, Charging
<1>6. \A u \in Rows : (Live(u)' => Live(u)) /\ (Unlinked(u)' => Unlinked(u))
  <2>1. \A u \in Rows : (stripe'[u] = "failed" \/ Refused(u)') => (stripe[u] = "failed" \/ Refused(u))
    BY <1>2, <1>3 DEF Refused, KnownKept, Rows
  <2>2. \A u \in Rows : (\A v \in Rows : txn'[v].of # u) => (\A v \in Rows : txn[v].of # u)
    BY <1>2, <1>3, <1>4
  <2>3. \A u \in Rows : Unlinked(u)' => Unlinked(u)
    BY <1>3, <2>1, <2>2 DEF Unlinked
  <2>4. QED
    BY <1>3, <2>3 DEF Live
<1>7. NotLive'
  <2>1. \A v \in Workers : FailureOK(v)'
    BY <1>3, FailuresFrame
  <2>2. LiveUnwanted'
    BY <1>2, <1>3, <1>5, <1>6, UnwantedFrame
  <2>3. QED
    BY <2>1, <2>2 DEF NotLive
<1>8. ASSUME NEW e PROVE Fewer(e)
  <2>1. \A u \in RowsOf(e) : \/ txn'[u].eligible \/ Unlinked(u)' \/ Live(u)'
                             \/ (w \in Retriers /\ Lists(w, u)') \/ Charges(w, u)'
                             => Live(u) \/ Owed(u)
    BY <1>2, <1>3, <1>5, <1>6 DEF Owed, RowsOf
  <2>2. Claims(e)' \subseteq Claims(e)
    BY <1>2, <1>3, <2>1, MoveClaims
  <2>3. Old(e)' \subseteq Old(e)
    BY <1>2, <1>3, <2>2, MoveOld
  <2>4. QED
    BY <2>2, <2>3, FewerClaims
<1>9. InvolvedOnce' /\ Slots'
  BY <1>2, <1>3, <1>8, MoveSlots DEF TypeInv
<1>10. QED
  BY <1>7, <1>9

\* The retry takes the place of the payment it is made for.
LEMMA SpendKeepsCharges ==
    ASSUME ChargeInv, TypeInv', NEW w \in Workers, Spend(w)
    PROVE  NotLive' /\ InvolvedOnce' /\ Slots'
<1>1. PICK o, t : o = task[w].orig /\ t = task[w].txn
  OBVIOUS
<1>2. /\ w \in Retriers /\ w \notin Collectors /\ RowsKept /\ KnownKept /\ o \in Rows
      /\ \/ task[w].pc = "spend" /\ Goes(w, "charge")
         \/ task[w].pc = "drop" /\ EndsTurn(w)
      /\ ~txn'[o].eligible
      /\ \A u \in Txns \ {o} : txn'[u] = txn[u]
      /\ \A u \in Txns : txn'[u].of = txn[u].of
      /\ TypeInv /\ HeldOK(w) /\ RefsOK(w)
  BY <1>1, SpendShape, WorkersAssumption DEF ChargeInv, RetryInv, TypeInv, TasksOK
<1>3. /\ UNCHANGED <<today, enr, stripe, paid, doubtful>> /\ Moves(w) /\ Rows' = Rows
      /\ Rows \subseteq Txns /\ FailureOK(w)'
  BY <1>2 DEF Spend, Goes, EndsTurn, Rests, Resting, RowsKept, Rows, FailureOK
<1>4. /\ \A u \in Rows : txn'[u].eligible => txn[u].eligible
      /\ \A u \in Rows : (Live(u)' => Live(u)) /\ (Unlinked(u)' => Unlinked(u))
  BY <1>2, <1>3, StillUnlinked DEF Live
<1>5. \A u : Wants(w, u)' => Wants(w, u)
  BY <1>2 DEF Wants, Asks, Goes, Same, EndsTurn, Rests, Resting
<1>6. NotLive'
  <2>1. \A v \in Workers : FailureOK(v)'
    BY <1>3, FailuresFrame
  <2>2. LiveUnwanted'
    BY <1>2, <1>3, <1>4, <1>5, UnwantedFrame
  <2>3. QED
    BY <2>1, <2>2 DEF NotLive
<1>7. CASE task[w].pc = "drop" /\ EndsTurn(w)
  <2>1. \A e : Fewer(e)
    <3>1. /\ Rests(w) /\ task'[w].list \subseteq task[w].list
          /\ \A u \in Rows : txn'[u].of = txn[u].of
      BY <1>2, <1>3, <1>7 DEF EndsTurn
    <3>2. ASSUME NEW e PROVE \A u \in RowsOf(e) : txn'[u].eligible => Live(u) \/ Owed(u)
      BY <1>4 DEF RowsOf, Owed
    <3>3. QED
      BY <1>2, <1>3, <3>1, <3>2, RestFewer
  <2>2. QED
    BY <1>2, <1>3, <1>6, <2>1, MoveSlots DEF TypeInv
<1>8. CASE task[w].pc = "spend" /\ Goes(w, "charge")
  <2>1. /\ t \in Rows /\ t # o /\ txn[t].enr = task[w].enr /\ txn[o].enr = task[w].enr
        /\ txn[t].of = o /\ Wants(w, o) /\ Lists(w, o) /\ o \notin task[w].list
    BY <1>1, <1>2, <1>8
       DEF RefsOK, HeldOK, Holding, Charging, Resting, Wants, Asks, Lists
  <2>2. \A u : /\ Lists(w, u)' => Lists(w, u) /\ u # o
               /\ Charges(w, u)' => u = t
    BY <1>1, <1>8, <2>1 DEF Goes, Same, Lists, Charges, Charging
  <2>3. ASSUME NEW e \in Enrollments \ doubtful, e # task[w].enr PROVE Fewer(e)
    <3>1. \A u \in RowsOf(e) : \/ txn'[u].eligible \/ Unlinked(u)' \/ Live(u)'
                               \/ (w \in Retriers /\ Lists(w, u)') \/ Charges(w, u)'
                               => Live(u) \/ Owed(u)
      BY <1>2, <1>4, <2>1, <2>2, <2>3 DEF RowsOf, Owed
    <3>2. Claims(e)' \subseteq Claims(e)
      BY <1>2, <1>3, <3>1, MoveClaims
    <3>3. Old(e)' \subseteq Old(e)
      BY <1>2, <1>3, <3>2, MoveOld
    <3>4. QED
      BY <3>2, <3>3, FewerClaims
  <2>4. ASSUME NEW e \in Enrollments \ doubtful, e = task[w].enr PROVE Fewer(e)
    <3>1. Sure(o) /\ ~Live(o)
      BY <1>2, <2>1, <2>4 DEF Sure, ChargeInv, NotLive, LiveUnwanted
    <3>2. \A r \in Retriers \ {w} : ~Lists(r, o)'
      <4>1. \A r \in Retriers \ {w} : ~Wants(r, o)
        BY <1>2, <2>1, <3>1 DEF ChargeInv, RetryInv, WantedOnce
      <4>2. QED
        BY <1>3, <4>1 DEF Lists, Wants, Asks, Moves, Workers
    <3>3. \A v \in Workers \ {w} : ~Charges(v, o)
      <4>1. \A v \in Workers : HeldOK(v)
        BY <1>2 DEF TypeInv, TasksOK
      <4>2. QED
        BY <1>2, <2>1, <4>1 DEF HeldOK, Charges, Holding
    <3>4. \A v \in Workers : ~Charges(v, o)'
      BY <1>3, <2>1, <2>2, <3>3 DEF Charges, Moves
    <3>5. ~Live(o)' /\ ~Unlinked(o)' /\ ~txn'[o].eligible
      BY <1>2, <1>3, <1>4, <2>1, <3>1 DEF Unlinked
    <3>6. o \notin Claims(e)'
      BY <1>2, <2>2, <3>2, <3>4, <3>5 DEF Claims, Owed
    <3>7. ASSUME NEW u \in Claims(e)', u # t PROVE u \in Claims(e)
      <4>1. u \in RowsOf(e) /\ u \in Rows /\ (Live(u)' \/ Owed(u)')
        BY <1>2, <1>3, <3>7 DEF Claims, RowsOf, RowsKept
      <4>2. ASSUME NEW r \in Retriers, Lists(r, u)' PROVE Lists(r, u)
        BY <1>3, <2>2, <4>2 DEF Lists, Moves, Workers
      <4>3. ASSUME NEW v \in Workers, Charges(v, u)' PROVE Charges(v, u)
        BY <1>3, <2>2, <3>7, <4>3 DEF Charges, Moves
      <4>4. QED
        BY <1>4, <4>1, <4>2, <4>3 DEF Claims, Owed
    <3>8. Claims(e)' \subseteq (Claims(e) \ {o}) \cup {t}
      BY <3>6, <3>7
    <3>9. \A u : Current(u) => Current(u)'
      BY <1>2, <1>3 DEF Current, Moves, Workers
    <3>10. Old(e)' \subseteq (Old(e) \ {o}) \cup {t}
      BY <3>8, <3>9 DEF Old
    <3>11. o \in Claims(e)
      BY <1>2, <2>1, <2>4 DEF Claims, Owed, RowsOf
    <3>12. o \in Old(e)
      <4>1. \A c \in Collectors : ~Charges(c, o)
        BY <1>2, <3>3 DEF Workers
      <4>2. QED
        BY <3>11, <4>1 DEF Old, Current, Charges, Charging, Paying
    <3>13. PICK S, T, V, W : S = Claims(e) /\ T = Claims(e)' /\ V = Old(e) /\ W = Old(e)'
      OBVIOUS
    <3>14. Cardinality(T) <= Cardinality(S)
      BY <3>8, <3>11, <3>13, CountsAreNat, OneForAnother
    <3>15. V \subseteq Txns
      BY <3>13, CountsAreNat
    <3>16. Cardinality(W) <= Cardinality(V)
      BY <3>10, <3>12, <3>13, <3>15, OneForAnother
    <3>17. QED
      BY <3>13, <3>14, <3>16 DEF Fewer
  <2>5. QED
    BY <1>2, <1>3, <1>6, <2>3, <2>4, MoveSlots DEF TypeInv
<1>9. QED
  BY <1>2, <1>7, <1>8


\* A new row is a claim when a collection makes it, in a month of its own.
LEMMA CreateKeepsCharges ==
    ASSUME ChargeInv, TypeInv', NEW w \in Workers, CreateTxn(w)
    PROVE  NotLive' /\ InvolvedOnce' /\ Slots'
<1>1. /\ TypeInv /\ TypeOK /\ RowsOK /\ task[w].pc = "create" /\ RefsOK(w)
      /\ task[w].enr \in Enrollments /\ (\A v \in Workers : RefsOK(v))
      /\ UNCHANGED <<today, enr, stripe, paid, doubtful>>
  BY DEF CreateTxn, At, ChargeInv, RetryInv, TypeInv, TasksOK, RefsOK, Resting
<1>2. PICK t \in Txns \ Rows :
             /\ Rows' = Rows \cup {t}
             /\ \A u \in Txns \ {t} : txn'[u] = txn[u]
             /\ txn'[t].enr = task[w].enr /\ txn'[t].of = 0 /\ ~txn'[t].eligible /\ ~txn'[t].known
             /\ Moves(w) /\ task'[w].day = task[w].day /\ task'[w].due = task[w].due
             /\ task'[w].list = task[w].list /\ task'[w].enr = task[w].enr
             /\ task'[w].orig = task[w].orig /\ task'[w].txn = t
             /\ task'[w].pc = IF w \in Collectors THEN "charge" ELSE "link"
  BY <1>1, RowCreated
<1>3. /\ Rows \subseteq Txns /\ stripe[t] = "none"
      /\ \A u \in Rows : txn'[u] = txn[u]
      /\ w \in Retriers => w \notin Collectors
  BY <1>1, <1>2, WorkersAssumption DEF Rows, RowsOK, TypeOK
<1>4. \A r \in Retriers : \A u : (Wants(r, u)' => Wants(r, u)) /\ (Lists(r, u)' => Lists(r, u))
  <2>1. \A r \in Retriers \ {w} : task'[r] = task[r]
    BY <1>2 DEF Moves, Workers
  <2>2. w \in Retriers => \A u : (Wants(w, u)' => Wants(w, u)) /\ (Lists(w, u)' => Lists(w, u))
    BY <1>1, <1>2, <1>3 DEF Wants, Asks, Lists
  <2>3. QED
    BY <2>1, <2>2 DEF Wants, Asks, Lists
<1>5. \A r \in Retriers : ~Wants(r, t) /\ ~Lists(r, t)
  BY <1>1, <1>2 DEF RefsOK, Wants, Asks, Lists, Resting, Workers
<1>6. /\ \A v \in Workers : \A u : Charges(v, u)' => Charges(v, u) \/ u = t
      /\ \A v \in Workers : Charges(v, t)' => v = w /\ w \in Collectors
      /\ \A u \in Txns \ {t} : Current(u)' <=> Current(u)
      /\ w \in Collectors => Current(t)'
  <2>1. \A v \in Workers \ {w} : task'[v] = task[v] /\ (task[v].pc \in Holding => task[v].txn # t)
    BY <1>1, <1>2 DEF Moves, RefsOK
  <2>2. \A v \in Workers : \A u : Charges(v, u)' => Charges(v, u) \/ u = t
    BY <1>2, <2>1 DEF Charges
  <2>3. \A v \in Workers : Charges(v, t)' => v = w /\ w \in Collectors
    BY <1>2, <2>1 DEF Charges, Charging, Holding
  <2>4. \A u \in Txns \ {t} : Current(u)' <=> Current(u)
    BY <1>1, <1>2, <2>1 DEF Current, Paying, Workers
  <2>5. w \in Collectors => Current(t)'
    BY <1>2 DEF Current, Paying
  <2>6. QED
    BY <2>2, <2>3, <2>4, <2>5
<1>7. NotLive'
  <2>1. FailureOK(w)'
    BY <1>2 DEF FailureOK
  <2>2. \A v \in Workers : FailureOK(v)'
    BY <1>1, <1>2, <2>1, FailuresFrame
  <2>3. LiveUnwanted'
    <3>1. SUFFICES ASSUME NEW u \in Rows', Sure(u)', Live(u)'
                   PROVE  ~txn'[u].eligible /\ \A r \in Retriers : ~Wants(r, u)'
      BY DEF LiveUnwanted
    <3>2. u # t
      BY <1>1, <1>3, <3>1 DEF Live
    <3>3. u \in Rows /\ Sure(u) /\ Live(u)
      BY <1>1, <1>2, <1>3, <3>1, <3>2 DEF Sure, Live
    <3>4. QED
      BY <1>3, <1>4, <3>3 DEF ChargeInv, NotLive, LiveUnwanted
  <2>4. QED
    BY <2>2, <2>3 DEF NotLive
<1>8. InvolvedOnce'
  <2>1. \A e : Involved(w, e)' => Involved(w, e)
    BY <1>2 DEF Involved, Listed
  <2>2. QED
    BY <1>1, <1>2, <2>1, InvolvedFrame
<1>9. ASSUME NEW e, NEW u \in Claims(e)', u # t PROVE u \in Claims(e)
  <2>1. u \in RowsOf(e) /\ u \in Rows /\ (Live(u)' \/ Owed(u)')
    BY <1>2, <1>3, <1>9 DEF Claims, RowsOf
  <2>2. Unlinked(u)' => Unlinked(u)
    <3>1. (stripe'[u] = "failed" \/ Refused(u)') => (stripe[u] = "failed" \/ Refused(u))
      BY <1>1, <1>3, <2>1 DEF Refused
    <3>2. (\A v \in Rows' : txn'[v].of # u) => (\A v \in Rows : txn[v].of # u)
      BY <1>2, <1>3
    <3>3. QED
      BY <3>1, <3>2 DEF Unlinked
  <2>3. Live(u)' => Live(u)
    BY <1>1 DEF Live
  <2>4. Owed(u)' => Owed(u)
    BY <1>3, <1>4, <1>6, <1>9, <2>1, <2>2 DEF Owed
  <2>5. QED
    BY <2>1, <2>3, <2>4 DEF Claims
<1>10. ASSUME NEW e, w \notin Collectors \/ e # task[w].enr PROVE t \notin Claims(e)'
  <2>1. CASE e # task[w].enr
    BY <1>2, <2>1 DEF Claims, RowsOf
  <2>2. CASE w \notin Collectors
    <3>1. ~Live(t)' /\ ~Unlinked(t)'
      BY <1>1, <1>2, <1>3 DEF Live, Unlinked, Refused
    <3>2. QED
      BY <1>2, <1>4, <1>5, <1>6, <2>2, <3>1 DEF Claims, Owed
  <2>3. QED
    BY <1>10, <2>1, <2>2
<1>11. ASSUME NEW e PROVE Claims(e)' \subseteq Txns /\ Old(e)' \subseteq Claims(e)'
  BY CountsAreNat
<1>12. ASSUME NEW e PROVE Old(e)' \subseteq Old(e)
  <2>1. SUFFICES ASSUME NEW u \in Old(e)' PROVE u \in Old(e)
    OBVIOUS
  <2>2. u \in Claims(e)' /\ ~Current(u)' /\ u \in Txns
    BY <1>11, <2>1 DEF Old
  <2>3. CASE u = t
    BY <1>6, <1>10, <2>2, <2>3
  <2>4. CASE u # t
    BY <1>6, <1>9, <2>2, <2>4 DEF Old
  <2>5. QED
    BY <2>3, <2>4
<1>13. ASSUME NEW e \in Enrollments \ doubtful' PROVE SlotOK(e)'
  <2>1. CASE w \notin Collectors \/ e # task[w].enr
    <3>1. Claims(e)' \subseteq Claims(e)
      BY <1>9, <1>10, <2>1
    <3>2. Fewer(e)
      BY <1>12, <3>1, FewerClaims
    <3>3. w \in Collectors => Calm(w, e)
      BY <1>2, <2>1 DEF Calm, Listed, Looks, Pays
    <3>4. QED
      BY <1>1, <1>2, <1>13, <3>2, <3>3, MoveSlot DEF TypeInv
  <2>2. CASE w \in Collectors /\ e = task[w].enr
    <3>1. PICK m \in Nat, n \in Nat, o \in Nat, p \in Nat, a \in Nat, b \in Nat :
            /\ m = Cardinality(Old(e))' /\ n = Cardinality(Old(e))
            /\ o = Cardinality(Claims(e))' /\ p = Cardinality(Claims(e))
            /\ a = Month(task[w].day) /\ b = Month(today) /\ a <= b
      <4>1. /\ task[w].day \in Nat \ {0} /\ today \in Nat \ {0} /\ task[w].day <= today
        BY <1>1 DEF TypeOK, Task, Days, RefsOK
      <4>2. QED
        BY <4>1, CountsAreNat, MonthIsNat, MonthGrows
    <3>2. /\ SlotOK(e) /\ enr[e].next \in Nat /\ InvolvedOnce
          /\ Looks(w, e) /\ Involved(w, e) /\ e \notin task[w].due
      BY <1>1, <1>13, <2>2 DEF ChargeInv, Slots, TypeOK, Enrollment, Looks, Involved, RefsOK
    <3>3. p <= a
      BY <2>2, <3>1, <3>2 DEF SlotOK
    <3>4. o <= p + 1 /\ m <= n
      <4>1. Claims(e)' \subseteq Claims(e) \cup {t} /\ Claims(e) \subseteq Txns /\ Old(e) \subseteq Txns
        BY <1>9, CountsAreNat
      <4>2. PICK S, T, V, W : S = Claims(e) /\ T = Claims(e)' /\ V = Old(e) /\ W = Old(e)'
        OBVIOUS
      <4>3. Cardinality(S \cup {t}) <= Cardinality(S) + 1 /\ Cardinality(S \cup {t}) \in Nat
        BY <4>1, <4>2, OneMore
      <4>4. S \cup {t} \subseteq Txns
        BY <4>1, <4>2
      <4>5. Cardinality(T) <= Cardinality(S \cup {t})
        BY <4>1, <4>2, <4>4, CountGrows
      <4>6. Cardinality(W) <= Cardinality(V)
        BY <1>12, <4>1, <4>2, CountGrows
      <4>7. QED
        BY <3>1, <4>2, <4>3, <4>5, <4>6
    <3>5. DueIn(m) <= enr'[e].next \/ RanFor(e, m)'
      <4>1. DueIn(m) <= DueIn(n) /\ DueIn(m) \in Nat /\ DueIn(n) \in Nat
        BY <3>1, <3>4, DueGrows, DueIsNat
      <4>2. RanFor(e, n) => RanFor(e, m)'
        BY <1>1, <3>1, <3>4, RanForFewer DEF RanFor
      <4>3. DueIn(n) <= enr[e].next \/ RanFor(e, n)
        BY <3>1, <3>2 DEF SlotOK
      <4>4. QED
        BY <1>1, <3>2, <4>1, <4>2, <4>3
    <3>6. \A c \in Collectors \ {w} : ~Listed(c, e)' /\ ~Looks(c, e)' /\ ~Pays(c, e)'
      <4>1. \A c \in Collectors \ {w} : task'[c] = task[c] /\ ~Involved(c, e)
        BY <1>1, <1>2, <1>13, <2>2, <3>2 DEF InvolvedOnce, Moves, Workers
      <4>2. QED
        BY <4>1 DEF Involved, Listed, Looks, Pays
    <3>7. /\ ~Listed(w, e)' /\ ~Looks(w, e)' /\ task'[w].pc # "advance"
          /\ o <= Month(task'[w].day) + 1
      BY <1>2, <2>2, <3>1, <3>2, <3>3, <3>4 DEF Listed, Looks
    <3>8. o <= Month(today') + 1
      BY <1>1, <3>1, <3>3, <3>4
    <3>9. QED
      BY <3>1, <3>5, <3>6, <3>7, <3>8 DEF SlotOK
  <2>3. QED
    BY <2>1, <2>2
<1>14. QED
  BY <1>1, <1>7, <1>8, <1>13 DEF Slots


\* A step of no worker, after which there are no more claims.
LEMMA OutsideStep ==
    ASSUME ChargeInv, TypeInv', UNCHANGED <<task, paid>>, RowsKept, today <= today',
           doubtful \subseteq doubtful',
           \A v \in Workers : task[v].pc \in Holding /\ task[v].enr \notin doubtful'
              /\ stripe[task[v].txn] = "none" => stripe'[task[v].txn] = "none",
           \A t \in Rows : Sure(t)' /\ Live(t)' => Live(t) /\ (txn'[t].eligible => txn[t].eligible),
           \A e \in Enrollments \ doubtful' : \A t \in RowsOf(e) :
              Live(t)' \/ txn'[t].eligible \/ Unlinked(t)' => Live(t) \/ Owed(t),
           \A e \in Enrollments \ doubtful' : enr'[e].next = enr[e].next \/ SlotOK(e)'
    PROVE  NotLive' /\ InvolvedOnce' /\ Slots'
<1>1. /\ Rows' = Rows /\ \A t \in Rows : txn'[t].enr = txn[t].enr
      /\ \A r, t : (Wants(r, t)' <=> Wants(r, t)) /\ (Lists(r, t)' <=> Lists(r, t))
                   /\ (Charges(r, t)' <=> Charges(r, t))
      /\ \A t : Current(t)' <=> Current(t)
  BY DEF RowsKept, Wants, Asks, Lists, Charges, Current
<1>2. \A v \in Workers : FailureOK(v)'
  BY DEF ChargeInv, NotLive, FailureOK, Failed, Holding, Charging
<1>3. LiveUnwanted'
  <2>1. \A t \in Rows : Sure(t)' => Sure(t)
    BY <1>1 DEF Sure
  <2>2. QED
    BY <1>1, <2>1 DEF ChargeInv, NotLive, LiveUnwanted
<1>4. InvolvedOnce'
  BY DEF ChargeInv, InvolvedOnce, Involved, Listed
<1>5. ASSUME NEW e \in Enrollments \ doubtful' PROVE Fewer(e)
  <2>1. \A t \in RowsOf(e) : Owed(t)' => Live(t) \/ Owed(t)
    BY <1>1 DEF Owed
  <2>2. Claims(e)' \subseteq Claims(e)
    BY <1>1, <2>1 DEF Claims, RowsOf
  <2>3. Old(e)' \subseteq Old(e)
    BY <1>1, <2>2 DEF Old
  <2>4. QED
    BY <2>2, <2>3, FewerClaims
<1>6. ASSUME NEW e \in Enrollments \ doubtful' PROVE SlotOK(e)'
  <2>1. \A c \in Collectors : Calm(c, e)
    BY DEF Calm, Listed, Looks, Pays, Failed
  <2>2. enr'[e].next = enr[e].next => SlotOK(e)'
    BY <1>5, <2>1, SlotFrame DEF TypeInv
  <2>3. QED
    BY <2>2
<1>7. QED
  BY <1>2, <1>3, <1>4, <1>6 DEF NotLive, Slots

\* A step that leaves the payments alone, too.
LEMMA QuietOutside ==
    ASSUME ChargeInv, TypeInv', UNCHANGED <<task, paid, txn, stripe, doubtful>>, today <= today',
           \A e \in Enrollments \ doubtful : enr'[e].next = enr[e].next \/ SlotOK(e)'
    PROVE  NotLive' /\ InvolvedOnce' /\ Slots'
<1>1. RowsKept /\ Rows' = Rows
  BY NothingWritten DEF ChargeInv, RetryInv, TypeInv, RowsKept
<1>2. \A t \in Rows : (Live(t)' => Live(t)) /\ (Unlinked(t)' => Unlinked(t))
  BY <1>1 DEF Live, Unlinked, Refused
<1>3. \A e \in Enrollments \ doubtful' : \A t \in RowsOf(e) :
         Live(t)' \/ txn'[t].eligible \/ Unlinked(t)' => Live(t) \/ Owed(t)
  BY <1>2 DEF RowsOf, Owed
<1>4. QED
  BY <1>1, <1>2, <1>3, OutsideStep

\* A resumed enrollment is due next month: this month may have been paid for.
LEMMA EditKeepsCharges ==
    ASSUME ChargeInv, TypeInv', NEW e \in Enrollments, Edit(e), Monthly
    PROVE  NotLive' /\ InvolvedOnce' /\ Slots'
<1>1. /\ TypeOK /\ UNCHANGED <<today, txn, stripe, paid, task, doubtful>>
      /\ today \in Nat \ {0} /\ enr \in [Enrollments -> Enrollment]
  BY DEF ChargeInv, RetryInv, TypeInv, TypeOK, Edit, Days
<1>2. DueDay = 1
  BY <1>1, BoundsAssumption DEF Monthly, Edit, TypeOK
<1>3. PICK b \in Nat : b = Month(today)
  BY <1>1, MonthIsNat
<1>4. FirstRunDate(today) = DueIn(b + 1)
  <2>1. b * MonthLength + 1 <= today
    BY <1>1, <1>3, MonthBounds
  <2>2. DueIn(b) <= today /\ DueIn(b) \in Nat
    BY <1>2, <1>3, <2>1, DueIsNat DEF DueIn
  <2>3. QED
    BY <1>1, <1>3, <2>2 DEF FirstRunDate
<1>5. \A x \in Enrollments : \/ enr'[x].next = enr[x].next
                             \/ enr'[x].next = DueIn(b + 1)
  BY <1>1, <1>4 DEF Edit, Enrollment
<1>6. ASSUME NEW x \in Enrollments \ doubtful, enr'[x].next = DueIn(b + 1) PROVE SlotOK(x)'
  <2>1. PICK n \in Nat, p \in Nat : n = Cardinality(Old(x)) /\ p = Cardinality(Claims(x)) /\ n <= p
    BY OldAreClaims
  <2>2. SlotOK(x) /\ p <= b + 1
    BY <1>3, <1>6, <2>1 DEF ChargeInv, Slots, SlotOK
  <2>3. DueIn(n) <= DueIn(b + 1)
    BY <2>1, <2>2, DueGrows
  <2>4. /\ Old(x)' = Old(x) /\ Claims(x)' = Claims(x) /\ \A k : RanFor(x, k)' <=> RanFor(x, k)
    BY <1>1 DEF Old, Claims, RowsOf, Rows, Live, Owed, Unlinked, Refused, Lists, Charges, Current, RanFor
  <2>5. DueIn(Cardinality(Old(x))') <= enr'[x].next
    BY <1>6, <2>1, <2>3, <2>4
  <2>6. \A c \in Collectors : /\ Listed(c, x)' = Listed(c, x) /\ Looks(c, x)' = Looks(c, x)
                              /\ Pays(c, x)' = Pays(c, x) /\ Failed(c)' = Failed(c)
    BY <1>1 DEF Listed, Looks, Pays, Failed
  <2>7. QED
    BY <1>1, <2>2, <2>4, <2>5, <2>6 DEF SlotOK
<1>7. today <= today'
  BY <1>1
<1>8. QED
  BY <1>1, <1>5, <1>6, <1>7, QuietOutside

LEMMA TickKeepsCharges ==
    ASSUME ChargeInv, TypeInv', Tick PROVE NotLive' /\ InvolvedOnce' /\ Slots'
<1>1. /\ UNCHANGED <<task, paid, txn, stripe, doubtful, enr>> /\ today <= today'
  BY DEF Tick, ChargeInv, RetryInv, TypeInv, TypeOK, Days
<1>2. QED
  BY <1>1, QuietOutside

LEMMA SettleKeepsCharges ==
    ASSUME ChargeInv, TypeInv', NEW t \in Txns, Settle(t)
    PROVE  NotLive' /\ InvolvedOnce' /\ Slots'
<1>1. /\ UNCHANGED <<today, enr, txn, paid, task, doubtful>> /\ RowsKept /\ Rows' = Rows
      /\ Rows \subseteq Txns /\ today <= today' /\ TypeInv
      /\ stripe \in [Txns -> {"none", "processing", "succeeded", "failed"}]
  BY NothingWritten
     DEF Settle, ChargeInv, RetryInv, TypeInv, TypeOK, RowsKept, Rows, Days
<1>2. stripe[t] = "processing" /\ \A u \in Txns \ {t} : stripe'[u] = stripe[u]
  BY <1>1 DEF Settle
<1>3. \A u \in Txns : (Live(u)' => Live(u)) /\ (Unlinked(u)' => Unlinked(u) \/ u = t)
  BY <1>1, <1>2 DEF Live, Unlinked, Refused
<1>4. \A v \in Workers : task[v].pc \in Holding /\ stripe[task[v].txn] = "none"
                         => stripe'[task[v].txn] = "none"
  BY <1>1, <1>2 DEF TypeInv, TasksOK, RefsOK
<1>5. \A e : \A u \in RowsOf(e) :
         Live(u)' \/ txn'[u].eligible \/ Unlinked(u)' => Live(u) \/ Owed(u)
  BY <1>1, <1>2, <1>3 DEF RowsOf, Owed, Live
<1>6. QED
  BY <1>1, <1>3, <1>4, <1>5, OutsideStep

LEMMA ProgressKeepsCharges ==
    ASSUME ChargeInv, TypeInv', NEW t \in Txns, ReportProgress(t)
    PROVE  NotLive' /\ InvolvedOnce' /\ Slots'
<1>1. /\ RowsKept /\ KnownKept /\ Rows' = Rows /\ Rows \subseteq Txns
      /\ \A u \in Txns : txn'[u].of = txn[u].of /\ txn'[u].eligible = txn[u].eligible
  BY ReportProgressShape DEF ChargeInv, RetryInv, RowsKept, Rows
<1>2. UNCHANGED <<today, enr, stripe, paid, task, doubtful>> /\ today <= today'
  BY DEF ReportProgress, ChargeInv, RetryInv, TypeInv, TypeOK, Days
<1>3. \A u \in Rows : (Live(u)' => Live(u)) /\ (Unlinked(u)' => Unlinked(u))
                      /\ txn'[u].eligible = txn[u].eligible
  BY <1>1, <1>2, StillUnlinked DEF Live
<1>4. \A e : \A u \in RowsOf(e) :
         Live(u)' \/ txn'[u].eligible \/ Unlinked(u)' => Live(u) \/ Owed(u)
  BY <1>3 DEF RowsOf, Owed
<1>5. QED
  BY <1>1, <1>2, <1>3, <1>4, OutsideStep

\* A failure that is reported was a claim before, unless its retry was made.
LEMMA FailureKeepsCharges ==
    ASSUME ChargeInv, TypeInv', NEW t \in Txns, ReportFailure(t)
    PROVE  NotLive' /\ InvolvedOnce' /\ Slots'
<1>1. /\ RowsKept /\ Rows' = Rows /\ Rows \subseteq Txns /\ t \in Rows
      /\ \A u \in Txns : txn'[u].of = txn[u].of /\ txn'[u].known = txn[u].known
      /\ \A u \in Txns \ {t} : txn'[u] = txn[u]
  BY ReportFailureShape DEF ChargeInv, RetryInv, RowsKept, Rows
<1>2. /\ UNCHANGED <<today, enr, stripe, paid, task>> /\ today <= today'
      /\ doubtful \subseteq doubtful' /\ (stripe[t] = "failed" \/ Refused(t))
      /\ (\E u \in Rows : txn[u].of = t) => txn[t].enr \in doubtful'
  BY DEF ReportFailure, ChargeInv, RetryInv, TypeInv, TypeOK, Days
<1>3. \A u \in Rows : (Live(u)' => Live(u) /\ u # t) /\ (Unlinked(u)' => Unlinked(u))
  <2>1. KnownKept
    BY <1>1 DEF KnownKept
  <2>2. QED
    BY <1>1, <1>2, <2>1, StillUnlinked DEF Live, Refused
<1>4. ASSUME NEW e \in Enrollments \ doubtful', NEW u \in RowsOf(e),
             Live(u)' \/ txn'[u].eligible \/ Unlinked(u)'
      PROVE  Live(u) \/ Owed(u)
  <2>1. CASE u = t
    BY <1>2, <1>4, <2>1 DEF RowsOf, Owed, Unlinked
  <2>2. CASE u # t
    BY <1>1, <1>3, <1>4, <2>2 DEF RowsOf, Owed
  <2>3. QED
    BY <2>1, <2>2
<1>5. \A u \in Rows : Live(u)' => Live(u) /\ (txn'[u].eligible => txn[u].eligible)
  BY <1>1, <1>3
<1>6. QED
  BY <1>1, <1>2, <1>4, <1>5, OutsideStep

--------------------------------------------------------------------------------
(* ChargeInv is an invariant, when owners are charged each month.            *)

LEMMA InitCharges == Init => ChargeInv
<1> SUFFICES ASSUME Init PROVE ChargeInv
  OBVIOUS
<1>1. RetryInv /\ TypeInv /\ Rows = {}
  BY InitRetries DEF RetryInv, Init, Rows
<1>2. \A w \in Workers : task[w] = Idle
  BY DEF Init
<1>3. NotLive
  BY <1>1, <1>2 DEF NotLive, LiveUnwanted, FailureOK, Idle
<1>4. \A c \in Collectors : \A e \in Enrollments :
         ~Involved(c, e) /\ ~Listed(c, e) /\ ~Looks(c, e) /\ ~Pays(c, e)
  BY <1>2, NoneAssumption DEF Idle, Involved, Listed, Looks, Pays, Paying, Workers
<1>5. InvolvedOnce
  BY <1>4 DEF InvolvedOnce
<1>6. ASSUME NEW e \in Enrollments PROVE SlotOK(e)
  <2>1. Claims(e) = {} /\ Old(e) = {}
    BY <1>1 DEF Claims, RowsOf, Old
  <2>2. Cardinality(Claims(e)) = 0 /\ Cardinality(Old(e)) = 0
    BY <2>1, FS_EmptySet
  <2>3. PICK k \in Nat : k = MonthLength
    BY CalendarAssumption
  <2>4. 0 * k = 0
    BY <2>3, Z3
  <2>5. DueIn(0) <= enr[e].next
    BY <2>3, <2>4, CalendarAssumption DEF Init, DueIn
  <2>6. today \in Nat \ {0}
    BY DEF Init
  <2>7. Month(today) \in Nat
    BY <2>6, MonthIsNat
  <2>8. QED
    BY <1>4, <2>2, <2>5, <2>7 DEF SlotOK
<1>7. QED
  BY <1>1, <1>3, <1>5, <1>6 DEF ChargeInv, Slots

LEMMA NextCharges == Monthly /\ ChargeInv /\ [Next]_vars => ChargeInv'
<1> SUFFICES ASSUME Monthly, ChargeInv, [Next]_vars PROVE ChargeInv'
  OBVIOUS
<1>1. RetryInv' /\ TypeInv'
  BY NextRetries DEF ChargeInv, RetryInv
<1>2. CASE \E w \in Workers : WorkerStep(w) \/ Throw(w) \/ Die(w)
  <2>1. PICK w \in Workers : WorkerStep(w) \/ Throw(w) \/ Die(w)
    BY <1>2
  <2>2. NotLive' /\ InvolvedOnce' /\ Slots'
    BY <1>1, <2>1, TakeKeepsCharges, LookKeepsCharges, RecordKeepsCharges, SaveKeepsCharges,
       MarkKeepsCharges, AdvanceKeepsCharges, FaultKeepsCharges, CheckRunKeepsCharges,
       ChargeKeepsCharges, LinkKeepsCharges, SpendKeepsCharges, CreateKeepsCharges
    DEF WorkerStep, Monthly
  <2>3. QED
    BY <1>1, <2>2 DEF ChargeInv
<1>3. CASE \/ \E c \in Collectors : StartCollecting(c)
           \/ \E r \in Retriers : StartRetrying(r)
  <2>1. NotLive' /\ InvolvedOnce' /\ Slots'
    BY <1>1, <1>3, StartCollectingKeepsCharges, StartRetryingKeepsCharges
  <2>2. QED
    BY <1>1, <2>1 DEF ChargeInv
<1>4. CASE \E t \in Txns : Settle(t) \/ ReportProgress(t) \/ ReportFailure(t)
  <2>1. NotLive' /\ InvolvedOnce' /\ Slots'
    BY <1>1, <1>4, SettleKeepsCharges, ProgressKeepsCharges, FailureKeepsCharges
  <2>2. QED
    BY <1>1, <2>1 DEF ChargeInv
<1>5. CASE Tick \/ (\E e \in Enrollments : Edit(e))
  <2>1. NotLive' /\ InvolvedOnce' /\ Slots'
    BY <1>1, <1>5, TickKeepsCharges, EditKeepsCharges
  <2>2. QED
    BY <1>1, <2>1 DEF ChargeInv
<1>6. CASE UNCHANGED vars
  <2>1. UNCHANGED <<task, paid, txn, stripe, doubtful, enr>> /\ today <= today'
    BY <1>6 DEF vars, ChargeInv, RetryInv, TypeInv, TypeOK, Days
  <2>2. NotLive' /\ InvolvedOnce' /\ Slots'
    BY <1>1, <2>1, QuietOutside
  <2>3. QED
    BY <1>1, <2>2 DEF ChargeInv
<1>7. QED
  BY <1>2, <1>3, <1>4, <1>5, <1>6 DEF Next

\* Every charge, and every retry to come, has a month of its own that has begun,
\* which the next date, a run row or the collection at work keeps from being
\* charged again, when owners are charged each month.
THEOREM ChargeInvariance == Monthly => (Spec => []ChargeInv)
<1>1. Init => ChargeInv
  BY InitCharges
<1>2. Monthly /\ ChargeInv /\ [Next]_vars => ChargeInv'
  BY NextCharges
<1>3. ASSUME Monthly PROVE Spec => []ChargeInv
  <2>1. ChargeInv /\ [Next]_vars => ChargeInv'
    BY <1>2, <1>3
  <2>2. QED
    BY <1>1, <2>1, PTL DEF Spec
<1>4. QED
  BY <1>3

\* No owner who is charged each month is charged for more months than have
\* begun, for any number of collections, retries, events, failures and days.
THEOREM NoMonthIsChargedTwice == Monthly => (Spec => []NeverOvercharged)
<1>1. Monthly /\ ChargeInv => NeverOvercharged
  <2>1. SUFFICES ASSUME Monthly, ChargeInv, NEW e \in Enrollments \ doubtful
                 PROVE  Charged(e) <= Intervals
    BY DEF NeverOvercharged
  <2>2. PICK b \in Nat : b = Month(today)
    <3>1. today \in Nat \ {0}
      BY <2>1 DEF ChargeInv, RetryInv, TypeInv, TypeOK, Days
    <3>2. QED
      BY <3>1, MonthIsNat
  <2>3. Intervals = b + 1
    <3>1. b \div 1 = b
      BY <2>2, Z3
    <3>2. QED
      BY <2>1, <2>2, <3>1 DEF Intervals, Monthly
  <2>4. PICK S, T : S = {t \in RowsOf(e) : Live(t)} /\ T = Claims(e)
    OBVIOUS
  <2>5. S \subseteq T /\ T \subseteq Txns
    BY <2>4, CountsAreNat DEF Claims
  <2>6. Cardinality(S) \in Nat /\ Cardinality(T) \in Nat /\ Cardinality(S) <= Cardinality(T)
    BY <2>5, CountGrows
  <2>7. Cardinality(T) <= b + 1
    BY <2>1, <2>2, <2>4 DEF ChargeInv, Slots, SlotOK
  <2>8. QED
    BY <2>2, <2>3, <2>4, <2>6, <2>7 DEF Charged
<1>2. ASSUME Monthly PROVE Spec => []NeverOvercharged
  <2>1. Spec => []ChargeInv
    BY <1>2, ChargeInvariance
  <2>2. ChargeInv => NeverOvercharged
    BY <1>1, <1>2
  <2>3. QED
    BY <2>1, <2>2, PTL
<1>3. QED
  BY <1>2

==============================================================================
