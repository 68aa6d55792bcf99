----------------------- MODULE PaymentWebhooks_proofs -----------------------
(***************************************************************************)
(* For any number of payments and slots, any subscription and any bounds:  *)
(* the safety properties of PaymentWebhooks, and that it implements        *)
(* PaymentCredit.                                                          *)
(***************************************************************************)
EXTENDS PaymentWebhooks, TLAPS

--------------------------------------------------------------------------------
(* The inductive invariant.                                                 *)

\* The steps a handler of an event of kind k goes through.
StepsOf(k) ==
    IF k \in HoaKinds THEN {"txn.read", "txn.write", "hoa.lookup", "hoa.insert", "hoa.close",
                            "hoa.post", "hoa.mark", "hoa.net", "done"}
    ELSE IF k \in ChargeKinds THEN {"charge.layer1", "charge.post", "txn.read", "txn.write", "done"}
    ELSE IF k = "cc.pending" THEN {"txn.read", "txn.write", "done"}
    ELSE IF k = "cc.failed" THEN {"fail.claim", "fail.find", "fail.set", "fail.retry", "fail.mark", "done"}
    ELSE IF k = "sync" THEN {"txn.read", "txn.write", "sync.post", "sync.retry", "done"}
    ELSE {"rev.check", "rev.original", "rev.insert", "done"}

\* At most one row carries the identity of a payment, and only the retry sweep
\* writes rows without it.
OneKeyedRow ==
    \A p \in Payments :
        /\ \A w \in KeyedWriters : credit[p][w] <= 1
        /\ \A v, w \in KeyedWriters : credit[p][v] > 0 /\ credit[p][w] > 0 => v = w
        /\ credit[p]["retry-sync"] > 0 => kind[p] = "retry"

\* Stripe announces a success only of what it captured.
EmittedIsTrue ==
    \A e \in emitted : /\ e.kind # "sync"
                       /\ e.kind \in HoaSuccess \cup ChargeKinds => Captured(e.pay)

\* What a busy slot knows.
TaskOK(t) ==
    /\ t.ev \in Event
    /\ t.pc \in StepsOf(t.ev.kind)
    /\ t.ev.kind = "sync" => OffSession(t.ev.pay)
    /\ t.want = "succeeded" \/ t.seen = "succeeded" \/ t.ev.kind \in ChargeKinds => Captured(t.ev.pay)
    /\ t.pc \in {"hoa.post", "hoa.mark", "sync.post"} => t.want = "succeeded"
    /\ t.pc = "hoa.mark" => Credited(t.ev.pay)
    /\ t.ev.kind \in ChargeKinds /\ t.pc \notin {"charge.layer1", "charge.post"}
       /\ HasChargeMetadata(t.ev.pay) => Credited(t.ev.pay)

\* The books agree with Stripe and with what was answered.
BooksOK ==
    /\ OneKeyedRow
    /\ EmittedIsTrue
    /\ OnlyCapturedMoney
    /\ AckedChargeIsCredited
    /\ ProcessedIsCredited

SlotsOK == \A s \in Slots : task[s].pc # "idle" => TaskOK(task[s])

--------------------------------------------------------------------------------
(* Type correctness.                                                        *)

\* What an event is made of.
LEMMA EventParts ==
    ASSUME NEW e \in Event
    PROVE  e.kind \in EventKinds \cup {"sync"} /\ e.pay \in Payments /\ e.owes \in Owed(e.kind)
BY DEF Event

\* An event may call for no reversal at all.
LEMMA NothingOwed ==
    ASSUME NEW k \in EventKinds \cup {"sync"}, NEW p \in Payments
    PROVE  Ev(k, p) \in Event
<1>1. <<>> \in Owed(k)
  <2>1. CASE k = "cc.charge.refunded"
    <3> DEFINE Q == {q \in UNION {[1..n -> Refunds] : n \in 0..MaxRefunds} :
                        \A i, j \in DOMAIN q : i < j => q[i][2] > q[j][2]}
    <3>1. <<>> \in [1..0 -> Refunds] /\ DOMAIN <<>> = {}
      OBVIOUS
    <3>2. 0 \in 0..MaxRefunds
      BY BoundsAssumption
    <3>3. <<>> \in Q
      BY <3>1, <3>2
    <3>4. Owed(k) = Q
      BY <2>1 DEF Owed
    <3> QED
      BY <3>3, <3>4
  <2>2. CASE k = "cc.dispute.lost"
    BY <2>2 DEF Owed
  <2>3. CASE k \notin {"cc.charge.refunded", "cc.dispute.lost"}
    BY <2>3 DEF Owed
  <2> QED
    BY <2>1, <2>2, <2>3
<1> QED
  BY <1>1 DEF Event, Ev

\* The reversals an event calls for are a sequence of references.
LEMMA OwedReversals ==
    ASSUME NEW e \in Event
    PROVE  /\ Len(e.owes) \in Nat /\ DOMAIN e.owes = 1..Len(e.owes)
           /\ (Len(e.owes) = 0 <=> e.owes = <<>>)
           /\ \A i \in 1..Len(e.owes) : e.owes[i] \in Reversal
<1>1. e.owes \in Owed(e.kind)
  BY EventParts
<1>2. e.owes \in Seq(Reversal)
  <2>1. CASE e.kind = "cc.charge.refunded"
    <3>1. PICK n \in 0..MaxRefunds : e.owes \in [1..n -> Refunds]
      BY <1>1, <2>1 DEF Owed
    <3>2. n \in Nat /\ e.owes \in [1..n -> Reversal]
      BY <3>1, BoundsAssumption DEF Reversal
    <3> QED
      BY <3>2
  <2>2. CASE e.kind = "cc.dispute.lost"
    <3>1. \/ e.owes = <<>> \/ e.owes = <<<<"stripe_dispute", 0>>>> \/ e.owes = <<<<"stripe_dispute_fee", 0>>>>
          \/ e.owes = <<<<"stripe_dispute", 0>>, <<"stripe_dispute_fee", 0>>>>
      BY <1>1, <2>2 DEF Owed
    <3>2. <<"stripe_dispute", 0>> \in Reversal /\ <<"stripe_dispute_fee", 0>> \in Reversal
      BY DEF Reversal
    <3>3. ASSUME NEW a \in Reversal, NEW b \in Reversal
          PROVE  <<>> \in Seq(Reversal) /\ <<a>> \in Seq(Reversal) /\ <<a, b>> \in Seq(Reversal)
      OBVIOUS
    <3> QED
      BY <3>1, <3>2, <3>3
  <2>3. CASE e.kind \notin {"cc.charge.refunded", "cc.dispute.lost"}
    <3>1. e.owes = <<>>
      BY <1>1, <2>3 DEF Owed
    <3>2. <<>> \in Seq(Reversal)
      OBVIOUS
    <3> QED
      BY <3>1, <3>2
  <2> QED
    BY <2>1, <2>2, <2>3
<1> QED
  BY <1>2

\* What a handler may write into its slot is well typed: a record keeps its type
\* when its step, its view of the transaction or its loop index changes.
LEMMA TaskUpdate ==
    ASSUME NEW t \in Task, NEW l \in HandlerSteps, NEW st \in TxnStatus, NEW j \in Nat
    PROVE  /\ [t EXCEPT !.pc = l] \in Task
           /\ [t EXCEPT !.seen = st, !.pc = l] \in Task
           /\ [t EXCEPT !.i = j, !.pc = l] \in Task
BY DEF Task

\* An idle slot is well typed.
LEMMA IdleTask == Idle \in Task
BY DEF Idle, Task, TxnStatus

\* The canonical writer adds at most one row, of the payment and writer it is
\* given, and leaves the payment credited under its key.
LEMMA PostPaymentEffect ==
    ASSUME TypeOK, NEW p \in Payments, NEW w \in KeyedWriters, PostPayment(p, w)
    PROVE  /\ credit' \in [Payments -> [Writers -> Nat]]
           /\ \A q \in Payments, v \in Writers : credit'[q][v] >= credit[q][v]
           /\ \A q \in Payments, v \in Writers :
                 credit'[q][v] # credit[q][v] =>
                    q = p /\ v = w /\ ~Recorded(p) /\ credit'[q][v] = credit[q][v] + 1
           /\ \E v \in KeyedWriters : credit'[p][v] > 0
<1>1. CASE Recorded(p)
  <2>1. credit' = credit
    BY <1>1 DEF PostPayment
  <2> QED
    BY <1>1, <2>1 DEF TypeOK, Recorded
<1>2. CASE ~Recorded(p)
  <2>1. credit' = [credit EXCEPT ![p][w] = @ + 1] /\ w \in Writers
    BY <1>2 DEF PostPayment, Writers
  <2> QED
    BY <1>2, <2>1 DEF TypeOK
<1> QED
  BY <1>1, <1>2

\* The step after the status update, and the one after the ledger write.
LEMMA NextSteps ==
    ASSUME NEW t
    PROVE  AfterTxn(t) \in HandlerSteps /\ AfterCharge(t) \in HandlerSteps
BY DEF AfterTxn, AfterCharge, HandlerSteps

\* Busy slots handle an event; with it, the types are inductive.
BusySlots == \A s \in Slots : task[s].pc # "idle" => task[s].ev \in Event
TypeInv == TypeOK /\ BusySlots

\* A handler that only moves its slot on, within the types, keeps them.
LEMMA SlotMoves ==
    ASSUME TypeInv, NEW s \in Slots, NEW l \in HandlerSteps, ~At(s, "idle"),
           \/ Go(s, l)
           \/ \E st \in TxnStatus : task' = [task EXCEPT ![s].seen = st, ![s].pc = l]
           \/ \E j \in Nat : task' = [task EXCEPT ![s].i = j, ![s].pc = l]
           \/ task' = [task EXCEPT ![s] = Idle]
    PROVE  task' \in [Slots -> Task] /\ BusySlots'
<1> DEFINE t == task[s]
<1>1. t \in Task /\ t.ev \in Event
  BY DEF TypeInv, TypeOK, BusySlots, At
<1>2. PICK u \in Task : task' = [task EXCEPT ![s] = u] /\ (u = Idle \/ u.ev = t.ev)
  <2>1. CASE Go(s, l)
    <3>1. [t EXCEPT !.pc = l] \in Task /\ [t EXCEPT !.pc = l].ev = t.ev
      BY <1>1, TaskUpdate DEF Task
    <3> QED
      BY <2>1, <3>1 DEF Go
  <2>2. ASSUME NEW st \in TxnStatus, task' = [task EXCEPT ![s].seen = st, ![s].pc = l]
        PROVE  \E u \in Task : task' = [task EXCEPT ![s] = u] /\ (u = Idle \/ u.ev = t.ev)
    <3>1. [t EXCEPT !.seen = st, !.pc = l] \in Task /\ [t EXCEPT !.seen = st, !.pc = l].ev = t.ev
      BY <1>1, TaskUpdate DEF Task
    <3>2. task' = [task EXCEPT ![s] = [t EXCEPT !.seen = st, !.pc = l]]
      BY <2>2 DEF TypeInv, TypeOK
    <3> QED
      BY <3>1, <3>2
  <2>3. ASSUME NEW j \in Nat, task' = [task EXCEPT ![s].i = j, ![s].pc = l]
        PROVE  \E u \in Task : task' = [task EXCEPT ![s] = u] /\ (u = Idle \/ u.ev = t.ev)
    <3>1. [t EXCEPT !.i = j, !.pc = l] \in Task /\ [t EXCEPT !.i = j, !.pc = l].ev = t.ev
      BY <1>1, TaskUpdate DEF Task
    <3>2. task' = [task EXCEPT ![s] = [t EXCEPT !.i = j, !.pc = l]]
      BY <2>3 DEF TypeInv, TypeOK
    <3> QED
      BY <3>1, <3>2
  <2>4. CASE task' = [task EXCEPT ![s] = Idle]
    BY <2>4, IdleTask
  <2> QED
    BY <2>1, <2>2, <2>3, <2>4
<1>3. task' \in [Slots -> Task]
  BY <1>2 DEF TypeInv, TypeOK
<1>4. ASSUME NEW r \in Slots, task'[r].pc # "idle" PROVE task'[r].ev \in Event
  <2>1. CASE r = s
    <3>1. task'[r] = u
      BY <1>2, <2>1 DEF TypeInv, TypeOK
    <3>2. u # Idle
      BY <1>4, <3>1 DEF Idle
    <3> QED
      BY <1>1, <1>2, <3>1, <3>2
  <2>2. CASE r # s
    BY <1>2, <1>4, <2>2 DEF TypeInv, TypeOK, BusySlots
  <2> QED
    BY <2>1, <2>2
<1> QED
  BY <1>3, <1>4 DEF BusySlots

\* Types are inductive.  They hold in the initial states.
LEMMA TypeInit == Init => TypeInv
BY BoundsAssumption, IdleTask
   DEF Init, TypeInv, TypeOK, BusySlots, Idle, TxnStatus, HasTxn

\* One more row of a kind leaves the counters of a ledger counters.
LEMMA OneMoreRow ==
    ASSUME NEW A, NEW B, NEW f \in [A -> [B -> Nat]], NEW a \in A, NEW b
    PROVE  [f EXCEPT ![a][b] = @ + 1] \in [A -> [B -> Nat]]
<1> DEFINE g == [f[a] EXCEPT ![b] = @ + 1]
<1>1. g \in [B -> Nat]
  <2>1. f[a] \in [B -> Nat]
    OBVIOUS
  <2>2. CASE b \in B
    BY <2>1, <2>2
  <2>3. CASE b \notin B
    BY <2>1, <2>3
  <2> QED
    BY <2>2, <2>3
<1>2. [f EXCEPT ![a][b] = @ + 1] = [f EXCEPT ![a] = g]
  OBVIOUS
<1> QED
  BY <1>1, <1>2

\* Stripe's own steps keep the types.
LEMMA StripeTypes == ASSUME TypeInv, Stripe PROVE TypeInv'
<1> USE DEF TypeInv, TypeOK, BusySlots, ledgerVars, txnVars, stripeVars
<1> SUFFICES ASSUME NEW p \in Payments, OpenCheckout(p) \/ Pay(p) \/ Settle(p) \/ AfterCapture(p)
             PROVE TypeInv'
  BY DEF Stripe
<1>1. ASSUME NEW k \in EventKinds, NEW q \in Owed(k)
      PROVE  [kind |-> k, pay |-> p, owes |-> q] \in Event
  BY DEF Event
<1>2. ASSUME NEW st \in {"succeeded", "processing", "declined", "failed"}, StripeSets(p, st)
      PROVE  /\ stripe' \in [Payments -> {"none", "processing", "declined", "failed", "succeeded"}]
             /\ emitted' \subseteq Event /\ kind' = kind
  <2>2. \A k \in Subscribed : Ev(k, p) \in Event
    BY NothingOwed, SubscribedAssumption
  <2> QED
    BY <1>2, <2>2 DEF StripeSets, Emit
<1>3. CASE OpenCheckout(p)
  BY <1>3 DEF OpenCheckout, TxnStatus
<1>4. CASE Pay(p)
  <2>1. PICK st \in {"succeeded", "processing", "declined", "failed"} : StripeSets(p, st)
    BY <1>4 DEF Pay
  <2> QED
    BY <1>2, <1>4, <2>1 DEF Pay
<1>5. CASE Settle(p)
  <2>1. PICK st \in {"succeeded", "processing", "declined", "failed"} : StripeSets(p, st)
    BY <1>5 DEF Settle
  <2> QED
    BY <1>2, <1>5, <2>1 DEF Settle
<1>6. CASE AfterCapture(p)
  <2>1. PICK k \in Subscribed : \E q \in Owed(k) : emitted' = emitted \cup {[kind |-> k, pay |-> p, owes |-> q]}
    BY <1>6 DEF AfterCapture
  <2>2. k \in EventKinds
    BY SubscribedAssumption
  <2> QED
    BY <1>1, <1>6, <2>1, <2>2 DEF AfterCapture
<1> QED
  BY <1>3, <1>4, <1>5, <1>6

\* So do deliveries and off-session charges, which occupy a slot.
LEMMA ArrivalTypes ==
    ASSUME TypeInv, NEW s \in Slots,
           (\E e \in emitted : Deliver(s, e)) \/ (\E p \in Payments : ChargeOffSession(s, p))
    PROVE  TypeInv'
<1> USE DEF TypeInv, TypeOK
<1>1. ASSUME NEW t \in Task, t.ev \in Event, task' = [task EXCEPT ![s] = t]
      PROVE  task' \in [Slots -> Task] /\ BusySlots'
  BY <1>1 DEF BusySlots
<1>2. ASSUME NEW e \in emitted, Deliver(s, e) PROVE TypeInv'
  <2> DEFINE t == [pc |-> FirstStep(e), ev |-> e, want |-> Wanted(e), seen |-> "absent", i |-> 1,
                    booked |-> e.kind \in ReversalKinds /\ credit[e.pay]["stripe_charge"] > 0]
  <2>1. FirstStep(e) \in HandlerSteps /\ Wanted(e) \in TxnStatus
    BY DEF FirstStep, HandlerSteps, Wanted, TxnStatus
  <2>2. t \in Task /\ t.ev \in Event
    BY <2>1 DEF Task, TxnStatus
  <2>3. task' = [task EXCEPT ![s] = t]
    BY <1>2 DEF Deliver
  <2>4. task' \in [Slots -> Task] /\ BusySlots'
    BY <1>1, <2>2, <2>3
  <2> QED
    BY <1>2, <2>4 DEF Deliver, stripeVars, txnVars, ledgerVars
<1>3. ASSUME NEW p \in Payments, ChargeOffSession(s, p) PROVE TypeInv'
  <2>1. PICK st \in {"succeeded", "processing", "failed"},
             answer \in {"succeeded", "pending", "failed", "no_intent"} :
          /\ StripeSets(p, st)
          /\ task' = [task EXCEPT ![s] = [pc |-> "txn.read", ev |-> Ev("sync", p),
                                          want |-> answer, seen |-> "absent", i |-> 1,
                    booked |-> FALSE]]
    BY <1>3 DEF ChargeOffSession
  <2> DEFINE t == [pc |-> "txn.read", ev |-> Ev("sync", p), want |-> answer, seen |-> "absent", i |-> 1,
                    booked |-> FALSE]
  <2>3. Ev("sync", p) \in Event /\ \A k \in Subscribed : Ev(k, p) \in Event
    BY NothingOwed, SubscribedAssumption
  <2>4. t \in Task /\ t.ev \in Event
    BY <2>3 DEF Task, TxnStatus, HandlerSteps
  <2>5. task' \in [Slots -> Task] /\ BusySlots'
    BY <1>1, <2>1, <2>4
  <2>6. /\ stripe' \in [Payments -> {"none", "processing", "declined", "failed", "succeeded"}]
        /\ emitted' \subseteq Event /\ kind' = kind
    BY <2>1, <2>3 DEF StripeSets, Emit
  <2> QED
    BY <1>3, <2>5, <2>6 DEF ChargeOffSession, txnVars, ledgerVars
<1> QED
  BY <1>2, <1>3

\* So does every step of a handler.
LEMMA HandlerTypes ==
    ASSUME TypeInv, NEW s \in Slots, HandlerStep(s) \/ Die(s)
    PROVE  TypeInv'
<1> USE DEF TypeInv, TypeOK
<1> DEFINE p == PayOf(s)
<1> DEFINE e == task[s].ev
<1> DEFINE TaskOK2 == task' \in [Slots -> Task] /\ BusySlots'
<1>a. ~At(s, "idle")
  BY DEF HandlerStep, Die, At, ReadTxn, WriteTxn, LookupWebhookEvent, InsertWebhookEvent,
         CloseWebhookEvent, PostWebhookCredit, MarkWebhookProcessed, SafetyNet, CheckCharge,
         PostCharge, ClaimFailure, FindFailedTxn, SetFailed, MarkForRetry, MarkFailureProcessed,
         CheckReversal, FindOriginalCharge, InsertReversal, PostSyncCredit, Respond
<1>b. e \in Event /\ p \in Payments /\ task[s] \in Task
  BY <1>a DEF BusySlots, At, PayOf, Event
<1>c. ASSUME NEW l \in HandlerSteps, Go(s, l) PROVE TaskOK2
  BY <1>a, <1>c, SlotMoves
<1>d. ASSUME task' = [task EXCEPT ![s] = Idle] PROVE TaskOK2
  <2>1. "done" \in HandlerSteps
    BY DEF HandlerSteps
  <2> QED
    BY <1>a, <1>d, <2>1, SlotMoves
<1>e. ASSUME NextReversal(s) PROVE TaskOK2
  <2>1. PICK l \in HandlerSteps : task' = [task EXCEPT ![s].i = @ + 1, ![s].pc = l]
    BY <1>e DEF NextReversal, HandlerSteps
  <2>2. task[s].i + 1 \in Nat
    BY <1>b DEF Task
  <2>3. task' = [task EXCEPT ![s].i = task[s].i + 1, ![s].pc = l]
    BY <2>1
  <2> QED
    BY <1>a, <2>2, <2>3, SlotMoves
<1>f. /\ \A w \in KeyedWriters : PostPayment(p, w) => credit' \in [Payments -> [Writers -> Nat]]
      /\ {"payment-webhook", "stripe_charge", "safety-net", "autopay-sync"} \subseteq KeyedWriters
  BY <1>b, PostPaymentEffect DEF KeyedWriters
<1>1. CASE ReadTxn(s)
  <2>1. txn[p] \in TxnStatus /\ AfterTxn(task[s]) \in HandlerSteps /\ "txn.write" \in HandlerSteps
    BY <1>b, NextSteps DEF HandlerSteps
  <2>2. PICK l \in HandlerSteps : task' = [task EXCEPT ![s].seen = txn[p], ![s].pc = l]
    BY <1>1, <2>1 DEF ReadTxn
  <2>3. TaskOK2
    BY <1>a, <2>1, <2>2, SlotMoves
  <2> QED
    BY <1>1, <2>3 DEF ReadTxn, stripeVars, txnVars, ledgerVars
<1>2. CASE WriteTxn(s)
  <2>1. PICK st \in TxnStatus :
          /\ txn' = [txn EXCEPT ![p] = st]
          /\ task' = [task EXCEPT ![s].seen = st, ![s].pc = AfterTxn(task[s])]
          /\ intentKnown' = [intentKnown EXCEPT ![p] = @ \/ task[s].want # "no_intent"]
    BY <1>2, <1>b DEF WriteTxn, Task, TxnStatus
  <2>2. TaskOK2
    BY <1>a, <2>1, NextSteps, SlotMoves
  <2>3. intentKnown' \in [Payments -> BOOLEAN]
    BY <1>b, <2>1
  <2>4. \A c \in raced' : c[1] \in Payments
    BY <1>2, <1>b DEF WriteTxn, NoteRace
  <2> QED
    BY <1>2, <1>b, <2>1, <2>2, <2>3, <2>4 DEF WriteTxn, stripeVars, ledgerVars
<1>3. CASE LookupWebhookEvent(s)
  <2>1. TaskOK2
    BY <1>3, <1>c DEF LookupWebhookEvent, HandlerSteps
  <2> QED
    BY <1>3, <2>1, <1>b DEF LookupWebhookEvent, stripeVars, txnVars, ledgerVars
<1>4. CASE InsertWebhookEvent(s)
  <2>1. TaskOK2
    <3>1. CASE hooks[e] # "none"
      BY <1>4, <1>d, <3>1 DEF InsertWebhookEvent
    <3>2. CASE hooks[e] = "none"
      BY <1>4, <1>c, <3>2 DEF InsertWebhookEvent, HandlerSteps
    <3> QED
      BY <3>1, <3>2
  <2> QED
    BY <1>4, <2>1, <1>b DEF InsertWebhookEvent, stripeVars, txnVars, ledgerVars
<1>5. CASE CloseWebhookEvent(s)
  <2>1. TaskOK2
    BY <1>5, <1>c DEF CloseWebhookEvent, HandlerSteps
  <2> QED
    BY <1>5, <2>1, <1>b DEF CloseWebhookEvent, stripeVars, txnVars, ledgerVars
<1>6. CASE PostWebhookCredit(s)
  <2>1. TaskOK2
    BY <1>6, <1>c DEF PostWebhookCredit, HandlerSteps
  <2> QED
    BY <1>6, <2>1, <1>b, <1>f DEF PostWebhookCredit, stripeVars, txnVars, ledgerVars, PostPayment
<1>7. CASE MarkWebhookProcessed(s)
  <2>1. TaskOK2
    BY <1>7, <1>c DEF MarkWebhookProcessed, HandlerSteps
  <2> QED
    BY <1>7, <2>1, <1>b DEF MarkWebhookProcessed, stripeVars, txnVars, ledgerVars
<1>8. CASE SafetyNet(s)
  <2>1. TaskOK2
    BY <1>8, <1>c DEF SafetyNet, HandlerSteps
  <2> QED
    BY <1>8, <2>1, <1>b, <1>f DEF SafetyNet, stripeVars, txnVars, ledgerVars, PostPayment
<1>9. CASE CheckCharge(s)
  <2>1. TaskOK2
    BY <1>9, <1>c, NextSteps DEF CheckCharge, HandlerSteps
  <2> QED
    BY <1>9, <2>1 DEF CheckCharge, stripeVars, txnVars, ledgerVars
<1>10. CASE PostCharge(s)
  <2>1. TaskOK2
    BY <1>10, <1>c, NextSteps DEF PostCharge
  <2> QED
    BY <1>10, <2>1, <1>b, <1>f DEF PostCharge, stripeVars, txnVars, PostPayment
<1>11. CASE ClaimFailure(s)
  <2>1. TaskOK2
    BY <1>11, <1>c DEF ClaimFailure, HandlerSteps
  <2>2. hooks' = hooks \/ hooks' = [hooks EXCEPT ![e] = "received"]
    BY <1>11 DEF ClaimFailure
  <2>3. faults' \in 0..MaxFaults
    BY <1>11, BoundsAssumption DEF ClaimFailure
  <2> QED
    BY <1>11, <1>b, <2>1, <2>2, <2>3 DEF ClaimFailure, stripeVars, txnVars, ledgerVars
<1>12. CASE FindFailedTxn(s)
  <2>1. TaskOK2
    BY <1>12, <1>c DEF FindFailedTxn, HandlerSteps
  <2> QED
    BY <1>12, <2>1, <1>b DEF FindFailedTxn, stripeVars, txnVars, ledgerVars
<1>13. CASE SetFailed(s)
  <2>1. TaskOK2
    BY <1>13, <1>c DEF SetFailed, HandlerSteps
  <2>2. \A c \in raced' : c[1] \in Payments
    BY <1>13, <1>b DEF SetFailed, NoteRace
  <2> QED
    BY <1>13, <2>1, <2>2, <1>b DEF SetFailed, stripeVars, txnVars, ledgerVars, TxnStatus
<1>14. CASE MarkForRetry(s)
  <2>1. TaskOK2
    BY <1>14, <1>c DEF MarkForRetry, HandlerSteps
  <2> QED
    BY <1>14, <2>1, <1>b DEF MarkForRetry, stripeVars, txnVars, ledgerVars
<1>15. CASE MarkFailureProcessed(s)
  <2>1. TaskOK2
    BY <1>15, <1>c DEF MarkFailureProcessed, HandlerSteps
  <2> QED
    BY <1>15, <2>1, <1>b DEF MarkFailureProcessed, stripeVars, txnVars, ledgerVars
<1>16. CASE CheckReversal(s)
  <2>1. TaskOK2
    BY <1>16, <1>c, <1>e DEF CheckReversal, HandlerSteps
  <2>2. \A c \in raced' : c[1] \in Payments
    BY <1>16, <1>b DEF CheckReversal, NoteRace
  <2> QED
    BY <1>16, <2>1, <2>2 DEF CheckReversal, stripeVars, txnVars, ledgerVars
<1>17. CASE FindOriginalCharge(s)
  <2>1. TaskOK2
    BY <1>17, <1>c, <1>e DEF FindOriginalCharge, HandlerSteps
  <2> QED
    BY <1>17, <2>1 DEF FindOriginalCharge, stripeVars, txnVars, ledgerVars
<1>18. CASE InsertReversal(s)
  <2>1. TaskOK2
    BY <1>18, <1>e DEF InsertReversal
  <2>2. reversed' \in [Payments -> [Reversal -> Nat]]
    BY <1>18, <1>b, OneMoreRow DEF InsertReversal
  <2> QED
    BY <1>18, <2>1, <2>2 DEF InsertReversal, stripeVars, txnVars
<1>19. CASE PostSyncCredit(s)
  <2>1. TaskOK2
    BY <1>19, <1>c DEF PostSyncCredit, HandlerSteps
  <2>2. credit' \in [Payments -> [Writers -> Nat]]
    <3>1. CASE kind[p] = "autopay"
      BY <1>19, <1>f, <3>1 DEF PostSyncCredit
    <3>2. CASE kind[p] # "autopay"
      <4>1. credit' = [credit EXCEPT ![p]["retry-sync"] = @ + 1]
        BY <1>19, <3>2 DEF PostSyncCredit
      <4> QED
        BY <1>b, <4>1, OneMoreRow
    <3> QED
      BY <3>1, <3>2
  <2> QED
    BY <1>19, <2>1, <2>2 DEF PostSyncCredit, stripeVars, txnVars, PostPayment
<1>20. CASE Respond(s)
  <2>1. TaskOK2
    BY <1>20, <1>d DEF Respond
  <2> QED
    BY <1>20, <2>1 DEF Respond, stripeVars, txnVars, ledgerVars
<1>21. CASE Die(s)
  <2>1. TaskOK2
    BY <1>21, <1>d DEF Die
  <2> QED
    BY <1>21, <2>1, BoundsAssumption DEF Die, stripeVars, txnVars, ledgerVars
<1> QED
  BY <1>1, <1>2, <1>3, <1>4, <1>5, <1>6, <1>7, <1>8, <1>9, <1>10, <1>11, <1>12, <1>13, <1>14,
     <1>15, <1>16, <1>17, <1>18, <1>19, <1>20, <1>21 DEF HandlerStep

\* So does every step.
LEMMA TypeNext == TypeInv /\ [Next]_vars => TypeInv'
<1> SUFFICES ASSUME TypeInv, [Next]_vars PROVE TypeInv'
  OBVIOUS
<1>1. ASSUME NEW e \in emitted, AckUnhandled(e) PROVE TypeInv'
  BY <1>1 DEF AckUnhandled, TypeInv, TypeOK, BusySlots, stripeVars, txnVars, ledgerVars
<1>2. CASE UNCHANGED vars
  BY <1>2 DEF vars, TypeInv, TypeOK, BusySlots, stripeVars, txnVars, ledgerVars
<1> QED
  BY <1>1, <1>2, StripeTypes, ArrivalTypes, HandlerTypes DEF Next

\* Every reachable state is well typed, and busy slots handle an event.
THEOREM TypeCorrect == Spec => []TypeOK
<1>1. TypeInv => TypeOK
  BY DEF TypeInv
<1> QED
  BY <1>1, TypeInit, TypeNext, PTL DEF Spec

--------------------------------------------------------------------------------
(* Safety.                                                                  *)

IInv == TypeInv /\ BooksOK /\ SlotsOK

\* What every step preserves: captures and credits are never taken back.
Grows ==
    /\ kind' = kind
    /\ \A p \in Payments : (Captured(p) => Captured(p)') /\ (Credited(p) => Credited(p)')

\* A slot that does not move still knows what it knew.
LEMMA TaskFrame ==
    ASSUME Grows, NEW t, TaskOK(t)
    PROVE  TaskOK(t)'
<1>1. t.ev.pay \in Payments
  BY DEF TaskOK, Event
<1> QED
  BY <1>1 DEF TaskOK, Grows, OffSession, HasChargeMetadata

\* If one slot moves to a state it may be in, all slots are in order.
LEMMA SlotFrame ==
    ASSUME TypeInv, SlotsOK, Grows, NEW s \in Slots, NEW u, task' = [task EXCEPT ![s] = u],
           u.pc = "idle" \/ TaskOK(u)'
    PROVE  SlotsOK'
<1> SUFFICES ASSUME NEW r \in Slots, task'[r].pc # "idle" PROVE TaskOK(task[r])'
  BY DEF SlotsOK
<1>1. CASE r = s
  <2>1. task'[r] = u /\ TaskOK(u)'
    BY <1>1 DEF TypeInv, TypeOK
  <2> QED
    BY <2>1 DEF TaskOK, Captured, Credited, OffSession, HasChargeMetadata
<1>2. CASE r # s
  <2>1. task'[r] = task[r]
    BY <1>2 DEF TypeInv, TypeOK
  <2>2. TaskOK(task[r])
    BY <2>1 DEF SlotsOK
  <2>3. PICK x : x = task[r]
    OBVIOUS
  <2>4. TaskOK(x)'
    BY <2>2, <2>3, TaskFrame
  <2> QED
    BY <2>1, <2>3, <2>4 DEF TaskOK, Captured, Credited, OffSession, HasChargeMetadata
<1> QED
  BY <1>1, <1>2

\* When a busy slot moves to step l, knowing the same event.
LEMMA MoveOK ==
    ASSUME Grows, NEW t \in Task, TaskOK(t), NEW l \in StepsOf(t.ev.kind),
           l \in {"hoa.post", "hoa.mark", "sync.post"} => t.want = "succeeded",
           l = "hoa.mark" => Credited(t.ev.pay)',
           t.ev.kind \in ChargeKinds /\ l \notin {"charge.layer1", "charge.post"}
             /\ HasChargeMetadata(t.ev.pay) => Credited(t.ev.pay)'
    PROVE  /\ TaskOK([t EXCEPT !.pc = l])'
           /\ \A st \in TxnStatus : (st = "succeeded" => Captured(t.ev.pay)) =>
                 TaskOK([t EXCEPT !.seen = st, !.pc = l])'
           /\ \A j \in Nat : TaskOK([t EXCEPT !.i = j, !.pc = l])'
<1>1. t.ev.pay \in Payments
  BY DEF TaskOK, Event
<1>2. ASSUME NEW u \in Task, u.ev = t.ev, u.want = t.want, u.pc = l,
             u.seen = "succeeded" => Captured(t.ev.pay)
      PROVE  TaskOK(u)'
  BY <1>1, <1>2 DEF TaskOK, Grows, OffSession, HasChargeMetadata
<1>3. t.seen = "succeeded" => Captured(t.ev.pay)
  BY DEF TaskOK
<1>4. l \in HandlerSteps
  BY DEF StepsOf, HandlerSteps
<1>5. [t EXCEPT !.pc = l] \in Task
  BY <1>4 DEF Task
<1>6. ASSUME NEW st \in TxnStatus PROVE [t EXCEPT !.seen = st, !.pc = l] \in Task
  BY <1>4 DEF Task
<1>7. ASSUME NEW j \in Nat PROVE [t EXCEPT !.i = j, !.pc = l] \in Task
  BY <1>4 DEF Task
<1>8. TaskOK([t EXCEPT !.pc = l])'
  <2>1. [t EXCEPT !.pc = l].ev = t.ev /\ [t EXCEPT !.pc = l].want = t.want
        /\ [t EXCEPT !.pc = l].pc = l /\ [t EXCEPT !.pc = l].seen = t.seen
    BY DEF Task
  <2> QED
    BY <1>2, <1>3, <1>5, <2>1
<1>9. ASSUME NEW st \in TxnStatus, st = "succeeded" => Captured(t.ev.pay)
      PROVE  TaskOK([t EXCEPT !.seen = st, !.pc = l])'
  <2> DEFINE u == [t EXCEPT !.seen = st, !.pc = l]
  <2>1. u.ev = t.ev /\ u.want = t.want /\ u.pc = l /\ u.seen = st
    BY DEF Task
  <2>2. u \in Task
    BY <1>6
  <2> HIDE DEF u
  <2>3. TaskOK(u)'
    BY <1>2, <1>9, <2>1, <2>2
  <2> QED
    BY <2>3 DEF u
<1>10. ASSUME NEW j \in Nat PROVE TaskOK([t EXCEPT !.i = j, !.pc = l])'
  <2> DEFINE u == [t EXCEPT !.i = j, !.pc = l]
  <2>1. u.ev = t.ev /\ u.want = t.want /\ u.pc = l /\ u.seen = t.seen
    BY DEF Task
  <2>2. u \in Task
    BY <1>7
  <2> HIDE DEF u
  <2>3. TaskOK(u)'
    BY <1>2, <1>3, <2>1, <2>2
  <2> QED
    BY <2>3 DEF u
<1> QED
  BY <1>8, <1>9, <1>10

\* A step that touches neither the ledger, nor a status, nor the event log, nor
\* Stripe leaves the books as they are.
LEMMA QuietStep ==
    ASSUME BooksOK, UNCHANGED <<stripeVars, credit, txn, hooks, acked>>
    PROVE  BooksOK' /\ Grows
BY DEF BooksOK, Grows, OneKeyedRow, EmittedIsTrue, OnlyCapturedMoney, AckedChargeIsCredited,
       ProcessedIsCredited, Captured, Credited, HasChargeMetadata, stripeVars

\* Posting a captured payment through the canonical writer keeps the books.
LEMMA PostKeepsBooks ==
    ASSUME TypeInv, BooksOK, NEW p \in Payments, NEW w \in KeyedWriters, PostPayment(p, w),
           Captured(p), UNCHANGED <<stripeVars, txn, hooks, acked>>
    PROVE  BooksOK' /\ Grows /\ Credited(p)'
<1>1. TypeOK /\ KeyedWriters \subseteq Writers /\ "retry-sync" \in Writers \ KeyedWriters
  BY DEF TypeInv, Writers, KeyedWriters
<1>2. /\ credit' \in [Payments -> [Writers -> Nat]]
      /\ \A q \in Payments, v \in Writers : credit'[q][v] >= credit[q][v]
      /\ \A q \in Payments, v \in Writers :
            credit'[q][v] # credit[q][v] =>
               q = p /\ v = w /\ ~Recorded(p) /\ credit'[q][v] = credit[q][v] + 1
      /\ \E v \in KeyedWriters : credit'[p][v] > 0
  BY <1>1, PostPaymentEffect
<1>3. \A q \in Payments, v \in Writers : credit[q][v] \in Nat /\ credit'[q][v] \in Nat
  BY <1>1, <1>2 DEF TypeOK
<1>4. \A q \in Payments : Credited(q) => Credited(q)'
  BY <1>2, <1>3 DEF Credited
<1>5. Grows
  BY <1>4 DEF Grows, Captured, stripeVars
<1>6. Credited(p)'
  BY <1>1, <1>2 DEF Credited
<1>7. OneKeyedRow'
  <2>1. ~Recorded(p) => \A v \in KeyedWriters : credit[p][v] = 0
    BY <1>1, <1>3 DEF Recorded
  <2>2. ASSUME NEW q \in Payments, NEW v \in KeyedWriters PROVE credit'[q][v] <= 1
    BY <1>1, <1>2, <1>3, <2>1 DEF BooksOK, OneKeyedRow
  <2>3. ASSUME NEW q \in Payments, NEW v \in KeyedWriters, NEW x \in KeyedWriters,
               credit'[q][v] > 0, credit'[q][x] > 0
        PROVE  v = x
    BY <1>1, <1>2, <1>3, <2>1, <2>3 DEF BooksOK, OneKeyedRow
  <2>4. ASSUME NEW q \in Payments, credit'[q]["retry-sync"] > 0 PROVE kind'[q] = "retry"
    <3>1. credit'[q]["retry-sync"] = credit[q]["retry-sync"]
      BY <1>1, <1>2
    <3> QED
      BY <2>4, <3>1 DEF BooksOK, OneKeyedRow, stripeVars
  <2> QED
    BY <2>2, <2>3, <2>4 DEF OneKeyedRow
<1>8. OnlyCapturedMoney'
  <2>1. ASSUME NEW q \in Payments, Credited(q)', q # p PROVE Credited(q)
    BY <1>2, <2>1 DEF Credited
  <2> QED
    BY <2>1 DEF BooksOK, OnlyCapturedMoney, Captured, stripeVars
<1>9. EmittedIsTrue' /\ AckedChargeIsCredited' /\ ProcessedIsCredited'
  <2>1. acked \subseteq Event /\ \A e \in Event \cup LoggedEvents : e.pay \in Payments
    BY DEF TypeInv, TypeOK, Event, LoggedEvents
  <2> QED
    BY <1>4, <2>1 DEF BooksOK, EmittedIsTrue, AckedChargeIsCredited, ProcessedIsCredited, Captured,
       HasChargeMetadata, stripeVars
<1> QED
  BY <1>5, <1>6, <1>7, <1>8, <1>9 DEF BooksOK

\* The invariant holds initially.
LEMMA InvInit == Init => IInv
<1> SUFFICES ASSUME Init PROVE BooksOK /\ SlotsOK
  BY TypeInit DEF IInv
<1>0. \A p \in Payments, w \in Writers : ~(credit[p][w] > 0) /\ credit[p][w] <= 1
  BY DEF Init
<1>1. \A p \in Payments : ~Credited(p) /\ txn[p] # "succeeded"
  BY <1>0 DEF Init, Credited
<1>2. OneKeyedRow
  BY <1>0 DEF OneKeyedRow, Writers
<1>3. SlotsOK
  BY DEF Init, SlotsOK, Idle
<1> QED
  BY <1>1, <1>2, <1>3
     DEF Init, BooksOK, EmittedIsTrue, OnlyCapturedMoney, AckedChargeIsCredited, ProcessedIsCredited

\* Stripe announces a capture when it makes it, and never takes one back.
LEMMA StripeSetsOK ==
    ASSUME TypeInv, BooksOK, NEW p \in Payments, ~Captured(p),
           NEW st \in {"succeeded", "processing", "declined", "failed"}, StripeSets(p, st),
           UNCHANGED <<credit, txn, hooks, acked>>
    PROVE  BooksOK' /\ Grows
<1>1. stripe' = [stripe EXCEPT ![p] = st] /\ kind' = kind
  BY DEF StripeSets
<1>2. \A q \in Payments : Captured(q) => Captured(q)'
  BY <1>1 DEF TypeInv, TypeOK, Captured
<1>3. Grows
  BY <1>1, <1>2 DEF Grows, Credited
<1>4. EmittedIsTrue'
  <2>1. SUFFICES ASSUME NEW e \in emitted', e \notin emitted
                 PROVE  e.kind # "sync" /\ (e.kind \in HoaSuccess \cup ChargeKinds => Captured(e.pay)')
    <3>1. emitted \subseteq Event /\ \A e \in Event : e.pay \in Payments
      BY DEF TypeInv, TypeOK, Event
    <3> QED
      BY <1>2, <2>1, <3>1 DEF BooksOK, EmittedIsTrue
  <2>2. PICK k \in Subscribed : e = Ev(k, p) /\ k \in (CASE st = "succeeded"  -> OnSuccess(p)
                                                         [] st = "processing" -> OnProcessing(p)
                                                         [] OTHER             -> OnFailure)
    BY <2>1 DEF StripeSets, Emit
  <2>3. e.kind = k /\ e.pay = p
    BY <2>2 DEF Ev
  <2>4. k # "sync"
    BY SubscribedAssumption DEF EventKinds, HoaKinds, HoaSuccess, ChargeKinds, ReversalKinds
  <2>5. k \in HoaSuccess \cup ChargeKinds => st = "succeeded"
    BY <2>2 DEF OnProcessing, OnFailure, HoaSuccess, ChargeKinds
  <2>6. st = "succeeded" => Captured(p)'
    BY <1>1 DEF TypeInv, TypeOK, Captured
  <2> QED
    BY <2>3, <2>4, <2>5, <2>6
<1>5. OneKeyedRow' /\ OnlyCapturedMoney'
  BY <1>1, <1>2 DEF BooksOK, OneKeyedRow, OnlyCapturedMoney, Credited
<1>6. AckedChargeIsCredited' /\ ProcessedIsCredited'
  BY <1>1 DEF BooksOK, AckedChargeIsCredited, ProcessedIsCredited, Credited, HasChargeMetadata
<1> QED
  BY <1>3, <1>4, <1>5, <1>6 DEF BooksOK

\* Stripe's steps and checkout creation preserve the invariant.
LEMMA StripeInv == ASSUME IInv, Stripe PROVE BooksOK' /\ SlotsOK'
<1> USE DEF IInv
<1>1. UNCHANGED task => SlotsOK' \/ ~Grows
  BY TaskFrame DEF SlotsOK, TaskOK, Grows, Captured, Credited, OffSession, HasChargeMetadata, Event
<1> SUFFICES ASSUME NEW p \in Payments, OpenCheckout(p) \/ Pay(p) \/ Settle(p) \/ AfterCapture(p)
             PROVE BooksOK' /\ Grows /\ UNCHANGED task
  BY <1>1 DEF Stripe
<1>2. CASE OpenCheckout(p)
  <2>1. Grows /\ UNCHANGED task
    BY <1>2 DEF OpenCheckout, Grows, Captured, Credited, stripeVars, ledgerVars
  <2>2. OnlyCapturedMoney'
    BY <1>2 DEF OpenCheckout, BooksOK, OnlyCapturedMoney, Captured, Credited, stripeVars, ledgerVars,
       TypeInv, TypeOK
  <2> QED
    BY <1>2, <2>1, <2>2 DEF OpenCheckout, BooksOK, OneKeyedRow, EmittedIsTrue, AckedChargeIsCredited,
       ProcessedIsCredited, Captured, Credited, HasChargeMetadata, stripeVars, ledgerVars
<1>3. CASE Pay(p)
  <2>1. ~Captured(p) /\ \E st \in {"succeeded", "processing", "declined", "failed"} : StripeSets(p, st)
    BY <1>3 DEF Pay, Captured
  <2> QED
    BY <1>3, <2>1, StripeSetsOK DEF Pay, txnVars, ledgerVars
<1>4. CASE Settle(p)
  <2>1. ~Captured(p) /\ \E st \in {"succeeded", "processing", "declined", "failed"} : StripeSets(p, st)
    BY <1>4 DEF Settle, Captured
  <2> QED
    BY <1>4, <2>1, StripeSetsOK DEF Settle, txnVars, ledgerVars
<1>5. CASE AfterCapture(p)
  <2>1. PICK k \in {"cc.payout.paid", "cc.charge.refunded", "cc.dispute.lost"} :
          \E q \in Owed(k) : emitted' = emitted \cup {[kind |-> k, pay |-> p, owes |-> q]}
    BY <1>5 DEF AfterCapture
  <2>2. UNCHANGED <<kind, stripe, credit, txn, hooks, acked, task>> /\ Captured(p)
    BY <1>5 DEF AfterCapture, txnVars, ledgerVars
  <2>3. EmittedIsTrue'
    BY <2>1, <2>2 DEF BooksOK, EmittedIsTrue, Captured
  <2> QED
    BY <2>2, <2>3 DEF BooksOK, Grows, OneKeyedRow, OnlyCapturedMoney, AckedChargeIsCredited,
       ProcessedIsCredited, Captured, Credited, HasChargeMetadata
<1> QED
  BY <1>2, <1>3, <1>4, <1>5

\* A slot that starts on an event or a charge knows what it must.
LEMMA ArrivalInv ==
    ASSUME IInv, NEW s \in Slots,
           (\E e \in emitted : Deliver(s, e)) \/ (\E p \in Payments : ChargeOffSession(s, p))
    PROVE  BooksOK' /\ SlotsOK'
<1> USE DEF IInv
<1>1. ASSUME NEW e \in emitted, Deliver(s, e) PROVE BooksOK' /\ SlotsOK'
  <2> DEFINE u == [pc |-> FirstStep(e), ev |-> e, want |-> Wanted(e), seen |-> "absent", i |-> 1,
                    booked |-> e.kind \in ReversalKinds /\ credit[e.pay]["stripe_charge"] > 0]
  <2>1. task' = [task EXCEPT ![s] = u] /\ UNCHANGED <<stripeVars, credit, txn, hooks, acked>>
    BY <1>1 DEF Deliver, txnVars, ledgerVars
  <2>2. BooksOK' /\ Grows
    BY <2>1, QuietStep
  <2>3. e \in Event /\ e.kind \in EventKinds \cup {"sync"} /\ e.pay \in Payments
    BY DEF TypeInv, TypeOK, Event
  <2>4. e.kind # "sync" /\ (e.kind \in HoaSuccess \cup ChargeKinds => Captured(e.pay))
    BY DEF BooksOK, EmittedIsTrue
  <2>5. FirstStep(e) \in StepsOf(e.kind)
    BY <2>3, <2>4 DEF FirstStep, StepsOf, EventKinds, HoaKinds, HoaSuccess, ChargeKinds, ReversalKinds
  <2>6. Wanted(e) = "succeeded" => Captured(e.pay)
    BY <2>4 DEF Wanted, ChargeKinds
  <2>7. FirstStep(e) \notin {"hoa.post", "hoa.mark", "sync.post"}
        /\ (e.kind \in ChargeKinds => FirstStep(e) = "charge.layer1")
    BY DEF FirstStep, HoaKinds, HoaSuccess, ChargeKinds
  <2>8. TaskOK(u)
    BY <2>3, <2>4, <2>5, <2>6, <2>7 DEF TaskOK
  <2>9. \A x : TaskOK(x) => TaskOK(x)'
    BY <2>2, TaskFrame
  <2>10. TaskOK(u)'
    <3>1. PICK x : x = u
      OBVIOUS
    <3>2. TaskOK(x)'
      BY <2>8, <2>9, <3>1
    <3> QED
      BY <3>1, <3>2 DEF TaskOK, Captured, Credited, OffSession, HasChargeMetadata
  <2> QED
    BY <2>1, <2>2, <2>10, SlotFrame
<1>2. ASSUME NEW p \in Payments, ChargeOffSession(s, p) PROVE BooksOK' /\ SlotsOK'
  <2>1. PICK st \in {"succeeded", "processing", "declined", "failed"},
             answer \in {"succeeded", "pending", "failed", "no_intent"} :
          /\ StripeSets(p, st)
          /\ answer = "succeeded" => st = "succeeded"
          /\ task' = [task EXCEPT ![s] = [pc |-> "txn.read", ev |-> Ev("sync", p),
                                          want |-> answer, seen |-> "absent", i |-> 1,
                    booked |-> FALSE]]
    BY <1>2 DEF ChargeOffSession
  <2>2. ~Captured(p) /\ OffSession(p) /\ UNCHANGED <<credit, txn, hooks, acked>>
    BY <1>2 DEF ChargeOffSession, Captured, txnVars, ledgerVars
  <2>3. BooksOK' /\ Grows
    BY <2>1, <2>2, StripeSetsOK
  <2>5. Ev("sync", p) \in Event /\ Ev("sync", p).kind = "sync" /\ Ev("sync", p).pay = p
    BY NothingOwed DEF Ev
  <2> DEFINE u == [pc |-> "txn.read", ev |-> Ev("sync", p), want |-> answer, seen |-> "absent", i |-> 1,
                    booked |-> FALSE]
  <2>6. answer = "succeeded" => Captured(p)'
    BY <2>1 DEF StripeSets, Captured, TypeInv, TypeOK
  <2>7. OffSession(p)'
    BY <2>2, <2>3 DEF OffSession, Grows
  <2>8. "txn.read" \in StepsOf("sync") /\ "sync" \notin ChargeKinds
    BY DEF StepsOf, HoaKinds, HoaSuccess, ChargeKinds
  <2>9. TaskOK(u)'
    BY <2>5, <2>6, <2>7, <2>8 DEF TaskOK
  <2> QED
    BY <2>1, <2>3, <2>9, SlotFrame
<1> QED
  BY <1>1, <1>2

\* A status may change as long as "succeeded" is said of captured money.
LEMMA TxnKeepsBooks ==
    ASSUME TypeInv, BooksOK, NEW p \in Payments, NEW st, st = "succeeded" => Captured(p),
           txn' = [txn EXCEPT ![p] = st], UNCHANGED <<stripeVars, credit, hooks, acked>>
    PROVE  BooksOK' /\ Grows
<1>1. Grows
  BY DEF Grows, Captured, Credited, stripeVars
<1>2. OnlyCapturedMoney'
  BY DEF BooksOK, OnlyCapturedMoney, Captured, Credited, stripeVars, TypeInv, TypeOK
<1> QED
  BY <1>1, <1>2 DEF BooksOK, OneKeyedRow, EmittedIsTrue, AckedChargeIsCredited, ProcessedIsCredited,
     Captured, Credited, HasChargeMetadata, stripeVars

\* The event log may change as long as "processed" is said of credited payments.
LEMMA HooksKeepBooks ==
    ASSUME TypeInv, BooksOK, NEW e \in Event, NEW st, hooks' = [hooks EXCEPT ![e] = st],
           st = "processed" /\ e.kind \in HoaSuccess => Credited(e.pay),
           UNCHANGED <<stripeVars, credit, txn, acked>>
    PROVE  BooksOK' /\ Grows
<1>1. Grows
  BY DEF Grows, Captured, Credited, stripeVars
<1>2. ProcessedIsCredited'
  BY DEF BooksOK, ProcessedIsCredited, Credited, TypeInv, TypeOK
<1> QED
  BY <1>1, <1>2 DEF BooksOK, OneKeyedRow, EmittedIsTrue, OnlyCapturedMoney, AckedChargeIsCredited,
     Captured, Credited, HasChargeMetadata, stripeVars

\* A charge event may be answered once its payment is credited.
LEMMA AckKeepsBooks ==
    ASSUME TypeInv, BooksOK, NEW e \in Event, acked' \subseteq acked \cup {e},
           e.kind \in ChargeKinds /\ HasChargeMetadata(e.pay) => Credited(e.pay),
           UNCHANGED <<stripeVars, credit, txn, hooks>>
    PROVE  BooksOK' /\ Grows
<1>1. Grows
  BY DEF Grows, Captured, Credited, stripeVars
<1>2. AckedChargeIsCredited'
  BY DEF BooksOK, AckedChargeIsCredited, Credited, HasChargeMetadata, stripeVars
<1> QED
  BY <1>1, <1>2 DEF BooksOK, OneKeyedRow, EmittedIsTrue, OnlyCapturedMoney, ProcessedIsCredited,
     Captured, Credited, stripeVars

\* The retry sweep's own insert keeps the books, for a payment of its own.
LEMMA RetryKeepsBooks ==
    ASSUME TypeInv, BooksOK, NEW p \in Payments, Captured(p), kind[p] = "retry",
           credit' = [credit EXCEPT ![p]["retry-sync"] = @ + 1],
           UNCHANGED <<stripeVars, txn, hooks, acked>>
    PROVE  BooksOK' /\ Grows
<1>1. /\ KeyedWriters \subseteq Writers /\ "retry-sync" \in Writers \ KeyedWriters
      /\ \A q \in Payments, v \in Writers : credit[q][v] \in Nat
  BY DEF Writers, KeyedWriters, TypeInv, TypeOK
<1>2. \A q \in Payments, v \in Writers :
         credit'[q][v] = IF q = p /\ v = "retry-sync" THEN credit[q][v] + 1 ELSE credit[q][v]
  BY DEF TypeInv, TypeOK
<1>3. \A q \in Payments : Credited(q) => Credited(q)'
  BY <1>1, <1>2 DEF Credited
<1>4. Grows
  BY <1>3 DEF Grows, Captured, stripeVars
<1>5. OneKeyedRow'
  BY <1>1, <1>2 DEF BooksOK, OneKeyedRow, stripeVars
<1>6. OnlyCapturedMoney'
  BY <1>2 DEF BooksOK, OnlyCapturedMoney, Credited, Captured, stripeVars
<1>7. EmittedIsTrue' /\ AckedChargeIsCredited' /\ ProcessedIsCredited'
  <2>1. acked \subseteq Event /\ \A e \in Event \cup LoggedEvents : e.pay \in Payments
    BY DEF TypeInv, TypeOK, Event, LoggedEvents
  <2> QED
    BY <1>3, <2>1 DEF BooksOK, EmittedIsTrue, AckedChargeIsCredited, ProcessedIsCredited, Captured,
       HasChargeMetadata, stripeVars
<1> QED
  BY <1>4, <1>5, <1>6, <1>7 DEF BooksOK

\* Every step of a handler preserves the invariant.
LEMMA HandlerInv ==
    ASSUME IInv, NEW s \in Slots, HandlerStep(s) \/ Die(s)
    PROVE  BooksOK' /\ SlotsOK'
<1> USE DEF IInv
<1>a. ~At(s, "idle")
  BY DEF HandlerStep, Die, At, ReadTxn, WriteTxn, LookupWebhookEvent, InsertWebhookEvent,
         CloseWebhookEvent, PostWebhookCredit, MarkWebhookProcessed, SafetyNet, CheckCharge,
         PostCharge, ClaimFailure, FindFailedTxn, SetFailed, MarkForRetry, MarkFailureProcessed,
         CheckReversal, FindOriginalCharge, InsertReversal, PostSyncCredit, Respond
<1>t. task[s] \in Task /\ TaskOK(task[s])
  BY <1>a DEF SlotsOK, TypeInv, TypeOK, At
\* t is the slot before the step, as a value.
<1>x. PICK t \in Task : t = task[s]
  BY <1>t
<1> DEFINE p == t.ev.pay
<1>b. TaskOK(t) /\ t.ev \in Event /\ p \in Payments /\ p = PayOf(s) /\ t.ev = task[s].ev
      /\ \A l : At(s, l) <=> t.pc = l
  BY <1>t, <1>x DEF PayOf, TaskOK, Event, At
<1>k. /\ HoaKinds \cap ChargeKinds = {}
      /\ "cc.failed" \notin HoaKinds \cup ChargeKinds
      /\ "sync" \notin HoaKinds \cup ChargeKinds
      /\ ReversalKinds \cap (HoaKinds \cup ChargeKinds) = {}
  BY DEF HoaKinds, HoaSuccess, ChargeKinds, ReversalKinds
\* A handler that moves on to step l.
<1>m. ASSUME Grows, NEW l \in StepsOf(t.ev.kind),
             l \in {"hoa.post", "hoa.mark", "sync.post"} => t.want = "succeeded",
             l = "hoa.mark" => Credited(p)',
             t.ev.kind \in ChargeKinds /\ l \notin {"charge.layer1", "charge.post"}
               /\ HasChargeMetadata(p) => Credited(p)',
             \/ Go(s, l)
             \/ \E st \in TxnStatus : /\ st = "succeeded" => Captured(p)
                                      /\ task' = [task EXCEPT ![s].seen = st, ![s].pc = l]
             \/ \E j \in Nat : task' = [task EXCEPT ![s].i = j, ![s].pc = l]
      PROVE  SlotsOK'
  <2>1. /\ TaskOK([t EXCEPT !.pc = l])'
        /\ \A st \in TxnStatus : (st = "succeeded" => Captured(p)) =>
              TaskOK([t EXCEPT !.seen = st, !.pc = l])'
        /\ \A j \in Nat : TaskOK([t EXCEPT !.i = j, !.pc = l])'
    BY <1>b, <1>m, MoveOK
  <2>2. CASE Go(s, l)
    <3>1. task' = [task EXCEPT ![s] = [t EXCEPT !.pc = l]]
      BY <1>x, <2>2 DEF Go, TypeInv, TypeOK
    <3> QED
      BY <1>m, <2>1, <3>1, SlotFrame
  <2>3. ASSUME NEW st \in TxnStatus, st = "succeeded" => Captured(p),
               task' = [task EXCEPT ![s].seen = st, ![s].pc = l]
        PROVE  SlotsOK'
    <3>1. task' = [task EXCEPT ![s] = [t EXCEPT !.seen = st, !.pc = l]]
      BY <1>x, <2>3 DEF TypeInv, TypeOK
    <3> QED
      BY <1>m, <2>1, <2>3, <3>1, SlotFrame
  <2>4. ASSUME NEW j \in Nat, task' = [task EXCEPT ![s].i = j, ![s].pc = l]
        PROVE  SlotsOK'
    <3>1. task' = [task EXCEPT ![s] = [t EXCEPT !.i = j, !.pc = l]]
      BY <1>x, <2>4 DEF TypeInv, TypeOK
    <3> QED
      BY <1>m, <2>1, <3>1, SlotFrame
  <2> QED
    BY <1>m, <2>2, <2>3, <2>4
<1>i. ASSUME Grows, task' = [task EXCEPT ![s] = Idle] PROVE SlotsOK'
  <2>1. Idle.pc = "idle"
    BY DEF Idle
  <2> QED
    BY <1>i, <2>1, SlotFrame
\* What the step t is at says of its event.
<1>s. /\ t.pc \in {"hoa.lookup", "hoa.insert", "hoa.close", "hoa.post", "hoa.mark", "hoa.net"}
            => t.ev.kind \in HoaKinds
      /\ t.pc \in {"charge.layer1", "charge.post"} => t.ev.kind \in ChargeKinds
      /\ t.pc \in {"fail.claim", "fail.find", "fail.set", "fail.retry", "fail.mark"}
            => t.ev.kind = "cc.failed"
      /\ t.pc \in {"sync.post", "sync.retry"} => t.ev.kind = "sync"
      /\ t.pc \in {"rev.check", "rev.original", "rev.insert"}
            => t.ev.kind \notin HoaKinds \cup ChargeKinds \cup {"cc.pending", "cc.failed", "sync"}
      /\ t.pc \in {"txn.read", "txn.write"} => AfterTxn(t) \in StepsOf(t.ev.kind) /\ "txn.write" \in StepsOf(t.ev.kind)
      /\ t.ev.kind \in ChargeKinds => AfterCharge(t) \in StepsOf(t.ev.kind)
      /\ "done" \in StepsOf(t.ev.kind)
  BY <1>b, <1>k DEF TaskOK, StepsOf, AfterTxn, AfterCharge
<1>n. /\ AfterTxn(t) \notin {"hoa.post", "hoa.mark"} /\ (AfterTxn(t) = "sync.post" => t.want = "succeeded")
      /\ AfterCharge(t) \notin {"hoa.post", "hoa.mark", "sync.post"}
  BY DEF AfterTxn, AfterCharge
\* What the event of t and its answer say of the money.
<1>c. /\ t.want = "succeeded" \/ t.seen = "succeeded" \/ t.ev.kind \in ChargeKinds => Captured(p)
      /\ t.pc \in {"hoa.post", "hoa.mark", "sync.post"} => t.want = "succeeded"
      /\ t.pc = "hoa.mark" => Credited(p)
      /\ t.ev.kind \in ChargeKinds /\ t.pc \notin {"charge.layer1", "charge.post"}
           /\ HasChargeMetadata(p) => Credited(p)
  BY <1>b DEF TaskOK
<1>g. Grows => /\ Credited(p) => Credited(p)'
               /\ kind' = kind
  BY <1>b DEF Grows
<1> HIDE DEF p
<1>1. CASE ReadTxn(s)
  <2>1. t.pc = "txn.read" /\ UNCHANGED <<stripeVars, credit, txn, hooks, acked>>
    BY <1>1, <1>b DEF ReadTxn, txnVars, ledgerVars
  <2>2. BooksOK' /\ Grows
    BY <2>1, QuietStep
  <2>3. txn[p] \in TxnStatus /\ (txn[p] = "succeeded" => Captured(p))
    BY <1>b DEF TypeInv, TypeOK, BooksOK, OnlyCapturedMoney
  <2>4. PICK l \in {"txn.write", AfterTxn(t)} : task' = [task EXCEPT ![s].seen = txn[p], ![s].pc = l]
    BY <1>1, <1>b, <1>x DEF ReadTxn
  <2>5. PICK st \in TxnStatus : st = txn[p]
    BY <2>3
  <2>6. SlotsOK'
    BY <1>c, <1>g, <1>m, <1>n, <1>s, <2>1, <2>2, <2>3, <2>4, <2>5
  <2> QED
    BY <2>2, <2>6
<1>2. CASE WriteTxn(s)
  <2>1. PICK st : st = IF t.want = "no_intent" THEN "failed" ELSE t.want
    OBVIOUS
  <2>2. /\ st \in TxnStatus
        /\ st = "succeeded" => Captured(p)
    BY <1>c, <2>1 DEF Task, TxnStatus
  <2>3. /\ t.pc = "txn.write" /\ UNCHANGED <<stripeVars, credit, hooks, acked>>
        /\ txn' = [txn EXCEPT ![p] = st]
        /\ task' = [task EXCEPT ![s].seen = st, ![s].pc = AfterTxn(t)]
    BY <1>2, <1>b, <1>x, <2>1 DEF WriteTxn, ledgerVars
  <2>4. BooksOK' /\ Grows
    BY <1>b, <2>2, <2>3, TxnKeepsBooks
  <2>5. PICK l \in StepsOf(t.ev.kind) : l = AfterTxn(t)
    BY <1>s, <2>3
  <2>6. SlotsOK'
    BY <1>c, <1>g, <1>m, <1>n, <2>2, <2>3, <2>4, <2>5
  <2> QED
    BY <2>4, <2>6
<1>3. CASE LookupWebhookEvent(s)
  <2>1. t.pc = "hoa.lookup" /\ UNCHANGED <<stripeVars, credit, txn, hooks, acked>>
    BY <1>3, <1>b DEF LookupWebhookEvent, txnVars, ledgerVars
  <2>2. BooksOK' /\ Grows
    BY <2>1, QuietStep
  <2>3. PICK l \in {"hoa.insert", "hoa.net"} : Go(s, l)
    BY <1>3, <1>b, <1>x DEF LookupWebhookEvent
  <2>4. l \in StepsOf(t.ev.kind)
    BY <1>k, <1>s, <2>1 DEF StepsOf
  <2>5. SlotsOK'
    BY <1>c, <1>g, <1>k, <1>m, <1>s, <2>1, <2>2, <2>3, <2>4
  <2> QED
    BY <2>2, <2>5
<1>4. CASE InsertWebhookEvent(s)
  <2>1. t.pc = "hoa.insert" /\ UNCHANGED <<stripeVars, credit, txn, acked>>
    BY <1>4, <1>b DEF InsertWebhookEvent, txnVars, ledgerVars
  <2>2. CASE hooks[t.ev] # "none"
    <3>1. UNCHANGED hooks /\ task' = [task EXCEPT ![s] = Idle]
      BY <1>4, <1>b, <2>2 DEF InsertWebhookEvent
    <3> QED
      BY <1>i, <2>1, <3>1, QuietStep
  <2>3. CASE hooks[t.ev] = "none"
    <3>1. PICK l \in {"hoa.post", "hoa.close"} :
            /\ Go(s, l) /\ (l = "hoa.post" => t.want = "succeeded")
            /\ hooks' = [hooks EXCEPT ![t.ev] = "received"]
      BY <1>4, <1>b, <1>x, <2>3 DEF InsertWebhookEvent
    <3>2. BooksOK' /\ Grows
      BY <1>b, <2>1, <3>1, HooksKeepBooks
    <3>3. l \in StepsOf(t.ev.kind) /\ t.ev.kind \notin ChargeKinds
      BY <1>k, <1>s, <2>1 DEF StepsOf
    <3>4. SlotsOK'
      BY <1>m, <3>1, <3>2, <3>3
    <3> QED
      BY <3>2, <3>4
  <2> QED
    BY <2>2, <2>3
<1>5. CASE CloseWebhookEvent(s)
  <2>1. PICK st \in {"failed", "ignored"} : /\ t.pc = "hoa.close" /\ Go(s, "hoa.net")
                  /\ hooks' = [hooks EXCEPT ![t.ev] = st]
                  /\ UNCHANGED <<stripeVars, credit, txn, acked>>
    BY <1>5, <1>b, <1>x DEF CloseWebhookEvent, txnVars, ledgerVars
  <2>2. st = "processed" /\ t.ev.kind \in HoaSuccess => Credited(p)
    BY <1>c, <1>k, <1>s, <2>1 DEF HoaKinds
  <2>3. BooksOK' /\ Grows
    BY <1>b, <2>1, <2>2, HooksKeepBooks DEF p
  <2>4. "hoa.net" \in StepsOf(t.ev.kind)
    BY <1>s, <2>1 DEF StepsOf
  <2>5. SlotsOK'
    BY <1>c, <1>g, <1>k, <1>m, <1>s, <2>1, <2>3, <2>4
  <2> QED
    BY <2>3, <2>5
<1>6. CASE PostWebhookCredit(s)
  <2>1. /\ t.pc = "hoa.post" /\ PostPayment(p, "payment-webhook") /\ Go(s, "hoa.mark")
        /\ UNCHANGED <<stripeVars, txn, hooks, acked>>
    BY <1>6, <1>b, <1>x DEF PostWebhookCredit, txnVars
  <2>2. Captured(p) /\ "payment-webhook" \in KeyedWriters
    BY <1>c, <1>s, <2>1 DEF KeyedWriters
  <2>3. BooksOK' /\ Grows /\ Credited(p)'
    BY <1>b, <2>1, <2>2, PostKeepsBooks
  <2>4. "hoa.mark" \in StepsOf(t.ev.kind)
    BY <1>s, <2>1 DEF StepsOf
  <2>5. SlotsOK'
    BY <1>c, <1>k, <1>m, <1>n, <1>s, <2>1, <2>3, <2>4
  <2> QED
    BY <2>3, <2>5
<1>7. CASE MarkWebhookProcessed(s)
  <2>1. PICK st \in {"processed"} : /\ t.pc = "hoa.mark" /\ Go(s, "hoa.net")
                  /\ hooks' = [hooks EXCEPT ![t.ev] = st]
                  /\ UNCHANGED <<stripeVars, credit, txn, acked>>
    BY <1>7, <1>b, <1>x DEF MarkWebhookProcessed, txnVars, ledgerVars
  <2>2. st = "processed" /\ t.ev.kind \in HoaSuccess => Credited(p)
    BY <1>c, <1>k, <1>s, <2>1 DEF HoaKinds
  <2>3. BooksOK' /\ Grows
    BY <1>b, <2>1, <2>2, HooksKeepBooks DEF p
  <2>4. "hoa.net" \in StepsOf(t.ev.kind)
    BY <1>s, <2>1 DEF StepsOf
  <2>5. SlotsOK'
    BY <1>c, <1>g, <1>k, <1>m, <1>s, <2>1, <2>3, <2>4
  <2> QED
    BY <2>3, <2>5
<1>8. CASE SafetyNet(s)
  <2>1. t.pc = "hoa.net" /\ Go(s, "done") /\ UNCHANGED <<stripeVars, txn, hooks, acked>>
    BY <1>8, <1>b DEF SafetyNet, txnVars
  <2>2. BooksOK' /\ Grows
    <3>1. CASE t.seen = "succeeded"
      <4>1. PostPayment(p, "safety-net") /\ Captured(p) /\ "safety-net" \in KeyedWriters
        BY <1>8, <1>b, <1>c, <1>x, <3>1 DEF SafetyNet, KeyedWriters
      <4> QED
        BY <1>b, <2>1, <4>1, PostKeepsBooks
    <3>2. CASE t.seen # "succeeded"
      <4>1. UNCHANGED credit
        BY <1>8, <1>x, <3>2 DEF SafetyNet, ledgerVars
      <4> QED
        BY <2>1, <4>1, QuietStep
    <3> QED
      BY <3>1, <3>2
  <2>3. SlotsOK'
    BY <1>k, <1>m, <1>s, <2>1, <2>2
  <2> QED
    BY <2>2, <2>3
<1>9. CASE CheckCharge(s)
  <2>1. t.pc = "charge.layer1" /\ UNCHANGED <<stripeVars, credit, txn, hooks, acked>>
    BY <1>9, <1>b DEF CheckCharge, txnVars, ledgerVars
  <2>2. BooksOK' /\ Grows
    BY <2>1, QuietStep
  <2>3. CASE HasChargeMetadata(p) /\ credit[p]["stripe_charge"] = 0
    <3>1. Go(s, "charge.post")
      BY <1>9, <1>b, <2>3 DEF CheckCharge
    <3>2. "charge.post" \in StepsOf(t.ev.kind)
      BY <1>k, <1>s, <2>1 DEF StepsOf
    <3>3. SlotsOK'
      BY <1>m, <2>2, <3>1, <3>2
    <3> QED
      BY <2>2, <3>3
  <2>4. CASE ~(HasChargeMetadata(p) /\ credit[p]["stripe_charge"] = 0)
    <3>1. Go(s, AfterCharge(t))
      BY <1>9, <1>b, <1>x, <2>4 DEF CheckCharge
    <3>2. "stripe_charge" \in Writers
      BY DEF Writers, KeyedWriters
    <3>3. credit[p]["stripe_charge"] \in Nat
      BY <1>b, <3>2 DEF TypeInv, TypeOK
    <3>4. HasChargeMetadata(p) => Credited(p)
      BY <2>4, <3>2, <3>3 DEF Credited
    <3>5. SlotsOK'
      BY <1>g, <1>m, <1>n, <1>s, <2>1, <2>2, <3>1, <3>4
    <3> QED
      BY <2>2, <3>5
  <2> QED
    BY <2>3, <2>4
<1>10. CASE PostCharge(s)
  <2>1. /\ t.pc = "charge.post" /\ PostPayment(p, "stripe_charge") /\ Go(s, AfterCharge(t))
        /\ UNCHANGED <<stripeVars, txn, hooks, acked>>
    BY <1>10, <1>b, <1>x DEF PostCharge, txnVars
  <2>2. Captured(p) /\ "stripe_charge" \in KeyedWriters
    BY <1>c, <1>s, <2>1 DEF KeyedWriters
  <2>3. BooksOK' /\ Grows /\ Credited(p)'
    BY <1>b, <2>1, <2>2, PostKeepsBooks
  <2>4. AfterCharge(t) \in StepsOf(t.ev.kind)
    BY <1>s, <2>1 DEF StepsOf
  <2>5. SlotsOK'
    BY <1>c, <1>k, <1>m, <1>n, <1>s, <2>1, <2>3, <2>4
  <2> QED
    BY <2>3, <2>5
<1>11. CASE ClaimFailure(s)
  <2>1. t.pc = "fail.claim" /\ UNCHANGED <<stripeVars, credit, txn, acked>>
    BY <1>11, <1>b DEF ClaimFailure, txnVars, ledgerVars
  <2>2. BooksOK' /\ Grows
    <3>1. CASE UNCHANGED hooks
      BY <2>1, <3>1, QuietStep
    <3>2. CASE hooks' = [hooks EXCEPT ![t.ev] = "received"]
      BY <1>b, <2>1, <3>2, HooksKeepBooks
    <3> QED
      BY <1>11, <1>b, <3>1, <3>2 DEF ClaimFailure
  <2>3. PICK l \in {"done", "fail.find"} : Go(s, l)
    BY <1>11 DEF ClaimFailure
  <2>4. l \in StepsOf(t.ev.kind) /\ t.ev.kind \notin ChargeKinds
    BY <1>k, <1>s, <2>1 DEF StepsOf
  <2>5. SlotsOK'
    BY <1>m, <2>2, <2>3, <2>4
  <2> QED
    BY <2>2, <2>5
<1>12. CASE FindFailedTxn(s)
  <2>1. t.pc = "fail.find" /\ UNCHANGED <<stripeVars, credit, txn, hooks, acked>>
    BY <1>12, <1>b DEF FindFailedTxn, txnVars, ledgerVars
  <2>2. BooksOK' /\ Grows
    BY <2>1, QuietStep
  <2>3. PICK l \in {"fail.set", "fail.mark"} : Go(s, l)
    BY <1>12, <1>b, <1>x DEF FindFailedTxn
  <2>4. l \in StepsOf(t.ev.kind)
    BY <1>k, <1>s, <2>1 DEF StepsOf
  <2>5. SlotsOK'
    BY <1>c, <1>g, <1>k, <1>m, <1>s, <2>1, <2>2, <2>3, <2>4
  <2> QED
    BY <2>2, <2>5
<1>13. CASE SetFailed(s)
  <2>1. /\ t.pc = "fail.set" /\ Go(s, "fail.retry") /\ txn' = [txn EXCEPT ![p] = "failed"]
        /\ UNCHANGED <<stripeVars, credit, hooks, acked>>
    BY <1>13, <1>b DEF SetFailed, ledgerVars
  <2>2. BooksOK' /\ Grows
    BY <1>b, <2>1, TxnKeepsBooks
  <2>3. "fail.retry" \in StepsOf(t.ev.kind) /\ t.ev.kind \notin ChargeKinds
    BY <1>k, <1>s, <2>1 DEF StepsOf
  <2>4. SlotsOK'
    BY <1>m, <2>1, <2>2, <2>3
  <2> QED
    BY <2>2, <2>4
<1>14. CASE MarkForRetry(s)
  <2>1. t.pc \in {"fail.retry", "sync.retry"} /\ UNCHANGED <<stripeVars, credit, txn, hooks, acked>>
    BY <1>14, <1>b DEF MarkForRetry, ledgerVars
  <2>2. BooksOK' /\ Grows
    BY <2>1, QuietStep
  <2>3. PICK l \in IF t.pc = "sync.retry" THEN {"done"} ELSE {"fail.mark"} : Go(s, l)
    BY <1>14, <1>b, <1>x DEF MarkForRetry
  <2>4. l \in StepsOf(t.ev.kind)
    BY <1>k, <1>s, <2>1 DEF StepsOf
  <2>5. SlotsOK'
    BY <1>c, <1>g, <1>k, <1>m, <1>s, <2>1, <2>2, <2>3, <2>4
  <2> QED
    BY <2>2, <2>5
<1>15. CASE MarkFailureProcessed(s)
  <2>1. PICK st \in {"processed"} : /\ t.pc = "fail.mark" /\ Go(s, "done")
                  /\ hooks' = [hooks EXCEPT ![t.ev] = st]
                  /\ UNCHANGED <<stripeVars, credit, txn, acked>>
    BY <1>15, <1>b, <1>x DEF MarkFailureProcessed, txnVars, ledgerVars
  <2>2. st = "processed" /\ t.ev.kind \in HoaSuccess => Credited(p)
    BY <1>c, <1>k, <1>s, <2>1 DEF HoaKinds
  <2>3. BooksOK' /\ Grows
    BY <1>b, <2>1, <2>2, HooksKeepBooks DEF p
  <2>4. "done" \in StepsOf(t.ev.kind)
    BY <1>s, <2>1 DEF StepsOf
  <2>5. SlotsOK'
    BY <1>c, <1>g, <1>k, <1>m, <1>s, <2>1, <2>3, <2>4
  <2> QED
    BY <2>3, <2>5
\* The reversal loop, whichever way it goes on.
<1>r. ASSUME Grows, t.pc \in {"rev.check", "rev.original", "rev.insert"},
             NextReversal(s) \/ Go(s, "rev.original") \/ Go(s, "rev.insert")
      PROVE  SlotsOK'
  <2>1. t.ev.kind \notin ChargeKinds /\ {"rev.check", "rev.original", "rev.insert", "done"} \subseteq StepsOf(t.ev.kind)
    BY <1>r, <1>s DEF StepsOf
  <2>2. CASE NextReversal(s)
    <3>1. PICK l \in {"rev.check", "done"} : task' = [task EXCEPT ![s].i = @ + 1, ![s].pc = l]
      BY <2>2 DEF NextReversal
    <3>2. PICK j \in Nat : j = task[s].i + 1
      BY <1>x DEF Task
    <3>3. task' = [task EXCEPT ![s].i = j, ![s].pc = l]
      BY <3>1, <3>2
    <3> QED
      BY <1>m, <1>r, <2>1, <3>1, <3>3
  <2>3. ASSUME NEW l \in {"rev.original", "rev.insert"}, Go(s, l) PROVE SlotsOK'
    BY <1>m, <1>r, <2>1, <2>3
  <2> QED
    BY <1>r, <2>2, <2>3
<1>16. CASE CheckReversal(s)
  <2>1. t.pc = "rev.check" /\ UNCHANGED <<stripeVars, credit, txn, hooks, acked>>
    BY <1>16, <1>b DEF CheckReversal, txnVars, ledgerVars
  <2>2. BooksOK' /\ Grows
    BY <2>1, QuietStep
  <2>3. SlotsOK'
    BY <1>16, <1>r, <2>1, <2>2 DEF CheckReversal
  <2> QED
    BY <2>2, <2>3
<1>17. CASE FindOriginalCharge(s)
  <2>1. t.pc = "rev.original" /\ UNCHANGED <<stripeVars, credit, txn, hooks, acked>>
    BY <1>17, <1>b DEF FindOriginalCharge, txnVars, ledgerVars
  <2>2. BooksOK' /\ Grows
    BY <2>1, QuietStep
  <2>3. SlotsOK'
    BY <1>17, <1>r, <2>1, <2>2 DEF FindOriginalCharge
  <2> QED
    BY <2>2, <2>3
<1>18. CASE InsertReversal(s)
  <2>1. t.pc = "rev.insert" /\ UNCHANGED <<stripeVars, credit, txn, hooks, acked>>
    BY <1>18, <1>b DEF InsertReversal, txnVars
  <2>2. BooksOK' /\ Grows
    BY <2>1, QuietStep
  <2>3. SlotsOK'
    BY <1>18, <1>r, <2>1, <2>2 DEF InsertReversal
  <2> QED
    BY <2>2, <2>3
<1>19. CASE PostSyncCredit(s)
  <2>1. t.pc = "sync.post" /\ Go(s, "done") /\ UNCHANGED <<stripeVars, txn, hooks, acked>>
    BY <1>19, <1>b DEF PostSyncCredit, txnVars
  <2>2. t.ev.kind = "sync" /\ Captured(p) /\ OffSession(p)
    BY <1>b, <1>c, <1>s, <2>1 DEF TaskOK, p
  <2>3. BooksOK' /\ Grows
    <3>1. CASE kind[p] = "autopay"
      <4>1. PostPayment(p, "autopay-sync") /\ "autopay-sync" \in KeyedWriters
        BY <1>19, <1>b, <3>1 DEF PostSyncCredit, KeyedWriters
      <4> QED
        BY <1>b, <2>1, <2>2, <4>1, PostKeepsBooks
    <3>2. CASE kind[p] # "autopay"
      <4>1. credit' = [credit EXCEPT ![p]["retry-sync"] = @ + 1] /\ kind[p] = "retry"
        BY <1>19, <1>b, <2>2, <3>2 DEF PostSyncCredit, OffSession
      <4> QED
        BY <1>b, <2>1, <2>2, <4>1, RetryKeepsBooks
    <3> QED
      BY <3>1, <3>2
  <2>4. SlotsOK'
    BY <1>k, <1>m, <1>s, <2>1, <2>2, <2>3
  <2> QED
    BY <2>3, <2>4
<1>20. CASE Respond(s)
  <2>1. /\ t.pc = "done" /\ task' = [task EXCEPT ![s] = Idle] /\ acked' \subseteq acked \cup {t.ev}
        /\ UNCHANGED <<stripeVars, credit, txn, hooks>>
    BY <1>20, <1>b DEF Respond, txnVars, ledgerVars
  <2>2. BooksOK' /\ Grows
    BY <1>b, <1>c, <2>1, AckKeepsBooks DEF p
  <2> QED
    BY <1>i, <2>1, <2>2
<1>21. CASE Die(s)
  <2>1. task' = [task EXCEPT ![s] = Idle] /\ UNCHANGED <<stripeVars, credit, txn, hooks, acked>>
    BY <1>21 DEF Die, txnVars, ledgerVars
  <2> QED
    BY <1>i, <2>1, QuietStep
<1> QED
  BY <1>1, <1>2, <1>3, <1>4, <1>5, <1>6, <1>7, <1>8, <1>9, <1>10, <1>11, <1>12, <1>13, <1>14,
     <1>15, <1>16, <1>17, <1>18, <1>19, <1>20, <1>21 DEF HandlerStep

\* The invariant is inductive.
LEMMA InvNext == IInv /\ [Next]_vars => IInv'
<1> SUFFICES ASSUME IInv, [Next]_vars PROVE IInv'
  OBVIOUS
<1>1. TypeInv'
  BY TypeNext DEF IInv
<1>2. ASSUME NEW e \in emitted, AckUnhandled(e) PROVE BooksOK' /\ SlotsOK'
  <2>1. UNCHANGED <<stripeVars, credit, txn, hooks, task>> /\ acked' \subseteq acked \cup {e} /\ e.kind \in HoaKinds
    BY <1>2 DEF AckUnhandled, txnVars, ledgerVars
  <2>2. e \in Event /\ e.kind \notin ChargeKinds
    BY <2>1 DEF IInv, TypeInv, TypeOK, HoaKinds, HoaSuccess, ChargeKinds
  <2>3. BooksOK' /\ Grows
    BY <2>1, <2>2, AckKeepsBooks DEF IInv
  <2>4. SlotsOK'
    BY <2>1 DEF IInv, SlotsOK, TaskOK, Captured, Credited, OffSession, HasChargeMetadata, stripeVars
  <2> QED
    BY <2>3, <2>4
<1>3. CASE UNCHANGED vars
  <2>1. UNCHANGED <<stripeVars, credit, txn, hooks, acked, task>>
    BY <1>3 DEF vars, txnVars, ledgerVars
  <2>2. BooksOK'
    BY <2>1, QuietStep DEF IInv
  <2>3. SlotsOK'
    BY <2>1 DEF IInv, SlotsOK, TaskOK, Captured, Credited, OffSession, HasChargeMetadata, stripeVars
  <2> QED
    BY <1>1, <2>2, <2>3 DEF IInv
<1>4. CASE Stripe
  BY <1>1, <1>4, StripeInv DEF IInv
<1>5. ASSUME NEW s \in Slots,
             (\E e \in emitted : Deliver(s, e)) \/ (\E p \in Payments : ChargeOffSession(s, p))
      PROVE  IInv'
  BY <1>1, <1>5, ArrivalInv DEF IInv
<1>6. ASSUME NEW s \in Slots, HandlerStep(s) \/ Die(s) PROVE IInv'
  BY <1>1, <1>6, HandlerInv DEF IInv
<1> QED
  BY <1>1, <1>2, <1>3, <1>4, <1>5, <1>6 DEF Next, IInv

\* The invariant holds in every reachable state.
THEOREM Invariance == Spec => []IInv
BY InvInit, InvNext, PTL DEF Spec

\* One keyed row is one row: outside the retry sweep no payment has two.
LEMMA OneRow == IInv => NoDoubleCredit
<1> SUFFICES ASSUME IInv, NEW p \in Payments, kind[p] # "retry" PROVE CreditCount(p) <= 1
  BY DEF NoDoubleCredit
<1>1. \A w \in Writers : credit[p][w] \in Nat
  BY DEF IInv, TypeInv, TypeOK
<1>2. /\ \A w \in KeyedWriters : credit[p][w] <= 1
      /\ \A v, w \in KeyedWriters : credit[p][v] > 0 /\ credit[p][w] > 0 => v = w
      /\ ~(credit[p]["retry-sync"] > 0)
  BY DEF IInv, BooksOK, OneKeyedRow
<1> DEFINE n(w) == credit[p][w]
<1>3. /\ n("payment-webhook") \in {0, 1} /\ n("stripe_charge") \in {0, 1}
      /\ n("safety-net") \in {0, 1} /\ n("autopay-sync") \in {0, 1} /\ n("retry-sync") = 0
  BY <1>1, <1>2 DEF Writers, KeyedWriters
<1>4. \A v, w \in KeyedWriters : n(v) = 1 /\ n(w) = 1 => v = w
  BY <1>2
<1>5. CreditCount(p) = n("payment-webhook") + n("stripe_charge") + n("safety-net")
                      + n("autopay-sync") + n("retry-sync")
  BY DEF CreditCount
<1> HIDE DEF n
<1> QED
  BY <1>3, <1>4, <1>5 DEF KeyedWriters

\* Both endpoints, the safety net and the autopay sweep together post at most
\* one credit of a payment, with any number of concurrent deliveries and deaths.
THEOREM AtMostOneCredit == Spec => []NoDoubleCredit
BY Invariance, OneRow, PTL

\* No credit and no succeeded transaction without captured money.
THEOREM MoneyIsReal == Spec => []OnlyCapturedMoney
<1>1. IInv => OnlyCapturedMoney
  BY DEF IInv, BooksOK
<1> QED
  BY <1>1, Invariance, PTL

\* An answered charge.succeeded or payout.paid has its credit.
THEOREM AnsweredChargesAreCredited == Spec => []AckedChargeIsCredited
<1>1. IInv => AckedChargeIsCredited
  BY DEF IInv, BooksOK
<1> QED
  BY <1>1, Invariance, PTL

\* A success the event log calls processed has its credit.
THEOREM LogIsTrue == Spec => []ProcessedIsCredited
<1>1. IInv => ProcessedIsCredited
  BY DEF IInv, BooksOK
<1> QED
  BY <1>1, Invariance, PTL

--------------------------------------------------------------------------------
(* PaymentWebhooks implements PaymentCredit.                                *)

\* The two kinds of step the ledger and Stripe's captures know.
LedgerStep ==
    /\ UNCHANGED <<kind, stripe>>
    /\ \/ UNCHANGED credit
       \/ \E p \in Payments, w \in KeyedWriters : PostPayment(p, w)
       \/ \E p \in Payments : credit' = [credit EXCEPT ![p]["retry-sync"] = @ + 1]
StripeStatus == {"succeeded", "processing", "declined", "failed"}
CaptureStep == UNCHANGED credit /\ \E p \in Payments, st \in StripeStatus : ~Captured(p) /\ StripeSets(p, st)

\* Every step is one of the two.
LEMMA StepShape == ASSUME TypeInv, [Next]_vars PROVE LedgerStep \/ CaptureStep
<1> USE DEF stripeVars, txnVars, ledgerVars
<1>1. CASE UNCHANGED vars
  BY <1>1 DEF vars, LedgerStep
<1>2. CASE Stripe
  <2> SUFFICES ASSUME NEW p \in Payments, OpenCheckout(p) \/ Pay(p) \/ Settle(p) \/ AfterCapture(p)
               PROVE  LedgerStep \/ CaptureStep
    BY <1>2 DEF Stripe
  <2> QED
    BY DEF OpenCheckout, Pay, Settle, AfterCapture, LedgerStep, CaptureStep, StripeStatus, Captured
<1>3. ASSUME NEW e \in emitted, AckUnhandled(e) PROVE LedgerStep
  BY <1>3 DEF AckUnhandled, LedgerStep
<1>4. ASSUME NEW s \in Slots, NEW e \in emitted, Deliver(s, e) PROVE LedgerStep
  BY <1>4 DEF Deliver, LedgerStep
<1>5. ASSUME NEW s \in Slots, NEW p \in Payments, ChargeOffSession(s, p) PROVE CaptureStep
  BY <1>5 DEF ChargeOffSession, CaptureStep, StripeStatus, Captured
<1>6. ASSUME NEW s \in Slots, HandlerStep(s) \/ Die(s) PROVE LedgerStep
  <2>1. ~At(s, "idle") => PayOf(s) \in Payments
    BY DEF TypeInv, BusySlots, At, PayOf, Event
  <2>2. {"payment-webhook", "stripe_charge", "safety-net", "autopay-sync"} \subseteq KeyedWriters
    BY DEF KeyedWriters
  <2>3. CASE PostWebhookCredit(s) \/ SafetyNet(s) \/ PostCharge(s) \/ PostSyncCredit(s)
    BY <2>1, <2>2, <2>3 DEF PostWebhookCredit, SafetyNet, PostCharge, PostSyncCredit, At, LedgerStep
  <2>4. CASE ~(PostWebhookCredit(s) \/ SafetyNet(s) \/ PostCharge(s) \/ PostSyncCredit(s))
    BY <1>6, <2>4 DEF HandlerStep, Die, LedgerStep, ReadTxn, WriteTxn, LookupWebhookEvent,
       InsertWebhookEvent, CloseWebhookEvent, MarkWebhookProcessed, CheckCharge, ClaimFailure,
       FindFailedTxn, SetFailed, MarkForRetry, MarkFailureProcessed, CheckReversal,
       FindOriginalCharge, InsertReversal, Respond
  <2> QED
    BY <2>3, <2>4
<1> QED
  BY <1>1, <1>2, <1>3, <1>4, <1>5, <1>6 DEF Next

\* The initial states map to the initial state of PaymentCredit.
LEMMA InitRefines == Init => Abstract!Init
<1> SUFFICES ASSUME Init PROVE Abstract!Init
  OBVIOUS
<1>1. \A p \in Payments : ~Captured(p)
  BY DEF Init, Captured
<1>2. \A p \in Payments : CreditCount(p) = 0
  <2>1. \A p \in Payments, w \in Writers : credit[p][w] = 0
    BY DEF Init
  <2>2. ASSUME NEW p \in Payments PROVE CreditCount(p) = 0
    <3>1. /\ credit[p]["payment-webhook"] = 0 /\ credit[p]["stripe_charge"] = 0
          /\ credit[p]["safety-net"] = 0 /\ credit[p]["autopay-sync"] = 0
          /\ credit[p]["retry-sync"] = 0
      BY <2>1 DEF Writers, KeyedWriters
    <3> QED
      BY <3>1 DEF CreditCount
  <2> QED
    BY <2>2
<1> QED
  BY <1>1, <1>2 DEF Abstract!Init

\* Of five counters that add up to one, one is positive.
LEMMA OneOfFive ==
    ASSUME NEW a \in Nat, NEW b \in Nat, NEW c \in Nat, NEW d \in Nat, NEW e \in Nat,
           a + b + c + d + e = 1
    PROVE  a > 0 \/ b > 0 \/ c > 0 \/ d > 0 \/ e > 0
OBVIOUS

\* Every step maps to Capture, to Credit or to a stutter.
LEMMA StepRefines ==
    ASSUME IInv, IInv', [Next]_vars
    PROVE  [Abstract!Next]_(Abstract!vars)
<1> DEFINE cap == {p \in Payments : Captured(p) /\ kind[p] # "retry"}
<1> DEFINE cred == [p \in Payments |-> IF kind[p] = "retry" THEN 0 ELSE CreditCount(p)]
<1>1. CASE CaptureStep
  <2>1. PICK q \in Payments, st \in StripeStatus : ~Captured(q) /\ StripeSets(q, st)
    BY <1>1 DEF CaptureStep
  <2>2. kind' = kind /\ credit' = credit /\ stripe' = [stripe EXCEPT ![q] = st]
    BY <1>1, <2>1 DEF CaptureStep, StripeSets
  <2>3. UNCHANGED cred
    BY <2>2 DEF CreditCount
  <2>4. CASE st = "succeeded" /\ kind[q] # "retry"
    <3>1. q \notin cap /\ cap' = cap \cup {q}
      BY <2>1, <2>2, <2>4 DEF Captured, IInv, TypeInv, TypeOK
    <3> QED
      BY <2>3, <3>1 DEF Abstract!Next, Abstract!Capture
  <2>5. CASE ~(st = "succeeded" /\ kind[q] # "retry")
    <3>1. UNCHANGED cap
      BY <2>1, <2>2, <2>5 DEF Captured, IInv, TypeInv, TypeOK
    <3> QED
      BY <2>3, <3>1 DEF Abstract!vars
  <2> QED
    BY <2>4, <2>5
<1>2. CASE LedgerStep
  <2>1. kind' = kind /\ stripe' = stripe /\ UNCHANGED cap
    BY <1>2 DEF LedgerStep, Captured
  <2>2. CASE UNCHANGED cred
    BY <2>1, <2>2 DEF Abstract!vars
  <2>3. CASE ~UNCHANGED cred
    <3>1. PICK q \in Payments : /\ \A p \in Payments : p # q => credit'[p] = credit[p]
                                /\ UNCHANGED credit \/ (\E w \in KeyedWriters : PostPayment(q, w))
                                   \/ credit' = [credit EXCEPT ![q]["retry-sync"] = @ + 1]
      BY <1>2, <2>3 DEF LedgerStep, PostPayment, IInv, TypeInv, TypeOK
    <3>2. kind[q] # "retry" /\ CreditCount(q)' # CreditCount(q)
      BY <2>1, <2>3, <3>1 DEF CreditCount
    <3>3. NoDoubleCredit /\ NoDoubleCredit'
      BY OneRow, PTL
    <3>4. /\ \A v \in Writers : credit[q][v] \in Nat /\ credit'[q][v] \in Nat
          /\ \A v \in Writers : credit'[q][v] >= credit[q][v]
      <4>1. \A v \in Writers : credit[q][v] \in Nat /\ credit'[q][v] \in Nat
        BY DEF IInv, TypeInv, TypeOK
      <4>2. CASE UNCHANGED credit
        BY <4>1, <4>2
      <4>3. ASSUME NEW w \in KeyedWriters, PostPayment(q, w)
            PROVE  \A v \in Writers : credit'[q][v] >= credit[q][v]
        BY <4>3, PostPaymentEffect DEF IInv, TypeInv
      <4>4. CASE credit' = [credit EXCEPT ![q]["retry-sync"] = @ + 1]
        BY <4>1, <4>4 DEF IInv, TypeInv, TypeOK
      <4> QED
        BY <3>1, <4>1, <4>2, <4>3, <4>4
    <3>w. /\ credit[q]["payment-webhook"] \in Nat /\ credit[q]["stripe_charge"] \in Nat
          /\ credit[q]["safety-net"] \in Nat /\ credit[q]["autopay-sync"] \in Nat
          /\ credit[q]["retry-sync"] \in Nat
          /\ credit'[q]["payment-webhook"] \in Nat /\ credit'[q]["stripe_charge"] \in Nat
          /\ credit'[q]["safety-net"] \in Nat /\ credit'[q]["autopay-sync"] \in Nat
          /\ credit'[q]["retry-sync"] \in Nat
          /\ credit'[q]["payment-webhook"] >= credit[q]["payment-webhook"]
          /\ credit'[q]["stripe_charge"] >= credit[q]["stripe_charge"]
          /\ credit'[q]["safety-net"] >= credit[q]["safety-net"]
          /\ credit'[q]["autopay-sync"] >= credit[q]["autopay-sync"]
          /\ credit'[q]["retry-sync"] >= credit[q]["retry-sync"]
      BY <3>4 DEF Writers, KeyedWriters
    <3>5. CreditCount(q) = 0 /\ CreditCount(q)' = 1
      <4>1. CreditCount(q) <= 1 /\ CreditCount(q)' <= 1
        BY <2>1, <3>2, <3>3 DEF NoDoubleCredit
      <4>2. CreditCount(q)' >= CreditCount(q) /\ CreditCount(q) \in Nat /\ CreditCount(q)' \in Nat
        BY <3>w DEF CreditCount
      <4> QED
        BY <3>2, <4>1, <4>2
    <3>6. q \in cap
      <4>1. Credited(q)'
        <5>1. \/ credit'[q]["payment-webhook"] > 0 \/ credit'[q]["stripe_charge"] > 0
              \/ credit'[q]["safety-net"] > 0 \/ credit'[q]["autopay-sync"] > 0
              \/ credit'[q]["retry-sync"] > 0
          <6>1. credit'[q]["payment-webhook"] + credit'[q]["stripe_charge"] + credit'[q]["safety-net"]
                + credit'[q]["autopay-sync"] + credit'[q]["retry-sync"] = 1
            BY <3>5 DEF CreditCount
          <6> QED
            BY <3>w, <6>1, OneOfFive
        <5> QED
          BY <5>1 DEF Credited, Writers, KeyedWriters
      <4>2. Captured(q)'
        BY <4>1 DEF IInv, BooksOK, OnlyCapturedMoney
      <4> QED
        BY <2>1, <3>2, <4>2 DEF Captured
    <3>7. cred' = [cred EXCEPT ![q] = 1] /\ cred[q] = 0
      <4>1. \A p \in Payments : p # q => CreditCount(p)' = CreditCount(p)
        BY <3>1 DEF CreditCount
      <4> QED
        BY <2>1, <3>2, <3>5, <4>1
    <3> QED
      BY <2>1, <3>6, <3>7 DEF Abstract!Next, Abstract!Credit
  <2> QED
    BY <2>2, <2>3
<1> QED
  BY <1>1, <1>2, StepShape DEF IInv

\* The write paths together do what PaymentCredit promises: only captured
\* payments are credited, each once.
THEOREM ImplementsPaymentCredit == Spec => CreditsExactlyOnce
<1>1. Spec => Abstract!Init /\ [][Abstract!Next]_(Abstract!vars)
  BY InitRefines, StepRefines, Invariance, PTL DEF Spec
<1> QED
  BY <1>1 DEF CreditsExactlyOnce, Abstract!Spec

--------------------------------------------------------------------------------
(* Answered successes of the per-HOA endpoint.                              *)

\* A checkout of which no failure was reported.
Clean(p) == kind[p] = "checkout" /\ {Ev("cc.failed", p), Ev("hoa.intent.failed", p)} \cap emitted = {}

\* Failure events carry no refund number: there is one of each kind and payment.
FailuresAreFirst ==
    \A e \in emitted : e.kind \in {"cc.failed", "hoa.intent.failed"} => e = Ev(e.kind, e.pay)

\* Nothing fails the transaction of a clean checkout, and it has one.
CleanTxns == \A p \in Payments : Clean(p) => txn[p] \notin {"absent", "failed"}

\* What a handler of a success of a clean checkout knows: past the status update
\* it saw "succeeded", so that the safety net posts; at the answer it has.
TaskClean(t) ==
    /\ t.ev.kind # "sync" => t.ev \in emitted /\ t.want = Wanted(t.ev)
    /\ t.ev.kind \in HoaSuccess /\ Clean(t.ev.pay) =>
         /\ t.pc \notin {"txn.read", "txn.write"} => t.seen = "succeeded"
         /\ t.pc = "done" => Credited(t.ev.pay)

SlotsClean == \A s \in Slots : task[s].pc # "idle" => TaskClean(task[s])

HoaInv == FailuresAreFirst /\ CleanTxns /\ SlotsClean /\ AckedHoaSuccessIsCredited

\* What no step takes back.
Lasting ==
    /\ kind' = kind /\ emitted \subseteq emitted'
    /\ \A p \in Payments : Credited(p) => Credited(p)'

\* A step posts one row, by some writer, or leaves the ledger's credits alone.
LEMMA StepLasts == ASSUME TypeInv, [Next]_vars PROVE Lasting
<1>1. kind' = kind
  BY StepShape DEF LedgerStep, CaptureStep, StripeSets
<1>2. emitted \subseteq emitted'
  <2> USE DEF stripeVars
  <2>1. ASSUME NEW p \in Payments, NEW st, StripeSets(p, st) PROVE emitted \subseteq emitted'
    BY <2>1 DEF StripeSets, Emit
  <2>2. ASSUME NEW p \in Payments, OpenCheckout(p) \/ Pay(p) \/ Settle(p) \/ AfterCapture(p)
        PROVE  emitted \subseteq emitted'
    BY <2>1, <2>2 DEF OpenCheckout, Pay, Settle, AfterCapture
  <2>3. ASSUME NEW s \in Slots, NEW p \in Payments, ChargeOffSession(s, p)
        PROVE  emitted \subseteq emitted'
    BY <2>1, <2>3 DEF ChargeOffSession
  <2>4. ASSUME NEW s \in Slots, HandlerStep(s) \/ Die(s) PROVE emitted' = emitted
    BY <2>4 DEF HandlerStep, Die, ReadTxn, WriteTxn, LookupWebhookEvent, InsertWebhookEvent,
       CloseWebhookEvent, PostWebhookCredit, MarkWebhookProcessed, SafetyNet, CheckCharge,
       PostCharge, ClaimFailure, FindFailedTxn, SetFailed, MarkForRetry, MarkFailureProcessed,
       CheckReversal, FindOriginalCharge, InsertReversal, PostSyncCredit, Respond
  <2>5. ASSUME NEW e \in emitted, AckUnhandled(e) \/ \E s \in Slots : Deliver(s, e)
        PROVE  emitted' = emitted
    BY <2>5 DEF AckUnhandled, Deliver
  <2>6. CASE UNCHANGED vars
    BY <2>6 DEF vars
  <2> QED
    BY <2>2, <2>3, <2>4, <2>5, <2>6 DEF Next, Stripe
<1>3. \A p \in Payments, w \in Writers : credit'[p][w] >= credit[p][w]
  <2>1. \A p \in Payments, w \in Writers : credit[p][w] \in Nat
    BY DEF TypeInv, TypeOK
  <2>2. CASE UNCHANGED credit
    BY <2>1, <2>2
  <2>3. ASSUME NEW q \in Payments, NEW w \in KeyedWriters, PostPayment(q, w)
        PROVE  \A p \in Payments, v \in Writers : credit'[p][v] >= credit[p][v]
    BY <2>3, PostPaymentEffect DEF TypeInv
  <2>4. ASSUME NEW q \in Payments, credit' = [credit EXCEPT ![q]["retry-sync"] = @ + 1]
        PROVE  \A p \in Payments, v \in Writers : credit'[p][v] >= credit[p][v]
    BY <2>1, <2>4 DEF TypeInv, TypeOK
  <2> QED
    BY <2>2, <2>3, <2>4, StepShape DEF LedgerStep, CaptureStep
<1>4. ASSUME NEW p \in Payments, Credited(p) PROVE Credited(p)'
  <2>1. \A w \in Writers : credit[p][w] \in Nat
    BY DEF TypeInv, TypeOK
  <2>2. \A w \in Writers : credit'[p][w] \in Nat
    BY TypeNext DEF TypeInv, TypeOK
  <2> QED
    BY <1>3, <1>4, <2>1, <2>2 DEF Credited
<1> QED
  BY <1>1, <1>2, <1>4 DEF Lasting

\* A slot that does not move still knows what it knew.
LEMMA CleanFrame ==
    ASSUME Lasting, NEW t, t.ev.pay \in Payments, TaskClean(t)
    PROVE  TaskClean(t)'
<1>1. Clean(t.ev.pay)' => Clean(t.ev.pay)
  BY DEF Lasting, Clean
<1> QED
  BY <1>1 DEF TaskClean, Lasting, Wanted

\* If one slot moves to a state it may be in, all slots are in order.
LEMMA CleanSlots ==
    ASSUME TypeInv, SlotsClean, Lasting, NEW s \in Slots, NEW u, task' = [task EXCEPT ![s] = u],
           u.pc = "idle" \/ TaskClean(u)'
    PROVE  SlotsClean'
<1> SUFFICES ASSUME NEW r \in Slots, task'[r].pc # "idle" PROVE TaskClean(task[r])'
  BY DEF SlotsClean
<1>1. CASE r = s
  <2>1. task'[r] = u /\ TaskClean(u)'
    BY <1>1 DEF TypeInv, TypeOK
  <2> QED
    BY <2>1 DEF TaskClean, Clean, Credited
<1>2. CASE r # s
  <2>1. task'[r] = task[r]
    BY <1>2 DEF TypeInv, TypeOK
  <2>2. PICK x : x = task[r]
    OBVIOUS
  <2>3. TaskClean(x) /\ x.ev.pay \in Payments
    BY <2>1, <2>2 DEF SlotsClean, TypeInv, BusySlots, Event
  <2>4. TaskClean(x)'
    BY <2>3, CleanFrame
  <2> QED
    BY <2>1, <2>2, <2>4 DEF TaskClean, Clean, Credited
<1> QED
  BY <1>1, <1>2

\* Stripe's steps do not fail a transaction and add no failure but the first.
LEMMA StripeClean ==
    ASSUME IInv, HoaInv, Lasting, NEW p \in Payments,
           \/ OpenCheckout(p) \/ Pay(p) \/ Settle(p) \/ AfterCapture(p)
           \/ \E s \in Slots : ChargeOffSession(s, p)
    PROVE  FailuresAreFirst' /\ CleanTxns' /\ AckedHoaSuccessIsCredited'
<1>1. \A q \in Payments : Clean(q)' => Clean(q)
  BY DEF Lasting, Clean
<1>2. ASSUME NEW st, StripeSets(p, st) PROVE FailuresAreFirst'
  BY <1>2 DEF StripeSets, Emit, HoaInv, FailuresAreFirst, Ev
<1>3. ASSUME NEW k, NEW q, k \notin {"cc.failed", "hoa.intent.failed"},
             emitted' = emitted \cup {[kind |-> k, pay |-> p, owes |-> q]}
      PROVE  FailuresAreFirst'
  BY <1>3 DEF HoaInv, FailuresAreFirst, Ev
<1>4. FailuresAreFirst'
  <2>1. CASE OpenCheckout(p)
    BY <2>1 DEF OpenCheckout, stripeVars, HoaInv, FailuresAreFirst, Ev
  <2>2. CASE AfterCapture(p)
    BY <1>3, <2>2 DEF AfterCapture
  <2>3. CASE Pay(p) \/ Settle(p) \/ \E s \in Slots : ChargeOffSession(s, p)
    BY <1>2, <2>3 DEF Pay, Settle, ChargeOffSession
  <2> QED
    BY <2>1, <2>2, <2>3
<1>5. CleanTxns'
  <2>1. \A q \in Payments : txn'[q] = txn[q] \/ txn'[q] = "initiated"
    BY DEF OpenCheckout, Pay, Settle, AfterCapture, ChargeOffSession, txnVars, IInv, TypeInv, TypeOK
  <2> QED
    BY <1>1, <2>1 DEF HoaInv, CleanTxns
<1>6. AckedHoaSuccessIsCredited'
  <2>1. acked' = acked /\ acked \subseteq Event
    BY DEF OpenCheckout, Pay, Settle, AfterCapture, ChargeOffSession, IInv, TypeInv, TypeOK
  <2>2. ASSUME NEW e \in acked, e.kind \in HoaSuccess, Clean(e.pay)' PROVE Credited(e.pay)'
    <3>1. e.pay \in Payments
      BY <2>1 DEF Event
    <3>2. Credited(e.pay)
      BY <1>1, <2>2, <3>1 DEF HoaInv, AckedHoaSuccessIsCredited, Clean
    <3> QED
      BY <3>1, <3>2 DEF Lasting
  <2> QED
    BY <2>1, <2>2 DEF AckedHoaSuccessIsCredited, Clean
<1> QED
  BY <1>4, <1>5, <1>6

\* A slot that starts on an event or a charge knows what it must.
LEMMA ArrivalClean ==
    ASSUME IInv, HoaInv, Lasting, NEW s \in Slots,
           (\E e \in emitted : Deliver(s, e)) \/ (\E p \in Payments : ChargeOffSession(s, p))
    PROVE  SlotsClean'
<1>1. ASSUME NEW e \in emitted, Deliver(s, e) PROVE SlotsClean'
  <2>1. PICK u : u = [pc |-> FirstStep(e), ev |-> e, want |-> Wanted(e), seen |-> "absent", i |-> 1,
                    booked |-> e.kind \in ReversalKinds /\ credit[e.pay]["stripe_charge"] > 0]
    OBVIOUS
  <2>2. u.pc = FirstStep(e) /\ u.ev = e /\ u.want = Wanted(e) /\ e.pay \in Payments
    BY <2>1 DEF IInv, TypeInv, TypeOK, Event
  <2>3. e.kind \in HoaSuccess => FirstStep(e) = "txn.read"
    BY DEF FirstStep, HoaSuccess, HoaKinds, ChargeKinds
  <2>4. TaskClean(u)'
    <3>1. TaskClean(u)
      BY <2>2, <2>3 DEF TaskClean
    <3> QED
      BY <2>2, <3>1, CleanFrame
  <2>5. task' = [task EXCEPT ![s] = u]
    BY <1>1, <2>1 DEF Deliver
  <2> QED
    BY <2>4, <2>5, CleanSlots DEF IInv, HoaInv
<1>2. ASSUME NEW p \in Payments, ChargeOffSession(s, p) PROVE SlotsClean'
  <2>1. PICK answer : task' = [task EXCEPT ![s] = [pc |-> "txn.read", ev |-> Ev("sync", p),
                                                  want |-> answer, seen |-> "absent", i |-> 1,
                    booked |-> FALSE]]
    BY <1>2 DEF ChargeOffSession
  <2>2. PICK u : u = [pc |-> "txn.read", ev |-> Ev("sync", p), want |-> answer, seen |-> "absent", i |-> 1,
                    booked |-> FALSE]
    OBVIOUS
  <2>3. u.ev.kind = "sync"
    BY <2>2 DEF Ev
  <2>4. TaskClean(u)'
    BY <2>3 DEF TaskClean, HoaSuccess
  <2> QED
    BY <2>1, <2>2, <2>4, CleanSlots DEF IInv, HoaInv
<1> QED
  BY <1>1, <1>2

\* A handler of a clean checkout's event wants no failure, and none runs that
\* would set it failed.
LEMMA CleanTask ==
    ASSUME IInv, HoaInv, NEW s \in Slots, ~At(s, "idle"), Clean(PayOf(s))
    PROVE  /\ task[s].ev.kind \notin {"sync", "cc.failed", "hoa.intent.failed"}
           /\ task[s].want \in {"succeeded", "pending"}
           /\ task[s].ev.kind \in HoaSuccess => task[s].want = "succeeded"
<1>1. TaskOK(task[s]) /\ TaskClean(task[s])
  BY DEF IInv, HoaInv, SlotsOK, SlotsClean, At
<1>2. task[s].ev.kind # "sync"
  BY <1>1 DEF TaskOK, OffSession, Clean, PayOf
<1>3. task[s].ev \in emitted /\ task[s].want = Wanted(task[s].ev)
  BY <1>1, <1>2 DEF TaskClean
<1>4. task[s].ev.kind \notin {"cc.failed", "hoa.intent.failed"}
  BY <1>3 DEF HoaInv, FailuresAreFirst, Clean, PayOf
<1> QED
  BY <1>2, <1>3, <1>4 DEF Wanted

\* Every step of a handler keeps the transactions of clean checkouts.
LEMMA HandlerCleanTxns ==
    ASSUME IInv, HoaInv, Lasting, NEW s \in Slots, HandlerStep(s) \/ Die(s)
    PROVE  CleanTxns'
<1> SUFFICES ASSUME NEW p \in Payments, Clean(p)', txn'[p] # txn[p]
             PROVE  txn'[p] \notin {"absent", "failed"}
  BY DEF CleanTxns, HoaInv, Lasting, Clean
<1>1. Clean(p)
  BY DEF Lasting, Clean
<1>2. WriteTxn(s) \/ SetFailed(s)
  BY DEF HandlerStep, Die, ReadTxn, LookupWebhookEvent, InsertWebhookEvent, CloseWebhookEvent,
     PostWebhookCredit, MarkWebhookProcessed, SafetyNet, CheckCharge, PostCharge, ClaimFailure,
     FindFailedTxn, MarkForRetry, MarkFailureProcessed, CheckReversal, FindOriginalCharge,
     InsertReversal, PostSyncCredit, Respond, txnVars
<1>3. ~At(s, "idle") /\ p = PayOf(s)
  BY <1>2 DEF WriteTxn, SetFailed, At, IInv, TypeInv, TypeOK
<1>4. task[s].ev.kind # "cc.failed" /\ task[s].want \in {"succeeded", "pending"}
  BY <1>1, <1>3, CleanTask
<1>5. ~SetFailed(s)
  <2>1. TaskOK(task[s])
    BY <1>3 DEF IInv, SlotsOK, At
  <2>2. "fail.set" \notin StepsOf(task[s].ev.kind)
    BY <1>4 DEF StepsOf
  <2> QED
    BY <2>1, <2>2 DEF SetFailed, At, TaskOK
<1>6. txn' = [txn EXCEPT ![p] = task[s].want]
  BY <1>2, <1>3, <1>4, <1>5 DEF WriteTxn
<1> QED
  BY <1>4, <1>6 DEF IInv, TypeInv, TypeOK

\* Every step of a handler leaves its slot in order: a success is seen as
\* succeeded when its status was written or was terminal, and then posted.
LEMMA HandlerCleanSlots ==
    ASSUME IInv, HoaInv, Lasting, NEW s \in Slots, HandlerStep(s) \/ Die(s)
    PROVE  SlotsClean'
<1> USE DEF IInv
<1>a. ~At(s, "idle")
  BY DEF HandlerStep, Die, At, ReadTxn, WriteTxn, LookupWebhookEvent, InsertWebhookEvent,
         CloseWebhookEvent, PostWebhookCredit, MarkWebhookProcessed, SafetyNet, CheckCharge,
         PostCharge, ClaimFailure, FindFailedTxn, SetFailed, MarkForRetry, MarkFailureProcessed,
         CheckReversal, FindOriginalCharge, InsertReversal, PostSyncCredit, Respond
\* t is the slot before the step, as a value.
<1>x. PICK t : t = task[s]
  OBVIOUS
<1> DEFINE p == t.ev.pay
<1>b. /\ t \in Task /\ TaskOK(t) /\ TaskClean(t)
      /\ t.ev \in Event /\ p \in Payments /\ p = PayOf(s)
      /\ \A l : At(s, l) <=> t.pc = l
  BY <1>a, <1>x DEF SlotsOK, SlotsClean, HoaInv, TypeInv, TypeOK, At, PayOf, TaskOK, Event
<1>c. Clean(p)' => Clean(p)
  BY DEF Lasting, Clean
\* What there is to show of the slot after the step.
<1>u. ASSUME NEW u, u.ev = t.ev, u.want = t.want, task' = [task EXCEPT ![s] = u],
             t.ev.kind \in HoaSuccess /\ Clean(p) =>
               /\ u.pc \notin {"txn.read", "txn.write"} => u.seen = "succeeded"
               /\ u.pc = "done" => Credited(p)'
      PROVE  SlotsClean'
  <2>1. TaskClean(u)'
    BY <1>b, <1>c, <1>u DEF TaskClean, Lasting, Wanted
  <2> QED
    BY <1>u, <2>1, CleanSlots DEF HoaInv
<1>i. ASSUME task' = [task EXCEPT ![s] = Idle] PROVE SlotsClean'
  <2>1. Idle.pc = "idle"
    BY DEF Idle
  <2> QED
    BY <1>i, <2>1, CleanSlots DEF HoaInv
\* A handler that moves on to step l.
<1>g. ASSUME NEW l, Go(s, l), t.ev.kind \in HoaSuccess =>
               t.pc \notin {"txn.read", "txn.write"} /\ (l = "done" => Credited(p)')
      PROVE  SlotsClean'
  <2>1. PICK u : u = [t EXCEPT !.pc = l]
    OBVIOUS
  <2>2. u.ev = t.ev /\ u.want = t.want /\ u.pc = l /\ u.seen = t.seen
    BY <1>b, <2>1 DEF Task
  <2>3. task' = [task EXCEPT ![s] = u]
    BY <1>g, <1>x, <2>1 DEF Go
  <2>4. t.ev.kind \in HoaSuccess /\ Clean(p) => u.seen = "succeeded"
    BY <1>b, <1>g, <2>2 DEF TaskClean
  <2> QED
    BY <1>g, <1>u, <2>2, <2>3, <2>4
\* Steps only handlers of other events take.
<1>o. ASSUME NEW u, u.ev = t.ev, u.want = t.want, task' = [task EXCEPT ![s] = u],
             t.ev.kind \notin HoaSuccess
      PROVE  SlotsClean'
  BY <1>o, <1>u
<1>s. t.ev.kind \in HoaSuccess =>
        t.pc \in {"txn.read", "txn.write", "hoa.lookup", "hoa.insert", "hoa.close", "hoa.post",
                  "hoa.mark", "hoa.net", "done"}
  BY <1>b DEF TaskOK, StepsOf, HoaKinds
<1>1. CASE ReadTxn(s)
  <2>1. t.pc = "txn.read"
    BY <1>1, <1>b DEF ReadTxn
  <2>2. PICK u : u = [t EXCEPT !.seen = txn[p],
                               !.pc = IF txn[p] \in TerminalStatuses \cup {"absent"}
                                      THEN AfterTxn(t) ELSE "txn.write"]
    OBVIOUS
  <2>3. u.ev = t.ev /\ u.want = t.want /\ u.seen = txn[p]
        /\ u.pc = IF txn[p] \in TerminalStatuses \cup {"absent"} THEN AfterTxn(t) ELSE "txn.write"
    BY <1>b, <2>2 DEF Task
  <2>4. task' = [task EXCEPT ![s] = u]
    BY <1>1, <1>b, <1>x, <2>2 DEF ReadTxn
  <2>5. Clean(p) => txn[p] \notin {"absent", "failed"}
    BY <1>b DEF HoaInv, CleanTxns
  <2>6. t.ev.kind \in HoaSuccess => AfterTxn(t) = "hoa.lookup"
    BY DEF AfterTxn, HoaKinds
  <2> HIDE DEF p
  <2> QED
    BY <1>u, <2>3, <2>4, <2>5, <2>6 DEF TerminalStatuses
<1>2. CASE WriteTxn(s)
  <2>1. PICK st : /\ st = IF t.want = "no_intent" THEN "failed" ELSE t.want
                  /\ task' = [task EXCEPT ![s].seen = st, ![s].pc = AfterTxn(task[s])]
    BY <1>2, <1>x DEF WriteTxn
  <2>2. PICK u : u = [t EXCEPT !.seen = st, !.pc = AfterTxn(t)]
    OBVIOUS
  <2>3. u.ev = t.ev /\ u.want = t.want /\ u.seen = st /\ u.pc = AfterTxn(t)
    BY <1>b, <2>2 DEF Task
  <2>4. task' = [task EXCEPT ![s] = u]
    BY <1>x, <2>1, <2>2
  <2>5. t.ev.kind \in HoaSuccess /\ Clean(p) => t.want = "succeeded"
    BY <1>a, <1>b, <1>x, CleanTask
  <2>6. t.ev.kind \in HoaSuccess => AfterTxn(t) = "hoa.lookup"
    BY DEF AfterTxn, HoaKinds
  <2> HIDE DEF p
  <2> QED
    BY <1>u, <2>1, <2>3, <2>4, <2>5, <2>6
<1>3. CASE \/ LookupWebhookEvent(s) \/ InsertWebhookEvent(s) \/ CloseWebhookEvent(s)
           \/ PostWebhookCredit(s) \/ MarkWebhookProcessed(s)
  <2>1. task' = [task EXCEPT ![s] = Idle]
        \/ \E l \in {"hoa.net", "hoa.insert", "hoa.post", "hoa.close", "hoa.mark"} : Go(s, l)
    BY <1>3 DEF LookupWebhookEvent, InsertWebhookEvent, CloseWebhookEvent, PostWebhookCredit,
       MarkWebhookProcessed
  <2>2. t.pc \notin {"txn.read", "txn.write"}
    BY <1>3, <1>b DEF LookupWebhookEvent, InsertWebhookEvent, CloseWebhookEvent, PostWebhookCredit,
       MarkWebhookProcessed
  <2> QED
    BY <1>g, <1>i, <2>1, <2>2
<1>4. CASE SafetyNet(s)
  <2>1. t.pc = "hoa.net" /\ Go(s, "done") /\ (t.seen = "succeeded" => PostPayment(p, "safety-net"))
    BY <1>4, <1>b, <1>x DEF SafetyNet
  <2>2. t.seen = "succeeded" => Credited(p)'
    <3>1. KeyedWriters \subseteq Writers /\ "safety-net" \in KeyedWriters
      BY DEF Writers, KeyedWriters
    <3> QED
      BY <1>b, <2>1, <3>1, PostPaymentEffect DEF Credited, TypeInv
  <2>3. PICK u : u = [t EXCEPT !.pc = "done"]
    OBVIOUS
  <2>4. u.ev = t.ev /\ u.want = t.want /\ u.pc = "done" /\ u.seen = t.seen
    BY <1>b, <2>3 DEF Task
  <2>5. task' = [task EXCEPT ![s] = u]
    BY <1>x, <2>1, <2>3 DEF Go
  <2>6. t.ev.kind \in HoaSuccess /\ Clean(p) => t.seen = "succeeded"
    BY <1>b, <2>1 DEF TaskClean
  <2> QED
    BY <1>u, <2>2, <2>4, <2>5, <2>6
<1>5. CASE \/ CheckCharge(s) \/ PostCharge(s) \/ ClaimFailure(s) \/ FindFailedTxn(s) \/ SetFailed(s)
           \/ MarkForRetry(s) \/ MarkFailureProcessed(s) \/ PostSyncCredit(s)
  <2>1. \E l : Go(s, l)
    BY <1>5 DEF CheckCharge, PostCharge, ClaimFailure, FindFailedTxn, SetFailed, MarkForRetry,
       MarkFailureProcessed, PostSyncCredit
  <2>2. t.pc \in {"charge.layer1", "charge.post", "fail.claim", "fail.find", "fail.set", "fail.retry",
                  "fail.mark", "sync.retry", "sync.post"}
    BY <1>5, <1>b DEF CheckCharge, PostCharge, ClaimFailure, FindFailedTxn, SetFailed, MarkForRetry,
       MarkFailureProcessed, PostSyncCredit
  <2> QED
    BY <1>g, <1>s, <2>1, <2>2
<1>6. CASE CheckReversal(s) \/ FindOriginalCharge(s) \/ InsertReversal(s)
  <2>1. t.ev.kind \notin HoaSuccess
    BY <1>6, <1>b, <1>s DEF CheckReversal, FindOriginalCharge, InsertReversal
  <2>2. CASE \E l : Go(s, l)
    BY <1>g, <2>1, <2>2
  <2>3. CASE NextReversal(s)
    <3>1. PICK j, l : task' = [task EXCEPT ![s].i = j, ![s].pc = l]
      BY <2>3 DEF NextReversal
    <3>2. PICK u : u = [t EXCEPT !.i = j, !.pc = l]
      OBVIOUS
    <3>3. u.ev = t.ev /\ u.want = t.want /\ task' = [task EXCEPT ![s] = u]
      BY <1>b, <1>x, <3>1, <3>2 DEF Task
    <3> QED
      BY <1>o, <2>1, <3>3
  <2> QED
    BY <1>6, <2>2, <2>3 DEF CheckReversal, FindOriginalCharge, InsertReversal
<1>7. CASE Respond(s) \/ Die(s)
  BY <1>7, <1>i DEF Respond, Die
<1> QED
  BY <1>1, <1>2, <1>3, <1>4, <1>5, <1>6, <1>7 DEF HandlerStep

\* An answer to a success of a clean checkout finds it credited.
LEMMA HandlerCleanAcks ==
    ASSUME IInv, HoaInv, Lasting, NEW s \in Slots, HandlerStep(s) \/ Die(s)
    PROVE  AckedHoaSuccessIsCredited'
<1> SUFFICES ASSUME NEW e \in acked', e.kind \in HoaSuccess, Clean(e.pay)'
             PROVE  Credited(e.pay)'
  BY DEF AckedHoaSuccessIsCredited, Clean
<1>1. Clean(e.pay)
  BY DEF Lasting, Clean
<1>2. acked \subseteq Event /\ emitted \subseteq Event /\ \A x \in Event : x.pay \in Payments
  BY DEF IInv, TypeInv, TypeOK, Event
<1>3. CASE e \in acked
  <2>1. Credited(e.pay)
    BY <1>1, <1>3 DEF HoaInv, AckedHoaSuccessIsCredited, Clean
  <2> QED
    BY <1>2, <1>3, <2>1 DEF Lasting
<1>4. CASE e \notin acked
  <2>1. Respond(s)
    BY <1>4 DEF HandlerStep, Die, ReadTxn, WriteTxn, LookupWebhookEvent, InsertWebhookEvent,
       CloseWebhookEvent, PostWebhookCredit, MarkWebhookProcessed, SafetyNet, CheckCharge, PostCharge,
       ClaimFailure, FindFailedTxn, SetFailed, MarkForRetry, MarkFailureProcessed, CheckReversal,
       FindOriginalCharge, InsertReversal, PostSyncCredit
  <2>2. At(s, "done") /\ e = task[s].ev /\ e \in emitted
    BY <1>4, <2>1 DEF Respond
  <2>3. TaskClean(task[s])
    BY <2>2 DEF HoaInv, SlotsClean, At
  <2>4. Credited(e.pay)
    BY <1>1, <2>2, <2>3 DEF TaskClean, At
  <2> QED
    BY <1>2, <2>2, <2>4 DEF Lasting
<1> QED
  BY <1>3, <1>4

\* It holds initially: nothing is emitted, and every checkout has its draft.
LEMMA HoaInit == Init => HoaInv
<1> SUFFICES ASSUME Init PROVE HoaInv
  OBVIOUS
<1>1. CleanTxns
  BY DEF Init, CleanTxns, Clean, HasTxn
<1>2. SlotsClean
  BY DEF Init, SlotsClean, Idle
<1> QED
  BY <1>1, <1>2 DEF Init, HoaInv, FailuresAreFirst, AckedHoaSuccessIsCredited

\* Every step preserves it.
LEMMA HoaNext == IInv /\ HoaInv /\ [Next]_vars => HoaInv'
<1> SUFFICES ASSUME IInv, HoaInv, [Next]_vars PROVE HoaInv'
  OBVIOUS
<1>1. Lasting
  BY StepLasts DEF IInv
\* A step that leaves statuses, events and slots alone, and answers no success.
<1>q. ASSUME UNCHANGED <<kind, emitted, txn>> PROVE FailuresAreFirst' /\ CleanTxns'
  BY <1>q DEF HoaInv, FailuresAreFirst, CleanTxns, Clean, Ev
<1>t. ASSUME UNCHANGED task PROVE SlotsClean'
  <2> SUFFICES ASSUME NEW s \in Slots, task[s].pc # "idle" PROVE TaskClean(task[s])'
    BY <1>t DEF SlotsClean
  <2>1. PICK t : t = task[s]
    OBVIOUS
  <2>2. TaskClean(t) /\ t.ev.pay \in Payments
    BY <2>1 DEF HoaInv, SlotsClean, IInv, TypeInv, BusySlots, Event
  <2>3. TaskClean(t)'
    BY <1>1, <2>2, CleanFrame
  <2> QED
    BY <1>t, <2>1, <2>3 DEF TaskClean, Clean, Credited
<1>a. ASSUME \A e \in acked' \ acked : kind[e.pay] # "checkout"
      PROVE  AckedHoaSuccessIsCredited'
  <2> SUFFICES ASSUME NEW e \in acked', e.kind \in HoaSuccess, Clean(e.pay)' PROVE Credited(e.pay)'
    BY DEF AckedHoaSuccessIsCredited, Clean
  <2>1. Clean(e.pay)
    BY <1>1 DEF Lasting, Clean
  <2>2. e \in acked
    BY <1>a, <2>1 DEF Clean
  <2>3. Credited(e.pay) /\ e.pay \in Payments
    BY <2>1, <2>2 DEF HoaInv, AckedHoaSuccessIsCredited, Clean, IInv, TypeInv, TypeOK, Event
  <2> QED
    BY <1>1, <2>3 DEF Lasting
<1>2. CASE UNCHANGED vars
  <2>1. UNCHANGED <<kind, emitted, txn, task>> /\ acked' = acked
    BY <1>2 DEF vars, stripeVars, txnVars
  <2> QED
    BY <1>q, <1>t, <1>a, <2>1 DEF HoaInv
<1>3. ASSUME NEW e \in emitted, AckUnhandled(e) PROVE HoaInv'
  <2>1. UNCHANGED <<kind, emitted, txn, task>> /\ acked' = acked \cup {e}
    BY <1>3 DEF AckUnhandled, stripeVars, txnVars
  <2>2. kind[e.pay] # "checkout"
    BY <1>3 DEF AckUnhandled, HasHoaMetadata, HasTxn
  <2> QED
    BY <1>q, <1>t, <1>a, <2>1, <2>2 DEF HoaInv
<1>4. ASSUME NEW p \in Payments, OpenCheckout(p) \/ Pay(p) \/ Settle(p) \/ AfterCapture(p)
      PROVE  HoaInv'
  <2>1. UNCHANGED task
    BY <1>4 DEF OpenCheckout, Pay, Settle, AfterCapture
  <2> QED
    BY <1>1, <1>4, <1>t, <2>1, StripeClean DEF HoaInv
<1>5. ASSUME NEW s \in Slots, NEW p \in Payments, ChargeOffSession(s, p) PROVE HoaInv'
  BY <1>1, <1>5, StripeClean, ArrivalClean DEF HoaInv
<1>6. ASSUME NEW s \in Slots, NEW e \in emitted, Deliver(s, e) PROVE HoaInv'
  <2>1. UNCHANGED <<kind, emitted, txn>> /\ acked' = acked
    BY <1>6 DEF Deliver, stripeVars, txnVars
  <2>2. SlotsClean'
    BY <1>1, <1>6, ArrivalClean
  <2> QED
    BY <1>q, <1>a, <2>1, <2>2 DEF HoaInv
<1>7. ASSUME NEW s \in Slots, HandlerStep(s) \/ Die(s) PROVE HoaInv'
  <2>1. UNCHANGED <<kind, emitted>>
    BY <1>7 DEF HandlerStep, Die, ReadTxn, WriteTxn, LookupWebhookEvent, InsertWebhookEvent,
       CloseWebhookEvent, PostWebhookCredit, MarkWebhookProcessed, SafetyNet, CheckCharge, PostCharge,
       ClaimFailure, FindFailedTxn, SetFailed, MarkForRetry, MarkFailureProcessed, CheckReversal,
       FindOriginalCharge, InsertReversal, PostSyncCredit, Respond, stripeVars
  <2>2. FailuresAreFirst'
    BY <2>1 DEF HoaInv, FailuresAreFirst, Ev
  <2> QED
    BY <1>1, <1>7, <2>2, HandlerCleanTxns, HandlerCleanSlots, HandlerCleanAcks DEF HoaInv
<1> QED
  BY <1>2, <1>3, <1>4, <1>5, <1>6, <1>7 DEF Next, Stripe

\* An answered success of the per-HOA endpoint has its credit, for a checkout of
\* which no failure was reported, whatever dies between the event row and the
\* credit and however the deliveries overlap.
THEOREM AnsweredHoaSuccessesAreCredited == Spec => []AckedHoaSuccessIsCredited
<1>1. HoaInv => AckedHoaSuccessIsCredited
  BY DEF HoaInv
<1> QED
  BY <1>1, HoaInit, HoaNext, Invariance, PTL DEF Spec

--------------------------------------------------------------------------------
(* The status of an answered charge.                                        *)

\* What a handler knows of the status it reads and writes, as long as no two
\* writes of it met: what it is about to overwrite is still not terminal, and a
\* charge.succeeded that is about to be answered has settled it.
TaskSettles(t) ==
    /\ t.want \in {"succeeded", "pending", "failed", "no_intent"}
    /\ t.ev.kind = "cc.charge.succeeded" => t.want = "succeeded"
    /\ <<t.ev.pay, StatusRow>> \notin raced =>
         /\ t.pc = "txn.write" => txn[t.ev.pay] \notin TerminalStatuses
         /\ t.ev.kind = "cc.charge.succeeded" /\ t.pc = "done" /\ HasTxn(t.ev.pay)
            => txn[t.ev.pay] \in TerminalStatuses

SlotsSettle == \A s \in Slots : task[s].pc # "idle" => TaskSettles(task[s])

\* Transaction rows are never deleted.
TxnsThere == \A p \in Payments : HasTxn(p) => txn[p] # "absent"

StatusInv == TxnsThere /\ SlotsSettle /\ AnsweredChargeIsSettled

\* A race that was noticed stays noticed.
LEMMA RacesLast == ASSUME [Next]_vars PROVE raced \subseteq raced'
<1>1. ASSUME NEW what, NEW others, NoteRace(what, others) PROVE raced \subseteq raced'
  BY <1>1 DEF NoteRace
<1>2. ASSUME NEW s \in Slots, HandlerStep(s) \/ Die(s) PROVE raced \subseteq raced'
  BY <1>1, <1>2 DEF HandlerStep, Die, ReadTxn, WriteTxn, LookupWebhookEvent, InsertWebhookEvent,
     CloseWebhookEvent, PostWebhookCredit, MarkWebhookProcessed, SafetyNet, CheckCharge, PostCharge,
     ClaimFailure, FindFailedTxn, SetFailed, MarkForRetry, MarkFailureProcessed, CheckReversal,
     FindOriginalCharge, InsertReversal, PostSyncCredit, Respond
<1>3. ASSUME Stripe PROVE raced' = raced
  BY <1>3 DEF Stripe, OpenCheckout, Pay, Settle, AfterCapture
<1>4. CASE UNCHANGED vars
  BY <1>4 DEF vars
<1> QED
  BY <1>2, <1>3, <1>4 DEF Next, AckUnhandled, Deliver, ChargeOffSession

\* Who changes a status, and to what.
LEMMA StatusChanges ==
    ASSUME IInv, [Next]_vars, NEW p \in Payments, txn'[p] # txn[p]
    PROVE  \/ txn[p] = "draft" /\ txn'[p] = "initiated"
           \/ \E s \in Slots :
                /\ p = PayOf(s) /\ At(s, "txn.write") /\ WriteTxn(s)
                /\ txn'[p] = IF task[s].want = "no_intent" THEN "failed" ELSE task[s].want
           \/ \E s \in Slots : p = PayOf(s) /\ SetFailed(s) /\ txn'[p] = "failed"
<1> USE DEF IInv, TypeInv, TypeOK
<1>1. ASSUME NEW q \in Payments, OpenCheckout(q)
      PROVE  txn[p] = "draft" /\ txn'[p] = "initiated"
  BY <1>1 DEF OpenCheckout
<1>2. ASSUME NEW s \in Slots, SetFailed(s) PROVE p = PayOf(s) /\ txn'[p] = "failed"
  BY <1>2 DEF SetFailed
<1>3. ASSUME NEW s \in Slots, WriteTxn(s)
      PROVE  /\ p = PayOf(s) /\ At(s, "txn.write")
             /\ txn'[p] = IF task[s].want = "no_intent" THEN "failed" ELSE task[s].want
  <2>1. PICK st : /\ st = IF task[s].want = "no_intent" THEN "failed" ELSE task[s].want
                  /\ txn' = [txn EXCEPT ![PayOf(s)] = st] /\ At(s, "txn.write")
    BY <1>3 DEF WriteTxn
  <2> QED
    BY <2>1
<1>4. \/ \E q \in Payments : OpenCheckout(q)
      \/ \E s \in Slots : SetFailed(s) \/ WriteTxn(s)
  <2>1. ~UNCHANGED txn
    OBVIOUS
  <2> QED
    BY <2>1 DEF Next, Stripe, Pay, Settle, AfterCapture, AckUnhandled, Deliver, ChargeOffSession,
       HandlerStep, Die, ReadTxn, LookupWebhookEvent, InsertWebhookEvent, CloseWebhookEvent,
       PostWebhookCredit, MarkWebhookProcessed, SafetyNet, CheckCharge, PostCharge, ClaimFailure,
       FindFailedTxn, MarkForRetry, MarkFailureProcessed, CheckReversal, FindOriginalCharge,
       InsertReversal, PostSyncCredit, Respond, txnVars, vars
<1> QED
  BY <1>1, <1>2, <1>3, <1>4

\* Unless two writes of it met, a settled transaction stays settled, and a handler
\* that is to write it still finds it as it read it.
LEMMA QuietStatus ==
    ASSUME IInv, StatusInv, [Next]_vars, NEW p \in Payments, <<p, StatusRow>> \notin raced'
    PROVE  /\ txn[p] \in TerminalStatuses => txn'[p] \in TerminalStatuses
           /\ HasTxn(p) => txn'[p] # "absent"
           /\ \A r \in Slots : task[r].pc = "txn.write" /\ PayOf(r) = p /\ task'[r] = task[r]
                               => txn'[p] \notin TerminalStatuses
<1>1. <<p, StatusRow>> \notin raced
  BY RacesLast
<1>w. ASSUME NEW s \in Slots, p = PayOf(s), WriteTxn(s) \/ SetFailed(s)
      PROVE  \A r \in Slots \ {s} : ~(task[r].pc = "txn.write" /\ PayOf(r) = p)
  <2>1. NoteRace(<<p, StatusRow>>, Beside(s, p, {"txn.write"}))
    BY <1>w DEF WriteTxn, SetFailed
  <2>2. Beside(s, p, {"txn.write"}) = {}
    BY <2>1 DEF NoteRace
  <2> QED
    BY <2>2 DEF Beside
<1>r. ASSUME NEW r \in Slots, task[r].pc = "txn.write", PayOf(r) = p
      PROVE  txn[p] \notin TerminalStatuses
  BY <1>1, <1>r DEF StatusInv, SlotsSettle, TaskSettles, PayOf
<1>2. CASE txn'[p] = txn[p]
  BY <1>2, <1>r DEF StatusInv, TxnsThere
<1>3. CASE txn[p] = "draft" /\ txn'[p] = "initiated"
  BY <1>3 DEF TerminalStatuses
<1>4. ASSUME NEW s \in Slots, p = PayOf(s), At(s, "txn.write"), WriteTxn(s),
             txn'[p] = IF task[s].want = "no_intent" THEN "failed" ELSE task[s].want
      PROVE  /\ txn[p] \notin TerminalStatuses /\ txn'[p] # "absent"
             /\ \A r \in Slots : ~(task[r].pc = "txn.write" /\ PayOf(r) = p /\ task'[r] = task[r])
  <2>1. TaskSettles(task[s])
    BY <1>4 DEF StatusInv, SlotsSettle, At
  <2>2. txn[p] \notin TerminalStatuses /\ txn'[p] # "absent"
    BY <1>4, <1>r, <2>1 DEF At, TaskSettles
  <2>3. task'[s].pc # "txn.write"
    <3>1. PICK st : task' = [task EXCEPT ![s].seen = st, ![s].pc = AfterTxn(task[s])]
      BY <1>4 DEF WriteTxn
    <3>2. PICK u : u = [task[s] EXCEPT !.seen = st, !.pc = AfterTxn(task[s])]
      OBVIOUS
    <3>3. u.pc = AfterTxn(task[s])
      BY <3>2 DEF IInv, TypeInv, TypeOK, Task
    <3>4. task'[s] = u
      BY <3>1, <3>2 DEF IInv, TypeInv, TypeOK
    <3> QED
      BY <3>3, <3>4 DEF AfterTxn
  <2> QED
    BY <1>4, <1>w, <2>2, <2>3
<1>5. ASSUME NEW s \in Slots, p = PayOf(s), SetFailed(s), txn'[p] = "failed"
      PROVE  \A r \in Slots : ~(task[r].pc = "txn.write" /\ PayOf(r) = p)
  BY <1>5, <1>w DEF SetFailed, At
<1> QED
  BY <1>2, <1>3, <1>4, <1>5, StatusChanges DEF TerminalStatuses

\* A slot that does not move keeps what it knows.
LEMMA QuietSlot ==
    ASSUME IInv, StatusInv, [Next]_vars, NEW r \in Slots, task'[r] = task[r], task[r].pc # "idle"
    PROVE  TaskSettles(task[r])'
<1>1. PICK t : t = task[r]
  OBVIOUS
<1>2. TaskSettles(t) /\ t.ev.pay \in Payments
  BY <1>1, EventParts DEF StatusInv, SlotsSettle, IInv, TypeInv, BusySlots
<1>3. kind' = kind
  BY StepLasts DEF IInv, Lasting
<1>4. <<t.ev.pay, StatusRow>> \notin raced' =>
        /\ <<t.ev.pay, StatusRow>> \notin raced
        /\ t.pc = "txn.write" => txn'[t.ev.pay] \notin TerminalStatuses
        /\ txn[t.ev.pay] \in TerminalStatuses => txn'[t.ev.pay] \in TerminalStatuses
  BY <1>1, <1>2, QuietStatus, RacesLast DEF PayOf
<1>5. TaskSettles(t)'
  BY <1>2, <1>3, <1>4 DEF TaskSettles, HasTxn
<1> QED
  BY <1>1, <1>5 DEF TaskSettles, HasTxn

\* A slot that starts, moves or stops knows what it must.
LEMMA MovedSlot ==
    ASSUME IInv, StatusInv, [Next]_vars, NEW s \in Slots,
           \/ \E e \in emitted : Deliver(s, e)
           \/ \E p \in Payments : ChargeOffSession(s, p)
           \/ HandlerStep(s) \/ Die(s)
    PROVE  SlotsSettle'
<1> USE DEF IInv
<1>k. kind' = kind
  BY StepLasts DEF Lasting
\* What there is to show of the slot after the step.
<1>u. ASSUME NEW u, task' = [task EXCEPT ![s] = u], u.pc # "idle" => TaskSettles(u)'
      PROVE  SlotsSettle'
  <2> SUFFICES ASSUME NEW r \in Slots, task'[r].pc # "idle" PROVE TaskSettles(task[r])'
    BY DEF SlotsSettle
  <2>1. CASE r = s
    <3>1. task'[r] = u
      BY <1>u, <2>1 DEF TypeInv, TypeOK
    <3> QED
      BY <1>u, <3>1 DEF TaskSettles, HasTxn
  <2>2. CASE r # s
    <3>1. task'[r] = task[r]
      BY <1>u, <2>2 DEF TypeInv, TypeOK
    <3> QED
      BY <3>1, QuietSlot
  <2> QED
    BY <2>1, <2>2
<1>1. ASSUME NEW e \in emitted, Deliver(s, e) PROVE SlotsSettle'
  <2>1. PICK u : u = [pc |-> FirstStep(e), ev |-> e, want |-> Wanted(e), seen |-> "absent", i |-> 1,
                      booked |-> e.kind \in ReversalKinds /\ credit[e.pay]["stripe_charge"] > 0]
    OBVIOUS
  <2>2. task' = [task EXCEPT ![s] = u]
    BY <1>1, <2>1 DEF Deliver
  <2>3. u.pc # "txn.write" /\ (u.ev.kind = "cc.charge.succeeded" => u.pc # "done")
    BY <2>1 DEF FirstStep, HoaKinds, HoaSuccess, ChargeKinds
  <2>4. /\ u.want \in {"succeeded", "pending", "failed", "no_intent"}
        /\ u.ev.kind = "cc.charge.succeeded" => u.want = "succeeded"
    BY <2>1 DEF Wanted
  <2> QED
    BY <1>u, <2>2, <2>3, <2>4 DEF TaskSettles
<1>2. ASSUME NEW p \in Payments, ChargeOffSession(s, p) PROVE SlotsSettle'
  <2>1. PICK answer \in {"succeeded", "pending", "failed", "no_intent"} :
          task' = [task EXCEPT ![s] = [pc |-> "txn.read", ev |-> Ev("sync", p), want |-> answer,
                                       seen |-> "absent", i |-> 1, booked |-> FALSE]]
    BY <1>2 DEF ChargeOffSession
  <2>2. PICK u : u = [pc |-> "txn.read", ev |-> Ev("sync", p), want |-> answer, seen |-> "absent",
                      i |-> 1, booked |-> FALSE]
    OBVIOUS
  <2>3. u.pc = "txn.read" /\ u.want = answer /\ u.ev.kind = "sync"
    BY <2>2 DEF Ev
  <2>4. TaskSettles(u)'
    BY <2>3 DEF TaskSettles
  <2> QED
    BY <1>u, <2>1, <2>2, <2>4
<1>3. ASSUME HandlerStep(s) \/ Die(s) PROVE SlotsSettle'
  <2>a. ~At(s, "idle")
    BY <1>3 DEF HandlerStep, Die, At, ReadTxn, WriteTxn, LookupWebhookEvent, InsertWebhookEvent,
       CloseWebhookEvent, PostWebhookCredit, MarkWebhookProcessed, SafetyNet, CheckCharge,
       PostCharge, ClaimFailure, FindFailedTxn, SetFailed, MarkForRetry, MarkFailureProcessed,
       CheckReversal, FindOriginalCharge, InsertReversal, PostSyncCredit, Respond
\* t is the slot before the step, as a value.
  <2>x. PICK t : t = task[s]
    OBVIOUS
  <2> DEFINE p == t.ev.pay
  <2>b. /\ t \in Task /\ TaskOK(t) /\ TaskSettles(t)
        /\ t.ev \in Event /\ p \in Payments /\ p = PayOf(s)
        /\ \A l : At(s, l) <=> t.pc = l
    BY <2>a, <2>x, EventParts DEF SlotsOK, SlotsSettle, StatusInv, TypeInv, TypeOK, At, PayOf, TaskOK
  <2>s. t.ev.kind = "cc.charge.succeeded" =>
          t.pc \in {"charge.layer1", "charge.post", "txn.read", "txn.write", "done"}
    BY <2>b DEF TaskOK, StepsOf, HoaKinds, HoaSuccess, ChargeKinds
  <2>n. /\ AfterTxn(t) # "txn.write" /\ AfterCharge(t) # "txn.write"
        /\ AfterCharge(t) = "done" => t.ev.kind # "cc.charge.succeeded"
    BY DEF AfterTxn, AfterCharge
\* The handler moves on in its event.
  <2>u. ASSUME NEW u, task' = [task EXCEPT ![s] = u], u.ev = t.ev, u.want = t.want,
               u.pc = "txn.write" => txn'[p] \notin TerminalStatuses,
               t.ev.kind = "cc.charge.succeeded" /\ u.pc = "done" /\ HasTxn(p)
               => txn'[p] \in TerminalStatuses
        PROVE  SlotsSettle'
    <3>1. TaskSettles(u)'
      BY <1>k, <2>b, <2>u DEF TaskSettles, HasTxn
    <3> QED
      BY <1>u, <2>u, <3>1
  <2>g. ASSUME NEW l, Go(s, l), l # "txn.write", t.ev.kind = "cc.charge.succeeded" => l # "done"
        PROVE  SlotsSettle'
    <3>1. PICK u : u = [t EXCEPT !.pc = l]
      OBVIOUS
    <3>2. u.ev = t.ev /\ u.want = t.want /\ u.pc = l
      BY <2>b, <3>1 DEF Task
    <3>3. task' = [task EXCEPT ![s] = u]
      BY <2>g, <2>x, <3>1 DEF Go
    <3> QED
      BY <2>g, <2>u, <3>2, <3>3
  <2>i. ASSUME task' = [task EXCEPT ![s] = Idle] PROVE SlotsSettle'
    BY <1>u, <2>i DEF Idle
  <2>1. CASE ReadTxn(s)
    <3>1. PICK u : u = [t EXCEPT !.seen = txn[p],
                                 !.pc = IF txn[p] \in TerminalStatuses \cup {"absent"}
                                        THEN AfterTxn(t) ELSE "txn.write"]
      OBVIOUS
    <3>2. /\ u.ev = t.ev /\ u.want = t.want
          /\ u.pc = IF txn[p] \in TerminalStatuses \cup {"absent"} THEN AfterTxn(t) ELSE "txn.write"
      BY <2>b, <3>1 DEF Task
    <3>3. task' = [task EXCEPT ![s] = u] /\ txn' = txn
      BY <2>1, <2>b, <2>x, <3>1 DEF ReadTxn, txnVars
    <3>4. HasTxn(p) => txn[p] # "absent"
      BY <2>b DEF StatusInv, TxnsThere
    <3> HIDE DEF p
    <3> QED
      BY <2>n, <2>u, <3>2, <3>3, <3>4
  <2>2. CASE WriteTxn(s)
    <3>1. PICK st : /\ st = IF t.want = "no_intent" THEN "failed" ELSE t.want
                    /\ txn' = [txn EXCEPT ![p] = st]
                    /\ task' = [task EXCEPT ![s].seen = st, ![s].pc = AfterTxn(task[s])]
      BY <2>2, <2>b, <2>x DEF WriteTxn
    <3>2. PICK u : u = [t EXCEPT !.seen = st, !.pc = AfterTxn(t)]
      OBVIOUS
    <3>3. u.ev = t.ev /\ u.want = t.want /\ u.pc = AfterTxn(t)
      BY <2>b, <3>2 DEF Task
    <3>4. task' = [task EXCEPT ![s] = u]
      BY <2>x, <3>1, <3>2
    <3>5. t.ev.kind = "cc.charge.succeeded" => txn'[p] = "succeeded"
      BY <2>b, <3>1 DEF TaskSettles, TypeInv, TypeOK
    <3> HIDE DEF p
    <3> QED
      BY <2>n, <2>u, <3>3, <3>4, <3>5 DEF TerminalStatuses
  <2>3. CASE CheckCharge(s) \/ PostCharge(s)
    <3>1. \E l \in {"charge.post", AfterCharge(t)} : Go(s, l)
      BY <2>3, <2>x DEF CheckCharge, PostCharge
    <3> QED
      BY <2>g, <2>n, <3>1
  <2>4. CASE \/ LookupWebhookEvent(s) \/ InsertWebhookEvent(s) \/ CloseWebhookEvent(s)
             \/ PostWebhookCredit(s) \/ MarkWebhookProcessed(s) \/ SafetyNet(s)
             \/ ClaimFailure(s) \/ FindFailedTxn(s) \/ SetFailed(s) \/ MarkForRetry(s)
             \/ MarkFailureProcessed(s) \/ PostSyncCredit(s)
    <3>1. task' = [task EXCEPT ![s] = Idle] \/ \E l : Go(s, l) /\ l # "txn.write"
      BY <2>4 DEF LookupWebhookEvent, InsertWebhookEvent, CloseWebhookEvent, PostWebhookCredit,
         MarkWebhookProcessed, SafetyNet, ClaimFailure, FindFailedTxn, SetFailed, MarkForRetry,
         MarkFailureProcessed, PostSyncCredit
    <3>2. t.pc \notin {"charge.layer1", "charge.post", "txn.read", "txn.write", "done"}
      BY <2>4, <2>b DEF LookupWebhookEvent, InsertWebhookEvent, CloseWebhookEvent, PostWebhookCredit,
         MarkWebhookProcessed, SafetyNet, ClaimFailure, FindFailedTxn, SetFailed, MarkForRetry,
         MarkFailureProcessed, PostSyncCredit
    <3> QED
      BY <2>g, <2>i, <2>s, <3>1, <3>2
  <2>5. CASE CheckReversal(s) \/ FindOriginalCharge(s) \/ InsertReversal(s)
    <3>1. t.ev.kind # "cc.charge.succeeded"
      BY <2>5, <2>b, <2>s DEF CheckReversal, FindOriginalCharge, InsertReversal
    <3>2. CASE \E l : Go(s, l) /\ l # "txn.write"
      BY <2>g, <3>1, <3>2
    <3>3. CASE NextReversal(s)
      <4>1. PICK u : u = [t EXCEPT !.i = @ + 1,
                                   !.pc = IF t.i < Len(t.ev.owes) THEN "rev.check" ELSE "done"]
        OBVIOUS
      <4>2. task' = [task EXCEPT ![s] = u]
        BY <2>x, <3>3, <4>1 DEF NextReversal
      <4>3. u.ev = t.ev /\ u.want = t.want /\ u.pc # "txn.write"
        BY <2>b, <4>1 DEF Task
      <4> QED
        BY <2>u, <3>1, <4>2, <4>3
    <3> QED
      BY <2>5, <3>2, <3>3 DEF CheckReversal, FindOriginalCharge, InsertReversal
  <2>6. CASE Respond(s) \/ Die(s)
    BY <2>6, <2>i DEF Respond, Die
  <2> QED
    BY <1>3, <2>1, <2>2, <2>3, <2>4, <2>5, <2>6 DEF HandlerStep
<1> QED
  BY <1>1, <1>2, <1>3

\* It holds initially.
LEMMA StatusInit == Init => StatusInv
BY DEF Init, StatusInv, TxnsThere, SlotsSettle, AnsweredChargeIsSettled, Idle, HasTxn

\* Every step preserves it.
LEMMA StatusNext == IInv /\ StatusInv /\ [Next]_vars => StatusInv'
<1> SUFFICES ASSUME IInv, StatusInv, [Next]_vars PROVE StatusInv'
  OBVIOUS
<1> USE DEF IInv
<1>k. kind' = kind
  BY StepLasts DEF Lasting
<1>1. TxnsThere'
  <2> SUFFICES ASSUME NEW p \in Payments, HasTxn(p)' PROVE txn'[p] # "absent"
    BY DEF TxnsThere
  <2>1. txn[p] # "absent"
    BY <1>k DEF StatusInv, TxnsThere, HasTxn
  <2>2. ASSUME NEW s \in Slots, At(s, "txn.write") PROVE task[s].want # "absent"
    BY <2>2 DEF StatusInv, SlotsSettle, TaskSettles, At
  <2> QED
    BY <2>1, <2>2, StatusChanges
<1>2. SlotsSettle'
  <2>1. CASE UNCHANGED task
    BY <2>1, QuietSlot DEF SlotsSettle
  <2>2. CASE ~UNCHANGED task
    <3>1. \E s \in Slots : \/ \E e \in emitted : Deliver(s, e)
                           \/ \E p \in Payments : ChargeOffSession(s, p)
                           \/ HandlerStep(s) \/ Die(s)
      BY <2>2 DEF Next, Stripe, OpenCheckout, Pay, Settle, AfterCapture, AckUnhandled, vars
    <3> QED
      BY <3>1, MovedSlot
  <2> QED
    BY <2>1, <2>2
<1>3. AnsweredChargeIsSettled'
  <2> SUFFICES ASSUME NEW e \in acked', e.kind = "cc.charge.succeeded", HasTxn(e.pay)',
                      <<e.pay, StatusRow>> \notin raced'
               PROVE  txn'[e.pay] \in TerminalStatuses
    BY DEF AnsweredChargeIsSettled
  <2>1. e \in Event
    BY TypeNext DEF TypeInv, TypeOK
  <2>2. e.pay \in Payments /\ HasTxn(e.pay) /\ <<e.pay, StatusRow>> \notin raced
    BY <1>k, <2>1, EventParts, RacesLast DEF HasTxn
  <2>3. txn[e.pay] \in TerminalStatuses
    <3>1. CASE e \in acked
      BY <2>2, <3>1 DEF StatusInv, AnsweredChargeIsSettled
    <3>2. CASE e \notin acked
      <4>1. \/ \E s \in Slots : Respond(s)
            \/ \E x \in emitted : AckUnhandled(x)
        BY <3>2 DEF Next, Stripe, OpenCheckout, Pay, Settle, AfterCapture, Deliver, ChargeOffSession,
           HandlerStep, Die, ReadTxn, WriteTxn, LookupWebhookEvent, InsertWebhookEvent,
           CloseWebhookEvent, PostWebhookCredit, MarkWebhookProcessed, SafetyNet, CheckCharge,
           PostCharge, ClaimFailure, FindFailedTxn, SetFailed, MarkForRetry, MarkFailureProcessed,
           CheckReversal, FindOriginalCharge, InsertReversal, PostSyncCredit, vars
      <4>2. ASSUME NEW x \in emitted, AckUnhandled(x) PROVE FALSE
        <5>1. e = x /\ x.kind \in HoaKinds
          BY <3>2, <4>2 DEF AckUnhandled
        <5> QED
          BY <5>1 DEF HoaKinds, HoaSuccess
      <4>3. PICK s \in Slots : Respond(s)
        BY <4>1, <4>2
      <4>4. At(s, "done") /\ e = task[s].ev
        BY <3>2, <4>3 DEF Respond
      <4>5. TaskSettles(task[s])
        BY <4>4 DEF StatusInv, SlotsSettle, At
      <4> QED
        BY <2>2, <4>4, <4>5 DEF TaskSettles, At
    <3> QED
      BY <3>1, <3>2
  <2> QED
    BY <2>2, <2>3, QuietStatus
<1> QED
  BY <1>1, <1>2, <1>3 DEF StatusInv

\* Once a charge.succeeded event is answered its transaction stays settled, however
\* late or often other events come and whatever dies, unless two handlers were
\* about to write its status at once.
THEOREM AnsweredChargesStaySettled == Spec => []AnsweredChargeIsSettled
<1>1. StatusInv => AnsweredChargeIsSettled
  BY DEF StatusInv
<1> QED
  BY <1>1, StatusInit, StatusNext, Invariance, PTL DEF Spec

--------------------------------------------------------------------------------
(* Reversals, whatever the handlers beside.                                 *)

\* The reversal loop: every reference behind it has its reversal, if the charge
\* was recorded when the event came.
ReversalLoop(t) ==
    /\ t.i > 0
    /\ t.pc # "done" => t.i <= Len(t.ev.owes)
    /\ t.pc = "done" => t.i > Len(t.ev.owes)
    /\ t.booked => /\ credit[t.ev.pay]["stripe_charge"] > 0
                   /\ \A j \in 1..Len(t.ev.owes) : j < t.i => reversed[t.ev.pay][t.ev.owes[j]] > 0

SlotsLoop == \A s \in Slots : task[s].pc # "idle" /\ task[s].ev.kind \in ReversalKinds
                              => ReversalLoop(task[s])

\* Between the lookup that found no reversal and the insert.
Reversing(t) == t.pc \in {"rev.original", "rev.insert"}
Target(t) == <<t.ev.pay, Current(t)>>

\* Unless two handlers met there, a handler between lookup and insert is the only
\* one there for its reference, which has no reversal yet.
FirstReversal ==
    \A s \in Slots : Reversing(task[s]) /\ Target(task[s]) \notin raced =>
        /\ reversed[PayOf(s)][Current(task[s])] = 0
        /\ \A r \in Slots : Reversing(task[r]) /\ Target(task[r]) = Target(task[s]) => r = s

ReversalInv == SlotsLoop /\ FirstReversal /\ OneReversalPerReference

\* Rows of both ledgers are only ever added.
LEMMA LedgerGrows ==
    ASSUME IInv, [Next]_vars
    PROVE  \A p \in Payments : credit[p]["stripe_charge"] > 0 => credit'[p]["stripe_charge"] > 0
<1> SUFFICES ASSUME NEW p \in Payments, credit[p]["stripe_charge"] > 0
             PROVE  credit'[p]["stripe_charge"] > 0
  OBVIOUS
<1>1. credit[p]["stripe_charge"] \in Nat
  BY DEF IInv, TypeInv, TypeOK, Writers, KeyedWriters
<1>2. CASE credit' = credit
  BY <1>2
<1>3. ASSUME NEW q \in Payments, NEW w \in KeyedWriters, PostPayment(q, w)
      PROVE  credit'[p]["stripe_charge"] > 0
  <2>1. "stripe_charge" \in Writers
    BY DEF Writers, KeyedWriters
  <2>2. credit'[p]["stripe_charge"] >= credit[p]["stripe_charge"]
    BY <1>3, <2>1, PostPaymentEffect DEF IInv, TypeInv
  <2>3. credit'[p]["stripe_charge"] \in Nat
    BY <1>3, <2>1, PostPaymentEffect DEF IInv, TypeInv
  <2> QED
    BY <1>1, <2>2, <2>3
<1>4. ASSUME NEW q \in Payments, credit' = [credit EXCEPT ![q]["retry-sync"] = @ + 1]
      PROVE  credit'[p]["stripe_charge"] = credit[p]["stripe_charge"]
  BY <1>4 DEF IInv, TypeInv, TypeOK, Writers, KeyedWriters
<1> QED
  BY <1>2, <1>3, <1>4, StepShape DEF IInv, LedgerStep, CaptureStep

\* A step that inserts no reversal keeps the invariant, if the slot it moves does
\* not come between lookup and insert.
LEMMA QuietReversals ==
    ASSUME IInv, ReversalInv, [Next]_vars, UNCHANGED reversed,
           \A r \in Slots : task'[r] # task[r] =>
                /\ task'[r].pc \notin {"rev.original", "rev.insert"}
                /\ task'[r].pc # "idle" /\ task'[r].ev.kind \in ReversalKinds => ReversalLoop(task[r])'
    PROVE  ReversalInv'
<1>1. raced \subseteq raced'
  BY RacesLast
<1>2. OneReversalPerReference'
  BY <1>1 DEF ReversalInv, OneReversalPerReference
<1>3. FirstReversal'
  <2> SUFFICES ASSUME NEW s \in Slots, Reversing(task[s])', Target(task[s])' \notin raced'
               PROVE  /\ reversed[PayOf(s)'][Current(task[s])'] = 0
                      /\ \A r \in Slots : Reversing(task[r])' /\ Target(task[r])' = Target(task[s])' => r = s
    BY DEF FirstReversal
  <2>1. \A r \in Slots : Reversing(task[r])' => task'[r] = task[r]
    BY DEF Reversing
  <2>2. /\ PayOf(s)' = PayOf(s) /\ Current(task[s])' = Current(task[s])
        /\ Target(task[s])' = Target(task[s]) /\ Reversing(task[s])
    BY <2>1 DEF PayOf, Current, Target, Reversing
  <2>3. \A r \in Slots : Reversing(task[r])' => Reversing(task[r]) /\ Target(task[r])' = Target(task[r])
    BY <2>1 DEF Current, Target, Reversing
  <2> QED
    BY <1>1, <2>2, <2>3 DEF ReversalInv, FirstReversal
<1>4. SlotsLoop'
  <2> SUFFICES ASSUME NEW s \in Slots, task'[s].pc # "idle", task'[s].ev.kind \in ReversalKinds
               PROVE  ReversalLoop(task[s])'
    BY DEF SlotsLoop
  <2>1. CASE task'[s] # task[s]
    BY <2>1
  <2>2. CASE task'[s] = task[s]
    <3>1. ReversalLoop(task[s]) /\ task[s].ev.pay \in Payments
      BY <2>2, EventParts DEF ReversalInv, SlotsLoop, IInv, TypeInv, BusySlots
    <3>2. credit[task[s].ev.pay]["stripe_charge"] > 0 => credit'[task[s].ev.pay]["stripe_charge"] > 0
      BY <3>1, LedgerGrows
    <3> QED
      BY <2>2, <3>1, <3>2 DEF ReversalLoop
  <2> QED
    BY <2>1, <2>2
<1> QED
  BY <1>2, <1>3, <1>4 DEF ReversalInv

\* The three steps of the loop are taken in an event that calls for reversals.
LEMMA LoopSteps ==
    ASSUME IInv, ReversalInv, NEW s \in Slots,
           At(s, "rev.check") \/ At(s, "rev.original") \/ At(s, "rev.insert")
    PROVE  /\ task[s].ev \in Event /\ task[s].ev.kind \in ReversalKinds /\ PayOf(s) \in Payments
           /\ task[s].i \in 1..Len(task[s].ev.owes) /\ Len(task[s].ev.owes) \in Nat
           /\ Current(task[s]) \in Reversal
           /\ \A j \in 1..Len(task[s].ev.owes) : task[s].ev.owes[j] \in Reversal
           /\ reversed \in [Payments -> [Reversal -> Nat]]
           /\ ReversalLoop(task[s])
<1>1. TaskOK(task[s]) /\ task[s] \in Task /\ task[s].ev \in Event
      /\ reversed \in [Payments -> [Reversal -> Nat]]
  BY DEF IInv, TypeInv, TypeOK, BusySlots, SlotsOK, At
<1>2. task[s].ev.kind \in ReversalKinds
  <2>1. task[s].ev.kind \in EventKinds \cup {"sync"}
    BY <1>1, EventParts
  <2> QED
    BY <1>1, <2>1 DEF TaskOK, StepsOf, At, EventKinds, HoaKinds, HoaSuccess, ChargeKinds, ReversalKinds
<1>3. ReversalLoop(task[s])
  BY <1>2 DEF ReversalInv, SlotsLoop, At
<1>4. /\ Len(task[s].ev.owes) \in Nat /\ PayOf(s) \in Payments
      /\ \A j \in 1..Len(task[s].ev.owes) : task[s].ev.owes[j] \in Reversal
  BY <1>1, OwedReversals, EventParts DEF PayOf
<1>5. task[s].i \in 1..Len(task[s].ev.owes)
  BY <1>1, <1>3, <1>4 DEF ReversalLoop, At, Task
<1> QED
  BY <1>1, <1>2, <1>3, <1>4, <1>5 DEF Current

\* The loop moves on when its reference has its reversal, or cannot have one.
LEMMA LoopMovesOn ==
    ASSUME IInv, ReversalInv, [Next]_vars, NEW s \in Slots, NextReversal(s),
           At(s, "rev.check") \/ At(s, "rev.original") \/ At(s, "rev.insert"),
           \A p \in Payments, r \in Reversal : reversed[p][r] > 0 => reversed'[p][r] > 0,
           task[s].booked => reversed'[PayOf(s)][Current(task[s])] > 0
    PROVE  /\ \A r \in Slots \ {s} : task'[r] = task[r]
           /\ task'[s].pc \notin {"rev.original", "rev.insert"}
           /\ ReversalLoop(task[s])'
<1>1. PICK t : t = task[s]
  OBVIOUS
<1>2. PICK u : u = [t EXCEPT !.i = @ + 1,
                             !.pc = IF t.i < Len(t.ev.owes) THEN "rev.check" ELSE "done"]
  OBVIOUS
<1>3. t \in Task /\ task' = [task EXCEPT ![s] = u]
  BY <1>1, <1>2 DEF NextReversal, IInv, TypeInv, TypeOK
<1>4. /\ u.ev = t.ev /\ u.i = t.i + 1 /\ u.booked = t.booked
      /\ u.pc = IF t.i < Len(t.ev.owes) THEN "rev.check" ELSE "done"
  BY <1>2, <1>3 DEF Task
<1>5. task'[s] = u /\ \A r \in Slots \ {s} : task'[r] = task[r]
  BY <1>3 DEF IInv, TypeInv, TypeOK
<1>6. /\ t.i \in 1..Len(t.ev.owes) /\ Len(t.ev.owes) \in Nat /\ t.ev.pay \in Payments
      /\ \A j \in 1..Len(t.ev.owes) : t.ev.owes[j] \in Reversal
      /\ ReversalLoop(t)
  BY <1>1, LoopSteps DEF PayOf
<1>7. ASSUME t.booked
      PROVE  /\ credit'[t.ev.pay]["stripe_charge"] > 0
             /\ \A j \in 1..Len(t.ev.owes) : j < t.i + 1 => reversed'[t.ev.pay][t.ev.owes[j]] > 0
  <2>1. credit'[t.ev.pay]["stripe_charge"] > 0
    BY <1>6, <1>7, LedgerGrows DEF ReversalLoop
  <2>2. ASSUME NEW j \in 1..Len(t.ev.owes), j < t.i + 1 PROVE reversed'[t.ev.pay][t.ev.owes[j]] > 0
    <3>1. CASE j = t.i
      BY <1>1, <1>7, <3>1 DEF Current, PayOf
    <3>2. CASE j < t.i
      <4>1. reversed[t.ev.pay][t.ev.owes[j]] > 0
        BY <1>6, <1>7, <3>2 DEF ReversalLoop
      <4> QED
        BY <1>6, <4>1
    <3> QED
      BY <1>6, <2>2, <3>1, <3>2
  <2> QED
    BY <2>1, <2>2
<1>8. ReversalLoop(u)'
  <2>1. u.i > 0 /\ (u.pc # "done" => u.i <= Len(u.ev.owes)) /\ (u.pc = "done" => u.i > Len(u.ev.owes))
    BY <1>4, <1>6
  <2> QED
    BY <1>4, <1>7, <2>1 DEF ReversalLoop
<1> QED
  BY <1>4, <1>5, <1>8 DEF ReversalLoop

\* A handler that stays with its reference: nobody else is there, or it was noticed.
LEMMA LoopStays ==
    ASSUME IInv, ReversalInv, [Next]_vars, NEW s \in Slots, UNCHANGED reversed,
           At(s, "rev.check") \/ At(s, "rev.original"),
           NEW l \in {"rev.original", "rev.insert"}, Go(s, l),
           Target(task[s]) \notin raced' =>
              /\ reversed[PayOf(s)][Current(task[s])] = 0
              /\ \A r \in Slots : Reversing(task[r]) /\ Target(task[r]) = Target(task[s]) => r = s
    PROVE  ReversalInv'
<1>1. PICK t : t = task[s]
  OBVIOUS
<1>2. PICK u : u = [t EXCEPT !.pc = l]
  OBVIOUS
<1>3. t \in Task /\ task' = [task EXCEPT ![s] = u]
  BY <1>1, <1>2 DEF Go, IInv, TypeInv, TypeOK
<1>4. u.ev = t.ev /\ u.i = t.i /\ u.booked = t.booked /\ u.pc = l
  BY <1>2, <1>3 DEF Task
<1>5. task'[s] = u /\ \A r \in Slots \ {s} : task'[r] = task[r]
  BY <1>3 DEF IInv, TypeInv, TypeOK
<1>6. raced \subseteq raced'
  BY RacesLast
<1>7. \A r \in Slots : Target(task[r])' = Target(task[r])
  BY <1>1, <1>4, <1>5 DEF Target, Current
<1>8. \A r \in Slots : r # s => (Reversing(task[r])' <=> Reversing(task[r]))
  BY <1>5 DEF Reversing
<1>9. FirstReversal'
  <2> SUFFICES ASSUME NEW q \in Slots, Reversing(task[q])', Target(task[q]) \notin raced'
               PROVE  /\ reversed[PayOf(q)][Current(task[q])] = 0
                      /\ \A r \in Slots : Reversing(task[r])' /\ Target(task[r]) = Target(task[q]) => r = q
    <3>1. \A r \in Slots : PayOf(r)' = PayOf(r) /\ Current(task[r])' = Current(task[r])
      BY <1>1, <1>4, <1>5 DEF PayOf, Current
    <3> QED
      BY <1>7, <3>1 DEF FirstReversal
  <2>1. CASE q = s
    BY <1>8, <2>1
  <2>2. CASE q # s
    <3>1. Reversing(task[q]) /\ Target(task[q]) \notin raced
      BY <1>6, <1>8, <2>2
    <3>2. /\ reversed[PayOf(q)][Current(task[q])] = 0
          /\ \A r \in Slots : Reversing(task[r]) /\ Target(task[r]) = Target(task[q]) => r = q
      BY <3>1 DEF ReversalInv, FirstReversal
    <3>3. Target(task[q]) # Target(task[s])
      BY <2>2, <3>1
    <3> QED
      BY <1>8, <3>2, <3>3
  <2> QED
    BY <2>1, <2>2
<1>10. SlotsLoop'
  <2> SUFFICES ASSUME NEW r \in Slots, task'[r].pc # "idle", task'[r].ev.kind \in ReversalKinds
               PROVE  ReversalLoop(task[r])'
    BY DEF SlotsLoop
  <2>1. CASE r = s
    <3>1. ReversalLoop(t) /\ t.ev.pay \in Payments
      BY <1>1, LoopSteps DEF PayOf
    <3>2. t.pc # "done" /\ l # "done"
      BY <1>1 DEF At
    <3>3. credit[t.ev.pay]["stripe_charge"] > 0 => credit'[t.ev.pay]["stripe_charge"] > 0
      BY <3>1, LedgerGrows
    <3>4. ReversalLoop(u)'
      BY <1>4, <3>1, <3>2, <3>3 DEF ReversalLoop
    <3> QED
      BY <1>5, <2>1, <3>4 DEF ReversalLoop
  <2>2. CASE r # s
    <3>1. task'[r] = task[r]
      BY <1>5, <2>2
    <3>2. ReversalLoop(task[r]) /\ task[r].ev.pay \in Payments
      BY <3>1, EventParts DEF ReversalInv, SlotsLoop, IInv, TypeInv, BusySlots
    <3>3. credit[task[r].ev.pay]["stripe_charge"] > 0 => credit'[task[r].ev.pay]["stripe_charge"] > 0
      BY <3>2, LedgerGrows
    <3> QED
      BY <3>1, <3>2, <3>3 DEF ReversalLoop
  <2> QED
    BY <2>1, <2>2
<1>11. OneReversalPerReference'
  BY <1>6 DEF ReversalInv, OneReversalPerReference
<1> QED
  BY <1>9, <1>10, <1>11 DEF ReversalInv

\* The lookup.
LEMMA CheckReversalInv ==
    ASSUME IInv, ReversalInv, [Next]_vars, NEW s \in Slots, CheckReversal(s)
    PROVE  ReversalInv'
<1> DEFINE p == PayOf(s)
<1> DEFINE ref == Current(task[s])
<1>1. At(s, "rev.check") /\ UNCHANGED reversed
  BY DEF CheckReversal, ledgerVars
<1>2. p \in Payments /\ ref \in Reversal /\ reversed[p][ref] \in Nat
  BY <1>1, LoopSteps
<1>3. CASE reversed[p][ref] > 0
  <2>1. NextReversal(s)
    BY <1>3 DEF CheckReversal
  <2>2. /\ \A r \in Slots \ {s} : task'[r] = task[r]
        /\ task'[s].pc \notin {"rev.original", "rev.insert"}
        /\ ReversalLoop(task[s])'
    BY <1>1, <1>3, <2>1, LoopMovesOn
  <2> QED
    BY <1>1, <2>2, QuietReversals
<1>4. CASE ~(reversed[p][ref] > 0)
  <2>1. /\ Go(s, "rev.original")
        /\ NoteRace(<<p, ref>>, {r \in Beside(s, p, {"rev.original", "rev.insert"}) : Current(task[r]) = ref})
    BY <1>4 DEF CheckReversal
  <2>2. reversed[p][ref] = 0
    BY <1>2, <1>4
  <2>3. ASSUME Target(task[s]) \notin raced', NEW r \in Slots, Reversing(task[r]),
               Target(task[r]) = Target(task[s]), r # s
        PROVE  FALSE
    <3>1. PayOf(r) = p /\ Current(task[r]) = ref /\ <<p, ref>> \notin raced'
      BY <2>3 DEF Target, PayOf
    <3>2. r \in Beside(s, p, {"rev.original", "rev.insert"})
      BY <2>3, <3>1 DEF Beside, Reversing
    <3> QED
      BY <2>1, <3>1, <3>2 DEF NoteRace
  <2> QED
    BY <1>1, <2>1, <2>2, <2>3, LoopStays
<1> QED
  BY <1>3, <1>4

\* The lookup of the original charge.
LEMMA FindOriginalInv ==
    ASSUME IInv, ReversalInv, [Next]_vars, NEW s \in Slots, FindOriginalCharge(s)
    PROVE  ReversalInv'
<1>1. At(s, "rev.original") /\ UNCHANGED reversed /\ raced' = raced
  BY DEF FindOriginalCharge, ledgerVars
<1>2. CASE credit[PayOf(s)]["stripe_charge"] = 0
  <2>1. NextReversal(s)
    BY <1>2 DEF FindOriginalCharge
  <2>2. ~task[s].booked
    <3>1. ReversalLoop(task[s]) /\ task[s] \in Task
      BY <1>1, LoopSteps DEF IInv, TypeInv, TypeOK
    <3> QED
      BY <1>2, <3>1 DEF ReversalLoop, PayOf
  <2>3. /\ \A r \in Slots \ {s} : task'[r] = task[r]
        /\ task'[s].pc \notin {"rev.original", "rev.insert"}
        /\ ReversalLoop(task[s])'
    BY <1>1, <2>1, <2>2, LoopMovesOn
  <2> QED
    BY <1>1, <2>3, QuietReversals
<1>3. CASE credit[PayOf(s)]["stripe_charge"] # 0
  <2>1. Go(s, "rev.insert")
    BY <1>3 DEF FindOriginalCharge
  <2>2. Reversing(task[s])
    BY <1>1 DEF Reversing, At
  <2> QED
    BY <1>1, <2>1, <2>2, LoopStays DEF ReversalInv, FirstReversal
<1> QED
  BY <1>2, <1>3

\* The insert: the first one for its reference, unless two met.
LEMMA InsertReversalInv ==
    ASSUME IInv, ReversalInv, [Next]_vars, NEW s \in Slots, InsertReversal(s)
    PROVE  ReversalInv'
<1>1. PICK p, ref : p = PayOf(s) /\ ref = Current(task[s])
  OBVIOUS
<1>2. /\ At(s, "rev.insert") /\ NextReversal(s) /\ raced' = raced
      /\ reversed' = [reversed EXCEPT ![p][ref] = @ + 1]
  BY <1>1 DEF InsertReversal
<1>3. p \in Payments /\ ref \in Reversal /\ reversed \in [Payments -> [Reversal -> Nat]]
  BY <1>1, <1>2, LoopSteps
<1>4. \A q \in Payments, r \in Reversal :
         reversed'[q][r] = IF q = p /\ r = ref THEN reversed[p][ref] + 1 ELSE reversed[q][r]
  BY <1>2, <1>3
<1>5. reversed[p][ref] \in Nat
  BY <1>3
<1>6. <<p, ref>> \notin raced =>
         /\ reversed[p][ref] = 0
         /\ \A r \in Slots : Reversing(task[r]) /\ Target(task[r]) = <<p, ref>> => r = s
  <2>1. Reversing(task[s]) /\ Target(task[s]) = <<p, ref>>
    BY <1>1, <1>2 DEF Reversing, Target, At, PayOf
  <2> QED
    BY <1>1, <2>1 DEF ReversalInv, FirstReversal
<1>7. OneReversalPerReference'
  BY <1>2, <1>4, <1>6 DEF ReversalInv, OneReversalPerReference
<1>8. /\ \A q \in Payments, r \in Reversal : reversed[q][r] > 0 => reversed'[q][r] > 0
      /\ reversed'[p][ref] > 0
  BY <1>3, <1>4, <1>5
<1>9. /\ \A r \in Slots \ {s} : task'[r] = task[r]
      /\ task'[s].pc \notin {"rev.original", "rev.insert"}
      /\ ReversalLoop(task[s])'
  BY <1>1, <1>2, <1>8, LoopMovesOn
<1>10. FirstReversal'
  <2> SUFFICES ASSUME NEW q \in Slots, Reversing(task[q])', Target(task[q])' \notin raced'
               PROVE  /\ reversed'[PayOf(q)'][Current(task[q])'] = 0
                      /\ \A r \in Slots : Reversing(task[r])' /\ Target(task[r])' = Target(task[q])' => r = q
    BY DEF FirstReversal
  <2>1. \A r \in Slots : Reversing(task[r])' =>
           /\ r # s /\ Reversing(task[r]) /\ Target(task[r])' = Target(task[r])
           /\ PayOf(r)' = PayOf(r) /\ Current(task[r])' = Current(task[r])
    BY <1>9 DEF Reversing, Target, PayOf, Current
  <2>2. Target(task[q]) \notin raced
    BY <1>2, <2>1
  <2>3. /\ reversed[PayOf(q)][Current(task[q])] = 0
        /\ \A r \in Slots : Reversing(task[r]) /\ Target(task[r]) = Target(task[q]) => r = q
    BY <2>1, <2>2 DEF ReversalInv, FirstReversal
  <2>4. PICK q2, r2 : q2 = PayOf(q) /\ r2 = Current(task[q])
    OBVIOUS
  <2>5. q2 \in Payments /\ r2 \in Reversal
    BY <2>1, <2>4, LoopSteps DEF Reversing, At
  <2>6. ~(q2 = p /\ r2 = ref)
    <3>1. ASSUME q2 = p, r2 = ref PROVE Target(task[q]) = Target(task[s])
      BY <1>1, <2>4, <3>1 DEF Target, PayOf
    <3>2. Reversing(task[s])
      BY <1>2 DEF Reversing, At
    <3> QED
      BY <2>1, <2>3, <3>1, <3>2
  <2>7. reversed'[q2][r2] = 0
    BY <1>4, <2>3, <2>4, <2>5, <2>6
  <2> QED
    BY <2>1, <2>3, <2>4, <2>7
<1>11. SlotsLoop'
  <2> SUFFICES ASSUME NEW r \in Slots, r # s, task'[r].pc # "idle", task'[r].ev.kind \in ReversalKinds
               PROVE  ReversalLoop(task[r])'
    BY <1>9 DEF SlotsLoop
  <2>1. PICK t : t = task[r]
    OBVIOUS
  <2>2. task'[r] = t
    BY <1>9, <2>1
  <2>3. ReversalLoop(t) /\ t.ev \in Event
    BY <2>1, <2>2 DEF ReversalInv, SlotsLoop, IInv, TypeInv, BusySlots
  <2>4. t.ev.pay \in Payments /\ \A j \in 1..Len(t.ev.owes) : t.ev.owes[j] \in Reversal
    BY <2>3, EventParts, OwedReversals
  <2>5. credit[t.ev.pay]["stripe_charge"] > 0 => credit'[t.ev.pay]["stripe_charge"] > 0
    BY <2>4, LedgerGrows
  <2>6. ReversalLoop(t)'
    BY <1>8, <2>3, <2>4, <2>5 DEF ReversalLoop
  <2> QED
    BY <2>2, <2>6 DEF ReversalLoop
<1> QED
  BY <1>7, <1>10, <1>11 DEF ReversalInv

\* An event that comes starts its loop at the first reference; without one it is
\* answered.
LEMMA ArrivalReversals ==
    ASSUME IInv, ReversalInv, [Next]_vars, NEW s \in Slots,
           (\E e \in emitted : Deliver(s, e)) \/ (\E p \in Payments : ChargeOffSession(s, p))
    PROVE  ReversalInv'
<1>1. UNCHANGED reversed
  BY DEF Deliver, ChargeOffSession, ledgerVars
<1>2. ASSUME NEW u, task' = [task EXCEPT ![s] = u], ~Reversing(u),
             u.ev.kind \in ReversalKinds => ReversalLoop(u)'
      PROVE  ReversalInv'
  <2>1. task'[s] = u /\ \A r \in Slots : r # s => task'[r] = task[r]
    BY <1>2 DEF IInv, TypeInv, TypeOK
  <2>2. task'[s].ev.kind \in ReversalKinds => ReversalLoop(task[s])'
    BY <1>2, <2>1 DEF ReversalLoop
  <2> QED
    BY <1>1, <1>2, <2>1, <2>2, QuietReversals DEF Reversing
<1>3. ASSUME NEW e \in emitted, Deliver(s, e) PROVE ReversalInv'
  <2>1. PICK u : u = [pc |-> FirstStep(e), ev |-> e, want |-> Wanted(e), seen |-> "absent", i |-> 1,
                      booked |-> e.kind \in ReversalKinds /\ credit[e.pay]["stripe_charge"] > 0]
    OBVIOUS
  <2>2. task' = [task EXCEPT ![s] = u] /\ UNCHANGED credit
    BY <1>3, <2>1 DEF Deliver, ledgerVars
  <2>3. ~Reversing(u)
    BY <2>1 DEF Reversing, FirstStep
  <2>4. e \in Event
    BY DEF IInv, TypeInv, TypeOK
  <2>5. Len(e.owes) \in Nat /\ (Len(e.owes) = 0 <=> e.owes = <<>>)
    BY <2>4, OwedReversals
  <2>6. e.kind \in ReversalKinds => u.pc = IF e.owes = <<>> THEN "done" ELSE "rev.check"
    BY <2>1 DEF FirstStep, ReversalKinds, HoaKinds, HoaSuccess, ChargeKinds
  <2>7. u.ev = e /\ u.i = 1 /\ (u.booked => credit[e.pay]["stripe_charge"] > 0)
    BY <2>1
  <2>8. e.kind \in ReversalKinds => ReversalLoop(u)'
    BY <2>2, <2>5, <2>6, <2>7 DEF ReversalLoop
  <2> QED
    BY <1>2, <2>2, <2>3, <2>7, <2>8
<1>4. ASSUME NEW p \in Payments, ChargeOffSession(s, p) PROVE ReversalInv'
  <2>1. PICK answer : task' = [task EXCEPT ![s] = [pc |-> "txn.read", ev |-> Ev("sync", p), want |-> answer,
                                                  seen |-> "absent", i |-> 1, booked |-> FALSE]]
    BY <1>4 DEF ChargeOffSession
  <2>2. PICK u : u = [pc |-> "txn.read", ev |-> Ev("sync", p), want |-> answer, seen |-> "absent",
                      i |-> 1, booked |-> FALSE]
    OBVIOUS
  <2>3. u.pc = "txn.read" /\ u.ev.kind = "sync"
    BY <2>2 DEF Ev
  <2> QED
    BY <1>2, <2>1, <2>2, <2>3 DEF Reversing, ReversalKinds
<1> QED
  BY <1>3, <1>4

\* The other steps of a handler insert no reversal and enter no loop.
LEMMA OtherHandlerReversals ==
    ASSUME IInv, ReversalInv, [Next]_vars, NEW s \in Slots, HandlerStep(s) \/ Die(s),
           ~(CheckReversal(s) \/ FindOriginalCharge(s) \/ InsertReversal(s))
    PROVE  ReversalInv'
<1>x. PICK t : t = task[s]
  OBVIOUS
<1>1. UNCHANGED reversed
  BY DEF HandlerStep, Die, ReadTxn, WriteTxn, LookupWebhookEvent, InsertWebhookEvent,
     CloseWebhookEvent, PostWebhookCredit, MarkWebhookProcessed, SafetyNet, CheckCharge, PostCharge,
     ClaimFailure, FindFailedTxn, SetFailed, MarkForRetry, MarkFailureProcessed, PostSyncCredit,
     Respond, PostPayment, ledgerVars
<1>2. ASSUME NEW u, task' = [task EXCEPT ![s] = u], ~Reversing(u),
             u.pc = "idle" \/ u.ev.kind \notin ReversalKinds
      PROVE  ReversalInv'
  <2>1. task'[s] = u /\ \A r \in Slots : r # s => task'[r] = task[r]
    BY <1>2 DEF IInv, TypeInv, TypeOK
  <2> QED
    BY <1>1, <1>2, <2>1, QuietReversals DEF Reversing
<1>3. CASE task' = [task EXCEPT ![s] = Idle]
  BY <1>2, <1>3 DEF Idle, Reversing
<1>4. CASE task' # [task EXCEPT ![s] = Idle]
  <2>1. t.pc \notin {"idle", "rev.check", "rev.original", "rev.insert", "done"}
    BY <1>4, <1>x DEF HandlerStep, Die, ReadTxn, WriteTxn, LookupWebhookEvent, InsertWebhookEvent,
       CloseWebhookEvent, PostWebhookCredit, MarkWebhookProcessed, SafetyNet, CheckCharge, PostCharge,
       ClaimFailure, FindFailedTxn, SetFailed, MarkForRetry, MarkFailureProcessed, PostSyncCredit,
       Respond, At
  <2>2. TaskOK(t) /\ t \in Task /\ t.ev \in Event
    BY <1>x, <2>1 DEF IInv, TypeInv, TypeOK, BusySlots, SlotsOK
  <2>3. t.ev.kind \notin ReversalKinds
    BY <2>1, <2>2 DEF TaskOK, StepsOf, HoaKinds, HoaSuccess, ChargeKinds, ReversalKinds
  <2>4. PICK u : u.ev = t.ev /\ ~Reversing(u) /\ task' = [task EXCEPT ![s] = u]
    <3>n. /\ AfterTxn(t) \notin {"rev.original", "rev.insert"}
          /\ AfterCharge(t) \notin {"rev.original", "rev.insert"}
      BY DEF AfterTxn, AfterCharge
    <3>1. CASE \E st, l : /\ task' = [task EXCEPT ![s].seen = st, ![s].pc = l]
                          /\ l \notin {"rev.original", "rev.insert"}
      <4>1. PICK st, l : /\ task' = [task EXCEPT ![s].seen = st, ![s].pc = l]
                         /\ l \notin {"rev.original", "rev.insert"}
        BY <3>1
      <4>2. PICK u : u = [t EXCEPT !.seen = st, !.pc = l]
        OBVIOUS
      <4>3. u.ev = t.ev /\ u.pc = l /\ task' = [task EXCEPT ![s] = u]
        BY <1>x, <2>2, <4>1, <4>2 DEF Task
      <4> QED
        BY <4>1, <4>3 DEF Reversing
    <3>2. CASE \E l : Go(s, l) /\ l \notin {"rev.original", "rev.insert"}
      <4>1. PICK l : Go(s, l) /\ l \notin {"rev.original", "rev.insert"}
        BY <3>2
      <4>2. PICK u : u = [t EXCEPT !.pc = l]
        OBVIOUS
      <4>3. u.ev = t.ev /\ u.pc = l /\ task' = [task EXCEPT ![s] = u]
        BY <1>x, <2>2, <4>1, <4>2 DEF Task, Go
      <4> QED
        BY <4>1, <4>3 DEF Reversing
    <3>3. CASE ReadTxn(s)
      <4>1. PICK st, l : /\ task' = [task EXCEPT ![s].seen = st, ![s].pc = l]
                         /\ l \in {AfterTxn(t), "txn.write"}
        <5>1. PICK st : st = txn[PayOf(s)]
          OBVIOUS
        <5>2. PICK l : l = IF st \in TerminalStatuses \cup {"absent"} THEN AfterTxn(t) ELSE "txn.write"
          OBVIOUS
        <5>3. task' = [task EXCEPT ![s].seen = st, ![s].pc = l]
          BY <1>x, <3>3, <5>1, <5>2 DEF ReadTxn
        <5> QED
          BY <5>2, <5>3
      <4> QED
        BY <3>1, <3>n, <4>1
    <3>4. CASE WriteTxn(s)
      <4>1. PICK st : task' = [task EXCEPT ![s].seen = st, ![s].pc = AfterTxn(t)]
        BY <1>x, <3>4 DEF WriteTxn
      <4> QED
        BY <3>1, <3>n, <4>1
    <3>5. CASE ~ReadTxn(s) /\ ~WriteTxn(s)
      <4>1. \E l : Go(s, l) /\ l \notin {"rev.original", "rev.insert"}
        BY <1>4, <1>x, <3>5, <3>n DEF HandlerStep, Die, LookupWebhookEvent, InsertWebhookEvent,
           CloseWebhookEvent, PostWebhookCredit, MarkWebhookProcessed, SafetyNet, CheckCharge, PostCharge,
           ClaimFailure, FindFailedTxn, SetFailed, MarkForRetry, MarkFailureProcessed, PostSyncCredit,
           Respond
      <4> QED
        BY <3>2, <4>1
    <3> QED
      BY <3>3, <3>4, <3>5
  <2> QED
    BY <1>2, <2>3, <2>4
<1> QED
  BY <1>3, <1>4

\* It holds initially.
LEMMA ReversalInit == Init => ReversalInv
BY DEF Init, ReversalInv, SlotsLoop, FirstReversal, Reversing, OneReversalPerReference, Idle

\* Every step preserves it.
LEMMA ReversalNext == IInv /\ ReversalInv /\ [Next]_vars => ReversalInv'
<1> SUFFICES ASSUME IInv, ReversalInv, [Next]_vars PROVE ReversalInv'
  OBVIOUS
<1>1. CASE UNCHANGED <<task, reversed>>
  BY <1>1, QuietReversals
<1>2. ASSUME NEW s \in Slots, HandlerStep(s) \/ Die(s) PROVE ReversalInv'
  BY <1>2, CheckReversalInv, FindOriginalInv, InsertReversalInv, OtherHandlerReversals
<1>3. ASSUME NEW s \in Slots,
             (\E e \in emitted : Deliver(s, e)) \/ (\E p \in Payments : ChargeOffSession(s, p))
      PROVE  ReversalInv'
  BY <1>3, ArrivalReversals
<1>4. \/ UNCHANGED <<task, reversed>>
      \/ \E s \in Slots : \/ HandlerStep(s) \/ Die(s)
                          \/ \E e \in emitted : Deliver(s, e)
                          \/ \E p \in Payments : ChargeOffSession(s, p)
  BY DEF Next, Stripe, OpenCheckout, Pay, Settle, AfterCapture, AckUnhandled, ledgerVars, vars
<1> QED
  BY <1>1, <1>2, <1>3, <1>4

THEOREM ReversalInvariance == Spec => []ReversalInv
BY ReversalInit, ReversalNext, Invariance, PTL DEF Spec

\* A refund or a dispute is reversed at most once, however often it is delivered,
\* however the deliveries overlap elsewhere and wherever a handler dies, unless two
\* handlers were between the lookup and the insert of the same reference.
THEOREM ReversedOnce == Spec => []OneReversalPerReference
<1>1. ReversalInv => OneReversalPerReference
  BY DEF ReversalInv
<1> QED
  BY <1>1, ReversalInvariance, PTL

\* A handler that answers a refund or a lost dispute has reversed everything the
\* event calls for, if the charge was recorded when the event came, whatever other
\* handlers do meanwhile.
THEOREM RefundIsReversed == Spec => []AnsweredRefundIsReversed
<1>1. IInv /\ ReversalInv => AnsweredRefundIsReversed
  <2> SUFFICES ASSUME IInv, ReversalInv, NEW s \in Slots, At(s, "done"),
                      task[s].ev.kind \in ReversalKinds, task[s].booked,
                      NEW i \in DOMAIN task[s].ev.owes
               PROVE  reversed[task[s].ev.pay][task[s].ev.owes[i]] > 0
    BY DEF AnsweredRefundIsReversed
  <2>1. ReversalLoop(task[s]) /\ task[s].ev \in Event /\ task[s] \in Task
    BY DEF ReversalInv, SlotsLoop, At, IInv, TypeInv, TypeOK, BusySlots
  <2>2. Len(task[s].ev.owes) \in Nat /\ i \in 1..Len(task[s].ev.owes) /\ task[s].i \in Nat
    BY <2>1, OwedReversals DEF Task
  <2>3. i < task[s].i
    BY <2>1, <2>2 DEF ReversalLoop, At
  <2> QED
    BY <2>1, <2>2, <2>3 DEF ReversalLoop
<1> QED
  BY <1>1, ReversalInvariance, Invariance, PTL
==============================================================================
