--------------------------- MODULE PaymentWebhooks ---------------------------
(***************************************************************************)
(* How one owner payment reaches the owner ledger.  Stripe moves the money *)
(* and emits events; two endpoints consume them: the per-HOA webhook       *)
(* (POST /api/webhooks/payments, "hoa." events) and the platform Connect   *)
(* webhook ("cc." events).  Autopay and autopay retries also post from the *)
(* synchronous answer of the charge call.  Every handler is a sequence of  *)
(* database round trips; a slot runs one handler, the slots interleave,    *)
(* and a handler may die between two round trips, in which case Stripe,    *)
(* that got no 2xx, delivers the event again.                              *)
(*                                                                         *)
(* Left out: amounts, fees and GL posting, e-mail, and the branches for    *)
(* malformed events; a payment's person and unit are always resolvable     *)
(* when its metadata is there.                                             *)
(***************************************************************************)
EXTENDS Naturals, Sequences, FiniteSets

CONSTANTS
    Payments,     \* Stripe payment intents
    Slots,        \* concurrent request handlers and sweep workers
    Subscribed,   \* the event kinds the two endpoints are subscribed to
    MaxRefunds,   \* bound: refunds of one payment
    MaxFaults,    \* bound: handlers that die before they answer
    NoEvent       \* what an idle slot is handling

--------------------------------------------------------------------------------
\* checkout: portal Checkout; link: e-mailed payment link, no transaction row;
\* autopay, retry: off-session charges; foreign: a charge made outside the
\* program, whose metadata names no HOA.
PaymentKinds == {"checkout", "link", "autopay", "retry", "foreign"}

HoaSuccess == {"hoa.session.paid", "hoa.intent.succeeded"}
HoaKinds == HoaSuccess \cup {"hoa.session.unpaid", "hoa.intent.failed"}
ChargeKinds == {"cc.charge.succeeded", "cc.payout.paid"}
ReversalKinds == {"cc.charge.refunded", "cc.dispute.lost"}
EventKinds == HoaKinds \cup ChargeKinds \cup ReversalKinds \cup {"cc.pending", "cc.failed"}

TxnStatus == {"absent", "draft", "initiated", "pending", "succeeded", "failed"}
TerminalStatuses == {"succeeded", "failed"}

\* Who wrote a payment row.  All but the retry sweep write the payment
\* intent into paymentIdentityKey, under the partial unique index.
KeyedWriters == {"payment-webhook", "stripe_charge", "safety-net", "autopay-sync"}
Writers == KeyedWriters \cup {"retry-sync"}

\* (referenceType, referenceId) of the rows that give money back.
Refunds == {"stripe_refund"} \X (1..MaxRefunds)
Reversal == Refunds \cup ({"stripe_dispute", "stripe_dispute_fee"} \X {0})

\* What the status of a payment's transaction is called beside those.
StatusRow == <<"status", 0>>

\* The reversals an event calls for.  A refund event lists all refunds so far,
\* newest first, of which those that have not succeeded yet are passed over; a
\* lost dispute names its amount and, if there are any, its fees.
Owed(k) ==
    CASE k = "cc.charge.refunded" ->
           {q \in UNION {[1..n -> Refunds] : n \in 0..MaxRefunds} :
              \A i, j \in DOMAIN q : i < j => q[i][2] > q[j][2]}
      [] k = "cc.dispute.lost" ->
           {<<>>, <<<<"stripe_dispute", 0>>>>, <<<<"stripe_dispute_fee", 0>>>>,
            <<<<"stripe_dispute", 0>>, <<"stripe_dispute_fee", 0>>>>}
      [] OTHER -> {<<>>}

\* "sync" stands for the charge call of the autopay and retry sweeps.
Event == UNION {[kind : {k}, pay : Payments, owes : Owed(k)] : k \in EventKinds \cup {"sync"}}
LoggedEvents == {e \in Event : e.kind \in HoaKinds \cup {"cc.failed"}}
Ev(k, p) == [kind |-> k, pay |-> p, owes |-> <<>>]

HandlerSteps ==
    {"txn.read", "txn.write", "hoa.lookup", "hoa.insert", "hoa.close", "hoa.post",
     "hoa.mark", "hoa.net", "charge.layer1", "charge.post", "fail.claim", "fail.find",
     "fail.set", "fail.retry", "fail.mark", "rev.check", "rev.original", "rev.insert",
     "sync.post", "sync.retry", "done"}

Task == [pc : HandlerSteps \cup {"idle"}, ev : Event \cup {NoEvent},
         want : TxnStatus \cup {"no_intent"}, seen : TxnStatus, i : Nat, booked : BOOLEAN]
Idle == [pc |-> "idle", ev |-> NoEvent, want |-> "absent", seen |-> "absent", i |-> 0,
         booked |-> FALSE]

ASSUME BoundsAssumption == MaxRefunds \in Nat /\ MaxFaults \in Nat
ASSUME SubscribedAssumption == Subscribed \subseteq EventKinds
ASSUME NoEventAssumption == NoEvent \notin Event

VARIABLES
    kind,           \* [Payments -> PaymentKinds], never changes
    stripe,         \* what Stripe did with the money
    emitted,        \* events Stripe keeps delivering, possibly again
    acked,          \* events answered with a 2xx
    hooks,          \* status of the row in payment_webhook_events (hoa events)
                    \* or platform_webhook_events (cc.failed); "none": no row
    txn,            \* payment_transactions.status; "absent": no row
    intentKnown,    \* payment_transactions.providerIntentId is set
    retryEligible,  \* payment_transactions.retryEligible
    credit,         \* number of payment rows in owner_ledger_entries, by writer
    reversed,       \* number of adjustment rows, by reference
    task,           \* what each slot is doing
    raced,          \* what two handlers were about to write at once
    faults          \* handlers that died so far

stripeVars == <<kind, stripe, emitted>>
txnVars == <<txn, intentKnown, retryEligible>>
ledgerVars == <<credit, reversed>>
vars == <<stripeVars, txnVars, ledgerVars, acked, hooks, task, raced, faults>>

--------------------------------------------------------------------------------
OffSession(p) == kind[p] \in {"autopay", "retry"}
HasTxn(p) == kind[p] \in {"checkout", "autopay", "retry"}

\* Charges carry hoa_id/unit_id/owner_id or their camelCase forms; the per-HOA
\* endpoint only knows metadata.associationId, which payment links do not set.
HasChargeMetadata(p) == kind[p] # "foreign"
HasHoaMetadata(p) == HasTxn(p)

Captured(p) == stripe[p] = "succeeded"
Credited(p) == \E w \in Writers : credit[p][w] > 0

TypeOK ==
    /\ kind \in [Payments -> PaymentKinds]
    /\ stripe \in [Payments -> {"none", "processing", "declined", "failed", "succeeded"}]
    /\ emitted \subseteq Event /\ acked \subseteq Event
    /\ hooks \in [LoggedEvents -> {"none", "received", "processed", "ignored", "failed"}]
    /\ txn \in [Payments -> TxnStatus]
    /\ intentKnown \in [Payments -> BOOLEAN]
    /\ retryEligible \in [Payments -> BOOLEAN]
    /\ credit \in [Payments -> [Writers -> Nat]]
    /\ reversed \in [Payments -> [Reversal -> Nat]]
    /\ task \in [Slots -> Task]
    /\ \A c \in raced : c[1] \in Payments
    /\ faults \in 0..MaxFaults

Init ==
    /\ kind \in [Payments -> PaymentKinds]
    /\ stripe = [p \in Payments |-> "none"]
    /\ emitted = {} /\ acked = {}
    /\ hooks = [e \in LoggedEvents |-> "none"]
    /\ txn = [p \in Payments |-> IF HasTxn(p) THEN "draft" ELSE "absent"]
    /\ intentKnown = [p \in Payments |-> FALSE]
    /\ retryEligible = [p \in Payments |-> FALSE]
    /\ credit = [p \in Payments |-> [w \in Writers |-> 0]]
    /\ reversed = [p \in Payments |-> [r \in Reversal |-> 0]]
    /\ task = [s \in Slots |-> Idle]
    /\ raced = {} /\ faults = 0

--------------------------------------------------------------------------------
(* Stripe.  Checkout sessions add session events to those of the intent.    *)

OnProcessing(p) == {"cc.pending"} \cup (IF OffSession(p) THEN {} ELSE {"hoa.session.unpaid"})
OnSuccess(p) == {"cc.charge.succeeded", "hoa.intent.succeeded"}
                \cup (IF OffSession(p) THEN {} ELSE {"cc.pending", "hoa.session.paid"})
OnFailure == {"cc.failed", "hoa.intent.failed"}

Emit(p, kinds) == emitted' = emitted \cup {Ev(k, p) : k \in kinds \cap Subscribed}

\* The status Stripe gives the intent of p, and the events that announce it.
StripeSets(p, status) ==
    /\ stripe' = [stripe EXCEPT ![p] = status]
    /\ Emit(p, CASE status = "succeeded"  -> OnSuccess(p)
                 [] status = "processing" -> OnProcessing(p)
                 [] OTHER                 -> OnFailure)
    /\ UNCHANGED kind

\* initiateStripeCheckout: the hosted session exists, the owner gets its URL.
OpenCheckout(p) ==
    /\ kind[p] = "checkout" /\ txn[p] = "draft"
    /\ txn' = [txn EXCEPT ![p] = "initiated"]
    /\ UNCHANGED <<stripeVars, intentKnown, retryEligible, ledgerVars, acked, hooks, task, raced, faults>>

\* The owner pays in a session: by card (at once, possibly after a declined
\* card) or by bank debit (processing).
Pay(p) ==
    /\ ~OffSession(p) /\ (kind[p] = "checkout" => txn[p] # "draft")
    /\ \/ stripe[p] = "none" /\ \E o \in {"succeeded", "processing", "declined"} : StripeSets(p, o)
       \/ stripe[p] = "declined" /\ StripeSets(p, "succeeded")
    /\ UNCHANGED <<txnVars, ledgerVars, acked, hooks, task, raced, faults>>

\* A bank debit clears or is returned.
Settle(p) ==
    /\ stripe[p] = "processing"
    /\ \E o \in {"succeeded", "failed"} : StripeSets(p, o)
    /\ UNCHANGED <<txnVars, ledgerVars, acked, hooks, task, raced, faults>>

\* A captured charge is paid out, refunded (partially, several times) or lost in
\* a dispute.  The event of the n-th refund lists refunds 1..n; which of them
\* have succeeded by then is up to the bank.
AfterCapture(p) ==
    /\ Captured(p)
    /\ \E k \in {"cc.payout.paid", "cc.charge.refunded", "cc.dispute.lost"} \cap Subscribed :
         LET earlier == {e \in emitted : e.kind = k /\ e.pay = p} IN
         /\ Cardinality(earlier) < IF k = "cc.charge.refunded" THEN MaxRefunds ELSE 1
         /\ \E q \in Owed(k) :
              /\ k = "cc.charge.refunded" => \A i \in DOMAIN q : q[i][2] <= Cardinality(earlier) + 1
              /\ emitted' = emitted \cup {[kind |-> k, pay |-> p, owes |-> q]}
    /\ UNCHANGED <<kind, stripe, txnVars, ledgerVars, acked, hooks, task, raced, faults>>

--------------------------------------------------------------------------------
(* Slots.  At(s, l): the handler in slot s is about to do step l.           *)

At(s, l) == task[s].pc = l
PayOf(s) == task[s].ev.pay
Go(s, l) == task' = [task EXCEPT ![s].pc = l]

\* Bookkeeping of the model: the other handlers that are at one of these steps
\* with the same payment, and that what they are about to write is contested.
Beside(s, p, steps) == {r \in Slots \ {s} : task[r].pc \in steps /\ PayOf(r) = p}
NoteRace(what, others) == raced' = IF others = {} THEN raced ELSE raced \cup {what}

RecordedByWebhook(p) == credit[p]["payment-webhook"] > 0   \* mutant: one path only

PostPaymentPerPath(p, w) ==   \* mutant: each path only looks for its own row
    /\ credit' = IF credit[p][w] > 0 THEN credit ELSE [credit EXCEPT ![p][w] = @ + 1]
    /\ UNCHANGED reversed

\* postPaymentLedgerEntry with a key: INSERT ... ON CONFLICT DO NOTHING on
\* the unique index over (association, entryType, paymentIdentityKey).
Recorded(p) == \E w \in KeyedWriters : credit[p][w] > 0
PostPayment(p, w) ==
    /\ credit' = IF Recorded(p) THEN credit ELSE [credit EXCEPT ![p][w] = @ + 1]
    /\ UNCHANGED reversed

\* The status an event asks updatePaymentTransactionStatus to write.
Wanted(e) == IF e.kind \in HoaSuccess \cup {"cc.charge.succeeded"} THEN "succeeded"
             ELSE IF e.kind = "hoa.intent.failed" THEN "failed" ELSE "pending"

FirstStepStatusOnly(e) ==   \* mutant: the status flips, the ledger write is forgotten
    IF e.kind = "cc.charge.succeeded" THEN "txn.read" ELSE
    IF e.kind = "cc.pending" THEN "txn.read" ELSE
    IF e.kind = "cc.failed" THEN "fail.claim" ELSE
    IF e.owes # <<>> THEN "rev.check" ELSE "done"
FirstStep(e) == CASE e.kind \in HoaKinds \cup {"cc.pending"} -> "txn.read"
                  [] e.kind \in ChargeKinds                  -> "charge.layer1"
                  [] e.kind = "cc.failed"                    -> "fail.claim"
                  [] OTHER -> IF e.owes = <<>> THEN "done" ELSE "rev.check"

\* Stripe delivers an event: the first time, after a failed delivery, or
\* again although it was answered.
Deliver(s, e) ==
    /\ At(s, "idle") /\ e \in emitted
    /\ ~(e.kind \in HoaKinds /\ ~HasHoaMetadata(e.pay))
    /\ task' = [task EXCEPT ![s] =
         [pc |-> FirstStep(e), ev |-> e, want |-> Wanted(e), seen |-> "absent", i |-> 1,
          booked |-> e.kind \in ReversalKinds /\ credit[e.pay]["stripe_charge"] > 0]]
    /\ UNCHANGED <<stripeVars, txnVars, ledgerVars, acked, hooks, raced, faults>>

\* The per-HOA endpoint acknowledges events that name no association.
AckUnhandled(e) ==
    /\ e \in emitted \ acked /\ e.kind \in HoaKinds /\ ~HasHoaMetadata(e.pay)
    /\ acked' = acked \cup {e}
    /\ UNCHANGED <<stripeVars, txnVars, ledgerVars, hooks, task, raced, faults>>

\* The handler answers 2xx (or the sweep is done with this charge).
Respond(s) ==
    /\ At(s, "done")
    /\ acked' = acked \cup ({task[s].ev} \cap emitted)
    /\ task' = [task EXCEPT ![s] = Idle]
    /\ UNCHANGED <<stripeVars, txnVars, ledgerVars, hooks, raced, faults>>

\* The process dies or a round trip throws: no 2xx, what is written stays.
Die(s) ==
    /\ ~At(s, "idle") /\ faults < MaxFaults
    /\ faults' = faults + 1
    /\ task' = [task EXCEPT ![s] = Idle]
    /\ UNCHANGED <<stripeVars, txnVars, ledgerVars, acked, hooks, raced>>

--------------------------------------------------------------------------------
(* updatePaymentTransactionStatus: SELECT, then UPDATE.                     *)

AfterTxnPostsPending(t) ==   \* mutant: a pending bank debit is posted
    IF t.ev.kind \in HoaKinds THEN "hoa.lookup" ELSE
    IF t.ev.kind # "sync"     THEN "done" ELSE
    IF t.want \in {"succeeded", "pending"} THEN "sync.post" ELSE "sync.retry"

AfterTxn(t) ==
    IF t.ev.kind \in HoaKinds THEN "hoa.lookup" ELSE
    IF t.ev.kind # "sync"     THEN "done" ELSE
    IF t.want = "succeeded"   THEN "sync.post" ELSE
    IF t.want = "pending"     THEN "done" ELSE "sync.retry"

ReadTxnNoGuard(s) ==   \* mutant: no early return for terminal statuses
    /\ At(s, "txn.read")
    /\ LET found == txn[PayOf(s)] IN
       task' = [task EXCEPT ![s].seen = found,
                            ![s].pc = IF found = "absent" THEN AfterTxn(task[s]) ELSE "txn.write"]
    /\ UNCHANGED <<stripeVars, txnVars, ledgerVars, acked, hooks, raced, faults>>

ReadTxn(s) ==
    /\ At(s, "txn.read")
    /\ LET found == txn[PayOf(s)] IN
       task' = [task EXCEPT ![s].seen = found,
                            ![s].pc = IF found \in TerminalStatuses \cup {"absent"}
                                      THEN AfterTxn(task[s]) ELSE "txn.write"]
    /\ UNCHANGED <<stripeVars, txnVars, ledgerVars, acked, hooks, raced, faults>>

WriteTxn(s) ==
    /\ At(s, "txn.write")
    /\ LET p == PayOf(s)
           status == IF task[s].want = "no_intent" THEN "failed" ELSE task[s].want IN
       /\ txn' = [txn EXCEPT ![p] = status]
       /\ intentKnown' = [intentKnown EXCEPT ![p] = @ \/ task[s].want # "no_intent"]
       /\ task' = [task EXCEPT ![s].seen = status, ![s].pc = AfterTxn(task[s])]
       /\ NoteRace(<<p, StatusRow>>, Beside(s, p, {"txn.write"}))
    /\ UNCHANGED <<stripeVars, retryEligible, ledgerVars, acked, hooks, faults>>

--------------------------------------------------------------------------------
(* POST /api/webhooks/payments: processPaymentWebhookEvent, then the        *)
(* transaction-backed safety net.                                           *)

LookupAndReturn(s) ==   \* mutant: a duplicate returns before the safety net
    /\ At(s, "hoa.lookup")
    /\ Go(s, IF hooks[task[s].ev] # "none" THEN "done" ELSE "hoa.insert")
    /\ UNCHANGED <<stripeVars, txnVars, ledgerVars, acked, hooks, raced, faults>>

LookupWebhookEvent(s) ==
    /\ At(s, "hoa.lookup")
    /\ Go(s, IF hooks[task[s].ev] # "none" THEN "hoa.net" ELSE "hoa.insert")
    /\ UNCHANGED <<stripeVars, txnVars, ledgerVars, acked, hooks, raced, faults>>

InsertAsProcessed(s) ==   \* mutant: the row is marked before the credit is posted
    /\ At(s, "hoa.insert") /\ hooks[task[s].ev] = "none"
    /\ hooks' = [hooks EXCEPT ![task[s].ev] = "processed"]
    /\ Go(s, IF task[s].want = "succeeded" THEN "hoa.post" ELSE "hoa.close")
    /\ UNCHANGED <<stripeVars, txnVars, ledgerVars, acked, raced, faults>>

\* A delivery that loses the race for the unique event row throws: 400.
InsertWebhookEvent(s) ==
    /\ At(s, "hoa.insert")
    /\ LET e == task[s].ev IN
       IF hooks[e] # "none"
       THEN task' = [task EXCEPT ![s] = Idle] /\ UNCHANGED hooks
       ELSE /\ hooks' = [hooks EXCEPT ![e] = "received"]
            /\ Go(s, IF task[s].want = "succeeded" THEN "hoa.post" ELSE "hoa.close")
    /\ UNCHANGED <<stripeVars, txnVars, ledgerVars, acked, raced, faults>>

CloseWithPayloadStatus(s) ==   \* mutant: the payload's status goes into the row
    /\ At(s, "hoa.close")
    /\ hooks' = [hooks EXCEPT ![task[s].ev] = task[s].seen]
    /\ Go(s, "hoa.net")
    /\ UNCHANGED <<stripeVars, txnVars, ledgerVars, acked, raced, faults>>

CloseWebhookEvent(s) ==
    /\ At(s, "hoa.close")
    /\ hooks' = [hooks EXCEPT ![task[s].ev] = IF task[s].want = "failed" THEN "failed" ELSE "ignored"]
    /\ Go(s, "hoa.net")
    /\ UNCHANGED <<stripeVars, txnVars, ledgerVars, acked, raced, faults>>

PostWebhookCredit(s) ==
    /\ At(s, "hoa.post")
    /\ PostPayment(PayOf(s), "payment-webhook")
    /\ Go(s, "hoa.mark")
    /\ UNCHANGED <<stripeVars, txnVars, acked, hooks, raced, faults>>

MarkWebhookProcessed(s) ==
    /\ At(s, "hoa.mark")
    /\ hooks' = [hooks EXCEPT ![task[s].ev] = "processed"]
    /\ Go(s, "hoa.net")
    /\ UNCHANGED <<stripeVars, txnVars, ledgerVars, acked, raced, faults>>

\* postSucceededPaymentTransactionLedgerEntry on the row as this handler saw it.
SafetyNet(s) ==
    /\ At(s, "hoa.net")
    /\ IF task[s].seen = "succeeded" THEN PostPayment(PayOf(s), "safety-net")
                                     ELSE UNCHANGED ledgerVars
    /\ Go(s, "done")
    /\ UNCHANGED <<stripeVars, txnVars, acked, hooks, raced, faults>>

--------------------------------------------------------------------------------
(* Connect charge.succeeded and payout.paid: writeLedgerEntryForCharge.     *)

AfterCharge(t) == IF t.ev.kind = "cc.charge.succeeded" THEN "txn.read" ELSE "done"

CheckChargeByStatus(s) ==   \* mutant: a succeeded transaction counts as credited
    /\ At(s, "charge.layer1")
    /\ LET p == PayOf(s) IN
       Go(s, IF HasChargeMetadata(p) /\ txn[p] # "succeeded"
             THEN "charge.post" ELSE AfterCharge(task[s]))
    /\ UNCHANGED <<stripeVars, txnVars, ledgerVars, acked, hooks, raced, faults>>

CheckCharge(s) ==
    /\ At(s, "charge.layer1")
    /\ LET p == PayOf(s) IN
       Go(s, IF HasChargeMetadata(p) /\ credit[p]["stripe_charge"] = 0
             THEN "charge.post" ELSE AfterCharge(task[s]))
    /\ UNCHANGED <<stripeVars, txnVars, ledgerVars, acked, hooks, raced, faults>>

PostCharge(s) ==
    /\ At(s, "charge.post")
    /\ PostPayment(PayOf(s), "stripe_charge")
    /\ Go(s, AfterCharge(task[s]))
    /\ UNCHANGED <<stripeVars, txnVars, acked, hooks, raced, faults>>

--------------------------------------------------------------------------------
(* Connect payment_intent.payment_failed and charge.failed:                 *)
(* handleAchFailureEvent.                                                   *)

ClaimOrThrow(s) ==   \* mutant: a claimed event is an error, not a duplicate
    /\ At(s, "fail.claim")
    /\ LET e == task[s].ev IN
       IF hooks[e] # "none" THEN task' = [task EXCEPT ![s] = Idle] /\ UNCHANGED hooks
       ELSE hooks' = [hooks EXCEPT ![e] = "received"] /\ Go(s, "fail.find")
    /\ UNCHANGED <<stripeVars, txnVars, ledgerVars, acked, raced, faults>>

\* Any error of the claim's INSERT reads as "duplicate" and is acknowledged.
ClaimFailure(s) ==
    /\ At(s, "fail.claim")
    /\ LET e == task[s].ev IN
       \/ hooks[e] # "none" /\ Go(s, "done") /\ UNCHANGED <<hooks, raced, faults>>
       \/ hooks[e] = "none" /\ hooks' = [hooks EXCEPT ![e] = "received"]
          /\ Go(s, "fail.find") /\ UNCHANGED faults
       \/ hooks[e] = "none" /\ faults < MaxFaults /\ faults' = faults + 1
          /\ Go(s, "done") /\ UNCHANGED hooks
    /\ UNCHANGED <<stripeVars, txnVars, ledgerVars, acked, raced>>

\* The transaction is found by providerIntentId alone.
FindFailedTxn(s) ==
    /\ At(s, "fail.find")
    /\ Go(s, IF intentKnown[PayOf(s)] THEN "fail.set" ELSE "fail.mark")
    /\ UNCHANGED <<stripeVars, txnVars, ledgerVars, acked, hooks, raced, faults>>

\* Whatever the status was.
SetFailed(s) ==
    /\ At(s, "fail.set")
    /\ txn' = [txn EXCEPT ![PayOf(s)] = "failed"]
    /\ NoteRace(<<PayOf(s), StatusRow>>, Beside(s, PayOf(s), {"txn.write"}))
    /\ Go(s, "fail.retry")
    /\ UNCHANGED <<stripeVars, intentKnown, retryEligible, ledgerVars, acked, hooks, faults>>

\* markTransactionForRetry: hard codes and the last attempt are not eligible.
MarkForRetry(s) ==
    /\ At(s, "fail.retry") \/ At(s, "sync.retry")
    /\ \E eligible \in BOOLEAN :
         retryEligible' = [retryEligible EXCEPT ![PayOf(s)] = eligible]
    /\ Go(s, IF At(s, "sync.retry") THEN "done" ELSE "fail.mark")
    /\ UNCHANGED <<stripeVars, txn, intentKnown, ledgerVars, acked, hooks, raced, faults>>

MarkFailureProcessed(s) ==
    /\ At(s, "fail.mark")
    /\ hooks' = [hooks EXCEPT ![task[s].ev] = "processed"]
    /\ Go(s, "done")
    /\ UNCHANGED <<stripeVars, txnVars, ledgerVars, acked, raced, faults>>

--------------------------------------------------------------------------------
(* Connect charge.refunded and charge.dispute.closed (lost):                *)
(* writeReversalLedgerEntry for each reference the event carries.           *)

Current(t) == t.ev.owes[t.i]

\* On to the next reference of the event, or to the answer.
NextReversal(s) ==
    task' = [task EXCEPT ![s].i = @ + 1,
                         ![s].pc = IF task[s].i < Len(task[s].ev.owes)
                                   THEN "rev.check" ELSE "done"]

CheckNothing(s) ==   \* mutant: no idempotency check
    /\ At(s, "rev.check") /\ Go(s, "rev.original")
    /\ UNCHANGED <<stripeVars, txnVars, ledgerVars, acked, hooks, raced, faults>>

CheckReversal(s) ==
    /\ At(s, "rev.check")
    /\ LET p == PayOf(s)
           ref == Current(task[s]) IN
       IF reversed[p][ref] > 0
       THEN NextReversal(s) /\ UNCHANGED raced
       ELSE /\ Go(s, "rev.original")
            /\ NoteRace(<<p, ref>>, {r \in Beside(s, p, {"rev.original", "rev.insert"}) :
                                       Current(task[r]) = ref})
    /\ UNCHANGED <<stripeVars, txnVars, ledgerVars, acked, hooks, faults>>

FindOriginalOfWebhook(s) ==   \* mutant: the charge is looked up under the other writer
    /\ At(s, "rev.original")
    /\ IF credit[PayOf(s)]["payment-webhook"] = 0 THEN NextReversal(s) ELSE Go(s, "rev.insert")
    /\ UNCHANGED <<stripeVars, txnVars, ledgerVars, acked, hooks, raced, faults>>

\* Only a row that charge.succeeded or payout.paid wrote counts as original.
FindOriginalCharge(s) ==
    /\ At(s, "rev.original")
    /\ IF credit[PayOf(s)]["stripe_charge"] = 0 THEN NextReversal(s) ELSE Go(s, "rev.insert")
    /\ UNCHANGED <<stripeVars, txnVars, ledgerVars, acked, hooks, raced, faults>>

InsertReversal(s) ==
    /\ At(s, "rev.insert")
    /\ reversed' = [reversed EXCEPT ![PayOf(s)][Current(task[s])] = @ + 1]
    /\ NextReversal(s)
    /\ UNCHANGED <<stripeVars, txnVars, credit, acked, hooks, raced, faults>>

--------------------------------------------------------------------------------
(* The sweeps: runAutopayCollectionForAssociation and runAutopayRetries     *)
(* call chargeOffSession and post from its answer.                          *)

\* The answer carries the intent, or nothing usable: the request was
\* refused, or its answer was lost although Stripe did the charge.
ChargeOffSession(s, p) ==
    /\ At(s, "idle") /\ OffSession(p)
    /\ stripe[p] = "none" /\ txn[p] = "draft"
    /\ \E status \in {"succeeded", "processing", "failed"},
          answer \in {"succeeded", "pending", "failed", "no_intent"} :
         /\ StripeSets(p, status)
         /\ answer = "no_intent" \/ <<status, answer>> \in
              {<<"succeeded", "succeeded">>, <<"processing", "pending">>, <<"failed", "failed">>}
         /\ task' = [task EXCEPT ![s] = [pc |-> "txn.read", ev |-> Ev("sync", p),
                                         want |-> answer, seen |-> "absent", i |-> 1,
                                         booked |-> FALSE]]
    /\ UNCHANGED <<txnVars, ledgerVars, acked, hooks, raced, faults>>

\* Autopay posts through the keyed writer, the retry sweep inserts directly.
PostSyncCredit(s) ==
    /\ At(s, "sync.post")
    /\ IF kind[PayOf(s)] = "autopay"
       THEN PostPayment(PayOf(s), "autopay-sync")
       ELSE credit' = [credit EXCEPT ![PayOf(s)]["retry-sync"] = @ + 1] /\ UNCHANGED reversed
    /\ Go(s, "done")
    /\ UNCHANGED <<stripeVars, txnVars, acked, hooks, raced, faults>>

--------------------------------------------------------------------------------
Stripe == \E p \in Payments : OpenCheckout(p) \/ Pay(p) \/ Settle(p) \/ AfterCapture(p)

HandlerStep(s) ==
    \/ ReadTxn(s) \/ WriteTxn(s)
    \/ LookupWebhookEvent(s) \/ InsertWebhookEvent(s) \/ CloseWebhookEvent(s)
    \/ PostWebhookCredit(s) \/ MarkWebhookProcessed(s) \/ SafetyNet(s)
    \/ CheckCharge(s) \/ PostCharge(s)
    \/ ClaimFailure(s) \/ FindFailedTxn(s) \/ SetFailed(s) \/ MarkForRetry(s)
    \/ MarkFailureProcessed(s)
    \/ CheckReversal(s) \/ FindOriginalCharge(s) \/ InsertReversal(s)
    \/ PostSyncCredit(s) \/ Respond(s)

Next ==
    \/ Stripe
    \/ \E e \in emitted : AckUnhandled(e) \/ \E s \in Slots : Deliver(s, e)
    \/ \E s \in Slots, p \in Payments : ChargeOffSession(s, p)
    \/ \E s \in Slots : HandlerStep(s) \/ Die(s)

Spec == Init /\ [][Next]_vars

\* As long as some event is unanswered Stripe delivers one of those, and the
\* server goes on with a handler it has started; nothing else is assumed to
\* happen, and answered events may be delivered again for ever.
Fairness ==
    /\ \A s \in Slots : WF_vars(HandlerStep(s))
    /\ WF_vars(\E e \in emitted : AckUnhandled(e))
    /\ SF_vars(\E e \in emitted \ acked, s \in Slots : Deliver(s, e))

FairSpec == Spec /\ Fairness

--------------------------------------------------------------------------------
(* Properties.                                                              *)

CreditCount(p) == credit[p]["payment-webhook"] + credit[p]["stripe_charge"]
                  + credit[p]["safety-net"] + credit[p]["autopay-sync"] + credit[p]["retry-sync"]

\* Whichever of the two endpoints, the autopay sweep and the safety net report
\* a payment, and however often, its owner is credited at most once.
NoDoubleCredit == \A p \in Payments : kind[p] # "retry" => CreditCount(p) <= 1

\* No owner is credited, and no transaction is shown as succeeded, for money
\* that Stripe has not captured (a pending bank debit, a declined card).
OnlyCapturedMoney ==
    \A p \in Payments : Credited(p) \/ txn[p] = "succeeded" => Captured(p)

\* A charge.succeeded or payout.paid event answered with a 2xx (so that Stripe
\* stops delivering it) has its payment in the ledger, whoever wrote it.
AckedChargeIsCredited ==
    \A e \in acked : e.kind \in ChargeKinds /\ HasChargeMetadata(e.pay) => Credited(e.pay)

\* The same for the success events of the per-HOA endpoint, for a checkout of
\* which no failure was reported: a handler that dies between the event row and
\* the credit is made good by the redelivery, through the safety net.
AckedHoaSuccessIsCredited ==
    \A e \in acked :
        e.kind \in HoaSuccess /\ kind[e.pay] = "checkout"
        /\ {Ev("cc.failed", e.pay), Ev("hoa.intent.failed", e.pay)} \cap emitted = {}
        => Credited(e.pay)

\* The event log never says "processed" of a success whose credit is missing,
\* so an operator may trust it after a crash.
ProcessedIsCredited ==
    \A e \in LoggedEvents : e.kind \in HoaSuccess /\ hooks[e] = "processed" => Credited(e.pay)

\* The same refund or dispute is never reversed twice ("so a webhook re-delivery
\* never double-reverses", server/services/stripe-reconciliation.ts:245-247), over
\* any number of redeliveries, of events that list earlier refunds again, and of
\* handlers that die halfway, unless two handlers were at it at once: nothing but
\* the lookup keeps them apart.
OneReversalPerReference ==
    \A p \in Payments, r \in Reversal : <<p, r>> \notin raced => reversed[p][r] <= 1

\* When a refund or lost dispute is answered, everything it calls for has its
\* reversal, if the Connect endpoint had recorded the charge when it came,
\* whatever other handlers do meanwhile.
AnsweredRefundIsReversed ==
    \A s \in Slots :
        LET e == task[s].ev IN
        At(s, "done") /\ e.kind \in ReversalKinds /\ task[s].booked
        => \A i \in DOMAIN e.owes : reversed[e.pay][e.owes[i]] > 0

\* Once a charge.succeeded event is answered its transaction is shown as settled,
\* for good: a pending event that comes late, or again, or whose handler was
\* overtaken before it read, does not take that back.  Excepted is a handler
\* that writes while another one is between its read and its write.
AnsweredChargeIsSettled ==
    \A e \in acked :
        e.kind = "cc.charge.succeeded" /\ HasTxn(e.pay) /\ <<e.pay, StatusRow>> \notin raced
        => txn[e.pay] \in TerminalStatuses

\* Every event Stripe emits is answered in the end.
EveryEventIsAnswered ==
    \A e \in {x \in Event : x.kind \in Subscribed} : e \in emitted ~> e \in acked

\* Captured money reaches the owner's ledger, for charges that name their HOA.
CapturedIsCredited ==
    \A p \in Payments : Captured(p) /\ HasChargeMetadata(p) ~> Credited(p)

\* The write paths implement PaymentCredit (the retry sweep's own insert left out).
Abstract == INSTANCE PaymentCredit WITH
    captured <- {p \in Payments : Captured(p) /\ kind[p] # "retry"},
    credits  <- [p \in Payments |-> IF kind[p] = "retry" THEN 0 ELSE CreditCount(p)]

CreditsExactlyOnce == Abstract!Spec
==============================================================================
