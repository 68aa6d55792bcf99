# YourCondoManager: a TLA+ verification of its money, votes and approvals

YourCondoManager is a property manager for condominium associations: an Express
server (`server/`) over PostgreSQL, a React client (`client/`), and external
services, of which Stripe (payments) and Plaid (bank feeds) matter here.  Owners
are charged dues and fees, pay through Stripe or from their bank, and see the
result in their ledger; they vote in elections; boards and managers approve
payments and the actions that agents propose.  Nearly all of the server's hard
behaviour comes from one habit: a handler or a scheduled job is a sequence of
database round trips with **no transaction around it**, and several of them run
at once, on several machines, and may die between two trips.

This directory holds TLA+ models of the core of that system, TLC configurations
that check them on small instances, and TLAPS proofs of their main safety
properties for all instances.  Paths below are relative to the repository's root.

- [Inventory](#inventory)
- [Modules and how they correspond to the code](#modules-and-how-they-correspond-to-the-code)
- [Runs](#runs): what is checked, with which bounds
- [Fairness and deadlock](#fairness-and-deadlock)
- [Proofs](#proofs): what is proved, from what, and how
- [Where the code and its documentation disagree](#where-the-code-and-its-documentation-disagree)
  and [what was met while modelling](#met-while-modelling)
- [Not modelled](#not-modelled) and [Plan](#plan)

## Inventory

| Component | State | Operations | What makes it correct |
|---|---|---|---|
| **Payment webhooks** (`server/routes.ts` POST `/api/webhooks/payments`; `server/routes/stripe-connect.ts`) | `payment_webhook_events`, `platform_webhook_events` | one handler per Stripe event kind | a captured payment is credited once; nothing is answered 2xx that is not done |
| **Owner ledger** (`server/services/ledger-payment-identity.ts`, `stripe-reconciliation.ts`, `payment-transaction-ledger.ts`) | `owner_ledger_entries`, partial unique index over `payment_identity_key` | post a payment, reverse a refund or dispute | one row per payment, one reversal per reference |
| **Payment transactions** (`server/services/payment-service.ts`) | `payment_transactions` | create, checkout, off-session charge, guarded status update | final statuses stay, success means money |
| **ACH failures** (`server/services/ach-failure-service.ts`) | claim rows in `platform_webhook_events`, retry fields of `payment_transactions` | handle a failure event | each failure is handled once, and queued for retry |
| **Autopay** (`server/routes/autopay.ts`, `server/services/retry-service.ts`) | `autopay_enrollments`, `autopay_runs`, `payment_transactions` | collection (sweep, manual), retries, pause/resume/cancel | one payment per interval; what is due is collected |
| **Assessment execution** (`server/assessment-execution.ts`, `server/services/late-fee-assessment-service.ts`) | `recurring_charge_schedules`, charge rows of the ledger, `late_fee_events`, `assessment_run_log` | listers, handlers, log, advance; sweep and on-demand runs | one charge per unit and period; no unit missed silently |
| **Scheduler lock** (`server/scheduler-lock.ts`, `server/index.ts`) | session advisory lock | acquire, release | one sweep at a time |
| **Job queue** (`server/job-queue.ts`) | `background_jobs`, promise chain per association | enqueue, drain, recover at boot | jobs end, and are not run twice at once |
| **Elections** (`server/storage.ts` 17320-18125, `server/routes/elections.ts`, `server/election-scheduler.ts`) | `elections`, `election_ballot_tokens`, `election_ballot_casts`, `election_proxy_designations` | tokens, cast, proxy, open, close, cancel, certify, delete; closing sweep | one ballot per token, kept; a certificate that states what was cast |
| **Disbursements** (`server/services/disbursement-service.ts`) | `disbursements`, `audit_logs` | create, submit, approve, reject, pay | what is paid was approved, by a second person |
| **Agent actions** (`server/services/agent-action-service.ts`, `owner-faq-triage/`) | `agent_actions`, toggles, `agent_action_audit_log` | file, approve, reject, execute through the gate | nothing that needs a person happens without one |
| **Statutory records** (`server/services/statutory-records-service.ts`) | `statutory_records` with their agent action | intake, sign, issue, decline | issued only after approval, and logged |
| **Bank feed** (`server/services/bank-feed-sync.ts`, `server/routes.ts` `/api/plaid/*`) | cursor, `bank_transactions`, advisory lock per connection | sync (sweep, webhook, manual), lock-less pull, disconnect | each transaction once, none lost |
| **Reconciliation matcher** (`server/services/plaid-reconciliation.ts`, `services/reconciliation/`) | `owner_ledger_entries.bank_transaction_id`, `settled_at` | two matchers, match by hand, payment from a deposit | a deposit settles one entry, an entry settles once |
| **Period close** (`server/services/reconciliation/period-close.ts`) | `period_closes` | close, reopen | attested counts are true |
| Others | | | listed with their reasons in PROJECT.json |

**Interactions.** Stripe calls two endpoints with events of the same payment, in
any order, repeatedly until it gets a 2xx.  Autopay's two sweeps call Stripe, post
from the synchronous answer, and get the events of the same charge at the webhook
endpoints.  All of them meet in `owner_ledger_entries`, guarded by one partial
unique index, and in `payment_transactions`, guarded by a SELECT before the
UPDATE.  The automation sweep is one `Promise.all` over assessment execution,
both autopay parts, the bank feed and others, under one advisory lock; on-demand
runs of assessments and manual autopay collections take no lock.  A bank sync
ends with the matcher, which settles owners' pending entries with deposits; an
agent's proposed match is committed by the same function an administrator uses,
behind the gate of agent actions, and a statutory record is signed and issued
through that gate too.

**Hard behaviour.** Redelivered and reordered events; a handler or process that
dies between two round trips; answers of Stripe that are lost; check-then-act
over rows without a unique index; jobs recovered at boot while another machine
runs them; an advisory lock whose session is lost while its holder goes on;
sweeps that do not run on the day that something is due; state that must in the
end be reached (a credit, an installment, an ended job, a retry, an imported
deposit).  Approvals, votes and matches are read, checked and written in separate
trips, so that a check may be stale when its write comes.  `PROJECT.json`
lists each such hazard at its line, with the properties that cover it.

## Modules and how they correspond to the code

### PaymentWebhooks, PaymentCredit

`PaymentWebhooks` is one association's payments.  A payment (`Payments`, a Stripe
payment intent) has a `kind`: a portal checkout, a payment link, an autopay
charge, a retry, or a foreign charge.  Stripe's side is external: `Pay`,
`Settle`, `AfterCapture` move the money (`stripe`) and emit events (`emitted`);
an event may be delivered any number of times, by `Deliver`, into a free slot.  A
slot is a request handler, or a worker of a sweep (`ChargeOffSession`), and its
steps are the database round trips of the code, in its order:

- `ReadTxn`, `WriteTxn`: `updatePaymentTransactionStatus`, whose guard is a read
  one round trip before the write;
- `LookupWebhookEvent` to `MarkWebhookProcessed`: `processPaymentWebhookEvent`
  (`server/storage.ts`); `SafetyNet`; `Respond`, which answers;
- `CheckCharge`, `PostCharge`: `writeLedgerEntryForCharge`, for `charge.succeeded`
  and, in the same way, for each charge of a payout;
- `PostPayment`: the canonical writer, an insert that the unique index refuses
  when the payment has a keyed row;
- `ClaimFailure` to `MarkFailureProcessed`: `handleAchFailureEvent`;
- `CheckReversal`, `FindOriginalCharge`, `InsertReversal`, `NextReversal`: the
  loop over the references for which an event calls (`Owed`): of the refunds that
  it lists those that have succeeded, which may be any of them; of a lost dispute
  the amount and the fee, if there are any;
- `PostSyncCredit`: the ledger row posted from the answer of an off-session
  charge; the retries' one carries no key;
- `Die`: a handler throws or its process dies; the event is not answered.

`raced` is a history variable: the payments whose status one handler wrote while
another one was between its read and its write, and the references for which two
handlers were between lookup and insert.  Nothing in the code keeps these apart; the
properties about statuses and reversals except what is in `raced`, and nothing else.

`PaymentCredit` is the promise: capture, then one credit, per payment.
`PaymentWebhooks` implements it (`CreditsExactlyOnce`), with the payments of the
retry sweep left out of the mapping since that sweep inserts past the index.

### AssessmentExecution

One association's charges.  A key is (rule, unit, period), a period a month.  A
slot `<<machine, "sweep">>` or `<<machine, "demand">>` holds a run, whose steps
are `List` (one rule type), for each entry `Check` (the idempotency guard),
`ResolveOwner`, `InsertCharge`, `WriteLog`, then `Advance` for each recurring
schedule that fired, then `NextType` and `Finish`.  `StartSweep` needs the
advisory lock; `FreeLock` is the lock lost although the run goes on.
`StartRequest` is an on-demand run inside its request; in associations of more
than 500 units (`Large`) it is a row of `background_jobs`: `Enqueue`, `Drain`,
`MarkRunning`, the job's end in `Finish` and `RunFails`, then `Rescan`, which looks
for other rows and schedules a drain for them, and recovery in `Boot`.  The failures
are `ExecuteFails`, `RunFails`, `Crash`, `DrainFails` (the SELECT of a drain throws)
and `LoseJob` (the UPDATE of the row or the SELECT after it throws), each of which
ends the drain with its row, or others, still queued.
Two history variables name the exceptions of properties: `contended`, the keys
that two runs were charging at once, and `stranded`, jobs that such a failure has
left `Forgotten`: queued while no machine has a drain pending or a job at work, or
running while nobody runs them.  An enqueue or a boot takes them out of it again.  `Posted(k)` is the guard's window: from the run's month to the end of
the schedule's interval, which is what `computeRecurringPeriod` computes.

Both the sweep and the demand slot exist once per machine, since
`withSchedulerLock` and the promise chain admit one each; with requests in an
association of fewer than 500 units, several on one machine would be possible
in the code, and are represented by several machines.

### AutopayCollection

Enrollments with a status, a next date and a usable method; transactions with
their attempt, retry and intent fields; `autopay_runs` as the set `paid` of
(enrollment, month).  A worker is one collection or one run of the retries; its
steps are the round trips: `CheckRun`, `CheckInFlight`, `LoadMethod`, `CreateTxn`,
`Charge`, `SaveAnswer`, `RecordRun`, `AdvanceNextDate`, `MarkForRetry`, and for the
retries `TakeRetry`, `LinkRetry`, `Spend`.  `Throw` ends one enrollment's turn (the
catch inside the loop), `Die` the whole run.  Events come between: `Settle`,
`ReportProgress`, `ReportFailure` (of a returned debit, and of a charge that was
`Refused` on the spot, whose event finds the row by the intent the answer named).  Owners change their enrollment by `Edit`.
Days pass by `Tick`; a month has `MonthLength` days and `advanceDate` is
modelled for days of the month that every month has.

`doubtful` is a history variable, the enrollments of which a second charge is
known to be possible: the answer of a live charge was lost; a turn was cut short
between the charge and its run row, or before a failed charge's next date was
set; a collection listed the enrollment while another had it on its list or was
at work on it, or likewise two retries a payment; or a failure was reported a
second time after its retry was made.

### Elections, BallotBox

One election.  A request occupies a slot and its `pc` is its next round trip:
`castBallot` is `VoteToken`, `VoteElection`, `VoteInsert`, `VoteSpend`;
`generateBallotTokens` is `GeneratePairs` to `GenerateCount`, with a pair per step;
designating and revoking a proxy, cancelling, certifying (`Certify`,
`TallyElection`, `TallyCasts`, `CertifyElection`) and deleting are laid out in the
same way.  `Open`, `Close` and `Extend` are the PATCH requests that the pages
send, `SweepSelect` and `SweepClose` the scheduler that closes what has expired.
A person has at most one token and a token one ballot, because the two unique
indexes say so; `VoteInsert` and `GenerateInsert` are refused by them, and deletion
by the foreign keys.  `Sell` changes owners, `Die` ends a request anywhere.
`receipts` (who was answered with a confirmation) and `loose` (the election was
opened again, or a ballot was between its check and its insert as the casts were
read) are history.  `BallotBox` is the promise to the voters: cast once, keep the
ballot, confirm only what was cast; `Elections` implements it (`BallotsAreKept`).

### BankFeed

One connection.  `feed` is the bank's own log of additions and removals
(external); a sync reads the connection row (`StartSync`), tries the advisory lock,
asks for what lies behind the cursor *it read*, applies it row by row, saves the
cursor, matches and releases.  The sweep starts only on a connection that is stale;
webhooks and administrators start at any time, and the older
POST `/api/plaid/sync` (`StartPull`, `Pull`, `Stamp`) writes rows with neither lock nor
cursor: those from its date on (`since`, any date), and makes the connection fresh
whatever it took.  `StoreAccounts` is the end of linking: a sync before it skips
transactions.  `early` and `mixed` are history: a run that fetched before the
accounts were stored; a sync beside another writer, or from a stale cursor.

### Reconciliation

One association's deposits and ledger entries.  Four kinds of run read deposits,
pending entries and links in trips of their own, then update entries by id:
`reconcileBankTransactions` (`StartMatcher`, `ReadPending`, `ReadConsumed`,
`Greedy`), `runAutoMatch` (`StartAuto` to `AutoApply`), a match by hand
(`StartByHand` to `HandApply`, also what an approved proposal commits with) and a
payment made from a deposit (`StartNew` to `NewEntry`).  `Withdraw` is a sync's DELETE
of a transaction the bank took back, with the foreign key's SET NULL.  A run's
`alone` says that no other run was under way since it began.

### Disbursements

One row, any number of requests.  Each request reads and checks (`ReadToSubmit`,
`ReadToDecide`, `ReadToPay`), updates by id (`Submit`, `Approve`, `Reject`, `Pay`),
and writes the audit row (`Audit`), or fails between (`Fail`).

### AgentActions

One queued action of one of six kinds, which stand for the levels L1 to L4 and for
the two callers with an effect: a proposed bank match (`StartMatch`, `Commit`, then
the execution) and a statutory record (`Intake` to `Link`, `Sign`, `Issue`,
`Decline`, `Finished`).  The calls `fileAction`, `approveAction`, `rejectAction` and
`executeAction` are `LoadToDecide`/`LoadToExecute`, `PassGate` (`evaluateGate` on the
status as it was read, with the toggle read one trip later), the update by id and
`Log`; `Return` is what the caller does next: triage tries to execute what it
filed, a record goes on to its own table.

### MC modules

Each `MC...` module extends its component's module with the model values, functions
and symmetry sets that its `.cfg` files need.

## Runs

Bounds are small because the hazards are: each needs two actors, one failure and
one boundary crossed, and the configurations are chosen so that all of these
occur.  The proofs cover the larger instances.

| Run | Checks | Instance and why it is enough |
|---|---|---|
| `webhook_credit` | `NoDoubleCredit`, `OnlyCapturedMoney`, `AckedChargeIsCredited`, `AckedHoaSuccessIsCredited`, `ProcessedIsCredited`, `AnsweredChargeIsSettled`, refinement `CreditsExactlyOnce` | one payment of any kind, two concurrent handlers, one death, both endpoints' success events, a pending event that may come late, a payout.  Payments share no row, so one is enough; two handlers are what a race needs |
| `webhook_refund` | `OneReversalPerReference`, `AnsweredRefundIsReversed`, liveness `EveryEventIsAnswered`, `CapturedIsCredited` | two concurrent handlers, one death, a charge, its failure and a refund that may be pending.  Several refunds, disputes with and without a fee and `hoa.intent.failed` are covered by the proofs |
| `dues_charge` | `ChargedOncePerPeriod`, `NoSilentMiss`, `LogIsTrue`, liveness `InstallmentsArePosted` | dues of two units, a late fee and a special assessment, two months, sweep and request on a machine, one failure (lost lock, crash, failed trip), an owner who arrives in the second month |
| `dues_jobs` | `EveryJobEnds` | two background jobs on two machines, two failures of any kind: enough for a crash and a failed recovery, a job lost twice, and a row that is queued behind one whose drain fails.  No machine sweeps (`Sweepers`), since sweeps touch no job |
| `autopay_charge` | `OneRetryEach`, `NeverOvercharged` | one enrollment, one collection beside one run of the retries, months of three days into the second one, three transactions (a charge, its retry, the next month's), one failure, one event per failure |
| `autopay_catchup` | `DueIsCollected`, `EligibleIsRetried` | the same (refusals and returned debits included) without a crash or a lost answer, one change by the owner |
| `elections_votes` | `SpentTokens`, `CertificateStands`, `CertificateIsComplete`, refinement `BallotsAreKept` | two persons, one unit that may be sold, two requests of any kind at a time beside the closing sweep, two turns of an administrator, a sale or a death.  Tokens are kept apart by person, and each operation touches one person or all of them, so two persons and two requests meet every pair of operations |
| `bank_sync` | `CursorIsHonest`, liveness `EveryDepositArrives` | two transactions and three changes of the bank (a pending deposit that posts under another id), the sweep beside one other run of any kind, one failure or lost lock |
| `bank_match` | `OneEntryPerDeposit`, `EntrySettlesOnce` | two deposits, three entries at different distances, two runs of any kind, any failures.  A deposit has to be settled twice, or an entry, for a violation: one more of each is there to distract the matcher |
| `bank_removed` (violation) | `SettledKeepsDeposit` | the same; nothing fails |
| `disbursements_pay` | `PaidWasApproved`, `DecidedByAnother` | three admins (a maker and two deciders) and three requests at once, any of which may die |
| `agent_gate` | `ExecutedWasApproved`, `EffectWasApproved`, `IssuedIsLogged` | an action of any kind, a board officer and a manager, three requests at once (an approval, a rejection and an execution), any of which may die |

The larger runs have 3.5 million (`elections_votes`), 1.8 million (`agent_gate`),
1.7 million (`autopay_charge`) and 1.3 million states (`webhook_credit`), the runs with
liveness up to 1 million (`dues_charge`), and none takes more than some minutes.

Each module's type invariant is checked in its first run (that of `Disbursements`
is proved instead).  What the less
obvious properties say:

- `AckedHoaSuccessIsCredited`: a handler of the per-HOA endpoint that dies after
  its event row and before the credit leaves a redelivery that counts as a
  duplicate; only the safety net makes it good.  It does, unless the
  transaction is already in state failed (a first card declined).
- `ChargedOncePerPeriod`: crashes, late or failed advances and re-run jobs cannot
  charge a unit twice; only two runs inside the guard of the same charge can.
- `NoSilentMiss`: a schedule advances on dispatch, not on success, so the log is
  the only trace of a unit that was not charged.  The trace is always there.
- `LogIsTrue`: the log row and the ledger row are two trips; "success" without a
  charge, or a late fee without its event row, never happens.
- `AnsweredChargeIsSettled`: a pending event that arrives late, or again, or whose
  handler started before the success and is overtaken, does not take a settled
  status back.  It holds with two handlers at once, as long as the writes themselves
  do not meet between read and write (`raced`).
- `OneReversalPerReference`, `AnsweredRefundIsReversed`: each event lists the earlier
  refunds again, some pending; each that has succeeded is reversed once, over deaths
  in the middle of the loop.  Pending refunds call for nothing, as in the code.
- `InstallmentsArePosted`: installments are listed as long as they are unposted.
- `EveryJobEnds`: jobs end over crashes, over boots that requeue another machine's
  job, and when one process drains the row of another, unless a failed UPDATE,
  SELECT or recovery left a job to nobody (`stranded`); those wait for the next boot
  or enqueue.  A failed drain alone is not enough: as long as another drain is
  pending or another job at work, the property demands that the job ends.
- `OneRetryEach`: a failed payment is charged again once, although its retry is
  created, linked, spent and charged in four steps with deaths between.
- `NeverOvercharged`: never more live charges than months that have begun,
  counting bank debits that may still be returned.
- `DueIsCollected`: collecting looks for what *has come* due, so a day without a
  sweep is made up for.  "Covered" is the code's own notion: a run row or a
  payment in flight this month.
- `SpentTokens`: a proxy that is designated, revoked and designated again while the
  owner votes takes the token's status away and gives it back; a spent token never
  becomes usable again.
- `CertificateIsComplete`: it states every ballot that was ever cast, unless voting
  went on beside the tally (`loose`), which the two trips of `castBallot` allow.
- `EveryDepositArrives`: after lost webhooks and failed syncs the sweep brings in
  what is missing, also behind pulls whose date was too late for it.  Only pulls that
  are repeated for ever, each within the 15 minutes after which a connection is stale
  (`server/services/bank-feed-sync.ts:49`), can keep the sweep away.
- `CursorIsHonest`: what lies before the saved cursor is in the table, and what the
  bank took back is not, although the sync fails anywhere between fetching and
  saving; that holds while a sync is applying its batch, too.  The exceptions are named in the property and described below.
- `OneEntryPerDeposit`, `EntrySettlesOnce`: of a run that is alone, whatever half-done
  runs came before it.  Two at once can do both, see below.
- `PaidWasApproved`, `ExecutedWasApproved`, `EffectWasApproved`: statuses go back and
  forth as stale updates overwrite one another, but nothing is paid, executed,
  settled or issued that nobody (or the wrong person) approved.
- `IssuedIsLogged`: unlike its approval, whose log row may be lost, an execution is
  logged before the record is issued.

## Fairness and deadlock

- `PaymentWebhooks`: a handler that was started goes on (weak fairness of each
  slot's next step; the event loop does not drop it), and Stripe goes on
  delivering *unanswered* events (strong fairness, as slots may be busy each
  time; Stripe redelivers whatever got no 2xx).  Deaths are bounded by
  `MaxFaults`.  No fairness for the owner, for settlement, for refunds.
- `AssessmentExecution`: the sweep's timer keeps firing on some machine, a run goes
  on, the promise chain goes on, and a machine that is down is started again.
  Sweeps are not needed for jobs to end: `dues_jobs` has none.
- `AutopayCollection`: days pass, the timer keeps starting both parts, a run goes
  on.  No fairness for edits, settlement or events.

- `BankFeed`: time passes (a connection becomes stale), the sweep's timer keeps firing
  ("the 5-min sweep is the backstop that recovers a dropped event",
  `server/routes.ts:21069-21072`), and a run that began goes on.  No fairness for
  webhooks, administrators, the bank, or the end of linking.  The sweep's fairness is
  weak: it starts only while the connection is stale, and pulls may make it fresh again
  before the timer fires.

`Elections`, `Reconciliation`, `Disbursements` and `AgentActions` have safety properties
only: in each of them the people decide whether anything goes on, and the one
timer, which closes expired elections, makes no promise: each pass may die, and an
administrator may extend the date.

No other fairness is assumed, and every safety run uses none.  All runs set
`CHECK_DEADLOCK FALSE`: the systems may come to rest when all events are
delivered, or when the clock and the row bounds are used up.

## Proofs

The `..._proofs` modules hold for any sets of payments, slots, machines, units, rules,
demands, admins, requests, persons, deposits, enrollments and workers, and any bounds.

**PaymentWebhooks.** Assumptions: the bounds are naturals (`BoundsAssumption`), the
subscription is a set of event kinds (`SubscribedAssumption`), `NoEvent` is not an
event (`NoEventAssumption`).

- `TypeCorrect` shows `TypeOK`, together with `BusySlots`: a slot that is not idle
  holds an event.
- `Invariance` shows the inductive invariant `IInv`, which adds to the types:
  - `BooksOK`: `OneKeyedRow` (at most one row with the identity of a payment; a
    row without it only for a retry), `EmittedIsTrue` (successes are announced of
    captured money only), and the three properties themselves;
  - `SlotsOK`: what a busy handler knows at its step.  This is the strengthening
    that matters: a handler that is about to post knows that the money was
    captured, one about to mark its event processed knows that the credit is
    there, one that has passed the charge check as well.  Since credits are never
    taken back, no other slot can falsify it.
- From it follow `AtMostOneCredit`, `MoneyIsReal`, `AnsweredChargesAreCredited` and
  `LogIsTrue`.
- `ImplementsPaymentCredit`: each step either captures one payment, or adds at most
  one row (`StepShape`), and a row added for a payment outside the retry sweep is
  its first; so each step is a `Capture`, a `Credit` or a stutter of the abstract
  specification.
- `AnsweredHoaSuccessesAreCredited`, from `HoaInv`, which says of a checkout of which no
  failure was emitted: its transaction exists and is not failed (`CleanTxns`, since
  every handler wants what its event says, `CleanTask`); so a handler of its success
  that is past the status update has seen "succeeded" (`TaskClean`), the safety net
  posts whatever an earlier delivery left undone, and the answer finds the credit.
- `AnsweredChargesStaySettled`, for any number of slots, from `StatusInv`: of a payment
  whose status is not in `raced`, whatever a handler is about to overwrite is still not
  terminal, and a `charge.succeeded` about to be answered has found or left it
  terminal (`TaskSettles`).  A write beside another handler's puts the status into
  `raced`, which only grows (`RacesLast`), so that every other write comes to a handler
  that has not read yet.
- `ReversedOnce` and `RefundIsReversed`, for any number of slots, refunds and disputes,
  from `ReversalInv`: every reference behind a handler in its loop has its reversal, if
  the charge was recorded when the event came (`SlotsLoop`, whose argument needs no
  exception: reversals and credits are never taken back); and unless two handlers met
  there, one between lookup and insert is alone with its reference, which has no
  reversal yet (`FirstReversal`).

**AssessmentExecution.** Assumptions: naturals for the bounds
(`PeriodsAssumption`), the types of the functions that describe rules and
ownership (`RulesAssumption`, with an interval of one month for everything but
recurring dues; `OwnersAssumption`), no late fees on demand (`DemandsAssumption`,
as the route refuses them), `Large` a Boolean (`LargeAssumption`), the null values
outside their sets (`NoneAssumption`), finitely many job rows (`FiniteAssumption`).

- `ChargingInvariance` shows `IInv == TypeOK /\ RunsOK /\ OneWriter /\ NoSilentMiss
  /\ LogIsTrue`:
  - `RunsOK`: what a run knows at its step; `FiredOK`, that every unit of a
    schedule which is going to be advanced is still to do, being done, or
    accounted for, is what makes `NoSilentMiss` inductive;
  - `OneWriter`: of a key that is not contended at most one run is between check
    and insert, and then there is no row yet.
- From it follow `ChargingTypes`, `OneChargePerPeriod`, `AdvanceMissesNothing` and
  `RunLogAgrees`.

**Disbursements.** Assumption: `Nobody` is not an admin.  `DisbursementInvariance`
shows `IInv`: types; `Deciders`, that whoever decided, or is about to write a
decision, is not the maker; `Made`, that the row has a maker; `Decided`, that a
status that presupposes a decision, or a payment about to be written, has its
decider.  The status a request has read may be stale when it writes, so that the
argument never uses it: what it uses is that makers never change and approvers are
never unset.  From it follow `DisbursementTypes`, `PaidMoneyWasApproved` and
`MakersDoNotDecide`.

**AgentActions.** Assumption: the board are admins, `Nobody` is not.
`GateInvariance` shows `IInv`: types; `Books`, what the rows say (an approved action,
or an executed one that needs a person, names the right approver; an effect has one;
an issued record is logged); and `TasksOK`, what each request knows at its step
(`Knows`): past the check of an approval that its admin may approve, past the gate
that the action was approved.  A status is overwritten by races, but `Grows`: a right
approver is only ever replaced by a right one and the log only grows, so that no
request takes from another what it knows.  From it follow `GateTypes`,
`GatedActionsWereApproved`, `EffectsWereApproved` and `IssuedRecordsAreLogged`.

**Elections.** Assumptions (`ElectionAssumption`): finitely many persons and units, the
null values outside them, a percentage as quorum.  `ElectionInvariance` shows
`IInv == TypeOK /\ RowsOK /\ TasksOK /\ CertificateOK /\ NoneOnItsWay`:

- `RowsOK`: what rows say of each other (a ballot has its token, a token that is cast
  has its ballot, a confirmed voter's token is cast);
- `TasksOK`: what a request knows at its step.  One about to spend a token has put
  its ballot in; one about to certify has a count that is not above the votes and
  meets the quorum, and votes only grow; unless voting went on beside the tally, its
  count is all of them and the election has ended;
- `CertificateOK`, the two properties of certificates, and `NoneOnItsWay`: once the
  casts have been counted, no ballot is between its check and its insert, unless the
  election is `loose`.

From it follow `ElectionTypes`, `SpentTokensStaySpent`, `CertificatesStand` and
`CertificatesAreComplete`.  `ImplementsBallotBox` maps each step to one of
`BallotBox` or to a stutter: `TasksOK` gives that only a cast ballot is confirmed.

**Reconciliation.** Assumption: naturals for the bounds and distances.
`MatchingInvariance` shows
`IInv == TypeOK /\ OthersRest /\ DepositsFree /\ EntriesPending`: while a run is
alone every other run is at rest, the deposits it holds after it has left out the
linked ones are linked to nothing, and the entries it holds are pending.  The last two
are what makes the properties inductive: entries are settled by id, from lists read
trips before.  From it follow `MatchingTypes`, `DepositSettlesOneEntry` and
`EntriesSettleOnce`, of which the last two are action properties.

**BankFeed.** Assumptions (`FeedAssumption`): naturals for the bounds, `Nobody` is not
a run.  `FeedInvariance` shows `IInv == TypeOK /\ FeedOK /\ SyncOK`.  `FeedOK`
speaks of the bank: a transaction is added once, and removed only after that.  `SyncOK`
holds unless the accounts came late or two writers were at work: one run applies at a
time (`Solo`), and it knows at each step how far it has got from the saved cursor
(`Progress`): additions are in its batch or in the table, removals are in the batch or
out of the table.  `ChangedSplit` says how what changed over two consecutive stretches
of the log adds up.  From it follow `FeedTypes` and `CursorStaysHonest`.
`CursorIsHonest` once excepted the time in which a batch is applied; the invariant
shows that it needs no such exception, and it no longer has one.

**AutopayCollection.** Assumptions: the calendar's and the retries' numbers are
positive (`CalendarAssumption`, `RetryAssumption`), Stripe's outcomes are those the
handlers tell apart, collections and retries are different workers, null values lie
outside their sets.  Three invariants are built on each other.

- `AutopayInvariance` shows `TypeInv == TypeOK /\ RowsOK /\ TasksOK`.  `TasksOK` says
  what workers hold: the row in hand is one worker's alone (`Distinct`), it is
  not charged before the step that charges it, not due to be retried in the same
  turn, no retry of it is listed, linked or
  on its way, and no refusal can be reported of it before its answer is saved (`HeldOK`).
- `RetryInvariance` adds what `OneRetryEach` rests on: of a payment that is not
  doubtful one retrier at most has it on its list or in hand (`WantedOnce`), it is
  spent before its retry is charged (`SpentFirst`), and once a retry of it was
  charged it is neither eligible nor wanted (`RetriedOnce`).
  `FailedPaymentIsRetriedOnce` follows.
- `ChargeInvariance` adds what `NeverOvercharged` rests on.  A *claim* of an
  enrollment is a row whose charge is live or that may yet lead to one: it is
  eligible for a retry, listed for one, held by a worker, or returned or refused at
  Stripe without a retry made for it (its failure event may yet make it eligible).  A chain of retries is one claim: a retry takes the
  place of its original in the step that spends the original.  `Slots` gives each
  claim a month that has begun.  The claims that no collection is paying for at
  the moment are covered by the next date, which lies in a later month than
  theirs, or by a run row of the last of these months; this is what a collection
  checks before it makes a row, and `AdvanceNextDate` restores it.  `NotLive`
  says that what Stripe charged waits for no retry, `InvolvedOnce` that
  an enrollment is one collection's at a time.  `NoMonthIsChargedTwice` follows.

`NoMonthIsChargedTwice` has a hypothesis, `Monthly`: `Every = 1`, and either no
change by owners or `DueDay = 1`, which is the day an enrollment gets when it names
none (`server/routes/autopay.ts:611`).  Both parts are needed; TLC finds
a counterexample without either, each after an update of the next date that fails
(`Throw` at `AdvanceNextDate`) when the run row of a success was written.  With
`Every = 3`, a month later only that month's run is looked for, and the quarter is
charged again.  With `DueDay = 2`, the collection charges on the first of the next
month, before its due day; when that charge fails and the owner pauses and resumes
the same day, the next date is this month's due day, and the month is charged once
more beside the retry.

**Only model-checked.** All liveness: fairness is out of the prover's reach.  Every
other property of the runs that pass is stated by a theorem.

## Where the code and its documentation disagree

`bank_removed`: a comment says that a withdrawn transaction which is matched to a
ledger entry "is left in place and surfaced"; the DELETE below it does not look, and
the entry stays settled without its deposit.  `PROJECT.json` quotes the lines.

### Met while modelling

These follow from the models, in which each is a behaviour; the properties are
stated so as to say exactly what holds beside them.

*Payments.*  The retry sweep inserts its payment row without the identity key
(`server/services/retry-service.ts:292`), so the webhook of the same charge adds a
second credit.  A refund of a payment that another path than `charge.succeeded`
credited finds no original row, and is never reversed.  A refund that is pending when
its event comes is reversed only if a later `charge.refunded` of the charge lists it as
succeeded.  Two deliveries of one refund at once both insert their reversal, since the
lookup and the insert are two trips and no index covers reversals
(`shared/schema.ts:1002-1016` has payments only); the comments at
`server/routes/stripe-connect.ts:569-573` and
`server/services/stripe-reconciliation.ts:245-247` promise that a redelivery never
double-reverses, which holds of deliveries one after another.  In the same way the
comments at `stripe-connect.ts:436-438` and `464-466`, that a status never regresses,
hold unless two updates overlap: the pending one reads, the success is written and
answered, and the pending one overwrites it.  Charges refused
through the per-HOA failure event are never marked for retry, only those reported to
the Connect endpoint.

*Autopay.*  A lost answer leads to a second charge under another idempotency key.
Resuming a quarterly or annual enrollment sets its next date by the month, and the
owner is charged twice in an interval; so is one whose next date could not be
updated after the charge, since only a run of the same month is looked for.  A cancelled enrollment's retries go on.  A
retry that succeeds in the next month makes the collection skip that month.

*Assessments.*  Two runs at once both pass the guard that is said to prevent it; the
guard's window of a schedule of several months starts in the current month, so it is
no second line of defense for a failed advance.  A recurring charge whose insert
failed is logged, but its schedule advances and the month is never charged; months
without a sweep are not charged later.  Boot recovery requeues jobs that another
machine is running.  A SELECT that throws at the start or the end of a drain
(`server/job-queue.ts:212-215`, `227-230`) leaves queued rows to nobody until the next
enqueue, boot or end of another job; where an unhandled rejection ends the process,
this is a crash, and the boot after it finds them.

*Elections.*  `script/add-new-feature-projects-roadmap.ts:345` promises "one vote per
eligible unit" and that "Proxy votes lock out the original voter's token"; line 401
"Certification locks the result permanently".  After a sale and new tokens, both
owners of a unit can vote.  A designation that is revoked and made again, a token that
is generated after it, or a death before `LockOut`, leave the owner's token usable.
A sweep that selected the election before it was certified sets "certified" back to
"closed".  A crash between a ballot and its token leaves the token pending (voting
again is refused by the index).  The ballots of a secret election store no choice,
so its tally counts none (`server/storage.ts:17440`, `17595`).  A person with two units
makes the generation in a unit-weighted election fail at the index, before the number
of eligible voters is updated.  `proxyForUnitId` is read but never written.

*Bank feed.*  The connection is read before the lock is taken, so a sync may fetch
from a cursor that another has moved, insert again what that one has deleted, and
fail before deleting it again: a phantom deposit remains.  The lock-less pull can do
the same.  It takes only what lies after its date, 30 days back by default
(`server/routes.ts:20889-20891`), and yet refreshes `lastSyncedAt`: pulls that are
repeated keep the sweep, "the backstop that recovers a dropped event", from running,
and a deposit from before their date then never arrives.  While accounts are not stored, transactions are skipped
(`bank-feed-sync.ts:230`) and the cursor advances over them.  The header says that
a lock collision writes a run row; it writes none (`375-377`).

*Matching.*  The lock of a sync is held per connection, the matching goes over the
association: two runs at once can settle two entries with one deposit, or link a
settled entry again.  When a matched pending deposit is replaced by its posted
transaction, the new row may settle a second entry.

*Approvals.*  Disbursements and agent actions leave their ladders under races: a
rejected disbursement may be approved or paid, one may be paid twice, a stale
submission sends an approved one back; rejections and executions overwrite each
other.  A death between an approval and its log row leaves it without a trace
(`statutory-records-service.ts:193-194` relies on it).  A record whose
action was executed, but which was not updated, can never be issued, and a proposed
match may be marked executed, by the general route, without being committed.
`rejectStatutoryRecord` never rejects the queue item its comment mentions
(`statutory-records-service.ts:248`).  `setToggle` is called by no route.

## Not modelled

Amounts, fees, descriptions and e-mail: no property here depends on them.  The
general-ledger projection: best effort, and nothing reads it back.  Amenity
payments: a second flow of the same shape as the modelled one.  Period close: counts
over a report, then one upsert; what the counts mean is decided by the heuristics of
the report, not by the order of its steps.  Governance services and delinquency stages:
read-then-write transitions of the same shape as the disbursements'.  Read-only
projections (alerts, pressing items, reports), single-row CRUD, authentication,
external model calls, document generation, the client: they make up by far most of
the repository and have no protocol to check.  `PROJECT.json` lists every component
with its status and the reason.

Abstractions inside the modules: an association at a time (nothing is shared
between associations but the sweep that visits them one after another); months and
days instead of timestamps; failure classification as a choice; in
`AutopayCollection` the read and write of a status as one step (the two are
separate in `PaymentWebhooks`), and no run of a sweep that lasts for more than a
day; retries are due after two days or more (`RetryAssumption`; the default is 3, 7
and 14); changes of `dayOfMonth` and `frequency`, and associations without a
gateway, are left out.  Elections have one option and no `opensAt`, and the choices
of a ballot are left out.  The bank's answer comes in one page, and a modified
transaction is an added one.  The auto-matcher may pair any deposit with any entry:
its scores are left out.  An agent's action has no payload, and records no deadline.

## Plan

Done: payment webhooks with their abstract specification; assessment execution with
the sweep lock and the job queue; autopay collection and retries; elections with
their abstract specification; the bank feed and the matcher; disbursements; the gate of
agent actions with its two callers.  Each is checked, and all its properties but
liveness are proved.

Next: the guard on constants of one theorem, `Monthly`, could be replaced by a guard on
behaviours (an enrollment whose next-date update failed), which says more of quarterly
and annual enrollments.
