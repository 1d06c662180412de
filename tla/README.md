# Paid work: TLA+ models and proofs

The repository is the backend and web application of a content agent for beauty
businesses. A merchant subscribes to a plan that grants credits, asks for a piece of content
(a *Work*: a note with pictures, a copy, a video, or a package of several such *carriers*),
confirms its price, and pays in credits that are reserved at admission and committed, partly
returned, or returned in full when the carriers' workflows end. This directory models the parts
in which money or promised work can be lost: the credit ledger, the settlement of a Work, the
wait for the merchant's answer under a hold, the paid start, the media job at the provider, due
delivery, and the way of a subscription payment from the webhook to the credits.

All paths below are relative to `src/apps/core/src/p1/` unless they say otherwise.

## 1. Inventory

| Component | State | Operations | What makes it correct |
|---|---|---|---|
| Credit ledger (`credit-billing/credit-ledger.ts`, `postgres-credit-ledger.ts`) | grant lots, transaction rows | `grant`, `consume`, `refundUsageOperation`, `expireSubscriptionLots`, `projectCreditBalance` | credits are neither created nor destroyed; no refund beyond the usage; expired stays expired; repeats change nothing |
| Billing executor (`harness/product-billing-settlement.ts`) | none of its own | `commit`, `refund`, `settleReadyWork` | usage, ledger and Work agree whoever runs it and wherever it stops |
| Carrier coordinator (`harness/postgres-carrier-settlement-coordinator.ts`) | carrier receipts, Work row, queue of ready Works | `recordCarrierTerminal`, `markWorkSettled`, `claimReadyWorkSettlements`, `markWorkSettlementFailed` | one settlement per Work; a ready Work always has an owner |
| Carrier settlement worker (`harness/carrier-settlement-worker.ts`) | a claim | `runOnce` | a lost lease harms nobody |
| Billing compensation (`harness/billing-compensation.ts`, `postgres-billing-compensation-store.ts`) | one row per carrier | `enqueue`, `claimBatch`, `markCompleted`, `markFailed`, `recoverOrphans` | an interrupted workflow is settled all the same |
| Workflow epilogue (`harness/dbos-workflow.ts`, 1791-2050) | DBOS steps | `commitHarnessBillingOrSchedule`, `refundHarnessBillingPreservingFailure`, `settleHarnessCancellation` | the merchant is told the truth about the credits |
| Quote and usage (`product-billing/durable-service.ts`, `quote-service.ts`, `product-usage-ledger.ts`, `partial-delivery-settlement.ts`) | quote, usage record of a task | `settleTask` with `settle` / `failAndRefund`, proration | the charge is the price of what was delivered |
| Decision service, reservation sweeper, resume reconciler (`harness/decision-service.ts`, `reservation-sweeper.ts`, `resume-reconciler.ts`, parts of `postgres-store.ts`) | question, decision events, sweep row | `submit`, `submitCoreHoldExpired`, `runOnce` of each worker | one resolution per question; a recorded answer arrives; nothing reserved for ever |
| Execution confirmation, submission coordinator, stalled-work sweeper (`agent-session/execution-confirmation-service.ts`, `execution-spine/`) | request, submission row with start lease and outbox | prepare, confirm, start, expire, reprice, cancel | one hold per request; nothing expired starts |
| Job runtime and media effects (`job-runtime/`, `model-supply/`) | job record, transports, provider receipt, generation ledger | reserve, checkpoint, execute, reconcile, cancel, settle, defer, notify | one provider task per job; what is reported is what the task came to and what was charged |
| Due delivery (`due-delivery/`) | items, runs, notification effects | produce, claim, evaluate, deliver, settle, purge | one message per recall; the daily chain does not break |
| Subscription service and scheduler (`credit-billing/credit-billing-service.ts`, `credit-subscription-scheduler.ts`) | subscriptions, paid periods, receipts of events | `settlePayment` by lifecycle, `run` | granted is what was paid, once |
| Web payment webhooks (`src/mkfast-template-main/src/payment/`) | inbox with claims, payment row, cancellation receipts | receive, claim, apply, complete, retry | acknowledged is settled |
| Semantic events, entitlement pools, unit-era grant lots, operations, administration, user interface | see `PROJECT.json` | | not modelled, with the reason |

How they interact. Admission freezes the billing identity of a Work (carriers, prices,
units, failure policy) and calls `consume`. Each carrier's workflow ends in the epilogue:
it enqueues a compensation row, then calls the executor, which writes the carrier's
receipt; the receipt that completes the set reduces all of them to one Work settlement and
queues it in the same transaction. The executor then settles the product usage, asserts the
status it finds, posts the refund to the ledger, and marks the Work settled. A timer
(`assembly/api-runtime.ts`, 2464-2495) runs the compensation worker, the queue worker and
the sweepers over and over, in every API process.

Before that, the merchant's confirmation reserves the credits and the start is dispatched through
an outbox; the workflow asks its questions and waits for answers under a hold; media carriers run
as durable jobs at the provider. The credits come from the scheduler, which grants a lot for each
paid cycle, and the cycles from payment events that the web application receives, orders by a
fence on its payment row, and hands to Core as idempotent commands.

What is hard to test: three kinds of executions settle the same Work at once, each in three
transactions; any of them fails or dies between two; leases run out under a live holder;
carriers of a package end in any order with different results; refunds are repeated, in
other amounts, with clocks out of order; proration rounds. `PROJECT.json` lists these hazards
with their lines and the properties that watch them. The same pattern returns in every part: a
claim under a lease, work outside the transaction, and a write afterwards by someone who may no
longer hold the claim.

## 2. Modules

| Module | Models |
|---|---|
| `CreditLedger` | the ledger of one workspace: an action per operation |
| `CreditLedgerLoops` | the two loops of the ledger, iteration by iteration, against the plans `CreditLedger` states as sets |
| `UsageAccount` | abstract: what the ledger promises about one operation |
| `CreditLedgerProofs` | theorems about `CreditLedger` and `CreditLedgerLoops` |
| `WorkSettlement` | receipts, Work, queue, compensation rows, usage and ledger of one Work, and every execution that touches them |
| `WorkOutcome` | abstract: what a merchant is promised about a Work |
| `WorkSettlementProofs` | theorems about `WorkSettlement` |
| `HeldReservation` | one question of a waiting workflow, its answer, expiry, sweep and successor |
| `HeldReservationProofs` | theorems about `HeldReservation` |
| `PaidStart` | a paid request as a chain of attempts, from the confirmation to the provider |
| `PaidStartProofs` | theorems about `PaidStart` |
| `MediaJob` | one durable media job: record, transports, workers, provider task, generation ledger |
| `MediaJobProofs` | theorems about `MediaJob` |
| `DueDelivery` | the due items of one workspace: the daily chain and a recall |
| `DueDeliveryProofs` | theorems about `DueDelivery` |
| `SubscriptionBook` | subscriptions and paid periods, the store's operations and the service's decision |
| `PlanPayment` | payments from the webhook to the books, and the scheduler that grants lots |
| `PlanPaymentProofs` | theorems about `PlanPayment` |
| `Sums` | lemmas about finite sums and loops that several proofs share |
| `MC...` | small instances for TLC, one for each of the modules with actions |

`CreditLedger` refines `UsageAccount`, and `WorkSettlement` refines `WorkOutcome`. The other
modules use what those show: a settlement is one step of `HeldReservation` and of `PaidStart`,
and a grant one step of `PlanPayment`.

### CreditLedger

`lots` is `p1_credit_grant_lots`; `usage`, `refund` and `expire` are the rows of
`p1_credit_lot_transactions` by type, keyed by what makes them unique (a USAGE row by
operation and lot, a REFUND row by the USAGE row it is related to). Every operation takes
the workspace's advisory transaction lock first, so it is one step. An operation that throws
rolls back and is not an action. The clock of an operation is its caller's `createdAt`; `Next`
lets it be any instant, because callers queue on the lock after reading their clock.

`allocateCreditConsumption` and `RefundPlans` are stated as what the loops look for;
`CreditLedgerLoops` has the loops themselves, as folds over the rows in first-expiring-first-out order
(`LastInFefoOrder` names the row a prefix ends with), and `LoopsFindPlans` says that they find exactly
the plans. `consume` includes the expiry pass with which the handler begins.

Three history variables serve properties and proofs only. `held[l][X]` is how many credits the
operations in `X` hold from lot `l`: the inductive invariant is about sums over operations, and carrying
them along as state lets it be proved step by step; `BalanceAddsUp` includes that `held` is the sum.
`asked` is the last amount a refund succeeded with, `closed` the lots a subscription had when
it was expired.

Abstractions: amounts and instants are small numbers; actor and correlation ids are left out;
`expirationDate = null` is the instant after all others. Usage rows are visited in allocation
order; the database orders them by the text of `<operation>:<index>`, which is the same for up
to ten lots. Beyond ten lots the refund visits them in another order than the consumption did.
What is proved of refunds (`RefundsRepeatSafely`, `LedgerLoopsFindPlans`) needs a fixed total order of the rows, not
this particular one.

### WorkSettlement

One step is one database transaction. `pc` says what an execution does next:

    workflow:   enqueue -> record -> settleTask -> reconcileRefund -> markWorkSettled
                        -> getUsage (refund only) -> complete
                        -> cancelled (hold expired, no refund to report) -> done
    compensation worker:   claimBatch -> record -> ... -> complete | failed
    queue worker:          claimReadyWorkSettlements -> settleTask -> ... | failed

`recordCarrierTerminal` goes to `settleTask` if the Work is ready and returns otherwise.
A step that throws goes where its caller catches: a workflow swallows the error if its
compensation row exists and otherwise schedules once more (`Thrown`); workers release their
claim. `transactionFails` makes any transaction fail for reasons of its own, `crash` kills the
process: DBOS runs the workflow's last step again from its beginning, a worker's claims wait for
their leases. `leaseExpires` and `rowTurnsStale` are the passing of a minute.

Data: an `Outcome` is the settlement input reduced to action, delivered units, forced refund
and whether trusted usage is attached, with a flag for a workflow that was cancelled. Prices, units and failure policies per carrier are
constants, as they are frozen at admission. A receipt remembers who wrote its fingerprint: the
fingerprint hashes the whole input, and the input of a claimed row includes the attempts counter,
so that only a workflow repeating its own step can match (`SameFingerprint`). The ledger is
reduced to the amount it has posted for this Work; that a repeat posts nothing is what
`RefundRetryIsNoop` shows of the ledger itself. Identity and revision asserts compare
frozen values with themselves and are taken to hold. `reconcileRefund` includes the idempotent
observability event written after the posting, as a point where the step can fail; the quantities of
unit-era quotes are left out.

External: DBOS (steps are retried and recovered at least once) and PostgreSQL (transactions,
row and advisory locks) are assumed to work as documented.

### HeldReservation

A workflow waits for the answer to one question while credits are reserved. `question` and `events` are
the rows of the question and of its decision events, `sweep` the row of the reservation sweep,
`receipt` and `usage` what a settlement leaves, `mailbox` the DBOS topic of the workflow. A
request of the merchant reads the target, records its answer, claims the event, sends and marks
it (`submit`, `claim`, `send`, `mark`); the timer records `core_hold_expired` through the same table;
a sweeper claims its row, refunds through the executor (receipt, then settlement), expires the hold
and completes; the reconciler claims what is recorded and not sent. A late answer, to a reservation
that is gone, starts a successor and closes the old wait.

Data: answers are not told apart, a typed interaction (`Typed`) only by what is refused. The
settlement of the Work is one step on `usage`, with `markWorkSettled` folded into it;
`settleQueuedWork` is the queue worker of `WorkSettlement`. A sweep row that waited out its minute is `ripe`.

### PaidStart

The rows of each attempt are one record (`Row`): the confirmation request, its credits, the usage, the
submission with lease and outbox, the Work and its workflow. `Init` is the moment after
`preparePendingConfirmation`. Actions are the merchant's decision, expiry by the job, by a late
decision and by the outbox sweep, claim, dispatch, start and failure of an execution
(`startPrepared`, `recoverPendingStarts`), the workflow's gate with repricing, execution, settlement,
cancellation and the stalled-work sweep. An attempt that expires or is repriced gets a successor
with the next number.

Time is the age of an attempt: new, older than the stalled-work timeout, older than its hold. Whether a
successor can be afforded, and whether a workflow fails, is a free choice. Process clock and
database clock are one. Attempts have one carrier. The repricing inside `createRequest` is not reached by
its callers and left out.

### MediaJob

`record` is the job's row with its lease, `transport` the pg-boss jobs by sequence number, `worker` the
handler of each process, `task` and `receipt` the provider's side, `ledger` the job of the generation ledger
(`foundation-ledger.ts` over `foundation/application-service.ts`). A handler reserves the record, then

    execute:    checkpointAttempt -> submit -> put the receipt -> settle -> record
    reconcile:  recover by receipt -> settle -> poll -> settle -> record    (by reference: poll at once)
    cancel:     find the task, cancel it -> settle -> record

and defers by a continuation, retries, or notifies the workflow. Every answer of the provider is settled in
the ledger before it is recorded, and the ledger is monotonic: a closed job takes no other settlement, and
one that is `unknown` only a result. A settlement that is refused throws, and what throws is recorded as `unknown`
and deferred. Transports are delivered at least once. `Init` is right after `submit`, which writes record and first
transport together.

The adapter takes every HTTP error for a rejection before acceptance, 408 and the 5xx of gateways
included. The model does not believe it: such an answer may hide a task that the provider has taken
(`hidden` counts them), while the record goes back to `queued` and is submitted again. Nobody ever follows a hidden
task, so `task` is the one that the job can know of, and `OneTask` is about that one; `NoBlindRetry`, which counts
all of them, is false (`MediaJobHidden`). A call that times out in the process itself is another case: its acceptance is
unknown, and it is not repeated.

Data: one candidate, a video task. The several postings behind a settlement (cost event, usage, product billing) are one
step that may fail before or after the ledger's transaction. An image that is taken synchronously, and the
chain of fallback candidates, are left out.

### DueDelivery

`item`, `run` and `effect` are the rows of due items, delivery runs and notification effects. Time is the
business date; a lease may outlive one midnight and not two, which `since`, the date of the claim,
keeps. A worker claims, evaluates, begins, delivers and settles, each in a transaction; the
settlement of a daily item enqueues the next. The order of claims is left free, rest days are left
out (production has no facts about them), and `chain`, the promise that an item carries the
recommendations on, is a history variable.

### SubscriptionBook and PlanPayment

`SubscriptionBook` has no variables: `book` is a record of subscription rows and paid periods; each operation
of the Postgres store gives the set of books it may leave, empty where it throws. `Decision` is
`settlePaymentEvent` up to its writes, `Settled` the writes. `PlanPayment` runs them: a delivery is
received, claimed under a lease and classified against the fence (`claimNext`); the command is
claimed in Core and its transaction reads without a lock (`settlePayment`); an upgrade clears the old lots
in a transaction of its own; the writes commit with the receipt or roll back; the command is completed;
the payment row is written; the provider is asked to end what was replaced; the delivery is completed. The
scheduler lists rows and then grants by them, cycle by cycle.

Histories are scripts of two or three deliveries that the MC module lists; order and time of
arrival are free. A month is two instants and a year two months, tiers are ranks. The provider's
cancellation with its receipt is one step, and so is the normalisation of a delivery. Bindings
are taken as found. A command that fails with a domain error is freed at once; the model
always goes through the lapse of its lease.

## 3. Runs

| Run | Instance | Shows |
|---|---|---|
| `ledger` | 3 lots (two dated, one of them later created; one undated), a conflicting grant, 2 tasks, amounts to 3, 3 instants | conservation per lot, balance sum at every instant, refund bound, expired lots stay empty, retry of a refund is a no-op, the loops find the stated plans, refinement of `UsageAccount` |
| `single` | one carrier, 2 compensation and 2 queue workers, 2 faults, 1 orphan recovery; 67,984 states | paid before closed, truthful answers, claims released by owners, settlement eventually |
| `package` | note of 3 pages and a copy, partial or no delivery, 1 worker of each kind, one carrier failing and one cancelled, 1 fault; 184,993 states | ready is queued, charge is price of delivery, refinement of `WorkOutcome` |
| `held_timer` | timer, 2 requests of the merchant, 1 reconciler, 2 faults; 34,468 states | one Work per answer, recorded answers arrive, the hold ends |
| `held_sweep` | timer, 1 merchant, 2 sweepers, 1 reconciler, 1 fault; 77,122 states | one resolution, the workflow ends as recorded, a completed sweep is over, late answers are honoured |
| `paid` | 2 attempts, 2 executions, cancellation, 1 fault; 100,449 states | one hold, nothing expired starts, output is paid, holds end |
| `media` | 2 workers, 3 transports, 2 retries, 2 faults, cancellation; 372,315 states | one task besides hidden ones, cancelled is quiet, results are true and settled, no job lost, a recorded task is settled and the workflow hears |
| `due` | 2 workers, 3 dates and a recall, 2 attempts, retention of a day, 1 fault; 308,609 states | one message, runs agree with items, in time, chain unbroken, settled is final, due items end |
| `plan` | 6 histories, 2 workers, 5 instants, 1 fault; 1,494,514 states | acknowledged is settled, granted is paid |
| `plan_live` | 3 histories, one with a renewal that may come after its grace, 2 workers, 4 instants, 1 fault; 167,168 states | the schedule is kept, deliveries end |

The bounds. Two tasks over three lots are the least in which a usage spans lots, two usages share a
lot, and an expiry falls between; amounts of 3 exceed every lot. Two workers of a kind are
the least in which a lease passes from one to another, and a second fault lets the second holder
fail as well. A package needs two carriers to have an order; three units make a partial
delivery that prorates to a proper part. Two attempts are a predecessor and a successor; the proofs
cover longer chains. `RetryLimit` is not below `MaxFaults` in `media`: beyond that only an operator's
redrive carries the job on, and `MayDefer`, the bound on continuations, is the model's own stop.
An error answer is a fault: with two faults the job is rejected, submitted again and then disturbed
once more. Three dates let an item of yesterday meet today's and tomorrow's. The histories of `plan` hold one
of each lifecycle and one event under two delivery ids.

`CHECK_DEADLOCK FALSE` everywhere: a ledger nobody calls, and a Work that is settled, stop.

Fairness. `WorkSettlement`: a workflow that has begun its epilogue goes on (DBOS recovers it);
workers finish or fail what they claimed; leases run out; the timer claims again, and since a
claim takes the due rows in order of `next_attempt_at`, no row is passed over for ever (strong
fairness of `claimBatch`, weak of the queue). `HeldReservation`: the same of sweepers and reconcilers; the
workflow's timer and mailbox are DBOS's. `PaidStart`: time passes, leases run out, the sweeps are
scheduled, workflows go on. `MediaJob`: workers run, pg-boss delivers and expires transports, leases run
out, the provider's task ends. `DueDelivery`: the poller ticks every second. `PlanPayment`: the
provider repeats what is not acknowledged, deliveries are claimed in the order of
their availability, which a retry moves back (strong fairness of each claim), commands end or
lapse, the scheduler's job runs every five minutes. Nowhere is fairness assumed of a merchant, of a fault or
of `recoverOrphans`, and faults are finitely many.

`OwnedWorkSettles` starts from the moment every carrier has left a row or a receipt. Before that,
a workflow whose store is down may leave nothing behind but an audit event. `HoldEnds` of `PaidStart`
exempts starts that admission refused for good (see `paid_stalled` and
`execution-spine/stalled-work-sweeper.ts`, line 4). `DeliveryEnds` exempts deliveries whose subscription has
ended before: Core refuses them on every attempt. `RecordedTaskEnds` asks that the ledger settles the task that
the record knows, and not that the record ends: after an error answer the ledger's job is closed as failed, the task of
the second submission can no longer be settled, and its record is deferred for ever. `DueItemEnds` counts a dead letter as an
end, also one whose attempts were used up by crashes. `ScheduleKept` compares the schedule with the
moment the run looks at it: a payment may end the lateness as well.

### Disagreements between code and documentation

Two runs are expected to fail; the finding in `PROJECT.json` quotes the line each contradicts.

* `paid_stalled`: the stalled-work sweep gives the credits back fifteen minutes after the reservation, while the
  card that promises them may be answered for two days (`PendingHoldIsKept`).
* `plan_deferred`: a renewal delivered before its month begins is deferred in Core and completed
  everywhere else; its period is never booked (`DeferralIsRetried`).

Further configurations reproduce a disagreement without being listed as runs:

| Configuration | Property | What happens |
|---|---|---|
| `CreditLedgerExpiry` | lots of an expired subscription stay empty | `expireSubscriptionLots` skips lots with nothing remaining, so a fully consumed lot gets no EXPIRE row and a later refund makes its credits spendable again |
| `WorkSettlementRounding` | a commit settles | a proration that rounds the charge to nothing leaves the usage `refunded`, which the commit path refuses on every attempt, before the ledger is credited |
| `WorkSettlementReplay` | a compensation row completes | a queued replay of a receipt already written conflicts with it, because the fingerprint covers the attempts counter; the Work is settled through its queue, the row is retried for ever |
| `WorkSettlementOrphan` | charge is price of delivery | a recovered workflow's row has no partial delivery, so the merchant pays in full |
| `WorkSettlementTrusted` | the Work settles | a package with a note, whose receipt always carries trusted usage, is never materialized |
| `WorkSettlementTold`, `WorkSettlementCancelled` | told only when back | "refunded" is read from the usage, one transaction before the ledger is credited, or after a posting that failed |
| `HeldReservationUnswept` | a swept hold ends | the sweeper's retry conflicts with its own receipt after a failure past the refund; without a timer the workflow waits for ever |
| `HeldReservationReleased` | released never resumes | an answer recorded before the release is sent after it |
| `HeldReservationTwice` | one Work | after such a resume the sweep completes all the same; the answer, repeated, counts as late and starts a successor beside the workflow that went on |
| `PaidStartOutput` | repriced before output | a workflow recovered at its gate meets today's price after the provider has executed |
| `MediaJobHidden` | retry only what was certainly not taken (`NoBlindRetry`; `src/docs/specs/beauty-content-agent-p1-spec.md`, 220) | a 408 or 5xx answer counts as a rejection before acceptance (`ark-media-adapter.ts`, 155 and 417), and the request is submitted again although a gateway may have passed it on |
| `MediaJobRecovered` | a recovered receipt is used (`RecoveredIsUsed`; `media-generation-workflow.test.ts`, 1281) | a worker dies after the acceptance was settled and before it was recorded; recovery finds the receipt, but its own settlement is refused as a second `unknown` (`foundation/application-service.ts`, 1428), and the task is never polled; the test has a fake ledger that accepts it |
| `DueDeliveryShown` | today's recommendation stays | yesterday's item, settled after today's, hides it from the dashboard |

Seen while modelling payments, without a configuration: the fence drops a paid renewal that is
delivered after a later event of its subscription, so its month is never booked, although Core's own
tests book renewals in any order (`credit-billing-service.test.ts`, 1125, against
`plan-checkout-bindings.postgres.test.ts`, 592); an activation retried after a later event no longer
asks the provider to end what it replaced; an `expire` for the latest paid period is ignored;
`uncancel` clears every scheduled change and `past_due`; a scheduler run that listed its rows before
an upgrade grants the old cycle after the old lots were cleared, so for a while two lots cover
the same days (why `LotsArePaid` counts instead); events of one subscription that change its
tier in place do not commute.

The passing runs therefore say what they assume. `single` and `package` use prices
that do not round to nothing and outcomes without trusted usage; `package` has no orphan
recovery, and `single` only whole deliveries; `ToldOnlyWhenBack` holds for a single
carrier that fails or delivers; the held runs have a timer and untyped questions;
`AcknowledgedIsSettled` exempts overtaken deliveries and periods that have not begun.

## 4. Proofs

Seven modules prove theorems about one component each, and `Sums` has the lemmas they share. TLAPS checks
all of them in full; the constants are arbitrary within the named assumptions. Every component with actions
has its type correctness proved, and every safety invariant of a passing run is a theorem (`OneWork` up to the first sweep); types are therefore
not part of most runs. Where a theorem has a hypothesis, the same hypothesis limits the run, and section 3 or the
paragraph below says what goes wrong without it.

*Ledger* (`LedgerAssumption`: finitely many lots with numbers as ids, bounds that are naturals,
well-typed grant requests). The invariant is

    TypeOK /\ HeldAdditive /\ LotConservation /\ RefundWithinUsage
           /\ ExpiredLotStaysEmpty /\ ExpireRowsCarryCredits

Conservation alone is not inductive. A refund clamps with `LEAST(original, remaining + credits)`, and
conservation survives only if the clamp never bites, that is, if the lot is short of at least what
is refunded; `HeldAdditive` (what a set of operations holds is what one of them holds and
what the others hold) with `RefundWithinUsage` gives that. An expired lot stays empty because a
refund looks for the EXPIRE row, and the row exists whenever credits expired
(`ExpireRowsCarryCredits`). Proved: `LedgerTypeCorrect`, `LedgerConservesCredits`,
`LedgerRefundsWithinUsage`, `LedgerExpiredLotStaysEmpty`.

That a repeated refund changes nothing (`RefundsRepeatSafely`) takes a second invariant, `RetryInv`: lots that
were used exist, only allowed amounts are acknowledged, and the last acknowledged amount is *posted*, that is, some plan
of that amount has all its rows on record. Plans are greedy, so two plans of one amount are equal
(`PlansAreUnique`); a posted plan stays a plan after any other operation (`PlanStays`), because lots keep their dates
and a row once refunded counts in full. Hence the retry finds the plan it wrote. `LedgerIsAnAccount` is the
refinement of `UsageAccount`, where the abstract sums are sums over lots. `LedgerBalanceAddsUp` splits the
sum of what remains into available and overdue, and the sum of what was granted by
`LotConservation`; it also shows that `held` is the sum it stands for.

`LedgerLoopsFindPlans` is about the loops row by row. After the rows of a prefix the allocation loop has handed out
what is missing from its remainder, greedily (`AllocationIsPlan`); conversely, if there is a plan, then after every prefix
the loop has taken what the plan takes (`PlanIsAllocated`): a row that gives less than it could is the last row of the
plan that gives anything. The refund loop is the same with a remainder that can turn
negative, since rows that were refunded before count in full; it then refuses the next fresh row, and the theorem
says that it fails exactly when no plan exists.

*Settlement* (`SettlementAssumption`: non-empty finite set of carriers, kinds of executions disjoint,
outcomes within the contract). The invariant
adds three facts to the properties: `Stages`, what an execution has seen by the step it has
come to; `PaidOrNot`, the ledger holds nothing or the refund decided; `UnitsBounded`. The argument:
the usage is decided only while reserved; an execution reaches `markWorkSettled` only through a
`reconcileRefund` that posted the amount, and neither changes afterwards; a Work becomes
ready once, since receipts are complete once, so its queue row is new. Proved:
`SettlementTypeCorrect`, `SettledWorkIsPaidOut`, `ReadyWorkIsQueued`, `ClaimsReleasedByOwner`
(an action property) and `SettlementKeepsPromise` (every step is `Decide`, `Pay`, `Close` or a
stutter of `WorkOutcome`). `RefundsArePartOfPrice` shows that prorated refunds add up to a natural number
not above the price.

What the Work is charged needs to know where every row came from. `Provenance` says that a carrier ends
once, that compensation rows and receipts tell how it ended, that the Work is the reduction of its receipts, and that the
usage is settled by that reduction. `ChargesMatchDelivery` follows for every state in which no orphan was
recovered; with `recoverOrphans` it is false (`WorkSettlementOrphan`). `RefundsToldWhenBack` assumes
`PlainWork`: one carrier, no cancellation, and a refund that returns something. Without these it
is false (`WorkSettlementTold`, `WorkSettlementCancelled`).

*Held reservation* (`HeldAssumption`: the kinds of executions are disjoint, a typed interaction has no
timer). That the question is resolved once is not inductive: one needs that a pending question has no
decision and no expiry on record (`PendingIsUnrecorded`). That the workflow ends as recorded needs that
whatever is being dispatched, and whatever lies in the mailbox, is on record (`DeliveryIsRecorded`,
`MailIsRecorded`). That a completed sweep is over needs what a sweeper knows by the step it has come
to (`SweepIsBacked`): its refund is done before the hold is expired, and the expiry before
completion. Proved: `TypeCorrect`, `ResolvedOnce`, `WakesAsRecorded`, `CompletedSweepIsOver`, all from
`HeldInvariant`. `OneWork` rests on what a request read before it recorded its answer: it
takes an answer for late only after the hold has expired, and without a sweep only the
timer expires it. `OneWorkUntilSwept` proves it up to the first claim of a sweep; once a sweep runs beside an
answer it is false in general (`HeldReservationTwice`).

*Paid start* (`StartAssumption`). The invariant is `TypeOK`, with `RowsOK` (which combinations of
request, dispatch, credits, lease and workflow one attempt can show), `ChainOK` (a successor exists only
after its predecessor has returned its credits; attempts exist in a row) and `StartersOK` (what an
execution knows about the attempt it starts). Proved: `StartTypeCorrect`, `ChainHoldsOnce`
(`OneLiveHold`), `ExpiryStopsStart` (`ExpiredNeverStarts`) and the action property `OutputPaid`
(`OutputIsPaid`), all from `StartInvariant`, for chains of any length and any number of executions.

*Media job* (`JobAssumption`). `TaskInv` is about the provider's side. `Followed` is the number of tasks that are not
hidden behind an error answer. The submission is in one worker's hands at most, leaves the queue when a worker
takes it, and nobody has it once there is a task to follow (`OneSubmission`); whoever has a reference has it
from that task (`RefsOK`); the other parts say what a cancelled, a finished and an
acknowledged job have seen. `ProviderWorksOnce` and `CancellationsAreQuiet` follow. `LedgerInv` adds that what a worker is about to
record was settled (`LedgerOK`): a closed job of the ledger never changes (`LedgerStays`), so it is still so
when the record is written, however late. Only a job that nobody has tried is cancelled without a settlement, and then
no other worker can touch the ledger. `ResultsAreTrue` follows. The theorems assume nothing about error answers.
`JobsAreCarried` needs `CarrierInv`: an open record has a transport that is ready or in a worker's hands (`HeadCarries`,
`HandoverOK`). A transport dies only when its retries are used up, and every retry, used or still owed by a worker that
has thrown, had a fault of its own (`RetriesPaid`), so the hypothesis `MaxFaults <= RetryLimit` rules that out;
with more faults an operator's redrive has to carry the job on.

*Due delivery* (`DueAssumption`). The invariant says what a claim is worth (`AttemptsOK`, `ClaimsOK`), that items are
enqueued no further than tomorrow and tomorrow's only by the settlement of today's (`DatesOK`), that the latest daily item
is open (`HeadIsOpen`), that a claim is at most one midnight old (`ClaimsInTime`), and that an effect is sent only by
the claim that holds it (`EffectOK`). Proved: `DueTypeCorrect`, `RecallIsSentOnce`, `RunsTellOutcomes`,
`RecommendationsInTime`, `ChainIsUnbroken`, and the action property `SettlementsAreFinal`.

*Plan payment* (`BookAssumption`, `PaymentAssumption`, and as hypothesis of the theorems that every history is
`Orderly`: deliveries of one event agree, no event is sent before its period begins, the fence can tell the events of a
subscription apart, and each is activated once). The first invariant follows a delivery: what a worker has seen by the
step it has come to, what a command is worth, what the fence stands for, and that nothing paid leaves the books.
`AcknowledgementsAreSettled` follows. An early event is what `plan_deferred` shows
to be lost, so the hypothesis excludes a case in which the property fails.

`CreditsArePaidFor` counts. `GrantInv` adds that the books are sound, that every lot is of a distinct cycle
that a period of its subscription covers, that rows the scheduler listed earlier cover no more than today's rows do, and that the
covered cycles are not more than the paid ones. Each operation of the store is shown to carry covered cycles
on, and to add at most as many as were paid for (the `Carries` lemmas). Only `commitPayment` of a fresh event
adds any, and it adds its event to the receipts in the same step.

*Sums.* The prover cannot use the library's induction theorems, whose hypothesis is an operator. `Sums` takes the
well-foundedness of the strict subset order on the subsets of a finite set, which the library states for sets, and
derives induction for a *set* of subsets (`Least`, `SetInduction`). The sum of the community modules is a recursive
function on subsets; that it exists is proved by that induction (`SumExists`), and then what is needed of it:
one element more, monotony, sums of sums, tables by rows and columns. The same is done for the folds that stand for loops
(`RunExists`, `RunTyped`).

Only model-checked: liveness everywhere, since the prover has neither fairness nor `ENABLED`; `OneWork` beside a
sweep, and `ChargeMatchesDelivery` and `ToldOnlyWhenBack` outside the hypotheses above, are not even true.

## 5. Not modelled, and the plan

Modelled in part, and what is missing:

* Workflow: the stages of the DBOS workflow decide how a carrier ends, which is an input here. Media
  admission and steering are not modelled.
* Questions: typed rejections without feedback, `ask_merchant` questions with typed answers, questions
  that continue unattended (`core_timeout`), the interrupt projection, and dead letters for identities that do not match.
* Submissions: preparation before the confirmation, and the reconciliation of refunds that
  were decided without a decision.
* Media: the chain of candidates and resuming a failed job, the claim lease of merchant executions
  (`product-billing/durable-service.ts`, 440-1005), admission to the supply pool, unroutable notifications, late reconciliation of
  cancelled jobs. A replayed receipt of an accepted task cannot be
  reached by one job and is left out.
* Payments: Stripe, credit packages, refunds, the status of checkout bindings, `reconcile` (it only raises
  alerts), and the `resume` lifecycle, which no caller sends.
* Hazards seen and not watched: usage rows beyond ten lots (above); the skew between the process's
  clock and the database's at the expiry of the outbox; an error that aborts a batch of
  `carrier-settlement-worker.ts` (line 53), which equals a crash of the rest; an unforced refund of a
  package with mixed failure policies, which no caller that was found asks for.

Next, in this order: the refinement of an abstract chain of paid starts by `PaidStart`, so that the
settlement modules can name what they are handed; the claim lease of merchant executions, with the
theorem that one provider submission is charged once; and the snapshot and replay of semantic
events against the live hub.

Left out for good: user interface, administration and evaluation tools, reporting, the adapters of
text models and image tools (their results are inputs), and the unit-era ledger that credits
replaced. Entitlement pools and the fair queue decide when supply is used, not who pays for it.
