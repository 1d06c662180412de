--------------------------- MODULE WorkSettlement ---------------------------
(***************************************************************************)
(* How one paid Work is settled.  A Work is made by one workflow per       *)
(* carrier (note, copy, video...).  A workflow that ends leaves a          *)
(* compensation row, then a carrier receipt; the last receipt makes the    *)
(* Work ready and queues it.  Whoever finds the Work ready settles it: the *)
(* workflow itself, a compensation worker repeating its row, or a worker   *)
(* on the queue of ready Works.  Settling is three transactions (product   *)
(* usage, credit ledger, the Work's own row), and any of these executions  *)
(* can fail or die between them.                                           *)
(*                                                                         *)
(* One step is one transaction.  A step that throws has rolled back, and   *)
(* takes its caller to that caller's catch block.                          *)
(***************************************************************************)
EXTENDS Integers, FiniteSets, FiniteSetsExt

CONSTANTS
  Carriers,       \* carrierUnitIds frozen at admission; also names their workflows
  CompWorkers,    \* executions of HarnessBillingCompensationWorker
  OutboxWorkers,  \* executions of HarnessCarrierSettlementWorker
  Price,          \* creditCost of a carrier's allocation
  MaxUnits,       \* bound of the units of an allocation
  Units,          \* deliveryUnits of a carrier's allocation
  Refundable,     \* failureRefundsCredits of a carrier's allocation
  Outcomes,       \* how a carrier's workflow may end
  MaxFaults,      \* bound: failed transactions, dead processes, overtaken leases
  MaxOrphans      \* bound: rows made by recoverOrphans

Actors == Carriers \cup CompWorkers \cup OutboxWorkers

\* The settlement input of a workflow that ended: delivered units (of a commit),
\* forceCreditRefund (of a refund), whether it carries trustedUsage; and whether the
\* workflow was cancelled (its hold expired), which no transaction reads.
Outcome == [action : {"commit", "refund"}, delivered : Nat, force : BOOLEAN, trusted : BOOLEAN,
            cancelled : BOOLEAN]
Unknown == [action |-> "none", delivered |-> 0, force |-> FALSE, trusted |-> FALSE,
            cancelled |-> FALSE]

ASSUME SettlementAssumption ==
  /\ Carriers # {} /\ IsFiniteSet(Carriers)
  /\ Carriers \cap CompWorkers = {} /\ Carriers \cap OutboxWorkers = {}
  /\ CompWorkers \cap OutboxWorkers = {}
  /\ MaxUnits \in Nat /\ Units \in [Carriers -> 1..MaxUnits]
  /\ Price \in [Carriers -> Nat \ {0}]
  /\ Refundable \in [Carriers -> BOOLEAN]
  /\ Outcomes \in [Carriers -> SUBSET Outcome]
  /\ \A c \in Carriers : \A o \in Outcomes[c] :
       /\ o.delivered <= Units[c]
       /\ o.action = "refund" => o.delivered = 0
       /\ o.cancelled => o.action = "refund" /\ o.force
  /\ MaxFaults \in Nat /\ MaxOrphans \in Nat

VARIABLES
  outcome,    \* how a carrier's workflow ended, Unknown while it runs
  comp,       \* billing_compensations, one row per carrier
  receipts,   \* billing_carrier_receipts: settlement, and who wrote the fingerprint
  work,       \* billing_work_settlements: status and the ready payload
  outbox,     \* billing_work_settlement_outbox: status, claim, lease
  usage,      \* the product usage of the Work's billing task
  credited,   \* credits the ledger has posted back for the Work's operation
  pc,         \* what each execution does next
  task,       \* the row a compensation worker claimed
  scheduled,  \* a workflow's local flag: its compensation row is known to exist
  told,       \* what a refunded workflow tells the merchant about the credits
  faults, orphans

vars == <<outcome, comp, receipts, work, outbox, usage, credited, pc, task, scheduled, told,
          faults, orphans>>

Phases == {"idle", "enqueue", "record", "settleTask", "reconcileRefund", "markWorkSettled",
           "getUsage", "complete", "failed", "reschedule", "cancelled", "done"}

NoReceipt == [settlement |-> Unknown, by |-> "none"]
NoRow == [status |-> "none", settlement |-> Unknown, stale |-> FALSE]

Multi == Cardinality(Carriers) > 1

-----------------------------------------------------------------------------
(* What a Work costs *)

\* Math.round of a quotient of naturals.
Round(n, d) == (2 * n + d) \div (2 * d)

\* refundCredits of one allocation.
computePartialCreditSettlement(c, delivered) ==
  IF delivered < Units[c] /\ Refundable[c]
  THEN Price[c] - Round(Price[c] * delivered, Units[c]) ELSE 0

\* refundCredits of the quote, allocation by allocation.
computePackagePartialCreditSettlement(delivered) ==
  SumFunction([c \in Carriers |-> computePartialCreditSettlement(c, delivered[c])])

Reserved == SumFunction(Price)

NoneDelivered == [c \in Carriers |-> 0]

\* Usage of the task once refundCredits of its reserved credits go back.
settleUsage(refundCredits) ==
  [status |-> IF refundCredits = 0 THEN "committed"
              ELSE IF refundCredits = Reserved THEN "refunded" ELSE "partially_refunded",
   refunded |-> refundCredits]

\* The usage ledger's refund: nothing remains charged.
refundUsage == [status |-> "refunded", refunded |-> Reserved]

\* Usage of a credit-era quote settled for what each allocation delivered.
settleQuote(delivered) == settleUsage(computePackagePartialCreditSettlement(delivered))

\* failAndRefund: a forced refund gives everything back, else the failure policy
\* frozen with each allocation decides.
failAndRefund(force) ==
  IF force THEN refundUsage ELSE settleQuote(NoneDelivered)

\* Whether the usage shows value returned to the merchant.
productUsageRefundLanded == usage.status = "refunded" \/ usage.refunded > 0

\* Every amount a settlement of this Work can refund.
Refunds ==
  {computePackagePartialCreditSettlement(d) : d \in [Carriers -> 0..MaxUnits]} \cup {Reserved}

-----------------------------------------------------------------------------
(* Receipts *)

\* Mutant: one delivered total for the whole package.
reduceToTotal(rs) ==
  LET total == SumFunction([c \in Carriers |-> rs[c].settlement.delivered]) IN
  [status |-> "ready", action |-> IF total > 0 THEN "commit" ELSE "refund",
   delivered |-> [c \in Carriers |-> total],
   force |-> \E c \in Carriers : rs[c].settlement.force]

\* reduceCarrierReceiptsForWork.  One carrier: its receipt.  A package: delivered
\* units per allocation, a commit if anything was delivered.
reduceCarrierReceiptsForWork(rs) ==
  LET delivered == [c \in Carriers |-> rs[c].settlement.delivered]
      only == CHOOSE c \in Carriers : TRUE
      action == IF ~Multi THEN rs[only].settlement.action
                ELSE IF \E c \in Carriers : delivered[c] > 0 THEN "commit" ELSE "refund"
  IN [status |-> "ready", action |-> action, delivered |-> delivered,
      force |-> action = "refund" /\ \E c \in Carriers : rs[c].settlement.force]

\* The reducer refuses trusted usage from more than one carrier.
Reducible(rs) == Multi => \A c \in Carriers : ~rs[c].settlement.trusted

\* A replay must carry the stored fingerprint.  It is a hash of the whole input; a
\* claimed row's input holds the attempts counter, which every claim increments, so
\* only a workflow repeating its own step can match.
SameFingerprint(receipt, settlement, by) ==
  receipt = [settlement |-> settlement, by |-> by] /\ by = "direct"

-----------------------------------------------------------------------------
(* Where an execution goes next *)

\* The input an execution settles with: the workflow's own, or its row's payload.
Settlement(a) == IF a \in Carriers THEN outcome[a] ELSE comp[task[a]].settlement
CarrierOf(a) == IF a \in Carriers THEN a ELSE task[a]

\* The refund is over for the workflow; a cancelled one without a refund to report
\* looks at the usage once more.
Ended(c) == IF outcome[c].cancelled /\ told[c] # "refunded" THEN "cancelled" ELSE "done"

\* Its billing call returned.
Returned(a) ==
  CASE a \in Carriers -> IF outcome[a].action = "refund" THEN "getUsage" ELSE "complete"
    [] a \in CompWorkers -> "complete"
    [] a \in OutboxWorkers -> "idle"

\* Mutant: a swallowed error still answers the merchant.
ThrownAnswers(a) ==
  CASE a \in Carriers -> IF outcome[a].action = "refund" THEN "getUsage" ELSE "done"
    [] OTHER -> "failed"

\* Mutant: a swallowed error still acknowledges the Work.
ThrownMarks(a) ==
  CASE a \in Carriers -> IF work.status = "ready" THEN "markWorkSettled" ELSE "done"
    [] OTHER -> "failed"

\* Its billing call threw.  A workflow swallows the error if its row exists.
Thrown(a) ==
  CASE a \in Carriers -> IF scheduled[a] THEN Ended(a) ELSE "reschedule"
    [] OTHER -> "failed"

Goto(a, phase) == pc' = [pc EXCEPT ![a] = phase]

-----------------------------------------------------------------------------
(* A workflow ends: commitHarnessBillingOrSchedule and                       *)
(* refundHarnessBillingPreservingFailure                                     *)

finish(c, o) ==
  /\ pc[c] = "idle"
  /\ outcome' = [outcome EXCEPT ![c] = o]
  /\ Goto(c, "enqueue")
  /\ UNCHANGED <<comp, receipts, work, outbox, usage, credited, task, scheduled, told, faults,
                 orphans>>

\* The row of enqueue: inserted once, an existing one is kept as it is.
Enqueued(c) ==
  IF comp[c].status = "none"
  THEN [comp EXCEPT ![c] = [status |-> "pending", settlement |-> outcome[c], stale |-> FALSE]]
  ELSE comp

\* The fence: a row with the opposite action makes enqueue throw, and that error is
\* not swallowed.
Opposite(c) == comp[c].status # "none" /\ comp[c].settlement.action # outcome[c].action

scheduleCompensation(c) ==
  /\ pc[c] \in {"enqueue", "reschedule"}
  /\ comp' = Enqueued(c)
  /\ scheduled' = [scheduled EXCEPT ![c] = ~Opposite(c)]
  /\ Goto(c, IF Opposite(c) THEN "done" ELSE IF pc[c] = "enqueue" THEN "record" ELSE Ended(c))
  /\ UNCHANGED <<outcome, receipts, work, outbox, usage, credited, task, told, faults, orphans>>

\* What the refund path answers: read from the usage when other carriers may
\* settle the Work, else from the refund that just returned.
getUsage(c) ==
  /\ pc[c] = "getUsage"
  /\ told' = [told EXCEPT ![c] =
       IF ~Multi \/ productUsageRefundLanded THEN "refunded" ELSE "pending"]
  /\ Goto(c, "complete")
  /\ UNCHANGED <<outcome, comp, receipts, work, outbox, usage, credited, task, scheduled, faults,
                 orphans>>

\* markCompleted: by action and fence key only, whoever holds the row.
markCompleted(a) ==
  /\ pc[a] = "complete"
  /\ comp' = IF a \in Carriers /\ ~scheduled[a] THEN comp
             ELSE [comp EXCEPT ![CarrierOf(a)].status = "completed", ![CarrierOf(a)].stale = FALSE]
  /\ Goto(a, IF a \in Carriers THEN Ended(a) ELSE "idle")
  /\ UNCHANGED <<outcome, receipts, work, outbox, usage, credited, task, scheduled, told, faults,
                 orphans>>

\* settleHarnessCancellation: what the merchant is told when the refund was left to
\* somebody else, who may have settled the usage by now.
settleHarnessCancellation(c) ==
  /\ pc[c] = "cancelled"
  /\ told' = [told EXCEPT ![c] = IF productUsageRefundLanded THEN "refunded" ELSE "pending"]
  /\ Goto(c, "done")
  /\ UNCHANGED <<outcome, comp, receipts, work, outbox, usage, credited, task, scheduled, faults,
                 orphans>>

-----------------------------------------------------------------------------
(* The billing call of a workflow or a compensation worker *)

\* Mutant: the queue row is left to somebody else.
QueuedLater(last) == outbox

\* The queue row, inserted in the transaction that makes the Work ready.
Queued(last) == IF last THEN [outbox EXCEPT !.status = "pending"] ELSE outbox

\* recordCarrierTerminal: receipt, aggregate and queue in one transaction under the
\* aggregate's advisory lock.
recordCarrierTerminal(a) ==
  LET c == CarrierOf(a)
      by == IF a \in Carriers THEN "direct" ELSE "queue"
      new == receipts[c] = NoReceipt
      rs == IF new THEN [receipts EXCEPT ![c] = [settlement |-> Settlement(a), by |-> by]]
            ELSE receipts
      conflict == ~new /\ ~SameFingerprint(receipts[c], Settlement(a), by)
      last == work.status = "collecting" /\ \A d \in Carriers : rs[d] # NoReceipt
  IN
  /\ pc[a] = "record"
  /\ IF conflict \/ (last /\ ~Reducible(rs))
     THEN /\ Goto(a, Thrown(a))
          /\ UNCHANGED <<receipts, work, outbox>>
     ELSE /\ receipts' = rs
          /\ work' = IF last THEN reduceCarrierReceiptsForWork(rs) ELSE work
          /\ outbox' = Queued(last)
          /\ Goto(a, IF work'.status = "ready" THEN "settleTask" ELSE Returned(a))
  /\ UNCHANGED <<outcome, comp, usage, credited, task, scheduled, told, faults, orphans>>

\* settleTask: one transaction on quote and usage, a no-op once they are terminal.
\* A commit without a delivered unit is refused.
settleTask(a) ==
  LET refused == work.action = "commit" /\ work.delivered = NoneDelivered IN
  /\ pc[a] = "settleTask"
  /\ usage' = IF usage.status # "reserved" \/ refused THEN usage
              ELSE IF work.action = "commit" THEN settleQuote(work.delivered)
              ELSE failAndRefund(work.force)
  /\ Goto(a, IF usage.status = "reserved" /\ refused THEN Thrown(a) ELSE "reconcileRefund")
  /\ UNCHANGED <<outcome, comp, receipts, work, outbox, credited, task, scheduled, told, faults,
                 orphans>>

\* The usage a commit or a refund of the Work must have ended in.
assertActionUsageTerminal ==
  usage.status \in IF work.action = "commit" THEN {"committed", "partially_refunded"}
                                             ELSE {"refunded", "committed"}

\* Mutant: a full refund is taken for one that was already given.
OnlyPartialOwed == usage.status = "partially_refunded"

Owed == usage.refunded > 0

\* reconcileRefund: the ledger posts usage.refundedCredits, once however often asked.
reconcileRefund(a) ==
  /\ pc[a] = "reconcileRefund"
  /\ credited' = IF assertActionUsageTerminal /\ Owed THEN usage.refunded
                 ELSE credited
  /\ Goto(a, IF assertActionUsageTerminal THEN "markWorkSettled" ELSE Thrown(a))
  /\ UNCHANGED <<outcome, comp, receipts, work, outbox, usage, task, scheduled, told, faults,
                 orphans>>

\* Mutant: the claim token is not compared.
HoldsAny(w) == outbox.status = "processing"

\* markWorkSettled: a queue worker must still hold its claim, or find the row completed.
Holds(w) == outbox.status = "processing" /\ outbox.owner = w

markWorkSettled(a) ==
  /\ pc[a] = "markWorkSettled"
  /\ IF a \in OutboxWorkers /\ ~Holds(a) /\ outbox.status # "completed"
     THEN UNCHANGED <<work, outbox>> /\ Goto(a, Thrown(a))
     ELSE /\ outbox' = [status |-> "completed", owner |-> "none", expired |-> FALSE]
          /\ work' = IF work.status = "ready" THEN [work EXCEPT !.status = "settled"] ELSE work
          /\ Goto(a, Returned(a))
  /\ UNCHANGED <<outcome, comp, receipts, usage, credited, task, scheduled, told, faults, orphans>>

-----------------------------------------------------------------------------
(* Compensation workers *)

\* A pending row that is due, or one processing for more than a minute.
claimBatch(w, c) ==
  /\ pc[w] = "idle"
  /\ comp[c].status = "pending" \/ (comp[c].status = "processing" /\ comp[c].stale)
  /\ comp' = [comp EXCEPT ![c].status = "processing", ![c].stale = FALSE]
  /\ task' = [task EXCEPT ![w] = c]
  /\ Goto(w, "record")
  /\ UNCHANGED <<outcome, receipts, work, outbox, usage, credited, scheduled, told, faults,
                 orphans>>

\* markFailed asks for no claim: it reopens the row whatever became of it.
markFailed(w) ==
  /\ pc[w] = "failed"
  /\ comp' = [comp EXCEPT ![task[w]].status = "pending", ![task[w]].stale = FALSE]
  /\ Goto(w, "idle")
  /\ UNCHANGED <<outcome, receipts, work, outbox, usage, credited, task, scheduled, told, faults,
                 orphans>>

\* A workflow known to have ended whose reservation nobody owns: its row is built
\* from the audit events, which do not tell how many units were delivered.  A failure
\* is on record once its refund is over, an expired hold before.
recoverOrphans(c) ==
  /\ orphans < MaxOrphans
  /\ usage.status = "reserved" /\ comp[c].status = "none"
  /\ outcome[c].action # "none"
  /\ outcome[c].action = "refund" => outcome[c].cancelled \/ pc[c] = "done"
  /\ comp' = [comp EXCEPT ![c] =
       [status |-> "pending", stale |-> FALSE,
        settlement |-> [outcome[c] EXCEPT !.delivered = IF outcome[c].action = "commit"
                                                        THEN Units[c] ELSE 0]]]
  /\ orphans' = orphans + 1
  /\ UNCHANGED <<outcome, receipts, work, outbox, usage, credited, pc, task, scheduled, told,
                 faults>>

-----------------------------------------------------------------------------
(* Workers on the queue of ready Works *)

\* Mutant: a claim whose lease ran out is not taken over.
PendingOnly == outbox.status = "pending"

Claimable == outbox.status = "pending" \/ (outbox.status = "processing" /\ outbox.expired)

claimReadyWorkSettlements(w) ==
  /\ pc[w] = "idle"
  /\ work.status = "ready"
  /\ Claimable
  /\ outbox' = [status |-> "processing", owner |-> w, expired |-> FALSE]
  /\ Goto(w, "settleTask")
  /\ UNCHANGED <<outcome, comp, receipts, work, usage, credited, task, scheduled, told, faults,
                 orphans>>

\* Only the claim's holder releases it; a worker that lost it gives up.
markWorkSettlementFailed(w) ==
  /\ pc[w] = "failed"
  /\ outbox' = IF Holds(w)
               THEN [status |-> "pending", owner |-> "none", expired |-> FALSE] ELSE outbox
  /\ Goto(w, "idle")
  /\ UNCHANGED <<outcome, comp, receipts, work, usage, credited, task, scheduled, told, faults,
                 orphans>>

-----------------------------------------------------------------------------
(* Time and failures *)

\* A lease that runs out although its holder is alive and slow counts as a fault.
Overtakes(slow) == faults' = IF slow THEN faults + 1 ELSE faults

\* lease_expires_at passes.
leaseExpires ==
  LET slow == pc[outbox.owner] # "idle" IN
  /\ outbox.status = "processing" /\ ~outbox.expired
  /\ slow => faults < MaxFaults
  /\ Overtakes(slow)
  /\ outbox' = [outbox EXCEPT !.expired = TRUE]
  /\ UNCHANGED <<outcome, comp, receipts, work, usage, credited, pc, task, scheduled, told,
                 orphans>>

\* A minute passes since the row was claimed.
rowTurnsStale(c) ==
  LET slow == \E w \in CompWorkers : pc[w] # "idle" /\ task[w] = c IN
  /\ comp[c].status = "processing" /\ ~comp[c].stale
  /\ slow => faults < MaxFaults
  /\ Overtakes(slow)
  /\ comp' = [comp EXCEPT ![c].stale = TRUE]
  /\ UNCHANGED <<outcome, receipts, work, outbox, usage, credited, pc, task, scheduled, told,
                 orphans>>

\* Where the error of a failed transaction is caught.
Caught(a) ==
  CASE pc[a] = "enqueue" -> IF Multi THEN "reschedule" ELSE "record"
    [] pc[a] = "cancelled" -> "done"
    [] pc[a] = "reschedule" \/ (pc[a] = "complete" /\ a \in Carriers) -> Ended(a)
    [] pc[a] = "failed" -> "idle"
    [] OTHER -> Thrown(a)

\* A transaction fails for reasons of its own (connection lost, serialization).
transactionFails(a) ==
  /\ faults < MaxFaults
  /\ pc[a] \notin {"idle", "done"}
  /\ faults' = faults + 1
  /\ Goto(a, Caught(a))
  /\ UNCHANGED <<outcome, comp, receipts, work, outbox, usage, credited, task, scheduled, told,
                 orphans>>

\* The process dies: a workflow is recovered and runs its last step again, a worker's
\* claims wait for their lease.
crash(a) ==
  /\ faults < MaxFaults
  /\ pc[a] \notin {"idle", "done"}
  /\ faults' = faults + 1
  /\ Goto(a, IF a \notin Carriers THEN "idle"
             ELSE IF pc[a] \in {"reschedule", "cancelled"} THEN pc[a] ELSE "enqueue")
  /\ scheduled' = [c \in Carriers |-> c # a /\ scheduled[c]]
  /\ told' = [c \in Carriers |-> IF c = a THEN "none" ELSE told[c]]
  /\ UNCHANGED <<outcome, comp, receipts, work, outbox, usage, credited, task, orphans>>

-----------------------------------------------------------------------------
Init ==
  /\ outcome = [c \in Carriers |-> Unknown]
  /\ comp = [c \in Carriers |-> NoRow]
  /\ receipts = [c \in Carriers |-> NoReceipt]
  /\ work = [status |-> "collecting", action |-> "none", delivered |-> NoneDelivered,
             force |-> FALSE]
  /\ outbox = [status |-> "none", owner |-> "none", expired |-> FALSE]
  /\ usage = [status |-> "reserved", refunded |-> 0]
  /\ credited = 0
  /\ pc = [a \in Actors |-> "idle"]
  /\ task = [w \in CompWorkers |-> CHOOSE c \in Carriers : TRUE]
  /\ scheduled = [c \in Carriers |-> FALSE]
  /\ told = [c \in Carriers |-> "none"]
  /\ faults = 0 /\ orphans = 0

\* The billing call, shared by everyone who settles.
Settle(a) == settleTask(a) \/ reconcileRefund(a) \/ markWorkSettled(a)

Workflow(c) ==
  scheduleCompensation(c) \/ recordCarrierTerminal(c) \/ Settle(c) \/ getUsage(c) \/ markCompleted(c)
    \/ settleHarnessCancellation(c)

Compensation(w) == recordCarrierTerminal(w) \/ Settle(w) \/ markCompleted(w) \/ markFailed(w)

Outbox(w) == Settle(w) \/ markWorkSettlementFailed(w)

Next ==
  \/ \E c \in Carriers : \E o \in Outcomes[c] : finish(c, o)
  \/ \E c \in Carriers : Workflow(c)
  \/ \E w \in CompWorkers : Compensation(w)
  \/ \E w \in CompWorkers, c \in Carriers : claimBatch(w, c)
  \/ \E w \in OutboxWorkers : claimReadyWorkSettlements(w) \/ Outbox(w)
  \/ leaseExpires
  \/ \E c \in Carriers : rowTurnsStale(c) \/ recoverOrphans(c)
  \/ \E a \in Actors : transactionFails(a) \/ crash(a)

\* Recovered workflows go on; the compensation timer runs the workers again and
\* again; a claimed batch is ordered by next_attempt_at, so no due row is passed
\* over for ever; leases run out.
Fairness ==
  /\ \A c \in Carriers : WF_vars(Workflow(c)) /\ WF_vars(rowTurnsStale(c))
  /\ \A w \in CompWorkers : WF_vars(Compensation(w))
  /\ \A w \in CompWorkers, c \in Carriers : SF_vars(claimBatch(w, c))
  /\ \A w \in OutboxWorkers : WF_vars(Outbox(w))
  /\ WF_vars(\E w \in OutboxWorkers : claimReadyWorkSettlements(w))
  /\ WF_vars(leaseExpires)

Spec == Init /\ [][Next]_vars
FairSpec == Spec /\ Fairness

-----------------------------------------------------------------------------
(* Properties *)

\* Type invariant of the settlement tables, the usage and the executions.
TypeOK ==
  /\ outcome \in [Carriers -> Outcome \cup {Unknown}]
  /\ comp \in [Carriers -> [status : {"none", "pending", "processing", "completed"},
                            settlement : Outcome \cup {Unknown}, stale : BOOLEAN]]
  /\ receipts \in [Carriers -> [settlement : Outcome \cup {Unknown},
                                by : {"none", "direct", "queue"}]]
  /\ work \in [status : {"collecting", "ready", "settled"}, action : {"none", "commit", "refund"},
               delivered : [Carriers -> 0..MaxUnits], force : BOOLEAN]
  /\ outbox \in [status : {"none", "pending", "processing", "completed"},
                 owner : OutboxWorkers \cup {"none"}, expired : BOOLEAN]
  /\ usage \in [status : {"reserved", "committed", "partially_refunded", "refunded"},
                refunded : Refunds \cup {0}]
  /\ credited \in Refunds \cup {0}
  /\ pc \in [Actors -> Phases]
  /\ task \in [CompWorkers -> Carriers]
  /\ scheduled \in [Carriers -> BOOLEAN]
  /\ told \in [Carriers -> {"none", "refunded", "pending"}]
  /\ faults \in Nat /\ orphans \in Nat

\* A Work is closed only when its usage is terminal and the ledger has posted exactly
\* the refund the usage owes, whichever execution closed it and whoever died halfway.
SettledIsPaidOut ==
  work.status = "settled" => usage.status # "reserved" /\ credited = usage.refunded

\* "A process can die immediately after commit without losing the one work-level
\* owner": the Work is ready exactly while its queue row is open, and settled exactly
\* when that row is completed.
ReadyIsQueued ==
  /\ work.status = "collecting" <=> outbox.status = "none"
  /\ work.status = "settled" <=> outbox.status = "completed"

\* What the merchant is charged is the price of what was really delivered.
ChargeMatchesDelivery ==
  LET delivered == [c \in Carriers |-> outcome[c].delivered] IN
  usage.status # "reserved" =>
    usage.refunded = IF delivered = NoneDelivered /\ \E c \in Carriers : outcome[c].force
                     THEN Reserved ELSE computePackagePartialCreditSettlement(delivered)

\* "An expired worker cannot complete a newer owner's claim": a claim is released
\* only by the execution that holds it.
OnlyOwnerReleases ==
  [][outbox.status = "processing" /\ outbox'.status = "pending" =>
       pc[outbox.owner] = "failed" /\ pc'[outbox.owner] = "idle"]_vars

\* "scheduled and unavailable both mean the credits are not back yet, the merchant
\* must not be told" they are: a workflow that says so finds them in the ledger.
ToldOnlyWhenBack ==
  \A c \in Carriers : pc[c] = "done" /\ told[c] = "refunded" => credited > 0

\* Once every carrier has left a row or a receipt, the Work is settled, however many
\* executions fail or die.
OwnedWorkSettles ==
  (\A c \in Carriers : receipts[c] # NoReceipt \/ comp[c].status # "none")
    ~> work.status = "settled"

\* "materializes exactly one Work settlement after every carrier frozen at admission
\* is terminal".
AllTerminalMaterializes ==
  (\A c \in Carriers : pc[c] = "done") ~> work.status # "collecting"

\* A direct terminal write does not conflict with its queued replay: a queued
\* compensation is worked off.
CompensationCompletes ==
  \A c \in Carriers : comp[c].status = "pending" ~> comp[c].status = "completed"

\* "return the failed page's credits": what the usage owes reaches the ledger.
RefundReachesLedger == usage.refunded > 0 ~> credited = usage.refunded

-----------------------------------------------------------------------------
(* Refinement *)

Promise == INSTANCE WorkOutcome WITH
  phase <- IF work.status = "settled" THEN "closed"
           ELSE IF usage.status = "reserved" THEN "open" ELSE "decided",
  refund <- usage.refunded,
  paid <- credited

\* However many executions settle a Work at once, together they decide its refund
\* once, pay it, and then close the Work.
ImplementsWorkOutcome == Promise!Spec
=============================================================================
