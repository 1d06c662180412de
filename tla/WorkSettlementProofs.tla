------------------------ MODULE WorkSettlementProofs ------------------------
(***************************************************************************)
(* Proofs about WorkSettlement, for any number of carriers, executions and *)
(* faults.                                                                 *)
(*                                                                         *)
(* SettledIsPaidOut is about three rows written by three transactions, and *)
(* is not inductive: it needs to know what an execution between two of     *)
(* them has already seen (Stages), that the ledger holds nothing but the   *)
(* refund decided (PaidOrNot), and that a Work which turns ready was never *)
(* queued before (ReadyIsQueued).                                          *)
(***************************************************************************)
EXTENDS WorkSettlement, Sums

\* No input, queued row or receipt tells of more units than the contract has.
UnitsBounded ==
  \A c \in Carriers :
    /\ outcome[c].delivered \in 0..MaxUnits
    /\ comp[c].settlement.delivered \in 0..MaxUnits
    /\ receipts[c].settlement.delivered \in 0..MaxUnits

\* The rows of billing_compensations and of the queue of ready Works.
CompensationRow ==
  [status : {"none", "pending", "processing", "completed"},
   settlement : Outcome \cup {Unknown}, stale : BOOLEAN]
QueueRow ==
  [status : {"none", "pending", "processing", "completed"},
   owner : OutboxWorkers \cup {"none"}, expired : BOOLEAN]

\* What an execution knows by the step it has come to.
Stages ==
  \A a \in Actors :
    /\ pc[a] \in {"settleTask", "reconcileRefund", "markWorkSettled"} =>
         work.status # "collecting"
    /\ pc[a] \in {"reconcileRefund", "markWorkSettled"} => usage.status # "reserved"
    /\ pc[a] = "markWorkSettled" => credited = usage.refunded

\* The ledger has posted nothing, or the refund the usage decided.
PaidOrNot ==
  /\ usage.status = "reserved" => usage.refunded = 0
  /\ credited \in {0, usage.refunded}

SettlementInv ==
  TypeOK /\ UnitsBounded /\ Stages /\ PaidOrNot /\ SettledIsPaidOut /\ ReadyIsQueued

-----------------------------------------------------------------------------
\* Every outcome of a workflow is within the bound of its allocation.
LEMMA OutcomesBounded ==
  ASSUME NEW c \in Carriers, NEW o \in Outcomes[c]
  PROVE  o \in Outcome /\ o.delivered \in 0..MaxUnits
BY SettlementAssumption DEF Outcome

\* The kinds of execution are disjoint parts of Actors.
LEMMA ActorKinds ==
  /\ Carriers \subseteq Actors /\ CompWorkers \subseteq Actors /\ OutboxWorkers \subseteq Actors
  /\ \A w \in CompWorkers \cup OutboxWorkers : w \notin Carriers
  /\ \A w \in OutboxWorkers : w \notin CompWorkers
BY SettlementAssumption DEF Actors

\* A quotient is below k + 1 if the dividend is below k + 1 divisors.
LEMMA QuotientBound ==
  ASSUME NEW a \in Nat, NEW b \in Nat, b > 0, NEW k \in Nat, a < b * (k + 1)
  PROVE  a \div b \in 0..k
<1>1. PICK q : q = a \div b
  OBVIOUS
<1>2. q \in Nat /\ b * q <= a
  BY <1>1
<1>3. SUFFICES ASSUME q > k PROVE FALSE
  BY <1>1, <1>2
<1>4. b * (k + 1) <= b * q
  <2>1. k + 1 <= q /\ k + 1 \in Nat
    BY <1>2, <1>3
  <2>2. QED BY <1>2, <2>1, ProductMono
<1>5. b * (k + 1) \in Nat /\ b * q \in Nat
  BY <1>2
<1>6. QED BY <1>2, <1>4, <1>5

\* Prorating a price by units delivered, rounded, never exceeds the price.
LEMMA ProrationBound ==
  ASSUME NEW p \in Nat, NEW u \in Nat, u > 0, NEW d \in 0..u
  PROVE  Round(p * d, u) \in 0..p
<1>1. p * d \in Nat /\ p * u \in Nat /\ p * d <= p * u
  BY ProductMono
<1>2. (2 * u) * (p + 1) = 2 * (p * u) + 2 * u
  OBVIOUS
<1>3. 2 * (p * d) + u < (2 * u) * (p + 1)
  BY <1>1, <1>2
<1>4. 2 * (p * d) + u \in Nat /\ 2 * u \in Nat /\ 2 * u > 0
  BY <1>1
<1>5. (2 * (p * d) + u) \div (2 * u) \in 0..p
  BY <1>3, <1>4, QuotientBound
<1>6. QED BY <1>5 DEF Round

\* The refund of one allocation is part of its price.
LEMMA AllocationRefund ==
  ASSUME NEW c \in Carriers, NEW d \in Nat
  PROVE  computePartialCreditSettlement(c, d) \in 0..Price[c]
<1>1. Units[c] \in Nat /\ Units[c] > 0 /\ Price[c] \in Nat
  BY SettlementAssumption
<1>2. CASE d < Units[c] /\ Refundable[c]
  <2>1. d \in 0..Units[c]
    BY <1>1, <1>2
  <2>2. Round(Price[c] * d, Units[c]) \in 0..Price[c]
    BY <1>1, <2>1, ProrationBound
  <2>3. Price[c] - Round(Price[c] * d, Units[c]) \in 0..Price[c]
    BY <1>1, <2>2
  <2>4. QED BY <1>2, <2>3 DEF computePartialCreditSettlement
<1>3. CASE ~(d < Units[c] /\ Refundable[c])
  BY <1>1, <1>3 DEF computePartialCreditSettlement
<1>4. QED BY <1>2, <1>3

\* Whatever was delivered, the refund of a Work is part of what was reserved.
LEMMA PackageRefund ==
  ASSUME NEW d \in [Carriers -> 0..MaxUnits]
  PROVE  computePackagePartialCreditSettlement(d) \in 0..Reserved /\ Reserved \in Nat
<1>1. PICK f : f = [c \in Carriers |-> computePartialCreditSettlement(c, d[c])]
  OBVIOUS
<1>2. IsFiniteSet(Carriers)
  BY SettlementAssumption
<1>3. \A c \in Carriers : f[c] \in Nat /\ Price[c] \in Nat /\ f[c] <= Price[c]
  <2>1. SUFFICES ASSUME NEW c \in Carriers
                 PROVE  f[c] \in Nat /\ Price[c] \in Nat /\ f[c] <= Price[c]
    OBVIOUS
  <2>2. d[c] \in Nat /\ Price[c] \in Nat
    BY SettlementAssumption
  <2>3. computePartialCreditSettlement(c, d[c]) \in 0..Price[c]
    BY <2>2, AllocationRefund
  <2>4. QED BY <1>1, <2>2, <2>3
<1>4. /\ SumFunctionOnSet(f, Carriers) \in Nat
      /\ SumFunctionOnSet(Price, Carriers) \in Nat
  BY <1>2, <1>3, SumNat
<1>5. SumFunctionOnSet(f, Carriers) <= SumFunctionOnSet(Price, Carriers)
  BY <1>2, <1>3, SumMono
<1>6. computePackagePartialCreditSettlement(d) = SumFunctionOnSet(f, Carriers)
  BY <1>1 DEF computePackagePartialCreditSettlement, SumFunction
<1>7. Reserved = SumFunctionOnSet(Price, Carriers)
  BY SettlementAssumption DEF Reserved, SumFunction
<1>8. QED BY <1>4, <1>5, <1>6, <1>7

\* Every amount a settlement can refund is part of what was reserved.
LEMMA RefundsWithinReserved ==
  Refunds \subseteq 0..Reserved /\ Refunds \subseteq Nat /\ Reserved \in Nat
<1>1. NoneDelivered \in [Carriers -> 0..MaxUnits]
  BY SettlementAssumption DEF NoneDelivered
<1>2. Reserved \in Nat
  BY <1>1, PackageRefund
<1>3. \A d \in [Carriers -> 0..MaxUnits] :
        computePackagePartialCreditSettlement(d) \in 0..Reserved
  BY PackageRefund
<1>4. ASSUME NEW r \in Refunds PROVE r \in 0..Reserved
  <2>1. \/ \E d \in [Carriers -> 0..MaxUnits] : r = computePackagePartialCreditSettlement(d)
        \/ r = Reserved
    BY DEF Refunds
  <2>2. QED BY <1>2, <1>3, <2>1
<1>5. QED BY <1>2, <1>4

\* The receipts reduce to a ready Work with bounded units per allocation.
LEMMA ReducedType ==
  ASSUME NEW rs,
         \A c \in Carriers : /\ rs[c].settlement.delivered \in 0..MaxUnits
                             /\ rs[c].settlement \in Outcome \cup {Unknown}
  PROVE  reduceCarrierReceiptsForWork(rs) \in
           [status : {"ready"}, action : {"none", "commit", "refund"},
            delivered : [Carriers -> 0..MaxUnits], force : BOOLEAN]
<1> DEFINE only == CHOOSE c \in Carriers : TRUE
<1>1. only \in Carriers
  BY SettlementAssumption
<1>2. rs[only].settlement.action \in {"none", "commit", "refund"}
  BY <1>1 DEF Outcome, Unknown
<1> QED
  BY <1>2 DEF reduceCarrierReceiptsForWork

\* What the usage becomes is a terminal status with an allowed refund.
LEMMA SettledUsageType ==
  ASSUME NEW d \in [Carriers -> 0..MaxUnits], NEW force \in BOOLEAN
  PROVE  /\ settleQuote(d) \in
              [status : {"committed", "partially_refunded", "refunded"}, refunded : Refunds]
         /\ failAndRefund(force) \in
              [status : {"committed", "partially_refunded", "refunded"}, refunded : Refunds]
<1>1. NoneDelivered \in [Carriers -> 0..MaxUnits]
  BY SettlementAssumption DEF NoneDelivered
<1>2. \A e \in [Carriers -> 0..MaxUnits] : computePackagePartialCreditSettlement(e) \in Refunds
  BY DEF Refunds
<1>3. Reserved \in Refunds
  BY DEF Refunds
<1> QED
  BY <1>1, <1>2, <1>3 DEF settleQuote, settleUsage, refundUsage, failAndRefund

\* Where an execution goes is a phase, and never into the middle of a settlement.
LEMMA PhaseTypes ==
  ASSUME NEW a \in Actors
  PROVE  /\ Returned(a) \in {"getUsage", "complete", "idle"}
         /\ Ended(a) \in {"cancelled", "done"}
         /\ Thrown(a) \in {"cancelled", "done", "reschedule", "failed"}
         /\ Caught(a) \in {"reschedule", "record", "cancelled", "done", "idle", "failed"}
<1>1. Returned(a) \in {"getUsage", "complete", "idle"}
  BY DEF Returned, Actors
<1>2. Ended(a) \in {"cancelled", "done"}
  BY DEF Ended
<1>3. Thrown(a) \in {"cancelled", "done", "reschedule", "failed"}
  BY <1>2 DEF Thrown
<1> QED
  BY <1>1, <1>2, <1>3 DEF Caught
-----------------------------------------------------------------------------
\* Every table starts empty.
LEMMA InitEstablishes == Init => SettlementInv
<1> SUFFICES ASSUME Init PROVE SettlementInv
  OBVIOUS
<1>1. TypeOK
  <2>1. NoneDelivered \in [Carriers -> 0..MaxUnits]
    BY SettlementAssumption DEF NoneDelivered
  <2>2. (CHOOSE c \in Carriers : TRUE) \in Carriers
    BY SettlementAssumption
  <2> QED
    BY <2>1, <2>2 DEF Init, TypeOK, NoRow, NoReceipt, Phases
<1>2. UnitsBounded
  BY SettlementAssumption DEF Init, UnitsBounded, Unknown, NoRow, NoReceipt
<1>3. Stages /\ PaidOrNot /\ SettledIsPaidOut /\ ReadyIsQueued
  BY DEF Init, Stages, PaidOrNot, SettledIsPaidOut, ReadyIsQueued
<1> QED
  BY <1>1, <1>2, <1>3 DEF SettlementInv

\* The input of a workflow or of a claimed row is well formed.
LEMMA SettlementType ==
  ASSUME SettlementInv, NEW a \in Carriers \cup CompWorkers
  PROVE  /\ CarrierOf(a) \in Carriers
         /\ Settlement(a) \in Outcome \cup {Unknown}
         /\ Settlement(a).delivered \in 0..MaxUnits
BY DEF SettlementInv, TypeOK, UnitsBounded, CarrierOf, Settlement

\* The two tables whose rows change hands.
LEMMA SharedRows ==
  ASSUME SettlementInv
  PROVE  comp \in [Carriers -> CompensationRow] /\ outbox \in QueueRow
BY DEF SettlementInv, TypeOK, CompensationRow, QueueRow

-----------------------------------------------------------------------------
\* Steps of a workflow that touch neither receipts, Work nor usage.
LEMMA StepFinish ==
  ASSUME SettlementInv, NEW c \in Carriers, NEW o \in Outcomes[c], finish(c, o)
  PROVE  SettlementInv'
<1> USE ActorKinds DEF finish, Goto
<1>1. TypeOK'
  BY OutcomesBounded DEF SettlementInv, TypeOK, Phases
<1>2. UnitsBounded'
  BY OutcomesBounded DEF SettlementInv, TypeOK, UnitsBounded
<1>3. Stages'
  BY DEF SettlementInv, TypeOK, Stages
<1>4. PaidOrNot' /\ SettledIsPaidOut' /\ ReadyIsQueued'
  BY DEF SettlementInv, PaidOrNot, SettledIsPaidOut, ReadyIsQueued
<1> QED
  BY <1>1, <1>2, <1>3, <1>4 DEF SettlementInv

\* Scheduling a compensation keeps the invariant.
LEMMA StepSchedule ==
  ASSUME SettlementInv, NEW c \in Carriers, scheduleCompensation(c)
  PROVE  SettlementInv'
<1> USE ActorKinds, PhaseTypes DEF scheduleCompensation, Goto
<1>1. TypeOK'
  BY DEF SettlementInv, TypeOK, Phases, Enqueued, Opposite
<1>2. UnitsBounded'
  BY DEF SettlementInv, TypeOK, UnitsBounded, Enqueued
<1>3. Stages'
  BY DEF SettlementInv, TypeOK, Stages
<1>4. PaidOrNot' /\ SettledIsPaidOut' /\ ReadyIsQueued'
  BY DEF SettlementInv, PaidOrNot, SettledIsPaidOut, ReadyIsQueued
<1> QED
  BY <1>1, <1>2, <1>3, <1>4 DEF SettlementInv

\* Reading the usage keeps the invariant.
LEMMA StepGetUsage ==
  ASSUME SettlementInv, NEW c \in Carriers, getUsage(c)
  PROVE  SettlementInv'
<1> USE ActorKinds DEF getUsage, Goto
<1>1. TypeOK'
  BY DEF SettlementInv, TypeOK, Phases
<1>2. UnitsBounded'
  BY DEF SettlementInv, UnitsBounded
<1>3. Stages'
  BY DEF SettlementInv, TypeOK, Stages
<1>4. PaidOrNot' /\ SettledIsPaidOut' /\ ReadyIsQueued'
  BY DEF SettlementInv, PaidOrNot, SettledIsPaidOut, ReadyIsQueued
<1> QED
  BY <1>1, <1>2, <1>3, <1>4 DEF SettlementInv

\* The end of a cancelled workflow keeps the invariant.
LEMMA StepCancellation ==
  ASSUME SettlementInv, NEW c \in Carriers, settleHarnessCancellation(c)
  PROVE  SettlementInv'
<1> USE ActorKinds DEF settleHarnessCancellation, Goto
<1>1. TypeOK'
  BY DEF SettlementInv, TypeOK, Phases
<1>2. UnitsBounded'
  BY DEF SettlementInv, UnitsBounded
<1>3. Stages'
  BY DEF SettlementInv, TypeOK, Stages
<1>4. PaidOrNot' /\ SettledIsPaidOut' /\ ReadyIsQueued'
  BY DEF SettlementInv, PaidOrNot, SettledIsPaidOut, ReadyIsQueued
<1> QED
  BY <1>1, <1>2, <1>3, <1>4 DEF SettlementInv

\* Completing a compensation row keeps the invariant.
LEMMA StepMarkCompleted ==
  ASSUME SettlementInv, NEW a \in Carriers \cup CompWorkers, markCompleted(a)
  PROVE  SettlementInv'
<1> USE ActorKinds, PhaseTypes DEF markCompleted, Goto
<1>0. CarrierOf(a) \in Carriers
  BY SettlementType
<1>1. TypeOK'
  <2>1. comp' \in [Carriers -> CompensationRow]
    BY <1>0, SharedRows DEF CompensationRow
  <2>2. pc' \in [Actors -> Phases]
    BY DEF SettlementInv, TypeOK, Phases
  <2> QED
    BY <2>1, <2>2 DEF SettlementInv, TypeOK, CompensationRow
<1>2. UnitsBounded'
  BY <1>0 DEF SettlementInv, TypeOK, UnitsBounded
<1>3. Stages'
  BY DEF SettlementInv, TypeOK, Stages
<1>4. PaidOrNot' /\ SettledIsPaidOut' /\ ReadyIsQueued'
  BY DEF SettlementInv, PaidOrNot, SettledIsPaidOut, ReadyIsQueued
<1> QED
  BY <1>1, <1>2, <1>3, <1>4 DEF SettlementInv

-----------------------------------------------------------------------------
\* Receipts: the step that makes the Work ready queues it.
LEMMA StepRecord ==
  ASSUME SettlementInv, NEW a \in Carriers \cup CompWorkers, recordCarrierTerminal(a)
  PROVE  SettlementInv'
<1> USE ActorKinds
<1> DEFINE c == CarrierOf(a)
           by == IF a \in Carriers THEN "direct" ELSE "queue"
           new == receipts[c] = NoReceipt
           rs == IF new THEN [receipts EXCEPT ![c] = [settlement |-> Settlement(a), by |-> by]]
                 ELSE receipts
           last == work.status = "collecting" /\ \A d \in Carriers : rs[d] # NoReceipt
<1>0. /\ c \in Carriers /\ a \in Actors
      /\ Settlement(a) \in Outcome \cup {Unknown}
      /\ Settlement(a).delivered \in 0..MaxUnits
  BY SettlementType
<1>1. /\ rs \in [Carriers -> [settlement : Outcome \cup {Unknown},
                              by : {"none", "direct", "queue"}]]
      /\ \A d \in Carriers : rs[d].settlement.delivered \in 0..MaxUnits
  BY <1>0 DEF SettlementInv, TypeOK, UnitsBounded
<1>2. CASE UNCHANGED <<receipts, work, outbox>> /\ Goto(a, Thrown(a))
  <2>1. TypeOK'
    BY <1>0, <1>2, PhaseTypes DEF SettlementInv, TypeOK, recordCarrierTerminal, Goto, Phases
  <2>2. UnitsBounded'
    BY <1>2 DEF SettlementInv, UnitsBounded, recordCarrierTerminal
  <2>3. Stages'
    BY <1>0, <1>2, PhaseTypes DEF SettlementInv, TypeOK, Stages, recordCarrierTerminal, Goto
  <2>4. PaidOrNot' /\ SettledIsPaidOut' /\ ReadyIsQueued'
    BY <1>2 DEF SettlementInv, PaidOrNot, SettledIsPaidOut, ReadyIsQueued, recordCarrierTerminal
  <2> QED
    BY <2>1, <2>2, <2>3, <2>4 DEF SettlementInv
<1>3. CASE /\ receipts' = rs
           /\ work' = IF last THEN reduceCarrierReceiptsForWork(rs) ELSE work
           /\ outbox' = Queued(last)
           /\ Goto(a, IF work'.status = "ready" THEN "settleTask" ELSE Returned(a))
  <2> HIDE DEF rs
  <2>1. reduceCarrierReceiptsForWork(rs) \in
          [status : {"ready"}, action : {"none", "commit", "refund"},
           delivered : [Carriers -> 0..MaxUnits], force : BOOLEAN]
    BY <1>1, ReducedType
  <2>2. /\ UNCHANGED <<outcome, comp, usage, credited, task, scheduled, told, faults, orphans>>
        /\ work'.status = IF last THEN "ready" ELSE work.status
    BY <1>3, <2>1 DEF recordCarrierTerminal
  <2>3. work' \in [status : {"collecting", "ready", "settled"},
                   action : {"none", "commit", "refund"},
                   delivered : [Carriers -> 0..MaxUnits], force : BOOLEAN]
    BY <1>3, <2>1 DEF SettlementInv, TypeOK
  <2>4. pc' \in [Actors -> Phases]
    BY <1>0, <1>3, PhaseTypes DEF SettlementInv, TypeOK, Goto, Phases
  <2>5. TypeOK'
    BY <1>1, <1>3, <2>2, <2>3, <2>4 DEF SettlementInv, TypeOK, Queued
  <2>6. UnitsBounded'
    BY <1>1, <1>3, <2>2 DEF SettlementInv, UnitsBounded
  <2>7. Stages'
    BY <1>0, <1>3, <2>2, PhaseTypes DEF SettlementInv, TypeOK, Stages, Goto
  <2>8. PaidOrNot' /\ SettledIsPaidOut' /\ ReadyIsQueued'
    BY <1>3, <2>2
    DEF SettlementInv, TypeOK, PaidOrNot, SettledIsPaidOut, ReadyIsQueued, Queued
  <2> QED
    BY <2>5, <2>6, <2>7, <2>8 DEF SettlementInv
<1> QED
  BY <1>2, <1>3 DEF recordCarrierTerminal

-----------------------------------------------------------------------------
\* The usage is decided once: whoever comes later finds it terminal.
LEMMA StepSettleTask ==
  ASSUME SettlementInv, NEW a \in Actors, settleTask(a)
  PROVE  SettlementInv'
<1> DEFINE decided ==
      [status : {"committed", "partially_refunded", "refunded"}, refunded : Refunds]
<1>1. work.delivered \in [Carriers -> 0..MaxUnits] /\ work.force \in BOOLEAN
  BY DEF SettlementInv, TypeOK
<1>2. usage' = usage \/ (usage.status = "reserved" /\ usage' \in decided)
  BY <1>1, SettledUsageType DEF settleTask
<1>3. /\ UNCHANGED <<outcome, comp, receipts, work, outbox, credited, task, scheduled, told,
                     faults, orphans>>
      /\ work.status # "collecting"
  BY DEF settleTask, SettlementInv, Stages
<1>4. CASE usage'.status # "reserved" /\ Goto(a, "reconcileRefund")
  <2>1. TypeOK'
    BY <1>2, <1>3, <1>4 DEF SettlementInv, TypeOK, Goto, Phases
  <2>2. UnitsBounded'
    BY <1>3 DEF SettlementInv, UnitsBounded
  <2>3. Stages'
    BY <1>2, <1>3, <1>4 DEF SettlementInv, TypeOK, Stages, Goto
  <2>4. PaidOrNot' /\ SettledIsPaidOut' /\ ReadyIsQueued'
    BY <1>2, <1>3 DEF SettlementInv, PaidOrNot, SettledIsPaidOut, ReadyIsQueued
  <2> QED
    BY <2>1, <2>2, <2>3, <2>4 DEF SettlementInv
<1>5. CASE usage' = usage /\ Goto(a, Thrown(a))
  <2>1. TypeOK'
    BY <1>3, <1>5, PhaseTypes DEF SettlementInv, TypeOK, Goto, Phases
  <2>2. UnitsBounded'
    BY <1>3 DEF SettlementInv, UnitsBounded
  <2>3. Stages'
    BY <1>3, <1>5, PhaseTypes DEF SettlementInv, TypeOK, Stages, Goto
  <2>4. PaidOrNot' /\ SettledIsPaidOut' /\ ReadyIsQueued'
    BY <1>3, <1>5 DEF SettlementInv, PaidOrNot, SettledIsPaidOut, ReadyIsQueued
  <2> QED
    BY <2>1, <2>2, <2>3, <2>4 DEF SettlementInv
<1>6. \/ usage'.status # "reserved" /\ Goto(a, "reconcileRefund")
      \/ usage' = usage /\ Goto(a, Thrown(a))
  <2> DEFINE refused == work.action = "commit" /\ work.delivered = NoneDelivered
  <2>1. CASE usage.status = "reserved" /\ refused
    BY <2>1 DEF settleTask
  <2>2. CASE usage.status = "reserved" /\ ~refused
    BY <1>1, <2>2, SettledUsageType DEF settleTask
  <2>3. CASE usage.status # "reserved"
    BY <2>3 DEF settleTask
  <2> QED
    BY <2>1, <2>2, <2>3
<1> QED
  BY <1>4, <1>5, <1>6

\* The ledger posts what the usage owes, and nothing else.
LEMMA StepReconcile ==
  ASSUME SettlementInv, NEW a \in Actors, reconcileRefund(a)
  PROVE  SettlementInv'
<1>1. /\ UNCHANGED <<outcome, comp, receipts, work, outbox, usage, task, scheduled, told,
                     faults, orphans>>
      /\ usage.status # "reserved" /\ work.status # "collecting"
  BY DEF reconcileRefund, SettlementInv, Stages
<1>2. credited' \in {credited, usage.refunded}
  BY DEF reconcileRefund
<1>3. assertActionUsageTerminal => credited' = usage.refunded
  <2>1. usage.refunded \in Refunds \cup {0}
    BY DEF SettlementInv, TypeOK
  <2>2. usage.refunded \in Refunds => usage.refunded \in Nat
    BY RefundsWithinReserved, Zenon
  <2>3. usage.refunded \in Nat
    BY <2>1, <2>2
  <2> QED
    BY <2>3 DEF reconcileRefund, Owed, SettlementInv, PaidOrNot
<1>4. /\ assertActionUsageTerminal => Goto(a, "markWorkSettled")
      /\ ~assertActionUsageTerminal => Goto(a, Thrown(a)) /\ credited' = credited
  BY DEF reconcileRefund
<1>5. TypeOK'
  <2>1. pc' \in [Actors -> Phases]
    BY <1>4, PhaseTypes DEF SettlementInv, TypeOK, Goto, Phases
  <2>2. credited' \in Refunds \cup {0}
    BY <1>2 DEF SettlementInv, TypeOK
  <2> QED
    BY <1>1, <2>1, <2>2 DEF SettlementInv, TypeOK
<1>6. UnitsBounded'
  BY <1>1 DEF SettlementInv, UnitsBounded
<1>7. Stages'
  BY <1>1, <1>2, <1>3, <1>4, PhaseTypes DEF SettlementInv, TypeOK, Stages, Goto
<1>8. PaidOrNot' /\ SettledIsPaidOut' /\ ReadyIsQueued'
  BY <1>1, <1>2 DEF SettlementInv, PaidOrNot, SettledIsPaidOut, ReadyIsQueued
<1> QED
  BY <1>5, <1>6, <1>7, <1>8 DEF SettlementInv

\* Only an execution that saw the refund posted closes the Work.
LEMMA StepMarkSettled ==
  ASSUME SettlementInv, NEW a \in Actors, markWorkSettled(a)
  PROVE  SettlementInv'
<1>1. /\ UNCHANGED <<outcome, comp, receipts, usage, credited, task, scheduled, told, faults,
                     orphans>>
      /\ usage.status # "reserved" /\ work.status # "collecting" /\ credited = usage.refunded
      /\ pc' = [pc EXCEPT ![a] = Thrown(a)] \/ pc' = [pc EXCEPT ![a] = Returned(a)]
  BY DEF markWorkSettled, SettlementInv, Stages, Goto
<1>2. /\ UNCHANGED <<work, outbox>>
      \/ /\ outbox' = [status |-> "completed", owner |-> "none", expired |-> FALSE]
         /\ work' = [work EXCEPT !.status = "settled"]
  BY <1>1 DEF markWorkSettled, SettlementInv, TypeOK
<1>3. TypeOK'
  <2>1. pc' \in [Actors -> Phases]
    BY <1>1, PhaseTypes DEF SettlementInv, TypeOK, Phases
  <2>2. work' \in [status : {"collecting", "ready", "settled"},
                   action : {"none", "commit", "refund"},
                   delivered : [Carriers -> 0..MaxUnits], force : BOOLEAN]
    <3>1. work \in [status : {"collecting", "ready", "settled"},
                    action : {"none", "commit", "refund"},
                    delivered : [Carriers -> 0..MaxUnits], force : BOOLEAN]
      BY DEF SettlementInv, TypeOK
    <3> QED
      BY <1>2, <3>1
  <2>3. outbox' \in QueueRow
    <3>1. outbox' = outbox \/ outbox' = [status |-> "completed", owner |-> "none", expired |-> FALSE]
      BY <1>2
    <3> QED
      <4>1. [status |-> "completed", owner |-> "none", expired |-> FALSE] \in QueueRow
        BY DEF QueueRow
      <4> QED
        BY <3>1, <4>1, SharedRows
  <2> QED
    BY <1>1, <2>1, <2>2, <2>3 DEF SettlementInv, TypeOK, QueueRow
<1>4. UnitsBounded'
  BY <1>1 DEF SettlementInv, UnitsBounded
<1>5. Stages'
  BY <1>1, <1>2, PhaseTypes DEF SettlementInv, TypeOK, Stages
<1>6. PaidOrNot' /\ SettledIsPaidOut' /\ ReadyIsQueued'
  BY <1>1, <1>2 DEF SettlementInv, TypeOK, PaidOrNot, SettledIsPaidOut, ReadyIsQueued
<1> QED
  BY <1>3, <1>4, <1>5, <1>6 DEF SettlementInv

-----------------------------------------------------------------------------
\* Claims, releases, leases: the queue row changes hands, the Work does not change.
LEMMA StepClaimBatch ==
  ASSUME SettlementInv, NEW w \in CompWorkers, NEW c \in Carriers, claimBatch(w, c)
  PROVE  SettlementInv'
<1> USE ActorKinds DEF claimBatch, Goto
<1>1. TypeOK'
  <2>1. comp' \in [Carriers -> CompensationRow]
    <3>1. c \in Carriers
      BY DEF SettlementInv, TypeOK
    <3> QED
      BY <3>1, SharedRows DEF CompensationRow
  <2>2. pc' \in [Actors -> Phases]
    BY DEF SettlementInv, TypeOK, Phases
  <2>3. task' \in [CompWorkers -> Carriers]
    BY DEF SettlementInv, TypeOK
  <2> QED
    BY <2>1, <2>2, <2>3 DEF SettlementInv, TypeOK, CompensationRow
<1>2. UnitsBounded'
  BY DEF SettlementInv, TypeOK, UnitsBounded
<1>3. Stages'
  BY DEF SettlementInv, TypeOK, Stages
<1>4. PaidOrNot' /\ SettledIsPaidOut' /\ ReadyIsQueued'
  BY DEF SettlementInv, PaidOrNot, SettledIsPaidOut, ReadyIsQueued
<1> QED
  BY <1>1, <1>2, <1>3, <1>4 DEF SettlementInv

\* Releasing a compensation row keeps the invariant.
LEMMA StepMarkFailed ==
  ASSUME SettlementInv, NEW w \in CompWorkers, markFailed(w)
  PROVE  SettlementInv'
<1> USE ActorKinds DEF markFailed, Goto
<1>1. TypeOK'
  <2>1. comp' \in [Carriers -> CompensationRow]
    <3>1. task[w] \in Carriers
      BY DEF SettlementInv, TypeOK
    <3> QED
      BY <3>1, SharedRows DEF CompensationRow
  <2>2. pc' \in [Actors -> Phases]
    BY DEF SettlementInv, TypeOK, Phases
  <2> QED
    BY <2>1, <2>2 DEF SettlementInv, TypeOK, CompensationRow
<1>2. UnitsBounded'
  BY DEF SettlementInv, TypeOK, UnitsBounded
<1>3. Stages'
  BY DEF SettlementInv, TypeOK, Stages
<1>4. PaidOrNot' /\ SettledIsPaidOut' /\ ReadyIsQueued'
  BY DEF SettlementInv, PaidOrNot, SettledIsPaidOut, ReadyIsQueued
<1> QED
  BY <1>1, <1>2, <1>3, <1>4 DEF SettlementInv

\* Recovering an orphan keeps the invariant.
LEMMA StepRecoverOrphans ==
  ASSUME SettlementInv, NEW c \in Carriers, recoverOrphans(c)
  PROVE  SettlementInv'
<1> DEFINE payload == [outcome[c] EXCEPT !.delivered = IF outcome[c].action = "commit"
                                                     THEN Units[c] ELSE 0]
<1>1. payload \in Outcome /\ payload.delivered \in 0..MaxUnits
  <2>1. outcome[c] \in Outcome
    BY DEF recoverOrphans, SettlementInv, TypeOK, Unknown
  <2> QED
    BY <2>1, SettlementAssumption DEF Outcome
<1>2. /\ comp' = [comp EXCEPT ![c] =
                    [status |-> "pending", stale |-> FALSE, settlement |-> payload]]
      /\ orphans' = orphans + 1
      /\ UNCHANGED <<outcome, receipts, work, outbox, usage, credited, pc, task, scheduled,
                     told, faults>>
  BY DEF recoverOrphans
<1> HIDE DEF payload
<1>3. TypeOK'
  BY <1>1, <1>2 DEF SettlementInv, TypeOK
<1>4. UnitsBounded'
  BY <1>1, <1>2 DEF SettlementInv, TypeOK, UnitsBounded
<1>5. Stages' /\ PaidOrNot' /\ SettledIsPaidOut' /\ ReadyIsQueued'
  BY <1>2 DEF SettlementInv, Stages, PaidOrNot, SettledIsPaidOut, ReadyIsQueued
<1> QED
  BY <1>3, <1>4, <1>5 DEF SettlementInv

\* Claiming a ready Work keeps the invariant.
LEMMA StepClaimReady ==
  ASSUME SettlementInv, NEW w \in OutboxWorkers, claimReadyWorkSettlements(w)
  PROVE  SettlementInv'
<1> USE ActorKinds DEF claimReadyWorkSettlements, Goto
<1>1. TypeOK'
  BY DEF SettlementInv, TypeOK, Phases
<1>2. UnitsBounded'
  BY DEF SettlementInv, UnitsBounded
<1>3. Stages'
  BY DEF SettlementInv, TypeOK, Stages
<1>4. PaidOrNot' /\ SettledIsPaidOut' /\ ReadyIsQueued'
  BY DEF SettlementInv, PaidOrNot, SettledIsPaidOut, ReadyIsQueued
<1> QED
  BY <1>1, <1>2, <1>3, <1>4 DEF SettlementInv

\* Releasing a ready Work keeps the invariant.
LEMMA StepMarkWorkFailed ==
  ASSUME SettlementInv, NEW w \in OutboxWorkers, markWorkSettlementFailed(w)
  PROVE  SettlementInv'
<1> USE ActorKinds DEF markWorkSettlementFailed, Goto, Holds
<1>1. TypeOK'
  BY DEF SettlementInv, TypeOK, Phases
<1>2. UnitsBounded'
  BY DEF SettlementInv, UnitsBounded
<1>3. Stages'
  BY DEF SettlementInv, TypeOK, Stages
<1>4. PaidOrNot' /\ SettledIsPaidOut' /\ ReadyIsQueued'
  BY DEF SettlementInv, PaidOrNot, SettledIsPaidOut, ReadyIsQueued
<1> QED
  BY <1>1, <1>2, <1>3, <1>4 DEF SettlementInv

\* The end of a queue lease keeps the invariant.
LEMMA StepLease ==
  ASSUME SettlementInv, leaseExpires
  PROVE  SettlementInv'
<1> USE DEF leaseExpires, Overtakes
<1>1. TypeOK'
  <2>1. outbox' \in QueueRow
    BY SharedRows DEF QueueRow
  <2>2. faults' \in Nat
    BY DEF SettlementInv, TypeOK
  <2> QED
    BY <2>1, <2>2 DEF SettlementInv, TypeOK, QueueRow
<1>2. UnitsBounded' /\ Stages' /\ PaidOrNot' /\ SettledIsPaidOut'
  BY DEF SettlementInv, UnitsBounded, Stages, PaidOrNot, SettledIsPaidOut
<1>3. ReadyIsQueued'
  BY DEF SettlementInv, TypeOK, ReadyIsQueued
<1> QED
  BY <1>1, <1>2, <1>3 DEF SettlementInv

\* A compensation row that turns stale keeps the invariant.
LEMMA StepStale ==
  ASSUME SettlementInv, NEW c \in Carriers, rowTurnsStale(c)
  PROVE  SettlementInv'
<1> USE DEF rowTurnsStale, Overtakes
<1>1. TypeOK'
  <2>1. comp' \in [Carriers -> CompensationRow]
    BY SharedRows DEF CompensationRow
  <2>2. faults' \in Nat
    BY DEF SettlementInv, TypeOK
  <2> QED
    BY <2>1, <2>2 DEF SettlementInv, TypeOK, CompensationRow
<1>2. UnitsBounded'
  BY DEF SettlementInv, TypeOK, UnitsBounded
<1>3. Stages' /\ PaidOrNot' /\ SettledIsPaidOut' /\ ReadyIsQueued'
  BY DEF SettlementInv, Stages, PaidOrNot, SettledIsPaidOut, ReadyIsQueued
<1> QED
  BY <1>1, <1>2, <1>3 DEF SettlementInv

-----------------------------------------------------------------------------
\* A failure or a crash leaves the tables alone and sends the execution back.
LEMMA StepFault ==
  ASSUME SettlementInv, NEW a \in Actors, transactionFails(a) \/ crash(a)
  PROVE  SettlementInv'
<1>1. /\ UNCHANGED <<outcome, comp, receipts, work, outbox, usage, credited, task, orphans>>
      /\ faults' = faults + 1
  BY DEF transactionFails, crash
<1>2. \E p \in {"reschedule", "record", "cancelled", "done", "idle", "failed", "enqueue"} :
        pc' = [pc EXCEPT ![a] = p]
  BY PhaseTypes DEF transactionFails, crash, Goto
<1>3. scheduled' \in [Carriers -> BOOLEAN] /\ told' \in [Carriers -> {"none", "refunded", "pending"}]
  <2>0. scheduled \in [Carriers -> BOOLEAN] /\ told \in [Carriers -> {"none", "refunded", "pending"}]
    BY DEF SettlementInv, TypeOK
  <2>1. CASE transactionFails(a)
    BY <2>0, <2>1 DEF transactionFails
  <2>2. CASE crash(a)
    <3>1. told' \in [Carriers -> {"none", "refunded", "pending"}]
      BY <2>0, <2>2 DEF crash
    <3>2. scheduled' \in [Carriers -> BOOLEAN]
      BY <2>2, Zenon DEF crash
    <3> QED
      BY <3>1, <3>2
  <2> QED
    BY <2>1, <2>2
<1>4. TypeOK'
  BY <1>1, <1>2, <1>3 DEF SettlementInv, TypeOK, Phases
<1>5. UnitsBounded'
  BY <1>1 DEF SettlementInv, UnitsBounded
<1>6. Stages'
  BY <1>1, <1>2 DEF SettlementInv, TypeOK, Stages
<1>7. PaidOrNot' /\ SettledIsPaidOut' /\ ReadyIsQueued'
  BY <1>1 DEF SettlementInv, PaidOrNot, SettledIsPaidOut, ReadyIsQueued
<1> QED
  BY <1>4, <1>5, <1>6, <1>7 DEF SettlementInv

\* Every step preserves the invariant.
LEMMA StepPreserves == SettlementInv /\ [Next]_vars => SettlementInv'
<1> SUFFICES ASSUME SettlementInv, [Next]_vars PROVE SettlementInv'
  OBVIOUS
<1> USE ActorKinds
<1>1. ASSUME NEW c \in Carriers, NEW o \in Outcomes[c], finish(c, o) PROVE SettlementInv'
  BY <1>1, StepFinish
<1>2. ASSUME NEW c \in Carriers, Workflow(c) PROVE SettlementInv'
  BY <1>2, StepSchedule, StepRecord, StepSettleTask, StepReconcile, StepMarkSettled, StepGetUsage,
     StepMarkCompleted, StepCancellation DEF Workflow, Settle
<1>3. ASSUME NEW w \in CompWorkers, Compensation(w) PROVE SettlementInv'
  BY <1>3, StepRecord, StepSettleTask, StepReconcile, StepMarkSettled, StepMarkCompleted,
     StepMarkFailed DEF Compensation, Settle
<1>4. ASSUME NEW w \in CompWorkers, NEW c \in Carriers, claimBatch(w, c) PROVE SettlementInv'
  BY <1>4, StepClaimBatch
<1>5. ASSUME NEW w \in OutboxWorkers, claimReadyWorkSettlements(w) \/ Outbox(w)
      PROVE  SettlementInv'
  BY <1>5, StepClaimReady, StepSettleTask, StepReconcile, StepMarkSettled, StepMarkWorkFailed
     DEF Outbox, Settle
<1>6. CASE leaseExpires
  BY <1>6, StepLease
<1>7. ASSUME NEW c \in Carriers, rowTurnsStale(c) \/ recoverOrphans(c) PROVE SettlementInv'
  BY <1>7, StepStale, StepRecoverOrphans
<1>8. ASSUME NEW a \in Actors, transactionFails(a) \/ crash(a) PROVE SettlementInv'
  BY <1>8, StepFault
<1>9. CASE UNCHANGED vars
  BY <1>9 DEF vars, SettlementInv, TypeOK, UnitsBounded, Stages, PaidOrNot, SettledIsPaidOut,
     ReadyIsQueued
<1> QED
  BY <1>1, <1>2, <1>3, <1>4, <1>5, <1>6, <1>7, <1>8, <1>9 DEF Next

-----------------------------------------------------------------------------
\* The inductive invariant holds in every state of the specification.
THEOREM SettlementInvariance == Spec => []SettlementInv
BY InitEstablishes, StepPreserves, PTL DEF Spec

\* The tables, the usage and the executions keep their types.
THEOREM SettlementTypeCorrect == Spec => []TypeOK
<1>1. SettlementInv => TypeOK
  BY DEF SettlementInv
<1> QED
  BY <1>1, SettlementInvariance, PTL

\* No Work is closed (markWorkSettled) before its usage is terminal and the ledger
\* has posted exactly the refund owed, with any number of executions and faults.
THEOREM SettledWorkIsPaidOut == Spec => []SettledIsPaidOut
<1>1. SettlementInv => SettledIsPaidOut
  BY DEF SettlementInv
<1> QED
  BY <1>1, SettlementInvariance, PTL

\* However the units delivered by the carriers are prorated and rounded, and whoever
\* settles a Work, no more goes back than was reserved: the usage never shows, and the
\* ledger never posts, a refund beyond the price of the Work.
THEOREM RefundsArePartOfPrice == Spec => [](usage.refunded <= Reserved /\ credited <= Reserved)
<1>1. SettlementInv => usage.refunded <= Reserved /\ credited <= Reserved
  <2>1. SUFFICES ASSUME SettlementInv PROVE usage.refunded <= Reserved /\ credited <= Reserved
    OBVIOUS
  <2>2. usage.refunded \in Refunds \cup {0} /\ credited \in Refunds \cup {0}
    BY <2>1 DEF SettlementInv, TypeOK
  <2>3. \A r \in Refunds \cup {0} : r \in 0..Reserved
    BY RefundsWithinReserved
  <2>4. usage.refunded \in 0..Reserved /\ credited \in 0..Reserved
    BY <2>2, <2>3
  <2>5. QED BY <2>4, RefundsWithinReserved
<1>2. QED
  BY <1>1, SettlementInvariance, PTL

\* A Work that is ready has an open queue row, so that a process that dies right
\* after recordCarrierTerminal loses nothing.
THEOREM ReadyWorkIsQueued == Spec => []ReadyIsQueued
<1>1. SettlementInv => ReadyIsQueued
  BY DEF SettlementInv
<1> QED
  BY <1>1, SettlementInvariance, PTL

-----------------------------------------------------------------------------
\* The four things a step can do to the outcome of the Work.
Idles == UNCHANGED <<usage, credited>> /\ (work'.status = "settled" <=> work.status = "settled")

Decides ==
  /\ usage.status = "reserved" /\ usage'.status # "reserved" /\ usage'.refunded \in Refunds
  /\ UNCHANGED <<work, credited>>

Pays ==
  /\ usage.status # "reserved" /\ credited' = usage.refunded
  /\ UNCHANGED <<work, usage>>

Closes ==
  /\ usage.status # "reserved" /\ credited = usage.refunded
  /\ work.status # "settled" /\ work'.status = "settled"
  /\ UNCHANGED <<usage, credited>>

\* A step of settlement decides, pays, closes or leaves the outcome of the Work alone.
LEMMA SettleMoves ==
  ASSUME SettlementInv, NEW a \in Actors, Settle(a)
  PROVE  Idles \/ Decides \/ Pays \/ Closes
<1>1. CASE settleTask(a)
  <2>1. work.delivered \in [Carriers -> 0..MaxUnits] /\ work.force \in BOOLEAN
    BY DEF SettlementInv, TypeOK
  <2> QED
    BY <1>1, <2>1, SettledUsageType DEF settleTask, Idles, Decides
<1>2. CASE reconcileRefund(a)
  BY <1>2 DEF reconcileRefund, SettlementInv, Stages, Idles, Pays
<1>3. CASE markWorkSettled(a)
  <2>1. usage.status # "reserved" /\ credited = usage.refunded
    BY <1>3 DEF markWorkSettled, SettlementInv, Stages
  <2>2. work.status = "ready" => [work EXCEPT !.status = "settled"].status = "settled"
    BY DEF SettlementInv, TypeOK
  <2> QED
    BY <1>3, <2>1, <2>2 DEF markWorkSettled, Idles, Closes
<1> QED
  BY <1>1, <1>2, <1>3 DEF Settle

\* Recording a carrier leaves the outcome of the Work alone.
LEMMA RecordMoves ==
  ASSUME SettlementInv, NEW a \in Carriers \cup CompWorkers, recordCarrierTerminal(a)
  PROVE  Idles
BY DEF recordCarrierTerminal, reduceCarrierReceiptsForWork, Idles

\* Every step decides, pays, closes or leaves the outcome of the Work alone.
LEMMA StepMoves ==
  ASSUME SettlementInv, [Next]_vars
  PROVE  Idles \/ Decides \/ Pays \/ Closes
<1> USE ActorKinds
<1>1. ASSUME NEW c \in Carriers, NEW o \in Outcomes[c], finish(c, o) PROVE Idles
  BY <1>1 DEF finish, Idles
<1>2. ASSUME NEW c \in Carriers, Workflow(c) PROVE Idles \/ Decides \/ Pays \/ Closes
  BY <1>2, SettleMoves, RecordMoves
     DEF Workflow, scheduleCompensation, getUsage, markCompleted, settleHarnessCancellation, Idles
<1>3. ASSUME NEW w \in CompWorkers, Compensation(w) PROVE Idles \/ Decides \/ Pays \/ Closes
  BY <1>3, SettleMoves, RecordMoves DEF Compensation, markCompleted, markFailed, Idles
<1>4. ASSUME NEW w \in CompWorkers, NEW c \in Carriers, claimBatch(w, c) PROVE Idles
  BY <1>4 DEF claimBatch, Idles
<1>5. ASSUME NEW w \in OutboxWorkers, claimReadyWorkSettlements(w) \/ Outbox(w)
      PROVE  Idles \/ Decides \/ Pays \/ Closes
  BY <1>5, SettleMoves DEF Outbox, claimReadyWorkSettlements, markWorkSettlementFailed, Idles
<1>6. CASE leaseExpires
  BY <1>6 DEF leaseExpires, Idles
<1>7. ASSUME NEW c \in Carriers, rowTurnsStale(c) \/ recoverOrphans(c) PROVE Idles
  BY <1>7 DEF rowTurnsStale, recoverOrphans, Idles
<1>8. ASSUME NEW a \in Actors, transactionFails(a) \/ crash(a) PROVE Idles
  BY <1>8 DEF transactionFails, crash, Idles
<1>9. CASE UNCHANGED vars
  BY <1>9 DEF vars, Idles
<1> QED
  BY <1>1, <1>2, <1>3, <1>4, <1>5, <1>6, <1>7, <1>8, <1>9 DEF Next

\* Settling by many executions (settleTask, reconcileRefund, markWorkSettled, in any
\* interleaving and with any faults) implements the promise made to the merchant:
\* the refund is decided once, paid in full, and only then is the Work closed.
THEOREM SettlementKeepsPromise == Spec => ImplementsWorkOutcome
<1>1. Init => Promise!Init
  BY DEF Init, Promise!Init
<1>2. SettlementInv /\ [Next]_vars => [Promise!Next]_(Promise!vars)
  <2> SUFFICES ASSUME SettlementInv, [Next]_vars PROVE [Promise!Next]_(Promise!vars)
    OBVIOUS
  <2>1. CASE Idles
    BY <2>1 DEF Idles, Promise!vars
  <2>2. CASE Decides
    BY <2>2 DEF Decides, SettlementInv, SettledIsPaidOut, Promise!Next, Promise!Decide
  <2>3. CASE Pays
    BY <2>3 DEF Pays, Promise!Next, Promise!Pay
  <2>4. CASE Closes
    BY <2>4 DEF Closes, Promise!Next, Promise!Close
  <2> QED
    BY <2>1, <2>2, <2>3, <2>4, StepMoves
<1> QED
  BY <1>1, <1>2, SettlementInvariance, PTL DEF Spec, ImplementsWorkOutcome, Promise!Spec

-----------------------------------------------------------------------------
\* A claim on a ready Work is released (markWorkSettlementFailed) only by the worker
\* that holds it: one whose lease was taken over cannot give away the new owner's.
THEOREM ClaimsReleasedByOwner == Spec => OnlyOwnerReleases
<1> DEFINE Released == outbox.status = "processing" /\ outbox'.status = "pending" =>
                         pc[outbox.owner] = "failed" /\ pc'[outbox.owner] = "idle"
<1>1. SettlementInv /\ [Next]_vars => [Released]_vars
  <2> SUFFICES ASSUME SettlementInv, Next PROVE Released
    OBVIOUS
  <2> USE ActorKinds
  <2>1. ASSUME NEW a \in Carriers \cup CompWorkers, recordCarrierTerminal(a) PROVE Released
    BY <2>1 DEF recordCarrierTerminal, Queued, SettlementInv, ReadyIsQueued
  <2>2. ASSUME NEW a \in Actors, Settle(a) PROVE Released
    BY <2>2 DEF Settle, settleTask, reconcileRefund, markWorkSettled
  <2>3. ASSUME NEW w \in OutboxWorkers, markWorkSettlementFailed(w) PROVE Released
    BY <2>3 DEF markWorkSettlementFailed, Holds, Goto, SettlementInv, TypeOK
  <2>4. ASSUME NEW c \in Carriers, NEW o \in Outcomes[c], finish(c, o) PROVE Released
    BY <2>4 DEF finish
  <2>5. ASSUME NEW c \in Carriers, Workflow(c) PROVE Released
    BY <2>1, <2>2, <2>5 DEF Workflow, scheduleCompensation, getUsage, markCompleted,
       settleHarnessCancellation
  <2>6. ASSUME NEW w \in CompWorkers, Compensation(w) PROVE Released
    BY <2>1, <2>2, <2>6 DEF Compensation, markCompleted, markFailed
  <2>7. ASSUME NEW w \in CompWorkers, NEW c \in Carriers, claimBatch(w, c) PROVE Released
    BY <2>7 DEF claimBatch
  <2>8. ASSUME NEW w \in OutboxWorkers, claimReadyWorkSettlements(w) \/ Outbox(w) PROVE Released
    BY <2>2, <2>3, <2>8 DEF claimReadyWorkSettlements, Outbox
  <2>9. CASE leaseExpires
    BY <2>9 DEF leaseExpires, SettlementInv, TypeOK
  <2>10. ASSUME NEW c \in Carriers, rowTurnsStale(c) \/ recoverOrphans(c) PROVE Released
    BY <2>10 DEF rowTurnsStale, recoverOrphans
  <2>11. ASSUME NEW a \in Actors, transactionFails(a) \/ crash(a) PROVE Released
    BY <2>11 DEF transactionFails, crash
  <2> QED
    BY <2>4, <2>5, <2>6, <2>7, <2>8, <2>9, <2>10, <2>11 DEF Next
<1> QED
  BY <1>1, SettlementInvariance, PTL DEF Spec, OnlyOwnerReleases
-----------------------------------------------------------------------------
(* What a row, a receipt and the Work say is what the workflows really did. *)

\* A settlement input tells how the workflow ended; the delivered units too, unless it
\* was rebuilt from audit events.
TrueTo(settlement, end) ==
  /\ end.action # "none" /\ settlement.action = end.action /\ settlement.force = end.force
  /\ orphans = 0 => settlement.delivered = end.delivered

\* A workflow ends once; its flag means its row exists.
EndsOnce ==
  \A c \in Carriers :
    /\ pc[c] # "failed"
    /\ pc[c] = "idle" => outcome[c].action = "none"
    /\ pc[c] # "idle" => outcome[c] \in Outcomes[c]
    /\ scheduled[c] => comp[c].status # "none"

RowsTrue ==
  /\ \A c \in Carriers : comp[c].status # "none" => TrueTo(comp[c].settlement, outcome[c])
  /\ \A w \in CompWorkers : pc[w] # "idle" => comp[task[w]].status # "none"

ReceiptsTrue ==
  \A c \in Carriers : receipts[c] # NoReceipt => TrueTo(receipts[c].settlement, outcome[c])

\* The ready payload is the reduction of all receipts.
WorkTrue ==
  work.status # "collecting" =>
    /\ \A c \in Carriers : receipts[c] # NoReceipt
    /\ work = [reduceCarrierReceiptsForWork(receipts) EXCEPT !.status = work.status]

UsageTrue ==
  /\ usage.status # "reserved" => work.status # "collecting"
  /\ orphans = 0 => ChargeMatchesDelivery

Provenance == EndsOnce /\ RowsTrue /\ ReceiptsTrue /\ WorkTrue /\ UsageTrue

\* At the start nothing is recorded, and all of it is true.
LEMMA InitProvenance == Init => Provenance
<1> SUFFICES ASSUME Init PROVE Provenance
  OBVIOUS
<1> USE ActorKinds DEF Init
<1>1. EndsOnce
  BY DEF EndsOnce, Unknown
<1>2. RowsTrue /\ ReceiptsTrue
  BY DEF RowsTrue, ReceiptsTrue, NoRow
<1>3. WorkTrue /\ UsageTrue
  BY DEF WorkTrue, UsageTrue, ChargeMatchesDelivery
<1> QED
  BY <1>1, <1>2, <1>3 DEF Provenance

\* Once a workflow has ended, how it ended never changes.
LEMMA EndIsFinal ==
  ASSUME SettlementInv, EndsOnce, [Next]_vars
  PROVE  /\ \A c \in Carriers : outcome[c].action # "none" => outcome'[c] = outcome[c]
         /\ orphans' = 0 => orphans = 0
<1>1. ASSUME NEW c \in Carriers, NEW o \in Outcomes[c], finish(c, o)
      PROVE  /\ \A d \in Carriers : outcome[d].action # "none" => outcome'[d] = outcome[d]
             /\ orphans' = orphans
  BY <1>1 DEF finish, EndsOnce, SettlementInv, TypeOK
<1>2. ASSUME NEW c \in Carriers, recoverOrphans(c) PROVE outcome' = outcome /\ orphans' # 0
  BY <1>2 DEF recoverOrphans, SettlementInv, TypeOK
<1>3. \/ \E c \in Carriers : \E o \in Outcomes[c] : finish(c, o)
      \/ \E c \in Carriers : recoverOrphans(c)
      \/ UNCHANGED <<outcome, orphans>>
  BY DEF Next, Workflow, Compensation, Outbox, Settle, scheduleCompensation, recordCarrierTerminal,
     settleTask, reconcileRefund, markWorkSettled, getUsage, markCompleted,
     settleHarnessCancellation, markFailed, claimBatch, claimReadyWorkSettlements,
     markWorkSettlementFailed, leaseExpires, rowTurnsStale, transactionFails, crash, vars
<1> QED
  BY <1>1, <1>2, <1>3

\* What a settlement input told truly it goes on telling.
LEMMA TruthIsKept ==
  ASSUME SettlementInv, EndsOnce, [Next]_vars, NEW c \in Carriers, NEW s, NEW t,
         TrueTo(s, outcome[c]), t = s
  PROVE  /\ outcome'[c].action # "none" /\ t.action = outcome'[c].action
         /\ t.force = outcome'[c].force
         /\ orphans' = 0 => t.delivered = outcome'[c].delivered
BY EndIsFinal DEF TrueTo

-----------------------------------------------------------------------------
\* Phases of a workflow: it never returns to the start, and has no row to fail.
LEMMA WorkflowPhases ==
  ASSUME EndsOnce, NEW c \in Carriers
  PROVE  /\ Returned(c) \in {"getUsage", "complete"}
         /\ Thrown(c) \in {"cancelled", "done", "reschedule"}
         /\ Caught(c) \notin {"idle", "failed"}
<1>1. Ended(c) \in {"cancelled", "done"}
  BY DEF Ended
<1>2. Thrown(c) \in {"cancelled", "done", "reschedule"}
  BY <1>1 DEF Thrown
<1>3. Returned(c) \in {"getUsage", "complete"}
  BY ActorKinds DEF Returned
<1>4. Caught(c) \notin {"idle", "failed"}
  BY <1>1, <1>2 DEF Caught, EndsOnce
<1> QED
  BY <1>2, <1>3, <1>4

\* How the phases move: one execution at a time.  A workflow starts once, and a
\* compensation worker starts by claiming a row.
Moves(a, phase) ==
  /\ pc[a] # "idle" /\ pc' = [pc EXCEPT ![a] = phase]
  /\ a \in Carriers => phase \notin {"idle", "failed"}

\* How executions move: begin, claim, or go on to their next step.
LEMMA ExecutionsMove ==
  ASSUME SettlementInv, EndsOnce, [Next]_vars
  PROVE  \/ \E c \in Carriers : \E o \in Outcomes[c] : finish(c, o)
         \/ \E w \in CompWorkers, c \in Carriers : claimBatch(w, c)
         \/ \E w \in OutboxWorkers : claimReadyWorkSettlements(w)
         \/ \E a \in Actors : \E phase \in Phases : Moves(a, phase)
         \/ UNCHANGED pc
<1> USE ActorKinds
<1> DEFINE Moved == \E a \in Actors : \E phase \in Phases : Moves(a, phase)
<1>p. /\ {"idle", "record", "settleTask", "reconcileRefund", "markWorkSettled", "getUsage", "complete",
          "failed", "reschedule", "cancelled", "done", "enqueue"} \subseteq Phases
      /\ pc \in [Actors -> Phases]
  BY DEF Phases, SettlementInv, TypeOK
<1>1. ASSUME NEW a \in Actors, settleTask(a) \/ reconcileRefund(a) \/ markWorkSettled(a) PROVE Moved
  <2>1. PICK phase : /\ pc[a] # "idle" /\ Goto(a, phase)
                     /\ phase \in {"reconcileRefund", "markWorkSettled", Thrown(a), Returned(a)}
    BY <1>1 DEF settleTask, reconcileRefund, markWorkSettled
  <2>2. phase \in Phases /\ (a \in Carriers => phase \notin {"idle", "failed"})
    BY <1>p, <2>1, PhaseTypes, WorkflowPhases
  <2> QED
    BY <2>1, <2>2 DEF Moves, Goto
<1>2. ASSUME NEW a \in Carriers \cup CompWorkers, recordCarrierTerminal(a) PROVE Moved
  <2>0. a \in Actors
    OBVIOUS
  <2>1. PICK phase : /\ pc[a] # "idle" /\ Goto(a, phase)
                     /\ phase \in {"settleTask", Thrown(a), Returned(a)}
    BY <1>2 DEF recordCarrierTerminal
  <2>2. phase \in Phases /\ (a \in Carriers => phase \notin {"idle", "failed"})
    BY <1>p, <2>0, <2>1, PhaseTypes, WorkflowPhases
  <2> QED
    BY <2>0, <2>1, <2>2 DEF Moves, Goto
<1>3. ASSUME NEW c \in Carriers, scheduleCompensation(c) PROVE Moved
  <2>1. PICK phase : /\ pc[c] # "idle" /\ Goto(c, phase) /\ phase \in {"done", "record", Ended(c)}
    BY <1>3 DEF scheduleCompensation
  <2>2. phase \in Phases /\ phase \notin {"idle", "failed"}
    BY <1>p, <2>1 DEF Ended
  <2> QED
    BY <2>1, <2>2 DEF Moves, Goto
<1>4. ASSUME NEW c \in Carriers, getUsage(c) \/ settleHarnessCancellation(c) PROVE Moved
  <2>1. PICK phase : /\ pc[c] # "idle" /\ Goto(c, phase) /\ phase \in {"done", "complete"}
    BY <1>4 DEF getUsage, settleHarnessCancellation
  <2> QED
    BY <1>p, <2>1 DEF Moves, Goto
<1>5. ASSUME NEW a \in Carriers \cup CompWorkers, markCompleted(a) PROVE Moved
  <2>0. a \in Actors
    OBVIOUS
  <2>1. PICK phase : /\ pc[a] # "idle" /\ Goto(a, phase)
                     /\ phase = IF a \in Carriers THEN Ended(a) ELSE "idle"
    BY <1>5 DEF markCompleted
  <2>2. phase \in Phases /\ (a \in Carriers => phase \notin {"idle", "failed"})
    BY <1>p, <2>1 DEF Ended
  <2> QED
    BY <2>0, <2>1, <2>2 DEF Moves, Goto
<1>6. ASSUME NEW w \in CompWorkers \cup OutboxWorkers, markFailed(w) \/ markWorkSettlementFailed(w)
      PROVE  Moved
  <2>1. w \in Actors /\ w \notin Carriers /\ pc[w] # "idle" /\ Goto(w, "idle")
    BY <1>6 DEF markFailed, markWorkSettlementFailed
  <2> QED
    BY <1>p, <2>1 DEF Moves, Goto
<1>7. ASSUME NEW a \in Actors, transactionFails(a) \/ crash(a) PROVE Moved
  <2>1. PICK phase : /\ pc[a] # "idle" /\ Goto(a, phase)
                     /\ \/ phase = Caught(a)
                        \/ phase = IF a \notin Carriers THEN "idle"
                                   ELSE IF pc[a] \in {"reschedule", "cancelled"} THEN pc[a]
                                   ELSE "enqueue"
    BY <1>7 DEF transactionFails, crash
  <2>2. phase \in Phases /\ (a \in Carriers => phase \notin {"idle", "failed"})
    BY <1>p, <2>1, PhaseTypes, WorkflowPhases
  <2> QED
    BY <2>1, <2>2 DEF Moves, Goto
<1>8. ASSUME NEW c \in Carriers, rowTurnsStale(c) \/ recoverOrphans(c) PROVE UNCHANGED pc
  BY <1>8 DEF rowTurnsStale, recoverOrphans
<1>9. leaseExpires \/ UNCHANGED vars => UNCHANGED pc
  BY DEF leaseExpires, vars
<1> HIDE DEF Moved
<1> QED
  <2>1. ASSUME NEW c \in Carriers, Workflow(c) PROVE Moved
    BY <1>1, <1>2, <1>3, <1>4, <1>5, <2>1 DEF Workflow, Settle
  <2>2. ASSUME NEW w \in CompWorkers, Compensation(w) PROVE Moved
    BY <1>1, <1>2, <1>5, <1>6, <2>2 DEF Compensation, Settle
  <2>3. ASSUME NEW w \in OutboxWorkers, Outbox(w) PROVE Moved
    BY <1>1, <1>6, <2>3 DEF Outbox, Settle
  <2>4. \/ \E c \in Carriers : \E o \in Outcomes[c] : finish(c, o)
        \/ \E w \in CompWorkers, c \in Carriers : claimBatch(w, c)
        \/ \E w \in OutboxWorkers : claimReadyWorkSettlements(w)
        \/ Moved \/ UNCHANGED pc
    BY <1>7, <1>8, <1>9, <2>1, <2>2, <2>3 DEF Next
  <2> QED
    BY <2>4 DEF Moved

-----------------------------------------------------------------------------
\* A compensation row is made with the truth and keeps it.
LEMMA RowsKeepTruth ==
  ASSUME SettlementInv, EndsOnce, RowsTrue, [Next]_vars, NEW d \in Carriers
  PROVE  /\ comp[d].status # "none" =>
              comp'[d].status # "none" /\ comp'[d].settlement = comp[d].settlement
         /\ comp'[d].status # "none" /\ comp[d].status = "none" =>
              \/ comp'[d].settlement = outcome[d] /\ outcome' = outcome /\ outcome[d].action # "none"
              \/ /\ comp'[d].settlement.action = outcome[d].action /\ outcome[d].action # "none"
                 /\ comp'[d].settlement.force = outcome[d].force /\ orphans' # 0 /\ outcome' = outcome
<1> USE ActorKinds
<1> DEFINE New == \/ comp'[d].settlement = outcome[d] /\ outcome' = outcome /\ outcome[d].action # "none"
                  \/ /\ comp'[d].settlement.action = outcome[d].action /\ outcome[d].action # "none"
                     /\ comp'[d].settlement.force = outcome[d].force /\ orphans' # 0
                     /\ outcome' = outcome
           Goal == /\ comp[d].status # "none" =>
                        comp'[d].status # "none" /\ comp'[d].settlement = comp[d].settlement
                   /\ comp'[d].status # "none" /\ comp[d].status = "none" => New
<1> SUFFICES Goal
  OBVIOUS
<1>0. comp \in [Carriers -> CompensationRow]
  BY SharedRows
<1>1. ASSUME NEW c \in Carriers, scheduleCompensation(c) PROVE Goal
  <2>1. outcome[c].action # "none" /\ outcome' = outcome
    <3>1. outcome[c] \in Outcomes[c]
      BY <1>1 DEF scheduleCompensation, EndsOnce
    <3> QED
      BY <1>1, <3>1, OutcomesBounded DEF scheduleCompensation, Outcome
  <2> QED
    BY <1>0, <1>1, <2>1 DEF scheduleCompensation, Enqueued
<1>2. ASSUME NEW c \in Carriers, recoverOrphans(c) PROVE Goal
  <2>1. /\ comp[c].status = "none" /\ outcome[c].action # "none" /\ outcome' = outcome
        /\ orphans' # 0
        /\ \A e \in Carriers \ {c} : comp'[e] = comp[e]
    BY <1>0, <1>2 DEF recoverOrphans, SettlementInv, TypeOK
  <2>2. outcome[c] \in Outcome
    BY <2>1 DEF SettlementInv, TypeOK, Unknown
  <2>3. /\ comp'[c].settlement.action = outcome[c].action
        /\ comp'[c].settlement.force = outcome[c].force
    BY <1>0, <1>2, <2>2 DEF recoverOrphans, Outcome
  <2> QED
    BY <2>1, <2>3
<1>3. ASSUME NEW a \in Carriers \cup CompWorkers, markCompleted(a) PROVE Goal
  <2>1. CarrierOf(a) \in Carriers
    BY SettlementType
  <2>2. comp' = comp \/ comp[CarrierOf(a)].status # "none"
    BY <1>3 DEF markCompleted, EndsOnce, RowsTrue, CarrierOf
  <2> QED
    BY <1>0, <1>3, <2>1, <2>2 DEF markCompleted, CompensationRow
<1>4. ASSUME NEW w \in CompWorkers, NEW c \in Carriers, claimBatch(w, c) PROVE Goal
  BY <1>0, <1>4 DEF claimBatch, CompensationRow
<1>5. ASSUME NEW w \in CompWorkers, markFailed(w) PROVE Goal
  <2>1. task[w] \in Carriers /\ comp[task[w]].status # "none"
    BY <1>5 DEF markFailed, RowsTrue, SettlementInv, TypeOK
  <2> QED
    BY <1>0, <1>5, <2>1 DEF markFailed, CompensationRow
<1>6. ASSUME NEW c \in Carriers, rowTurnsStale(c) PROVE Goal
  BY <1>0, <1>6 DEF rowTurnsStale, CompensationRow
<1>7. ASSUME UNCHANGED comp PROVE Goal
  BY <1>7
<1> HIDE DEF Goal
<1>8. ASSUME NEW a \in Actors, Settle(a) \/ transactionFails(a) \/ crash(a) PROVE Goal
  BY <1>7, <1>8 DEF Settle, settleTask, reconcileRefund, markWorkSettled, transactionFails, crash
<1>9. ASSUME NEW a \in Carriers \cup CompWorkers, recordCarrierTerminal(a) PROVE Goal
  BY <1>7, <1>9 DEF recordCarrierTerminal
<1>10. ASSUME NEW c \in Carriers, getUsage(c) \/ settleHarnessCancellation(c) PROVE Goal
  BY <1>7, <1>10 DEF getUsage, settleHarnessCancellation
<1>11. ASSUME NEW c \in Carriers, NEW o \in Outcomes[c], finish(c, o) PROVE Goal
  BY <1>7, <1>11 DEF finish
<1>12. ASSUME NEW w \in OutboxWorkers, claimReadyWorkSettlements(w) \/ markWorkSettlementFailed(w)
       PROVE  Goal
  BY <1>7, <1>12 DEF claimReadyWorkSettlements, markWorkSettlementFailed
<1>13. CASE leaseExpires \/ UNCHANGED vars
  BY <1>7, <1>13 DEF leaseExpires, vars
<1> QED
  BY <1>1, <1>2, <1>3, <1>4, <1>5, <1>6, <1>8, <1>9, <1>10, <1>11, <1>12, <1>13
     DEF Next, Workflow, Compensation, Outbox

\* Every step keeps compensation rows true to how their carrier ended.
LEMMA RowsTrueStep ==
  ASSUME SettlementInv, EndsOnce, RowsTrue, [Next]_vars
  PROVE  RowsTrue'
<1> USE ActorKinds
<1>1. ASSUME NEW c \in Carriers, comp'[c].status # "none"
      PROVE  TrueTo(comp[c].settlement, outcome[c])'
  <2>1. CASE comp[c].status # "none"
    <3>1. TrueTo(comp[c].settlement, outcome[c]) /\ comp'[c].settlement = comp[c].settlement
      BY <2>1, RowsKeepTruth DEF RowsTrue
    <3> QED
      BY <3>1, TruthIsKept DEF TrueTo
  <2>2. CASE comp[c].status = "none"
    BY <1>1, <2>2, RowsKeepTruth DEF TrueTo
  <2> QED
    BY <2>1, <2>2
<1>2. \A d \in Carriers : comp[d].status # "none" => comp'[d].status # "none"
  BY RowsKeepTruth
<1>3. ASSUME NEW w \in CompWorkers, pc'[w] # "idle" PROVE comp'[task'[w]].status # "none"
  <2>0. pc \in [Actors -> Phases] /\ task \in [CompWorkers -> Carriers] /\ w \in Actors
    BY DEF SettlementInv, TypeOK
  <2>1. ASSUME NEW v \in CompWorkers, NEW c \in Carriers, claimBatch(v, c)
        PROVE  comp'[task'[w]].status # "none"
    <3>1. comp[c].status # "none" /\ pc' = [pc EXCEPT ![v] = "record"] /\ task' = [task EXCEPT ![v] = c]
      BY <2>1 DEF claimBatch, Goto
    <3>2. CASE w = v
      BY <1>2, <2>0, <3>1, <3>2
    <3>3. CASE w # v
      <4>1. pc[w] # "idle" /\ task'[w] = task[w]
        BY <1>3, <2>0, <3>1, <3>3
      <4> QED
        BY <1>2, <2>0, <4>1 DEF RowsTrue
    <3> QED
      BY <3>2, <3>3
  <2>2. ASSUME UNCHANGED task, pc[w] # "idle" PROVE comp'[task'[w]].status # "none"
    BY <1>2, <2>0, <2>2 DEF RowsTrue
  <2>3. \/ \E v \in CompWorkers, c \in Carriers : claimBatch(v, c)
        \/ UNCHANGED task
    BY DEF Next, Workflow, Compensation, Outbox, Settle, finish, scheduleCompensation,
       recordCarrierTerminal, settleTask, reconcileRefund, markWorkSettled, getUsage, markCompleted,
       settleHarnessCancellation, markFailed, recoverOrphans, claimReadyWorkSettlements,
       markWorkSettlementFailed, leaseExpires, rowTurnsStale, transactionFails, crash, vars
  <2>4. \/ \E v \in CompWorkers, c \in Carriers : claimBatch(v, c)
        \/ pc[w] # "idle"
    <3>1. ASSUME NEW c \in Carriers, NEW o \in Outcomes[c], finish(c, o) PROVE pc[w] # "idle"
      BY <1>3, <2>0, <3>1 DEF finish, Goto
    <3>2. ASSUME NEW v \in OutboxWorkers, claimReadyWorkSettlements(v) PROVE pc[w] # "idle"
      BY <1>3, <2>0, <3>2 DEF claimReadyWorkSettlements, Goto
    <3>3. ASSUME NEW a \in Actors, NEW phase \in Phases, Moves(a, phase) PROVE pc[w] # "idle"
      BY <1>3, <2>0, <3>3 DEF Moves
    <3> QED
      BY <1>3, <3>1, <3>2, <3>3, ExecutionsMove
  <2> QED
    BY <2>1, <2>2, <2>3, <2>4
<1> QED
  BY <1>1, <1>3 DEF RowsTrue

\* Every step keeps it that a carrier ends once, with one of its outcomes.
LEMMA EndsOnceStep ==
  ASSUME SettlementInv, EndsOnce, RowsTrue, [Next]_vars
  PROVE  EndsOnce'
<1> USE ActorKinds
<1>0. pc \in [Actors -> Phases] /\ outcome \in [Carriers -> Outcome \cup {Unknown}]
  BY DEF SettlementInv, TypeOK
<1>1. \A d \in Carriers : comp[d].status # "none" => comp'[d].status # "none"
  BY RowsKeepTruth
<1>2. ASSUME NEW d \in Carriers, scheduled'[d] PROVE comp'[d].status # "none"
  <2>1. ASSUME NEW c \in Carriers, scheduleCompensation(c) PROVE comp'[d].status # "none"
    <3>1. comp'[c].status # "none"
      BY <2>1, SharedRows DEF scheduleCompensation, Enqueued
    <3>2. d # c => scheduled[d]
      BY <1>2, <2>1 DEF scheduleCompensation, SettlementInv, TypeOK
    <3> QED
      BY <1>1, <3>1, <3>2 DEF EndsOnce
  <2>2. ASSUME NEW a \in Actors, crash(a) PROVE comp'[d].status # "none"
    <3>1. scheduled[d]
      BY <1>2, <2>2 DEF crash
    <3> QED
      BY <1>1, <3>1 DEF EndsOnce
  <2>3. \/ \E c \in Carriers : scheduleCompensation(c)
        \/ \E a \in Actors : crash(a)
        \/ UNCHANGED scheduled
    BY DEF Next, Workflow, Compensation, Outbox, Settle, finish, claimBatch,
       recordCarrierTerminal, settleTask, reconcileRefund, markWorkSettled, getUsage, markCompleted,
       settleHarnessCancellation, markFailed, recoverOrphans, claimReadyWorkSettlements,
       markWorkSettlementFailed, leaseExpires, rowTurnsStale, transactionFails, vars
  <2> QED
    BY <1>1, <1>2, <2>1, <2>2, <2>3 DEF EndsOnce
<1> DEFINE Ends(d) == /\ pc'[d] # "failed"
                      /\ pc'[d] = "idle" => outcome'[d].action = "none"
                      /\ pc'[d] # "idle" => outcome'[d] \in Outcomes[d]
<1>3. ASSUME NEW d \in Carriers PROVE Ends(d)
  <2>1. ASSUME NEW c \in Carriers, NEW o \in Outcomes[c], finish(c, o) PROVE Ends(d)
    BY <1>0, <2>1 DEF finish, Goto, EndsOnce
  <2>2. (\A c \in Carriers : \A o \in Outcomes[c] : ~finish(c, o)) => UNCHANGED outcome
    BY DEF Next, Workflow, Compensation, Outbox, Settle, scheduleCompensation, recordCarrierTerminal,
       settleTask, reconcileRefund, markWorkSettled, getUsage, markCompleted, recoverOrphans,
       settleHarnessCancellation, markFailed, claimBatch, claimReadyWorkSettlements,
       markWorkSettlementFailed, leaseExpires, rowTurnsStale, transactionFails, crash, vars
  <2>3. ASSUME NEW w \in CompWorkers, NEW c \in Carriers, claimBatch(w, c) PROVE Ends(d)
    BY <1>0, <2>3 DEF claimBatch, Goto, EndsOnce
  <2>4. ASSUME NEW w \in OutboxWorkers, claimReadyWorkSettlements(w) PROVE Ends(d)
    BY <1>0, <2>4 DEF claimReadyWorkSettlements, Goto, EndsOnce
  <2>5. ASSUME NEW a \in Actors, NEW phase \in Phases, Moves(a, phase), UNCHANGED outcome PROVE Ends(d)
    BY <1>0, <2>5 DEF Moves, EndsOnce
  <2>6. ASSUME UNCHANGED pc, UNCHANGED outcome PROVE Ends(d)
    BY <2>6 DEF EndsOnce
  <2> QED
    BY <2>1, <2>2, <2>3, <2>4, <2>5, <2>6, ExecutionsMove
<1> QED
  BY <1>2, <1>3 DEF EndsOnce

-----------------------------------------------------------------------------
\* What an execution is about to record is true.
LEMMA RecordedIsTrue ==
  ASSUME SettlementInv, EndsOnce, RowsTrue, NEW a \in Carriers \cup CompWorkers, pc[a] # "idle"
  PROVE  TrueTo(Settlement(a), outcome[CarrierOf(a)])
<1>1. CASE a \in Carriers
  <2>1. outcome[a] \in Outcomes[a]
    BY <1>1 DEF EndsOnce
  <2>2. outcome[a].action # "none"
    BY <1>1, <2>1, OutcomesBounded DEF Outcome
  <2> QED
    BY <1>1, <2>2 DEF TrueTo, Settlement, CarrierOf
<1>2. CASE a \in CompWorkers
  BY <1>2, ActorKinds DEF RowsTrue, Settlement, CarrierOf, SettlementInv, TypeOK
<1> QED
  BY <1>1, <1>2

\* The three outcomes of recordCarrierTerminal: it throws, repeats what is there, or adds
\* one receipt and, with the last one, the ready Work.
LEMMA RecordKinds ==
  ASSUME SettlementInv, NEW a \in Carriers \cup CompWorkers, recordCarrierTerminal(a)
  PROVE  /\ UNCHANGED <<outcome, usage, orphans>>
         /\ \/ UNCHANGED <<receipts, work>>
            \/ /\ CarrierOf(a) \in Carriers
               /\ receipts[CarrierOf(a)] = NoReceipt \/ receipts' = receipts
               /\ \A d \in Carriers \ {CarrierOf(a)} : receipts'[d] = receipts[d]
               /\ receipts' # receipts =>
                    /\ receipts'[CarrierOf(a)] # NoReceipt
                    /\ receipts'[CarrierOf(a)].settlement = Settlement(a)
               /\ \/ UNCHANGED work
                  \/ /\ work.status = "collecting"
                     /\ \A d \in Carriers : receipts'[d] # NoReceipt
                     /\ work' = reduceCarrierReceiptsForWork(receipts')
<1> DEFINE c == CarrierOf(a)
           by == IF a \in Carriers THEN "direct" ELSE "queue"
           rs == IF receipts[c] = NoReceipt
                 THEN [receipts EXCEPT ![c] = [settlement |-> Settlement(a), by |-> by]] ELSE receipts
<1>0. c \in Carriers /\ UNCHANGED <<outcome, usage, orphans>>
  BY SettlementType DEF recordCarrierTerminal
<1>1. [settlement |-> Settlement(a), by |-> by] # NoReceipt
  BY DEF NoReceipt
<1>2. /\ \A d \in Carriers \ {c} : rs[d] = receipts[d]
      /\ rs # receipts => rs[c] # NoReceipt /\ rs[c].settlement = Settlement(a)
      /\ receipts[c] = NoReceipt \/ rs = receipts
  BY <1>0, <1>1 DEF SettlementInv, TypeOK
<1>3. \/ UNCHANGED <<receipts, work>>
      \/ /\ receipts' = rs
         /\ \/ UNCHANGED work
            \/ /\ work.status = "collecting" /\ \A d \in Carriers : rs[d] # NoReceipt
               /\ work' = reduceCarrierReceiptsForWork(rs)
  BY DEF recordCarrierTerminal
<1> HIDE DEF rs
<1>4. CASE UNCHANGED <<receipts, work>>
  BY <1>0, <1>4
<1>5. CASE receipts' = rs /\ UNCHANGED work
  BY <1>0, <1>2, <1>5
<1>6. CASE /\ receipts' = rs
           /\ work.status = "collecting" /\ \A d \in Carriers : rs[d] # NoReceipt
           /\ work' = reduceCarrierReceiptsForWork(rs)
  BY <1>0, <1>2, <1>6
<1> QED
  BY <1>3, <1>4, <1>5, <1>6

\* Who touches receipts, the Work and the usage, and nothing else of theirs.
LEMMA WhoSettles ==
  ASSUME SettlementInv, [Next]_vars
  PROVE  \/ \E a \in Carriers \cup CompWorkers : recordCarrierTerminal(a)
         \/ \E a \in Actors : settleTask(a) \/ markWorkSettled(a)
         \/ UNCHANGED <<receipts, work, usage>>
<1> USE ActorKinds
<1>1. ASSUME NEW a \in Actors, Settle(a)
      PROVE  settleTask(a) \/ markWorkSettled(a) \/ UNCHANGED <<receipts, work, usage>>
  BY <1>1 DEF Settle, reconcileRefund
<1>2. ASSUME NEW c \in Carriers, Workflow(c)
      PROVE  recordCarrierTerminal(c) \/ Settle(c) \/ UNCHANGED <<receipts, work, usage>>
  BY <1>2 DEF Workflow, scheduleCompensation, getUsage, markCompleted, settleHarnessCancellation
<1>3. ASSUME NEW w \in CompWorkers, Compensation(w)
      PROVE  recordCarrierTerminal(w) \/ Settle(w) \/ UNCHANGED <<receipts, work, usage>>
  BY <1>3 DEF Compensation, markCompleted, markFailed
<1>4. ASSUME NEW w \in OutboxWorkers, claimReadyWorkSettlements(w) \/ Outbox(w)
      PROVE  Settle(w) \/ UNCHANGED <<receipts, work, usage>>
  BY <1>4 DEF Outbox, claimReadyWorkSettlements, markWorkSettlementFailed
<1>5. ASSUME NEW c \in Carriers, \/ \E o \in Outcomes[c] : finish(c, o)
                                 \/ \E w \in CompWorkers : claimBatch(w, c)
                                 \/ rowTurnsStale(c) \/ recoverOrphans(c)
      PROVE  UNCHANGED <<receipts, work, usage>>
  BY <1>5 DEF finish, claimBatch, rowTurnsStale, recoverOrphans
<1>6. ASSUME NEW a \in Actors, transactionFails(a) \/ crash(a) PROVE UNCHANGED <<receipts, work, usage>>
  BY <1>6 DEF transactionFails, crash
<1>7. leaseExpires \/ UNCHANGED vars => UNCHANGED <<receipts, work, usage>>
  BY DEF leaseExpires, vars
<1> QED
  BY <1>1, <1>2, <1>3, <1>4, <1>5, <1>6, <1>7 DEF Next

\* Every step keeps receipts true to how their carrier ended.
LEMMA ReceiptsTrueStep ==
  ASSUME SettlementInv, EndsOnce, RowsTrue, ReceiptsTrue, [Next]_vars
  PROVE  ReceiptsTrue'
<1>1. ASSUME NEW d \in Carriers, receipts'[d] # NoReceipt
      PROVE  TrueTo(receipts[d].settlement, outcome[d])'
  <2>1. CASE receipts'[d] = receipts[d]
    <3>1. TrueTo(receipts[d].settlement, outcome[d])
      BY <1>1, <2>1 DEF ReceiptsTrue
    <3> QED
      BY <2>1, <3>1, TruthIsKept DEF TrueTo
  <2>2. ASSUME NEW a \in Carriers \cup CompWorkers, recordCarrierTerminal(a), receipts'[d] # receipts[d]
        PROVE  TrueTo(receipts[d].settlement, outcome[d])'
    <3>1. d = CarrierOf(a) /\ receipts'[d].settlement = Settlement(a)
      BY <2>2, RecordKinds
    <3>2. TrueTo(Settlement(a), outcome[d])
      BY <2>2, <3>1, RecordedIsTrue DEF recordCarrierTerminal
    <3> QED
      BY <3>1, <3>2, TruthIsKept DEF TrueTo
  <2>3. ASSUME NEW a \in Actors, settleTask(a) \/ markWorkSettled(a) PROVE receipts'[d] = receipts[d]
    BY <2>3 DEF settleTask, markWorkSettled
  <2> QED
    BY <2>1, <2>2, <2>3, WhoSettles
<1> QED
  BY <1>1 DEF ReceiptsTrue

\* Every step keeps the Work's settlement the reduction of its receipts.
LEMMA WorkTrueStep ==
  ASSUME SettlementInv, WorkTrue, [Next]_vars
  PROVE  WorkTrue'
<1>1. ASSUME NEW a \in Carriers \cup CompWorkers, recordCarrierTerminal(a) PROVE WorkTrue'
  <2>1. CASE UNCHANGED <<receipts, work>>
    BY <2>1 DEF WorkTrue
  <2>2. CASE UNCHANGED work /\ ~UNCHANGED receipts
    <3>1. receipts[CarrierOf(a)] = NoReceipt /\ CarrierOf(a) \in Carriers
      BY <1>1, <2>2, RecordKinds
    <3>2. work'.status = "collecting"
      BY <2>2, <3>1 DEF WorkTrue
    <3> QED
      BY <3>2 DEF WorkTrue
  <2>3. CASE /\ \A d \in Carriers : receipts'[d] # NoReceipt
             /\ work' = reduceCarrierReceiptsForWork(receipts')
    BY <2>3 DEF WorkTrue, reduceCarrierReceiptsForWork
  <2> QED
    BY <1>1, <2>1, <2>2, <2>3, RecordKinds
<1>2. ASSUME NEW a \in Actors, markWorkSettled(a) PROVE WorkTrue'
  <2>1. UNCHANGED receipts /\ (UNCHANGED work \/ work' = [work EXCEPT !.status = "settled"])
    BY <1>2 DEF markWorkSettled
  <2>2. work.status # "collecting"
    BY <1>2 DEF markWorkSettled, SettlementInv, Stages
  <2>3. work' = [work EXCEPT !.status = work'.status]
    BY <2>1 DEF SettlementInv, TypeOK
  <2>4. work' = [reduceCarrierReceiptsForWork(receipts) EXCEPT !.status = work'.status]
    BY <2>2, <2>3 DEF WorkTrue, reduceCarrierReceiptsForWork
  <2> QED
    BY <2>1, <2>2, <2>4 DEF WorkTrue
<1>3. ASSUME NEW a \in Actors, settleTask(a) PROVE UNCHANGED <<receipts, work>>
  BY <1>3 DEF settleTask
<1>4. ASSUME UNCHANGED <<receipts, work>> PROVE WorkTrue'
  BY <1>4 DEF WorkTrue
<1> QED
  BY <1>1, <1>2, <1>3, <1>4, WhoSettles

\* A Work that is no package has one carrier.
LEMMA OnlyCarrier ==
  ASSUME ~Multi, NEW c \in Carriers, NEW d \in Carriers
  PROVE  c = d
<1>1. Cardinality(Carriers) \in Nat /\ Cardinality(Carriers) <= 1 /\ IsFiniteSet(Carriers)
  BY SettlementAssumption, FS_CardinalityType DEF Multi
<1>2. {c, d} \subseteq Carriers
  OBVIOUS
<1>3. Cardinality({c, d}) <= 1 /\ IsFiniteSet({c, d})
  <2>1. IsFiniteSet({c, d}) /\ Cardinality({c, d}) <= Cardinality(Carriers)
    BY <1>1, <1>2, FS_Subset
  <2>2. Cardinality({c, d}) \in Nat
    BY <2>1, FS_CardinalityType
  <2> QED
    BY <1>1, <2>1, <2>2
<1>4. SUFFICES ASSUME c # d PROVE FALSE
  OBVIOUS
<1>5. {c, d} = {c} \cup {d} /\ d \notin {c}
  BY <1>4
<1>6. Cardinality({c}) = 1 /\ IsFiniteSet({c})
  BY FS_Singleton
<1>7. Cardinality({c} \cup {d}) = Cardinality({c}) + 1
  BY <1>5, <1>6, FS_AddElement
<1> QED
  BY <1>3, <1>5, <1>6, <1>7

\* The payload of a ready Work, in terms of how the workflows ended.
LEMMA PayloadIsTrue ==
  ASSUME SettlementInv, Provenance, work.status # "collecting"
  PROVE  /\ \A c \in Carriers : outcome[c] \in Outcomes[c] /\ outcome[c].action \in {"commit", "refund"}
         /\ orphans = 0 => work.delivered = [c \in Carriers |-> outcome[c].delivered]
         /\ ~Multi => \A c \in Carriers : work.action = outcome[c].action
         /\ Multi => work.action = IF \E c \in Carriers : work.delivered[c] > 0
                                   THEN "commit" ELSE "refund"
         /\ work.force <=> work.action = "refund" /\ \E c \in Carriers : outcome[c].force
<1>1. ASSUME NEW c \in Carriers
      PROVE  /\ TrueTo(receipts[c].settlement, outcome[c])
             /\ outcome[c] \in Outcomes[c] /\ outcome[c].action \in {"commit", "refund"}
  <2>1. TrueTo(receipts[c].settlement, outcome[c])
    BY DEF Provenance, WorkTrue, ReceiptsTrue
  <2>2. outcome[c] \in Outcomes[c]
    BY <2>1 DEF TrueTo, Provenance, EndsOnce
  <2> QED
    BY <2>1, <2>2, OutcomesBounded DEF Outcome
<1> DEFINE only == CHOOSE c \in Carriers : TRUE
<1>2. only \in Carriers
  BY SettlementAssumption
<1>3. /\ work.delivered = [c \in Carriers |-> receipts[c].settlement.delivered]
      /\ work.action = IF ~Multi THEN receipts[only].settlement.action
                       ELSE IF \E c \in Carriers : receipts[c].settlement.delivered > 0
                            THEN "commit" ELSE "refund"
      /\ work.force = (work.action = "refund" /\ \E c \in Carriers : receipts[c].settlement.force)
  BY DEF Provenance, WorkTrue, reduceCarrierReceiptsForWork
<1>4. ~Multi => \A c \in Carriers : c = only
  BY <1>2, OnlyCarrier
<1> HIDE DEF only
<1>5. orphans = 0 => work.delivered = [c \in Carriers |-> outcome[c].delivered]
  BY <1>1, <1>3 DEF TrueTo
<1>6. ~Multi => \A c \in Carriers : work.action = outcome[c].action
  BY <1>1, <1>2, <1>3, <1>4 DEF TrueTo
<1>7. Multi => work.action = IF \E c \in Carriers : work.delivered[c] > 0 THEN "commit" ELSE "refund"
  BY <1>3
<1>8. work.force <=> work.action = "refund" /\ \E c \in Carriers : outcome[c].force
  <2>1. \A c \in Carriers : receipts[c].settlement.force = outcome[c].force
    BY <1>1 DEF TrueTo
  <2>2. (\E c \in Carriers : receipts[c].settlement.force) <=> \E c \in Carriers : outcome[c].force
    BY <2>1
  <2> QED
    BY <1>3, <2>2
<1> QED
  BY <1>1, <1>5, <1>6, <1>7, <1>8

\* Whoever decides the usage charges what was delivered.
LEMMA DecisionIsFair ==
  ASSUME SettlementInv, Provenance, orphans = 0, work.status # "collecting",
         ~(work.action = "commit" /\ work.delivered = NoneDelivered),
         NEW d, d = [c \in Carriers |-> outcome[c].delivered]
  PROVE  (IF work.action = "commit" THEN settleQuote(work.delivered)
          ELSE failAndRefund(work.force)).refunded =
            IF d = NoneDelivered /\ \E c \in Carriers : outcome[c].force
            THEN Reserved ELSE computePackagePartialCreditSettlement(d)
<1>1. work.delivered = d
  BY PayloadIsTrue
<1>2. CASE work.action = "commit"
  BY <1>1, <1>2 DEF settleQuote, settleUsage
<1>3. CASE work.action # "commit"
  <2>1. work.action = "refund"
    <3>1. CASE Multi
      BY <1>3, <3>1, PayloadIsTrue
    <3>2. CASE ~Multi
      <4>1. PICK c \in Carriers : TRUE
        BY SettlementAssumption
      <4> QED
        BY <1>3, <3>2, <4>1, PayloadIsTrue
    <3> QED
      BY <3>1, <3>2
  <2>2. \A c \in Carriers : d[c] = 0
    <3>1. CASE Multi
      <4>1. \A c \in Carriers : ~(work.delivered[c] > 0)
        BY <2>1, <3>1, PayloadIsTrue
      <4>2. \A c \in Carriers : work.delivered[c] \in 0..MaxUnits
        BY DEF SettlementInv, TypeOK
      <4> QED
        BY <1>1, <4>1, <4>2, SettlementAssumption
    <3>2. CASE ~Multi
      <4>1. \A c \in Carriers : outcome[c].action = "refund" /\ outcome[c] \in Outcomes[c]
        BY <2>1, <3>2, PayloadIsTrue
      <4>2. \A c \in Carriers : outcome[c].delivered = 0
        BY <4>1, SettlementAssumption
      <4> QED
        BY <4>2
    <3> QED
      BY <3>1, <3>2
  <2>3. d = NoneDelivered
    BY <2>2 DEF NoneDelivered
  <2>4. work.force <=> \E c \in Carriers : outcome[c].force
    BY <2>1, PayloadIsTrue
  <2>5. CASE work.force
    BY <1>3, <2>3, <2>4, <2>5 DEF failAndRefund, refundUsage
  <2>6. CASE ~work.force
    BY <1>3, <2>3, <2>4, <2>6 DEF failAndRefund, settleQuote, settleUsage
  <2> QED
    BY <2>5, <2>6
<1> QED
  BY <1>2, <1>3

\* Every step keeps the charge the price of what the receipts say was delivered.
LEMMA UsageTrueStep ==
  ASSUME SettlementInv, Provenance, [Next]_vars
  PROVE  UsageTrue'
<1>0. work.status # "collecting" => work'.status # "collecting"
  <2>1. ASSUME NEW a \in Carriers \cup CompWorkers, recordCarrierTerminal(a), work.status # "collecting"
        PROVE  work' = work
    BY <2>1, RecordKinds
  <2>2. ASSUME NEW a \in Actors, settleTask(a) \/ markWorkSettled(a), work.status # "collecting"
        PROVE  work' = work \/ work'.status = "settled"
    BY <2>2 DEF settleTask, markWorkSettled, SettlementInv, TypeOK
  <2> QED
    BY <2>1, <2>2, WhoSettles
<1>1. usage' = usage \/ \E a \in Actors : settleTask(a) /\ usage.status = "reserved"
  <2>1. ASSUME NEW a \in Carriers \cup CompWorkers, recordCarrierTerminal(a) PROVE usage' = usage
    BY <2>1 DEF recordCarrierTerminal
  <2>2. ASSUME NEW a \in Actors, markWorkSettled(a) PROVE usage' = usage
    BY <2>2 DEF markWorkSettled
  <2>3. ASSUME NEW a \in Actors, settleTask(a) PROVE usage' = usage \/ usage.status = "reserved"
    BY <2>3 DEF settleTask
  <2> QED
    BY <2>1, <2>2, <2>3, WhoSettles
<1>2. usage'.status # "reserved" => work.status # "collecting"
  BY <1>1 DEF settleTask, SettlementInv, Stages, Provenance, UsageTrue
<1>3. ASSUME orphans' = 0, usage'.status # "reserved"
      PROVE  LET d == [c \in Carriers |-> outcome'[c].delivered] IN
             usage'.refunded = IF d = NoneDelivered /\ \E c \in Carriers : outcome'[c].force
                               THEN Reserved ELSE computePackagePartialCreditSettlement(d)
  <2>1. orphans = 0 /\ \A c \in Carriers : outcome'[c] = outcome[c]
    BY <1>2, <1>3, PayloadIsTrue, EndIsFinal DEF Provenance
  <2>2. PICK d : d = [c \in Carriers |-> outcome[c].delivered]
    OBVIOUS
  <2>3. /\ d = [c \in Carriers |-> outcome'[c].delivered]
        /\ (\E c \in Carriers : outcome'[c].force) <=> (\E c \in Carriers : outcome[c].force)
    BY <2>1, <2>2
  <2> DEFINE Fair(refunded) == refunded = IF d = NoneDelivered /\ \E c \in Carriers : outcome[c].force
                                          THEN Reserved ELSE computePackagePartialCreditSettlement(d)
  <2>4. Fair(usage'.refunded)
    <3>1. CASE usage' = usage
      <4>1. ChargeMatchesDelivery /\ usage.status # "reserved"
        BY <1>3, <2>1, <3>1 DEF Provenance, UsageTrue
      <4> QED
        BY <2>2, <3>1, <4>1 DEF ChargeMatchesDelivery
    <3>2. ASSUME NEW a \in Actors, settleTask(a), usage.status = "reserved" PROVE Fair(usage'.refunded)
      <4>1. /\ ~(work.action = "commit" /\ work.delivered = NoneDelivered)
            /\ usage' = IF work.action = "commit" THEN settleQuote(work.delivered)
                        ELSE failAndRefund(work.force)
        BY <1>3, <3>2 DEF settleTask
      <4>2. PICK u : u = IF work.action = "commit" THEN settleQuote(work.delivered)
                         ELSE failAndRefund(work.force)
        OBVIOUS
      <4>3. Fair(u.refunded)
        BY <1>2, <1>3, <2>1, <2>2, <4>1, <4>2, DecisionIsFair
      <4> QED
        BY <4>1, <4>2, <4>3
    <3> QED
      BY <1>1, <3>1, <3>2
  <2> QED
    BY <2>3, <2>4
<1>4. (orphans = 0 => ChargeMatchesDelivery)'
  BY <1>3 DEF ChargeMatchesDelivery
<1> QED
  BY <1>0, <1>2, <1>4 DEF UsageTrue

\* Every step keeps what is settled true to what happened.
LEMMA ProvenanceStep == SettlementInv /\ Provenance /\ [Next]_vars => Provenance'
<1> SUFFICES ASSUME SettlementInv, Provenance, [Next]_vars PROVE Provenance'
  OBVIOUS
<1>1. EndsOnce' /\ RowsTrue' /\ ReceiptsTrue'
  BY EndsOnceStep, RowsTrueStep, ReceiptsTrueStep DEF Provenance
<1>2. WorkTrue' /\ UsageTrue'
  BY WorkTrueStep, UsageTrueStep DEF Provenance
<1> QED
  BY <1>1, <1>2 DEF Provenance

\* Rows, receipts and the Work's payload tell how the workflows ended.
THEOREM ProvenanceInvariance == Spec => []Provenance
BY InitProvenance, ProvenanceStep, SettlementInvariance, PTL DEF Spec

\* The merchant is charged the price of what was delivered, whichever execution settles
\* the Work and from whatever row: unless recoverOrphans has rebuilt a row, whose audit
\* events do not tell the delivered units.
THEOREM ChargesMatchDelivery == Spec => [](orphans = 0 => ChargeMatchesDelivery)
<1>1. Provenance => (orphans = 0 => ChargeMatchesDelivery)
  BY DEF Provenance, UsageTrue
<1> QED
  BY <1>1, ProvenanceInvariance, PTL

-----------------------------------------------------------------------------
(* What a failed workflow tells the merchant. *)

\* A Work of one carrier whose failures give something back, and whose hold cannot expire.
PlainWork ==
  /\ ~Multi
  /\ \A c \in Carriers : \A o \in Outcomes[c] :
       ~o.cancelled /\ (o.action = "refund" => failAndRefund(o.force).refunded > 0)

\* A workflow that may speak of a refund has seen its Work closed.
SpeaksLast ==
  \A c \in Carriers :
    /\ pc[c] # "cancelled"
    /\ receipts[c] # NoReceipt => work.status # "collecting"
    /\ pc[c] = "getUsage" \/ told[c] = "refunded" =>
         work.status = "settled" /\ outcome[c].action = "refund"

\* A usage decided for a failure gives back what the failure policy says.
FailureIsRefunded ==
  \A c \in Carriers : usage.status # "reserved" /\ outcome[c].action = "refund" =>
                        usage.refunded = failAndRefund(outcome[c].force).refunded

\* Nobody's hold expires, so that the refund path ends where it is over.
LEMMA PlainPhases ==
  ASSUME PlainWork, SettlementInv, EndsOnce, NEW c \in Carriers, pc[c] # "cancelled"
  PROVE  /\ Ended(c) = "done"
         /\ Thrown(c) \in {"done", "reschedule"}
         /\ Caught(c) \in {"done", "reschedule", "record"}
         /\ Returned(c) = "getUsage" => outcome[c].action = "refund"
<1>1. ~outcome[c].cancelled
  <2>1. CASE outcome[c] \in Outcomes[c]
    BY <2>1 DEF PlainWork
  <2>2. CASE outcome[c] \notin Outcomes[c]
    <3>1. outcome[c].action = "none"
      BY <2>2 DEF EndsOnce
    <3> QED
      BY <3>1 DEF SettlementInv, TypeOK, Outcome, Unknown
  <2> QED
    BY <2>1, <2>2
<1>2. Ended(c) = "done"
  BY <1>1 DEF Ended
<1>3. Thrown(c) \in {"done", "reschedule"}
  BY <1>2 DEF Thrown
<1>4. Caught(c) \in {"done", "reschedule", "record"}
  BY <1>2, <1>3 DEF Caught, EndsOnce
<1>5. Returned(c) = "getUsage" => outcome[c].action = "refund"
  BY ActorKinds DEF Returned
<1> QED
  BY <1>2, <1>3, <1>4, <1>5

\* The one receipt of a Work without a package closes the collection.
LEMMA RecordAlone ==
  ASSUME PlainWork, SettlementInv, Provenance, SpeaksLast, NEW a \in Carriers \cup CompWorkers,
         recordCarrierTerminal(a)
  PROVE  \/ UNCHANGED <<receipts, work>> /\ Goto(a, Thrown(a))
         \/ /\ work'.status # "collecting"
            /\ Goto(a, IF work'.status = "ready" THEN "settleTask" ELSE Returned(a))
<1>1. PICK c : c = CarrierOf(a) /\ c \in Carriers
  BY SettlementType
<1>2. \A d \in Carriers : d = c
  BY <1>1, OnlyCarrier DEF PlainWork
<1>3. PICK by : by = (IF a \in Carriers THEN "direct" ELSE "queue")
  OBVIOUS
<1>4. PICK rs : rs = IF receipts[c] = NoReceipt
                     THEN [receipts EXCEPT ![c] = [settlement |-> Settlement(a), by |-> by]]
                     ELSE receipts
  OBVIOUS
<1>5. rs[c] # NoReceipt
  <2>1. [settlement |-> Settlement(a), by |-> by] # NoReceipt
    BY <1>3 DEF NoReceipt
  <2> QED
    BY <1>1, <1>4, <2>1 DEF SettlementInv, TypeOK
<1>6. \/ UNCHANGED <<receipts, work>> /\ Goto(a, Thrown(a))
      \/ /\ work' = IF work.status = "collecting" /\ \A d \in Carriers : rs[d] # NoReceipt
                    THEN reduceCarrierReceiptsForWork(rs) ELSE work
         /\ Goto(a, IF work'.status = "ready" THEN "settleTask" ELSE Returned(a))
  BY <1>1, <1>3, <1>4 DEF recordCarrierTerminal
<1>7. reduceCarrierReceiptsForWork(rs).status = "ready"
  BY DEF reduceCarrierReceiptsForWork
<1> QED
  BY <1>2, <1>5, <1>6, <1>7

\* For a plain Work every step keeps it that a refund is told after the Work was closed.
LEMMA SpeaksLastStep ==
  ASSUME PlainWork, SettlementInv, SettlementInv', Provenance, SpeaksLast, [Next]_vars
  PROVE  SpeaksLast'
<1> USE ActorKinds
<1>0. /\ pc \in [Actors -> Phases] /\ told \in [Carriers -> {"none", "refunded", "pending"}]
      /\ EndsOnce /\ work'.status \in {"collecting", "ready", "settled"}
  BY DEF SettlementInv, TypeOK, Provenance
<1>1. /\ work.status = "settled" => work'.status = "settled"
      /\ work.status # "collecting" => work'.status # "collecting"
      /\ \A c \in Carriers : outcome[c].action = "refund" => outcome'[c].action = "refund"
  <2>1. work.status = "settled" => work'.status = "settled"
    BY StepMoves DEF Idles, Decides, Pays, Closes
  <2>2. \A a \in Carriers \cup CompWorkers : recordCarrierTerminal(a) =>
          (work.status # "collecting" => work'.status # "collecting")
    BY RecordKinds
  <2>3. \A a \in Actors : settleTask(a) \/ markWorkSettled(a) =>
          (work.status # "collecting" => work'.status # "collecting")
    BY DEF settleTask, markWorkSettled, SettlementInv, TypeOK
  <2>4. work.status # "collecting" => work'.status # "collecting"
    BY <2>2, <2>3, WhoSettles
  <2> QED
    BY <1>0, <2>1, <2>4, EndIsFinal
<1> DEFINE Spoken(c) ==
             /\ pc'[c] # "cancelled"
             /\ pc'[c] = "getUsage" \/ told'[c] = "refunded" =>
                  work'.status = "settled" /\ outcome'[c].action = "refund"
           Tells(c) == told'[c] = "refunded" => told[c] = "refunded"
\* A step that moves execution a only.
<1>2. ASSUME NEW a \in Actors, NEW phase, pc' = [pc EXCEPT ![a] = phase],
             a \in Carriers => phase # "cancelled", \A c \in Carriers : Tells(c),
             a \in Carriers /\ phase = "getUsage" =>
               work'.status = "settled" /\ outcome[a].action = "refund"
      PROVE  \A c \in Carriers : Spoken(c)
  BY <1>0, <1>1, <1>2 DEF SpeaksLast
<1>3. ASSUME UNCHANGED <<pc, told>> PROVE \A c \in Carriers : Spoken(c)
  BY <1>1, <1>3 DEF SpeaksLast
<1> HIDE DEF Spoken
<1>4. ASSUME NEW a \in Actors, settleTask(a) \/ reconcileRefund(a) PROVE \A c \in Carriers : Spoken(c)
  <2>1. PICK phase : /\ pc' = [pc EXCEPT ![a] = phase] /\ UNCHANGED told
                     /\ phase \in {"reconcileRefund", "markWorkSettled", Thrown(a)}
    BY <1>4 DEF settleTask, reconcileRefund, Goto
  <2>2. phase \notin {"cancelled", "getUsage"}
    BY <1>0, <2>1, PlainPhases DEF SpeaksLast, Thrown
  <2> QED
    BY <1>2, <2>1, <2>2
<1>5. ASSUME NEW a \in Actors, markWorkSettled(a) PROVE \A c \in Carriers : Spoken(c)
  <2>1. CASE Goto(a, Thrown(a)) /\ a \notin Carriers
    <3>1. pc' = [pc EXCEPT ![a] = "failed"] /\ UNCHANGED told
      BY <1>5, <2>1 DEF markWorkSettled, Goto, Thrown
    <3> QED
      BY <1>2, <3>1
  <2>2. CASE /\ work' = IF work.status = "ready" THEN [work EXCEPT !.status = "settled"] ELSE work
             /\ Goto(a, Returned(a))
    <3>1. work'.status = "settled"
      BY <1>5, <2>2 DEF markWorkSettled, SettlementInv, TypeOK, Stages
    <3>2. /\ pc' = [pc EXCEPT ![a] = Returned(a)] /\ UNCHANGED told
          /\ Returned(a) # "cancelled"
      BY <1>5, <2>2, PhaseTypes DEF markWorkSettled, Goto
    <3> QED
      BY <1>0, <1>2, <3>1, <3>2, PlainPhases DEF SpeaksLast
  <2> QED
    BY <1>5, <2>1, <2>2 DEF markWorkSettled
<1>6. ASSUME NEW a \in Carriers \cup CompWorkers, recordCarrierTerminal(a)
      PROVE  \A c \in Carriers : Spoken(c)
  <2>0. a \in Actors /\ UNCHANGED told
    BY <1>6 DEF recordCarrierTerminal
  <2>1. CASE Goto(a, Thrown(a))
    <3>1. Thrown(a) \notin {"cancelled", "getUsage"}
      BY <1>0, PlainPhases DEF SpeaksLast, Thrown
    <3> QED
      BY <1>2, <2>0, <2>1, <3>1 DEF Goto
  <2>2. CASE /\ work'.status # "collecting"
             /\ Goto(a, IF work'.status = "ready" THEN "settleTask" ELSE Returned(a))
    <3>1. CASE work'.status = "ready"
      BY <1>2, <2>0, <2>2, <3>1 DEF Goto
    <3>2. CASE work'.status = "settled"
      <4>1. pc' = [pc EXCEPT ![a] = Returned(a)] /\ Returned(a) # "cancelled"
        BY <2>0, <2>2, <3>2, PhaseTypes DEF Goto
      <4> QED
        BY <1>0, <1>2, <2>0, <3>2, <4>1, PlainPhases DEF SpeaksLast
    <3> QED
      BY <1>0, <2>2, <3>1, <3>2
  <2> QED
    BY <1>6, <2>1, <2>2, RecordAlone
<1>7. ASSUME NEW c \in Carriers, scheduleCompensation(c) PROVE \A d \in Carriers : Spoken(d)
  <2>1. PICK phase : /\ pc' = [pc EXCEPT ![c] = phase] /\ UNCHANGED told
                     /\ phase \in {"done", "record", Ended(c)}
    BY <1>7 DEF scheduleCompensation, Goto
  <2>2. phase \notin {"cancelled", "getUsage"}
    BY <1>0, <2>1, PlainPhases DEF SpeaksLast
  <2> QED
    BY <1>2, <2>1, <2>2
<1>8. ASSUME NEW c \in Carriers, getUsage(c) PROVE \A d \in Carriers : Spoken(d)
  <2>1. /\ pc' = [pc EXCEPT ![c] = "complete"] /\ pc[c] = "getUsage"
        /\ \A d \in Carriers \ {c} : told'[d] = told[d]
    BY <1>0, <1>8 DEF getUsage, Goto
  <2> QED
    BY <1>0, <1>1, <2>1 DEF Spoken, SpeaksLast
<1>9. ASSUME NEW c \in Carriers, settleHarnessCancellation(c) PROVE FALSE
  BY <1>9 DEF settleHarnessCancellation, SpeaksLast
<1>10. ASSUME NEW a \in Carriers \cup CompWorkers, markCompleted(a) PROVE \A d \in Carriers : Spoken(d)
  <2>1. PICK phase : /\ pc' = [pc EXCEPT ![a] = phase] /\ UNCHANGED told
                     /\ phase = IF a \in Carriers THEN Ended(a) ELSE "idle"
    BY <1>10 DEF markCompleted, Goto
  <2>2. phase \notin {"cancelled", "getUsage"} /\ a \in Actors
    BY <1>0, <2>1, PlainPhases DEF SpeaksLast
  <2> QED
    BY <1>2, <2>1, <2>2
<1>11. ASSUME NEW a \in Actors, transactionFails(a) PROVE \A d \in Carriers : Spoken(d)
  <2>1. pc' = [pc EXCEPT ![a] = Caught(a)] /\ UNCHANGED told
    BY <1>11 DEF transactionFails, Goto
  <2>2. a \in Carriers => Caught(a) \notin {"cancelled", "getUsage"}
    BY <1>0, PlainPhases DEF SpeaksLast
  <2> QED
    BY <1>2, <2>1, <2>2
<1>12. ASSUME NEW a \in Actors, crash(a) PROVE \A d \in Carriers : Spoken(d)
  <2>1. PICK phase : /\ pc' = [pc EXCEPT ![a] = phase]
                     /\ phase = IF a \notin Carriers THEN "idle"
                                ELSE IF pc[a] \in {"reschedule", "cancelled"} THEN pc[a] ELSE "enqueue"
    BY <1>12 DEF crash, Goto
  <2>2. phase \notin {"cancelled", "getUsage"}
    BY <2>1 DEF SpeaksLast
  <2>3. \A d \in Carriers : Tells(d)
    BY <1>12 DEF crash
  <2> QED
    BY <1>2, <2>1, <2>2, <2>3
<1>13. ASSUME NEW c \in Carriers, NEW o \in Outcomes[c], finish(c, o) PROVE \A d \in Carriers : Spoken(d)
  <2>1. pc' = [pc EXCEPT ![c] = "enqueue"] /\ UNCHANGED told
    BY <1>13 DEF finish, Goto
  <2> QED
    BY <1>2, <2>1
<1>14. ASSUME NEW w \in CompWorkers \cup OutboxWorkers, NEW phase \in {"record", "settleTask", "idle"},
              Goto(w, phase), UNCHANGED told
       PROVE  \A d \in Carriers : Spoken(d)
  BY <1>2, <1>14 DEF Goto
<1>15. ASSUME NEW w \in CompWorkers, NEW c \in Carriers, claimBatch(w, c) PROVE \A d \in Carriers : Spoken(d)
  BY <1>14, <1>15 DEF claimBatch
<1>16. ASSUME NEW w \in CompWorkers, markFailed(w) PROVE \A d \in Carriers : Spoken(d)
  BY <1>14, <1>16 DEF markFailed
<1>17. ASSUME NEW w \in OutboxWorkers, claimReadyWorkSettlements(w) \/ markWorkSettlementFailed(w)
       PROVE  \A d \in Carriers : Spoken(d)
  BY <1>14, <1>17 DEF claimReadyWorkSettlements, markWorkSettlementFailed
<1>18. ASSUME NEW c \in Carriers, rowTurnsStale(c) \/ recoverOrphans(c) PROVE \A d \in Carriers : Spoken(d)
  BY <1>3, <1>18 DEF rowTurnsStale, recoverOrphans
<1>19. leaseExpires \/ UNCHANGED vars => \A d \in Carriers : Spoken(d)
  BY <1>3 DEF leaseExpires, vars
<1>20. \A d \in Carriers : Spoken(d)
  BY <1>4, <1>5, <1>6, <1>7, <1>8, <1>9, <1>10, <1>11, <1>12, <1>13, <1>15, <1>16, <1>17, <1>18, <1>19
     DEF Next, Workflow, Compensation, Outbox, Settle
<1>21. ASSUME NEW d \in Carriers, receipts'[d] # NoReceipt PROVE work'.status # "collecting"
  <2>1. ASSUME receipts'[d] = receipts[d] PROVE work'.status # "collecting"
    BY <1>1, <1>21, <2>1 DEF SpeaksLast
  <2>2. ASSUME NEW a \in Carriers \cup CompWorkers, recordCarrierTerminal(a)
        PROVE  work'.status # "collecting"
    BY <2>1, <2>2, RecordAlone
  <2>3. ASSUME NEW a \in Actors, settleTask(a) \/ markWorkSettled(a) PROVE receipts'[d] = receipts[d]
    BY <2>3 DEF settleTask, markWorkSettled
  <2> QED
    BY <2>1, <2>2, <2>3, WhoSettles
<1> QED
  BY <1>20, <1>21 DEF SpeaksLast, Spoken

\* For a plain Work every step keeps it that a failure is refunded.
LEMMA FailureStep ==
  ASSUME PlainWork, SettlementInv, Provenance, FailureIsRefunded, [Next]_vars
  PROVE  FailureIsRefunded'
<1>1. ASSUME NEW c \in Carriers, usage'.status # "reserved", outcome'[c].action = "refund"
      PROVE  usage'.refunded = failAndRefund(outcome'[c].force).refunded
  <2>1. work.status # "collecting" /\ (usage' = usage \/ \E a \in Actors : settleTask(a))
    <3>1. \A a \in Carriers \cup CompWorkers : recordCarrierTerminal(a) => usage' = usage
      BY DEF recordCarrierTerminal
    <3>2. \A a \in Actors : markWorkSettled(a) => usage' = usage
      BY DEF markWorkSettled
    <3>3. usage' = usage \/ \E a \in Actors : settleTask(a)
      BY <3>1, <3>2, WhoSettles
    <3>4. \A a \in Actors : settleTask(a) => work.status # "collecting"
      BY DEF settleTask, SettlementInv, Stages
    <3> QED
      BY <1>1, <3>3, <3>4 DEF Provenance, UsageTrue
  <2>2. outcome'[c] = outcome[c] /\ outcome[c] \in Outcomes[c]
    BY <2>1, PayloadIsTrue, EndIsFinal DEF Provenance
  <2>3. PICK force : force = outcome[c].force
    OBVIOUS
  <2>4. usage' = usage => usage'.refunded = failAndRefund(force).refunded
    BY <1>1, <2>2, <2>3 DEF FailureIsRefunded
  <2>5. ASSUME NEW a \in Actors, settleTask(a), usage.status = "reserved"
        PROVE  usage'.refunded = failAndRefund(force).refunded
    <3>1. work.action = "refund"
      BY <1>1, <2>1, <2>2, PayloadIsTrue DEF PlainWork
    <3>2. work.force <=> outcome[c].force
      BY <2>1, <3>1, PayloadIsTrue, OnlyCarrier DEF PlainWork
    <3>3. work.force \in BOOLEAN /\ outcome[c].force \in BOOLEAN
      BY <2>2, OutcomesBounded DEF Outcome, SettlementInv, TypeOK
    <3>4. work.force = force
      BY <2>3, <3>2, <3>3
    <3>5. usage' = failAndRefund(work.force)
      BY <2>5, <3>1 DEF settleTask
    <3> QED
      BY <3>4, <3>5
  <2>6. ASSUME NEW a \in Actors, settleTask(a), usage.status # "reserved" PROVE usage' = usage
    BY <2>6 DEF settleTask
  <2>7. usage'.refunded = failAndRefund(force).refunded
    BY <2>1, <2>4, <2>5, <2>6
  <2> QED
    BY <2>2, <2>3, <2>7
<1> QED
  BY <1>1 DEF FailureIsRefunded, failAndRefund

\* The workflow of a Work with one carrier answers 'refunded' only when the ledger has the
\* credits, however many compensation and queue workers settle the Work with it and die.
\* A package, and a cancelled workflow, read the usage alone, which is a transaction ahead
\* of the ledger; and a failure that keeps its price has nothing to give back.
THEOREM RefundsToldWhenBack == ASSUME PlainWork PROVE Spec => []ToldOnlyWhenBack
<1>1. Init => SpeaksLast /\ FailureIsRefunded
  BY ActorKinds DEF Init, SpeaksLast, FailureIsRefunded
<1>2. SettlementInv /\ SettlementInv' /\ Provenance /\ SpeaksLast /\ FailureIsRefunded /\ [Next]_vars =>
        (SpeaksLast /\ FailureIsRefunded)'
  BY SpeaksLastStep, FailureStep
<1>3. SettlementInv /\ Provenance /\ SpeaksLast /\ FailureIsRefunded => ToldOnlyWhenBack
  <2> SUFFICES ASSUME SettlementInv, Provenance, SpeaksLast, FailureIsRefunded, NEW c \in Carriers,
                      told[c] = "refunded"
               PROVE  credited > 0
    BY DEF ToldOnlyWhenBack
  <2>1. /\ work.status = "settled" /\ outcome[c].action = "refund"
        /\ usage.status # "reserved" /\ credited = usage.refunded
    BY DEF SpeaksLast, SettlementInv, SettledIsPaidOut
  <2>2. usage.refunded = failAndRefund(outcome[c].force).refunded /\ outcome[c] \in Outcomes[c]
    BY <2>1, PayloadIsTrue DEF FailureIsRefunded
  <2> QED
    BY <2>1, <2>2 DEF PlainWork
<1> QED
  BY <1>1, <1>2, <1>3, SettlementInvariance, ProvenanceInvariance, PTL DEF Spec

=============================================================================
