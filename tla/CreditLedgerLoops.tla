-------------------------- MODULE CreditLedgerLoops --------------------------
(***************************************************************************)
(* The two loops of the credit ledger as the code runs them, an iteration  *)
(* over rows in order with a running remainder, next to the plans that     *)
(* CreditLedger states as sets.  A loop is a fold over its rows: the state *)
(* after a set of rows is the state before its last row, with that row     *)
(* applied.  In every reachable ledger a loop finds exactly the plan, and  *)
(* fails exactly when there is none.                                       *)
(***************************************************************************)
EXTENDS CreditLedger

\* Lots are visited first expiring first: of the lots of S this one comes last.
LastInFefoOrder(S) == CHOOSE l \in S : \A m \in S \ {l} : compareCreditLotsForFefo(m, l)

NoTake == [l \in LotIds |-> 0]

-----------------------------------------------------------------------------
\* One lot of the allocation loop: stop once nothing remains, else take what fits.
AllocateFrom(l, acc) ==
  IF acc.left = 0 THEN acc
  ELSE LET amount == IF lots[l].remaining < acc.left THEN lots[l].remaining ELSE acc.left IN
       [left |-> acc.left - amount, take |-> [acc.take EXCEPT ![l] = amount]]

AllocationLoop(credits, now) ==
  MapThenFoldSet(AllocateFrom, [left |-> credits, take |-> NoTake], LAMBDA l : l,
                 LastInFefoOrder, {l \in LotIds : Spendable(l, now)})

-----------------------------------------------------------------------------
\* Mutant: a row already refunded is refunded like any other.
RefundFromAny(op, l, acc) ==
  IF acc.left = 0 THEN acc
  ELSE LET amount == IF usage[op][l] < acc.left THEN usage[op][l] ELSE acc.left IN
       [left |-> acc.left - amount, take |-> [acc.take EXCEPT ![l] = amount],
        refused |-> acc.refused \/ amount <= 0]

\* One usage row of the refund loop.  An earlier refund counts whatever is left,
\* so the remainder can turn negative; the next fresh row would then have to be
\* posted with a negative amount, which the row check credits > 0 refuses.
RefundFrom(op, l, acc) ==
  IF acc.left = 0 THEN acc
  ELSE LET amount == IF refund[op][l].credits > 0 THEN refund[op][l].credits
                     ELSE IF usage[op][l] < acc.left THEN usage[op][l] ELSE acc.left IN
       [left |-> acc.left - amount, take |-> [acc.take EXCEPT ![l] = amount],
        refused |-> acc.refused \/ amount <= 0]

RefundLoop(op, credits) ==
  MapThenFoldSet(LAMBDA l, acc : RefundFrom(op, l, acc),
                 [left |-> credits, take |-> NoTake, refused |-> FALSE], LAMBDA l : l,
                 LastInFefoOrder, {l \in LotIds : usage[op][l] > 0})

-----------------------------------------------------------------------------
\* allocateCreditConsumption hands out exactly the first-expiring-first-out plan,
\* and the sum it is compared with falls short exactly when no plan exists.
AllocationLoopFindsPlan ==
  \A credits \in Amounts, now \in Times :
    LET loop == AllocationLoop(credits, now) IN
    allocateCreditConsumption(credits, now) = IF loop.left = 0 THEN {loop.take} ELSE {}

\* refundUsageOperation's loop, with refunds of other amounts already posted,
\* ends even exactly when a refund plan exists, and takes that plan.
RefundLoopFindsPlan ==
  \A op \in Ops, credits \in Amounts :
    LET loop == RefundLoop(op, credits) IN
    RefundPlans(op, credits) =
      IF loop.left = 0 /\ ~loop.refused THEN {loop.take} ELSE {}

\* Both loops of the ledger compute what CreditLedger states: in every reachable
\* ledger, for every amount and clock, an allocation and a refund of earlier
\* mixed refunds succeed exactly when there is a plan, and take it.
LoopsFindPlans == AllocationLoopFindsPlan /\ RefundLoopFindsPlan
=============================================================================
