---------------------------- MODULE CreditLedger ----------------------------
(***************************************************************************)
(* The merchant credit ledger of one workspace: grant lots consumed in     *)
(* first-expiring-first-out order, and the transaction rows (grant, USAGE, *)
(* REFUND, EXPIRE) that explain every change of a lot's balance.           *)
(*                                                                         *)
(* Every operation runs in one database transaction that holds the         *)
(* workspace's advisory lock, so an operation is one step.  An operation   *)
(* that throws (conflicting replay, insufficient credits, refund beyond    *)
(* the usage) rolls everything back, the expiry it did on the way          *)
(* included: it changes nothing and is not an action.  Neither is a replay *)
(* that returns the rows it finds.                                         *)
(*                                                                         *)
(* The time of an operation is the createdAt its caller supplies.  Callers *)
(* queue on the lock, so these times are not monotonic.                    *)
(***************************************************************************)
EXTENDS Integers, FiniteSets, FiniteSetsExt

CONSTANTS
  LotIds,       \* lot ids; numbers, because ids are the last FEFO tie-break
  GrantKeys,    \* normalised grant idempotency keys
  Subs,         \* subscription lineages a lot can be granted for
  Ops,          \* consume operation ids
  GrantInputs,  \* the grants callers ask for
  MaxCredits,   \* bound of the amounts of one operation
  MaxTime,      \* bound of the clock
  NoSource,     \* a lot that belongs to no subscription
  NoKey         \* the key of a lot that does not exist

Amounts == 1..MaxCredits
Times == 0..MaxTime
Never == MaxTime + 1      \* expirationDate = null: later than every instant
Sources == Subs \cup {NoSource}

GrantInput ==
  [id : LotIds, key : GrantKeys, credits : Amounts, expiration : Times \cup {Never},
   createdAt : Times, source : Sources]

ASSUME LedgerAssumption ==
  /\ LotIds \subseteq Nat /\ IsFiniteSet(LotIds) /\ IsFiniteSet(Ops)
  /\ MaxCredits \in Nat /\ MaxTime \in Nat
  /\ GrantInputs \subseteq GrantInput
  /\ NoSource \notin Subs /\ NoKey \notin GrantKeys

VARIABLES
  lots,     \* p1_credit_grant_lots
  usage,    \* credits of the USAGE row of an operation and a lot, 0 if none
  refund,   \* the REFUND row related to that USAGE row, credits 0 if none
  expire,   \* EXPIRE rows of a lot: how many, and their credits
  held,     \* history: credits a set of operations holds from a lot
  asked,    \* history: the latest amount a refund of an operation succeeded with
  closed    \* history: the lots a subscription had when it was explicitly expired

vars == <<lots, usage, refund, expire, held, asked, closed>>

Lot ==
  [original : Nat, remaining : Nat, expiration : Times \cup {Never}, createdAt : Times,
   source : Sources, key : GrantKeys \cup {NoKey}]

NoLot == [original |-> 0, remaining |-> 0, expiration |-> Never, createdAt |-> 0,
          source |-> NoSource, key |-> NoKey]

\* original_credits is positive in every row, so 0 marks a lot not yet granted.
Exists(l) == lots[l].original > 0

NoRefund == [credits |-> 0, credited |-> FALSE]

-----------------------------------------------------------------------------
(* Lots in time order *)

\* null expiry last, then expiry, then creation, then id.
compareCreditLotsForFefo(l, m) ==
  \/ lots[l].expiration < lots[m].expiration
  \/ /\ lots[l].expiration = lots[m].expiration
     /\ \/ lots[l].createdAt < lots[m].createdAt
        \/ lots[l].createdAt = lots[m].createdAt /\ l < m

Spendable(l, now) == lots[l].remaining > 0 /\ lots[l].expiration > now

Overdue(l, now) == lots[l].remaining > 0 /\ lots[l].expiration <= now

\* Mutant: the EXPIRE row is written with the lot's original credits.
LapsedOriginal(S) ==
  [l \in LotIds |-> IF l \in S THEN [rows |-> expire[l].rows + 1,
                                     credits |-> expire[l].credits + lots[l].original]
                               ELSE expire[l]]

\* What an EXPIRE pass does to the lots of S: zero them, one row each.
Lapsed(S) ==
  [l \in LotIds |-> IF l \in S THEN [rows |-> expire[l].rows + 1,
                                     credits |-> expire[l].credits + lots[l].remaining]
                               ELSE expire[l]]

-----------------------------------------------------------------------------
(* Grants *)

\* assertGrantInput; the amount is positive by the type of the input.
ValidGrant(g) == g.expiration > g.createdAt

\* A lot found by id or by key makes the request a replay or a conflict.
grant(g) ==
  /\ ValidGrant(g)
  /\ \A l \in LotIds : Exists(l) => l # g.id /\ lots[l].key # g.key
  /\ lots' = [lots EXCEPT ![g.id] =
       [original |-> g.credits, remaining |-> g.credits, expiration |-> g.expiration,
        createdAt |-> g.createdAt, source |-> g.source, key |-> g.key]]
  /\ UNCHANGED <<usage, refund, expire, held, asked, closed>>

-----------------------------------------------------------------------------
(* Consumption *)

\* A lot is only touched once every spendable lot before it is drained, and the
\* parts add up to the credits asked for; no such allocation: insufficient.
allocateCreditConsumption(credits, now) ==
  {alloc \in [LotIds -> 0..credits] :
    /\ \A l \in LotIds :
         /\ alloc[l] <= (IF Spendable(l, now) THEN lots[l].remaining ELSE 0)
         /\ alloc[l] > 0 =>
              \A m \in LotIds : Spendable(m, now) /\ compareCreditLotsForFefo(m, l) =>
                alloc[m] = lots[m].remaining
    /\ SumFunction(alloc) = credits}

\* The handler expires what is overdue at createdAt, then spends.
consume(op, credits, now) ==
  LET due == {l \in LotIds : Overdue(l, now)} IN
  /\ \A l \in LotIds : usage[op][l] = 0
  /\ \E alloc \in allocateCreditConsumption(credits, now) :
       /\ lots' = [l \in LotIds |-> [lots[l] EXCEPT !.remaining =
                     IF l \in due THEN 0 ELSE @ - alloc[l]]]
       /\ usage' = [usage EXCEPT ![op] = alloc]
       /\ expire' = Lapsed(due)
       /\ held' = [l \in LotIds |-> [X \in SUBSET Ops |->
                     held[l][X] + (IF op \in X THEN alloc[l] ELSE 0)]]
  /\ UNCHANGED <<refund, asked, closed>>

-----------------------------------------------------------------------------
(* Refunds *)

\* Mutant: the lot's original credits stand in for the usage row's.
FullTakeOfLot(op, l) ==
  IF refund[op][l].credits > 0 THEN refund[op][l].credits ELSE lots[l].original

\* Mutant: an earlier refund of the row is not looked up.
FullTakeOfRow(op, l) == usage[op][l]

\* What the loop takes for lot l when it is not cut short: the refund already
\* related to the usage row, else the whole row.
FullTake(op, l) ==
  IF refund[op][l].credits > 0 THEN refund[op][l].credits ELSE usage[op][l]

\* The loop over the usage rows in their order: rows after the point where the
\* amount is used up are not visited, an earlier refund counts in full, and the
\* amount must come out even (an uneven one throws or breaks the row check).
RefundPlans(op, credits) ==
  {take \in [LotIds -> 0..credits] :
    /\ \A l \in LotIds :
         /\ take[l] <= FullTake(op, l)
         /\ refund[op][l].credits > 0 => take[l] \in {0, FullTake(op, l)}
         /\ take[l] > 0 =>
              \A m \in LotIds : usage[op][m] > 0 /\ compareCreditLotsForFefo(m, l) =>
                take[m] = FullTake(op, m)
    /\ SumFunction(take) = credits}

\* No amount given: every usage row is refunded.
RefundAllPlan(op) == [l \in LotIds |-> FullTake(op, l)]

Fresh(op, take, l) == take[l] > 0 /\ refund[op][l].credits = 0

\* Mutant: only the date counts.
CreditableByDate(l, now) == lots[l].expiration > now

\* A lot with an EXPIRE row, or past its date, is not credited.
Creditable(l, now) == expire[l].rows = 0 /\ lots[l].expiration > now

\* LEAST(original_credits, remaining_credits + credits)
Restored(lot, credits) ==
  IF lot.remaining + credits <= lot.original THEN lot.remaining + credits ELSE lot.original

PostRefund(op, take, now) ==
  /\ lots' = [l \in LotIds |->
       IF Fresh(op, take, l) /\ Creditable(l, now)
       THEN [lots[l] EXCEPT !.remaining = Restored(lots[l], take[l])] ELSE lots[l]]
  /\ refund' = [refund EXCEPT ![op] = [l \in LotIds |->
       IF Fresh(op, take, l) THEN [credits |-> take[l], credited |-> Creditable(l, now)]
                             ELSE refund[op][l]]]
  /\ held' = [l \in LotIds |-> [X \in SUBSET Ops |->
       held[l][X] - (IF op \in X /\ Fresh(op, take, l) /\ Creditable(l, now)
                     THEN take[l] ELSE 0)]]
  /\ UNCHANGED <<usage, expire, closed>>

refundUsageOperation(op, credits, now) ==
  \E take \in RefundPlans(op, credits) :
    /\ PostRefund(op, take, now)
    /\ asked' = [asked EXCEPT ![op] = credits]

refundWholeUsageOperation(op, now) ==
  /\ \E l \in LotIds : usage[op][l] > 0
  /\ PostRefund(op, RefundAllPlan(op), now)
  /\ UNCHANGED asked

-----------------------------------------------------------------------------
(* Explicit expiry of a subscription's lots *)

expireSubscriptionLots(sub) ==
  LET due == {l \in LotIds : lots[l].source = sub /\ lots[l].remaining > 0} IN
  /\ lots' = [l \in LotIds |-> IF l \in due THEN [lots[l] EXCEPT !.remaining = 0] ELSE lots[l]]
  /\ expire' = Lapsed(due)
  /\ closed' = closed \cup {l \in LotIds : Exists(l) /\ lots[l].source = sub}
  /\ UNCHANGED <<usage, refund, held, asked>>

-----------------------------------------------------------------------------
Init ==
  /\ lots = [l \in LotIds |-> NoLot]
  /\ usage = [op \in Ops |-> [l \in LotIds |-> 0]]
  /\ refund = [op \in Ops |-> [l \in LotIds |-> NoRefund]]
  /\ expire = [l \in LotIds |-> [rows |-> 0, credits |-> 0]]
  /\ held = [l \in LotIds |-> [X \in SUBSET Ops |-> 0]]
  /\ asked = [op \in Ops |-> 0]
  /\ closed = {}

Next ==
  \/ \E g \in GrantInputs : grant(g)
  \/ \E op \in Ops, credits \in Amounts, now \in Times : consume(op, credits, now)
  \/ \E op \in Ops, credits \in Amounts, now \in Times : refundUsageOperation(op, credits, now)
  \/ \E op \in Ops, now \in Times : refundWholeUsageOperation(op, now)
  \/ \E sub \in Subs : expireSubscriptionLots(sub)

Spec == Init /\ [][Next]_vars

-----------------------------------------------------------------------------
(* What a merchant reads *)

\* Credits an operation still holds from a lot: used and not credited back.
Outstanding(op, l) ==
  usage[op][l] - (IF refund[op][l].credited THEN refund[op][l].credits ELSE 0)

\* Mutant: lots past their date but without an EXPIRE row are not counted as expired.
projectPostedBalance(asOf) ==
  LET rows == Ops \X LotIds
      credited == {r \in rows : refund[r[1]][r[2]].credited}
      current == {l \in LotIds : lots[l].expiration > asOf}
  IN [granted |-> SumFunction([l \in LotIds |-> lots[l].original]),
      used |-> SumFunction([r \in rows |-> usage[r[1]][r[2]]]),
      refunded |-> SumFunction([r \in credited |-> refund[r[1]][r[2]].credits]),
      expired |-> SumFunction([l \in LotIds |-> expire[l].credits]),
      available |-> SumFunction([l \in current |-> lots[l].remaining])]

\* Lots not yet expired by a row but past their date count as expired.
projectCreditBalance(asOf) ==
  LET pending == {l \in LotIds : Overdue(l, asOf)}
      rows == Ops \X LotIds
      credited == {r \in rows : refund[r[1]][r[2]].credited}
      current == {l \in LotIds : lots[l].expiration > asOf}
  IN [granted |-> SumFunction([l \in LotIds |-> lots[l].original]),
      used |-> SumFunction([r \in rows |-> usage[r[1]][r[2]]]),
      refunded |-> SumFunction([r \in credited |-> refund[r[1]][r[2]].credits]),
      expired |-> SumFunction([l \in LotIds |-> expire[l].credits])
                    + SumFunction([l \in pending |-> lots[l].remaining]),
      available |-> SumFunction([l \in current |-> lots[l].remaining])]

-----------------------------------------------------------------------------
(* Properties *)

\* Type invariant of the lots, the rows and the history of one workspace.
TypeOK ==
  /\ lots \in [LotIds -> Lot]
  /\ usage \in [Ops -> [LotIds -> Nat]]
  /\ refund \in [Ops -> [LotIds -> [credits : Nat, credited : BOOLEAN]]]
  /\ expire \in [LotIds -> [rows : Nat, credits : Nat]]
  /\ held \in [LotIds -> [SUBSET Ops -> Nat]]
  /\ asked \in [Ops -> Nat]
  /\ closed \in SUBSET LotIds

\* No credit is created or destroyed: what a lot was granted is what remains,
\* what operations hold, and what its EXPIRE row took.  If the LEAST clamp of a
\* refund ever bit, or an expiry missed its row, this would fail.
LotConservation ==
  \A l \in LotIds :
    lots[l].original = lots[l].remaining + held[l][Ops] + expire[l].credits

\* The history variable is what it stands for: for every set of operations the
\* sum of what their rows hold.
HeldIsRowSum ==
  \A l \in LotIds, X \in SUBSET Ops :
    held[l][X] = SumFunction([op \in X |-> Outstanding(op, l)])

\* The balance page adds up at every instant: available credits are the granted
\* ones less used, plus credited refunds, less expired (projectCreditBalance),
\* and the sums it is made of are those of the rows.
BalanceAddsUp ==
  /\ HeldIsRowSum
  /\ \A asOf \in Times :
       LET p == projectCreditBalance(asOf) IN
       p.available = p.granted - p.used + p.refunded - p.expired

\* However refunds of different amounts, partial and whole, follow each other, a
\* usage row is never refunded beyond its credits.
RefundWithinUsage ==
  \A op \in Ops, l \in LotIds : refund[op][l].credits <= usage[op][l]

\* "A refund against an expired source lot is visible but does not restore
\* balance": a lot with an EXPIRE row stays empty whatever clock the refund
\* carries, and so is expired by at most one row.
ExpiredLotStaysEmpty ==
  \A l \in LotIds : expire[l].rows > 0 => expire[l].rows = 1 /\ lots[l].remaining = 0

\* A settlement that lost the answer of its refund can repeat it: the amount that
\* succeeded last still has a plan, and the plan posts no row.
RefundRetryIsNoop ==
  \A op \in Ops : asked[op] > 0 =>
    /\ RefundPlans(op, asked[op]) # {}
    /\ \A take \in RefundPlans(op, asked[op]), l \in LotIds : ~Fresh(op, take, l)

\* "a refund cannot revive a subscription lot after explicit expiry": no lot that
\* was its subscription's when that was expired is ever spendable again.
SubscriptionExpiryIsFinal == \A l \in closed : lots[l].remaining = 0

-----------------------------------------------------------------------------
(* Refinement: what a caller sees of an operation, summed over the lots *)

Account == INSTANCE UsageAccount WITH
  charged <- [op \in Ops |-> SumFunction(usage[op])],
  refunded <- [op \in Ops |-> SumFunction([l \in LotIds |-> refund[op][l].credits])],
  acknowledged <- asked

\* Whatever lots an operation was spread over and however they expired since, its
\* caller sees a plain account: charged once, refunds growing up to the charge,
\* every acknowledged refund posted.
ImplementsUsageAccount == Account!Spec
=============================================================================
