-------------------------- MODULE CreditLedgerProofs --------------------------
(***************************************************************************)
(* Proofs about CreditLedger for every set of lots, operations, grants and *)
(* every bound.  The invariant of interest, LotConservation, is not        *)
(* inductive: that the LEAST clamp of a refund never bites needs to know   *)
(* that an operation's unrefunded usage is part of what the lot is held    *)
(* for.  That is a fact about a sum over operations; HeldAdditive states   *)
(* it without a sum, through the history variable held.                    *)
(***************************************************************************)
EXTENDS CreditLedgerLoops, Sums

\* held[l] is additive over sets of operations.
HeldAdditive ==
  \A l \in LotIds :
    /\ held[l][{}] = 0
    /\ \A op \in Ops : \A X \in SUBSET (Ops \ {op}) :
         held[l][X \cup {op}] = held[l][X] + Outstanding(op, l)

\* An EXPIRE row always carries credits.
ExpireRowsCarryCredits ==
  \A l \in LotIds : expire[l].rows = 0 <=> expire[l].credits = 0

LedgerInv ==
  /\ TypeOK
  /\ HeldAdditive
  /\ LotConservation
  /\ RefundWithinUsage
  /\ ExpiredLotStaysEmpty
  /\ ExpireRowsCarryCredits

\* Facts about the constants in the form the steps use.
LEMMA ConstantFacts ==
  /\ LotIds \subseteq Nat
  /\ MaxCredits \in Nat
  /\ MaxTime \in Nat
  /\ Times \subseteq Nat
  /\ Never \in Nat
  /\ \A t \in Times : t < Never
  /\ Amounts \subseteq Nat \ {0}
BY LedgerAssumption DEF Times, Never, Amounts

\* Fields of a typed ledger, for one lot.
LEMMA LotFacts ==
  ASSUME TypeOK, NEW l \in LotIds
  PROVE  /\ lots[l].original \in Nat
         /\ lots[l].remaining \in Nat
         /\ lots[l].expiration \in Nat
         /\ expire[l].rows \in Nat
         /\ expire[l].credits \in Nat
         /\ held[l][Ops] \in Nat
<1>1. lots[l] \in Lot /\ expire[l] \in [rows : Nat, credits : Nat]
  BY DEF TypeOK
<1>2. lots[l].original \in Nat /\ lots[l].remaining \in Nat
  BY <1>1 DEF Lot
<1>3. lots[l].expiration \in Nat
  BY <1>1, ConstantFacts DEF Lot
<1>4. expire[l].rows \in Nat /\ expire[l].credits \in Nat
  BY <1>1
<1>5. held[l][Ops] \in Nat
  BY DEF TypeOK
<1> QED BY <1>2, <1>3, <1>4, <1>5

\* What an operation has outstanding in a lot is part of what the lot is held for.
LEMMA OutstandingIsHeld ==
  ASSUME TypeOK, HeldAdditive, NEW op \in Ops, NEW l \in LotIds
  PROVE  Outstanding(op, l) <= held[l][Ops]
<1> DEFINE rest == Ops \ {op}
<1>1. rest \in SUBSET (Ops \ {op}) /\ rest \cup {op} = Ops
  OBVIOUS
<1>2. held[l][Ops] = held[l][rest] + Outstanding(op, l)
  BY <1>1 DEF HeldAdditive
<1>3. held[l][rest] \in Nat
  BY <1>1 DEF TypeOK
<1>4. Outstanding(op, l) \in Int
  BY DEF TypeOK, Outstanding
<1> QED BY <1>2, <1>3, <1>4

\* The empty ledger satisfies the invariant.
LEMMA InitLedgerInv == Init => LedgerInv
<1> SUFFICES ASSUME Init PROVE LedgerInv
  OBVIOUS
<1> USE ConstantFacts DEF Init
<1>1. TypeOK
  BY DEF TypeOK, Lot, NoLot, NoRefund, Sources, Times, Never
<1>2. HeldAdditive
  BY DEF HeldAdditive, Outstanding, NoRefund
<1>3. LotConservation
  BY DEF LotConservation, NoLot
<1>4. RefundWithinUsage
  BY DEF RefundWithinUsage, NoRefund
<1>5. ExpiredLotStaysEmpty /\ ExpireRowsCarryCredits
  BY DEF ExpiredLotStaysEmpty, ExpireRowsCarryCredits
<1> QED BY <1>1, <1>2, <1>3, <1>4, <1>5 DEF LedgerInv

-----------------------------------------------------------------------------
(* Steps *)

\* A new lot starts balanced: nothing can be posted on a lot that does not exist.
LEMMA GrantStep ==
  ASSUME LedgerInv, NEW g \in GrantInputs, grant(g)
  PROVE  LedgerInv'
<1>1. /\ g.id \in LotIds /\ g.key \in GrantKeys /\ g.credits \in Nat \ {0}
      /\ g.expiration \in Times \cup {Never} /\ g.createdAt \in Times /\ g.source \in Sources
  BY LedgerAssumption, ConstantFacts DEF GrantInput
<1> DEFINE id == g.id
           lot == [original |-> g.credits, remaining |-> g.credits,
                   expiration |-> g.expiration, createdAt |-> g.createdAt,
                   source |-> g.source, key |-> g.key]
<1>2. /\ id \in LotIds
      /\ ~Exists(id)
      /\ lots' = [lots EXCEPT ![id] = lot]
      /\ UNCHANGED <<usage, refund, expire, held, asked, closed>>
  BY <1>1 DEF grant
<1>3. lot \in Lot /\ lot.original = lot.remaining /\ lot.original \in Nat
  BY <1>1 DEF Lot
<1> HIDE DEF id, lot
<1>4. TypeOK /\ HeldAdditive /\ LotConservation /\ RefundWithinUsage
      /\ ExpiredLotStaysEmpty /\ ExpireRowsCarryCredits
  BY DEF LedgerInv
<1>5. TypeOK'
  BY <1>2, <1>3, <1>4 DEF TypeOK
<1>6. HeldAdditive'
  BY <1>2, <1>4 DEF HeldAdditive, Outstanding
<1>7. held[id][Ops] = 0 /\ expire[id].credits = 0 /\ expire[id].rows = 0
  <2>1. /\ lots[id].original \in Nat
        /\ lots[id].remaining \in Nat
        /\ held[id][Ops] \in Nat
        /\ expire[id].credits \in Nat
    BY <1>2, <1>4, LotFacts
  <2>2. lots[id].original = 0
    BY <1>2, <2>1 DEF Exists
  <2>3. lots[id].original = lots[id].remaining + held[id][Ops] + expire[id].credits
    BY <1>2, <1>4 DEF LotConservation
  <2>4. held[id][Ops] = 0 /\ expire[id].credits = 0
    BY <2>1, <2>2, <2>3
  <2> QED BY <1>2, <1>4, <2>4 DEF ExpireRowsCarryCredits
<1>8. \A l \in LotIds : lots'[l] = IF l = id THEN lot ELSE lots[l]
  BY <1>2, <1>4 DEF TypeOK
<1>9. LotConservation'
  <2> SUFFICES ASSUME NEW l \in LotIds
               PROVE  lots'[l].original = lots'[l].remaining + held[l][Ops] + expire[l].credits
    BY <1>2 DEF LotConservation
  <2>1. CASE l = id
    BY <1>3, <1>7, <1>8, <2>1
  <2>2. CASE l # id
    BY <1>4, <1>8, <2>2 DEF LotConservation
  <2> QED BY <2>1, <2>2
<1>10. RefundWithinUsage'
  BY <1>2, <1>4 DEF RefundWithinUsage
<1>11. ExpiredLotStaysEmpty'
  BY <1>2, <1>4, <1>7, <1>8 DEF ExpiredLotStaysEmpty
<1>12. ExpireRowsCarryCredits'
  BY <1>2, <1>4 DEF ExpireRowsCarryCredits
<1> QED BY <1>5, <1>6, <1>9, <1>10, <1>11, <1>12 DEF LedgerInv

\* Spending moves credits from the balance to the operation, overdue lots to
\* their EXPIRE row.
LEMMA ConsumeStep ==
  ASSUME LedgerInv, NEW op \in Ops, NEW credits \in Amounts, NEW now \in Times,
         consume(op, credits, now)
  PROVE  LedgerInv'
<1>0. TypeOK /\ HeldAdditive /\ LotConservation /\ RefundWithinUsage
      /\ ExpiredLotStaysEmpty /\ ExpireRowsCarryCredits
  BY DEF LedgerInv
<1> DEFINE due == {l \in LotIds : Overdue(l, now)}
<1>1. PICK alloc \in allocateCreditConsumption(credits, now) :
       /\ lots' = [l \in LotIds |-> [lots[l] EXCEPT !.remaining =
                     IF l \in due THEN 0 ELSE @ - alloc[l]]]
       /\ usage' = [usage EXCEPT ![op] = alloc]
       /\ expire' = Lapsed(due)
       /\ held' = [l \in LotIds |-> [X \in SUBSET Ops |->
                     held[l][X] + (IF op \in X THEN alloc[l] ELSE 0)]]
       /\ UNCHANGED <<refund, asked, closed>>
       /\ \A l \in LotIds : usage[op][l] = 0
  BY DEF consume
<1> HIDE DEF due
<1>2. \A l \in LotIds :
        /\ l \in due <=> lots[l].remaining > 0 /\ lots[l].expiration <= now
        /\ l \in due => alloc[l] = 0
        /\ alloc[l] \in Nat
        /\ alloc[l] <= lots[l].remaining
  <2>1. alloc \in [LotIds -> 0..credits]
    BY <1>1 DEF allocateCreditConsumption
  <2>2. \A l \in LotIds : alloc[l] <= (IF Spendable(l, now) THEN lots[l].remaining ELSE 0)
    BY <1>1 DEF allocateCreditConsumption
  <2>3. \A l \in LotIds : lots[l].remaining \in Nat /\ lots[l].expiration \in Nat
    BY <1>0, LotFacts
  <2>4. now \in Nat /\ credits \in Nat
    BY ConstantFacts
  <2> SUFFICES ASSUME NEW l \in LotIds
               PROVE  /\ l \in due <=> lots[l].remaining > 0 /\ lots[l].expiration <= now
                      /\ l \in due => alloc[l] = 0
                      /\ alloc[l] \in Nat
                      /\ alloc[l] <= lots[l].remaining
    OBVIOUS
  <2>5. l \in due <=> lots[l].remaining > 0 /\ lots[l].expiration <= now
    BY DEF due, Overdue
  <2>6. alloc[l] \in Nat
    BY <2>1, <2>4
  <2>7. CASE Spendable(l, now)
    BY <2>2, <2>3, <2>4, <2>5, <2>6, <2>7 DEF Spendable
  <2>8. CASE ~Spendable(l, now)
    BY <2>2, <2>3, <2>4, <2>5, <2>6, <2>8 DEF Spendable
  <2> QED BY <2>5, <2>6, <2>7, <2>8
<1>3. alloc \in [LotIds -> Nat]
  BY <1>1, <1>2 DEF allocateCreditConsumption
<1>4. \A l \in LotIds : lots[l].remaining \in Nat /\ expire[l].rows \in Nat /\ expire[l].credits \in Nat
  BY <1>0, LotFacts
<1>5. TypeOK'
  <2>1. lots' \in [LotIds -> Lot]
    <3> SUFFICES ASSUME NEW l \in LotIds PROVE lots'[l] \in Lot
      BY <1>1
    <3>1. lots[l] \in Lot
      BY <1>0 DEF TypeOK
    <3>2. (IF l \in due THEN 0 ELSE lots[l].remaining - alloc[l]) \in Nat
      BY <1>2, <1>4
    <3>3. lots'[l] = [lots[l] EXCEPT !.remaining = IF l \in due THEN 0 ELSE lots[l].remaining - alloc[l]]
      BY <1>1
    <3> QED BY <3>1, <3>2, <3>3 DEF Lot
  <2>2. usage' \in [Ops -> [LotIds -> Nat]]
    BY <1>0, <1>1, <1>3 DEF TypeOK
  <2>3. expire' \in [LotIds -> [rows : Nat, credits : Nat]]
    BY <1>0, <1>1, <1>4 DEF TypeOK, Lapsed
  <2>4. held' \in [LotIds -> [SUBSET Ops -> Nat]]
    <3> SUFFICES ASSUME NEW l \in LotIds, NEW X \in SUBSET Ops
                 PROVE  held[l][X] + (IF op \in X THEN alloc[l] ELSE 0) \in Nat
      BY <1>1
    <3>1. held[l][X] \in Nat
      BY <1>0 DEF TypeOK
    <3> QED BY <1>2, <3>1
  <2> QED BY <1>0, <1>1, <2>1, <2>2, <2>3, <2>4 DEF TypeOK
<1>6. \A l \in LotIds : Outstanding(op, l) = 0 /\ Outstanding(op, l)' = alloc[l]
  <2> SUFFICES ASSUME NEW l \in LotIds
               PROVE  Outstanding(op, l) = 0 /\ Outstanding(op, l)' = alloc[l]
    OBVIOUS
  <2>1. usage[op][l] = 0 /\ usage'[op][l] = alloc[l] /\ refund' = refund
    BY <1>0, <1>1 DEF TypeOK
  <2>2. refund[op][l].credits \in Nat /\ refund[op][l].credits <= 0
    BY <1>0, <2>1 DEF TypeOK, RefundWithinUsage
  <2> QED BY <1>2, <2>1, <2>2 DEF Outstanding
<1>7. \A o \in Ops \ {op}, l \in LotIds : Outstanding(o, l)' = Outstanding(o, l)
  BY <1>0, <1>1 DEF Outstanding, TypeOK
<1>8. HeldAdditive'
  <2> SUFFICES ASSUME NEW l \in LotIds
               PROVE  /\ held'[l][{}] = 0
                      /\ \A o \in Ops : \A X \in SUBSET (Ops \ {o}) :
                           held'[l][X \cup {o}] = held'[l][X] + Outstanding(o, l)'
    BY DEF HeldAdditive
  <2>1. held'[l][{}] = 0
    BY <1>0, <1>1 DEF HeldAdditive
  <2>2. ASSUME NEW o \in Ops, NEW X \in SUBSET (Ops \ {o})
        PROVE  held'[l][X \cup {o}] = held'[l][X] + Outstanding(o, l)'
    <3>1. held[l][X \cup {o}] = held[l][X] + Outstanding(o, l)
      BY <1>0 DEF HeldAdditive
    <3>2. held[l][X] \in Nat /\ alloc[l] \in Nat /\ Outstanding(o, l) \in Int
      BY <1>0, <1>2 DEF TypeOK, Outstanding
    <3>3. /\ held'[l][X] = held[l][X] + (IF op \in X THEN alloc[l] ELSE 0)
          /\ held'[l][X \cup {o}] = held[l][X \cup {o}] + (IF op \in X \cup {o} THEN alloc[l] ELSE 0)
      BY <1>1
    <3>4. CASE o = op
      BY <3>1, <3>2, <3>3, <3>4, <1>6
    <3>5. CASE o # op
      BY <3>1, <3>2, <3>3, <3>5, <1>7
    <3> QED BY <3>4, <3>5
  <2> QED BY <2>1, <2>2
<1>9. LotConservation'
  <2> SUFFICES ASSUME NEW l \in LotIds
               PROVE  lots'[l].original = lots'[l].remaining + held'[l][Ops] + expire'[l].credits
    BY DEF LotConservation
  <2>1. held'[l][Ops] = held[l][Ops] + alloc[l]
    BY <1>1
  <2>2. lots[l].original = lots[l].remaining + held[l][Ops] + expire[l].credits
    BY <1>0 DEF LotConservation
  <2>3. held[l][Ops] \in Nat
    BY <1>0, LotFacts
  <2>4. /\ lots'[l].original = lots[l].original
        /\ lots'[l].remaining = IF l \in due THEN 0 ELSE lots[l].remaining - alloc[l]
        /\ expire'[l].credits = expire[l].credits + (IF l \in due THEN lots[l].remaining ELSE 0)
    BY <1>0, <1>1, <1>4 DEF Lapsed, TypeOK, Lot
  <2> QED BY <1>2, <1>4, <2>1, <2>2, <2>3, <2>4
<1>10. RefundWithinUsage'
  BY <1>0, <1>1, <1>2, <1>3 DEF RefundWithinUsage, TypeOK
<1>11. ExpiredLotStaysEmpty' /\ ExpireRowsCarryCredits'
  BY <1>0, <1>1, <1>2, <1>4 DEF ExpiredLotStaysEmpty, ExpireRowsCarryCredits, Lapsed, TypeOK, Lot
<1> QED BY <1>5, <1>8, <1>9, <1>10, <1>11 DEF LedgerInv

\* A refund moves an operation's credits back, or leaves them with the operation
\* when the lot is gone.  The clamp never bites: what is given back is outstanding,
\* so it is held, so by conservation it fits under the lot's original credits.
LEMMA RefundStep ==
  ASSUME LedgerInv, NEW op \in Ops, NEW now \in Times, NEW take \in [LotIds -> Nat],
         \A l \in LotIds : take[l] <= FullTake(op, l),
         PostRefund(op, take, now), asked' \in [Ops -> Nat]
  PROVE  LedgerInv'
<1>0. TypeOK /\ HeldAdditive /\ LotConservation /\ RefundWithinUsage
      /\ ExpiredLotStaysEmpty /\ ExpireRowsCarryCredits
  BY DEF LedgerInv
<1> DEFINE back == {l \in LotIds : Fresh(op, take, l) /\ Creditable(l, now)}
<1>1. /\ lots' = [l \in LotIds |-> IF l \in back
                    THEN [lots[l] EXCEPT !.remaining = Restored(lots[l], take[l])] ELSE lots[l]]
      /\ refund' = [refund EXCEPT ![op] = [l \in LotIds |->
                      IF Fresh(op, take, l)
                      THEN [credits |-> take[l], credited |-> Creditable(l, now)]
                      ELSE refund[op][l]]]
      /\ held' = [l \in LotIds |-> [X \in SUBSET Ops |->
                    held[l][X] - (IF op \in X /\ l \in back THEN take[l] ELSE 0)]]
      /\ UNCHANGED <<usage, expire, closed>>
  <2>1. \A l \in LotIds : l \in back <=> Fresh(op, take, l) /\ Creditable(l, now)
    OBVIOUS
  <2> HIDE DEF back
  <2> QED BY <2>1 DEF PostRefund
<1>2. \A l \in LotIds : /\ take[l] \in Nat
                        /\ Fresh(op, take, l) => /\ take[l] > 0
                                                 /\ refund[op][l].credits = 0
                                                 /\ take[l] <= usage[op][l]
                        /\ Fresh(op, take, l) => (l \in back <=> Creditable(l, now))
                        /\ l \in back => Fresh(op, take, l) /\ expire[l].rows = 0
  <2> SUFFICES ASSUME NEW l \in LotIds
               PROVE  /\ Fresh(op, take, l) => /\ take[l] > 0
                                               /\ refund[op][l].credits = 0
                                               /\ take[l] <= usage[op][l]
                      /\ Fresh(op, take, l) => (l \in back <=> Creditable(l, now))
                      /\ l \in back => Fresh(op, take, l) /\ expire[l].rows = 0
    OBVIOUS
  <2>1. Fresh(op, take, l) => take[l] > 0 /\ refund[op][l].credits = 0
    BY DEF Fresh
  <2>2. refund[op][l].credits = 0 => FullTake(op, l) = usage[op][l]
    BY DEF FullTake
  <2> QED BY <2>1, <2>2 DEF Creditable
<1> HIDE DEF back
<1>3. \A o \in Ops, l \in LotIds : usage[o][l] \in Nat /\ refund[o][l].credits \in Nat
                                   /\ refund[o][l] \in [credits : Nat, credited : BOOLEAN]
  BY <1>0 DEF TypeOK
<1>4. \A l \in LotIds : l \in back => Outstanding(op, l) = usage[op][l] /\ take[l] <= held[l][Ops]
  <2> SUFFICES ASSUME NEW l \in LotIds, l \in back
               PROVE  Outstanding(op, l) = usage[op][l] /\ take[l] <= held[l][Ops]
    OBVIOUS
  <2>1. Outstanding(op, l) = usage[op][l]
    BY <1>2, <1>3 DEF Outstanding
  <2>2. Outstanding(op, l) <= held[l][Ops]
    BY <1>0, OutstandingIsHeld
  <2>3. held[l][Ops] \in Nat
    BY <1>0, LotFacts
  <2> QED BY <1>2, <1>3, <2>1, <2>2, <2>3
<1>5. \A l \in LotIds : l \in back => Restored(lots[l], take[l]) = lots[l].remaining + take[l]
  <2> SUFFICES ASSUME NEW l \in LotIds, l \in back
               PROVE  lots[l].remaining + take[l] <= lots[l].original
    BY DEF Restored
  <2>1. lots[l].original = lots[l].remaining + held[l][Ops] + expire[l].credits
    BY <1>0 DEF LotConservation
  <2>2. /\ lots[l].remaining \in Nat /\ held[l][Ops] \in Nat /\ expire[l].credits \in Nat
        /\ take[l] \in Nat /\ take[l] <= held[l][Ops]
    BY <1>0, <1>2, <1>4, LotFacts
  <2> QED BY <2>1, <2>2
<1>6. \A l \in LotIds : /\ lots'[l] \in Lot
                        /\ lots'[l].original = lots[l].original
                        /\ lots'[l].remaining = lots[l].remaining + (IF l \in back THEN take[l] ELSE 0)
  <2> SUFFICES ASSUME NEW l \in LotIds
               PROVE  /\ lots'[l] \in Lot
                      /\ lots'[l].original = lots[l].original
                      /\ lots'[l].remaining = lots[l].remaining + (IF l \in back THEN take[l] ELSE 0)
    OBVIOUS
  <2>1. lots[l] \in Lot /\ lots[l].remaining \in Nat
    BY <1>0, LotFacts DEF TypeOK
  <2>2. CASE l \in back
    <3>1. lots'[l] = [lots[l] EXCEPT !.remaining = lots[l].remaining + take[l]]
      BY <1>1, <1>5, <2>2
    <3>2. lots[l].remaining + take[l] \in Nat
      BY <1>2, <2>1
    <3> QED BY <2>1, <2>2, <3>1, <3>2 DEF Lot
  <2>3. CASE l \notin back
    BY <1>1, <2>1, <2>3
  <2> QED BY <2>2, <2>3
<1>7. \A l \in LotIds : Outstanding(op, l)' = Outstanding(op, l) - (IF l \in back THEN take[l] ELSE 0)
  <2> SUFFICES ASSUME NEW l \in LotIds
               PROVE  Outstanding(op, l)' = Outstanding(op, l) - (IF l \in back THEN take[l] ELSE 0)
    OBVIOUS
  <2>1. usage' = usage
    BY <1>1
  <2>2. refund'[op][l] = IF Fresh(op, take, l)
                         THEN [credits |-> take[l], credited |-> Creditable(l, now)]
                         ELSE refund[op][l]
    BY <1>0, <1>1 DEF TypeOK
  <2>3. CASE Fresh(op, take, l)
    <3>1. refund'[op][l].credits = take[l] /\ refund'[op][l].credited = Creditable(l, now)
      BY <2>2, <2>3
    <3>2. Outstanding(op, l) = usage[op][l]
      BY <1>2, <1>3, <2>3 DEF Outstanding
    <3>3. CASE l \in back
      <4>1. Creditable(l, now)
        BY <1>2, <2>3, <3>3
      <4>2. refund'[op][l].credited
        BY <3>1, <4>1
      <4> QED BY <2>1, <3>1, <3>2, <3>3, <4>2 DEF Outstanding
    <3>4. CASE l \notin back
      <4>1. ~Creditable(l, now)
        BY <1>2, <2>3, <3>4
      <4>2. ~refund'[op][l].credited
        BY <3>1, <4>1
      <4> QED BY <1>3, <2>1, <3>1, <3>2, <3>4, <4>2 DEF Outstanding
    <3> QED BY <3>3, <3>4
  <2>4. CASE ~Fresh(op, take, l)
    BY <1>2, <1>3, <2>1, <2>2, <2>4 DEF Outstanding
  <2> QED BY <2>3, <2>4
<1>8. \A o \in Ops \ {op}, l \in LotIds : Outstanding(o, l)' = Outstanding(o, l)
  BY <1>0, <1>1 DEF Outstanding, TypeOK
<1>9. \A l \in LotIds, X \in SUBSET Ops : op \in X /\ l \in back => take[l] <= held[l][X]
  <2> SUFFICES ASSUME NEW l \in LotIds, NEW X \in SUBSET Ops, op \in X, l \in back
               PROVE  take[l] <= held[l][X]
    OBVIOUS
  <2> DEFINE rest == X \ {op}
  <2>1. rest \in SUBSET (Ops \ {op}) /\ rest \cup {op} = X
    OBVIOUS
  <2>2. held[l][X] = held[l][rest] + Outstanding(op, l)
    BY <1>0, <2>1 DEF HeldAdditive
  <2>3. held[l][rest] \in Nat
    BY <1>0, <2>1 DEF TypeOK
  <2> QED BY <1>2, <1>3, <1>4, <2>2, <2>3
<1>10. TypeOK'
  <2>1. lots' \in [LotIds -> Lot]
    BY <1>1, <1>6
  <2>2. refund' \in [Ops -> [LotIds -> [credits : Nat, credited : BOOLEAN]]]
    <3>1. [l \in LotIds |-> IF Fresh(op, take, l)
             THEN [credits |-> take[l], credited |-> Creditable(l, now)] ELSE refund[op][l]]
            \in [LotIds -> [credits : Nat, credited : BOOLEAN]]
      BY <1>2, <1>3 DEF Creditable
    <3> QED BY <1>0, <1>1, <3>1 DEF TypeOK
  <2>3. held' \in [LotIds -> [SUBSET Ops -> Nat]]
    <3> SUFFICES ASSUME NEW l \in LotIds, NEW X \in SUBSET Ops
                 PROVE  held[l][X] - (IF op \in X /\ l \in back THEN take[l] ELSE 0) \in Nat
      BY <1>1
    <3>1. held[l][X] \in Nat
      BY <1>0 DEF TypeOK
    <3> QED BY <1>2, <1>9, <3>1
  <2> QED BY <1>0, <1>1, <2>1, <2>2, <2>3 DEF TypeOK
<1>11. HeldAdditive'
  <2> SUFFICES ASSUME NEW l \in LotIds
               PROVE  /\ held'[l][{}] = 0
                      /\ \A o \in Ops : \A X \in SUBSET (Ops \ {o}) :
                           held'[l][X \cup {o}] = held'[l][X] + Outstanding(o, l)'
    BY DEF HeldAdditive
  <2>1. held'[l][{}] = 0
    BY <1>0, <1>1 DEF HeldAdditive
  <2>2. ASSUME NEW o \in Ops, NEW X \in SUBSET (Ops \ {o})
        PROVE  held'[l][X \cup {o}] = held'[l][X] + Outstanding(o, l)'
    <3>1. held[l][X \cup {o}] = held[l][X] + Outstanding(o, l)
      BY <1>0 DEF HeldAdditive
    <3>2. held[l][X] \in Nat /\ take[l] \in Nat /\ Outstanding(o, l) \in Int
      BY <1>0, <1>2, <1>3 DEF TypeOK, Outstanding
    <3>3. /\ held'[l][X] = held[l][X] - (IF op \in X /\ l \in back THEN take[l] ELSE 0)
          /\ held'[l][X \cup {o}] =
               held[l][X \cup {o}] - (IF op \in X \cup {o} /\ l \in back THEN take[l] ELSE 0)
      BY <1>1
    <3>4. CASE o = op
      BY <3>1, <3>2, <3>3, <3>4, <1>7
    <3>5. CASE o # op
      BY <3>1, <3>2, <3>3, <3>5, <1>8
    <3> QED BY <3>4, <3>5
  <2> QED BY <2>1, <2>2
<1>12. LotConservation'
  <2> SUFFICES ASSUME NEW l \in LotIds
               PROVE  lots'[l].original = lots'[l].remaining + held'[l][Ops] + expire[l].credits
    BY <1>1 DEF LotConservation
  <2>1. held'[l][Ops] = held[l][Ops] - (IF l \in back THEN take[l] ELSE 0)
    BY <1>1
  <2>2. lots[l].original = lots[l].remaining + held[l][Ops] + expire[l].credits
    BY <1>0 DEF LotConservation
  <2>3. /\ lots[l].remaining \in Nat /\ held[l][Ops] \in Nat /\ expire[l].credits \in Nat
        /\ take[l] \in Nat
    BY <1>0, <1>2, LotFacts
  <2> QED BY <1>6, <2>1, <2>2, <2>3
<1>13. RefundWithinUsage'
  <2> SUFFICES ASSUME NEW o \in Ops, NEW l \in LotIds
               PROVE  refund'[o][l].credits <= usage[o][l]
    BY <1>1 DEF RefundWithinUsage
  <2>1. CASE o = op
    <3>1. refund'[o][l] = IF Fresh(op, take, l)
                          THEN [credits |-> take[l], credited |-> Creditable(l, now)]
                          ELSE refund[o][l]
      BY <1>0, <1>1, <2>1 DEF TypeOK
    <3> QED BY <1>0, <1>2, <2>1, <3>1 DEF RefundWithinUsage
  <2>2. CASE o # op
    BY <1>0, <1>1, <2>2 DEF RefundWithinUsage, TypeOK
  <2> QED BY <2>1, <2>2
<1>14. ExpiredLotStaysEmpty'
  <2> SUFFICES ASSUME NEW l \in LotIds, expire[l].rows > 0
               PROVE  expire[l].rows = 1 /\ lots'[l].remaining = 0
    BY <1>1 DEF ExpiredLotStaysEmpty
  <2>1. l \notin back
    BY <1>2
  <2> QED BY <1>0, <1>1, <2>1 DEF ExpiredLotStaysEmpty
<1>15. ExpireRowsCarryCredits'
  BY <1>0, <1>1 DEF ExpireRowsCarryCredits
<1> QED BY <1>10, <1>11, <1>12, <1>13, <1>14, <1>15 DEF LedgerInv

\* Expiring a subscription's lots moves their balance to EXPIRE rows.
LEMMA ExpireStep ==
  ASSUME LedgerInv, NEW sub \in Subs, expireSubscriptionLots(sub)
  PROVE  LedgerInv'
<1>0. TypeOK /\ HeldAdditive /\ LotConservation /\ RefundWithinUsage
      /\ ExpiredLotStaysEmpty /\ ExpireRowsCarryCredits
  BY DEF LedgerInv
<1> DEFINE due == {l \in LotIds : lots[l].source = sub /\ lots[l].remaining > 0}
<1>1. /\ lots' = [l \in LotIds |-> IF l \in due THEN [lots[l] EXCEPT !.remaining = 0] ELSE lots[l]]
      /\ expire' = Lapsed(due)
      /\ closed' \in SUBSET LotIds
      /\ UNCHANGED <<usage, refund, held, asked>>
  BY <1>0 DEF expireSubscriptionLots, TypeOK
<1>2. \A l \in due : lots[l].remaining > 0
  OBVIOUS
<1> HIDE DEF due
<1>3. \A l \in LotIds : /\ lots[l].remaining \in Nat /\ lots[l].original \in Nat
                        /\ held[l][Ops] \in Nat
                        /\ expire[l].rows \in Nat /\ expire[l].credits \in Nat
  BY <1>0, LotFacts
<1>4. \A l \in LotIds :
        /\ lots'[l] \in Lot
        /\ lots'[l].original = lots[l].original
        /\ lots'[l].remaining = IF l \in due THEN 0 ELSE lots[l].remaining
  <2> SUFFICES ASSUME NEW l \in LotIds
               PROVE  /\ lots'[l] \in Lot
                      /\ lots'[l].original = lots[l].original
                      /\ lots'[l].remaining = IF l \in due THEN 0 ELSE lots[l].remaining
    OBVIOUS
  <2>1. lots[l] \in Lot
    BY <1>0 DEF TypeOK
  <2>2. CASE l \in due
    <3>1. lots'[l] = [lots[l] EXCEPT !.remaining = 0]
      BY <1>1, <2>2
    <3> QED BY <2>1, <2>2, <3>1 DEF Lot
  <2>3. CASE l \notin due
    <3>1. lots'[l] = lots[l]
      BY <1>1, <2>3
    <3> QED BY <2>1, <2>3, <3>1
  <2> QED BY <2>2, <2>3
<1>5. \A l \in LotIds : l \in due =>
         expire'[l] = [rows |-> expire[l].rows + 1,
                       credits |-> expire[l].credits + lots[l].remaining]
  BY <1>1 DEF Lapsed
<1>6. \A l \in LotIds : l \notin due => expire'[l] = expire[l]
  BY <1>1 DEF Lapsed
<1>7. \A l \in LotIds : l \in due => /\ expire'[l].rows = expire[l].rows + 1
                                      /\ expire'[l].credits = expire[l].credits + lots[l].remaining
  <2> SUFFICES ASSUME NEW l \in LotIds, l \in due
               PROVE  /\ expire'[l].rows = expire[l].rows + 1
                      /\ expire'[l].credits = expire[l].credits + lots[l].remaining
    OBVIOUS
  <2>1. expire'[l] = [rows |-> expire[l].rows + 1,
                      credits |-> expire[l].credits + lots[l].remaining]
    BY <1>5
  <2> QED BY <2>1
<1>8. TypeOK'
  <2>1. ASSUME NEW l \in LotIds PROVE expire'[l] \in [rows : Nat, credits : Nat]
    <3>1. CASE l \in due
      <4>1. expire[l].rows + 1 \in Nat /\ expire[l].credits + lots[l].remaining \in Nat
        BY <1>3
      <4>2. expire'[l] = [rows |-> expire[l].rows + 1,
                          credits |-> expire[l].credits + lots[l].remaining]
        BY <1>5, <3>1
      <4> QED BY <4>1, <4>2
    <3>2. CASE l \notin due
      BY <1>0, <1>6, <3>2 DEF TypeOK
    <3> QED BY <3>1, <3>2
  <2>2. expire' = [l \in LotIds |-> expire'[l]]
    BY <1>1, Zenon DEF Lapsed
  <2>3. expire' \in [LotIds -> [rows : Nat, credits : Nat]]
    BY <2>1, <2>2
  <2>4. lots' \in [LotIds -> Lot]
    BY <1>1, <1>4
  <2> QED BY <1>0, <1>1, <2>3, <2>4 DEF TypeOK
<1>9. HeldAdditive'
  BY <1>0, <1>1 DEF HeldAdditive, Outstanding
<1>10. LotConservation'
  <2> SUFFICES ASSUME NEW l \in LotIds
               PROVE  lots'[l].original = lots'[l].remaining + held[l][Ops] + expire'[l].credits
    BY <1>1 DEF LotConservation
  <2>1. lots[l].original = lots[l].remaining + held[l][Ops] + expire[l].credits
    BY <1>0 DEF LotConservation
  <2>2. CASE l \in due
    BY <1>3, <1>4, <1>7, <2>1, <2>2
  <2>3. CASE l \notin due
    BY <1>4, <1>6, <2>1, <2>3
  <2> QED BY <2>2, <2>3
<1>11. RefundWithinUsage'
  BY <1>0, <1>1 DEF RefundWithinUsage
<1>12. ExpiredLotStaysEmpty' /\ ExpireRowsCarryCredits'
  <2> SUFFICES ASSUME NEW l \in LotIds
               PROVE  /\ expire'[l].rows > 0 => expire'[l].rows = 1 /\ lots'[l].remaining = 0
                      /\ expire'[l].rows = 0 <=> expire'[l].credits = 0
    BY DEF ExpiredLotStaysEmpty, ExpireRowsCarryCredits
  <2>1. /\ expire[l].rows > 0 => expire[l].rows = 1 /\ lots[l].remaining = 0
        /\ expire[l].rows = 0 <=> expire[l].credits = 0
    BY <1>0 DEF ExpiredLotStaysEmpty, ExpireRowsCarryCredits
  <2>2. CASE l \in due
    <3>1. /\ lots[l].remaining > 0 /\ lots[l].remaining \in Nat
          /\ expire[l].rows \in Nat /\ expire[l].credits \in Nat
      BY <1>2, <1>3, <2>2
    <3>2. expire[l].rows = 0 /\ expire[l].credits = 0
      BY <2>1, <3>1
    <3>3. lots'[l].remaining = 0
      BY <1>4, <2>2
    <3>4. expire'[l].rows = 1 /\ expire'[l].credits = lots[l].remaining
      BY <1>7, <2>2, <3>1, <3>2
    <3> QED BY <3>1, <3>3, <3>4
  <2>3. CASE l \notin due
    BY <1>4, <1>6, <2>1, <2>3
  <2> QED BY <2>2, <2>3
<1> QED BY <1>8, <1>9, <1>10, <1>11, <1>12 DEF LedgerInv

-----------------------------------------------------------------------------
(* The invariant and what follows from it *)

\* Every operation of the ledger keeps the invariant.
LEMMA NextLedgerInv == LedgerInv /\ [Next]_vars => LedgerInv'
<1> SUFFICES ASSUME LedgerInv, [Next]_vars PROVE LedgerInv'
  OBVIOUS
<1>1. ASSUME NEW g \in GrantInputs, grant(g) PROVE LedgerInv'
  BY <1>1, GrantStep
<1>2. ASSUME NEW op \in Ops, NEW credits \in Amounts, NEW now \in Times,
             consume(op, credits, now)
      PROVE  LedgerInv'
  BY <1>2, ConsumeStep
<1>3. ASSUME NEW op \in Ops, NEW credits \in Amounts, NEW now \in Times,
             refundUsageOperation(op, credits, now)
      PROVE  LedgerInv'
  <2>1. PICK take \in RefundPlans(op, credits) :
          PostRefund(op, take, now) /\ asked' = [asked EXCEPT ![op] = credits]
    BY <1>3 DEF refundUsageOperation
  <2>2. credits \in Nat
    BY ConstantFacts
  <2>3. take \in [LotIds -> 0..credits] /\ \A l \in LotIds : take[l] <= FullTake(op, l)
    BY <2>1 DEF RefundPlans
  <2>4. take \in [LotIds -> Nat]
    BY <2>2, <2>3
  <2>5. asked' \in [Ops -> Nat]
    BY <2>1, <2>2 DEF LedgerInv, TypeOK
  <2> QED BY <2>1, <2>3, <2>4, <2>5, RefundStep
<1>4. ASSUME NEW op \in Ops, NEW now \in Times, refundWholeUsageOperation(op, now)
      PROVE  LedgerInv'
  <2> DEFINE take == RefundAllPlan(op)
  <2>1. PostRefund(op, take, now) /\ asked' \in [Ops -> Nat]
    BY <1>4 DEF refundWholeUsageOperation, LedgerInv, TypeOK
  <2>2. \A l \in LotIds : FullTake(op, l) \in Nat
    BY DEF FullTake, LedgerInv, TypeOK
  <2>3. take \in [LotIds -> Nat] /\ \A l \in LotIds : take[l] <= FullTake(op, l)
    BY <2>2 DEF RefundAllPlan
  <2> QED BY <2>1, <2>3, RefundStep
<1>5. ASSUME NEW sub \in Subs, expireSubscriptionLots(sub) PROVE LedgerInv'
  BY <1>5, ExpireStep
<1>6. CASE UNCHANGED vars
  BY <1>6 DEF LedgerInv, vars, TypeOK, HeldAdditive, Outstanding, LotConservation,
     RefundWithinUsage, ExpiredLotStaysEmpty, ExpireRowsCarryCredits
<1> QED BY <1>1, <1>2, <1>3, <1>4, <1>5, <1>6 DEF Next

\* LedgerInv is an invariant of the ledger.
THEOREM LedgerInvariance == Spec => []LedgerInv
BY InitLedgerInv, NextLedgerInv, PTL DEF Spec

\* The type invariant, for every set of lots, operations and grants.
THEOREM LedgerTypeCorrect == Spec => []TypeOK
<1>1. LedgerInv => TypeOK
  BY DEF LedgerInv
<1> QED BY <1>1, LedgerInvariance, PTL

\* No operation creates or destroys a credit of a lot; in particular the clamp in
\* refundUsageOperation never cuts a refund short.
THEOREM LedgerConservesCredits == Spec => []LotConservation
<1>1. LedgerInv => LotConservation
  BY DEF LedgerInv
<1> QED BY <1>1, LedgerInvariance, PTL

\* No sequence of refunds gives back more than was used.
THEOREM LedgerRefundsWithinUsage == Spec => []RefundWithinUsage
<1>1. LedgerInv => RefundWithinUsage
  BY DEF LedgerInv
<1> QED BY <1>1, LedgerInvariance, PTL

\* A lot with an EXPIRE row is never credited or expired again.
THEOREM LedgerExpiredLotStaysEmpty == Spec => []ExpiredLotStaysEmpty
<1>1. LedgerInv => ExpiredLotStaysEmpty
  BY DEF LedgerInv
<1> QED BY <1>1, LedgerInvariance, PTL

-----------------------------------------------------------------------------
(* Repeated refunds.  A refund plan is a greedy prefix of the usage rows, so two  *)
(* plans of one amount are the same; and a plan once posted stays a plan, because *)
(* neither the rows it took nor the order of the lots it took them from change.   *)

\* A usage row names a lot that was granted.
UsedLotsExist == \A op \in Ops, l \in LotIds : usage[op][l] > 0 => Exists(l)

\* take is what the refund rows of op show, wherever it takes anything.
Posted(op, take) == \A l \in LotIds : take[l] > 0 => refund[op][l].credits = take[l]

\* The amount that was acknowledged last has a plan, and the plan is posted.
AskedIsPosted ==
  \A op \in Ops, credits \in Amounts :
    asked[op] = credits => \E take \in RefundPlans(op, credits) : Posted(op, take)

\* Only the amounts of one operation are ever acknowledged.
AskedAllowed == \A op \in Ops : asked[op] > 0 => asked[op] \in Amounts

RetryInv == LedgerInv /\ UsedLotsExist /\ AskedAllowed /\ AskedIsPosted

\* Rows of a typed ledger, for one operation and one lot.
LEMMA RowFacts ==
  ASSUME LedgerInv, NEW op \in Ops, NEW l \in LotIds
  PROVE  /\ usage[op][l] \in Nat
         /\ refund[op][l].credits \in Nat
         /\ refund[op][l].credits <= usage[op][l]
         /\ FullTake(op, l) \in Nat
         /\ FullTake(op, l) > 0 <=> usage[op][l] > 0
         /\ refund[op][l].credits > 0 => FullTake(op, l) = refund[op][l].credits
         /\ FullTake(op, l) <= usage[op][l]
<1>1. usage[op][l] \in Nat /\ refund[op][l].credits \in Nat
  BY DEF LedgerInv, TypeOK
<1>2. refund[op][l].credits <= usage[op][l]
  BY DEF LedgerInv, RefundWithinUsage
<1>3. QED BY <1>1, <1>2 DEF FullTake

\* What it means to be a refund plan.
LEMMA PlanFacts ==
  ASSUME NEW op \in Ops, NEW credits \in Nat, NEW take \in RefundPlans(op, credits)
  PROVE  /\ take \in [LotIds -> Nat]
         /\ SumFunctionOnSet(take, LotIds) = credits
         /\ \A l \in LotIds :
              /\ take[l] <= FullTake(op, l)
              /\ refund[op][l].credits > 0 => take[l] \in {0, FullTake(op, l)}
              /\ take[l] > 0 =>
                   \A m \in LotIds : usage[op][m] > 0 /\ compareCreditLotsForFefo(m, l) =>
                     take[m] = FullTake(op, m)
<1>1. take \in [LotIds -> 0..credits]
  BY DEF RefundPlans
<1>2. SumFunctionOnSet(take, LotIds) = credits
  <2>1. SumFunction(take) = credits
    BY DEF RefundPlans
  <2>2. DOMAIN take = LotIds
    BY <1>1
  <2>3. QED BY <2>1, <2>2 DEF SumFunction
<1>3. take \in [LotIds -> Nat]
  BY <1>1
<1>4. QED BY <1>2, <1>3 DEF RefundPlans

\* Different lots are ordered one way or the other.
LEMMA FefoIsTotal ==
  ASSUME TypeOK, NEW l \in LotIds, NEW m \in LotIds, l # m
  PROVE  compareCreditLotsForFefo(l, m) \/ compareCreditLotsForFefo(m, l)
<1>1. lots[l].expiration \in Nat /\ lots[m].expiration \in Nat
  BY LotFacts
<1>2. lots[l].createdAt \in Nat /\ lots[m].createdAt \in Nat
  BY ConstantFacts DEF TypeOK, Lot
<1>3. l \in Nat /\ m \in Nat
  BY ConstantFacts
<1>4. QED BY <1>1, <1>2, <1>3 DEF compareCreditLotsForFefo

\* Two plans of the same amount are the same plan: if neither were within the other,
\* the earlier of two lots on which they differ would contradict the greedy order.
LEMMA PlansAreUnique ==
  ASSUME LedgerInv, NEW op \in Ops, NEW credits \in Nat,
         NEW take \in RefundPlans(op, credits), NEW other \in RefundPlans(op, credits),
         NEW l \in LotIds
  PROVE  take[l] = other[l]
<1>1. TypeOK /\ IsFiniteSet(LotIds)
  BY LedgerAssumption DEF LedgerInv
<1>2. /\ \A k \in LotIds : take[k] \in Int /\ other[k] \in Int
      /\ SumFunctionOnSet(take, LotIds) = SumFunctionOnSet(other, LotIds)
  BY PlanFacts
<1>3. ASSUME NEW k \in LotIds, NEW m \in LotIds, take[k] < other[k], other[m] < take[m]
      PROVE  FALSE
  <2>1. /\ take[k] \in Nat /\ other[k] \in Nat /\ take[m] \in Nat /\ other[m] \in Nat
        /\ take[k] <= FullTake(op, k) /\ other[k] <= FullTake(op, k)
        /\ take[m] <= FullTake(op, m) /\ other[m] <= FullTake(op, m)
    BY PlanFacts
  <2>2. FullTake(op, k) \in Nat /\ FullTake(op, m) \in Nat
    BY RowFacts
  <2>3. /\ other[k] > 0 /\ take[m] > 0 /\ k # m
        /\ FullTake(op, k) > 0 /\ FullTake(op, m) > 0
        /\ take[k] # FullTake(op, k) /\ other[m] # FullTake(op, m)
    BY <1>3, <2>1, <2>2
  <2>4. usage[op][k] > 0 /\ usage[op][m] > 0
    BY <2>3, RowFacts
  <2>5. ~compareCreditLotsForFefo(k, m)
    BY <2>3, <2>4, PlanFacts
  <2>6. ~compareCreditLotsForFefo(m, k)
    BY <2>3, <2>4, PlanFacts
  <2>7. QED BY <1>1, <2>3, <2>5, <2>6, FefoIsTotal
<1>4. CASE \A k \in LotIds : take[k] <= other[k]
  BY <1>1, <1>2, <1>4, SumTight
<1>5. CASE \A k \in LotIds : other[k] <= take[k]
  BY <1>1, <1>2, <1>5, SumTight
<1>6. (\A k \in LotIds : take[k] <= other[k]) \/ (\A k \in LotIds : other[k] <= take[k])
  BY <1>2, <1>3
<1>7. QED BY <1>4, <1>5, <1>6

\* A posted plan makes a repeated refund post nothing.
LEMMA RetryPostsNothing == RetryInv => RefundRetryIsNoop
<1>1. SUFFICES ASSUME RetryInv, NEW op \in Ops, asked[op] > 0
               PROVE  /\ RefundPlans(op, asked[op]) # {}
                      /\ \A take \in RefundPlans(op, asked[op]), l \in LotIds : ~Fresh(op, take, l)
  BY DEF RefundRetryIsNoop
<1>2. LedgerInv /\ asked[op] \in Nat /\ asked[op] \in Amounts
  BY <1>1 DEF RetryInv, LedgerInv, TypeOK, AskedAllowed
<1>3. PICK posted \in RefundPlans(op, asked[op]) : Posted(op, posted)
  BY <1>1, <1>2 DEF RetryInv, AskedIsPosted
<1>4. ASSUME NEW take \in RefundPlans(op, asked[op]), NEW l \in LotIds PROVE ~Fresh(op, take, l)
  <2>1. PICK credits \in Nat : credits = asked[op]
    BY <1>2
  <2>2. take[l] = posted[l]
    BY <1>2, <1>3, <1>4, <2>1, PlansAreUnique
  <2>3. refund[op][l].credits \in Nat
    BY <1>2, RowFacts
  <2>4. QED BY <1>3, <2>2, <2>3 DEF Posted, Fresh
<1>5. QED BY <1>3, <1>4

\* A granted lot keeps its dates and its original credits.
LotsKept ==
  \A l \in LotIds : Exists(l) =>
    /\ lots'[l].original = lots[l].original
    /\ lots'[l].expiration = lots[l].expiration
    /\ lots'[l].createdAt = lots[l].createdAt

\* Every operation keeps granted lots.
LEMMA NextKeepsLots ==
  ASSUME LedgerInv, Next
  PROVE  LotsKept
<1>1. lots \in [LotIds -> Lot]
  BY DEF LedgerInv, TypeOK
<1>2. ASSUME NEW g \in GrantInputs, grant(g) PROVE LotsKept
  BY <1>1, <1>2 DEF grant, LotsKept, Exists
<1>3. ASSUME NEW op \in Ops, NEW credits \in Amounts, NEW now \in Times, consume(op, credits, now)
      PROVE  LotsKept
  <2>1. PICK alloc :
          lots' = [l \in LotIds |-> [lots[l] EXCEPT !.remaining =
                     IF l \in {k \in LotIds : Overdue(k, now)} THEN 0 ELSE @ - alloc[l]]]
    BY <1>3 DEF consume
  <2>2. \A l \in LotIds : \E r : lots'[l] = [lots[l] EXCEPT !.remaining = r]
    BY <2>1
  <2>3. QED BY <1>1, <2>2 DEF LotsKept, Lot
<1>4. ASSUME NEW op \in Ops, NEW take, NEW now \in Times, PostRefund(op, take, now)
      PROVE  LotsKept
  <2>1. \A l \in LotIds : \/ \E r : lots'[l] = [lots[l] EXCEPT !.remaining = r]
                          \/ lots'[l] = lots[l]
    BY <1>4 DEF PostRefund
  <2>2. QED BY <1>1, <2>1 DEF LotsKept, Lot
<1>5. ASSUME NEW sub \in Subs, expireSubscriptionLots(sub) PROVE LotsKept
  <2>1. \A l \in LotIds : \/ lots'[l] = [lots[l] EXCEPT !.remaining = 0]
                          \/ lots'[l] = lots[l]
    BY <1>5 DEF expireSubscriptionLots
  <2>2. QED BY <1>1, <2>1 DEF LotsKept, Lot
<1>6. ASSUME NEW op \in Ops, NEW credits \in Amounts, NEW now \in Times,
             refundUsageOperation(op, credits, now)
      PROVE  LotsKept
  BY <1>4, <1>6 DEF refundUsageOperation
<1>7. ASSUME NEW op \in Ops, NEW now \in Times, refundWholeUsageOperation(op, now)
      PROVE  LotsKept
  BY <1>4, <1>7 DEF refundWholeUsageOperation
<1>8. QED BY <1>2, <1>3, <1>5, <1>6, <1>7 DEF Next

\* A plan whose rows are posted after the step is a plan after it: what it took is what
\* the rows say, and the order of the lots it took from is the same.
LEMMA PlanStays ==
  ASSUME LedgerInv, UsedLotsExist, LotsKept, LedgerInv', NEW op \in Ops, NEW credits \in Nat,
         NEW take \in RefundPlans(op, credits),
         \A l \in LotIds : usage'[op][l] = usage[op][l],
         \A l \in LotIds : take[l] > 0 => refund'[op][l].credits = take[l]
  PROVE  take \in RefundPlans(op, credits)'
<1>1. take \in [LotIds -> 0..credits] /\ SumFunction(take) = credits
  BY DEF RefundPlans
<1>2. ASSUME NEW l \in LotIds, take[l] > 0 PROVE FullTake(op, l)' = take[l]
  BY <1>2 DEF FullTake
<1>3. ASSUME NEW l \in LotIds
      PROVE  /\ take[l] <= FullTake(op, l)'
             /\ refund'[op][l].credits > 0 => take[l] \in {0, FullTake(op, l)'}
  <2>1. take[l] \in Nat /\ FullTake(op, l)' \in Nat
    <3>1. usage'[op][l] \in Nat /\ refund'[op][l].credits \in Nat
      BY DEF LedgerInv, TypeOK
    <3>2. QED BY <3>1, PlanFacts DEF FullTake
  <2>2. QED BY <1>2, <2>1
<1>4. ASSUME NEW l \in LotIds, NEW m \in LotIds, take[l] > 0, usage'[op][m] > 0,
             compareCreditLotsForFefo(m, l)'
      PROVE  take[m] = FullTake(op, m)'
  <2>1. take[l] <= FullTake(op, l) /\ FullTake(op, l) \in Nat /\ take[l] \in Nat
    BY PlanFacts, RowFacts
  <2>2. usage[op][l] > 0 /\ usage[op][m] > 0
    <3>1. FullTake(op, l) > 0
      BY <1>4, <2>1
    <3>2. QED BY <1>4, <3>1, RowFacts
  <2>3. Exists(l) /\ Exists(m)
    BY <2>2 DEF UsedLotsExist
  <2>4. compareCreditLotsForFefo(m, l)
    BY <1>4, <2>3 DEF LotsKept, compareCreditLotsForFefo
  <2>5. take[m] = FullTake(op, m)
    BY <1>4, <2>2, <2>4, PlanFacts
  <2>6. take[m] > 0
    BY <2>2, <2>5, RowFacts
  <2>7. QED BY <1>2, <2>6
<1>5. QED BY <1>1, <1>3, <1>4 DEF RefundPlans

\* A refund posts the rows of take for o that are fresh.
RowsPosted(o, take, now) ==
  /\ usage' = usage
  /\ refund'[o] = [l \in LotIds |->
       IF Fresh(o, take, l) THEN [credits |-> take[l], credited |-> Creditable(l, now)]
                            ELSE refund[o][l]]

\* What an operation does to the rows and the acknowledged amount of o: nothing,
\* charge it for the first time, or refund it by a plan of an amount or in full.
RowsSame(o) == usage'[o] = usage[o] /\ refund'[o] = refund[o] /\ asked'[o] = asked[o]
RowsCharged(o) ==
  \E credits \in Amounts, now \in Times :
    /\ \A l \in LotIds : usage[o][l] = 0
    /\ usage'[o] \in allocateCreditConsumption(credits, now)
    /\ refund'[o] = refund[o] /\ asked'[o] = asked[o]
RowsRefunded(o) ==
  \E now \in Times : \E take :
    /\ RowsPosted(o, take, now)
    /\ \/ asked'[o] \in Amounts /\ take \in RefundPlans(o, asked'[o])
       \/ asked'[o] = asked[o] /\ take = RefundAllPlan(o)

\* What the operations do to the rows and the acknowledged amount of one operation.
LEMMA RowsStep ==
  ASSUME LedgerInv, Next, NEW o \in Ops
  PROVE  RowsSame(o) \/ RowsCharged(o) \/ RowsRefunded(o)
<1>1. usage \in [Ops -> [LotIds -> Nat]] /\ asked \in [Ops -> Nat] /\ DOMAIN refund = Ops
  BY DEF LedgerInv, TypeOK
<1>2. ASSUME NEW g \in GrantInputs, grant(g)
      PROVE  usage'[o] = usage[o] /\ refund'[o] = refund[o] /\ asked'[o] = asked[o]
  BY <1>2 DEF grant
<1>3. ASSUME NEW sub \in Subs, expireSubscriptionLots(sub)
      PROVE  usage'[o] = usage[o] /\ refund'[o] = refund[o] /\ asked'[o] = asked[o]
  BY <1>3 DEF expireSubscriptionLots
<1>4. ASSUME NEW op \in Ops, NEW credits \in Amounts, NEW now \in Times, consume(op, credits, now)
      PROVE  \/ usage'[o] = usage[o] /\ refund'[o] = refund[o] /\ asked'[o] = asked[o]
             \/ /\ \A l \in LotIds : usage[o][l] = 0
                /\ usage'[o] \in allocateCreditConsumption(credits, now)
                /\ refund'[o] = refund[o] /\ asked'[o] = asked[o]
  <2>1. /\ \A l \in LotIds : usage[op][l] = 0
        /\ \E alloc \in allocateCreditConsumption(credits, now) :
             usage' = [usage EXCEPT ![op] = alloc]
        /\ refund' = refund /\ asked' = asked
    BY <1>4 DEF consume
  <2>2. PICK alloc \in allocateCreditConsumption(credits, now) :
          usage' = [usage EXCEPT ![op] = alloc]
    BY <2>1
  <2>3. QED BY <1>1, <2>1, <2>2
<1>5. ASSUME NEW op \in Ops, NEW take, NEW now \in Times, PostRefund(op, take, now)
      PROVE  /\ usage' = usage
             /\ o # op => refund'[o] = refund[o]
             /\ o = op => RowsPosted(o, take, now)
  BY <1>1, <1>5 DEF PostRefund, RowsPosted
<1>6. ASSUME NEW op \in Ops, NEW credits \in Amounts, NEW now \in Times,
             refundUsageOperation(op, credits, now)
      PROVE  \/ usage'[o] = usage[o] /\ refund'[o] = refund[o] /\ asked'[o] = asked[o]
             \/ \E take :
                  /\ RowsPosted(o, take, now)
                  /\ asked'[o] \in Amounts /\ take \in RefundPlans(o, asked'[o])
  <2>1. PICK take \in RefundPlans(op, credits) :
          PostRefund(op, take, now) /\ asked' = [asked EXCEPT ![op] = credits]
    BY <1>6 DEF refundUsageOperation
  <2>2. CASE o # op
    BY <1>1, <1>5, <2>1, <2>2
  <2>3. CASE o = op
    <3>1. asked'[o] = credits
      BY <1>1, <2>1, <2>3
    <3>2. QED BY <1>5, <2>1, <2>3, <3>1
  <2>4. QED BY <2>2, <2>3
<1>7. ASSUME NEW op \in Ops, NEW now \in Times, refundWholeUsageOperation(op, now)
      PROVE  \/ usage'[o] = usage[o] /\ refund'[o] = refund[o] /\ asked'[o] = asked[o]
             \/ \E take :
                  /\ RowsPosted(o, take, now)
                  /\ asked'[o] = asked[o] /\ take = RefundAllPlan(o)
  <2>1. PICK take : take = RefundAllPlan(op)
    OBVIOUS
  <2>2. PostRefund(op, take, now) /\ asked' = asked
    BY <1>7, <2>1 DEF refundWholeUsageOperation
  <2>3. CASE o # op
    BY <1>5, <2>2, <2>3
  <2>4. CASE o = op
    BY <1>5, <2>1, <2>2, <2>4
  <2>5. QED BY <2>3, <2>4
<1>8. QED
  <2>1. CASE \E g \in GrantInputs : grant(g)
    BY <1>2, <2>1 DEF RowsSame
  <2>2. CASE \E op \in Ops, credits \in Amounts, now \in Times : consume(op, credits, now)
    BY <1>4, <2>2 DEF RowsSame, RowsCharged
  <2>3. CASE \E op \in Ops, credits \in Amounts, now \in Times :
               refundUsageOperation(op, credits, now)
    <3>1. PICK op \in Ops, credits \in Amounts, now \in Times :
            refundUsageOperation(op, credits, now)
      BY <2>3
    <3>2. CASE usage'[o] = usage[o] /\ refund'[o] = refund[o] /\ asked'[o] = asked[o]
      BY <3>2 DEF RowsSame
    <3>3. CASE \E take : /\ RowsPosted(o, take, now)
                         /\ asked'[o] \in Amounts /\ take \in RefundPlans(o, asked'[o])
      BY <3>3, Zenon DEF RowsRefunded
    <3>4. QED BY <1>6, <3>1, <3>2, <3>3
  <2>4. CASE \E op \in Ops, now \in Times : refundWholeUsageOperation(op, now)
    <3>1. PICK op \in Ops, now \in Times : refundWholeUsageOperation(op, now)
      BY <2>4
    <3>2. CASE usage'[o] = usage[o] /\ refund'[o] = refund[o] /\ asked'[o] = asked[o]
      BY <3>2 DEF RowsSame
    <3>3. CASE \E take : /\ RowsPosted(o, take, now)
                         /\ asked'[o] = asked[o] /\ take = RefundAllPlan(o)
      BY <3>3, Zenon DEF RowsRefunded
    <3>4. QED BY <1>7, <3>1, <3>2, <3>3
  <2>5. CASE \E sub \in Subs : expireSubscriptionLots(sub)
    BY <1>3, <2>5 DEF RowsSame
  <2>6. QED BY <2>1, <2>2, <2>3, <2>4, <2>5 DEF Next

\* After a refund its plan is posted, and what was refunded before is still there.
LEMMA RowsAfterRefund ==
  ASSUME LedgerInv, NEW o \in Ops, NEW take, NEW now \in Times, RowsPosted(o, take, now),
         \A l \in LotIds : take[l] \in Nat /\ take[l] <= FullTake(o, l)
  PROVE  \A l \in LotIds :
           /\ refund[o][l].credits > 0 => refund'[o][l].credits = refund[o][l].credits
           /\ take[l] > 0 /\ (refund[o][l].credits > 0 => take[l] = FullTake(o, l)) =>
                refund'[o][l].credits = take[l]
<1>1. SUFFICES ASSUME NEW l \in LotIds
               PROVE  /\ refund[o][l].credits > 0 => refund'[o][l].credits = refund[o][l].credits
                      /\ take[l] > 0 /\ (refund[o][l].credits > 0 => take[l] = FullTake(o, l)) =>
                           refund'[o][l].credits = take[l]
  OBVIOUS
<1>2. /\ Fresh(o, take, l) => refund'[o][l].credits = take[l]
      /\ ~Fresh(o, take, l) => refund'[o][l].credits = refund[o][l].credits
  BY DEF RowsPosted
<1>3. refund[o][l].credits \in Nat
  BY RowFacts
<1>4. refund[o][l].credits > 0 => FullTake(o, l) = refund[o][l].credits
  BY RowFacts
<1>5. QED BY <1>2, <1>3, <1>4 DEF Fresh

\* Usage rows keep naming granted lots.
LEMMA UsedLotsStep ==
  ASSUME LedgerInv, UsedLotsExist, Next
  PROVE  UsedLotsExist'
<1>1. SUFFICES ASSUME NEW o \in Ops, NEW l \in LotIds, usage'[o][l] > 0 PROVE lots'[l].original > 0
  BY DEF UsedLotsExist, Exists
<1>2. LotsKept
  BY NextKeepsLots
<1>3. Exists(l)
  <2>1. CASE usage'[o] = usage[o]
    BY <1>1, <2>1 DEF UsedLotsExist
  <2>2. CASE \E credits \in Amounts, now \in Times :
               usage'[o] \in allocateCreditConsumption(credits, now)
    <3>1. PICK credits \in Amounts, now \in Times :
            usage'[o] \in allocateCreditConsumption(credits, now)
      BY <2>2
    <3>2. usage'[o][l] <= (IF Spendable(l, now) THEN lots[l].remaining ELSE 0)
      BY <3>1 DEF allocateCreditConsumption
    <3>3. usage'[o][l] \in Nat
      BY <3>1, ConstantFacts DEF allocateCreditConsumption
    <3>4. Spendable(l, now)
      BY <1>1, <3>2, <3>3
    <3>5. lots[l].original = lots[l].remaining + held[l][Ops] + expire[l].credits
      BY DEF LedgerInv, LotConservation
    <3>6. /\ lots[l].remaining \in Nat /\ held[l][Ops] \in Nat /\ expire[l].credits \in Nat
      BY LotFacts DEF LedgerInv
    <3>7. QED BY <3>4, <3>5, <3>6 DEF Spendable, Exists
  <2>3. CASE usage' = usage
    BY <1>1, <2>3 DEF UsedLotsExist
  <2>4. \/ usage'[o] = usage[o]
        \/ \E credits \in Amounts, now \in Times :
             usage'[o] \in allocateCreditConsumption(credits, now)
        \/ usage' = usage
    BY RowsStep DEF RowsSame, RowsCharged, RowsRefunded, RowsPosted
  <2>5. QED BY <2>1, <2>2, <2>3, <2>4
<1>4. QED BY <1>2, <1>3 DEF LotsKept, Exists

\* The acknowledged amount keeps its posted plan.
LEMMA AskedStep ==
  ASSUME RetryInv, Next, LedgerInv'
  PROVE  AskedIsPosted'
<1>1. LedgerInv /\ UsedLotsExist /\ AskedIsPosted
  BY DEF RetryInv
<1>2. LotsKept
  BY <1>1, NextKeepsLots
<1>3. SUFFICES ASSUME NEW o \in Ops, NEW credits \in Amounts, asked'[o] = credits
               PROVE  \E take \in RefundPlans(o, credits)' : Posted(o, take)'
  BY DEF AskedIsPosted
<1>4. credits \in Nat /\ credits > 0
  BY ConstantFacts
<1>6. ASSUME asked'[o] = asked[o], usage'[o] = usage[o],
             \A l \in LotIds : refund[o][l].credits > 0 =>
               refund'[o][l].credits = refund[o][l].credits
      PROVE  \E take \in RefundPlans(o, credits)' : Posted(o, take)'
  <2>1. PICK take \in RefundPlans(o, credits) : Posted(o, take)
    BY <1>1, <1>3, <1>4, <1>6 DEF AskedIsPosted
  <2>2. \A l \in LotIds : take[l] > 0 => refund'[o][l].credits = take[l]
    BY <1>6, <2>1 DEF Posted
  <2>3. take \in RefundPlans(o, credits)'
    BY <1>1, <1>2, <1>4, <1>6, <2>1, <2>2, PlanStays
  <2>4. QED BY <2>2, <2>3 DEF Posted
<1>7. CASE usage'[o] = usage[o] /\ refund'[o] = refund[o] /\ asked'[o] = asked[o]
  BY <1>6, <1>7
<1>8. CASE (\A l \in LotIds : usage[o][l] = 0) /\ asked'[o] = asked[o]
  <2>1. PICK take \in RefundPlans(o, credits) : Posted(o, take)
    BY <1>1, <1>3, <1>4, <1>8 DEF AskedIsPosted
  <2>2. \A l \in LotIds : take[l] = 0
    <3>1. SUFFICES ASSUME NEW l \in LotIds PROVE take[l] = 0
      OBVIOUS
    <3>2. take[l] \in Nat /\ take[l] <= FullTake(o, l)
      BY <1>4, <2>1, PlanFacts
    <3>3. usage[o][l] = 0 /\ FullTake(o, l) \in Nat /\ FullTake(o, l) <= usage[o][l]
      BY <1>1, <1>8, RowFacts
    <3>4. QED BY <3>2, <3>3
  <2>3. SumFunctionOnSet(take, LotIds) = 0
    BY <2>2, LedgerAssumption, SumZero
  <2>4. QED BY <1>3, <1>4, <2>1, <2>3, PlanFacts
<1>9. ASSUME NEW now \in Times, NEW take, RowsPosted(o, take, now),
             take \in RefundPlans(o, credits)
      PROVE  \E other \in RefundPlans(o, credits)' : Posted(o, other)'
  <2>1. take \in RefundPlans(o, credits)
    BY <1>9
  <2>2. \A l \in LotIds : /\ take[l] \in Nat /\ take[l] <= FullTake(o, l)
                          /\ refund[o][l].credits > 0 => take[l] \in {0, FullTake(o, l)}
    BY <1>4, <2>1, PlanFacts
  <2>3. \A l \in LotIds : take[l] > 0 => refund'[o][l].credits = take[l]
    <3>1. SUFFICES ASSUME NEW l \in LotIds, take[l] > 0 PROVE refund'[o][l].credits = take[l]
      OBVIOUS
    <3>2. refund[o][l].credits > 0 => take[l] = FullTake(o, l)
      BY <2>2, <3>1
    <3>3. QED BY <1>1, <1>9, <2>2, <3>1, <3>2, RowsAfterRefund
  <2>4. \A l \in LotIds : usage'[o][l] = usage[o][l]
    BY <1>9 DEF RowsPosted
  <2>5. take \in RefundPlans(o, credits)'
    BY <1>1, <1>2, <1>4, <2>1, <2>3, <2>4, PlanStays
  <2>6. QED BY <2>3, <2>5 DEF Posted
<1>10. ASSUME NEW now \in Times, NEW take, RowsPosted(o, take, now),
              asked'[o] = asked[o], take = RefundAllPlan(o)
       PROVE  \E other \in RefundPlans(o, credits)' : Posted(o, other)'
  <2>1. \A l \in LotIds : take[l] \in Nat /\ take[l] <= FullTake(o, l)
    <3>1. \A l \in LotIds : take[l] = FullTake(o, l)
      BY <1>10 DEF RefundAllPlan
    <3>2. QED BY <1>1, <3>1, RowFacts
  <2>2. \A l \in LotIds : refund[o][l].credits > 0 => refund'[o][l].credits = refund[o][l].credits
    BY <1>1, <1>10, <2>1, RowsAfterRefund
  <2>3. usage'[o] = usage[o]
    BY <1>10 DEF RowsPosted
  <2>4. QED BY <1>6, <1>10, <2>2, <2>3
<1>11. CASE RowsRefunded(o)
  BY <1>3, <1>9, <1>10, <1>11 DEF RowsRefunded
<1>12. QED BY <1>1, <1>7, <1>8, <1>11, RowsStep DEF RowsSame, RowsCharged

\* Nothing else is acknowledged.
LEMMA AllowedStep ==
  ASSUME RetryInv, Next
  PROVE  AskedAllowed'
<1>1. SUFFICES ASSUME NEW o \in Ops, asked'[o] > 0 PROVE asked'[o] \in Amounts
  BY DEF AskedAllowed
<1>2. asked'[o] = asked[o] \/ asked'[o] \in Amounts
  BY RowsStep DEF RetryInv, RowsSame, RowsCharged, RowsRefunded
<1>3. QED BY <1>1, <1>2 DEF RetryInv, AskedAllowed

\* RetryInv is an invariant of the ledger.
THEOREM RetryInvariance == Spec => []RetryInv
<1>1. Init => RetryInv
  <2>1. SUFFICES ASSUME Init PROVE RetryInv
    OBVIOUS
  <2>2. LedgerInv
    BY <2>1, InitLedgerInv
  <2>3. \A op \in Ops : asked[op] = 0 /\ \A l \in LotIds : usage[op][l] = 0
    BY <2>1 DEF Init
  <2>4. UsedLotsExist /\ AskedAllowed
    BY <2>3 DEF UsedLotsExist, AskedAllowed
  <2>5. AskedIsPosted
    BY <2>3, ConstantFacts DEF AskedIsPosted
  <2>6. QED BY <2>2, <2>4, <2>5 DEF RetryInv
<1>2. RetryInv /\ [Next]_vars => RetryInv'
  <2>1. SUFFICES ASSUME RetryInv, [Next]_vars PROVE RetryInv'
    OBVIOUS
  <2>2. LedgerInv'
    BY <2>1, NextLedgerInv DEF RetryInv
  <2>3. CASE Next
    <3>1. UsedLotsExist'
      BY <2>1, <2>3, UsedLotsStep DEF RetryInv
    <3>2. AskedAllowed'
      BY <2>1, <2>3, AllowedStep
    <3>3. AskedIsPosted'
      BY <2>1, <2>2, <2>3, AskedStep
    <3>4. QED BY <2>2, <3>1, <3>2, <3>3 DEF RetryInv
  <2>4. CASE UNCHANGED vars
    <3>1. UNCHANGED <<lots, usage, refund, asked>>
      BY <2>4 DEF vars
    <3>2. UsedLotsExist' /\ AskedAllowed'
      BY <2>1, <3>1 DEF RetryInv, UsedLotsExist, AskedAllowed, Exists
    <3>3. \A op \in Ops, credits \in Amounts :
            /\ RefundPlans(op, credits)' = RefundPlans(op, credits)
            /\ \A take : Posted(op, take)' <=> Posted(op, take)
      BY <3>1 DEF RefundPlans, Posted, FullTake, compareCreditLotsForFefo
    <3>4. AskedIsPosted'
      BY <2>1, <3>1, <3>3 DEF RetryInv, AskedIsPosted
    <3>5. QED BY <2>2, <3>2, <3>4 DEF RetryInv
  <2>5. QED BY <2>1, <2>3, <2>4
<1>3. QED BY <1>1, <1>2, PTL DEF Spec

\* A settlement that repeats the refund it was last acknowledged (the answer was lost, or
\* a second execution runs) finds a plan that posts no row, whatever refunds, expiries
\* and grants came between, for any number of lots and operations.
THEOREM RefundsRepeatSafely == Spec => []RefundRetryIsNoop
BY RetryInvariance, RetryPostsNothing, PTL

-----------------------------------------------------------------------------
(* Refinement of UsageAccount: sums over the lots of one operation *)

\* What the refund rows of an operation sum up to.
RefundedRow(op) == [l \in LotIds |-> refund[op][l].credits]

\* The acknowledged amount is covered by the refund rows.
AskedCovered ==
  \A op \in Ops : asked[op] <= SumFunctionOnSet(RefundedRow(op), LotIds)

\* The posted plan sums up to the acknowledged amount, and is part of the rows.
LEMMA PostedCovers == RetryInv => AskedCovered
<1>1. SUFFICES ASSUME RetryInv, NEW op \in Ops
               PROVE  asked[op] <= SumFunctionOnSet(RefundedRow(op), LotIds)
  BY DEF AskedCovered
<1>2. LedgerInv /\ asked[op] \in Nat /\ IsFiniteSet(LotIds)
  BY <1>1, LedgerAssumption DEF RetryInv, LedgerInv, TypeOK
<1>3. PICK row : row = RefundedRow(op)
  OBVIOUS
<1>4. \A l \in LotIds : row[l] = refund[op][l].credits /\ row[l] \in Nat
  BY <1>2, <1>3, RowFacts DEF RefundedRow
<1>5. SumFunctionOnSet(row, LotIds) \in Nat
  BY <1>2, <1>4, SumNat
<1>6. CASE asked[op] = 0
  BY <1>3, <1>5, <1>6
<1>7. CASE asked[op] > 0
  <2>1. PICK credits \in Amounts : credits = asked[op]
    BY <1>1, <1>7 DEF RetryInv, AskedAllowed
  <2>2. PICK take \in RefundPlans(op, credits) : Posted(op, take)
    BY <1>1, <2>1 DEF RetryInv, AskedIsPosted
  <2>3. credits \in Nat
    BY <1>2, <2>1
  <2>4. take \in [LotIds -> Nat] /\ SumFunctionOnSet(take, LotIds) = credits
    BY <2>2, <2>3, PlanFacts
  <2>5. \A l \in LotIds : take[l] \in Int /\ row[l] \in Int /\ take[l] <= row[l]
    BY <1>4, <2>2, <2>4 DEF Posted
  <2>6. SumFunctionOnSet(take, LotIds) <= SumFunctionOnSet(row, LotIds)
    BY <1>2, <2>5, SumMono
  <2>7. QED BY <1>3, <2>1, <2>4, <2>6
<1>8. QED BY <1>2, <1>6, <1>7

\* The sums of UsageAccount, by rows.
LEMMA AccountSums ==
  ASSUME TypeOK, NEW op \in Ops
  PROVE  /\ SumFunction(usage[op]) = SumFunctionOnSet(usage[op], LotIds)
         /\ SumFunction([l \in LotIds |-> refund[op][l].credits])
              = SumFunctionOnSet(RefundedRow(op), LotIds)
<1>1. DOMAIN usage[op] = LotIds
  BY DEF TypeOK
<1>2. QED BY <1>1 DEF SumFunction, RefundedRow

\* consume charges an operation that was not charged.
LEMMA ConsumeCharges ==
  ASSUME LedgerInv, NEW op \in Ops, NEW credits \in Amounts, NEW now \in Times,
         consume(op, credits, now)
  PROVE  Account!Charge(op)
<1>1. PICK alloc \in allocateCreditConsumption(credits, now) :
        usage' = [usage EXCEPT ![op] = alloc]
  BY DEF consume
<1>2. /\ \A l \in LotIds : usage[op][l] = 0
      /\ refund' = refund /\ asked' = asked
  BY DEF consume
<1>3. TypeOK /\ IsFiniteSet(LotIds) /\ credits \in Nat \ {0}
  BY LedgerAssumption, ConstantFacts DEF LedgerInv
<1>4. SumFunction(usage[op]) = 0
  <2>1. PICK row : row = usage[op]
    OBVIOUS
  <2>2. SumFunctionOnSet(row, LotIds) = 0
    BY <1>2, <1>3, <2>1, SumZero
  <2>3. QED BY <1>3, <2>1, <2>2, AccountSums
<1>5. SumFunction(usage'[op]) = credits
  <2>1. usage'[op] = alloc
    BY <1>1, <1>3 DEF TypeOK
  <2>2. QED BY <2>1, <1>1 DEF allocateCreditConsumption
<1>6. \A o \in Ops \ {op} : usage'[o] = usage[o]
  BY <1>1, <1>3 DEF TypeOK
<1> DEFINE before == [o \in Ops |-> SumFunction(usage[o])]
           after == [o \in Ops |-> SumFunction(usage'[o])]
<1>7. before[op] = 0 /\ after[op] \in Nat \ {0}
  BY <1>3, <1>4, <1>5
<1>8. \A o \in Ops \ {op} : after[o] = before[o]
  BY <1>6
<1>9. after = [before EXCEPT ![op] = after[op]]
  <2>1. DOMAIN before = Ops /\ DOMAIN after = Ops
    OBVIOUS
  <2>2. after = [o \in Ops |-> after[o]]
    OBVIOUS
  <2> HIDE DEF before, after
  <2>3. QED BY <1>8, <2>1, <2>2
<1>10. QED BY <1>2, <1>7, <1>9 DEF Account!Charge

\* A refund of any amount, or of the whole operation, only adds to what is refunded,
\* stays within the charge, and covers what it acknowledges.
LEMMA RefundAddsUp ==
  ASSUME RetryInv, LedgerInv', AskedCovered', NEW op \in Ops, NEW now \in Times, NEW take,
         PostRefund(op, take, now),
         \A l \in LotIds : take[l] \in Nat /\ take[l] <= FullTake(op, l),
         asked' = [asked EXCEPT ![op] = asked'[op]]
  PROVE  Account!Refund(op)
<1>1. LedgerInv /\ TypeOK /\ TypeOK' /\ IsFiniteSet(LotIds)
  BY LedgerAssumption DEF RetryInv, LedgerInv
<1>2. usage' = usage /\ RowsPosted(op, take, now) /\ \A o \in Ops \ {op} : refund'[o] = refund[o]
  BY <1>1 DEF PostRefund, RowsPosted, TypeOK
<1>3. PICK old, new, row : /\ old = RefundedRow(op)
                           /\ new = [l \in LotIds |-> refund'[op][l].credits]
                           /\ row = usage[op]
  OBVIOUS
<1>4. \A l \in LotIds : /\ old[l] \in Nat /\ new[l] \in Nat /\ row[l] \in Nat
                        /\ old[l] <= new[l] /\ new[l] <= row[l]
  <2>1. SUFFICES ASSUME NEW l \in LotIds
                 PROVE  /\ old[l] \in Nat /\ new[l] \in Nat /\ row[l] \in Nat
                        /\ old[l] <= new[l] /\ new[l] <= row[l]
    OBVIOUS
  <2>2. old[l] = refund[op][l].credits /\ new[l] = refund'[op][l].credits /\ row[l] = usage[op][l]
    BY <1>3 DEF RefundedRow
  <2>3. refund[op][l].credits \in Nat /\ usage[op][l] \in Nat
    BY <1>1, RowFacts
  <2>4. refund'[op][l].credits \in Nat /\ refund'[op][l].credits <= usage'[op][l]
    BY DEF LedgerInv, TypeOK, RefundWithinUsage
  <2>5. refund[op][l].credits > 0 => refund'[op][l].credits = refund[op][l].credits
    BY <1>1, <1>2, RowsAfterRefund
  <2>6. QED BY <1>2, <2>2, <2>3, <2>4, <2>5
<1>5. PICK a, b, c : /\ a = SumFunctionOnSet(old, LotIds)
                     /\ b = SumFunctionOnSet(new, LotIds)
                     /\ c = SumFunctionOnSet(row, LotIds)
  OBVIOUS
<1>6. a \in Nat /\ b \in Nat /\ c \in Nat
  BY <1>1, <1>4, <1>5, SumNat
<1>7. a <= b
  BY <1>1, <1>4, <1>5, SumMono
<1>8. b <= c
  BY <1>1, <1>4, <1>5, SumMono
<1>9. asked'[op] \in 0..b
  <2>1. asked'[op] \in Nat
    BY DEF LedgerInv, TypeOK
  <2>2. asked'[op] <= SumFunctionOnSet(RefundedRow(op)', LotIds)
    BY DEF AskedCovered
  <2>3. RefundedRow(op)' = new
    BY <1>3 DEF RefundedRow
  <2>4. QED BY <1>5, <1>6, <2>1, <2>2, <2>3
<1> DEFINE ref == [o \in Ops |-> SumFunction([l \in LotIds |-> refund[o][l].credits])]
           refAfter == [o \in Ops |-> SumFunction([l \in LotIds |-> refund'[o][l].credits])]
           ch == [o \in Ops |-> SumFunction(usage[o])]
           chAfter == [o \in Ops |-> SumFunction(usage'[o])]
<1>10. ref[op] = a /\ ch[op] = c
  BY <1>1, <1>3, <1>5, AccountSums
<1>11. refAfter[op] = b
  BY <1>3, <1>5 DEF SumFunction
<1>12. \A o \in Ops \ {op} : refAfter[o] = ref[o]
  BY <1>2
<1>13. chAfter = ch
  BY <1>2
<1>14. refAfter = [ref EXCEPT ![op] = refAfter[op]]
  <2>1. DOMAIN ref = Ops /\ DOMAIN refAfter = Ops
    OBVIOUS
  <2>2. refAfter = [o \in Ops |-> refAfter[o]]
    OBVIOUS
  <2> HIDE DEF ref, refAfter
  <2>3. QED BY <1>12, <2>1, <2>2
<1>15. refAfter[op] \in ref[op]..ch[op] /\ asked'[op] \in 0..refAfter[op]
  <2> HIDE DEF ref, refAfter, ch
  <2>1. QED BY <1>6, <1>7, <1>8, <1>9, <1>10, <1>11
<1>16. QED BY <1>13, <1>14, <1>15 DEF Account!Refund

\* The ledger of a workspace implements the plain account that its callers rely on: an
\* operation is charged once, its refunds only grow and stay within the charge, and
\* what a refund acknowledges is posted, over any lots, clocks and expiries.
THEOREM LedgerIsAnAccount == Spec => ImplementsUsageAccount
<1>1. Init => Account!Init
  <2>1. SUFFICES ASSUME Init PROVE Account!Init
    OBVIOUS
  <2>2. TypeOK /\ IsFiniteSet(LotIds)
    BY <2>1, InitLedgerInv, LedgerAssumption DEF LedgerInv
  <2>3. ASSUME NEW op \in Ops PROVE SumFunction(usage[op]) = 0
    <3>1. PICK row : row = usage[op]
      OBVIOUS
    <3>2. \A l \in LotIds : row[l] = 0
      BY <2>1, <3>1 DEF Init
    <3>3. SumFunctionOnSet(row, LotIds) = 0
      BY <2>2, <3>2, SumZero
    <3>4. QED BY <2>2, <3>1, <3>3, AccountSums
  <2>4. ASSUME NEW op \in Ops PROVE SumFunction([l \in LotIds |-> refund[op][l].credits]) = 0
    <3>1. PICK row : row = RefundedRow(op)
      OBVIOUS
    <3>2. \A l \in LotIds : row[l] = 0
      BY <2>1, <3>1 DEF Init, RefundedRow, NoRefund
    <3>3. SumFunctionOnSet(row, LotIds) = 0
      BY <2>2, <3>2, SumZero
    <3>4. QED BY <2>2, <3>1, <3>3, AccountSums
  <2>5. asked = [op \in Ops |-> 0]
    BY <2>1 DEF Init
  <2>6. QED BY <2>3, <2>4, <2>5 DEF Account!Init
<1>2. RetryInv /\ RetryInv' /\ AskedCovered' /\ [Next]_vars => [Account!Next]_(Account!vars)
  <2>1. SUFFICES ASSUME RetryInv, RetryInv', AskedCovered', [Next]_vars
                 PROVE  [Account!Next]_(Account!vars)
    OBVIOUS
  <2>2. LedgerInv /\ LedgerInv' /\ asked \in [Ops -> Nat]
    BY <2>1 DEF RetryInv, LedgerInv, TypeOK
  <2>3. ASSUME UNCHANGED <<usage, refund, asked>> PROVE UNCHANGED Account!vars
    BY <2>3 DEF Account!vars
  <2>4. CASE \E g \in GrantInputs : grant(g)
    BY <2>3, <2>4 DEF grant
  <2>5. CASE \E sub \in Subs : expireSubscriptionLots(sub)
    BY <2>3, <2>5 DEF expireSubscriptionLots
  <2>6. CASE \E op \in Ops, credits \in Amounts, now \in Times : consume(op, credits, now)
    BY <2>2, <2>6, ConsumeCharges DEF Account!Next
  <2>7. CASE \E op \in Ops, credits \in Amounts, now \in Times :
               refundUsageOperation(op, credits, now)
    <3>1. PICK op \in Ops, credits \in Amounts, now \in Times :
            refundUsageOperation(op, credits, now)
      BY <2>7
    <3>2. PICK take \in RefundPlans(op, credits) :
            PostRefund(op, take, now) /\ asked' = [asked EXCEPT ![op] = credits]
      BY <3>1 DEF refundUsageOperation
    <3>3. credits \in Nat
      BY ConstantFacts
    <3>4. \A l \in LotIds : take[l] \in Nat /\ take[l] <= FullTake(op, l)
      BY <3>2, <3>3, PlanFacts
    <3>5. asked' = [asked EXCEPT ![op] = asked'[op]]
      BY <2>2, <3>2
    <3>6. Account!Refund(op)
      BY <2>1, <2>2, <3>2, <3>4, <3>5, RefundAddsUp
    <3>7. QED BY <3>6 DEF Account!Next
  <2>8. CASE \E op \in Ops, now \in Times : refundWholeUsageOperation(op, now)
    <3>1. PICK op \in Ops, now \in Times : refundWholeUsageOperation(op, now)
      BY <2>8
    <3>2. PICK take : take = RefundAllPlan(op)
      OBVIOUS
    <3>3. PostRefund(op, take, now) /\ asked' = asked
      BY <3>1, <3>2 DEF refundWholeUsageOperation
    <3>4. \A l \in LotIds : take[l] \in Nat /\ take[l] <= FullTake(op, l)
      <4>1. \A l \in LotIds : take[l] = FullTake(op, l)
        BY <3>2 DEF RefundAllPlan
      <4>2. QED BY <2>2, <4>1, RowFacts
    <3>5. asked' = [asked EXCEPT ![op] = asked'[op]]
      BY <2>2, <3>3
    <3>6. Account!Refund(op)
      BY <2>1, <2>2, <3>3, <3>4, <3>5, RefundAddsUp
    <3>7. QED BY <3>6 DEF Account!Next
  <2>9. CASE UNCHANGED vars
    BY <2>3, <2>9 DEF vars
  <2>10. QED BY <2>1, <2>4, <2>5, <2>6, <2>7, <2>8, <2>9 DEF Next
<1>3. QED
  BY <1>1, <1>2, PostedCovers, RetryInvariance, PTL
     DEF Spec, ImplementsUsageAccount, Account!Spec

-----------------------------------------------------------------------------
(* The balance page: sums over all lots and all rows *)

\* The history variable is the sum over rows that it stands for.
LEMMA HeldSums == LedgerInv => HeldIsRowSum
<1>1. SUFFICES ASSUME LedgerInv, NEW l \in LotIds, NEW X \in SUBSET Ops
               PROVE  held[l][X] = SumFunction([op \in X |-> Outstanding(op, l)])
  BY DEF HeldIsRowSum
<1>2. PICK g : g = [op \in Ops |-> Outstanding(op, l)]
  OBVIOUS
<1>3. \A op \in Ops : g[op] = Outstanding(op, l) /\ g[op] \in Int
  BY <1>1, <1>2 DEF LedgerInv, TypeOK, Outstanding
<1>4. IsFiniteSet(X)
  BY LedgerAssumption, FS_Subset
<1> DEFINE P == {T \in SUBSET X : held[l][T] = SumFunctionOnSet(g, T)}
<1>5. {} \in P
  <2>1. held[l][{}] = 0
    BY <1>1 DEF LedgerInv, HeldAdditive
  <2>2. SumFunctionOnSet(g, {}) = 0
    BY SumEmpty
  <2>3. QED BY <2>1, <2>2
<1>6. ASSUME NEW T \in SUBSET X, NEW op \in X \ T, IsFiniteSet(T), T \in P PROVE T \cup {op} \in P
  <2>1. T \in SUBSET (Ops \ {op}) /\ op \in Ops /\ T \cup {op} \subseteq Ops
    BY <1>6
  <2>2. held[l][T \cup {op}] = held[l][T] + Outstanding(op, l)
    BY <1>1, <2>1 DEF LedgerInv, HeldAdditive
  <2>3. SumFunctionOnSet(g, T \cup {op}) = g[op] + SumFunctionOnSet(g, T)
    <3>1. \A y \in T \cup {op} : g[y] \in Int
      BY <1>3, <2>1
    <3>2. QED BY <1>6, <3>1, SumInsert
  <2>4. held[l][T] = SumFunctionOnSet(g, T) /\ held[l][T] \in Int
    BY <1>1, <1>6, <2>1 DEF LedgerInv, TypeOK
  <2>5. held[l][T \cup {op}] = SumFunctionOnSet(g, T \cup {op})
    BY <1>3, <2>1, <2>2, <2>3, <2>4
  <2>6. QED BY <1>6, <2>5
<1>7. X \in P
  <2> HIDE DEF P
  <2>1. QED BY <1>4, <1>5, <1>6, SetInduction
<1>8. PICK h : h = [op \in X |-> Outstanding(op, l)]
  OBVIOUS
<1>9. SumFunctionOnSet(h, X) = SumFunctionOnSet(g, X)
  <2>1. \A op \in X : g[op] \in Int /\ h[op] = g[op]
    BY <1>3, <1>8
  <2>2. QED BY <1>4, <2>1, SumSame
<1>10. SumFunction(h) = SumFunctionOnSet(h, X)
  <2>1. DOMAIN h = X
    BY <1>8
  <2>2. QED BY <2>1 DEF SumFunction
<1>11. QED BY <1>7, <1>8, <1>9, <1>10

\* The sum over part of a set, of values that a function on the whole set has there
\* and that is zero elsewhere.
LEMMA PartSum ==
  ASSUME NEW S, IsFiniteSet(S), NEW T \in SUBSET S, NEW whole, NEW part,
         DOMAIN part = T,
         \A x \in S : whole[x] \in Int,
         \A x \in T : part[x] = whole[x],
         \A x \in S \ T : whole[x] = 0
  PROVE  SumFunction(part) = SumFunctionOnSet(whole, S)
<1>1. IsFiniteSet(T)
  BY FS_Subset
<1>2. SumFunctionOnSet(part, T) = SumFunctionOnSet(whole, T)
  BY <1>1, SumSame
<1>3. SumFunctionOnSet(whole, S) = SumFunctionOnSet(whole, T)
  BY SumSupport
<1>4. QED BY <1>2, <1>3 DEF SumFunction

\* What remains is available or overdue.
LEMMA RemainingSplits ==
  ASSUME LedgerInv, NEW asOf \in Times
  PROVE  LET a == SumFunction([l \in {k \in LotIds : lots[k].expiration > asOf} |->
                                lots[l].remaining])
             p == SumFunction([l \in {k \in LotIds : Overdue(k, asOf)} |-> lots[l].remaining])
         IN /\ a \in Int /\ p \in Int
            /\ SumFunctionOnSet([l \in LotIds |-> lots[l].remaining], LotIds) = a + p
<1>1. PICK cur, pend : /\ cur = {k \in LotIds : lots[k].expiration > asOf}
                       /\ pend = {k \in LotIds : Overdue(k, asOf)}
  OBVIOUS
<1>2. PICK f, g, h, fp, gp :
        /\ f = [l \in LotIds |-> IF l \in cur THEN lots[l].remaining ELSE 0]
        /\ g = [l \in LotIds |-> IF l \in pend THEN lots[l].remaining ELSE 0]
        /\ h = [l \in LotIds |-> lots[l].remaining]
        /\ fp = [l \in cur |-> lots[l].remaining]
        /\ gp = [l \in pend |-> lots[l].remaining]
  OBVIOUS
<1>3. IsFiniteSet(LotIds) /\ cur \in SUBSET LotIds /\ pend \in SUBSET LotIds
  BY <1>1, LedgerAssumption
<1>4. \A l \in LotIds : /\ lots[l].remaining \in Nat
                        /\ l \in cur => l \notin pend
                        /\ l \notin cur /\ l \notin pend => lots[l].remaining = 0
  <2>1. SUFFICES ASSUME NEW l \in LotIds
                 PROVE  /\ lots[l].remaining \in Nat
                        /\ l \in cur => l \notin pend
                        /\ l \notin cur /\ l \notin pend => lots[l].remaining = 0
    OBVIOUS
  <2>2. lots[l].remaining \in Nat /\ lots[l].expiration \in Nat /\ asOf \in Nat
    BY LotFacts, ConstantFacts DEF LedgerInv
  <2>3. QED BY <1>1, <2>2 DEF Overdue
<1>5. \A l \in LotIds : f[l] \in Int /\ g[l] \in Int /\ h[l] = f[l] + g[l]
  BY <1>2, <1>4
<1>6. SumFunctionOnSet(h, LotIds) = SumFunctionOnSet(f, LotIds) + SumFunctionOnSet(g, LotIds)
  BY <1>3, <1>5, SumPlus
<1>7. SumFunction(fp) = SumFunctionOnSet(f, LotIds)
  <2>1. /\ DOMAIN fp = cur
        /\ \A l \in cur : fp[l] = f[l]
        /\ \A l \in LotIds \ cur : f[l] = 0
    BY <1>2, <1>3
  <2>2. QED BY <1>3, <1>5, <2>1, PartSum
<1>8. SumFunction(gp) = SumFunctionOnSet(g, LotIds)
  <2>1. /\ DOMAIN gp = pend
        /\ \A l \in pend : gp[l] = g[l]
        /\ \A l \in LotIds \ pend : g[l] = 0
    BY <1>2, <1>3
  <2>2. QED BY <1>3, <1>5, <2>1, PartSum
<1>9. SumFunctionOnSet(f, LotIds) \in Int /\ SumFunctionOnSet(g, LotIds) \in Int
  <2>1. LotIds \in SUBSET LotIds
    OBVIOUS
  <2>2. QED BY <1>3, <1>5, <2>1, SumType
<1>10. SumFunction(fp) \in Int /\ SumFunction(gp) \in Int
       /\ SumFunctionOnSet(h, LotIds) = SumFunction(fp) + SumFunction(gp)
  BY <1>6, <1>7, <1>8, <1>9
<1>11. QED BY <1>1, <1>2, <1>10

\* What was used is what the lots are held for and what was credited back.
LEMMA UsageSplits ==
  ASSUME LedgerInv
  PROVE  LET rows == Ops \X LotIds
             u == SumFunction([r \in rows |-> usage[r[1]][r[2]]])
             c == SumFunction([r \in {x \in rows : refund[x[1]][x[2]].credited} |->
                                refund[r[1]][r[2]].credits])
             h == SumFunctionOnSet([l \in LotIds |-> held[l][Ops]], LotIds)
         IN c \in Int /\ h \in Int /\ u = h + c
<1>1. PICK rows, cr : /\ rows = Ops \X LotIds
                      /\ cr = {x \in rows : refund[x[1]][x[2]].credited}
  OBVIOUS
<1>2. PICK u, f, c, cp, g :
        /\ u = [r \in rows |-> usage[r[1]][r[2]]]
        /\ f = [r \in rows |-> Outstanding(r[1], r[2])]
        /\ c = [r \in rows |-> IF r \in cr THEN refund[r[1]][r[2]].credits ELSE 0]
        /\ cp = [r \in cr |-> refund[r[1]][r[2]].credits]
        /\ g = [l \in LotIds |-> held[l][Ops]]
  OBVIOUS
<1>3. IsFiniteSet(LotIds) /\ IsFiniteSet(Ops) /\ IsFiniteSet(rows) /\ cr \in SUBSET rows
  BY <1>1, LedgerAssumption, FS_Product
<1>4. \A r \in rows : f[r] \in Int /\ c[r] \in Int /\ u[r] = f[r] + c[r]
  <2>1. SUFFICES ASSUME NEW r \in rows PROVE f[r] \in Int /\ c[r] \in Int /\ u[r] = f[r] + c[r]
    OBVIOUS
  <2>2. PICK op \in Ops, l \in LotIds : op = r[1] /\ l = r[2]
    BY <1>1
  <2>3. usage[op][l] \in Nat /\ refund[op][l].credits \in Nat
    BY RowFacts
  <2>4. r \in cr <=> refund[op][l].credited
    BY <1>1, <2>2
  <2>5. /\ u[r] = usage[op][l] /\ f[r] = Outstanding(op, l)
        /\ c[r] = IF r \in cr THEN refund[op][l].credits ELSE 0
    BY <1>2, <2>2
  <2>6. QED BY <2>3, <2>4, <2>5 DEF Outstanding
<1>5. SumFunctionOnSet(u, rows) = SumFunctionOnSet(f, rows) + SumFunctionOnSet(c, rows)
  BY <1>3, <1>4, SumPlus
<1>6. SumFunctionOnSet(f, rows) = SumFunctionOnSet(g, LotIds)
  <2>1. \A op \in Ops, l \in LotIds : f[<<op, l>>] = Outstanding(op, l) /\ f[<<op, l>>] \in Int
    <3>1. SUFFICES ASSUME NEW op \in Ops, NEW l \in LotIds
                   PROVE  f[<<op, l>>] = Outstanding(op, l) /\ f[<<op, l>>] \in Int
      OBVIOUS
    <3>2. <<op, l>> \in rows
      BY <1>1
    <3>3. QED BY <1>2, <1>4, <3>2
  <2>2. PICK cols : cols = [l \in LotIds |-> [op \in Ops |-> Outstanding(op, l)]]
    OBVIOUS
  <2>3. ASSUME NEW l \in LotIds PROVE g[l] = SumFunctionOnSet(cols[l], Ops)
    <3>1. Ops \in SUBSET Ops
      OBVIOUS
    <3>2. held[l][Ops] = SumFunction([op \in Ops |-> Outstanding(op, l)])
      BY <3>1, HeldSums DEF HeldIsRowSum
    <3>3. PICK h : h = [op \in Ops |-> Outstanding(op, l)]
      OBVIOUS
    <3>4. h = cols[l]
      BY <2>2, <3>3
    <3>5. SumFunction(h) = SumFunctionOnSet(h, Ops)
      <4>1. DOMAIN h = Ops
        BY <3>3
      <4>2. QED BY <4>1 DEF SumFunction
    <3>6. g[l] = SumFunctionOnSet(h, Ops)
      BY <1>2, <3>2, <3>3, <3>5
    <3>7. QED BY <3>4, <3>6
  <2>4. DOMAIN cols = LotIds /\ \A op \in Ops, l \in LotIds : cols[l][op] = f[<<op, l>>]
    BY <2>1, <2>2
  <2>5. SumFunctionOnSet(f, Ops \X LotIds) = SumFunctionOnSet(g, LotIds)
    BY <1>3, <2>1, <2>3, <2>4, SumTable
  <2>6. QED BY <1>1, <2>5
<1>7. SumFunction(cp) = SumFunctionOnSet(c, rows)
  <2>1. /\ DOMAIN cp = cr
        /\ \A r \in cr : cp[r] = c[r]
        /\ \A r \in rows \ cr : c[r] = 0
    BY <1>2, <1>3
  <2>2. QED BY <1>3, <1>4, <2>1, PartSum
<1>8. SumFunction(u) = SumFunctionOnSet(u, rows)
  <2>1. DOMAIN u = rows
    BY <1>2
  <2>2. QED BY <2>1 DEF SumFunction
<1>9. SumFunctionOnSet(f, rows) \in Int /\ SumFunctionOnSet(c, rows) \in Int
  <2>1. rows \in SUBSET rows
    OBVIOUS
  <2>2. QED BY <1>3, <1>4, <2>1, SumType
<1>10. /\ SumFunction(cp) \in Int /\ SumFunctionOnSet(g, LotIds) \in Int
       /\ SumFunction(u) = SumFunctionOnSet(g, LotIds) + SumFunction(cp)
  BY <1>5, <1>6, <1>7, <1>8, <1>9
<1>11. QED BY <1>1, <1>2, <1>10

\* Conservation, summed up over the lots.
LEMMA GrantedSplits ==
  ASSUME LedgerInv
  PROVE  LET g == SumFunction([l \in LotIds |-> lots[l].original])
             e == SumFunction([l \in LotIds |-> expire[l].credits])
             r == SumFunctionOnSet([l \in LotIds |-> lots[l].remaining], LotIds)
             h == SumFunctionOnSet([l \in LotIds |-> held[l][Ops]], LotIds)
         IN e \in Int /\ r \in Int /\ h \in Int /\ g = r + h + e
<1>1. PICK g, e, r, h, s : /\ g = [l \in LotIds |-> lots[l].original]
                           /\ e = [l \in LotIds |-> expire[l].credits]
                           /\ r = [l \in LotIds |-> lots[l].remaining]
                           /\ h = [l \in LotIds |-> held[l][Ops]]
                           /\ s = [l \in LotIds |-> lots[l].remaining + held[l][Ops]]
  OBVIOUS
<1>2. IsFiniteSet(LotIds) /\ LotIds \in SUBSET LotIds
  BY LedgerAssumption
<1>3. \A l \in LotIds : /\ e[l] \in Int /\ r[l] \in Int /\ h[l] \in Int /\ s[l] \in Int
                        /\ s[l] = r[l] + h[l] /\ g[l] = s[l] + e[l]
  <2>1. SUFFICES ASSUME NEW l \in LotIds
                 PROVE  /\ e[l] \in Int /\ r[l] \in Int /\ h[l] \in Int /\ s[l] \in Int
                        /\ s[l] = r[l] + h[l] /\ g[l] = s[l] + e[l]
    OBVIOUS
  <2>2. lots[l].original = lots[l].remaining + held[l][Ops] + expire[l].credits
    BY DEF LedgerInv, LotConservation
  <2>3. lots[l].remaining \in Nat /\ held[l][Ops] \in Nat /\ expire[l].credits \in Nat
    BY LotFacts DEF LedgerInv
  <2>4. QED BY <1>1, <2>2, <2>3
<1>4. SumFunctionOnSet(s, LotIds) = SumFunctionOnSet(r, LotIds) + SumFunctionOnSet(h, LotIds)
  BY <1>2, <1>3, SumPlus
<1>5. SumFunctionOnSet(g, LotIds) = SumFunctionOnSet(s, LotIds) + SumFunctionOnSet(e, LotIds)
  BY <1>2, <1>3, SumPlus
<1>6. /\ SumFunctionOnSet(e, LotIds) \in Int /\ SumFunctionOnSet(r, LotIds) \in Int
      /\ SumFunctionOnSet(h, LotIds) \in Int
  BY <1>2, <1>3, SumType
<1>7. SumFunction(g) = SumFunctionOnSet(g, LotIds) /\ SumFunction(e) = SumFunctionOnSet(e, LotIds)
  <2>1. DOMAIN g = LotIds /\ DOMAIN e = LotIds
    BY <1>1
  <2>2. QED BY <2>1 DEF SumFunction
<1>8. SumFunction(g) = SumFunctionOnSet(r, LotIds) + SumFunctionOnSet(h, LotIds) + SumFunction(e)
  BY <1>4, <1>5, <1>6, <1>7
<1>9. SumFunction(e) \in Int
  BY <1>6, <1>7
<1>10. QED BY <1>1, <1>6, <1>8, <1>9

\* The balance page adds up at every instant, whatever was granted, used, refunded to
\* lots alive or expired, and expired by row or only by date; and its sums are those of
\* the rows.
THEOREM LedgerBalanceAddsUp == Spec => []BalanceAddsUp
<1>1. ASSUME LedgerInv, NEW asOf \in Times
      PROVE  LET p == projectCreditBalance(asOf)
             IN p.available = p.granted - p.used + p.refunded - p.expired
  <2>1. PICK a, p, h, u, c, e, r, g :
          /\ a = projectCreditBalance(asOf).available
          /\ p = SumFunction([l \in {k \in LotIds : Overdue(k, asOf)} |-> lots[l].remaining])
          /\ h = SumFunctionOnSet([l \in LotIds |-> held[l][Ops]], LotIds)
          /\ u = projectCreditBalance(asOf).used
          /\ c = projectCreditBalance(asOf).refunded
          /\ e = SumFunction([l \in LotIds |-> expire[l].credits])
          /\ r = SumFunctionOnSet([l \in LotIds |-> lots[l].remaining], LotIds)
          /\ g = projectCreditBalance(asOf).granted
    OBVIOUS
  <2>2. a \in Int /\ p \in Int /\ r = a + p
    BY <1>1, <2>1, RemainingSplits DEF projectCreditBalance
  <2>3. c \in Int /\ h \in Int /\ u = h + c
    BY <1>1, <2>1, UsageSplits DEF projectCreditBalance
  <2>4. e \in Int /\ g = r + h + e
    BY <1>1, <2>1, GrantedSplits DEF projectCreditBalance
  <2>5. projectCreditBalance(asOf).expired = e + p
    BY <2>1 DEF projectCreditBalance
  <2>6. a = g - u + c - (e + p)
    BY <2>2, <2>3, <2>4
  <2>7. QED BY <2>1, <2>5, <2>6
<1>2. LedgerInv => BalanceAddsUp
  BY <1>1, HeldSums DEF BalanceAddsUp
<1>3. QED BY <1>2, LedgerInvariance, PTL

-----------------------------------------------------------------------------
(* The loops *)

\* The order of lots is transitive.
LEMMA FefoIsTransitive ==
  ASSUME TypeOK, NEW k \in LotIds, NEW l \in LotIds, NEW m \in LotIds,
         compareCreditLotsForFefo(k, l), compareCreditLotsForFefo(l, m)
  PROVE  compareCreditLotsForFefo(k, m)
<1>1. /\ lots[k].expiration \in Nat /\ lots[l].expiration \in Nat /\ lots[m].expiration \in Nat
  BY LotFacts
<1>2. lots[k].createdAt \in Nat /\ lots[l].createdAt \in Nat /\ lots[m].createdAt \in Nat
  BY ConstantFacts DEF TypeOK, Lot
<1>3. k \in Nat /\ l \in Nat /\ m \in Nat
  BY ConstantFacts
<1>4. QED BY <1>1, <1>2, <1>3 DEF compareCreditLotsForFefo

\* No lot comes before itself or before a lot that comes before it.
LEMMA FefoIsStrict ==
  ASSUME TypeOK, NEW l \in LotIds, NEW m \in LotIds, compareCreditLotsForFefo(l, m)
  PROVE  l # m /\ ~compareCreditLotsForFefo(m, l)
<1>1. lots[l].expiration \in Nat /\ lots[m].expiration \in Nat
  BY LotFacts
<1>2. lots[l].createdAt \in Nat /\ lots[m].createdAt \in Nat
  BY ConstantFacts DEF TypeOK, Lot
<1>3. l \in Nat /\ m \in Nat
  BY ConstantFacts
<1>4. QED BY <1>1, <1>2, <1>3 DEF compareCreditLotsForFefo

\* Of any lots one comes last, and the loops visit that one last.
LEMMA LastFacts ==
  ASSUME TypeOK, NEW S \in SUBSET LotIds, S # {}
  PROVE  /\ LastInFefoOrder(S) \in S
         /\ \A m \in S \ {LastInFefoOrder(S)} : compareCreditLotsForFefo(m, LastInFefoOrder(S))
<1> DEFINE P == {T \in SUBSET LotIds :
                   T # {} => \E l \in T : \A m \in T \ {l} : compareCreditLotsForFefo(m, l)}
<1>1. IsFiniteSet(S)
  BY LedgerAssumption, FS_Subset
<1>2. {} \in P
  OBVIOUS
<1>3. ASSUME NEW T \in SUBSET S, NEW x \in S \ T, T \in P
      PROVE  T \cup {x} \in P
  <2>1. CASE T = {}
    BY <2>1
  <2>2. CASE T # {}
    <3>1. PICK l \in T : \A m \in T \ {l} : compareCreditLotsForFefo(m, l)
      BY <1>3, <2>2
    <3>2. l \in LotIds /\ x \in LotIds /\ l # x
      BY <1>3, <3>1
    <3>3. CASE compareCreditLotsForFefo(x, l)
      BY <3>1, <3>3
    <3>4. CASE compareCreditLotsForFefo(l, x)
      <4>1. \A m \in T \ {l} : compareCreditLotsForFefo(m, x)
        BY <3>1, <3>2, <3>4, FefoIsTransitive
      <4>2. QED BY <3>4, <4>1
    <3>5. QED BY <3>2, <3>3, <3>4, FefoIsTotal
  <2>3. QED BY <2>1, <2>2
<1>4. S \in P
  <2> HIDE DEF P
  <2>1. QED BY <1>1, <1>2, <1>3, SetInduction
<1>5. \E l \in S : \A m \in S \ {l} : compareCreditLotsForFefo(m, l)
  BY <1>4
<1>6. QED BY <1>5 DEF LastInFefoOrder

\* Induction along a loop: from the state before the last row to the state after it.
LEMMA LoopInduction ==
  ASSUME TypeOK, NEW Rows \in SUBSET LotIds, NEW P, {} \in P,
         \A s \in SUBSET Rows : s # {} /\ s \ {LastInFefoOrder(s)} \in P => s \in P
  PROVE  \A s \in SUBSET Rows : s \in P
<1> DEFINE B == {u \in SUBSET Rows : u \notin P}
<1>1. SUFFICES ASSUME B # {} PROVE FALSE
  OBVIOUS
<1>2. PICK u \in B : \A w \in SUBSET u : w # u => w \notin B
  <2>1. B \subseteq SUBSET Rows /\ IsFiniteSet(Rows)
    BY LedgerAssumption, FS_Subset
  <2> HIDE DEF B
  <2>2. QED BY <1>1, <2>1, Least
<1>3. u # {} /\ u \in SUBSET Rows /\ u \notin P
  BY <1>2
<1>4. PICK l : l = LastInFefoOrder(u)
  OBVIOUS
<1>5. l \in u
  BY <1>3, <1>4, LastFacts
<1>6. u \ {l} \in SUBSET u /\ u \ {l} # u /\ u \ {l} \in SUBSET Rows
  BY <1>3, <1>5
<1>7. u \ {l} \in P
  BY <1>2, <1>6
<1>8. QED BY <1>3, <1>4, <1>7

AllocationState == [left : Nat, take : [LotIds -> Nat]]

RefundState == [left : Int, take : [LotIds -> Int], refused : BOOLEAN]

\* F is the allocation loop: its states after each set of visited lots.
IsAllocationRun(F, Rows, credits, now) ==
  /\ AllocationLoop(credits, now) = F[Rows]
  /\ F[{}] = [left |-> credits, take |-> NoTake]
  /\ \A s \in SUBSET Rows : F[s] \in AllocationState
  /\ \A s \in SUBSET Rows : s # {} =>
       F[s] = AllocateFrom(LastInFefoOrder(s), F[s \ {LastInFefoOrder(s)}])

\* Such a function exists.
LEMMA AllocationRun ==
  ASSUME TypeOK, NEW credits \in Nat, NEW now \in Times,
         NEW Rows, Rows = {l \in LotIds : Spendable(l, now)}
  PROVE  \E F : IsAllocationRun(F, Rows, credits, now)
<1>1. PICK base : base = [left |-> credits, take |-> NoTake]
  OBVIOUS
<1>2. PICK step : step = [p \in LotIds \X AllocationState |-> AllocateFrom(p[1], p[2])]
  OBVIOUS
<1>3. PICK last : last = [s \in SUBSET LotIds |-> LastInFefoOrder(s)]
  OBVIOUS
<1>4. ASSUME NEW l \in LotIds, NEW acc \in AllocationState PROVE AllocateFrom(l, acc) \in AllocationState
  <2>1. lots[l].remaining \in Nat
    BY LotFacts
  <2>2. acc.left \in Nat /\ acc.take \in [LotIds -> Nat]
    BY DEF AllocationState
  <2>3. QED BY <2>1, <2>2 DEF AllocateFrom, AllocationState
<1>5. step \in [LotIds \X AllocationState -> AllocationState]
  BY <1>2, <1>4
<1>6. base \in AllocationState
  BY <1>1 DEF AllocationState, NoTake
<1>7. Rows \in SUBSET LotIds /\ IsFiniteSet(Rows)
  BY LedgerAssumption, FS_Subset
<1>8. \A s \in SUBSET Rows : s # {} => last[s] \in s
  BY <1>3, <1>7, LastFacts
<1>9. PICK G : IsRun(G, step, last, base, Rows)
  BY <1>7, <1>8, RunExists
<1>10. \A s \in SUBSET Rows : G[s] \in AllocationState
  BY <1>5, <1>6, <1>7, <1>8, <1>9, RunTyped
<1> DEFINE Loop(F) == F = [s \in SUBSET Rows |-> IF s = {} THEN base
                             ELSE AllocateFrom(LastInFefoOrder(s), F[s \ {LastInFefoOrder(s)}])]
<1>11. Loop(G)
  <2>1. \A s \in SUBSET Rows : s # {} =>
          step[<<last[s], G[s \ {last[s]}]>>] = AllocateFrom(LastInFefoOrder(s), G[s \ {LastInFefoOrder(s)}])
    <3>1. SUFFICES ASSUME NEW s \in SUBSET Rows, s # {}
                   PROVE  step[<<last[s], G[s \ {last[s]}]>>]
                            = AllocateFrom(LastInFefoOrder(s), G[s \ {LastInFefoOrder(s)}])
      OBVIOUS
    <3>2. last[s] = LastInFefoOrder(s) /\ last[s] \in LotIds
      BY <1>3, <1>7, <1>8, <3>1
    <3>3. s \ {last[s]} \in SUBSET Rows
      OBVIOUS
    <3>4. G[s \ {last[s]}] \in AllocationState
      BY <1>10, <3>3
    <3>5. QED BY <1>2, <3>2, <3>4
  <2>2. QED BY <1>9, <2>1 DEF IsRun
<1>12. PICK F : F = CHOOSE f : Loop(f)
  OBVIOUS
<1>13. Loop(F)
  BY <1>11, <1>12
<1>14. AllocationLoop(credits, now) = F[Rows]
  BY <1>1, <1>12 DEF AllocationLoop, MapThenFoldSet
<1>15. F[{}] = base /\ \A s \in SUBSET Rows : s # {} =>
                     F[s] = AllocateFrom(LastInFefoOrder(s), F[s \ {LastInFefoOrder(s)}])
  BY <1>13
<1>16. \A s \in SUBSET Rows : F[s] \in AllocationState
  <2> DEFINE P == {u \in SUBSET Rows : F[u] \in AllocationState}
  <2>1. {} \in P
    BY <1>6, <1>15
  <2>2. ASSUME NEW s \in SUBSET Rows, s # {}, s \ {LastInFefoOrder(s)} \in P PROVE s \in P
    <3>1. PICK l : l = LastInFefoOrder(s)
      OBVIOUS
    <3>2. l \in LotIds /\ F[s \ {l}] \in AllocationState /\ F[s] = AllocateFrom(l, F[s \ {l}])
      BY <1>7, <1>15, <2>2, <3>1, LastFacts
    <3>3. QED BY <1>4, <3>2
  <2> HIDE DEF P
  <2>3. \A s \in SUBSET Rows : s \in P
    BY <1>7, <2>1, <2>2, LoopInduction
  <2>4. QED BY <2>3 DEF P
<1>17. QED BY <1>1, <1>14, <1>15, <1>16 DEF IsAllocationRun

\* F is the refund loop: its states after each set of visited usage rows.
IsRefundRun(F, Rows, op, credits) ==
  /\ RefundLoop(op, credits) = F[Rows]
  /\ F[{}] = [left |-> credits, take |-> NoTake, refused |-> FALSE]
  /\ \A s \in SUBSET Rows : F[s] \in RefundState
  /\ \A s \in SUBSET Rows : s # {} =>
       F[s] = RefundFrom(op, LastInFefoOrder(s), F[s \ {LastInFefoOrder(s)}])

\* Such a function exists.
LEMMA RefundRun ==
  ASSUME LedgerInv, NEW op \in Ops, NEW credits \in Nat,
         NEW Rows, Rows = {l \in LotIds : usage[op][l] > 0}
  PROVE  \E F : IsRefundRun(F, Rows, op, credits)
<1>1. PICK base : base = [left |-> credits, take |-> NoTake, refused |-> FALSE]
  OBVIOUS
<1>2. PICK step : step = [p \in LotIds \X RefundState |-> RefundFrom(op, p[1], p[2])]
  OBVIOUS
<1>3. PICK last : last = [s \in SUBSET LotIds |-> LastInFefoOrder(s)]
  OBVIOUS
<1>4. ASSUME NEW l \in LotIds, NEW acc \in RefundState PROVE RefundFrom(op, l, acc) \in RefundState
  <2>1. usage[op][l] \in Nat /\ refund[op][l].credits \in Nat
    BY RowFacts
  <2>2. acc.left \in Int /\ acc.take \in [LotIds -> Int] /\ acc.refused \in BOOLEAN
    BY DEF RefundState
  <2>3. QED BY <2>1, <2>2 DEF RefundFrom, RefundState
<1>5. step \in [LotIds \X RefundState -> RefundState]
  BY <1>2, <1>4
<1>6. base \in RefundState
  BY <1>1 DEF RefundState, NoTake
<1>7. Rows \in SUBSET LotIds /\ IsFiniteSet(Rows)
  BY LedgerAssumption, FS_Subset
<1>8. \A s \in SUBSET Rows : s # {} => last[s] \in s
  BY <1>3, <1>7, LastFacts DEF LedgerInv
<1>9. PICK G : IsRun(G, step, last, base, Rows)
  BY <1>7, <1>8, RunExists
<1>10. \A s \in SUBSET Rows : G[s] \in RefundState
  BY <1>5, <1>6, <1>7, <1>8, <1>9, RunTyped
<1> DEFINE Loop(F) == F = [s \in SUBSET Rows |-> IF s = {} THEN base
                             ELSE RefundFrom(op, LastInFefoOrder(s), F[s \ {LastInFefoOrder(s)}])]
<1>11. Loop(G)
  <2>1. \A s \in SUBSET Rows : s # {} =>
          step[<<last[s], G[s \ {last[s]}]>>] = RefundFrom(op, LastInFefoOrder(s), G[s \ {LastInFefoOrder(s)}])
    <3>1. SUFFICES ASSUME NEW s \in SUBSET Rows, s # {}
                   PROVE  step[<<last[s], G[s \ {last[s]}]>>]
                            = RefundFrom(op, LastInFefoOrder(s), G[s \ {LastInFefoOrder(s)}])
      OBVIOUS
    <3>2. last[s] = LastInFefoOrder(s) /\ last[s] \in LotIds
      BY <1>3, <1>7, <1>8, <3>1
    <3>3. s \ {last[s]} \in SUBSET Rows
      OBVIOUS
    <3>4. G[s \ {last[s]}] \in RefundState
      BY <1>10, <3>3
    <3>5. QED BY <1>2, <3>2, <3>4
  <2>2. QED BY <1>9, <2>1 DEF IsRun
<1>12. PICK F : F = CHOOSE f : Loop(f)
  OBVIOUS
<1>13. Loop(F)
  BY <1>11, <1>12
<1>14. RefundLoop(op, credits) = F[Rows]
  BY <1>1, <1>12 DEF RefundLoop, MapThenFoldSet
<1>15. F[{}] = base /\ \A s \in SUBSET Rows : s # {} =>
                     F[s] = RefundFrom(op, LastInFefoOrder(s), F[s \ {LastInFefoOrder(s)}])
  BY <1>13
<1>16. \A s \in SUBSET Rows : F[s] \in RefundState
  <2> DEFINE P == {u \in SUBSET Rows : F[u] \in RefundState}
  <2>1. {} \in P
    BY <1>6, <1>15
  <2>2. ASSUME NEW s \in SUBSET Rows, s # {}, s \ {LastInFefoOrder(s)} \in P PROVE s \in P
    <3>1. PICK l : l = LastInFefoOrder(s)
      OBVIOUS
    <3>2. l \in LotIds /\ F[s \ {l}] \in RefundState /\ F[s] = RefundFrom(op, l, F[s \ {l}])
      BY <1>7, <1>15, <2>2, <3>1, LastFacts DEF LedgerInv
    <3>3. QED BY <1>4, <3>2
  <2> HIDE DEF P
  <2>3. \A s \in SUBSET Rows : s \in P
    BY <1>7, <2>1, <2>2, LoopInduction DEF LedgerInv
  <2>4. QED BY <2>3 DEF P
<1>17. QED BY <1>1, <1>14, <1>15, <1>16 DEF IsRefundRun

\* What the loop's invariant says of the rows s: no lot before a lot that gives something
\* gives less than it could.
Greedy(take, full, s) ==
  \A l \in s : take[l] > 0 => \A m \in s : compareCreditLotsForFefo(m, l) => take[m] = full[m]

\* Greed is kept when the last row gives something only after the others gave all.
LEMMA GreedyGrows ==
  ASSUME TypeOK, NEW s \in SUBSET LotIds, s # {}, NEW x, x = LastInFefoOrder(s),
         NEW r, r = s \ {x}, NEW take, NEW new, NEW full, Greedy(take, full, r),
         \A l \in r : new[l] = take[l],
         new[x] > 0 => \A l \in r : take[l] = full[l]
  PROVE  Greedy(new, full, s)
<1>1. x \in s /\ \A m \in r : compareCreditLotsForFefo(m, x)
  BY LastFacts
<1>2. SUFFICES ASSUME NEW l \in s, new[l] > 0, NEW m \in s, compareCreditLotsForFefo(m, l)
               PROVE  new[m] = full[m]
  BY DEF Greedy
<1>3. m # x
  <2>1. CASE l = x
    BY <1>1, <1>2, <2>1, FefoIsStrict
  <2>2. CASE l # x
    BY <1>1, <1>2, <2>2, FefoIsStrict
  <2>3. QED BY <2>1, <2>2
<1>4. m \in r
  BY <1>2, <1>3
<1>5. CASE l = x
  BY <1>2, <1>4, <1>5
<1>6. CASE l # x
  BY <1>2, <1>4, <1>6 DEF Greedy
<1>7. QED BY <1>5, <1>6

\* The rows of s are the first ones in the order of the loop.
FirstRows(s, Rows) ==
  /\ s \in SUBSET Rows
  /\ \A l \in s, m \in Rows : compareCreditLotsForFefo(m, l) => m \in s

\* A plan over the rows: it adds up to the credits and takes from the rows in order.
IsPlan(plan, full, Rows, credits) ==
  /\ Rows \in SUBSET LotIds /\ credits \in Nat
  /\ plan \in [LotIds -> Nat]
  /\ SumFunctionOnSet(plan, LotIds) = credits
  /\ \A l \in LotIds \ Rows : plan[l] = 0
  /\ Greedy(plan, full, Rows)

\* A plan up to the row x, the last of s: either the row gives all it can, or nothing
\* is left to give after it.
PlanUpTo(plan, full, Rows, credits, s, x) ==
  /\ SumFunctionOnSet(plan, s \ {x}) \in Nat
  /\ SumFunctionOnSet(plan, s) = plan[x] + SumFunctionOnSet(plan, s \ {x})
  /\ SumFunctionOnSet(plan, s) <= credits
  /\ plan[x] = full[x] \/ SumFunctionOnSet(plan, s) = credits
  /\ FirstRows(s \ {x}, Rows)

\* Every plan takes from the rows of the loop that way.
LEMMA PlanUpToRow ==
  ASSUME TypeOK, NEW Rows, NEW full, NEW plan, NEW credits, IsPlan(plan, full, Rows, credits),
         NEW s, FirstRows(s, Rows), s # {}
  PROVE  PlanUpTo(plan, full, Rows, credits, s, LastInFefoOrder(s))
<1> PICK x, r : x = LastInFefoOrder(s) /\ r = s \ {x}
  OBVIOUS
<1> USE DEF IsPlan, FirstRows
<1>1. /\ x \in s /\ \A m \in r : compareCreditLotsForFefo(m, x)
      /\ s \in SUBSET LotIds /\ r \in SUBSET s
  BY LastFacts
<1>2. IsFiniteSet(LotIds) /\ IsFiniteSet(s) /\ IsFiniteSet(r)
  <2>1. IsFiniteSet(LotIds)
    BY LedgerAssumption
  <2>2. QED BY <1>1, <2>1, FS_Subset
<1>3. SumFunctionOnSet(plan, r) \in Nat
  <2>1. \A y \in r : plan[y] \in Nat
    BY <1>1
  <2>2. QED BY <1>2, <2>1, SumNat
<1>4. SumFunctionOnSet(plan, s) = plan[x] + SumFunctionOnSet(plan, r)
  <2>1. \A y \in s : plan[y] \in Int
    BY <1>1
  <2>2. QED BY <1>1, <1>2, <2>1, SumRemove
<1>5. SumFunctionOnSet(plan, s) <= credits
  BY <1>1, <1>2, SumPart
<1>6. ASSUME plan[x] # full[x] PROVE SumFunctionOnSet(plan, s) = credits
  <2>1. ASSUME NEW l \in LotIds \ s PROVE plan[l] = 0
    <3>1. CASE l \notin Rows
      BY <2>1, <3>1
    <3>2. CASE l \in Rows
      <4>1. ~compareCreditLotsForFefo(l, x)
        BY <1>1, <2>1, <3>2
      <4>2. compareCreditLotsForFefo(x, l)
        BY <1>1, <2>1, <4>1, FefoIsTotal
      <4>3. ~(plan[l] > 0)
        BY <1>1, <1>6, <3>2, <4>2 DEF Greedy
      <4>4. QED BY <2>1, <4>3
    <3>3. QED BY <3>1, <3>2
  <2>2. \A y \in LotIds : plan[y] \in Int
    OBVIOUS
  <2>3. QED BY <1>1, <1>2, <2>1, <2>2, SumSupport
<1>7. ASSUME NEW l \in r, NEW m \in Rows, compareCreditLotsForFefo(m, l) PROVE m \in r
  <2>1. m \in s
    BY <1>1, <1>7
  <2>2. m # x
    BY <1>1, <1>7, FefoIsStrict
  <2>3. QED BY <2>1, <2>2
<1>8. QED BY <1>1, <1>3, <1>4, <1>5, <1>6, <1>7 DEF PlanUpTo

\* No part of a plan is above its sum.
LEMMA TakeWithinSum ==
  ASSUME IsFiniteSet(LotIds), NEW take \in [LotIds -> Nat], NEW credits \in Nat,
         SumFunctionOnSet(take, LotIds) = credits
  PROVE  take \in [LotIds -> 0..credits] /\ SumFunction(take) = credits
<1>1. ASSUME NEW l \in LotIds PROVE take[l] <= credits
  <2>1. PICK R : R = LotIds \ {l}
    OBVIOUS
  <2>2. IsFiniteSet(R) /\ \A y \in R : take[y] \in Nat
    BY <2>1, FS_Subset
  <2>3. SumFunctionOnSet(take, R) \in Nat
    BY <2>2, SumNat
  <2>4. \A y \in LotIds : take[y] \in Int
    OBVIOUS
  <2>5. SumFunctionOnSet(take, LotIds) = take[l] + SumFunctionOnSet(take, LotIds \ {l})
    BY <2>4, SumRemove
  <2>6. QED BY <2>1, <2>3, <2>5
<1>2. DOMAIN take = LotIds
  OBVIOUS
<1>3. SumFunction(take) = credits
  BY <1>2 DEF SumFunction
<1>4. QED BY <1>1, <1>3

\* An allocation that comes out even is a plan.
LEMMA AllocationIsPlan ==
  ASSUME TypeOK, NEW credits \in Nat, NEW now \in Times, AllocationLoop(credits, now).left = 0
  PROVE  AllocationLoop(credits, now).take \in allocateCreditConsumption(credits, now)
<1>1. PICK Rows, full : /\ Rows = {l \in LotIds : Spendable(l, now)}
                        /\ full = [l \in LotIds |-> lots[l].remaining]
  OBVIOUS
<1>2. PICK F : /\ AllocationLoop(credits, now) = F[Rows]
               /\ F[{}] = [left |-> credits, take |-> NoTake]
               /\ \A s \in SUBSET Rows : F[s] \in AllocationState
               /\ \A s \in SUBSET Rows : s # {} =>
                    F[s] = AllocateFrom(LastInFefoOrder(s), F[s \ {LastInFefoOrder(s)}])
  <2>1. PICK F : IsAllocationRun(F, Rows, credits, now)
    BY <1>1, AllocationRun
  <2>2. QED BY <2>1 DEF IsAllocationRun
<1>3. Rows \in SUBSET LotIds /\ Rows \in SUBSET Rows /\ IsFiniteSet(Rows) /\ IsFiniteSet(LotIds)
  BY <1>1, LedgerAssumption, FS_Subset
<1>4. \A l \in LotIds : full[l] \in Nat /\ full[l] = lots[l].remaining
  BY <1>1, LotFacts
<1> DEFINE Inv(s) == /\ \A l \in LotIds \ s : F[s].take[l] = 0
                     /\ F[s].left + SumFunctionOnSet(F[s].take, s) = credits
                     /\ \A l \in s : F[s].take[l] <= full[l]
                     /\ F[s].left > 0 => \A l \in s : F[s].take[l] = full[l]
                     /\ Greedy(F[s].take, full, s)
<1> DEFINE P == {s \in SUBSET Rows : Inv(s)}
<1>5. {} \in P
  <2>1. PICK g : g = F[{}].take
    OBVIOUS
  <2>2. SumFunctionOnSet(g, {}) = 0
    BY SumEmpty
  <2>3. F[{}].left = credits /\ \A l \in LotIds : g[l] = 0
    BY <1>2, <2>1 DEF NoTake
  <2>4. Inv({})
    BY <2>1, <2>2, <2>3 DEF Greedy
  <2>5. QED BY <2>4
<1>6. ASSUME NEW s \in SUBSET Rows, s # {}, s \ {LastInFefoOrder(s)} \in P PROVE s \in P
  <2>1. PICK x, r : x = LastInFefoOrder(s) /\ r = s \ {x}
    OBVIOUS
  <2>2. /\ x \in s /\ x \in LotIds /\ x \notin r /\ s \in SUBSET LotIds
        /\ r \in SUBSET LotIds /\ r \in SUBSET Rows /\ IsFiniteSet(s) /\ \A l \in s : l = x \/ l \in r
    BY <1>3, <1>6, <2>1, LastFacts, FS_Subset
  <2>3. PICK old, new : old = F[r] /\ new = F[s]
    OBVIOUS
  <2>4. new = AllocateFrom(x, old)
    BY <1>2, <1>6, <2>1, <2>3
  <2>5. /\ old.left \in Nat /\ old.take \in [LotIds -> Nat]
        /\ new.left \in Nat /\ new.take \in [LotIds -> Nat]
    BY <1>2, <2>2, <2>3 DEF AllocationState
  <2>6. /\ \A l \in LotIds \ r : old.take[l] = 0
        /\ old.left + SumFunctionOnSet(old.take, r) = credits
        /\ \A l \in r : old.take[l] <= full[l]
        /\ old.left > 0 => \A l \in r : old.take[l] = full[l]
        /\ Greedy(old.take, full, r)
    BY <1>6, <2>1, <2>3
  <2>7. /\ \A l \in LotIds : l # x => new.take[l] = old.take[l]
        /\ new.left + new.take[x] = old.left
        /\ new.take[x] <= full[x]
        /\ new.take[x] > 0 => old.left > 0
        /\ new.left > 0 => old.left > 0 /\ new.take[x] = full[x]
    <3>1. CASE old.left = 0
      BY <1>4, <2>2, <2>4, <2>5, <2>6, <3>1 DEF AllocateFrom
    <3>2. CASE old.left # 0
      <4>1. PICK a : a = IF lots[x].remaining < old.left THEN lots[x].remaining ELSE old.left
        OBVIOUS
      <4>2. new.left = old.left - a /\ new.take = [old.take EXCEPT ![x] = a]
        BY <2>4, <3>2, <4>1 DEF AllocateFrom
      <4>3. new.take[x] = a /\ \A l \in LotIds : l # x => new.take[l] = old.take[l]
        BY <2>2, <2>5, <4>2
      <4>4. lots[x].remaining = full[x] /\ full[x] \in Nat
        BY <1>4, <2>2
      <4>5. QED BY <2>5, <3>2, <4>1, <4>2, <4>3, <4>4
    <3>3. QED BY <3>1, <3>2
  <2>8. SumFunctionOnSet(new.take, s) = new.take[x] + SumFunctionOnSet(old.take, r)
    <3>1. PICK g, h : g = old.take /\ h = new.take
      OBVIOUS
    <3>2. /\ h[x] \in Int
          /\ \A y \in r : g[y] \in Int /\ h[y] = g[y]
      BY <2>2, <2>5, <2>7, <3>1
    <3>3. SumFunctionOnSet(h, s) = h[x] + SumFunctionOnSet(g, r)
      BY <2>1, <2>2, <3>2, SumReplace
    <3>4. QED BY <3>1, <3>3
  <2>9. Greedy(new.take, full, s)
    <3>1. /\ \A l \in r : new.take[l] = old.take[l]
          /\ new.take[x] > 0 => \A l \in r : old.take[l] = full[l]
      BY <2>2, <2>6, <2>7
    <3>2. PICK g, h : g = old.take /\ h = new.take
      OBVIOUS
    <3>3. Greedy(h, full, s)
      BY <1>6, <2>1, <2>2, <2>6, <3>1, <3>2, GreedyGrows
    <3>4. QED BY <3>2, <3>3
  <2>10. new.left + SumFunctionOnSet(new.take, s) = credits
    <3>1. PICK n : n = SumFunctionOnSet(old.take, r)
      OBVIOUS
    <3>2. n \in Int
      <4>1. PICK g : g = old.take
        OBVIOUS
      <4>2. IsFiniteSet(r) /\ \A y \in r : g[y] \in Int
        BY <2>2, <2>5, <4>1, <2>1, FS_Subset
      <4>3. r \in SUBSET r
        OBVIOUS
      <4>4. QED BY <3>1, <4>1, <4>2, <4>3, SumType
    <3>3. QED BY <2>5, <2>6, <2>7, <2>8, <2>2, <3>1, <3>2
  <2>11. \A l \in LotIds \ s : new.take[l] = 0
    BY <2>1, <2>2, <2>6, <2>7
  <2>12. \A l \in s : new.take[l] <= full[l]
    BY <2>2, <2>6, <2>7
  <2>13. new.left > 0 => \A l \in s : new.take[l] = full[l]
    BY <2>2, <2>6, <2>7
  <2>14. QED BY <1>6, <2>3, <2>9, <2>10, <2>11, <2>12, <2>13
<1>7. Rows \in P
  <2> HIDE DEF P
  <2>1. QED BY <1>3, <1>5, <1>6, LoopInduction
<1>8. PICK take : take = F[Rows].take
  OBVIOUS
<1>9. /\ take \in [LotIds -> Nat]
      /\ \A l \in LotIds \ Rows : take[l] = 0
      /\ SumFunctionOnSet(take, Rows) = credits
      /\ \A l \in Rows : take[l] <= full[l]
      /\ Greedy(take, full, Rows)
  <2>1. F[Rows] \in AllocationState /\ F[Rows].left = 0 /\ Inv(Rows)
    BY <1>2, <1>3, <1>7
  <2>2. take \in [LotIds -> Nat]
    BY <1>8, <2>1 DEF AllocationState
  <2>3. SumFunctionOnSet(take, Rows) \in Nat
    BY <1>3, <2>2, SumNat
  <2>4. QED BY <1>8, <2>1, <2>2, <2>3
<1>10. SumFunctionOnSet(take, LotIds) = credits
  <2>1. \A l \in LotIds : take[l] \in Int
    BY <1>9
  <2>2. QED BY <1>3, <1>9, <2>1, SumSupport
<1>11. take \in [LotIds -> 0..credits] /\ SumFunction(take) = credits
  BY <1>3, <1>9, <1>10, TakeWithinSum
<1>12. ASSUME NEW l \in LotIds
       PROVE  /\ take[l] <= (IF Spendable(l, now) THEN lots[l].remaining ELSE 0)
              /\ take[l] > 0 =>
                   \A m \in LotIds : Spendable(m, now) /\ compareCreditLotsForFefo(m, l) =>
                     take[m] = lots[m].remaining
  <2>1. l \in Rows <=> Spendable(l, now)
    BY <1>1
  <2>2. take[l] <= (IF Spendable(l, now) THEN lots[l].remaining ELSE 0)
    BY <1>4, <1>9, <2>1
  <2>3. ASSUME take[l] > 0, NEW m \in LotIds, Spendable(m, now), compareCreditLotsForFefo(m, l)
        PROVE  take[m] = lots[m].remaining
    <3>1. l \in Rows
      BY <1>9, <2>3
    <3>2. m \in Rows
      BY <1>1, <2>3
    <3>3. QED BY <1>4, <1>9, <2>3, <3>1, <3>2 DEF Greedy
  <2>4. QED BY <2>2, <2>3
<1>13. take \in allocateCreditConsumption(credits, now)
  BY <1>11, <1>12 DEF allocateCreditConsumption
<1>14. QED BY <1>2, <1>8, <1>13

\* Whenever there is a plan, the allocation loop comes out even with that plan.
LEMMA PlanIsAllocated ==
  ASSUME TypeOK, NEW credits \in Nat, NEW now \in Times,
         NEW plan \in allocateCreditConsumption(credits, now)
  PROVE  AllocationLoop(credits, now).left = 0 /\ AllocationLoop(credits, now).take = plan
<1>1. PICK Rows, full : /\ Rows = {l \in LotIds : Spendable(l, now)}
                        /\ full = [l \in LotIds |-> lots[l].remaining]
  OBVIOUS
<1>2. PICK F : /\ AllocationLoop(credits, now) = F[Rows]
               /\ F[{}] = [left |-> credits, take |-> NoTake]
               /\ \A s \in SUBSET Rows : F[s] \in AllocationState
               /\ \A s \in SUBSET Rows : s # {} =>
                    F[s] = AllocateFrom(LastInFefoOrder(s), F[s \ {LastInFefoOrder(s)}])
  <2>1. PICK F : IsAllocationRun(F, Rows, credits, now)
    BY <1>1, AllocationRun
  <2>2. QED BY <2>1 DEF IsAllocationRun
<1>3. Rows \in SUBSET LotIds /\ Rows \in SUBSET Rows /\ IsFiniteSet(Rows) /\ IsFiniteSet(LotIds)
  BY <1>1, LedgerAssumption, FS_Subset
<1>4. \A l \in LotIds : full[l] \in Nat /\ full[l] = lots[l].remaining
  BY <1>1, LotFacts
<1>5. /\ plan \in [LotIds -> Nat]
      /\ SumFunctionOnSet(plan, LotIds) = credits
      /\ \A l \in LotIds \ Rows : plan[l] = 0
      /\ \A l \in Rows : plan[l] <= full[l]
      /\ Greedy(plan, full, Rows)
  <2>1. /\ plan \in [LotIds -> 0..credits] /\ SumFunction(plan) = credits
        /\ \A l \in LotIds :
             /\ plan[l] <= (IF Spendable(l, now) THEN lots[l].remaining ELSE 0)
             /\ plan[l] > 0 =>
                  \A m \in LotIds : Spendable(m, now) /\ compareCreditLotsForFefo(m, l) =>
                    plan[m] = lots[m].remaining
    BY DEF allocateCreditConsumption
  <2>2. plan \in [LotIds -> Nat] /\ DOMAIN plan = LotIds
    BY <2>1
  <2>3. SumFunctionOnSet(plan, LotIds) = credits
    BY <2>1, <2>2 DEF SumFunction
  <2>4. \A l \in LotIds \ Rows : plan[l] = 0
    BY <1>1, <2>1, <2>2
  <2>5. \A l \in Rows : plan[l] <= full[l]
    BY <1>1, <1>4, <2>1
  <2>6. Greedy(plan, full, Rows)
    BY <1>1, <1>3, <1>4, <2>1 DEF Greedy
  <2>7. QED BY <2>2, <2>3, <2>4, <2>5, <2>6
<1> DEFINE Inv(s) == FirstRows(s, Rows) =>
                       /\ F[s].left = credits - SumFunctionOnSet(plan, s)
                       /\ \A l \in s : F[s].take[l] = plan[l]
                       /\ \A l \in LotIds \ s : F[s].take[l] = 0
<1> DEFINE P == {s \in SUBSET Rows : Inv(s)}
<1>6. {} \in P
  <2>1. SumFunctionOnSet(plan, {}) = 0
    BY SumEmpty
  <2>2. F[{}].left = credits /\ \A l \in LotIds : F[{}].take[l] = 0
    BY <1>2 DEF NoTake
  <2>3. QED BY <2>1, <2>2
<1>7. ASSUME NEW s \in SUBSET Rows, s # {}, s \ {LastInFefoOrder(s)} \in P PROVE s \in P
  <2>1. SUFFICES ASSUME FirstRows(s, Rows)
                 PROVE  /\ F[s].left = credits - SumFunctionOnSet(plan, s)
                        /\ \A l \in s : F[s].take[l] = plan[l]
                        /\ \A l \in LotIds \ s : F[s].take[l] = 0
    OBVIOUS
  <2>2. PICK x, r : x = LastInFefoOrder(s) /\ r = s \ {x}
    OBVIOUS
  <2>3. /\ x \in s /\ x \in LotIds /\ x \in Rows /\ x \notin r /\ r \in SUBSET Rows
        /\ \A l \in s : l = x \/ l \in r
        /\ \A l \in LotIds \ s : l # x /\ l \in LotIds \ r
    BY <1>3, <1>7, <2>2, LastFacts
  <2>4. PICK old, new : old = F[r] /\ new = F[s]
    OBVIOUS
  <2>5. new = AllocateFrom(x, old)
    BY <1>2, <1>7, <2>2, <2>4
  <2>6. old.left \in Nat /\ old.take \in [LotIds -> Nat]
    BY <1>2, <2>3, <2>4 DEF AllocationState
  <2>7. /\ SumFunctionOnSet(plan, r) \in Nat
        /\ SumFunctionOnSet(plan, s) = plan[x] + SumFunctionOnSet(plan, r)
        /\ SumFunctionOnSet(plan, s) <= credits
        /\ plan[x] = full[x] \/ SumFunctionOnSet(plan, s) = credits
        /\ FirstRows(r, Rows)
    <3> HIDE DEF P
    <3>1. s # {} /\ x = LastInFefoOrder(s) /\ r = s \ {x} /\ FirstRows(s, Rows)
      BY <1>7, <2>1, <2>2
    <3>2. IsPlan(plan, full, Rows, credits)
      BY <1>3, <1>5 DEF IsPlan
    <3>3. PlanUpTo(plan, full, Rows, credits, s, LastInFefoOrder(s))
      BY <3>1, <3>2, PlanUpToRow
    <3>4. QED BY <3>1, <3>3 DEF PlanUpTo
  <2>8. /\ old.left = credits - SumFunctionOnSet(plan, r)
        /\ \A l \in r : old.take[l] = plan[l]
        /\ \A l \in LotIds \ r : old.take[l] = 0
    BY <1>7, <2>2, <2>4, <2>7
  <2>9. /\ new.left = old.left - plan[x]
        /\ new.take[x] = plan[x]
        /\ \A l \in LotIds : l # x => new.take[l] = old.take[l]
    <3>1. /\ plan[x] \in Nat /\ plan[x] <= full[x] /\ full[x] \in Nat
          /\ full[x] = lots[x].remaining /\ plan[x] <= old.left
          /\ plan[x] = full[x] \/ plan[x] = old.left
      BY <1>4, <1>5, <2>3, <2>7, <2>8
    <3>2. CASE old.left = 0
      <4>1. plan[x] = 0 /\ new = old /\ old.take[x] = 0
        BY <2>3, <2>5, <2>8, <3>1, <3>2 DEF AllocateFrom
      <4>2. QED BY <2>6, <4>1
    <3>3. CASE old.left # 0
      <4>1. PICK a : a = IF lots[x].remaining < old.left THEN lots[x].remaining ELSE old.left
        OBVIOUS
      <4>2. new.left = old.left - a /\ new.take = [old.take EXCEPT ![x] = a]
        BY <2>5, <3>3, <4>1 DEF AllocateFrom
      <4>3. a = plan[x]
        BY <2>6, <3>1, <4>1
      <4>4. QED BY <2>3, <2>6, <4>2, <4>3
    <3>4. QED BY <3>2, <3>3
  <2>10. new.left = credits - SumFunctionOnSet(plan, s)
    <3>1. plan[x] \in Nat
      BY <1>5, <2>3
    <3>2. QED BY <2>7, <2>8, <2>9, <3>1
  <2>11. \A l \in s : new.take[l] = plan[l]
    BY <1>3, <2>3, <2>8, <2>9
  <2>12. \A l \in LotIds \ s : new.take[l] = 0
    BY <2>3, <2>8, <2>9
  <2>13. QED BY <2>4, <2>10, <2>11, <2>12
<1>8. Rows \in P
  <2> HIDE DEF P
  <2>1. QED BY <1>3, <1>6, <1>7, LoopInduction
<1>9. /\ F[Rows].left = credits - SumFunctionOnSet(plan, Rows)
      /\ \A l \in LotIds : F[Rows].take[l] = plan[l]
  BY <1>5, <1>8 DEF FirstRows
<1>10. SumFunctionOnSet(plan, Rows) = credits
  <2>1. \A l \in LotIds : plan[l] \in Int
    BY <1>5
  <2>2. QED BY <1>3, <1>5, <2>1, SumSupport
<1>11. F[Rows].take = plan
  <2>1. F[Rows].take \in [LotIds -> Nat]
    BY <1>2, <1>3 DEF AllocationState
  <2>2. QED BY <1>5, <1>9, <2>1
<1>12. QED BY <1>2, <1>9, <1>10, <1>11

\* What a refund may take of a usage row: an earlier refund in full or not at all.
MayTake(op, l, n) ==
  /\ n \in Nat
  /\ n <= FullTake(op, l)
  /\ refund[op][l].credits > 0 => n \in {0, FullTake(op, l)}

\* A refund that comes out even, with no row refused, is a plan.
LEMMA RefundIsPlan ==
  ASSUME LedgerInv, NEW op \in Ops, NEW credits \in Nat,
         RefundLoop(op, credits).left = 0, ~RefundLoop(op, credits).refused
  PROVE  RefundLoop(op, credits).take \in RefundPlans(op, credits)
<1> TypeOK
  BY DEF LedgerInv
<1>1. PICK Rows, full : /\ Rows = {l \in LotIds : usage[op][l] > 0}
                        /\ full = [l \in LotIds |-> FullTake(op, l)]
  OBVIOUS
<1>2. PICK F : /\ RefundLoop(op, credits) = F[Rows]
               /\ F[{}] = [left |-> credits, take |-> NoTake, refused |-> FALSE]
               /\ \A s \in SUBSET Rows : F[s] \in RefundState
               /\ \A s \in SUBSET Rows : s # {} =>
                    F[s] = RefundFrom(op, LastInFefoOrder(s), F[s \ {LastInFefoOrder(s)}])
  <2>1. PICK F : IsRefundRun(F, Rows, op, credits)
    BY <1>1, RefundRun
  <2>2. QED BY <2>1 DEF IsRefundRun
<1>3. Rows \in SUBSET LotIds /\ Rows \in SUBSET Rows /\ IsFiniteSet(Rows) /\ IsFiniteSet(LotIds)
  BY <1>1, LedgerAssumption, FS_Subset
<1>4. \A l \in LotIds : full[l] \in Nat /\ full[l] = FullTake(op, l)
  BY <1>1, RowFacts
<1> DEFINE Inv(s) == /\ \A l \in LotIds \ s : F[s].take[l] = 0
                     /\ F[s].left + SumFunctionOnSet(F[s].take, s) = credits
                     /\ ~F[s].refused =>
                          /\ \A l \in s : MayTake(op, l, F[s].take[l])
                          /\ F[s].left # 0 => \A l \in s : F[s].take[l] = full[l]
                          /\ Greedy(F[s].take, full, s)
<1> DEFINE P == {s \in SUBSET Rows : Inv(s)}
<1>5. {} \in P
  <2>1. PICK g : g = F[{}].take
    OBVIOUS
  <2>2. SumFunctionOnSet(g, {}) = 0
    BY SumEmpty
  <2>3. F[{}].left = credits /\ \A l \in LotIds : g[l] = 0
    BY <1>2, <2>1 DEF NoTake
  <2>4. Inv({})
    BY <2>1, <2>2, <2>3 DEF Greedy
  <2>5. QED BY <2>4
<1>6. ASSUME NEW s \in SUBSET Rows, s # {}, s \ {LastInFefoOrder(s)} \in P PROVE s \in P
  <2>1. PICK x, r : x = LastInFefoOrder(s) /\ r = s \ {x}
    OBVIOUS
  <2>2. /\ x \in s /\ x \in LotIds /\ x \notin r /\ s \in SUBSET LotIds
        /\ r \in SUBSET LotIds /\ r \in SUBSET Rows /\ IsFiniteSet(s) /\ \A l \in s : l = x \/ l \in r
    BY <1>3, <1>6, <2>1, LastFacts, FS_Subset
  <2>3. PICK old, new : old = F[r] /\ new = F[s]
    OBVIOUS
  <2>4. new = RefundFrom(op, x, old)
    BY <1>2, <1>6, <2>1, <2>3
  <2>5. /\ old.left \in Int /\ old.take \in [LotIds -> Int] /\ old.refused \in BOOLEAN
        /\ new.left \in Int /\ new.take \in [LotIds -> Int] /\ new.refused \in BOOLEAN
    BY <1>2, <2>2, <2>3 DEF RefundState
  <2>6. /\ \A l \in LotIds \ r : old.take[l] = 0
        /\ old.left + SumFunctionOnSet(old.take, r) = credits
        /\ ~old.refused => /\ \A l \in r : MayTake(op, l, old.take[l])
                           /\ old.left # 0 => \A l \in r : old.take[l] = full[l]
                           /\ Greedy(old.take, full, r)
    BY <1>6, <2>1, <2>3
  <2>7. /\ \A l \in LotIds : l # x => new.take[l] = old.take[l]
        /\ new.left + new.take[x] = old.left
        /\ ~new.refused => /\ ~old.refused
                           /\ MayTake(op, x, new.take[x])
                           /\ new.take[x] > 0 => old.left # 0
                           /\ new.left # 0 => old.left # 0 /\ new.take[x] = full[x]
    <3>1. CASE old.left = 0
      <4>1. new = old /\ new.take[x] = 0
        BY <2>2, <2>4, <2>6, <3>1 DEF RefundFrom
      <4>2. MayTake(op, x, 0)
        BY <2>2, RowFacts DEF MayTake
      <4>3. QED BY <2>5, <3>1, <4>1, <4>2
    <3>2. CASE old.left # 0
      <4>1. PICK a : a = IF refund[op][x].credits > 0 THEN refund[op][x].credits
                         ELSE IF usage[op][x] < old.left THEN usage[op][x] ELSE old.left
        OBVIOUS
      <4>2. /\ new.left = old.left - a /\ new.take = [old.take EXCEPT ![x] = a]
            /\ new.refused = (old.refused \/ a <= 0)
        BY <2>4, <3>2, <4>1 DEF RefundFrom
      <4>3. new.take[x] = a /\ \A l \in LotIds : l # x => new.take[l] = old.take[l]
        BY <2>2, <2>5, <4>2
      <4>4. /\ usage[op][x] \in Nat /\ refund[op][x].credits \in Nat
            /\ FullTake(op, x) \in Nat /\ full[x] = FullTake(op, x) /\ a \in Int
        BY <1>4, <2>2, <2>5, <4>1, RowFacts
      <4>5. ASSUME a > 0 PROVE MayTake(op, x, a) /\ (new.left # 0 => a = full[x])
        BY <2>5, <3>2, <4>1, <4>2, <4>4, <4>5 DEF MayTake, FullTake
      <4>6. ~new.refused => ~old.refused /\ a > 0
        <5>1. ~(a <= 0) => a > 0
          BY <4>4
        <5>2. QED BY <4>2, <5>1, Zenon
      <4>7. new.left + a = old.left
        BY <2>5, <4>2, <4>4
      <4>8. QED BY <3>2, <4>3, <4>5, <4>6, <4>7
    <3>3. QED BY <3>1, <3>2
  <2>8. SumFunctionOnSet(new.take, s) = new.take[x] + SumFunctionOnSet(old.take, r)
    <3>1. PICK g, h : g = old.take /\ h = new.take
      OBVIOUS
    <3>2. /\ h[x] \in Int
          /\ \A y \in r : g[y] \in Int /\ h[y] = g[y]
      BY <2>2, <2>5, <2>7, <3>1
    <3>3. SumFunctionOnSet(h, s) = h[x] + SumFunctionOnSet(g, r)
      BY <2>1, <2>2, <3>2, SumReplace
    <3>4. QED BY <3>1, <3>3
  <2>9. ASSUME ~new.refused PROVE Greedy(new.take, full, s)
    <3>1. /\ \A l \in r : new.take[l] = old.take[l]
          /\ new.take[x] > 0 => \A l \in r : old.take[l] = full[l]
          /\ Greedy(old.take, full, r)
      BY <2>2, <2>6, <2>7, <2>9
    <3>2. PICK g, h : g = old.take /\ h = new.take
      OBVIOUS
    <3>3. Greedy(h, full, s)
      BY <1>6, <2>1, <2>2, <3>1, <3>2, GreedyGrows
    <3>4. QED BY <3>2, <3>3
  <2>10. new.left + SumFunctionOnSet(new.take, s) = credits
    <3>1. PICK n : n = SumFunctionOnSet(old.take, r)
      OBVIOUS
    <3>2. n \in Int
      <4>1. PICK g : g = old.take
        OBVIOUS
      <4>2. IsFiniteSet(r) /\ \A y \in r : g[y] \in Int
        BY <2>2, <2>5, <4>1, <2>1, FS_Subset
      <4>3. r \in SUBSET r
        OBVIOUS
      <4>4. QED BY <3>1, <4>1, <4>2, <4>3, SumType
    <3>3. QED BY <2>5, <2>6, <2>7, <2>8, <2>2, <3>1, <3>2
  <2>11. \A l \in LotIds \ s : new.take[l] = 0
    BY <2>1, <2>2, <2>6, <2>7
  <2>12. ~new.refused => \A l \in s : MayTake(op, l, new.take[l])
    BY <2>2, <2>6, <2>7
  <2>13. ~new.refused => (new.left # 0 => \A l \in s : new.take[l] = full[l])
    BY <2>2, <2>6, <2>7
  <2>14. QED BY <1>6, <2>3, <2>9, <2>10, <2>11, <2>12, <2>13
<1>7. Rows \in P
  <2> HIDE DEF P
  <2>1. QED BY <1>3, <1>5, <1>6, LoopInduction
<1>8. PICK take : take = F[Rows].take
  OBVIOUS
<1>9. /\ take \in [LotIds -> Nat]
      /\ \A l \in LotIds \ Rows : take[l] = 0
      /\ SumFunctionOnSet(take, Rows) = credits
      /\ \A l \in Rows : MayTake(op, l, take[l])
      /\ Greedy(take, full, Rows)
  <2>1. F[Rows] \in RefundState /\ F[Rows].left = 0 /\ ~F[Rows].refused /\ Inv(Rows)
    BY <1>2, <1>3, <1>7
  <2>2. take \in [LotIds -> Int] /\ \A l \in LotIds \ Rows : take[l] = 0
    BY <1>8, <2>1 DEF RefundState
  <2>3. \A l \in Rows : MayTake(op, l, take[l])
    BY <1>8, <2>1
  <2>4. \A l \in LotIds : take[l] \in Nat
    BY <2>2, <2>3 DEF MayTake
  <2>5. take \in [LotIds -> Nat]
    BY <2>2, <2>4
  <2>6. SumFunctionOnSet(take, Rows) \in Nat
    BY <1>3, <2>5, SumNat
  <2>7. SumFunctionOnSet(take, Rows) = credits
    BY <1>8, <2>1, <2>6
  <2>8. QED BY <1>8, <2>1, <2>2, <2>3, <2>5, <2>7
<1>10. SumFunctionOnSet(take, LotIds) = credits
  <2>1. \A l \in LotIds : take[l] \in Int
    BY <1>9
  <2>2. QED BY <1>3, <1>9, <2>1, SumSupport
<1>11. take \in [LotIds -> 0..credits] /\ SumFunction(take) = credits
  BY <1>3, <1>9, <1>10, TakeWithinSum
<1>12. ASSUME NEW l \in LotIds
       PROVE  /\ take[l] <= FullTake(op, l)
              /\ refund[op][l].credits > 0 => take[l] \in {0, FullTake(op, l)}
              /\ take[l] > 0 =>
                   \A m \in LotIds : usage[op][m] > 0 /\ compareCreditLotsForFefo(m, l) =>
                     take[m] = FullTake(op, m)
  <2>1. MayTake(op, l, take[l])
    <3>1. CASE l \in Rows
      BY <1>9, <3>1
    <3>2. CASE l \notin Rows
      BY <1>9, <3>2, RowFacts DEF MayTake
    <3>3. QED BY <3>1, <3>2
  <2>2. ASSUME take[l] > 0, NEW m \in LotIds, usage[op][m] > 0, compareCreditLotsForFefo(m, l)
        PROVE  take[m] = FullTake(op, m)
    <3>1. l \in Rows
      BY <1>9, <2>2
    <3>2. m \in Rows
      BY <1>1, <2>2
    <3>3. QED BY <1>4, <1>9, <2>2, <3>1, <3>2 DEF Greedy
  <2>3. QED BY <2>1, <2>2 DEF MayTake
<1>13. take \in RefundPlans(op, credits)
  BY <1>11, <1>12 DEF RefundPlans
<1>14. QED BY <1>2, <1>8, <1>13

\* Whenever there is a plan, the refund loop comes out even with that plan and refuses
\* no row.
LEMMA PlanIsRefunded ==
  ASSUME LedgerInv, NEW op \in Ops, NEW credits \in Nat,
         NEW plan \in RefundPlans(op, credits)
  PROVE  /\ RefundLoop(op, credits).left = 0
         /\ RefundLoop(op, credits).take = plan
         /\ ~RefundLoop(op, credits).refused
<1> TypeOK
  BY DEF LedgerInv
<1>1. PICK Rows, full : /\ Rows = {l \in LotIds : usage[op][l] > 0}
                        /\ full = [l \in LotIds |-> FullTake(op, l)]
  OBVIOUS
<1>2. PICK F : /\ RefundLoop(op, credits) = F[Rows]
               /\ F[{}] = [left |-> credits, take |-> NoTake, refused |-> FALSE]
               /\ \A s \in SUBSET Rows : F[s] \in RefundState
               /\ \A s \in SUBSET Rows : s # {} =>
                    F[s] = RefundFrom(op, LastInFefoOrder(s), F[s \ {LastInFefoOrder(s)}])
  <2>1. PICK F : IsRefundRun(F, Rows, op, credits)
    BY <1>1, RefundRun
  <2>2. QED BY <2>1 DEF IsRefundRun
<1>3. Rows \in SUBSET LotIds /\ Rows \in SUBSET Rows /\ IsFiniteSet(Rows) /\ IsFiniteSet(LotIds)
  BY <1>1, LedgerAssumption, FS_Subset
<1>4. \A l \in LotIds : full[l] \in Nat /\ full[l] = FullTake(op, l)
  BY <1>1, RowFacts
<1>5. /\ plan \in [LotIds -> Nat]
      /\ SumFunctionOnSet(plan, LotIds) = credits
      /\ \A l \in LotIds \ Rows : plan[l] = 0
      /\ \A l \in Rows : MayTake(op, l, plan[l])
      /\ Greedy(plan, full, Rows)
  <2>1. /\ plan \in [LotIds -> Nat]
        /\ SumFunctionOnSet(plan, LotIds) = credits
        /\ \A l \in LotIds :
             /\ plan[l] <= FullTake(op, l)
             /\ refund[op][l].credits > 0 => plan[l] \in {0, FullTake(op, l)}
             /\ plan[l] > 0 =>
                  \A m \in LotIds : usage[op][m] > 0 /\ compareCreditLotsForFefo(m, l) =>
                    plan[m] = FullTake(op, m)
    BY PlanFacts
  <2>2. ASSUME NEW l \in LotIds \ Rows PROVE plan[l] = 0
    <3>1. l \in LotIds /\ ~(usage[op][l] > 0)
      BY <1>1, <2>2
    <3>2. FullTake(op, l) = 0
      BY <3>1, RowFacts
    <3>3. QED BY <2>1, <3>1, <3>2
  <2>3. \A l \in Rows : MayTake(op, l, plan[l])
    BY <1>3, <2>1 DEF MayTake
  <2>4. Greedy(plan, full, Rows)
    BY <1>1, <1>3, <1>4, <2>1 DEF Greedy
  <2>5. QED BY <2>1, <2>2, <2>3, <2>4
<1> DEFINE Inv(s) == FirstRows(s, Rows) =>
                       /\ F[s].left = credits - SumFunctionOnSet(plan, s)
                       /\ \A l \in s : F[s].take[l] = plan[l]
                       /\ \A l \in LotIds \ s : F[s].take[l] = 0
                       /\ ~F[s].refused
<1> DEFINE P == {s \in SUBSET Rows : Inv(s)}
<1>6. {} \in P
  <2>1. SumFunctionOnSet(plan, {}) = 0
    BY SumEmpty
  <2>2. F[{}].left = credits /\ ~F[{}].refused /\ \A l \in LotIds : F[{}].take[l] = 0
    BY <1>2 DEF NoTake
  <2>3. QED BY <2>1, <2>2
<1>7. ASSUME NEW s \in SUBSET Rows, s # {}, s \ {LastInFefoOrder(s)} \in P PROVE s \in P
  <2>1. SUFFICES ASSUME FirstRows(s, Rows)
                 PROVE  /\ F[s].left = credits - SumFunctionOnSet(plan, s)
                        /\ \A l \in s : F[s].take[l] = plan[l]
                        /\ \A l \in LotIds \ s : F[s].take[l] = 0
                        /\ ~F[s].refused
    OBVIOUS
  <2>2. PICK x, r : x = LastInFefoOrder(s) /\ r = s \ {x}
    OBVIOUS
  <2>3. /\ x \in s /\ x \in LotIds /\ x \in Rows /\ x \notin r /\ r \in SUBSET Rows
        /\ \A l \in s : l = x \/ l \in r
        /\ \A l \in LotIds \ s : l # x /\ l \in LotIds \ r
    BY <1>3, <1>7, <2>2, LastFacts
  <2>4. PICK old, new : old = F[r] /\ new = F[s]
    OBVIOUS
  <2>5. new = RefundFrom(op, x, old)
    BY <1>2, <1>7, <2>2, <2>4
  <2>6. old.left \in Int /\ old.take \in [LotIds -> Int] /\ old.refused \in BOOLEAN
    BY <1>2, <2>3, <2>4 DEF RefundState
  <2>7. /\ SumFunctionOnSet(plan, r) \in Nat
        /\ SumFunctionOnSet(plan, s) = plan[x] + SumFunctionOnSet(plan, r)
        /\ SumFunctionOnSet(plan, s) <= credits
        /\ plan[x] = full[x] \/ SumFunctionOnSet(plan, s) = credits
        /\ FirstRows(r, Rows)
    <3> HIDE DEF P
    <3>1. s # {} /\ x = LastInFefoOrder(s) /\ r = s \ {x} /\ FirstRows(s, Rows)
      BY <1>7, <2>1, <2>2
    <3>2. IsPlan(plan, full, Rows, credits)
      BY <1>3, <1>5 DEF IsPlan
    <3>3. PlanUpTo(plan, full, Rows, credits, s, LastInFefoOrder(s))
      BY <3>1, <3>2, PlanUpToRow
    <3>4. QED BY <3>1, <3>3 DEF PlanUpTo
  <2>8. /\ old.left = credits - SumFunctionOnSet(plan, r)
        /\ \A l \in r : old.take[l] = plan[l]
        /\ \A l \in LotIds \ r : old.take[l] = 0
        /\ ~old.refused
    BY <1>7, <2>2, <2>4, <2>7
  <2>9. /\ new.left = old.left - plan[x]
        /\ new.take[x] = plan[x]
        /\ \A l \in LotIds : l # x => new.take[l] = old.take[l]
        /\ ~new.refused
    <3>1. /\ plan[x] \in Nat /\ MayTake(op, x, plan[x]) /\ full[x] = FullTake(op, x)
          /\ plan[x] <= old.left
          /\ plan[x] = FullTake(op, x) \/ plan[x] = old.left
      BY <1>4, <1>5, <2>3, <2>7, <2>8
    <3>2. CASE old.left = 0
      <4>1. plan[x] = 0 /\ new = old /\ old.take[x] = 0
        BY <2>3, <2>5, <2>8, <3>1, <3>2 DEF RefundFrom
      <4>2. QED BY <2>6, <2>8, <4>1
    <3>3. CASE old.left # 0
      <4>1. PICK a : a = IF refund[op][x].credits > 0 THEN refund[op][x].credits
                         ELSE IF usage[op][x] < old.left THEN usage[op][x] ELSE old.left
        OBVIOUS
      <4>2. /\ new.left = old.left - a /\ new.take = [old.take EXCEPT ![x] = a]
            /\ new.refused = (old.refused \/ a <= 0)
        BY <2>5, <3>3, <4>1 DEF RefundFrom
      <4>3. usage[op][x] \in Nat /\ usage[op][x] > 0 /\ refund[op][x].credits \in Nat
        BY <1>1, <2>3, RowFacts
      <4>4. a = plan[x] /\ a > 0
        BY <2>6, <3>1, <3>3, <4>1, <4>3 DEF MayTake, FullTake
      <4>5. ~new.refused
        <5>1. ~(a <= 0)
          BY <3>1, <4>4
        <5>2. QED BY <2>8, <4>2, <5>1, Zenon
      <4>6. QED BY <2>3, <2>6, <4>2, <4>4, <4>5
    <3>4. QED BY <3>2, <3>3
  <2>10. new.left = credits - SumFunctionOnSet(plan, s)
    <3>1. plan[x] \in Nat
      BY <1>5, <2>3
    <3>2. QED BY <2>7, <2>8, <2>9, <3>1
  <2>11. \A l \in s : new.take[l] = plan[l]
    BY <1>3, <2>3, <2>8, <2>9
  <2>12. \A l \in LotIds \ s : new.take[l] = 0
    BY <2>3, <2>8, <2>9
  <2>13. QED BY <2>4, <2>9, <2>10, <2>11, <2>12
<1>8. Rows \in P
  <2> HIDE DEF P
  <2>1. QED BY <1>3, <1>6, <1>7, LoopInduction
<1>9. /\ F[Rows].left = credits - SumFunctionOnSet(plan, Rows)
      /\ \A l \in LotIds : F[Rows].take[l] = plan[l]
      /\ ~F[Rows].refused
  BY <1>5, <1>8 DEF FirstRows
<1>10. SumFunctionOnSet(plan, Rows) = credits
  <2>1. \A l \in LotIds : plan[l] \in Int
    BY <1>5
  <2>2. QED BY <1>3, <1>5, <2>1, SumSupport
<1>11. F[Rows].take = plan
  <2>1. F[Rows].take \in [LotIds -> Int]
    BY <1>2, <1>3 DEF RefundState
  <2>2. QED BY <1>5, <1>9, <2>1
<1>12. QED BY <1>2, <1>9, <1>10, <1>11

\* In a ledger that keeps its invariant the loops find the plans.
LEMMA LoopsMatch == LedgerInv => LoopsFindPlans
<1>1. SUFFICES ASSUME LedgerInv PROVE AllocationLoopFindsPlan /\ RefundLoopFindsPlan
  BY DEF LoopsFindPlans
<1>2. TypeOK /\ Amounts \subseteq Nat
  BY <1>1, ConstantFacts DEF LedgerInv
<1>3. ASSUME NEW credits \in Amounts, NEW now \in Times
      PROVE  allocateCreditConsumption(credits, now)
               = IF AllocationLoop(credits, now).left = 0
                 THEN {AllocationLoop(credits, now).take} ELSE {}
  <2>1. credits \in Nat
    BY <1>2
  <2>2. \A plan \in allocateCreditConsumption(credits, now) :
          AllocationLoop(credits, now).left = 0 /\ AllocationLoop(credits, now).take = plan
    BY <1>2, <2>1, PlanIsAllocated
  <2>3. AllocationLoop(credits, now).left = 0 =>
          AllocationLoop(credits, now).take \in allocateCreditConsumption(credits, now)
    BY <1>2, <2>1, AllocationIsPlan
  <2>4. QED BY <2>2, <2>3
<1>4. ASSUME NEW op \in Ops, NEW credits \in Amounts
      PROVE  RefundPlans(op, credits)
               = IF RefundLoop(op, credits).left = 0 /\ ~RefundLoop(op, credits).refused
                 THEN {RefundLoop(op, credits).take} ELSE {}
  <2>1. credits \in Nat
    BY <1>2
  <2>2. \A plan \in RefundPlans(op, credits) :
          /\ RefundLoop(op, credits).left = 0 /\ RefundLoop(op, credits).take = plan
          /\ ~RefundLoop(op, credits).refused
    BY <1>1, <2>1, PlanIsRefunded
  <2>3. RefundLoop(op, credits).left = 0 /\ ~RefundLoop(op, credits).refused =>
          RefundLoop(op, credits).take \in RefundPlans(op, credits)
    BY <1>1, <2>1, RefundIsPlan
  <2>4. QED BY <2>2, <2>3
<1>5. QED BY <1>3, <1>4 DEF AllocationLoopFindsPlan, RefundLoopFindsPlan

\* The loops of allocateCreditConsumption and refundUsageOperation, row by row, find in
\* every reachable ledger exactly the plans that consume and refund are stated with, and
\* fail exactly when there is none, whatever was refunded before and in which amounts.
THEOREM LedgerLoopsFindPlans == Spec => []LoopsFindPlans
BY LedgerInvariance, LoopsMatch, PTL
=============================================================================
