------------------------- MODULE DueDeliveryProofs --------------------------
(***************************************************************************)
(* Theorems about DueDelivery: for any number of workers, business dates,  *)
(* attempts and faults, and any retention.                                 *)
(***************************************************************************)
EXTENDS DueDelivery, TLAPS

-----------------------------------------------------------------------------
(* The inductive invariant *)

\* A worker whose claim still stands knows the number of its attempt.  Beyond the
\* last attempt an item is claimed only again after a crash or a lapsed lease.
AttemptsOK ==
    /\ \A i \in Items :
          /\ item[i].status \in {"none", "pending", "retry"} => item[i].attempts < MaxAttempts
          /\ item[i].status = "claimed" =>
                /\ item[i].attempts <= MaxAttempts + faults
                /\ ~item[i].live => item[i].attempts < MaxAttempts + faults
                /\ ~AtWork(i) => item[i].attempts < MaxAttempts + faults
    /\ \A w \in Workers :
          worker[w].pc # "idle" /\ Holds(w) =>
              worker[w].attempt = item[worker[w].item].attempts

\* A claimed item has a worker in its claim.
ClaimsOK == \A i \in Items : item[i].status = "claimed" => item[i].claim \in Workers

\* Items are enqueued up to tomorrow, and tomorrow's only by the settlement of
\* today's; nothing is claimed before its date, or settled.
DatesOK ==
    /\ today < MaxDay
    /\ \A i \in Days :
          /\ item[i].status \notin {"none", "pending"} => i <= today
          /\ item[i].status \in Settled => i <= item[i].done
          /\ i > today + 1 => item[i].status = "none"
          /\ i = today + 1 /\ item[i].status # "none" => item[today].status \in Settled

\* The latest daily item is the one that carries the chain on.
HeadIsOpen ==
    chain = "going" =>
        \E i \in Days : /\ item[i].status \in Open
                        /\ \A j \in Days : j > i => item[j].status = "none"

\* A lease that runs has seen one midnight at most, and a worker that goes on to
\* deliver claimed its item by the item's own date.
ClaimsInTime ==
    /\ \A i \in Items : Claimed(i) => item[i].since <= today /\ today <= item[i].since + 1
    /\ \A w \in Workers :
          /\ worker[w].pc \in {"begin", "deliver", "settle"}
          /\ Holds(w)
          /\ Daily(worker[w].item)
          => item[worker[w].item].since <= worker[w].item

\* The effect is in the hands of one worker, and "sent" is known to be so.
EffectOK ==
    /\ sent <= 1
    /\ effect = "none" => sent = 0
    /\ effect = "sent" => sent = 1
    /\ \A w \in Workers :
          /\ worker[w].pc \in {"send", "mark"} =>
                /\ worker[w].item = Recall
                /\ effect = "claimed"
                /\ sent = IF worker[w].pc = "send" THEN 0 ELSE 1
          /\ worker[w].pc = "settle" /\ worker[w].item = Recall => sent = 1
    /\ \A v, w \in Workers :
          worker[v].pc \in {"send", "mark"} /\ worker[w].pc \in {"send", "mark"} => v = w

IInv ==
    /\ TypeOK
    /\ AttemptsOK /\ ClaimsOK /\ DatesOK /\ HeadIsOpen /\ ClaimsInTime /\ EffectOK
    /\ RecallSentOnce /\ RunTellsOutcome /\ DeliveredInTime

-----------------------------------------------------------------------------
(* Types *)

\* The invariant holds at the start.
LEMMA InitInv == Init => IInv
<1> SUFFICES ASSUME Init PROVE IInv
  OBVIOUS
<1> USE DueAssumption DEF Init
<1>1. NoItem \in ItemRows /\ Idle \in WorkerRows /\ Recall \in Items
  BY DEF NoItem, Idle, ItemRows, WorkerRows, Items, Days
<1>2. TypeOK
  BY <1>1 DEF TypeOK, Days
<1>3. \A i \in Items : item[i].status = "none" /\ item[i].attempts = 0
  BY DEF NoItem
<1>4. \A w \in Workers : worker[w].pc = "idle"
  BY DEF Idle
<1>5. Days \subseteq Items
  BY DEF Items
<1>6. AttemptsOK /\ ClaimsOK
  BY <1>3, <1>4 DEF AttemptsOK, ClaimsOK
<1>7. DatesOK /\ HeadIsOpen /\ ClaimsInTime
  BY <1>3, <1>4, <1>5 DEF DatesOK, HeadIsOpen, ClaimsInTime, Claimed, Settled
<1>8. EffectOK
  BY <1>4 DEF EffectOK
<1>9. RecallSentOnce /\ RunTellsOutcome /\ DeliveredInTime
  BY <1>1, <1>3, <1>5 DEF RecallSentOnce, RunTellsOutcome, DeliveredInTime
<1> QED
  BY <1>2, <1>6, <1>7, <1>8, <1>9 DEF IInv

\* What the rows of a well-typed state are.
LEMMA RowTypes ==
  ASSUME TypeOK
  PROVE  /\ \A i \in Items :
               /\ item[i] \in ItemRows
               /\ item[i].status \in {"none"} \cup Open \cup Settled
               /\ item[i].attempts \in 0 .. MaxAttempts + MaxFaults
               /\ item[i].claim \in Workers \cup {None}
               /\ item[i].live \in BOOLEAN
               /\ item[i].since \in Days /\ item[i].done \in Days
         /\ \A w \in Workers :
               /\ worker[w] \in WorkerRows
               /\ worker[w].item \in Items
               /\ worker[w].attempt \in Nat
               /\ worker[w].began \in BOOLEAN
         /\ Days \subseteq Items /\ Days \subseteq Nat /\ Recall \in Items
         /\ \A i \in Items : Daily(i) <=> i \in Days
         /\ today \in Nat /\ MaxDay \in Nat /\ faults \in Nat /\ Recall \notin Days
BY DueAssumption DEF TypeOK, ItemRows, WorkerRows, Items, Days, Daily

\* A worker that goes on with the same item keeps its other fields.
LEMMA GoTypes ==
  ASSUME TypeOK, NEW w \in Workers, NEW step, Go(w, step),
         step \in {"idle", "evaluate", "inactive", "skip", "begin", "deliver",
                   "send", "mark", "settle", "failed"}
  PROVE  /\ worker' \in [Workers -> WorkerRows]
         /\ worker'[w].pc = step
         /\ \A v \in Workers : worker'[v].item = worker[v].item
                               /\ worker'[v].attempt = worker[v].attempt
         /\ \A v \in Workers \ {w} : worker'[v] = worker[v]
BY RowTypes DEF Go, TypeOK, WorkerRows

\* A worker that stops is idle, and the others are as before.
LEMMA StopTypes ==
  ASSUME TypeOK, NEW w \in Workers, Stop(w)
  PROVE  /\ worker' \in [Workers -> WorkerRows]
         /\ worker'[w].pc = "idle"
         /\ \A v \in Workers \ {w} : worker'[v] = worker[v]
BY RowTypes DEF Stop, TypeOK, WorkerRows, Idle

-----------------------------------------------------------------------------
(* Steps that leave the items alone *)

ItemParts == ClaimsOK /\ DatesOK /\ HeadIsOpen /\ RunTellsOutcome /\ DeliveredInTime

\* What is said of items, runs and the chain stays true while they do not change.
LEMMA ItemsStay ==
  ASSUME IInv, UNCHANGED <<today, item, run, chain>>
  PROVE  ItemParts'
BY DEF IInv, ItemParts, ClaimsOK, DatesOK, HeadIsOpen, RunTellsOutcome, DeliveredInTime

\* A worker that goes on without touching the items: what it knows of its attempt
\* and of its claim stands, unless it enters the delivery.
LEMMA WorkerGoesOn ==
  ASSUME IInv, NEW w \in Workers, NEW step, Go(w, step), worker[w].pc # "idle",
         step \in {"inactive", "skip", "begin", "deliver", "send", "mark", "settle", "failed"},
         step \in {"begin", "deliver", "settle"} /\ Holds(w) /\ Daily(worker[w].item) =>
             item[worker[w].item].since <= worker[w].item,
         UNCHANGED <<today, item>>, faults' \in Nat, faults <= faults'
  PROVE  AttemptsOK' /\ ClaimsInTime'
<1> USE DEF IInv
<1>1. /\ worker'[w].pc = step
      /\ \A v \in Workers : worker'[v].item = worker[v].item /\ worker'[v].attempt = worker[v].attempt
      /\ \A v \in Workers \ {w} : worker'[v] = worker[v]
  BY GoTypes
<1>2. \A v \in Workers : Holds(v)' <=> Holds(v)
  BY <1>1 DEF Holds
<1>3. \A i \in Items : item[i].status = "claimed" => (AtWork(i)' <=> AtWork(i))
  BY <1>1 DEF AtWork, ClaimsOK
<1>4. AttemptsOK'
  BY <1>1, <1>2, <1>3, RowTypes, DueAssumption DEF AttemptsOK
<1>5. ClaimsInTime'
  BY <1>1, <1>2 DEF ClaimsInTime, Claimed, Daily
<1> QED
  BY <1>4, <1>5

\* evaluate keeps the invariant.
LEMMA EvaluateStep ==
  ASSUME IInv, NEW w \in Workers, evaluate(w)
  PROVE  IInv'
<1> USE DEF evaluate
<1>1. PICK step \in {"inactive", "skip", "begin", "failed"} :
         /\ Go(w, step)
         /\ step = "begin" => ~isStaleDailyRecommendation(worker[w].item)
         /\ faults' \in 0 .. MaxFaults /\ faults <= faults'
  BY DueAssumption DEF Fault, IInv, TypeOK
<1>2. TypeOK'
  BY <1>1, GoTypes DEF IInv, TypeOK, world, recall
<1>3. ItemParts'
  BY ItemsStay DEF world
<1>4. step = "begin" /\ Holds(w) /\ Daily(worker[w].item) =>
          item[worker[w].item].since <= worker[w].item
  BY <1>1, RowTypes DEF isStaleDailyRecommendation, IInv, ClaimsInTime, Claimed, Holds
<1>5. AttemptsOK' /\ ClaimsInTime'
  BY <1>1, <1>4, WorkerGoesOn, DueAssumption DEF world
<1>6. EffectOK' /\ RecallSentOnce'
  BY <1>1, GoTypes DEF IInv, EffectOK, RecallSentOnce, recall
<1> QED
  BY <1>2, <1>3, <1>5, <1>6 DEF IInv, ItemParts

\* deliverDaily keeps the invariant.
LEMMA DeliverDailyStep ==
  ASSUME IInv, NEW w \in Workers, deliverDaily(w)
  PROVE  IInv'
<1> USE DEF deliverDaily
<1>1. PICK step \in {"settle", "failed"} : Go(w, step)
  OBVIOUS
<1>2. TypeOK'
  BY <1>1, GoTypes DEF IInv, TypeOK, world, recall
<1>3. ItemParts'
  BY ItemsStay DEF world
<1>4. AttemptsOK' /\ ClaimsInTime'
  BY <1>1, WorkerGoesOn, RowTypes DEF world, IInv, ClaimsInTime
<1>5. EffectOK' /\ RecallSentOnce'
  BY <1>1, GoTypes DEF IInv, EffectOK, RecallSentOnce, recall, Daily
<1> QED
  BY <1>2, <1>3, <1>4, <1>5 DEF IInv, ItemParts

\* A settlement that throws keeps the invariant.
LEMMA SettlementThrowsStep ==
  ASSUME IInv, NEW w \in Workers, settlementThrows(w)
  PROVE  IInv'
<1> USE DEF settlementThrows
<1>1. Go(w, "failed") /\ faults' \in 0 .. MaxFaults /\ faults <= faults'
  BY DueAssumption DEF Fault, IInv, TypeOK
<1>2. TypeOK'
  BY <1>1, GoTypes DEF IInv, TypeOK, world, recall
<1>3. ItemParts'
  BY ItemsStay DEF world
<1>4. AttemptsOK' /\ ClaimsInTime'
  BY <1>1, WorkerGoesOn, DueAssumption DEF world
<1>5. EffectOK' /\ RecallSentOnce'
  BY <1>1, GoTypes DEF IInv, EffectOK, RecallSentOnce, recall
<1> QED
  BY <1>2, <1>3, <1>4, <1>5 DEF IInv, ItemParts

\* claimEffect keeps the invariant.
LEMMA ClaimEffectStep ==
  ASSUME IInv, NEW w \in Workers, claimEffect(w)
  PROVE  IInv'
<1> USE DEF claimEffect, Unclaimed, Acknowledged
<1>1. PICK step \in {"send", "settle", "failed"} :
         /\ Go(w, step)
         /\ step = "send" => effect = "none" /\ effect' = "claimed"
         /\ step = "settle" => effect = "sent"
         /\ step # "send" => effect' = effect
  OBVIOUS
<1>2. TypeOK'
  BY <1>1, GoTypes DEF IInv, TypeOK, world
<1>3. ItemParts'
  BY ItemsStay DEF world
<1>4. AttemptsOK' /\ ClaimsInTime'
  BY <1>1, WorkerGoesOn, RowTypes DEF world, IInv, Daily
<1>5. EffectOK'
  <2>1. CASE step = "send"
    BY <1>1, <2>1, GoTypes DEF IInv, EffectOK
  <2>2. CASE step = "settle"
    BY <1>1, <2>2, GoTypes DEF IInv, EffectOK
  <2>3. CASE step = "failed"
    BY <1>1, <2>3, GoTypes DEF IInv, EffectOK
  <2> QED
    BY <2>1, <2>2, <2>3
<1>6. RecallSentOnce'
  BY DEF IInv, RecallSentOnce
<1> QED
  BY <1>2, <1>3, <1>4, <1>5, <1>6 DEF IInv, ItemParts

\* Sending the message keeps the invariant: the effect was claimed before, and once.
LEMMA NotifyStep ==
  ASSUME IInv, NEW w \in Workers, notify(w)
  PROVE  IInv'
<1> USE DEF notify
<1>1. PICK step \in {"mark", "failed"} :
         /\ Go(w, step)
         /\ step = "mark" => sent' = sent + 1 /\ effect' = effect
         /\ step = "failed" => /\ sent' \in {sent, sent + 1}
                              /\ effect' = IF effect = "claimed" THEN "unknown" ELSE effect
         /\ faults' \in 0 .. MaxFaults /\ faults <= faults'
  BY DueAssumption DEF Fault, IInv, TypeOK
<1>0. worker[w].item = Recall /\ effect = "claimed" /\ sent = 0
  BY DEF IInv, EffectOK
<1>2. TypeOK'
  BY <1>0, <1>1, GoTypes DEF IInv, TypeOK, world
<1>3. ItemParts'
  BY ItemsStay DEF world
<1>4. AttemptsOK' /\ ClaimsInTime'
  BY <1>1, WorkerGoesOn, DueAssumption DEF world
<1>5. EffectOK'
  BY <1>0, <1>1, GoTypes DEF IInv, EffectOK
<1>6. RecallSentOnce'
  BY <1>0, <1>1 DEF IInv, RecallSentOnce
<1> QED
  BY <1>2, <1>3, <1>4, <1>5, <1>6 DEF IInv, ItemParts

\* markSent keeps the invariant.
LEMMA MarkSentStep ==
  ASSUME IInv, NEW w \in Workers, markSent(w)
  PROVE  IInv'
<1> USE DEF markSent
<1>1. worker[w].item = Recall /\ effect = "claimed" /\ sent = 1
  BY DEF IInv, EffectOK
<1>2. Go(w, "settle") /\ effect' = "sent"
  BY <1>1
<1>3. TypeOK'
  BY <1>2, GoTypes DEF IInv, TypeOK, world
<1>4. ItemParts'
  BY ItemsStay DEF world
<1>5. AttemptsOK' /\ ClaimsInTime'
  BY <1>1, <1>2, WorkerGoesOn, RowTypes DEF world, IInv, Daily
<1>6. EffectOK' /\ RecallSentOnce'
  BY <1>1, <1>2, GoTypes DEF IInv, EffectOK, RecallSentOnce
<1> QED
  BY <1>3, <1>4, <1>5, <1>6 DEF IInv, ItemParts

\* A worker that stops gives nothing back.
LEMMA WorkerStops ==
  ASSUME IInv, NEW w \in Workers, Stop(w), UNCHANGED <<today, item>>,
         faults' \in Nat, faults <= faults', Holds(w) => faults < faults'
  PROVE  AttemptsOK' /\ ClaimsInTime'
<1> USE DEF IInv
<1>1. /\ worker'[w].pc = "idle"
      /\ \A v \in Workers \ {w} : worker'[v] = worker[v]
  BY StopTypes
<1>2. \A v \in Workers \ {w} : Holds(v)' <=> Holds(v)
  BY <1>1 DEF Holds
<1>3. \A i \in Items : item[i].status = "claimed" /\ item[i].claim # w => (AtWork(i)' <=> AtWork(i))
  BY <1>1 DEF AtWork, ClaimsOK
<1>4. \A i \in Items : item[i].status = "claimed" /\ item[i].claim = w /\ item[i].live /\ AtWork(i)
                          => faults < faults'
  BY DEF AtWork, Holds
<1>5. AttemptsOK'
  BY <1>1, <1>2, <1>3, <1>4, RowTypes, DueAssumption DEF AttemptsOK
<1>6. ClaimsInTime'
  BY <1>1, <1>2 DEF ClaimsInTime, Claimed, Daily
<1> QED
  BY <1>5, <1>6

\* A worker that finds its claim lost leaves the invariant true.
LEMMA LostStep ==
  ASSUME IInv, NEW w \in Workers, lost(w)
  PROVE  IInv'
<1> USE DEF lost
<1>1. TypeOK'
  BY StopTypes DEF IInv, TypeOK, world, recall
<1>2. ItemParts'
  BY ItemsStay DEF world
<1>3. AttemptsOK' /\ ClaimsInTime'
  BY WorkerStops, RowTypes DEF world, IInv
<1>4. EffectOK' /\ RecallSentOnce'
  BY StopTypes DEF IInv, EffectOK, RecallSentOnce, recall
<1> QED
  BY <1>1, <1>2, <1>3, <1>4 DEF IInv, ItemParts

\* A crash of a worker leaves the invariant true.
LEMMA CrashStep ==
  ASSUME IInv, NEW w \in Workers, crash(w)
  PROVE  IInv'
<1> USE DEF crash
<1>0. faults' \in 0 .. MaxFaults /\ faults < faults'
  BY DueAssumption DEF Fault, IInv, TypeOK
<1>1. TypeOK'
  BY <1>0, StopTypes DEF IInv, TypeOK, world, recall
<1>2. ItemParts'
  BY ItemsStay DEF world
<1>3. AttemptsOK' /\ ClaimsInTime'
  BY <1>0, WorkerStops, RowTypes, DueAssumption DEF world, IInv
<1>4. EffectOK' /\ RecallSentOnce'
  BY StopTypes DEF IInv, EffectOK, RecallSentOnce, recall
<1> QED
  BY <1>1, <1>2, <1>3, <1>4 DEF IInv, ItemParts

-----------------------------------------------------------------------------
(* Settlements *)

\* The items after item i is settled: at most the next day is new, and that is due.
SettledWith(i, status) ==
    /\ item' \in [Items -> ItemRows]
    /\ item'[i].status = status
    /\ item'[i].since = item[i].since /\ item'[i].done = today
    /\ \A j \in Items \ {i} :
          \/ item'[j] = item[j]
          \/ i \in Days /\ j = i + 1 /\ item[j].status = "none" /\ item'[j] = Due

\* A newly enqueued item is pending and untried.
LEMMA DueRow ==
  /\ Due \in ItemRows
  /\ Due.status = "pending" /\ Due.attempts = 0
<1>1. 0 \in 0 .. MaxAttempts + MaxFaults /\ 0 \in Days /\ "pending" \in Open
  BY DueAssumption DEF Days, Open
<1> QED
  BY <1>1 DEF Due, NoItem, ItemRows

\* What Settle writes, field by field.
LEMMA SettleRows ==
  ASSUME TypeOK, NEW i \in Items, NEW status \in Settled
  PROVE  /\ Settle(i, status) \in [Items -> ItemRows]
         /\ Settle(i, status)[i].status = status
         /\ Settle(i, status)[i].since = item[i].since
         /\ Settle(i, status)[i].done = today
         /\ \A j \in Items \ {i} : Settle(i, status)[j] = item[j]
<1> DEFINE row == [NoItem EXCEPT !.status = status, !.since = item[i].since, !.done = today]
<1>1. 0 \in 0 .. MaxAttempts + MaxFaults /\ today \in Days /\ item[i].since \in Days
  BY RowTypes, DueAssumption DEF TypeOK
<1>2. row \in ItemRows
  BY <1>1 DEF NoItem, ItemRows
<1>3. row.status = status /\ row.since = item[i].since /\ row.done = today
  BY DEF NoItem
<1>4. Settle(i, status) = [item EXCEPT ![i] = row]
  BY DEF Settle
<1> HIDE DEF row
<1> QED
  BY <1>2, <1>3, <1>4 DEF TypeOK

\* Settling an item leaves the others alone.
LEMMA SettleItems ==
  ASSUME TypeOK, NEW i \in Items, NEW status \in Settled, item' = Settle(i, status)
  PROVE  /\ SettledWith(i, status)
         /\ \A j \in Items \ {i} : item'[j] = item[j]
BY SettleRows DEF SettledWith

\* Settling a daily item leaves the item of the next day enqueued.
LEMMA SettleWithNextItems ==
  ASSUME IInv, NEW i \in Items, item[i].status = "claimed", NEW status \in Settled,
         settleWithNext(i, status)
  PROVE  /\ SettledWith(i, status)
         /\ i \in Days => i + 1 \in Days /\ item'[i + 1].status # "none"
<1> USE DEF IInv
<1>1. i \in Days => i + 1 \in Days
  BY RowTypes DEF DatesOK, Days
<1>2. Due \in ItemRows /\ Due.status = "pending"
  BY DueRow
<1>3. /\ Settle(i, status) \in [Items -> ItemRows]
      /\ Settle(i, status)[i].status = status
      /\ Settle(i, status)[i].since = item[i].since /\ Settle(i, status)[i].done = today
      /\ \A j \in Items \ {i} : Settle(i, status)[j] = item[j]
  BY SettleRows
<1>4. CASE i \in Days /\ item[i + 1].status = "none"
  <2>1. item' = [Settle(i, status) EXCEPT ![i + 1] = Due]
    BY <1>4, RowTypes DEF settleWithNext, nextDailyRecommendation
  <2>2. i + 1 # i /\ i + 1 \in Items
    BY <1>1, <1>4, RowTypes
  <2> QED
    BY <1>1, <1>2, <1>3, <1>4, <2>1, <2>2 DEF SettledWith
<1>5. CASE ~(i \in Days /\ item[i + 1].status = "none")
  <2>1. item' = Settle(i, status)
    BY <1>5, RowTypes DEF settleWithNext, nextDailyRecommendation
  <2>2. i \in Days => i + 1 # i /\ i + 1 \in Items
    BY <1>1, RowTypes
  <2> QED
    BY <1>1, <1>3, <1>5, <2>1, <2>2 DEF SettledWith
<1> QED
  BY <1>4, <1>5

\* The dates stand when an item changes status by its date, or is enqueued as the
\* next of a settled one.
LEMMA DatesKept ==
  ASSUME IInv, today' = today,
         \A j \in Days :
            \/ item'[j] = item[j]
            \/ item'[j].status \in {"none", "pending"} /\ j <= today
            \/ item'[j].status \in Open /\ j <= today
            \/ item'[j].status \in Settled /\ item'[j].done = today /\ j <= today
            \/ item'[j].status = "pending" /\ j = today + 1 /\ item'[today].status \in Settled,
         item[today].status \in Settled => item'[today].status \in Settled
  PROVE  DatesOK'
<1> USE DEF IInv
<1>1. today' < MaxDay
  BY DEF DatesOK
<1>2. ASSUME NEW j \in Days
      PROVE  /\ item'[j].status \notin {"none", "pending"} => j <= today
             /\ item'[j].status \in Settled => j <= item'[j].done
             /\ j > today + 1 => item'[j].status = "none"
             /\ j = today + 1 /\ item'[j].status # "none" => item'[today].status \in Settled
  <2>1. /\ item[j].status \notin {"none", "pending"} => j <= today
        /\ item[j].status \in Settled => j <= item[j].done
        /\ j > today + 1 => item[j].status = "none"
        /\ j = today + 1 /\ item[j].status # "none" => item[today].status \in Settled
    BY DEF DatesOK
  <2>2. j \in Nat /\ today \in Nat
    BY RowTypes
  <2>3. CASE item'[j] = item[j]
    BY <2>1, <2>3
  <2>4. CASE item'[j].status \in {"none", "pending"} \cup Open /\ j <= today
    BY <2>2, <2>4 DEF Open, Settled
  <2>5. CASE item'[j].status \in Settled /\ item'[j].done = today /\ j <= today
    BY <2>2, <2>5
  <2>6. CASE item'[j].status = "pending" /\ j = today + 1 /\ item'[today].status \in Settled
    BY <2>2, <2>6 DEF Settled
  <2> QED
    BY <2>3, <2>4, <2>5, <2>6
<1> QED
  BY <1>1, <1>2 DEF DatesOK

\* What every settlement keeps, whatever it enqueues.
LEMMA SettlementKeeps ==
  ASSUME IInv, NEW w \in Workers, worker[w].pc # "idle", Holds(w), NEW status \in Settled,
         SettledWith(worker[w].item, status), Stop(w), UNCHANGED <<today, faults, effect, sent>>
  PROVE  AttemptsOK' /\ ClaimsOK' /\ DatesOK' /\ ClaimsInTime' /\ EffectOK'
<1> DEFINE i == worker[w].item
<1> USE DEF IInv
<1>1. /\ i \in Items /\ item[i].status = "claimed" /\ item[i].claim = w
      /\ worker'[w].pc = "idle"
      /\ \A v \in Workers \ {w} : worker'[v] = worker[v]
  BY StopTypes, RowTypes DEF Holds
<1>2. \A j \in Items :
          \/ item'[j] = item[j] /\ j # i
          \/ item'[j].status \in Settled /\ j = i /\ item'[j].done = today
          \/ /\ item[j].status = "none" /\ item'[j].status = "pending"
             /\ item'[j].attempts = 0 /\ i \in Days /\ j = i + 1
  <2>1. \A j \in Items : j # i =>
          \/ item'[j] = item[j]
          \/ i \in Days /\ j = i + 1 /\ item[j].status = "none" /\ item'[j] = Due
    BY DEF SettledWith
  <2>2. item'[i].status \in Settled /\ item'[i].done = today
    BY DEF SettledWith
  <2>3. TAKE j \in Items
  <2>4. CASE j = i
    BY <2>2, <2>4
  <2>5. CASE j # i
    BY <2>1, <2>5, DueRow
  <2> QED
    BY <2>4, <2>5
<1>3. \A v \in Workers \ {w} :
          Holds(v)' => /\ Holds(v)
                       /\ worker'[v].item = worker[v].item
                       /\ item'[worker[v].item] = item[worker[v].item]
  BY <1>1, <1>2, RowTypes DEF Holds, Settled
<1>4. \A j \in Items : item'[j].status = "claimed" =>
          /\ item'[j] = item[j]
          /\ item[j].claim # w \/ ~item[j].live \/ ~AtWork(j)
  BY <1>1, <1>2 DEF Settled, AtWork
<1>5. \A j \in Items : item'[j].status = "claimed" /\ AtWork(j) => AtWork(j)' \/ ~item[j].live
  BY <1>1, <1>4 DEF AtWork, ClaimsOK
<1>6. ClaimsOK'
  BY <1>4 DEF ClaimsOK
<1>7. AttemptsOK'
  BY <1>1, <1>2, <1>3, <1>4, <1>5, RowTypes, DueAssumption DEF AttemptsOK, Settled
<1>8. DatesOK'
  <2>1. i \in Days => i <= today
    BY <1>1 DEF DatesOK
  <2>2. item[today].status \in Settled => item'[today].status \in Settled
    BY <1>1, <1>2, RowTypes DEF TypeOK, Settled
  <2>3. i = today => item'[today].status \in Settled
    BY DEF SettledWith
  <2>4. \A j \in Days :
          \/ item'[j] = item[j]
          \/ j = i /\ j <= today /\ item'[j].status \in Settled /\ item'[j].done = today
          \/ j = i + 1 /\ i \in Days /\ item'[j].status = "pending"
    BY <1>2, <2>1, RowTypes
  <2>5. \A j \in Days : j = i + 1 /\ i \in Days => j <= today \/ (j = today + 1 /\ i = today)
    <3>1. today \in Nat /\ Days \subseteq Nat
      BY RowTypes
    <3>2. \A k \in Days : k <= today => k + 1 <= today \/ k = today
      BY <3>1
    <3> QED
      BY <2>1, <3>2
  <2>6. \A j \in Days :
          \/ item'[j] = item[j]
          \/ item'[j].status = "pending" /\ j <= today
          \/ item'[j].status \in Settled /\ item'[j].done = today /\ j <= today
          \/ item'[j].status = "pending" /\ j = today + 1 /\ item'[today].status \in Settled
    BY <2>3, <2>4, <2>5
  <2> QED
    BY <2>2, <2>6, DatesKept
<1>9. ClaimsInTime'
  BY <1>1, <1>2, <1>3, <1>4, RowTypes DEF ClaimsInTime, Claimed, Daily
<1>10. EffectOK'
  BY <1>1 DEF EffectOK
<1> QED
  BY <1>6, <1>7, <1>8, <1>9, <1>10

\* The settled item is not the head, or hands over to the next day's.
LEMMA HeadMovesOn ==
  ASSUME IInv, NEW i \in Items, item[i].status = "claimed", NEW status \in Settled,
         settleWithNext(i, status), chain' = chain
  PROVE  HeadIsOpen'
<1> USE DEF IInv
<1>1. SUFFICES ASSUME chain = "going"
               PROVE  \E k \in Days : /\ item'[k].status \in Open
                                      /\ \A j \in Days : j > k => item'[j].status = "none"
  BY DEF HeadIsOpen
<1>2. PICK h \in Days : item[h].status \in Open /\ \A j \in Days : j > h => item[j].status = "none"
  BY <1>1 DEF HeadIsOpen
<1>3. /\ SettledWith(i, status)
      /\ i \in Days => i + 1 \in Days /\ item'[i + 1].status # "none"
  BY SettleWithNextItems
<1>4. CASE i = h
  <2>1. i \in Days /\ i + 1 \in Days /\ i + 1 > i /\ item[i + 1].status = "none"
    BY <1>2, <1>3, <1>4, RowTypes
  <2>2. item'[i + 1].status \in Open
    BY <1>3, <2>1, DueRow, RowTypes DEF SettledWith, Open
  <2>3. \A j \in Days : j > i + 1 => item'[j].status = "none"
    BY <1>2, <1>3, <1>4, <2>1, RowTypes DEF SettledWith
  <2> QED
    BY <2>1, <2>2, <2>3
<1>5. CASE i # h
  <2>1. item'[h] = item[h]
    BY <1>2, <1>3, <1>5, RowTypes DEF SettledWith, Open
  <2>2. i \in Days => i < h
    BY <1>2, <1>5, RowTypes
  <2>3. \A j \in Days : j > h => item'[j].status = "none"
    BY <1>2, <1>3, <2>2, RowTypes DEF SettledWith
  <2> QED
    BY <1>2, <2>1, <2>3
<1> QED
  BY <1>4, <1>5

\* Settling an item as suppressed keeps the invariant.
LEMMA SettleSuppressedStep ==
  ASSUME IInv, NEW w \in Workers, settleSuppressed(w)
  PROVE  IInv'
<1> DEFINE i == worker[w].item
<1> USE DEF settleSuppressed
<1>1. /\ i \in Items /\ Holds(w) /\ item[i].status = "claimed" /\ worker[w].pc # "idle"
      /\ "suppressed" \in Settled
  BY RowTypes DEF IInv, Holds, Settled
<1>2. SettledWith(i, "suppressed")
  BY <1>1, SettleItems, SettleWithNextItems DEF IInv
<1>3. TypeOK'
  BY <1>2, StopTypes DEF IInv, TypeOK, SettledWith, world, recall
<1>4. AttemptsOK' /\ ClaimsOK' /\ DatesOK' /\ ClaimsInTime' /\ EffectOK'
  BY <1>1, <1>2, SettlementKeeps DEF world, recall
<1>5. HeadIsOpen'
  <2>1. CASE worker[w].pc = "skip"
    BY <1>1, <2>1, HeadMovesOn
  <2>2. CASE worker[w].pc = "inactive" /\ Daily(i)
    BY <2>2 DEF HeadIsOpen
  <2>3. CASE worker[w].pc = "inactive" /\ ~Daily(i)
    <3>1. \A j \in Days : item'[j] = item[j]
      BY <1>1, <2>3, SettleItems, RowTypes DEF IInv
    <3> QED
      BY <2>3, <3>1 DEF HeadIsOpen, IInv
  <2> QED
    BY <2>1, <2>2, <2>3
<1>6. RecallSentOnce' /\ RunTellsOutcome' /\ DeliveredInTime'
  BY <1>1, <1>2, DueRow, RowTypes DEF SettledWith, RecallSentOnce, RunTellsOutcome,
     DeliveredInTime, IInv, world, recall
<1> QED
  BY <1>3, <1>4, <1>5, <1>6 DEF IInv

\* Settling an item as delivered keeps the invariant.
LEMMA SettleDeliveredStep ==
  ASSUME IInv, NEW w \in Workers, settleDelivered(w)
  PROVE  IInv'
<1> DEFINE i == worker[w].item
<1> USE DEF settleDelivered
<1>1. /\ i \in Items /\ Holds(w) /\ item[i].status = "claimed" /\ item[i].live
      /\ worker[w].pc # "idle" /\ "delivered" \in Settled
  BY RowTypes DEF IInv, Holds, Settled
<1>2. SettledWith(i, "delivered")
  BY <1>1, SettleWithNextItems DEF IInv
<1>3. TypeOK'
  BY <1>2, StopTypes, RowTypes DEF IInv, TypeOK, SettledWith, world, recall
<1>4. AttemptsOK' /\ ClaimsOK' /\ DatesOK' /\ ClaimsInTime' /\ EffectOK'
  BY <1>1, <1>2, SettlementKeeps DEF world, recall
<1>5. HeadIsOpen'
  BY <1>1, HeadMovesOn
<1>6. RecallSentOnce'
  BY <1>1, <1>2, DueRow, RowTypes DEF SettledWith, RecallSentOnce, EffectOK, IInv, recall
<1>7. RunTellsOutcome'
  BY <1>1, <1>2, DueRow, RowTypes DEF SettledWith, RunTellsOutcome, IInv, TypeOK
<1>8. DeliveredInTime'
  <2>1. i \in Days => item[i].since <= i /\ today <= i + 1
    BY <1>1, RowTypes DEF IInv, ClaimsInTime, Claimed
  <2> QED
    BY <1>2, <2>1, DueRow, RowTypes DEF SettledWith, DeliveredInTime, IInv, world
<1> QED
  BY <1>3, <1>4, <1>5, <1>6, <1>7, <1>8 DEF IInv

\* A failed attempt, retried or given up, keeps the invariant.
LEMMA SettleFailedStep ==
  ASSUME IInv, NEW w \in Workers, settleFailed(w)
  PROVE  IInv'
<1> DEFINE i == worker[w].item
<1>0. /\ worker[w].pc = "failed" /\ Holds(w) /\ Stop(w)
      /\ UNCHANGED <<today, owned, effect, sent, latest, faults>>
      /\ chain' = IF Exhausted(w) /\ Daily(i) THEN "ended" ELSE chain
  BY DEF settleFailed, world, recall
<1>1. /\ i \in Items /\ Holds(w) /\ item[i].status = "claimed" /\ worker[w].pc # "idle"
      /\ item[i].claim = w /\ "dead_letter" \in Settled
  BY <1>0, RowTypes DEF IInv, Holds, Settled
<1>r. /\ run' \in [Items -> {"none", "started", "retry", "delivered", "dead_letter"}]
      /\ run[i] # "delivered" /\ run'[i] # "delivered"
      /\ \A j \in Items \ {i} : run'[j] = run[j]
  BY <1>1 DEF settleFailed, IInv, TypeOK, RunTellsOutcome
<1>2. CASE Exhausted(w)
  <2>1. SettledWith(i, "dead_letter")
    BY <1>1, <1>2, SettleItems DEF settleFailed, IInv
  <2>2. TypeOK'
    BY <1>0, <1>r, <2>1, StopTypes DEF IInv, TypeOK, SettledWith
  <2>3. AttemptsOK' /\ ClaimsOK' /\ DatesOK' /\ ClaimsInTime' /\ EffectOK'
    BY <1>0, <1>1, <2>1, SettlementKeeps
  <2>4. HeadIsOpen'
    <3>1. CASE Daily(i)
      BY <1>0, <1>2, <3>1 DEF HeadIsOpen
    <3>2. CASE ~Daily(i)
      <4>1. \A j \in Days : item'[j] = item[j]
        BY <1>1, <1>2, <3>2, SettleItems, RowTypes DEF settleFailed, IInv
      <4> QED
        BY <1>0, <3>2, <4>1 DEF HeadIsOpen, IInv
    <3> QED
      BY <3>1, <3>2
  <2>5. RecallSentOnce' /\ RunTellsOutcome' /\ DeliveredInTime'
    <3>1. \A j \in Items \ {i} : item'[j] = item[j]
      BY <1>1, <1>2, SettleItems DEF settleFailed, IInv
    <3> QED
      BY <1>0, <1>1, <1>r, <2>1, <3>1, RowTypes DEF SettledWith, RecallSentOnce,
         RunTellsOutcome, DeliveredInTime, IInv
  <2> QED
    BY <2>2, <2>3, <2>4, <2>5 DEF IInv
<1>3. CASE ~Exhausted(w)
  <2>1. /\ item' \in [Items -> ItemRows]
        /\ item'[i].status = "retry" /\ item'[i].attempts = item[i].attempts
        /\ item'[i].live = FALSE
        /\ \A j \in Items \ {i} : item'[j] = item[j]
    <3>1. item' = [item EXCEPT ![i] = [item[i] EXCEPT !.status = "retry", !.claim = None,
                                                      !.live = FALSE]]
      BY <1>1, <1>3 DEF settleFailed, IInv, TypeOK
    <3>2. item[i] \in ItemRows /\ "retry" \in Open
      BY <1>1, RowTypes DEF IInv, Open
    <3>3. /\ [item[i] EXCEPT !.status = "retry", !.claim = None, !.live = FALSE] \in ItemRows
          /\ item'[i].status = "retry" /\ item'[i].attempts = item[i].attempts
          /\ item'[i].live = FALSE
      BY <1>1, <3>1, <3>2 DEF ItemRows, IInv, TypeOK
    <3> QED
      BY <1>1, <3>1, <3>3 DEF IInv, TypeOK
  <2>2. TypeOK'
    BY <1>0, <1>r, <1>3, <2>1, StopTypes DEF IInv, TypeOK
  <2>3. item[i].attempts < MaxAttempts
    BY <1>1, <1>3, RowTypes, DueAssumption DEF Exhausted, IInv, AttemptsOK
  <2>4. /\ worker'[w].pc = "idle"
        /\ \A v \in Workers \ {w} : worker'[v] = worker[v]
    BY <1>0, StopTypes DEF IInv
  <2>5. \A v \in Workers \ {w} : Holds(v)' => Holds(v) /\ worker[v].item # i
    BY <1>1, <2>1, <2>4, RowTypes DEF Holds, IInv
  <2>6. \A j \in Items \ {i} : item[j].status = "claimed" /\ AtWork(j) => AtWork(j)'
    BY <1>1, <2>1, <2>4, RowTypes DEF AtWork, IInv, ClaimsOK
  <2>7. AttemptsOK'
    BY <1>0, <2>1, <2>3, <2>4, <2>5, <2>6, RowTypes, DueAssumption DEF IInv, AttemptsOK
  <2>8. ClaimsOK' /\ EffectOK'
    BY <1>0, <2>1, <2>4 DEF IInv, ClaimsOK, EffectOK
  <2>9. DatesOK'
    <3>1. \A j \in Items : item'[j] = item[j] \/ (j = i /\ item'[j].status = "retry")
      BY <2>1
    <3>2. i \in Days => i <= today
      BY <1>1 DEF IInv, DatesOK
    <3>3. item[today].status \in Settled => item'[today] = item[today]
      BY <1>1, <2>1, RowTypes DEF IInv, TypeOK, Settled
    <3> QED
      BY <1>0, <3>1, <3>2, <3>3, RowTypes, DatesKept DEF IInv, Open
  <2>10. ClaimsInTime'
    BY <1>0, <2>1, <2>4, <2>5, RowTypes DEF IInv, ClaimsInTime, Claimed, Daily
  <2>11. HeadIsOpen'
    BY <1>0, <1>1, <1>3, <2>1, RowTypes DEF IInv, HeadIsOpen, Open
  <2>12. RecallSentOnce' /\ RunTellsOutcome' /\ DeliveredInTime'
    BY <1>0, <1>1, <1>r, <2>1, RowTypes DEF RecallSentOnce, RunTellsOutcome, DeliveredInTime, IInv
  <2> QED
    BY <2>2, <2>7, <2>8, <2>9, <2>10, <2>11, <2>12 DEF IInv
<1> QED
  BY <1>2, <1>3

-----------------------------------------------------------------------------
(* The other steps of the items *)

\* beginDelivery keeps the invariant.
LEMMA BeginDeliveryStep ==
  ASSUME IInv, NEW w \in Workers, beginDelivery(w)
  PROVE  IInv'
<1> DEFINE i == worker[w].item
<1> USE DEF IInv
<1>0. /\ worker[w].pc = "begin" /\ Holds(w)
      /\ run' = [run EXCEPT ![i] = IF @ = "delivered" THEN @ ELSE "started"]
      /\ worker' = [worker EXCEPT ![w].pc = "deliver", ![w].began = TRUE]
      /\ UNCHANGED <<today, owned, item, effect, sent, latest, chain, faults>>
  BY DEF beginDelivery, world, recall
<1>1. /\ i \in Items /\ item[i].status = "claimed"
      /\ run[i] # "delivered"
  BY <1>0, RowTypes DEF Holds, RunTellsOutcome
<1>2. /\ worker' \in [Workers -> WorkerRows]
      /\ worker'[w].pc = "deliver"
      /\ \A v \in Workers : worker'[v].item = worker[v].item /\ worker'[v].attempt = worker[v].attempt
      /\ \A v \in Workers \ {w} : worker'[v] = worker[v]
  BY <1>0, RowTypes DEF TypeOK, WorkerRows
<1>3. TypeOK'
  BY <1>0, <1>1, <1>2 DEF TypeOK
<1>4. \A v \in Workers : Holds(v)' <=> Holds(v)
  BY <1>0, <1>2 DEF Holds
<1>5. \A j \in Items : item[j].status = "claimed" => (AtWork(j)' <=> AtWork(j))
  BY <1>0, <1>2 DEF AtWork, ClaimsOK
<1>6. AttemptsOK'
  BY <1>0, <1>2, <1>4, <1>5 DEF AttemptsOK
<1>7. ClaimsInTime'
  BY <1>0, <1>2, <1>4 DEF ClaimsInTime, Claimed, Daily
<1>8. EffectOK' /\ RecallSentOnce'
  BY <1>0, <1>2 DEF EffectOK, RecallSentOnce
<1>9. RunTellsOutcome'
  BY <1>0, <1>1 DEF RunTellsOutcome, TypeOK
<1>10. ClaimsOK' /\ DatesOK' /\ HeadIsOpen' /\ DeliveredInTime'
  BY <1>0 DEF ClaimsOK, DatesOK, HeadIsOpen, DeliveredInTime
<1> QED
  BY <1>3, <1>6, <1>7, <1>8, <1>9, <1>10

\* Claiming an item, fresh or left by a lapsed lease, keeps the invariant.
LEMMA ClaimBatchStep ==
  ASSUME IInv, NEW w \in Workers, NEW i \in Items, claimBatch(w, i)
  PROVE  IInv'
<1> USE DEF IInv
<1>0. /\ worker[w].pc = "idle" /\ Claimable(i)
      /\ item' = [item EXCEPT ![i] = [item[i] EXCEPT
                     !.status = "claimed", !.attempts = item[i].attempts + 1,
                     !.claim = w, !.live = TRUE, !.since = today]]
      /\ worker' = [worker EXCEPT ![w] = [pc |-> "evaluate", item |-> i,
                        attempt |-> item[i].attempts + 1, began |-> FALSE]]
      /\ UNCHANGED <<today, owned, run, effect, sent, latest, chain, faults>>
  BY DEF claimBatch, world, recall, TypeOK
<1>1. /\ item[i].status \in Open
      /\ item[i].attempts < MaxAttempts + faults
      /\ i \in Days => i <= today
  BY <1>0, RowTypes, DueAssumption DEF Claimable, AttemptsOK, Open, DatesOK
<1>2. item[i].attempts + 1 \in 0 .. MaxAttempts + MaxFaults
  BY <1>1, RowTypes, DueAssumption DEF TypeOK
<1>3. /\ item' \in [Items -> ItemRows]
      /\ item'[i].status = "claimed" /\ item'[i].attempts = item[i].attempts + 1
      /\ item'[i].claim = w /\ item'[i].live = TRUE /\ item'[i].since = today
      /\ \A j \in Items \ {i} : item'[j] = item[j]
  <2>1. "claimed" \in Open /\ today \in Days /\ item[i] \in ItemRows
    BY RowTypes DEF Open, TypeOK
  <2> DEFINE row == [item[i] EXCEPT !.status = "claimed", !.attempts = item[i].attempts + 1,
                                    !.claim = w, !.live = TRUE, !.since = today]
  <2>2. row \in ItemRows
    BY <1>2, <2>1 DEF ItemRows
  <2>3. /\ row.status = "claimed" /\ row.attempts = item[i].attempts + 1
        /\ row.claim = w /\ row.live = TRUE /\ row.since = today
    BY <2>1 DEF ItemRows
  <2>4. item' = [item EXCEPT ![i] = row]
    BY <1>0
  <2> HIDE DEF row
  <2> QED
    BY <2>2, <2>3, <2>4 DEF TypeOK
<1>4. /\ worker' \in [Workers -> WorkerRows]
      /\ worker'[w].pc = "evaluate" /\ worker'[w].item = i
      /\ worker'[w].attempt = item[i].attempts + 1
      /\ \A v \in Workers \ {w} : worker'[v] = worker[v]
  BY <1>0, RowTypes, DueAssumption DEF TypeOK, WorkerRows
<1>5. TypeOK'
  BY <1>0, <1>3, <1>4 DEF TypeOK
<1>6. \A v \in Workers \ {w} : Holds(v)' => Holds(v) /\ worker[v].item # i
  BY <1>3, <1>4, RowTypes DEF Holds
<1>7. \A j \in Items \ {i} : item[j].status = "claimed" => (AtWork(j) => AtWork(j)')
  BY <1>0, <1>3, <1>4 DEF AtWork, ClaimsOK
<1>8. AtWork(i)'
  BY <1>3, <1>4 DEF AtWork
<1>9. AttemptsOK'
  <2>1. ASSUME NEW j \in Items
        PROVE  /\ item'[j].status \in {"none", "pending", "retry"} => item'[j].attempts < MaxAttempts
               /\ item'[j].status = "claimed" =>
                     /\ item'[j].attempts <= MaxAttempts + faults
                     /\ ~item'[j].live => item'[j].attempts < MaxAttempts + faults
                     /\ ~AtWork(j)' => item'[j].attempts < MaxAttempts + faults
    <3>1. CASE j = i
      BY <1>1, <1>3, <1>8, <3>1, RowTypes, DueAssumption
    <3>2. CASE j # i
      BY <1>3, <1>7, <3>2 DEF AttemptsOK
    <3> QED
      BY <3>1, <3>2
  <2>2. \A v \in Workers : worker'[v].pc # "idle" /\ Holds(v)' =>
                              worker'[v].attempt = item'[worker'[v].item].attempts
    BY <1>3, <1>4, <1>6, RowTypes DEF AttemptsOK
  <2> QED
    BY <1>0, <2>1, <2>2 DEF AttemptsOK
<1>10. ClaimsOK'
  BY <1>3 DEF ClaimsOK
<1>11. DatesOK'
  <2>1. item[today].status \in Settled => item'[today] = item[today]
    BY <1>1, <1>3, RowTypes DEF TypeOK, Settled, Open
  <2>2. \A j \in Days : item'[j] = item[j] \/ (j <= today /\ item'[j].status = "claimed")
    BY <1>1, <1>3, RowTypes
  <2> QED
    BY <1>0, <2>1, <2>2, DatesKept DEF Open
<1>12. ClaimsInTime'
  BY <1>0, <1>3, <1>4, <1>6, RowTypes DEF ClaimsInTime, Claimed, Daily
<1>13. HeadIsOpen'
  BY <1>0, <1>1, <1>3, RowTypes DEF HeadIsOpen, Open
<1>14. EffectOK' /\ RecallSentOnce' /\ RunTellsOutcome' /\ DeliveredInTime'
  BY <1>0, <1>1, <1>3, <1>4, RowTypes DEF EffectOK, RecallSentOnce, RunTellsOutcome,
     DeliveredInTime, Open
<1> QED
  BY <1>5, <1>9, <1>10, <1>11, <1>12, <1>13, <1>14

\* Enqueueing touches an item that nobody claims; HeadIsOpen depends on which.
LEMMA Enqueued ==
  ASSUME IInv, NEW i \in Items, item[i].status = "none", item' = [item EXCEPT ![i] = Due],
         UNCHANGED <<today, run, worker, effect, sent, faults>>,
         i \in Days => i = today
  PROVE  /\ item' \in [Items -> ItemRows] /\ item'[i].status = "pending"
         /\ \A j \in Items \ {i} : item'[j] = item[j]
         /\ AttemptsOK' /\ ClaimsOK' /\ DatesOK' /\ ClaimsInTime' /\ EffectOK'
         /\ RecallSentOnce' /\ RunTellsOutcome' /\ DeliveredInTime'
<1> USE DEF IInv
<1>1. /\ item' \in [Items -> ItemRows]
      /\ item'[i].status = "pending" /\ item'[i].attempts = 0
      /\ \A j \in Items \ {i} : item'[j] = item[j]
  BY DueRow DEF TypeOK
<1>2. \A v \in Workers : Holds(v)' => Holds(v) /\ worker[v].item # i
  BY <1>1, RowTypes DEF Holds
<1>3. \A j \in Items \ {i} : item[j].status = "claimed" => (AtWork(j)' <=> AtWork(j))
  BY <1>1 DEF AtWork
<1>4. AttemptsOK'
  BY <1>1, <1>2, <1>3, RowTypes, DueAssumption DEF AttemptsOK
<1>5. ClaimsOK' /\ EffectOK'
  BY <1>1 DEF ClaimsOK, EffectOK
<1>6. DatesOK'
  <2>1. item[today].status \in Settled => item'[today] = item[today]
    BY <1>1, RowTypes DEF TypeOK, Settled
  <2>2. \A j \in Days : item'[j] = item[j] \/ (j <= today /\ item'[j].status = "pending")
    BY <1>1, RowTypes
  <2> QED
    BY <2>1, <2>2, DatesKept
<1>7. ClaimsInTime'
  BY <1>1, <1>2 DEF ClaimsInTime, Claimed, Daily
<1>8. RecallSentOnce' /\ RunTellsOutcome' /\ DeliveredInTime'
  BY <1>1, RowTypes DEF RecallSentOnce, RunTellsOutcome, DeliveredInTime
<1> QED
  BY <1>1, <1>4, <1>5, <1>6, <1>7, <1>8

\* ensureDailyRecommendationDue keeps the invariant.
LEMMA EnsureStep ==
  ASSUME IInv, ensureDailyRecommendationDue
  PROVE  IInv'
<1> USE DEF ensureDailyRecommendationDue, IInv
<1>1. today \in Items /\ today \in Days
  BY RowTypes DEF TypeOK
<1>2. /\ item' \in [Items -> ItemRows] /\ item'[today].status = "pending"
      /\ \A j \in Items \ {today} : item'[j] = item[j]
      /\ AttemptsOK' /\ ClaimsOK' /\ DatesOK' /\ ClaimsInTime' /\ EffectOK'
      /\ RecallSentOnce' /\ RunTellsOutcome' /\ DeliveredInTime'
  BY <1>1, Enqueued DEF world, recall
<1>3. TypeOK'
  BY <1>2 DEF TypeOK, world, recall
<1>4. \A j \in Days : j > today => item[j].status = "none"
  BY RowTypes DEF DatesOK, Settled
<1>5. HeadIsOpen'
  BY <1>1, <1>2, <1>4, RowTypes DEF HeadIsOpen, Open
<1> QED
  BY <1>2, <1>3, <1>5

\* Producing a recall keeps the invariant.
LEMMA ProduceStep ==
  ASSUME IInv, produce
  PROVE  IInv'
<1> USE DEF produce, IInv
<1>1. Recall \in Items /\ Recall \notin Days
  BY RowTypes
<1>2. /\ item' \in [Items -> ItemRows]
      /\ \A j \in Items \ {Recall} : item'[j] = item[j]
      /\ AttemptsOK' /\ ClaimsOK' /\ DatesOK' /\ ClaimsInTime' /\ EffectOK'
      /\ RecallSentOnce' /\ RunTellsOutcome' /\ DeliveredInTime'
  BY <1>1, Enqueued DEF world, recall
<1>3. TypeOK'
  BY <1>2 DEF TypeOK, world, recall
<1>4. HeadIsOpen'
  BY <1>1, <1>2, RowTypes DEF HeadIsOpen
<1> QED
  BY <1>2, <1>3, <1>4

\* Today's item, settled today, is kept for a day at least.
LEMMA PurgeStep ==
  ASSUME IInv, NEW i \in Items, purgeExpired(i)
  PROVE  IInv'
<1> USE DEF purgeExpired, IInv
<1>1. /\ item' \in [Items -> ItemRows]
      /\ item'[i].status = "none" /\ item'[i].attempts = 0
      /\ \A j \in Items \ {i} : item'[j] = item[j]
  <2>1. NoItem \in ItemRows
    <3>1. 0 \in 0 .. MaxAttempts + MaxFaults /\ 0 \in Days
      BY DueAssumption DEF Days
    <3> QED
      BY <3>1 DEF NoItem, ItemRows
  <2>2. NoItem.status = "none" /\ NoItem.attempts = 0
    BY DEF NoItem
  <2> QED
    BY <2>1, <2>2 DEF TypeOK
<1>2. TypeOK'
  BY <1>1 DEF TypeOK, world, recall
<1>3. \A v \in Workers : Holds(v)' => Holds(v) /\ worker[v].item # i
  BY <1>1, RowTypes DEF Holds
<1>4. \A j \in Items \ {i} : item[j].status = "claimed" => (AtWork(j)' <=> AtWork(j))
  BY <1>1 DEF AtWork
<1>5. AttemptsOK'
  BY <1>1, <1>3, <1>4, RowTypes, DueAssumption DEF AttemptsOK
<1>6. ClaimsOK' /\ EffectOK'
  BY <1>1 DEF ClaimsOK, EffectOK, recall
<1>7. DatesOK'
  <2>1. i \in Days => i <= today /\ i <= item[i].done
    BY DEF DatesOK, Settled
  <2>2. i # today
    <3>1. item[i].done \in Nat /\ today \in Nat /\ today \in Days
      BY RowTypes DEF TypeOK
    <3> QED
      BY <2>1, <3>1, DueAssumption
  <2>3. item'[today] = item[today]
    BY <1>1, <2>2, RowTypes DEF TypeOK
  <2>4. \A j \in Days : item'[j] = item[j] \/ (item'[j].status = "none" /\ j <= today)
    BY <1>1, <2>1, RowTypes
  <2> QED
    BY <2>3, <2>4, DatesKept DEF world
<1>8. ClaimsInTime'
  BY <1>1, <1>3 DEF ClaimsInTime, Claimed, Daily, world
<1>9. HeadIsOpen'
  BY <1>1, RowTypes DEF HeadIsOpen, Open, Settled
<1>10. RecallSentOnce' /\ RunTellsOutcome' /\ DeliveredInTime'
  BY <1>1, RowTypes DEF RecallSentOnce, RunTellsOutcome, DeliveredInTime, recall, TypeOK
<1> QED
  BY <1>2, <1>5, <1>6, <1>7, <1>8, <1>9, <1>10

\* The end of a lease keeps the invariant.
LEMMA LeaseExpiresStep ==
  ASSUME IInv, NEW i \in Items, leaseExpires(i)
  PROVE  IInv'
<1> USE DEF IInv
<1>0. /\ item[i].status = "claimed" /\ item[i].live
      /\ item' = [item EXCEPT ![i] = [item[i] EXCEPT !.live = FALSE]]
      /\ faults' \in 0 .. MaxFaults /\ faults <= faults'
      /\ faults < faults' \/ ~AtWork(i)
      /\ UNCHANGED <<today, owned, run, worker, effect, sent, latest, chain>>
  BY DueAssumption DEF leaseExpires, Claimed, Fault, world, recall, TypeOK
<1>1. /\ item' \in [Items -> ItemRows]
      /\ item'[i].status = "claimed" /\ item'[i].attempts = item[i].attempts
      /\ item'[i].claim = item[i].claim /\ item'[i].live = FALSE
      /\ \A j \in Items \ {i} : item'[j] = item[j]
  BY <1>0, RowTypes DEF TypeOK, ItemRows
<1>2. TypeOK'
  BY <1>0, <1>1 DEF TypeOK
<1>3. \A v \in Workers : Holds(v)' => Holds(v) /\ worker[v].item # i
  BY <1>0, <1>1, RowTypes DEF Holds
<1>4. \A j \in Items : item[j].status = "claimed" => (AtWork(j)' <=> AtWork(j))
  BY <1>0, <1>1 DEF AtWork
<1>5. AttemptsOK'
  BY <1>0, <1>1, <1>3, <1>4, RowTypes, DueAssumption DEF AttemptsOK
<1>6. ClaimsOK' /\ EffectOK'
  BY <1>0, <1>1 DEF ClaimsOK, EffectOK
<1>7. DatesOK'
  <2>1. \A j \in Days : item'[j] = item[j] \/ (j = i /\ item'[j].status = "claimed")
    BY <1>1, RowTypes
  <2>2. item[today].status \in Settled => item'[today] = item[today]
    BY <1>0, <1>1, RowTypes DEF TypeOK, Settled
  <2>3. i \in Days => i <= today
    BY <1>0 DEF DatesOK
  <2> QED
    BY <1>0, <2>1, <2>2, <2>3, DatesKept DEF Open
<1>8. ClaimsInTime'
  BY <1>0, <1>1, <1>3 DEF ClaimsInTime, Claimed, Daily
<1>9. HeadIsOpen'
  BY <1>0, <1>1, RowTypes DEF HeadIsOpen, Open
<1>10. RecallSentOnce' /\ RunTellsOutcome' /\ DeliveredInTime'
  BY <1>0, <1>1, RowTypes DEF RecallSentOnce, RunTellsOutcome, DeliveredInTime
<1> QED
  BY <1>2, <1>5, <1>6, <1>7, <1>8, <1>9, <1>10

\* Midnight keeps the invariant: no claim outlives two of them.
LEMMA DayPassesStep ==
  ASSUME IInv, dayPasses
  PROVE  IInv'
<1> USE DEF dayPasses, IInv
<1>1. today' = today + 1 /\ today < MaxDay - 1 /\ today' \in Days
  BY RowTypes DEF Days
<1>2. TypeOK'
  BY <1>1 DEF TypeOK, recall
<1>3. AttemptsOK' /\ ClaimsOK' /\ EffectOK' /\ HeadIsOpen'
  BY DEF AttemptsOK, ClaimsOK, EffectOK, HeadIsOpen, Holds, AtWork, recall
<1>4. DatesOK'
  BY <1>1, RowTypes DEF DatesOK
<1>5. ClaimsInTime'
  BY <1>1, RowTypes DEF ClaimsInTime, Claimed, Daily, Holds
<1>6. RecallSentOnce' /\ RunTellsOutcome' /\ DeliveredInTime'
  BY DEF RecallSentOnce, RunTellsOutcome, DeliveredInTime, recall
<1> QED
  BY <1>2, <1>3, <1>4, <1>5, <1>6

\* The owner leaves or comes back, or nothing happens.
LEMMA BystanderStep ==
  ASSUME IInv, membershipChanges \/ UNCHANGED vars
  PROVE  IInv'
<1> USE DEF IInv
<1>1. UNCHANGED <<today, item, run, worker, effect, sent, latest, chain>>
  BY DEF membershipChanges, vars, recall
<1>2. owned' \in BOOLEAN /\ faults' \in 0 .. MaxFaults /\ faults <= faults'
  <2>1. owned' \in BOOLEAN
    BY Zenon DEF membershipChanges, vars, TypeOK
  <2>2. faults' \in 0 .. MaxFaults /\ faults <= faults'
    BY DueAssumption DEF membershipChanges, vars, Fault, TypeOK
  <2> QED
    BY <2>1, <2>2
<1>3. TypeOK'
  BY <1>1, <1>2 DEF TypeOK
<1>4. ItemParts'
  BY <1>1, ItemsStay
<1>5. AttemptsOK'
  BY <1>1, <1>2, RowTypes, DueAssumption DEF AttemptsOK, AtWork, Holds
<1>6. ClaimsInTime' /\ EffectOK' /\ RecallSentOnce'
  BY <1>1 DEF ClaimsInTime, Claimed, Daily, Holds, EffectOK, RecallSentOnce
<1> QED
  BY <1>3, <1>4, <1>5, <1>6 DEF ItemParts

-----------------------------------------------------------------------------
(* The theorems *)

\* Every step keeps the invariant.
LEMMA StepKeepsIInv == IInv /\ [Next]_vars => IInv'
<1> SUFFICES ASSUME IInv, [Next]_vars PROVE IInv'
  OBVIOUS
<1>1. CASE ensureDailyRecommendationDue \/ produce
  BY <1>1, EnsureStep, ProduceStep
<1>2. ASSUME NEW w \in Workers, NEW i \in Items, claimBatch(w, i) PROVE IInv'
  BY <1>2, ClaimBatchStep
<1>3. ASSUME NEW w \in Workers, Step(w) PROVE IInv'
  BY <1>3, EvaluateStep, LostStep, SettleSuppressedStep, BeginDeliveryStep, DeliverDailyStep,
     SettleDeliveredStep, SettleFailedStep, ClaimEffectStep, NotifyStep, MarkSentStep DEF Step
<1>4. ASSUME NEW w \in Workers, settlementThrows(w) \/ crash(w) PROVE IInv'
  BY <1>4, SettlementThrowsStep, CrashStep
<1>5. ASSUME NEW i \in Items, purgeExpired(i) \/ leaseExpires(i) PROVE IInv'
  BY <1>5, PurgeStep, LeaseExpiresStep
<1>6. CASE dayPasses
  BY <1>6, DayPassesStep
<1>7. CASE membershipChanges \/ UNCHANGED vars
  BY <1>7, BystanderStep
<1> QED
  BY <1>1, <1>2, <1>3, <1>4, <1>5, <1>6, <1>7 DEF Next

\* The inductive invariant holds: the three facts about Init, Next and the parts.
THEOREM DueInvariant == Spec => []IInv
BY InitInv, StepKeepsIInv, PTL DEF Spec

\* Due items, runs, workers and effects have their types; in particular no item is
\* claimed more often than its attempts and the faults there were (claimBatch).
THEOREM DueTypeCorrect == Spec => []TypeOK
<1>1. IInv => TypeOK
  BY DEF IInv
<1> QED
  BY <1>1, DueInvariant, PTL

\* The merchant gets one message per recall, and a delivered recall has been sent
\* (PostgresIdempotentProductNotifier under the due-delivery worker).
THEOREM RecallIsSentOnce == Spec => []RecallSentOnce
<1>1. IInv => RecallSentOnce
  BY DEF IInv
<1> QED
  BY <1>1, DueInvariant, PTL

\* A run counts as delivered just when its item does (settleDelivered, purgeExpired).
THEOREM RunsTellOutcomes == Spec => []RunTellsOutcome
<1>1. IInv => RunTellsOutcome
  BY DEF IInv
<1> QED
  BY <1>1, DueInvariant, PTL

\* No recommendation is delivered that was out of date when it was claimed, nor
\* later than the day after its own (isStaleDailyRecommendation under the lease).
THEOREM RecommendationsInTime == Spec => []DeliveredInTime
<1>1. IInv => DeliveredInTime
  BY DEF IInv
<1> QED
  BY <1>1, DueInvariant, PTL

\* The chain of daily items goes on until a dead letter or a missing owner ends it,
\* whatever is delivered late, skipped or purged (settleWithNext).
THEOREM ChainIsUnbroken == Spec => []ChainGoesOn
<1>1. IInv => ChainGoesOn
  BY DEF IInv, HeadIsOpen, ChainGoesOn
<1> QED
  BY <1>1, DueInvariant, PTL

\* A settled item is neither reopened nor settled anew: it stays as it is until the
\* purge removes it (the claim that every settlement asks for first).
THEOREM SettlementsAreFinal == Spec => SettledIsFinal
<1> DEFINE Final == \A i \in Items : item[i].status \in Settled =>
                       item'[i] = item[i] \/ item'[i].status = "none"
<1>1. IInv /\ [Next]_vars => [Final]_vars
  <2> SUFFICES ASSUME IInv, Next PROVE Final
    OBVIOUS
  <2>0. "claimed" \notin Settled /\ "none" \notin Settled /\ TypeOK
    BY DEF Settled, IInv
  <2>1. ASSUME NEW w \in Workers, NEW status \in Settled, Holds(w),
               SettledWith(worker[w].item, status)
        PROVE  Final
    BY <2>0, <2>1 DEF Holds, SettledWith
  <2>2. UNCHANGED item => Final
    OBVIOUS
  <2>3. CASE ensureDailyRecommendationDue \/ produce
    BY <2>0, <2>3, RowTypes DEF ensureDailyRecommendationDue, produce, TypeOK
  <2>4. ASSUME NEW w \in Workers, NEW i \in Items, claimBatch(w, i) PROVE Final
    BY <2>4 DEF claimBatch, Claimable, Settled, TypeOK, IInv
  <2>5. ASSUME NEW w \in Workers, settleSuppressed(w) \/ settleDelivered(w) PROVE Final
    <3>1. /\ Holds(w) /\ worker[w].item \in Items /\ item[worker[w].item].status = "claimed"
          /\ "suppressed" \in Settled /\ "delivered" \in Settled
      BY <2>0, <2>5, RowTypes DEF settleSuppressed, settleDelivered, Holds, Settled
    <3>2. \/ SettledWith(worker[w].item, "suppressed")
          \/ SettledWith(worker[w].item, "delivered")
      BY <2>0, <2>5, <3>1, SettleItems, SettleWithNextItems DEF settleSuppressed, settleDelivered
    <3> QED
      BY <2>1, <3>1, <3>2
  <2>6. ASSUME NEW w \in Workers, settleFailed(w) PROVE Final
    <3>1. /\ Holds(w) /\ worker[w].item \in Items /\ item[worker[w].item].status = "claimed"
          /\ "dead_letter" \in Settled
      BY <2>0, <2>6, RowTypes DEF settleFailed, Holds, Settled
    <3>2. CASE Exhausted(w)
      BY <2>0, <2>1, <2>6, <3>1, <3>2, SettleItems DEF settleFailed
    <3>3. CASE ~Exhausted(w)
      BY <2>0, <2>6, <3>1, <3>3 DEF settleFailed, TypeOK
    <3> QED
      BY <3>2, <3>3
  <2>7. ASSUME NEW w \in Workers,
               evaluate(w) \/ lost(w) \/ beginDelivery(w) \/ deliverDaily(w) \/ claimEffect(w)
                 \/ notify(w) \/ markSent(w) \/ settlementThrows(w) \/ crash(w)
        PROVE  Final
    BY <2>2, <2>7 DEF evaluate, lost, beginDelivery, deliverDaily, claimEffect, notify, markSent,
       settlementThrows, crash
  <2>8. ASSUME NEW i \in Items, purgeExpired(i) \/ leaseExpires(i) PROVE Final
    BY <2>0, <2>8 DEF purgeExpired, leaseExpires, Claimed, NoItem, TypeOK
  <2>9. CASE dayPasses \/ membershipChanges
    BY <2>2, <2>9 DEF dayPasses, membershipChanges
  <2> HIDE DEF Final
  <2> QED
    BY <2>3, <2>4, <2>5, <2>6, <2>7, <2>8, <2>9 DEF Next, Step
<1>2. Spec => [][Final]_vars
  BY <1>1, DueInvariant, PTL DEF Spec
<1> QED
  BY <1>2 DEF SettledIsFinal

=============================================================================
