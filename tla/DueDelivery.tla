---------------------------- MODULE DueDelivery -----------------------------
(***************************************************************************)
(* Due delivery of one workspace: the chain of daily recommendations, each  *)
(* of which enqueues the next day's, one task recall with its notification, *)
(* the workers that claim due items under a one-minute lease, the purge and *)
(* the dashboard that seeds today's item and reads the latest delivery.     *)
(*                                                                         *)
(* A settlement holds only for the worker whose claim is the item's and     *)
(* whose lease still runs.  Time is the business date; the lease of a       *)
(* minute may outlive one midnight but never two.                           *)
(***************************************************************************)
EXTENDS Naturals

CONSTANTS
    Workers,      \* processes that run the scanner
    None,         \* no claim
    Recall,       \* the task recall among the items
    MaxDay,       \* bound: the last business date that is enqueued
    MaxAttempts,  \* claims after which a failure is final
    Retention,    \* days a settled item is kept
    MaxFaults     \* crashes, lapses and failed calls

ASSUME DueAssumption ==
    /\ MaxDay \in Nat \ {0}
    /\ MaxAttempts \in Nat \ {0}
    /\ Retention \in Nat \ {0}
    /\ MaxFaults \in Nat
    /\ None \notin Workers \cup Nat
    /\ Recall \notin Nat

VARIABLES
    today,       \* the business date
    owned,       \* does the workspace have an owner?
    item,        \* the due items
    run,         \* the delivery run of each item
    worker,      \* what each process is doing
    effect,      \* the recall's row among the notification effects
    sent,        \* how many messages the webhook has taken
    latest,      \* the daily item that was delivered last
    chain,       \* has it ended since the dashboard last seeded it?
    faults

vars == <<today, owned, item, run, worker, effect, sent, latest, chain, faults>>

Days == 0 .. MaxDay
Items == Days \cup {Recall}
Open == {"pending", "claimed", "retry"}
Settled == {"delivered", "suppressed", "dead_letter"}

NoItem == [status |-> "none", attempts |-> 0, claim |-> None, live |-> FALSE,
           since |-> 0, done |-> 0]
Due == [NoItem EXCEPT !.status = "pending"]
Idle == [pc |-> "idle", item |-> Recall, attempt |-> 0, began |-> FALSE]

ItemRows == [status : {"none"} \cup Open \cup Settled,
             attempts : 0 .. MaxAttempts + MaxFaults,
             claim : Workers \cup {None}, live : BOOLEAN, since : Days, done : Days]
WorkerRows == [pc : {"idle", "evaluate", "inactive", "skip", "begin", "deliver",
                     "send", "mark", "settle", "failed"},
               item : Items, attempt : Nat, began : BOOLEAN]

TypeOK ==
    /\ today \in Days /\ owned \in BOOLEAN
    /\ item \in [Items -> ItemRows]
    /\ run \in [Items -> {"none", "started", "retry", "delivered", "dead_letter"}]
    /\ worker \in [Workers -> WorkerRows]
    /\ effect \in {"none", "claimed", "sent", "unknown"}
    /\ sent \in Nat
    /\ latest \in Days \cup {None}
    /\ chain \in {"none", "going", "ended"}
    /\ faults \in 0 .. MaxFaults

Init ==
    /\ today = 0 /\ owned = TRUE
    /\ item = [i \in Items |-> NoItem]
    /\ run = [i \in Items |-> "none"]
    /\ worker = [w \in Workers |-> Idle]
    /\ effect = "none" /\ sent = 0
    /\ latest = None /\ chain = "none"
    /\ faults = 0

Fault == faults < MaxFaults /\ faults' = faults + 1

Go(w, step) == worker' = [worker EXCEPT ![w].pc = step]
Stop(w) == worker' = [worker EXCEPT ![w] = Idle]

recall == <<effect, sent>>
world == <<today, owned>>

-----------------------------------------------------------------------------
(* enqueue: an item whose task is already known stays as it is *)

Daily(i) == i # Recall

\* Opening the dashboard makes sure that today's item exists.
ensureDailyRecommendationDue ==
    /\ item[today].status = "none"
    /\ item' = [item EXCEPT ![today] = Due]
    /\ chain' = "going"
    /\ UNCHANGED <<world, run, worker, recall, latest, faults>>

\* The workflow's epilogue, which may be replayed, announces the recall.
produce ==
    /\ item[Recall].status = "none"
    /\ item' = [item EXCEPT ![Recall] = Due]
    /\ UNCHANGED <<world, run, worker, recall, latest, chain, faults>>

-----------------------------------------------------------------------------
(* The worker *)

\* Mutant: the claim of a dead worker is never taken over.
ClaimableOnce(i) ==
    item[i].status \in {"pending", "retry"} /\ (Daily(i) => i <= today)

Claimable(i) ==
    \/ item[i].status \in {"pending", "retry"} /\ (Daily(i) => i <= today)
    \/ item[i].status = "claimed" /\ ~item[i].live

claimBatch(w, i) ==
    /\ worker[w].pc = "idle"
    /\ Claimable(i)
    /\ item' = [item EXCEPT ![i].status = "claimed", ![i].attempts = @ + 1,
                            ![i].claim = w, ![i].live = TRUE, ![i].since = today]
    /\ worker' = [worker EXCEPT ![w] = [pc |-> "evaluate", item |-> i,
                        attempt |-> item[i].attempts + 1, began |-> FALSE]]
    /\ UNCHANGED <<world, run, recall, latest, chain, faults>>

\* Mutant: yesterday's recommendation is still good.
StaleAfterTwo(i) == Daily(i) /\ i + 1 < today
isStaleDailyRecommendation(i) == Daily(i) /\ i < today

\* Eligibility is read here and acted upon in a later step.
evaluate(w) ==
    /\ worker[w].pc = "evaluate"
    /\ \/ /\ ~owned
          /\ Go(w, "inactive")
          /\ UNCHANGED faults
       \/ /\ owned /\ isStaleDailyRecommendation(worker[w].item)
          /\ Go(w, "skip")
          /\ UNCHANGED faults
       \/ /\ owned /\ ~isStaleDailyRecommendation(worker[w].item)
          /\ Go(w, "begin")
          /\ UNCHANGED faults
       \/ Fault /\ Go(w, "failed")
    /\ UNCHANGED <<world, item, run, recall, latest, chain>>

\* Mutant: the claim is not looked at again.
HoldsAnyway(w) == TRUE

\* What every transaction of the worker asks for first.
Holds(w) ==
    LET i == worker[w].item IN
    item[i].status = "claimed" /\ item[i].claim = w /\ item[i].live

\* The attempts of a settled item are never read again.
Settle(i, status) ==
    [item EXCEPT ![i] = [NoItem EXCEPT !.status = status, !.since = item[i].since,
                                       !.done = today]]

\* Mutant: the next day is enqueued only after a delivery.
NextAfterDelivery(i, status) == Daily(i) /\ status = "delivered"
nextDailyRecommendation(i, status) == Daily(i)

\* A settlement and the enqueueing of the next day are one transaction.
settleWithNext(i, status) ==
    item' = IF nextDailyRecommendation(i, status) /\ item[i + 1].status = "none"
            THEN [Settle(i, status) EXCEPT ![i + 1] = Due]
            ELSE Settle(i, status)

lost(w) ==
    /\ worker[w].pc \in {"inactive", "skip", "begin", "settle", "failed"}
    /\ ~Holds(w)
    /\ Stop(w)
    /\ UNCHANGED <<world, item, run, recall, latest, chain, faults>>

\* A workspace without an owner gets no next item: the chain ends.
settleSuppressed(w) ==
    LET i == worker[w].item IN
    /\ Holds(w)
    /\ \/ /\ worker[w].pc = "inactive"
          /\ item' = Settle(i, "suppressed")
          /\ chain' = IF Daily(i) THEN "ended" ELSE chain
       \/ /\ worker[w].pc = "skip"
          /\ settleWithNext(i, "suppressed")
          /\ UNCHANGED chain
    /\ Stop(w)
    /\ UNCHANGED <<world, run, recall, latest, faults>>

beginDelivery(w) ==
    LET i == worker[w].item IN
    /\ worker[w].pc = "begin"
    /\ Holds(w)
    /\ run' = [run EXCEPT ![i] = IF @ = "delivered" THEN @ ELSE "started"]
    /\ worker' = [worker EXCEPT ![w].pc = "deliver", ![w].began = TRUE]
    /\ UNCHANGED <<world, item, recall, latest, chain, faults>>

\* A daily item is delivered by reading the candidate, if there is a usable one.
deliverDaily(w) ==
    /\ worker[w].pc = "deliver"
    /\ Daily(worker[w].item)
    /\ Go(w, "settle") \/ Go(w, "failed")
    /\ UNCHANGED <<world, item, run, recall, latest, chain, faults>>

settleDelivered(w) ==
    LET i == worker[w].item IN
    /\ worker[w].pc = "settle"
    /\ Holds(w)
    /\ settleWithNext(i, "delivered")
    /\ run' = [run EXCEPT ![i] = "delivered"]
    /\ latest' = IF Daily(i) THEN i ELSE latest
    /\ Stop(w)
    /\ UNCHANGED <<world, recall, chain, faults>>

Exhausted(w) == worker[w].attempt >= MaxAttempts

\* After the last attempt the chain of daily items ends as well.
settleFailed(w) ==
    LET i    == worker[w].item
        dead == Exhausted(w) IN
    /\ worker[w].pc = "failed"
    /\ Holds(w)
    /\ item' = IF dead THEN Settle(i, "dead_letter")
               ELSE [item EXCEPT ![i].status = "retry", ![i].claim = None,
                                 ![i].live = FALSE]
    /\ run' = [run EXCEPT ![i] = IF ~worker[w].began THEN @
                                 ELSE IF dead THEN "dead_letter" ELSE "retry"]
    /\ chain' = IF dead /\ Daily(i) THEN "ended" ELSE chain
    /\ Stop(w)
    /\ UNCHANGED <<world, recall, latest, faults>>

\* A settlement that throws is followed by settleFailed, and a failing
\* settleFailed ends the tick with the claim left to its lease.
settlementThrows(w) ==
    /\ worker[w].pc \in {"inactive", "skip", "begin", "settle"}
    /\ Fault
    /\ Go(w, "failed")
    /\ UNCHANGED <<world, item, run, recall, latest, chain>>

crash(w) ==
    /\ worker[w].pc # "idle"
    /\ Fault
    /\ Stop(w)
    /\ UNCHANGED <<world, item, run, recall, latest, chain>>

-----------------------------------------------------------------------------
(* PostgresIdempotentProductNotifier over the webhook *)

\* Mutant: an effect in an unknown state is sent again.
Resendable == {"none", "unknown"}
Unclaimed == {"none"}

Acknowledged == {"sent"}

\* The effect is claimed once; a repeat is acknowledged only when it was sent.
claimEffect(w) ==
    /\ worker[w].pc = "deliver"
    /\ worker[w].item = Recall
    /\ \/ effect \in Unclaimed /\ effect' = "claimed" /\ Go(w, "send")
       \/ effect \in Acknowledged /\ Go(w, "settle") /\ UNCHANGED effect
       \/ /\ effect \notin Unclaimed \cup Acknowledged
          /\ Go(w, "failed")
          /\ UNCHANGED effect
    /\ UNCHANGED <<world, item, run, sent, latest, chain, faults>>

\* The webhook takes the message; its answer may be lost, or it never arrives.
notify(w) ==
    /\ worker[w].pc = "send"
    /\ \/ sent' = sent + 1 /\ Go(w, "mark") /\ UNCHANGED <<effect, faults>>
       \/ /\ Fault
          /\ sent' \in {sent, sent + 1}
          /\ effect' = IF effect = "claimed" THEN "unknown" ELSE effect
          /\ Go(w, "failed")
    /\ UNCHANGED <<world, item, run, latest, chain>>

markSent(w) ==
    /\ worker[w].pc = "mark"
    /\ effect' = IF effect = "claimed" THEN "sent" ELSE effect
    /\ Go(w, IF effect = "claimed" THEN "settle" ELSE "failed")
    /\ UNCHANGED <<world, item, run, sent, latest, chain, faults>>

-----------------------------------------------------------------------------
(* Purge, clock and membership *)

purgeExpired(i) ==
    /\ item[i].status \in Settled
    /\ today >= item[i].done + Retention
    /\ item' = [item EXCEPT ![i] = NoItem]
    /\ run' = [run EXCEPT ![i] = "none"]
    /\ UNCHANGED <<world, worker, recall, latest, chain, faults>>

Claimed(i) == item[i].status = "claimed" /\ item[i].live

\* Midnight; a lease that saw the last one has run out long ago.
dayPasses ==
    /\ today < MaxDay - 1
    /\ \A i \in Items : Claimed(i) => item[i].since = today
    /\ today' = today + 1
    /\ UNCHANGED <<owned, item, run, worker, recall, latest, chain, faults>>

\* Is the worker of a claim still at it?
AtWork(i) == worker[item[i].claim].pc # "idle" /\ worker[item[i].claim].item = i

leaseExpires(i) ==
    /\ Claimed(i)
    /\ item' = [item EXCEPT ![i].live = FALSE]
    /\ \/ Fault
       \/ ~AtWork(i) /\ UNCHANGED faults
    /\ UNCHANGED <<world, run, worker, recall, latest, chain>>

membershipChanges ==
    /\ owned' = ~owned
    /\ Fault
    /\ UNCHANGED <<today, item, run, worker, recall, latest, chain>>

-----------------------------------------------------------------------------

Step(w) ==
    \/ evaluate(w) \/ lost(w) \/ settleSuppressed(w) \/ beginDelivery(w)
    \/ deliverDaily(w) \/ settleDelivered(w) \/ settleFailed(w)
    \/ claimEffect(w) \/ notify(w) \/ markSent(w)

Next ==
    \/ ensureDailyRecommendationDue \/ produce
    \/ \E w \in Workers :
          \/ \E i \in Items : claimBatch(w, i)
          \/ Step(w) \/ settlementThrows(w) \/ crash(w)
    \/ \E i \in Items : purgeExpired(i) \/ leaseExpires(i)
    \/ dayPasses
    \/ membershipChanges

Spec == Init /\ [][Next]_vars

\* The poller ticks every second, workers run on unless they crash and a dead
\* worker's lease runs out.
Fairness ==
    /\ \A w \in Workers : WF_vars(Step(w))
    /\ \A i \in Items : WF_vars(\E w \in Workers : claimBatch(w, i))
    /\ \A i \in Items : WF_vars(leaseExpires(i) /\ UNCHANGED faults)

FairSpec == Spec /\ Fairness

-----------------------------------------------------------------------------
(* Properties *)

\* The merchant gets one message per recall, through crashes, lapsed leases,
\* retries, and a second announcement after the item was purged; and a recall
\* that counts as delivered has reached the merchant.
RecallSentOnce ==
    /\ sent <= 1
    /\ item[Recall].status = "delivered" => sent = 1

\* The run tells the outcome of its item, which the dashboard's join relies on.
RunTellsOutcome ==
    \A i \in Items : run[i] = "delivered" <=> item[i].status = "delivered"

\* A settlement is final: a slower worker never reopens it or settles it anew.
SettledIsFinal ==
    [][\A i \in Items : item[i].status \in Settled =>
            item'[i] = item[i] \/ item'[i].status = "none"]_vars

\* A recommendation is delivered by a claim of its own date, in the minute after
\* midnight at the latest: none is delivered that was out of date when claimed.
DeliveredInTime ==
    \A i \in Days : item[i].status = "delivered" =>
        item[i].since <= i /\ item[i].done <= i + 1

\* Unless a dead letter or a workspace without an owner has ended the chain since
\* the dashboard seeded it, there is an item that carries it on, whatever was
\* delivered, skipped or purged.
ChainGoesOn == chain = "going" => \E i \in Days : item[i].status \in Open

\* Every due item is settled.
DueItemEnds ==
    \A i \in Items : Claimable(i) ~> item[i].status \in Settled \cup {"none"}

\* The dashboard asks for the latest delivery and takes it if it is today's.
Shown == latest = today /\ item[today].status = "delivered"

\* Once today's recommendation is on the dashboard it stays there for the day.
TodayStaysShown == [][Shown /\ today' = today => Shown']_vars

=============================================================================
