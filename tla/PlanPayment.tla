----------------------------- MODULE PlanPayment ------------------------------
(***************************************************************************)
(* Subscription payments of one workspace, from the provider's webhook to   *)
(* the credits: the web application's inbox with its leased claims, the     *)
(* order fence on the payment row, the Core command with its own claim and  *)
(* receipt, the subscription books, and the scheduler that grants a lot for *)
(* each paid cycle.                                                        *)
(*                                                                         *)
(* The provider's history is a set of deliveries chosen at the start; they  *)
(* arrive at any time after they occurred, in any order.  Two deliveries    *)
(* may carry one event.                                                    *)
(***************************************************************************)
EXTENDS SubscriptionBook

CONSTANTS
    Workers,     \* web requests and drains that settle deliveries
    Histories,   \* the provider's possible histories
    MaxNow,      \* bound: the last instant
    Grace,       \* how long a subscription may be past due
    MaxFaults    \* failed calls, crashes and lapsed leases

ASSUME PaymentAssumption ==
    /\ MaxNow \in Nat
    /\ Grace \in Nat
    /\ MaxFaults \in Nat

VARIABLES
    now,
    history,     \* what the provider sends
    inbox,       \* the settlement outbox of the webhooks
    worker,      \* what each worker is doing
    fence,       \* the latest delivery applied to a subscription's payment row
    asked,       \* subscriptions whose end the provider was asked for
    core,        \* the Core command of each event
    receipts,    \* the events on the books
    book,        \* subscriptions and paid periods
    lots,        \* the subscription lots of the credit ledger
    sched,       \* the scheduler's run
    faults

web == <<inbox, worker, fence, asked>>
vars == <<now, history, inbox, worker, fence, asked, core, receipts, book, lots, sched, faults>>

Events(h) == {d.event : d \in h}
Of(e) == {d \in history : d.event = e}
NoRun == [left |-> {}, rows |-> [s \in Subs |-> NoRow], at |-> 0]
NoCommand == [pc |-> "none", d |-> None, todo |-> None, at |-> 0]

Init ==
    /\ now = 0
    /\ history \in Histories
    /\ inbox = [d \in history |-> [status |-> "unsent", claim |-> None, live |-> FALSE]]
    /\ worker = [w \in Workers |-> [pc |-> "idle", d |-> None]]
    /\ fence = [s \in Subs |-> None]
    /\ asked = {}
    /\ core = [e \in Events(history) |-> NoCommand]
    /\ receipts = {}
    /\ book = [subs |-> [s \in Subs |-> NoRow], periods |-> {}]
    /\ lots = {}
    /\ sched = NoRun
    /\ faults = 0

Fault == faults < MaxFaults /\ faults' = faults + 1

-----------------------------------------------------------------------------
(* The inbox *)

\* A webhook arrives; a repeat of it finds its row.
receive(d) ==
    /\ inbox[d].status = "unsent"
    /\ d.at <= now
    /\ inbox' = [inbox EXCEPT ![d].status = "open"]
    /\ UNCHANGED <<now, history, worker, fence, asked, core, receipts, book, lots, sched, faults>>

Claimable(d) == inbox[d].status = "open" /\ ~inbox[d].live

Holds(w) == inbox[worker[w].d].claim = w

Go(w, pc) == worker' = [worker EXCEPT ![w].pc = pc]
Rest(w) == worker' = [worker EXCEPT ![w] = [pc |-> "idle", d |-> None]]

complete(w) ==
    /\ worker[w].pc = "complete"
    /\ inbox' = IF Holds(w)
                THEN [inbox EXCEPT ![worker[w].d] =
                        [status |-> "completed", claim |-> None, live |-> FALSE]]
                ELSE inbox
    /\ Rest(w)
    /\ UNCHANGED <<now, history, fence, asked, core, receipts, book, lots, sched, faults>>

retry(w) ==
    /\ worker[w].pc = "retry"
    /\ inbox' = IF Holds(w)
                THEN [inbox EXCEPT ![worker[w].d].claim = None, ![worker[w].d].live = FALSE]
                ELSE inbox
    /\ Rest(w)
    /\ UNCHANGED <<now, history, fence, asked, core, receipts, book, lots, sched, faults>>

-----------------------------------------------------------------------------
(* applyPlanSettlementIntent *)

waffoLifecycleRank(d) ==
    CASE d.lifecycle = "activate" -> 10
      [] d.lifecycle = "renew" -> 20
      [] d.lifecycle = "past_due" -> 30
      [] d.lifecycle = "cancel_at_period_end" -> 40
      [] d.lifecycle = "uncancel_at_period_end" -> 50
      [] d.lifecycle = "expire" -> 60

\* Is a delivery later than another one of its subscription?
Later(d, o) == d.at > o.at \/ (d.at = o.at /\ waffoLifecycleRank(d) > waffoLifecycleRank(o))

compareWaffoPaymentOrder(d) ==
    IF fence[d.sub] = None THEN "applied"
    ELSE IF fence[d.sub].event = d.event THEN "duplicate"
    ELSE IF Later(d, fence[d.sub]) THEN "applied" ELSE "ignored_stale"

\* Mutant: the payment row is written before Core has been told.
FenceFirst == [applied |-> "upsert", duplicate |-> "cancel", ignored_stale |-> "complete"]

\* An event applied before only repeats what follows it; a late one is dropped.
AfterOrder == [applied |-> "command", duplicate |-> "cancel", ignored_stale |-> "complete"]

\* A worker takes a delivery under a lease and asks where its event stands.  Claims
\* carry random tokens, so the first of the idle workers stands for any.
claimNext(w, d) ==
    /\ worker[w].pc = "idle"
    /\ \A v \in Workers : v < w => worker[v].pc # "idle"
    /\ Claimable(d)
    /\ inbox' = [inbox EXCEPT ![d].claim = w, ![d].live = TRUE]
    /\ worker' = [worker EXCEPT ![w] = [pc |-> AfterOrder[compareWaffoPaymentOrder(d)], d |-> d]]
    /\ UNCHANGED <<now, history, fence, asked, core, receipts, book, lots, sched, faults>>

\* A single month ends by itself, and so does the subscription that was replaced.
ToCancel(d) ==
    IF d.lifecycle # "activate" THEN {}
    ELSE (IF d.interval = "single_month" THEN {d.sub} ELSE {})
           \cup (IF d.replaces # None THEN {d.replaces} ELSE {})

\* What follows the payment row.
AfterUpsert(d) ==
    IF compareWaffoPaymentOrder(d) = "ignored_stale" \/ ToCancel(d) = {}
    THEN "complete" ELSE "cancel"

upsertWaffoSubscriptionPayment(w) ==
    LET d == worker[w].d IN
    /\ worker[w].pc = "upsert"
    /\ fence' = IF compareWaffoPaymentOrder(d) = "applied"
                THEN [fence EXCEPT ![d.sub] = d] ELSE fence
    /\ Go(w, AfterUpsert(d))
    /\ UNCHANGED <<now, history, inbox, asked, core, receipts, book, lots, sched, faults>>

cancelWaffoSubscriptionAtPeriodEnd(w) ==
    /\ worker[w].pc = "cancel"
    /\ asked' = asked \cup ToCancel(worker[w].d)
    /\ Go(w, "complete")
    /\ UNCHANGED <<now, history, inbox, fence, core, receipts, book, lots, sched, faults>>

-----------------------------------------------------------------------------
(* settlePayment in Core *)

\* The answer reaches the worker that waits for it, if there still is one.
Answer(e, pc) ==
    worker' = [w \in Workers |->
                 IF worker[w].pc = "await" /\ worker[w].d.event = e
                 THEN [worker[w] EXCEPT !.pc = pc] ELSE worker[w]]

\* A finished command is replayed and one under way refuses; otherwise the command
\* is claimed and its transaction reads the books, without a lock.
settlePayment(w) ==
    LET d == worker[w].d
        e == d.event
        Claimed(pc) == core' = [core EXCEPT ![e] = [NoCommand EXCEPT !.pc = pc]] IN
    /\ worker[w].pc = "command"
    /\ \/ core[e].pc = "done" /\ Go(w, "upsert") /\ UNCHANGED core
       \/ core[e].pc \notin {"none", "done"} /\ Go(w, "retry") /\ UNCHANGED core
       \/ /\ core[e].pc = "none" /\ e \in receipts
          /\ Claimed("finish") /\ Go(w, "await")
       \/ /\ core[e].pc = "none" /\ e \notin receipts
          /\ \E todo \in {Decision(book, d, now)} :
                \/ todo.do = "refuse" /\ Go(w, "retry") /\ UNCHANGED core
                \/ todo.do = "defer" /\ Claimed("finish") /\ Go(w, "await")
                \/ /\ todo.do \notin {"defer", "refuse"}
                   /\ core' = [core EXCEPT ![e] =
                         [pc |-> IF todo.do = "upgrade" THEN "expire" ELSE "write",
                          d |-> d, todo |-> todo, at |-> now]]
                   /\ Go(w, "await")
    /\ UNCHANGED <<now, history, inbox, fence, asked, receipts, book, lots, sched, faults>>

\* A transaction of the credit ledger, committed by itself.
expireSubscriptionLots(e) ==
    /\ core[e].pc = "expire"
    /\ lots' = {IF l.lineage = core[e].todo.lineage THEN [l EXCEPT !.live = FALSE] ELSE l :
                l \in lots}
    /\ core' = [core EXCEPT ![e].pc = "write"]
    /\ UNCHANGED <<now, history, web, receipts, book, sched, faults>>

\* The writes and the receipt commit together, or the transaction rolls back and
\* the command stays claimed until its lease runs out (at once, for domain errors).
commitPayment(e) ==
    LET written == Settled(book, core[e].todo, core[e].d, core[e].at) IN
    /\ core[e].pc = "write"
    /\ \/ /\ book' \in written
          /\ receipts' = receipts \cup {e}
          /\ core' = [core EXCEPT ![e] = [NoCommand EXCEPT !.pc = "finish"]]
          /\ UNCHANGED worker
       \/ /\ written = {}
          /\ core' = [core EXCEPT ![e] = [NoCommand EXCEPT !.pc = "stuck"]]
          /\ Answer(e, "retry")
          /\ UNCHANGED <<book, receipts>>
    /\ UNCHANGED <<now, history, inbox, fence, asked, lots, sched, faults>>

completeModuleCommand(e) ==
    /\ core[e].pc = "finish"
    /\ core' = [core EXCEPT ![e] = [NoCommand EXCEPT !.pc = "done"]]
    /\ Answer(e, "upsert")
    /\ UNCHANGED <<now, history, inbox, fence, asked, receipts, book, lots, sched, faults>>

\* Mutant: a claimed command is never taken over.
NeverLapses(e) == core[e].pc = "stuck" /\ UNCHANGED vars

\* The lease of a command that nobody executes any more.
commandLapses(e) ==
    /\ core[e].pc = "stuck"
    /\ core' = [core EXCEPT ![e] = NoCommand]
    /\ UNCHANGED <<now, history, web, receipts, book, lots, sched, faults>>

-----------------------------------------------------------------------------
(* The scheduler *)

GraceOver(row, at) == row.pastDueAt # None /\ at >= row.pastDueAt + Grace

\* The cycles of a row that are due and have no lot.
Ungranted(row, at) ==
    {i \in dueCreditSubscriptionCycles(row, at) :
        ~\E l \in lots : l.lineage = row.lineage /\ l.index = row.offset + i}

\* Does the run do anything about a listed row?
Pending(row, at) ==
    \/ row.status = "past_due" /\ GraceOver(row, at)
    \/ row.status = "active" /\ Ungranted(row, at) # {}

\* listGrantCandidates: the run goes by the rows as they are now.
run ==
    LET left == {s \in Subs : Exists(book, s) /\ Pending(book.subs[s], now)} IN
    /\ sched.left = {} /\ left # {}
    /\ sched' = [left |-> left, at |-> now,
                 rows |-> [s \in Subs |-> IF s \in left THEN book.subs[s] ELSE NoRow]]
    /\ UNCHANGED <<now, history, web, core, receipts, book, lots, faults>>

Visited(s) ==
    sched' = IF sched.left = {s} THEN NoRun
             ELSE [sched EXCEPT !.left = @ \ {s}, !.rows[s] = NoRow]

cancelLapsed(s) ==
    /\ s \in sched.left
    /\ sched.rows[s].status = "past_due"
    /\ book' \in cancelPastDue(book, s)
    /\ Visited(s)
    /\ UNCHANGED <<now, history, web, core, receipts, lots, faults>>

LotOf(row, i, tier) ==
    [lineage |-> row.lineage, index |-> row.offset + i,
     tier |-> IF tier = None THEN planForCycle(row, i).tier ELSE tier,
     start |-> CycleStart(row, i), end |-> CycleStart(row, i + 1), live |-> TRUE]

\* Each grant is a transaction; the coverage is read afresh, the row is the listed one.
grantCycle(s) ==
    LET row == sched.rows[s] IN
    /\ s \in sched.left
    /\ row.status = "active"
    /\ \E i \in Ungranted(row, sched.at) :
         /\ \A j \in Ungranted(row, sched.at) : i <= j
         /\ lots' = lots \cup {LotOf(row, i, paidCoverageForCycle(book, s, i))}
         /\ IF Ungranted(row, sched.at) = {i} THEN Visited(s) ELSE UNCHANGED sched
    /\ UNCHANGED <<now, history, web, core, receipts, book, faults>>

Visit(s) == cancelLapsed(s) \/ grantCycle(s)

-----------------------------------------------------------------------------
(* Time and faults *)

timePasses ==
    /\ now < MaxNow
    /\ now' = now + 1
    /\ UNCHANGED <<history, web, core, receipts, book, lots, sched, faults>>

\* A call of the worker fails, or its answer is lost.
callFails(w) ==
    /\ worker[w].pc \in {"command", "await", "upsert", "cancel"}
    /\ Go(w, "retry")
    /\ Fault
    /\ UNCHANGED <<now, history, inbox, fence, asked, core, receipts, book, lots, sched>>

\* Nobody has the token of the claim any more; only its lease is left.
crash(w) ==
    /\ worker[w].pc # "idle"
    /\ Rest(w)
    /\ inbox' = IF Holds(w) THEN [inbox EXCEPT ![worker[w].d].claim = None] ELSE inbox
    /\ Fault
    /\ UNCHANGED <<now, history, fence, asked, core, receipts, book, lots, sched>>

leaseExpires(d) ==
    /\ inbox[d].live
    /\ inbox' = [inbox EXCEPT ![d].live = FALSE]
    /\ \/ Fault
       \/ inbox[d].claim = None /\ UNCHANGED faults
    /\ UNCHANGED <<now, history, worker, fence, asked, core, receipts, book, lots, sched>>

\* Core dies in the middle of a command.
coreCrashes(e) ==
    /\ core[e].pc \in {"expire", "write", "finish"}
    /\ core' = [core EXCEPT ![e] = [NoCommand EXCEPT !.pc = "stuck"]]
    /\ Answer(e, "retry")
    /\ Fault
    /\ UNCHANGED <<now, history, inbox, fence, asked, receipts, book, lots, sched>>

\* The scheduler's job fails; the next one starts afresh.
schedulerFails ==
    /\ sched.left # {}
    /\ sched' = NoRun
    /\ Fault
    /\ UNCHANGED <<now, history, web, core, receipts, book, lots>>

-----------------------------------------------------------------------------

Step(w) ==
    \/ complete(w) \/ retry(w) \/ settlePayment(w)
    \/ upsertWaffoSubscriptionPayment(w) \/ cancelWaffoSubscriptionAtPeriodEnd(w)

Command(e) ==
    \/ expireSubscriptionLots(e) \/ commitPayment(e)
    \/ completeModuleCommand(e) \/ commandLapses(e)

Next ==
    \/ \E d \in history : receive(d) \/ leaseExpires(d)
    \/ \E w \in Workers :
          \/ \E d \in history : claimNext(w, d)
          \/ Step(w) \/ callFails(w) \/ crash(w)
    \/ \E e \in Events(history) : Command(e) \/ coreCrashes(e)
    \/ run \/ schedulerFails
    \/ \E s \in Subs : Visit(s)
    \/ timePasses

Spec == Init /\ [][Next]_vars

\* Providers repeat what is not acknowledged, deliveries are claimed in the order
\* of their availability, which a retry moves back, workers and commands run on
\* unless they crash, leases run out, and the scheduler is started every five
\* minutes.
Fairness ==
    /\ WF_vars(timePasses)
    /\ WF_vars(run)
    /\ \A s \in Subs : WF_vars(Visit(s))
    /\ \A w \in Workers : WF_vars(Step(w))
    /\ \A e \in Events(UNION Histories) :
          /\ WF_vars(\E d \in Of(e) : receive(d))
          /\ WF_vars(\E d \in Of(e) : leaseExpires(d) /\ UNCHANGED faults)
          /\ SF_vars(\E w \in Workers, d \in Of(e) : claimNext(w, d))
          /\ WF_vars(e \in Events(history) /\ Command(e))

FairSpec == Spec /\ Fairness

-----------------------------------------------------------------------------
(* Properties *)

Lifecycles == {"activate", "renew", "past_due", "cancel_at_period_end",
               "uncancel_at_period_end", "expire"}

\* What a history has to be for the books to follow it: deliveries of one event agree,
\* no event is sent before its period begins (Core answers those as if they were
\* settled), the events of a subscription are told apart by time and rank, and it is
\* activated once.
Orderly(h) ==
    /\ None \notin h
    /\ \A d \in h : /\ d.sub \in Subs /\ d.lifecycle \in Lifecycles
                    /\ d.at \in Nat /\ d.period \in Nat /\ d.period <= d.at /\ d.tier \in Nat
    /\ \A d, o \in h :
          /\ d.event = o.event =>
                /\ d.sub = o.sub /\ d.lifecycle = o.lifecycle /\ d.tier = o.tier
                /\ d.interval = o.interval /\ d.at = o.at /\ d.period = o.period
          /\ d.event # o.event /\ d.sub = o.sub =>
                /\ Later(d, o) \/ Later(o, d)
                /\ ~(d.lifecycle = "activate" /\ o.lifecycle = "activate")

\* A later event of the subscription has been applied: the fence drops this one.
Overtaken(d) == fence[d.sub] # None /\ Later(fence[d.sub], d)

Paid(d) == d.lifecycle \in {"activate", "renew"} /\ d.period <= d.at

\* "A delivery is acknowledged only once its durable outbox has been drained"
\* (receiveAndSettlePaymentWebhook): whatever crashed, was retried or taken over,
\* a completed delivery that no later event has overtaken is on Core's books, its
\* paid period included, and the provider has been asked to end what it replaces.
AcknowledgedIsSettled ==
    \A d \in history : inbox[d].status = "completed" =>
        \/ Overtaken(d)
        \/ /\ d.event \in receipts
           /\ Paid(d) => PeriodOf(d.sub, d) \in book.periods
           /\ ToCancel(d) \subseteq asked

\* "A provider delivery for a billing period that has not started may be retried"
\* (DeferredCreditPaymentEvent): such a delivery is not completed before Core has
\* taken it.
DeferralIsRetried ==
    \A d \in history : inbox[d].status = "completed" => Overtaken(d) \/ d.event \in receipts

\* The cycles paid for by the events on the books, each counted once.
PaidEvents == {d.event : d \in {o \in history : Paid(o)}} \cap receipts
CyclesPaid(e) == paidCycleCoverage((CHOOSE d \in Of(e) : TRUE).interval)
PaidCycles == SumFunction([e \in PaidEvents |-> CyclesPaid(e)])

\* Credits are granted only for what was paid, although the scheduler goes by rows
\* that may have been replaced since it listed them: there are no more lots than
\* paid cycles, and each is of a plan that was paid for a part of its time.
LotsArePaid ==
    /\ Cardinality(lots) <= PaidCycles
    /\ \A l \in lots : \E p \in book.periods :
          p.tier = l.tier /\ p.start < l.end /\ l.start < p.start + p.cycles * Month

Behind(s) == Exists(book, s) /\ Pending(book.subs[s], now)

\* The scheduler keeps up: a due cycle gets its lot, and a subscription past due
\* beyond its grace ends, unless a payment comes first: nobody stays behind.
ScheduleKept == \A s \in Subs : []<>~Behind(s)

Ended(d) == inbox[d].status = "completed" \/ (Exists(book, d.sub) /\ ~Live(book, d.sub))

\* Every delivery of the history ends, through failed calls, crashes and lapsed
\* leases, unless its subscription has ended before.
DeliveryEnds == \A e \in Events(UNION Histories) : []<>(\A d \in Of(e) : Ended(d))
=============================================================================
