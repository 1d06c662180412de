--------------------------- MODULE SubscriptionBook ---------------------------
(***************************************************************************)
(* The books of one workspace's credit subscriptions: a row per provider    *)
(* subscription and the billing periods that were paid.  The operations of  *)
(* the Postgres store map books to the set of the books they leave, which   *)
(* is empty where they throw and the transaction around them rolls back.    *)
(* Decision is what the billing service makes of a payment event and the    *)
(* books it has read.                                                       *)
(*                                                                         *)
(* A month is Month units of time and a year YearCycles months; tiers are   *)
(* their ranks.                                                             *)
(***************************************************************************)
EXTENDS Integers, FiniteSetsExt

CONSTANTS
    Subs,        \* provider subscriptions of the workspace
    None,        \* no time, no tier
    Month,       \* units of time in a billing cycle
    YearCycles   \* cycles that a yearly payment covers

ASSUME BookAssumption ==
    /\ Month \in Nat \ {0}
    /\ YearCycles \in Nat \ {0}
    /\ None \notin Nat

paidCycleCoverage(interval) == IF interval = "yearly" THEN YearCycles ELSE 1

-----------------------------------------------------------------------------
(* Billing cycles of a row *)

CycleStart(row, i) == row.anchor + i * Month

creditSubscriptionCycleIndexAt(anchor, at) ==
    IF at < anchor THEN -1 ELSE (at - anchor) \div Month

dueCreditSubscriptionCycles(row, at) ==
    {i \in 0 .. row.paidThrough - 1 : CycleStart(row, i) <= at}

\* The cycle that runs at a time, or else the last paid one.
currentCycleIndex(row, at) ==
    LET due == dueCreditSubscriptionCycles(row, at) IN
    IF due # {} /\ at < CycleStart(row, Max(due) + 1)
    THEN Max(due) ELSE Max({0, row.paidThrough - 1})

\* Tier and interval of a cycle: the latest scheduled change up to it.
planForCycle(row, i) ==
    LET changes == {c \in row.changes : c.cycle <= i} IN
    IF changes = {} THEN [tier |-> row.tier, interval |-> row.interval]
    ELSE LET c == CHOOSE c \in changes : \A o \in changes : o.cycle <= c.cycle IN
         [tier |-> c.tier, interval |-> c.interval]

-----------------------------------------------------------------------------
(* The store *)

NoRow == [status |-> "none"]
Exists(b, s) == b.subs[s] # NoRow
Live(b, s) == Exists(b, s) /\ b.subs[s].status # "cancelled"
Put(b, s, row) == [b EXCEPT !.subs[s] = row]

\* Runs a second operation on what the first one leaves.
Then(books, op(_)) == UNION {op(b) : b \in books}

Cancelled(b, s) ==
    Put(b, s, [b.subs[s] EXCEPT !.status = "cancelled", !.pastDueAt = None])

cancel(b, s) == {Cancelled(b, s)}

\* The grace period is counted from the first failure.
markPastDue(b, s, at) ==
    {IF b.subs[s].status = "active"
     THEN Put(b, s, [b.subs[s] EXCEPT !.status = "past_due", !.pastDueAt = at])
     ELSE b}

\* Mutant: the status is tested for the wrong value.
CancelActive(b, s) == {IF b.subs[s].status = "active" THEN Cancelled(b, s) ELSE b}

cancelPastDue(b, s) == {IF b.subs[s].status = "past_due" THEN Cancelled(b, s) ELSE b}

uncancel(b, s) ==
    IF ~Live(b, s) THEN {}
    ELSE {Put(b, s, [b.subs[s] EXCEPT !.status = "active", !.pastDueAt = None,
                                      !.changes = {}])}

scheduleChange(b, s, plan, i) ==
    IF ~Live(b, s) THEN {}
    ELSE {Put(b, s, [b.subs[s] EXCEPT !.changes =
                {c \in @ : c.cycle # i}
                  \cup {[cycle |-> i, tier |-> plan.tier, interval |-> plan.interval]}])}

PeriodsOf(b, s) == {p \in b.periods : p.sub = s}

CyclesOf(p, anchor) ==
    LET first == creditSubscriptionCycleIndexAt(anchor, p.start) IN
    IF first < 0 THEN {} ELSE first .. first + p.cycles - 1

CoveredCycles(b, s) == UNION {CyclesOf(p, b.subs[s].anchor) : p \in PeriodsOf(b, s)}

\* Mutant: coverage goes to the last paid cycle, whatever lies in between.
FurthestPaid(covered) == IF covered = {} THEN 0 ELSE Max(covered) + 1

contiguousPaidThroughCycle(covered) ==
    Min({i \in 0 .. Cardinality(covered) : i \notin covered})

\* What a payment event says about the period it pays.
PeriodOf(s, d) ==
    [sub |-> s, start |-> d.period, cycles |-> paidCycleCoverage(d.interval),
     tier |-> d.tier, interval |-> d.interval]

\* A period on the books is the same payment again, or a conflict.
Conflicts(b, p) == \E o \in b.periods : o.sub = p.sub /\ o.start = p.start /\ o # p

Extended(b, s, through) ==
    IF through <= b.subs[s].paidThrough THEN b
    ELSE Put(b, s, [b.subs[s] EXCEPT !.paidThrough = through, !.status = "active",
                                     !.pastDueAt = None])

Booked(b, p) ==
    {Extended([b EXCEPT !.periods = @ \cup {p}], p.sub, contiguousPaidThroughCycle(covered)) :
     covered \in {CoveredCycles(b, p.sub) \cup CyclesOf(p, b.subs[p.sub].anchor)}}

recordPaidPeriod(b, s, d, at) ==
    LET p == PeriodOf(s, d) IN
    IF ~Live(b, s) THEN {}
    ELSE IF d.period > at THEN {b}
    ELSE IF Conflicts(b, p) THEN {}
    ELSE IF p \in b.periods THEN {b}
    ELSE Booked(b, p)

recordInitialPaidPeriod(b, s, d) ==
    IF Conflicts(b, PeriodOf(s, d)) THEN {} ELSE Booked(b, PeriodOf(s, d))

\* One subscription of a workspace may be active or past due.
upsert(b, s, row) ==
    IF \E o \in Subs \ {s} : Live(b, o) THEN {} ELSE {Put(b, s, row)}

openSubscription(b, d, offset) ==
    Then(upsert(b, d.sub,
           [tier |-> d.tier, interval |-> d.interval, changes |-> {},
            offset |-> offset, lineage |-> d.sub, anchor |-> d.period,
            paidThrough |-> paidCycleCoverage(d.interval),
            status |-> "active", pastDueAt |-> None]),
         LAMBDA o : recordInitialPaidPeriod(o, d.sub, d))

\* The replacement goes on with the row, the lineage and the periods of the old one.
replaceSubscription(b, from, to) ==
    IF Exists(b, to) THEN {}
    ELSE {[r EXCEPT !.periods = @ \cup {[p EXCEPT !.sub = to] : p \in PeriodsOf(b, from)}] :
          r \in upsert(Cancelled(b, from), to,
                       [b.subs[from] EXCEPT !.status = "active", !.pastDueAt = None])}

\* The plan that pays for a cycle: that of the latest period over it.
paidCoverageForCycle(b, s, i) ==
    LET over == {p \in PeriodsOf(b, s) : i \in CyclesOf(p, b.subs[s].anchor)} IN
    IF over = {} THEN None
    ELSE (CHOOSE p \in over : \A o \in over : o.start <= p.start).tier

-----------------------------------------------------------------------------
(* The billing service *)

\* A terminal event about a period before the latest paid one comes too late.
staleTerminalPeriod(b, s, d, allowEqual) ==
    \E p \in PeriodsOf(b, s) : d.period < p.start \/ (~allowEqual /\ d.period = p.start)

Refuse == [do |-> "refuse"]
Defer == [do |-> "defer"]
Ignore == [do |-> "ignore"]

\* A paid period of a known subscription must have begun and be at its frozen plan.
PayAt(b, s, d, at) ==
    IF d.period > at THEN Defer
    ELSE IF planForCycle(b.subs[s], creditSubscriptionCycleIndexAt(b.subs[s].anchor, d.period))
              # [tier |-> d.tier, interval |-> d.interval] THEN Refuse
    ELSE [do |-> "pay", sub |-> s]

\* A checkout for a workspace that has a subscription already.
Change(b, s, d, at) ==
    LET row == b.subs[s]
        plan == planForCycle(row, currentCycleIndex(row, at)) IN
    IF s = d.sub /\ row.lineage # s THEN PayAt(b, s, d, at)
    ELSE IF d.tier > plan.tier
    THEN [do |-> "upgrade", from |-> s, lineage |-> row.lineage,
          offset |-> IF s = d.sub THEN row.offset + row.paidThrough ELSE 0]
    ELSE IF s = d.sub
    THEN [do |-> "schedule", sub |-> s, cycle |-> row.paidThrough,
          plan |-> [tier |-> d.tier, interval |-> d.interval]]
    ELSE IF d.period > at THEN Defer
    ELSE [do |-> "replace", from |-> s, cycle |-> row.paidThrough,
          reschedule |-> d.tier < plan.tier \/ d.interval # plan.interval]

Decision(b, d, at) ==
    LET live == {s \in Subs : Live(b, s)}
        active == IF Exists(b, d.sub) \/ d.lifecycle # "activate" \/ live = {}
                  THEN d.sub ELSE CHOOSE s \in live : TRUE
        row == b.subs[active]
        current == planForCycle(row, currentCycleIndex(row, at)) IN
    IF ~Exists(b, active)
    THEN IF d.lifecycle = "activate" THEN [do |-> "open"] ELSE Refuse
    ELSE CASE d.lifecycle = "past_due" ->
                IF staleTerminalPeriod(b, active, d, TRUE) THEN Ignore
                ELSE [do |-> "past_due", sub |-> active]
           [] d.lifecycle = "cancel_at_period_end" ->
                IF staleTerminalPeriod(b, active, d, TRUE) THEN Ignore
                ELSE [do |-> "schedule", sub |-> active, cycle |-> row.paidThrough,
                      plan |-> current]
           [] d.lifecycle = "expire" ->
                IF staleTerminalPeriod(b, active, d, FALSE) THEN Ignore
                ELSE [do |-> "cancel", sub |-> active]
           [] d.lifecycle = "uncancel_at_period_end" -> [do |-> "uncancel", sub |-> active]
           [] d.lifecycle = "renew" ->
                IF current.interval = "single_month" /\ row.changes = {} THEN Refuse
                ELSE PayAt(b, active, d, at)
           [] d.lifecycle = "activate" -> Change(b, active, d, at)

\* The writes of a decision, against the books as they are by then.
Settled(b, todo, d, at) ==
    CASE todo.do = "ignore" -> {b}
      [] todo.do = "past_due" -> markPastDue(b, todo.sub, at)
      [] todo.do = "schedule" -> scheduleChange(b, todo.sub, todo.plan, todo.cycle)
      [] todo.do = "cancel" -> cancel(b, todo.sub)
      [] todo.do = "uncancel" -> uncancel(b, todo.sub)
      [] todo.do = "pay" -> recordPaidPeriod(b, todo.sub, d, at)
      [] todo.do = "open" -> openSubscription(b, d, 0)
      [] todo.do = "upgrade" ->
           Then(cancel(b, todo.from), LAMBDA c : openSubscription(c, d, todo.offset))
      [] todo.do = "replace" ->
           Then(Then(replaceSubscription(b, todo.from, d.sub),
                     LAMBDA r : IF ~todo.reschedule THEN {r}
                                ELSE scheduleChange(r, d.sub,
                                       [tier |-> d.tier, interval |-> d.interval], todo.cycle)),
                LAMBDA r : recordPaidPeriod(r, d.sub, d, at))
=============================================================================
