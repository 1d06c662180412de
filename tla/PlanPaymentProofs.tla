-------------------------- MODULE PlanPaymentProofs --------------------------
(***************************************************************************)
(* Theorems about PlanPayment: for any number of workers and faults, and    *)
(* for every orderly history of the provider.                              *)
(***************************************************************************)
EXTENDS PlanPayment, Sums

-----------------------------------------------------------------------------
(* The store *)

\* Books are a row, or none, per subscription, and a set of periods.
Shaped(b) ==
    /\ b = [subs |-> b.subs, periods |-> b.periods]
    /\ b.subs = [s \in Subs |-> b.subs[s]]

\* Books that keep every period, and every row but those of some subscriptions.
Grows(b, c, subs) ==
    /\ Shaped(c)
    /\ b.periods \subseteq c.periods
    /\ \A s \in Subs \ subs : c.subs[s] = b.subs[s]

\* Writing a row changes that row only, and no period.
LEMMA PutGrows ==
  ASSUME NEW b, Shaped(b), NEW s \in Subs, NEW row
  PROVE  Grows(b, Put(b, s, row), {s}) /\ Put(b, s, row).periods = b.periods
<1>1. Shaped(Put(b, s, row)) /\ Put(b, s, row).periods = b.periods
  BY DEF Put, Shaped
<1>2. \A x \in Subs \ {s} : Put(b, s, row).subs[x] = b.subs[x]
  BY DEF Put, Shaped
<1> QED
  BY <1>1, <1>2 DEF Grows

\* Growth composes.
LEMMA GrowsOn ==
  ASSUME NEW b, NEW c, NEW d, NEW S, NEW T, Grows(b, c, S), Grows(c, d, T)
  PROVE  Grows(b, d, S \cup T)
BY DEF Grows

\* Books grow into themselves.
LEMMA GrowsSelf ==
  ASSUME NEW b, Shaped(b), NEW S
  PROVE  Grows(b, b, S)
BY DEF Grows

\* Booking a period keeps what there is and has the period afterwards.
LEMMA BookedGrows ==
  ASSUME NEW b, Shaped(b), NEW p, p.sub \in Subs, NEW c \in Booked(b, p)
  PROVE  Grows(b, c, {p.sub}) /\ p \in c.periods
<1> DEFINE o == [b EXCEPT !.periods = @ \cup {p}]
<1>1. PICK covered : c = Extended(o, p.sub, contiguousPaidThroughCycle(covered))
  BY DEF Booked
<1>2. Shaped(o) /\ o.periods = b.periods \cup {p} /\ o.subs = b.subs
  BY DEF Shaped
<1>3. Grows(b, o, {p.sub}) /\ p \in o.periods
  BY <1>2 DEF Grows
<1> HIDE DEF o
<1>4. c = o \/ \E row : c = Put(o, p.sub, row)
  BY <1>1 DEF Extended
<1>5. CASE c = o
  BY <1>3, <1>5
<1>6. CASE \E row : c = Put(o, p.sub, row)
  <2>1. PICK row : c = Put(o, p.sub, row)
    BY <1>6
  <2>2. Grows(o, c, {p.sub}) /\ c.periods = o.periods
    BY <1>2, <2>1, PutGrows
  <2> QED
    BY <1>3, <2>2 DEF Grows
<1> QED
  BY <1>4, <1>5, <1>6

\* Cancelling changes one row.
LEMMA CancelledGrows ==
  ASSUME NEW b, Shaped(b), NEW s \in Subs
  PROVE  Grows(b, Cancelled(b, s), {s})
BY PutGrows DEF Cancelled

\* upsert changes one row.
LEMMA UpsertGrows ==
  ASSUME NEW b, Shaped(b), NEW s \in Subs, NEW row, NEW c \in upsert(b, s, row)
  PROVE  Grows(b, c, {s})
BY PutGrows DEF upsert

\* The period of a delivery is its subscription's.
LEMMA PeriodSub ==
  ASSUME NEW d, d.sub \in Subs
  PROVE  PeriodOf(d.sub, d).sub = d.sub
BY DEF PeriodOf

\* A payment whose period has begun is on the books it leaves.
LEMMA RecordGrows ==
  ASSUME NEW b, Shaped(b), NEW d, d.sub \in Subs, NEW at, ~(d.period > at),
         NEW c \in recordPaidPeriod(b, d.sub, d, at)
  PROVE  Grows(b, c, {d.sub}) /\ PeriodOf(d.sub, d) \in c.periods
<1>1. \/ c = b /\ PeriodOf(d.sub, d) \in b.periods
      \/ c \in Booked(b, PeriodOf(d.sub, d))
  BY DEF recordPaidPeriod
<1> QED
  BY <1>1, PeriodSub, BookedGrows, GrowsSelf

\* Opening a subscription books the period that was paid.
LEMMA OpenGrows ==
  ASSUME NEW b, Shaped(b), NEW d, d.sub \in Subs, NEW offset,
         NEW c \in openSubscription(b, d, offset)
  PROVE  Grows(b, c, {d.sub}) /\ PeriodOf(d.sub, d) \in c.periods
<1> DEFINE row == [tier |-> d.tier, interval |-> d.interval, changes |-> {},
                   offset |-> offset, lineage |-> d.sub, anchor |-> d.period,
                   paidThrough |-> paidCycleCoverage(d.interval),
                   status |-> "active", pastDueAt |-> None]
<1>1. PICK o \in upsert(b, d.sub, row) : c \in recordInitialPaidPeriod(o, d.sub, d)
  BY DEF openSubscription, Then
<1> HIDE DEF row
<1>2. Grows(b, o, {d.sub}) /\ Shaped(o)
  BY UpsertGrows DEF Grows
<1>3. c \in Booked(o, PeriodOf(d.sub, d))
  BY <1>1 DEF recordInitialPaidPeriod
<1>4. Grows(o, c, {d.sub}) /\ PeriodOf(d.sub, d) \in c.periods
  BY <1>2, <1>3, PeriodSub, BookedGrows
<1> QED
  BY <1>2, <1>4 DEF Grows

\* Replacing a subscription changes the two rows and loses no period.
LEMMA ReplaceGrows ==
  ASSUME NEW b, Shaped(b), NEW from \in Subs, NEW to \in Subs,
         NEW c \in replaceSubscription(b, from, to)
  PROVE  Grows(b, c, {from, to})
<1> DEFINE row == [b.subs[from] EXCEPT !.status = "active", !.pastDueAt = None]
           moved == {[p EXCEPT !.sub = to] : p \in PeriodsOf(b, from)}
<1>1. PICK r \in upsert(Cancelled(b, from), to, row) : c = [r EXCEPT !.periods = @ \cup moved]
  BY DEF replaceSubscription
<1> HIDE DEF row, moved
<1>2. Grows(b, Cancelled(b, from), {from}) /\ Shaped(Cancelled(b, from))
  BY CancelledGrows DEF Grows
<1>3. Grows(Cancelled(b, from), r, {to})
  BY <1>2, UpsertGrows
<1>4. Shaped(r)
  BY <1>3 DEF Grows
<1>5. Shaped(c) /\ c.periods = r.periods \cup moved /\ c.subs = r.subs
  BY <1>1, <1>4 DEF Shaped
<1> QED
  BY <1>2, <1>3, <1>5 DEF Grows

\* Scheduling a change touches one row.
LEMMA ScheduleGrows ==
  ASSUME NEW b, Shaped(b), NEW s \in Subs, NEW plan, NEW i, NEW c \in scheduleChange(b, s, plan, i)
  PROVE  Grows(b, c, {s})
BY PutGrows DEF scheduleChange

-----------------------------------------------------------------------------
(* The inductive invariant *)

Pcs == {"idle", "command", "await", "upsert", "cancel", "complete", "retry"}

CoreShaped(f) ==
    /\ f = [e \in Events(history) |-> f[e]]
    /\ \A e \in Events(history) :
          f[e] = [pc |-> f[e].pc, d |-> f[e].d, todo |-> f[e].todo, at |-> f[e].at]

\* Only deliveries that have arrived are worked on.
ShapeOK ==
    /\ Orderly(history)
    /\ now \in Nat
    /\ inbox \in [history -> [status : {"unsent", "open", "completed"},
                              claim : Workers \cup {None}, live : BOOLEAN]]
    /\ worker \in [Workers -> [pc : Pcs, d : history \cup {None}]]
    /\ fence \in [Subs -> history \cup {None}]
    /\ CoreShaped(core)
    /\ Shaped(book)
    /\ sched = [left |-> sched.left, rows |-> sched.rows, at |-> sched.at]
    /\ \A d \in history : inbox[d].status # "unsent" => d.at <= now
    /\ \A w \in Workers : worker[w].pc # "idle" => worker[w].d \in history /\ worker[w].d.at <= now

\* The subscriptions whose activation is on the books.
Opened ==
    {s \in Subs : \E d \in history :
        d.sub = s /\ d.lifecycle = "activate" /\ d.event \in receipts}

\* The books follow the receipts.
BookOK ==
    /\ \A s \in Subs : Exists(book, s) => s \in Opened
    /\ \A d \in history : d.event \in receipts /\ Paid(d) => PeriodOf(d.sub, d) \in book.periods
    /\ sched.left \subseteq Opened

\* What a command is about to write books the payment, if there is one, and touches
\* only rows that exist or that it opens.
TodoOK(todo, d) ==
    \/ todo.do = "ignore" /\ ~Paid(d)
    \/ todo.do \in {"past_due", "cancel", "uncancel", "schedule"} /\ ~Paid(d) /\ todo.sub \in Opened
    \/ todo.do = "pay" /\ todo.sub = d.sub /\ d.sub \in Opened /\ Paid(d)
    \/ todo.do = "open" /\ d.lifecycle = "activate"
    \/ todo.do = "upgrade" /\ d.lifecycle = "activate" /\ todo.from \in Opened /\ todo.offset = 0
    \/ todo.do = "replace" /\ d.lifecycle = "activate" /\ todo.from \in Opened

\* A command finishes only with its receipt on the books.
CommandOK(e) ==
    /\ core[e].pc \in {"finish", "done"} => e \in receipts
    /\ core[e].pc \in {"expire", "write"} =>
          /\ e \notin receipts /\ core[e].d \in history /\ core[e].d.event = e
          /\ core[e].at \in Nat /\ core[e].d.at <= core[e].at
          /\ TodoOK(core[e].todo, core[e].d)

CoreOK == \A e \in Events(history) : CommandOK(e)

\* The payment row follows Core.
FenceOK ==
    \A s \in Subs : fence[s] # None => fence[s].sub = s /\ fence[s].event \in receipts

\* What an acknowledgement stands for, besides the period.
Acknowledgeable(d) ==
    Overtaken(d) \/ (d.event \in receipts /\ ToCancel(d) \subseteq asked)

WorkersOK ==
    \A w \in Workers :
        /\ worker[w].pc \in {"upsert", "cancel"} => worker[w].d.event \in receipts
        /\ worker[w].pc = "complete" => Acknowledgeable(worker[w].d)

InboxOK == \A d \in history : inbox[d].status = "completed" => Acknowledgeable(d)

IInv == ShapeOK /\ BookOK /\ CoreOK /\ FenceOK /\ WorkersOK /\ InboxOK

-----------------------------------------------------------------------------
(* Order *)

\* The ranks of lifecycles are natural numbers.
LEMMA RankType ==
  ASSUME NEW d, d.lifecycle \in Lifecycles
  PROVE  waffoLifecycleRank(d) \in Nat
BY DEF waffoLifecycleRank, Lifecycles

\* The fence's order of deliveries is transitive in an orderly history.
LEMMA LaterOn ==
  ASSUME Orderly(history), NEW d \in history, NEW o \in history, NEW x \in history,
         Later(d, o), Later(o, x)
  PROVE  Later(d, x)
<1>1. d.at \in Nat /\ o.at \in Nat /\ x.at \in Nat
  BY DEF Orderly
<1>2. /\ waffoLifecycleRank(d) \in Nat /\ waffoLifecycleRank(o) \in Nat
      /\ waffoLifecycleRank(x) \in Nat
  BY RankType DEF Orderly
<1> QED
  BY <1>1, <1>2 DEF Later

\* Once a later event has been applied, one always has.
LEMMA StaysOvertaken ==
  ASSUME ShapeOK, NEW d \in history, compareWaffoPaymentOrder(d) = "applied",
         fence' = [fence EXCEPT ![d.sub] = d], UNCHANGED history,
         NEW x \in history, Overtaken(x)
  PROVE  Overtaken(x)'
<1>1. d.sub \in Subs /\ x.sub \in Subs /\ d # None /\ Orderly(history)
  BY DEF ShapeOK, Orderly
<1>2. fence'[d.sub] = d /\ \A s \in Subs \ {d.sub} : fence'[s] = fence[s]
  BY <1>1 DEF ShapeOK
<1>3. fence[x.sub] # None /\ fence[x.sub] \in history /\ Later(fence[x.sub], x)
  BY <1>1 DEF Overtaken, ShapeOK
<1>4. CASE x.sub = d.sub
  <2>1. Later(d, fence[d.sub])
    BY <1>3, <1>4 DEF compareWaffoPaymentOrder
  <2>2. Later(d, x)
    BY <1>1, <1>3, <1>4, <2>1, LaterOn
  <2> QED
    BY <1>1, <1>2, <1>4, <2>2 DEF Overtaken
<1>5. CASE x.sub # d.sub
  BY <1>1, <1>2, <1>3, <1>5 DEF Overtaken
<1> QED
  BY <1>4, <1>5

\* An event that the fence drops has been overtaken.
LEMMA StaleIsOvertaken ==
  ASSUME ShapeOK, FenceOK, NEW d \in history, compareWaffoPaymentOrder(d) = "ignored_stale"
  PROVE  Overtaken(d)
<1>1. d.sub \in Subs
  BY DEF ShapeOK, Orderly
<1>2. fence[d.sub] # None /\ fence[d.sub].event # d.event /\ ~Later(d, fence[d.sub])
  BY DEF compareWaffoPaymentOrder
<1>3. fence[d.sub] \in history /\ fence[d.sub].sub = d.sub
  BY <1>1, <1>2 DEF ShapeOK, FenceOK
<1> QED
  BY <1>2, <1>3 DEF ShapeOK, Orderly, Overtaken

-----------------------------------------------------------------------------
(* The decision *)

\* What the service decides for an event it has not seen: never to defer it, and, unless it
\* refuses, to book what was paid.
LEMMA DecisionPays ==
  ASSUME IInv, NEW d \in history, d.event \notin receipts, NEW at \in Nat, d.at <= at,
         NEW todo, todo = Decision(book, d, at)
  PROVE  todo.do # "defer" /\ (todo.do # "refuse" => TodoOK(todo, d))
<1>1. /\ d.sub \in Subs /\ d.lifecycle \in Lifecycles
      /\ d.at \in Nat /\ d.period \in Nat /\ d.period <= d.at
  BY DEF IInv, ShapeOK, Orderly
<1>2. ~(d.period > at)
  BY <1>1
<1>3. \A s \in Subs : Exists(book, s) => s \in Opened
  BY DEF IInv, BookOK
<1>4. CASE d.lifecycle = "activate"
  <2>1. d.sub \notin Opened
    BY <1>4 DEF Opened, IInv, ShapeOK, Orderly
  <2>2. ~Exists(book, d.sub)
    BY <1>1, <1>3, <2>1
  <2> DEFINE live == {s \in Subs : Live(book, s)}
  <2>3. CASE live = {}
    <3>1. todo = [do |-> "open"]
      BY <1>4, <2>2, <2>3 DEF Decision
    <3> QED
      BY <1>4, <3>1 DEF TodoOK
  <2>4. CASE live # {}
    <3> DEFINE s == CHOOSE s \in live : TRUE
    <3>1. s \in live
      BY <2>4
    <3>2. s \in Subs /\ Exists(book, s)
      BY <3>1 DEF Live
    <3>3. s \in Opened /\ s # d.sub
      BY <1>3, <2>1, <3>2
    <3>4. todo = Change(book, s, d, at)
      BY <1>4, <2>2, <2>4, <3>2 DEF Decision
    <3> HIDE DEF s
    <3>5. /\ todo.do \in {"upgrade", "replace"} /\ todo.from = s
          /\ todo.do = "upgrade" => todo.offset = 0
      BY <1>2, <3>3, <3>4 DEF Change
    <3> QED
      BY <1>4, <3>3, <3>5 DEF TodoOK
  <2> QED
    BY <2>3, <2>4
<1>5. CASE d.lifecycle # "activate"
  <2>1. CASE ~Exists(book, d.sub)
    BY <1>5, <2>1 DEF Decision, Refuse
  <2>2. CASE Exists(book, d.sub)
    <3>1. d.sub \in Opened
      BY <1>1, <1>3, <2>2
    <3>2. CASE d.lifecycle = "renew"
      <4>1. todo = Refuse \/ todo = PayAt(book, d.sub, d, at)
        BY <2>2, <3>2 DEF Decision
      <4>2. todo = Refuse \/ todo = [do |-> "pay", sub |-> d.sub]
        BY <1>2, <4>1 DEF PayAt
      <4> QED
        BY <1>1, <3>1, <3>2, <4>2 DEF TodoOK, Refuse, Paid
    <3>3. CASE d.lifecycle # "renew"
      <4>1. ~Paid(d)
        BY <1>5, <3>3 DEF Paid
      <4>2. \/ todo = Ignore
            \/ todo.do \in {"past_due", "schedule", "cancel", "uncancel"} /\ todo.sub = d.sub
        BY <1>1, <1>5, <2>2, <3>3 DEF Decision, Lifecycles
      <4> QED
        BY <3>1, <4>1, <4>2 DEF TodoOK, Ignore
    <3> QED
      BY <3>2, <3>3
  <2> QED
    BY <2>1, <2>2
<1> QED
  BY <1>4, <1>5

\* Whatever a command leaves, the books only grow, and the payment is on them.
LEMMA SettledGrows ==
  ASSUME IInv, NEW d \in history, NEW todo, TodoOK(todo, d), NEW at \in Nat, d.at <= at,
         NEW c \in Settled(book, todo, d, at)
  PROVE  /\ Grows(book, c, Opened \cup (IF d.lifecycle = "activate" THEN {d.sub} ELSE {}))
         /\ Paid(d) => PeriodOf(d.sub, d) \in c.periods
<1> DEFINE touched == Opened \cup (IF d.lifecycle = "activate" THEN {d.sub} ELSE {})
<1>1. /\ d.sub \in Subs /\ Shaped(book) /\ Opened \subseteq Subs
      /\ d.at \in Nat /\ d.period \in Nat /\ d.period <= d.at
  BY DEF IInv, ShapeOK, Orderly, Opened
<1>2. ~(d.period > at)
  BY <1>1
<1>3. \A x, S : Grows(book, x, S) /\ S \subseteq touched => Grows(book, x, touched)
  BY DEF Grows
<1>4. d.lifecycle = "activate" => d.sub \in touched
  OBVIOUS
<1>5. Opened \subseteq touched
  OBVIOUS
<1> HIDE DEF touched
<1>6. CASE todo.do = "ignore"
  <2>1. c = book
    BY <1>6 DEF Settled
  <2> QED
    BY <1>1, <1>6, <2>1, GrowsSelf DEF TodoOK, touched
<1>7. CASE todo.do \in {"past_due", "cancel", "uncancel", "schedule"}
  <2>1. todo.sub \in Opened /\ ~Paid(d)
    BY <1>7 DEF TodoOK
  <2>2. todo.sub \in Subs /\ {todo.sub} \subseteq touched
    BY <1>1, <1>5, <2>1
  <2>3. Grows(book, c, {todo.sub})
    <3>1. CASE todo.do = "past_due"
      <4>1. c \in markPastDue(book, todo.sub, at)
        BY <3>1 DEF Settled
      <4> QED
        BY <1>1, <2>2, <4>1, PutGrows, GrowsSelf DEF markPastDue
    <3>2. CASE todo.do = "cancel"
      <4>1. c = Cancelled(book, todo.sub)
        BY <3>2 DEF Settled, cancel
      <4> QED
        BY <1>1, <2>2, <4>1, CancelledGrows
    <3>3. CASE todo.do = "uncancel"
      <4>1. c \in uncancel(book, todo.sub)
        BY <3>3 DEF Settled
      <4> QED
        BY <1>1, <2>2, <4>1, PutGrows DEF uncancel
    <3>4. CASE todo.do = "schedule"
      <4>1. c \in scheduleChange(book, todo.sub, todo.plan, todo.cycle)
        BY <3>4 DEF Settled
      <4> QED
        BY <1>1, <2>2, <4>1, ScheduleGrows
    <3> QED
      BY <1>7, <3>1, <3>2, <3>3, <3>4
  <2> QED
    BY <1>3, <2>1, <2>2, <2>3 DEF touched
<1>8. CASE todo.do = "pay"
  <2>1. todo.sub = d.sub /\ d.sub \in Opened
    BY <1>8 DEF TodoOK
  <2>2. c \in recordPaidPeriod(book, d.sub, d, at)
    BY <1>8, <2>1 DEF Settled
  <2>3. Grows(book, c, {d.sub}) /\ PeriodOf(d.sub, d) \in c.periods
    BY <1>1, <1>2, <2>2, RecordGrows
  <2> QED
    BY <1>3, <1>5, <2>1, <2>3 DEF touched
<1>9. CASE todo.do = "open"
  <2>1. c \in openSubscription(book, d, 0) /\ d.lifecycle = "activate"
    BY <1>9 DEF Settled, TodoOK
  <2>2. Grows(book, c, {d.sub}) /\ PeriodOf(d.sub, d) \in c.periods
    BY <1>1, <2>1, OpenGrows
  <2> QED
    BY <1>3, <1>4, <2>1, <2>2 DEF touched
<1>10. CASE todo.do = "upgrade"
  <2>1. d.lifecycle = "activate" /\ todo.from \in Opened
    BY <1>10 DEF TodoOK
  <2>2. PICK o \in cancel(book, todo.from) : c \in openSubscription(o, d, todo.offset)
    BY <1>10 DEF Settled, Then
  <2>3. Grows(book, o, {todo.from}) /\ Shaped(o)
    BY <1>1, <2>1, <2>2, CancelledGrows DEF cancel, Grows
  <2>4. Grows(o, c, {d.sub}) /\ PeriodOf(d.sub, d) \in c.periods
    BY <1>1, <2>2, <2>3, OpenGrows
  <2>5. Grows(book, c, {todo.from} \cup {d.sub})
    BY <2>3, <2>4, GrowsOn
  <2>6. {todo.from} \cup {d.sub} \subseteq touched
    BY <1>4, <1>5, <2>1
  <2> QED
    BY <1>3, <2>4, <2>5, <2>6 DEF touched
<1>11. CASE todo.do = "replace"
  <2>1. d.lifecycle = "activate" /\ todo.from \in Opened
    BY <1>11 DEF TodoOK
  <2> DEFINE plan == [tier |-> d.tier, interval |-> d.interval]
  <2>2. PICK r \in replaceSubscription(book, todo.from, d.sub) :
          \E o \in (IF ~todo.reschedule THEN {r} ELSE scheduleChange(r, d.sub, plan, todo.cycle)) :
             c \in recordPaidPeriod(o, d.sub, d, at)
    BY <1>11 DEF Settled, Then
  <2>3. PICK o : /\ o = r \/ o \in scheduleChange(r, d.sub, plan, todo.cycle)
                 /\ c \in recordPaidPeriod(o, d.sub, d, at)
    BY <2>2
  <2> HIDE DEF plan
  <2>4. Grows(book, r, {todo.from, d.sub}) /\ Shaped(r)
    BY <1>1, <2>1, ReplaceGrows DEF Grows
  <2>5. Grows(r, o, {d.sub}) /\ Shaped(o)
    BY <1>1, <2>3, <2>4, ScheduleGrows, GrowsSelf DEF Grows
  <2>6. Grows(o, c, {d.sub}) /\ PeriodOf(d.sub, d) \in c.periods
    BY <1>1, <1>2, <2>3, <2>5, RecordGrows
  <2>7. Grows(book, c, {todo.from, d.sub})
    BY <2>4, <2>5, <2>6 DEF Grows
  <2>8. {todo.from, d.sub} \subseteq touched
    BY <1>4, <1>5, <2>1
  <2> QED
    BY <1>3, <2>6, <2>7, <2>8 DEF touched
<1> QED
  BY <1>6, <1>7, <1>8, <1>9, <1>10, <1>11 DEF TodoOK

-----------------------------------------------------------------------------
(* What a step leaves alone *)

WorkerRows == [pc : Pcs, d : history \cup {None}]
Others(w) == \A v \in Workers \ {w} : worker'[v] = worker[v]

\* A worker that moves on writes its own row only.
LEMMA Went ==
  ASSUME ShapeOK, NEW w \in Workers, NEW pc \in Pcs, Go(w, pc), UNCHANGED history
  PROVE  /\ worker' \in [Workers -> WorkerRows] /\ Others(w)
         /\ worker'[w].pc = pc /\ worker'[w].d = worker[w].d
BY DEF ShapeOK, Go, WorkerRows, Others

\* A worker that rests writes its own row only.
LEMMA Rested ==
  ASSUME ShapeOK, NEW w \in Workers, Rest(w), UNCHANGED history
  PROVE  /\ worker' \in [Workers -> WorkerRows] /\ Others(w)
         /\ worker'[w].pc = "idle"
<1> DEFINE row == [pc |-> "idle", d |-> None]
<1>1. row \in WorkerRows /\ row.pc = "idle"
  BY DEF WorkerRows, Pcs
<1>2. worker' = [worker EXCEPT ![w] = row]
  BY DEF Rest
<1> HIDE DEF row
<1> QED
  BY <1>1, <1>2 DEF ShapeOK, Others, WorkerRows

\* An answer of Core moves the workers that wait for it, and no other.
LEMMA Answered ==
  ASSUME ShapeOK, NEW e, NEW pc \in Pcs, pc # "idle", Answer(e, pc), UNCHANGED history
  PROVE  /\ worker' \in [Workers -> WorkerRows]
         /\ \A w \in Workers :
               \/ worker'[w] = worker[w]
               \/ /\ worker[w].pc = "await" /\ worker[w].d.event = e
                  /\ worker'[w].pc = pc /\ worker'[w].d = worker[w].d
<1> SUFFICES ASSUME NEW w \in Workers
             PROVE  /\ worker'[w] \in WorkerRows
                    /\ \/ worker'[w] = worker[w]
                       \/ /\ worker[w].pc = "await" /\ worker[w].d.event = e
                          /\ worker'[w].pc = pc /\ worker'[w].d = worker[w].d
  BY DEF Answer
<1>1. worker[w] \in WorkerRows
  BY DEF ShapeOK, WorkerRows
<1>2. worker'[w] = IF worker[w].pc = "await" /\ worker[w].d.event = e
                   THEN [worker[w] EXCEPT !.pc = pc] ELSE worker[w]
  BY DEF Answer
<1> QED
  BY <1>1, <1>2 DEF WorkerRows

\* What is said of the books stays true while they do not change.
LEMMA BookSame ==
  ASSUME BookOK, UNCHANGED <<history, receipts, book>>, sched'.left \subseteq sched.left
  PROVE  BookOK'
<1>1. Opened' = Opened
  BY DEF Opened
<1> QED
  BY <1>1 DEF BookOK, Exists, Paid, PeriodOf

\* What is said of a command stays true while it does not change.
LEMMA CommandSame ==
  ASSUME UNCHANGED <<history, receipts>>, NEW e, CommandOK(e), core'[e] = core[e]
  PROVE  CommandOK(e)'
<1>1. Opened' = Opened
  BY DEF Opened
<1> QED
  BY <1>1 DEF CommandOK, TodoOK, Paid

\* What is said of the commands stays true while they do not change.
LEMMA CoreSame ==
  ASSUME CoreOK, UNCHANGED <<history, receipts, core>>
  PROVE  CoreOK'
BY CommandSame DEF CoreOK, Events

\* Whether a delivery may be acknowledged depends on receipts, fence and requests.
LEMMA AckSame ==
  ASSUME UNCHANGED <<receipts, fence, asked>>, NEW d
  PROVE  Acknowledgeable(d)' <=> Acknowledgeable(d)
BY DEF Acknowledgeable, Overtaken

\* A step of one worker that leaves the payment row and Core alone.
LEMMA WorkersSame ==
  ASSUME WorkersOK, UNCHANGED <<receipts, fence, asked>>, NEW w \in Workers, Others(w),
         worker'[w].pc \in {"upsert", "cancel"} => worker'[w].d.event \in receipts,
         worker'[w].pc = "complete" => Acknowledgeable(worker'[w].d)
  PROVE  WorkersOK'
<1> SUFFICES ASSUME NEW v \in Workers
             PROVE  (/\ worker[v].pc \in {"upsert", "cancel"} => worker[v].d.event \in receipts
                     /\ worker[v].pc = "complete" => Acknowledgeable(worker[v].d))'
  BY DEF WorkersOK
<1>1. CASE v = w
  BY <1>1 DEF Acknowledgeable, Overtaken, ToCancel
<1>2. CASE v # w
  <2>1. worker'[v] = worker[v]
    BY <1>2 DEF Others
  <2> QED
    BY <2>1 DEF WorkersOK, Acknowledgeable, Overtaken, ToCancel
<1> QED
  BY <1>1, <1>2

\* What is said of the workers stays true while nothing they rely on changes.
LEMMA WorkersStay ==
  ASSUME WorkersOK, UNCHANGED <<worker, receipts, fence, asked>>
  PROVE  WorkersOK'
BY DEF WorkersOK, Acknowledgeable, Overtaken

\* What is said of the inbox stays true if only acknowledgeable deliveries are completed.
LEMMA InboxSame ==
  ASSUME InboxOK, UNCHANGED <<history, receipts, fence, asked>>,
         \A d \in history : inbox'[d].status = "completed" =>
            inbox[d].status = "completed" \/ Acknowledgeable(d)
  PROVE  InboxOK'
BY AckSame DEF InboxOK

\* What is said of the fence stays true while it does not change.
LEMMA FenceSame ==
  ASSUME FenceOK, UNCHANGED <<receipts, fence>>
  PROVE  FenceOK'
BY DEF FenceOK

-----------------------------------------------------------------------------
(* The steps of the web application *)

InboxRows == [status : {"unsent", "open", "completed"}, claim : Workers \cup {None}, live : BOOLEAN]

\* A step of the inbox and the workers that changes nothing else.
LEMMA WebStep ==
  ASSUME IInv, UNCHANGED <<now, history, fence, asked, core, receipts, book, sched>>,
         inbox' \in [history -> InboxRows],
         worker' \in [Workers -> WorkerRows],
         \A d \in history :
            /\ inbox'[d].status = "completed" => inbox[d].status = "completed" \/ Acknowledgeable(d)
            /\ inbox'[d].status # "unsent" => inbox[d].status # "unsent" \/ d.at <= now,
         NEW w \in Workers, Others(w),
         worker'[w].pc # "idle" => worker'[w].d \in history /\ worker'[w].d.at <= now,
         worker'[w].pc \in {"upsert", "cancel"} => worker'[w].d.event \in receipts,
         worker'[w].pc = "complete" => Acknowledgeable(worker'[w].d)
  PROVE  IInv'
<1>1. ShapeOK'
  <2>1. \A v \in Workers : worker'[v].pc # "idle" => worker'[v].d \in history /\ worker'[v].d.at <= now
    BY DEF IInv, ShapeOK, Others
  <2>2. \A d \in history : inbox'[d].status # "unsent" => d.at <= now
    BY DEF IInv, ShapeOK
  <2>3. CoreShaped(core)'
    BY DEF IInv, ShapeOK, CoreShaped, Events
  <2>4. Orderly(history)' /\ Shaped(book)'
    BY DEF IInv, ShapeOK, Orderly, Shaped, Later, waffoLifecycleRank
  <2> QED
    BY <2>1, <2>2, <2>3, <2>4 DEF IInv, ShapeOK, InboxRows, WorkerRows
<1> QED
  BY <1>1, BookSame, CoreSame, FenceSame, WorkersSame, InboxSame DEF IInv

\* The rows of inbox and workers have their types.
LEMMA InboxRow ==
  ASSUME ShapeOK, NEW d \in history
  PROVE  /\ inbox \in [history -> InboxRows] /\ inbox[d] \in InboxRows
         /\ worker \in [Workers -> WorkerRows]
BY DEF ShapeOK, InboxRows, WorkerRows

\* A busy worker has a delivery of the history that was sent.
LEMMA WorkerRow ==
  ASSUME ShapeOK, NEW w \in Workers, worker[w].pc # "idle"
  PROVE  worker[w].d \in history /\ worker[w].d.at <= now
BY DEF ShapeOK

\* Receiving a delivery, and the end of its lease, keep the invariant.
LEMMA ReceiveStep ==
  ASSUME IInv, NEW d \in history, receive(d) \/ leaseExpires(d)
  PROVE  IInv'
<1> ShapeOK
  BY DEF IInv
<1>0. /\ UNCHANGED <<now, history, worker, fence, asked, core, receipts, book, sched>>
      /\ receive(d) => d.at <= now
  BY DEF receive, leaseExpires
<1>1. inbox' \in [history -> InboxRows]
  BY InboxRow DEF receive, leaseExpires, InboxRows
<1>2. \A o \in history : inbox'[o].status = inbox[o].status
                         \/ (o = d /\ receive(d) /\ inbox'[o].status = "open")
  BY InboxRow DEF receive, leaseExpires, InboxRows
<1>3. \A o \in history :
        /\ inbox'[o].status = "completed" => inbox[o].status = "completed" \/ Acknowledgeable(o)
        /\ inbox'[o].status # "unsent" => inbox[o].status # "unsent" \/ o.at <= now
  BY <1>0, <1>2
<1>4. InboxOK' /\ WorkersOK' /\ FenceOK' /\ CoreOK' /\ BookOK'
  BY <1>0, <1>3, BookSame, CoreSame, FenceSame, WorkersStay, InboxSame DEF IInv
<1>5. ShapeOK'
  <2>1. CoreShaped(core)' /\ Orderly(history)' /\ Shaped(book)'
    BY <1>0 DEF ShapeOK, CoreShaped, Events, Orderly, Shaped, Later, waffoLifecycleRank
  <2> QED
    BY <1>0, <1>1, <1>3, <2>1 DEF ShapeOK, InboxRows
<1> QED
  BY <1>4, <1>5 DEF IInv

\* Claiming a delivery keeps the invariant.
LEMMA ClaimStep ==
  ASSUME IInv, NEW w \in Workers, NEW d \in history, claimNext(w, d)
  PROVE  IInv'
<1> ShapeOK
  BY DEF IInv
<1> DEFINE order == compareWaffoPaymentOrder(d)
           row == [pc |-> AfterOrder[order], d |-> d]
<1>1. /\ inbox[d].status = "open" /\ worker' = [worker EXCEPT ![w] = row]
      /\ inbox' = [inbox EXCEPT ![d].claim = w, ![d].live = TRUE]
      /\ UNCHANGED <<now, history, fence, asked, core, receipts, book, sched>>
  BY DEF claimNext, Claimable
<1>2. /\ order \in {"applied", "duplicate", "ignored_stale"}
      /\ AfterOrder[order] = CASE order = "applied" -> "command"
                               [] order = "duplicate" -> "cancel"
                               [] order = "ignored_stale" -> "complete"
  BY DEF AfterOrder, compareWaffoPaymentOrder
<1>3. /\ row \in WorkerRows /\ row.d = d /\ row.pc \in {"command", "cancel", "complete"}
      /\ row.pc = "cancel" => order = "duplicate"
      /\ row.pc = "complete" => order = "ignored_stale"
  BY <1>2 DEF WorkerRows, Pcs
<1>4. order = "duplicate" => d.event \in receipts
  BY DEF compareWaffoPaymentOrder, IInv, FenceOK, ShapeOK, Orderly
<1>5. order = "ignored_stale" => Acknowledgeable(d)
  BY StaleIsOvertaken DEF Acknowledgeable, IInv
<1> HIDE DEF order, row
<1>6. worker' \in [Workers -> WorkerRows] /\ Others(w) /\ worker'[w] = row
  BY <1>1, <1>3, InboxRow DEF Others
<1>7. inbox' \in [history -> InboxRows] /\ \A o \in history : inbox'[o].status = inbox[o].status
  BY <1>1, InboxRow DEF InboxRows
<1>8. d.at <= now
  BY <1>1 DEF ShapeOK
<1> QED
  BY <1>1, <1>3, <1>4, <1>5, <1>6, <1>7, <1>8, WebStep

\* Completing a delivery, retrying it, and a crash keep the invariant.
LEMMA CompleteStep ==
  ASSUME IInv, NEW w \in Workers, complete(w) \/ retry(w) \/ crash(w)
  PROVE  IInv'
<1> ShapeOK
  BY DEF IInv
<1> DEFINE d == worker[w].d
<1>1. /\ UNCHANGED <<now, history, fence, asked, core, receipts, book, sched>> /\ Rest(w)
      /\ worker[w].pc # "idle"
  BY DEF complete, retry, crash
<1>2. worker' \in [Workers -> WorkerRows] /\ Others(w) /\ worker'[w].pc = "idle"
  BY <1>1, Rested
<1>3. d \in history /\ d.at <= now
  BY <1>1, WorkerRow
<1>4. complete(w) => Acknowledgeable(d)
  BY DEF complete, IInv, WorkersOK
<1>5. \/ inbox' = inbox
      \/ complete(w) /\ inbox' = [inbox EXCEPT ![d] =
                                    [status |-> "completed", claim |-> None, live |-> FALSE]]
      \/ inbox' = [inbox EXCEPT ![d].claim = None, ![d].live = FALSE]
      \/ inbox' = [inbox EXCEPT ![d].claim = None]
  BY DEF complete, retry, crash
<1> HIDE DEF d
<1>6. /\ inbox' \in [history -> InboxRows]
      /\ \A o \in history : \/ inbox'[o].status = inbox[o].status
                            \/ complete(w) /\ o = d
  <2>1. CASE inbox' = inbox
    BY <1>3, <2>1, InboxRow
  <2>2. CASE complete(w) /\ inbox' = [inbox EXCEPT ![d] =
                                    [status |-> "completed", claim |-> None, live |-> FALSE]]
    BY <1>3, <2>2, InboxRow DEF InboxRows
  <2>3. CASE inbox' = [inbox EXCEPT ![d].claim = None, ![d].live = FALSE]
    BY <1>3, <2>3, InboxRow DEF InboxRows
  <2>4. CASE inbox' = [inbox EXCEPT ![d].claim = None]
    BY <1>3, <2>4, InboxRow DEF InboxRows
  <2> QED
    BY <1>5, <2>1, <2>2, <2>3, <2>4
<1> QED
  BY <1>1, <1>2, <1>3, <1>4, <1>6, WebStep

\* A failed call of Core keeps the invariant.
LEMMA FailedCallStep ==
  ASSUME IInv, NEW w \in Workers, callFails(w)
  PROVE  IInv'
<1> ShapeOK
  BY DEF IInv
<1>1. /\ UNCHANGED <<now, history, inbox, fence, asked, core, receipts, book, sched>>
      /\ Go(w, "retry") /\ worker[w].pc # "idle"
  BY DEF callFails
<1>2. /\ worker' \in [Workers -> WorkerRows] /\ Others(w)
      /\ worker'[w].pc = "retry" /\ worker'[w].d = worker[w].d
  BY <1>1, Went DEF Pcs
<1>3. inbox' \in [history -> InboxRows]
  BY <1>1 DEF ShapeOK, InboxRows
<1> QED
  BY <1>1, <1>2, <1>3, WorkerRow, WebStep

\* The provider is asked before the delivery is acknowledged.
LEMMA AskStep ==
  ASSUME IInv, NEW w \in Workers, cancelWaffoSubscriptionAtPeriodEnd(w)
  PROVE  IInv'
<1> ShapeOK
  BY DEF IInv
<1>1. /\ UNCHANGED <<now, history, inbox, fence, core, receipts, book, sched>>
      /\ worker[w].pc = "cancel" /\ Go(w, "complete")
      /\ asked' = asked \cup ToCancel(worker[w].d)
  BY DEF cancelWaffoSubscriptionAtPeriodEnd
<1>2. /\ worker' \in [Workers -> WorkerRows] /\ Others(w)
      /\ worker'[w].pc = "complete" /\ worker'[w].d = worker[w].d
  BY <1>1, Went DEF Pcs
<1>3. worker[w].d.event \in receipts
  BY <1>1 DEF IInv, WorkersOK
<1>4. \A d : Acknowledgeable(d) => Acknowledgeable(d)'
  BY <1>1 DEF Acknowledgeable, Overtaken
<1>5. WorkersOK'
  <2> SUFFICES ASSUME NEW v \in Workers
               PROVE  (/\ worker[v].pc \in {"upsert", "cancel"} => worker[v].d.event \in receipts
                       /\ worker[v].pc = "complete" => Acknowledgeable(worker[v].d))'
    BY DEF WorkersOK
  <2>1. CASE v = w
    BY <1>1, <1>2, <1>3, <2>1 DEF Acknowledgeable
  <2>2. CASE v # w
    <3>1. worker'[v] = worker[v]
      BY <1>2, <2>2 DEF Others
    <3>2. worker[v].pc = "complete" => Acknowledgeable(worker[v].d)
      BY DEF IInv, WorkersOK
    <3>3. worker[v].pc = "complete" => Acknowledgeable(worker'[v].d)
      BY <3>1, <3>2
    <3>4. (worker[v].pc = "complete" => Acknowledgeable(worker[v].d))'
      BY <1>1, <3>1, <3>3 DEF Acknowledgeable, Overtaken, ToCancel
    <3> QED
      BY <1>1, <3>1, <3>4 DEF IInv, WorkersOK
  <2> QED
    BY <2>1, <2>2
<1>6. InboxOK'
  BY <1>1, <1>4 DEF IInv, InboxOK
<1>7. ShapeOK'
  <2>1. CoreShaped(core)' /\ Orderly(history)' /\ Shaped(book)'
    BY <1>1 DEF ShapeOK, CoreShaped, Events, Orderly, Shaped, Later, waffoLifecycleRank
  <2>2. \A v \in Workers : worker'[v].pc # "idle" => worker'[v].d \in history /\ worker'[v].d.at <= now
    BY <1>1, <1>2 DEF ShapeOK, Others
  <2> QED
    BY <1>1, <1>2, <2>1, <2>2 DEF ShapeOK, WorkerRows
<1> QED
  BY <1>1, <1>5, <1>6, <1>7, BookSame, CoreSame, FenceSame DEF IInv

\* The payment row moves on only to a later event that Core has taken.
LEMMA UpsertStep ==
  ASSUME IInv, NEW w \in Workers, upsertWaffoSubscriptionPayment(w)
  PROVE  IInv'
<1> ShapeOK
  BY DEF IInv
<1> USE DEF IInv
<1>0. PICK d \in history : d = worker[w].d
  BY WorkerRow DEF upsertWaffoSubscriptionPayment
<1>1. /\ UNCHANGED <<now, history, inbox, asked, core, receipts, book, sched>>
      /\ worker[w].pc = "upsert" /\ Go(w, AfterUpsert(d))
      /\ fence' = IF compareWaffoPaymentOrder(d) = "applied"
                  THEN [fence EXCEPT ![d.sub] = d] ELSE fence
  BY <1>0 DEF upsertWaffoSubscriptionPayment
<1>2. AfterUpsert(d) \in {"complete", "cancel"}
  BY DEF AfterUpsert
<1>3. /\ worker' \in [Workers -> WorkerRows] /\ Others(w)
      /\ worker'[w].pc = AfterUpsert(d) /\ worker'[w].d = d
  BY <1>0, <1>1, <1>2, Went DEF Pcs
<1>4. d.event \in receipts /\ d.sub \in Subs
  BY <1>0, <1>1 DEF WorkersOK, ShapeOK, Orderly
<1>5. \A x \in history : Overtaken(x) => Overtaken(x)'
  BY <1>1, StaysOvertaken DEF Overtaken
<1>6. \A x \in history : Acknowledgeable(x) => Acknowledgeable(x)'
  BY <1>1, <1>5 DEF Acknowledgeable
<1>7. AfterUpsert(d) = "complete" => Acknowledgeable(d)
  BY <1>4, StaleIsOvertaken DEF AfterUpsert, Acknowledgeable
<1>8. WorkersOK'
  <2> SUFFICES ASSUME NEW v \in Workers
               PROVE  (/\ worker[v].pc \in {"upsert", "cancel"} => worker[v].d.event \in receipts
                       /\ worker[v].pc = "complete" => Acknowledgeable(worker[v].d))'
    BY DEF WorkersOK
  <2>1. PICK x : x = worker'[v].d
    OBVIOUS
  <2>2. worker'[v].pc \in {"upsert", "cancel"} => x.event \in receipts
    BY <1>3, <1>4, <2>1 DEF WorkersOK, Others
  <2>3. worker'[v].pc = "complete" => x \in history /\ Acknowledgeable(x)
    BY <1>3, <1>7, <2>1, WorkerRow DEF WorkersOK, Others
  <2>4. worker'[v].pc = "complete" => Acknowledgeable(x)'
    BY <1>6, <2>3
  <2>5. (worker[v].pc = "complete" => Acknowledgeable(worker[v].d))'
    BY <2>1, <2>4 DEF Acknowledgeable, Overtaken, ToCancel
  <2> QED
    BY <1>1, <2>1, <2>2, <2>5
<1>9. InboxOK'
  BY <1>1, <1>6 DEF InboxOK
<1>10. FenceOK'
  BY <1>1, <1>4 DEF FenceOK, ShapeOK
<1>11. ShapeOK'
  <2>1. CoreShaped(core)' /\ Orderly(history)' /\ Shaped(book)'
    BY <1>1 DEF ShapeOK, CoreShaped, Events, Orderly, Shaped, Later, waffoLifecycleRank
  <2>2. \A v \in Workers : worker'[v].pc # "idle" => worker'[v].d \in history /\ worker'[v].d.at <= now
    BY <1>1, <1>3, <1>0 DEF ShapeOK, Others
  <2>3. fence' \in [Subs -> history \cup {None}]
    BY <1>1 DEF ShapeOK
  <2> QED
    BY <1>1, <1>3, <2>1, <2>2, <2>3 DEF ShapeOK, WorkerRows
<1> QED
  BY <1>1, <1>8, <1>9, <1>10, <1>11, BookSame, CoreSame

-----------------------------------------------------------------------------
(* The steps of Core *)

CoreRow(r) == r = [pc |-> r.pc, d |-> r.d, todo |-> r.todo, at |-> r.at]

\* Writing a command changes that command only.
LEMMA CoreSet ==
  ASSUME ShapeOK, UNCHANGED history, NEW e \in Events(history), NEW row, CoreRow(row),
         core' = [core EXCEPT ![e] = row]
  PROVE  /\ CoreShaped(core)' /\ core'[e] = row
         /\ \A o \in Events(history) \ {e} : core'[o] = core[o]
<1>1. core = [o \in Events(history) |-> core[o]]
  BY DEF ShapeOK, CoreShaped
<1>2. /\ core'[e] = row /\ \A o \in Events(history) \ {e} : core'[o] = core[o]
      /\ core' = [o \in Events(history) |-> core'[o]]
  BY <1>1
<1>3. \A o \in Events(history) : CoreRow(core'[o])
  BY <1>2 DEF ShapeOK, CoreShaped, CoreRow
<1>4. Events(history)' = Events(history)
  BY DEF Events
<1> QED
  BY <1>2, <1>3, <1>4 DEF CoreShaped, CoreRow

\* A command in one of the steps that carry no decision.
LEMMA PlainRow ==
  ASSUME NEW pc
  PROVE  LET row == [NoCommand EXCEPT !.pc = pc] IN CoreRow(row) /\ row.pc = pc
BY DEF NoCommand, CoreRow

\* A step of Core that leaves the books and the payment row alone.
LEMMA CoreStep ==
  ASSUME IInv, UNCHANGED <<now, history, inbox, fence, asked, receipts, book, sched>>,
         NEW e \in Events(history), CoreShaped(core)',
         \A o \in Events(history) \ {e} : core'[o] = core[o], CommandOK(e)',
         worker' \in [Workers -> WorkerRows], WorkersOK',
         \A w \in Workers : worker'[w].pc # "idle" => worker'[w].d \in history /\ worker'[w].d.at <= now
  PROVE  IInv'
<1>1. CoreOK'
  <2>1. \A o \in Events(history) \ {e} : CommandOK(o)'
    BY CommandSame DEF IInv, CoreOK
  <2>2. Events(history)' = Events(history)
    BY DEF Events
  <2> QED
    BY <2>1, <2>2 DEF CoreOK
<1>2. ShapeOK'
  <2>1. Orderly(history)' /\ Shaped(book)'
    BY DEF IInv, ShapeOK, Orderly, Shaped, Later, waffoLifecycleRank
  <2> QED
    BY <2>1 DEF IInv, ShapeOK, WorkerRows
<1>3. InboxOK'
  BY InboxSame DEF IInv
<1> QED
  BY <1>1, <1>2, <1>3, BookSame, FenceSame DEF IInv

\* A worker turns to Core.
LEMMA CommandStep ==
  ASSUME IInv, NEW w \in Workers, settlePayment(w)
  PROVE  IInv'
<1> ShapeOK
  BY DEF IInv
<1>0. PICK d \in history : d = worker[w].d /\ d.at <= now /\ worker[w].pc = "command"
  BY WorkerRow DEF settlePayment
<1>1. PICK e \in Events(history) : e = d.event
  BY DEF Events
<1>2. UNCHANGED <<now, history, inbox, fence, asked, receipts, book, sched>>
  BY DEF settlePayment
<1>3. CommandOK(e)
  BY DEF IInv, CoreOK
<1>g. ASSUME NEW pc \in {"upsert", "retry", "await"}, Go(w, pc), pc = "upsert" => e \in receipts
      PROVE  /\ worker' \in [Workers -> WorkerRows] /\ WorkersOK'
             /\ \A v \in Workers :
                   worker'[v].pc # "idle" => worker'[v].d \in history /\ worker'[v].d.at <= now
  <2>1. /\ worker' \in [Workers -> WorkerRows] /\ Others(w)
        /\ worker'[w].pc = pc /\ worker'[w].d = d
    BY <1>0, <1>2, <1>g, Went DEF Pcs
  <2>2. WorkersOK'
    BY <1>1, <1>2, <1>g, <2>1, WorkersSame DEF IInv
  <2> QED
    BY <1>0, <2>1, <2>2 DEF ShapeOK, Others
<1>4. CASE UNCHANGED core
  <2>1. \/ Go(w, "upsert") /\ core[e].pc = "done"
        \/ Go(w, "retry")
    <3>1. \/ core[e].pc = "done" /\ Go(w, "upsert")
          \/ Go(w, "retry")
          \/ \E pc \in {"finish"} : core' = [core EXCEPT ![e] = [NoCommand EXCEPT !.pc = pc]]
                                    /\ core[e].pc = "none"
          \/ \E todo : /\ core[e].pc = "none"
                       /\ core' = [core EXCEPT ![e] =
                            [pc |-> IF todo.do = "upgrade" THEN "expire" ELSE "write",
                             d |-> d, todo |-> todo, at |-> now]]
      BY <1>0, <1>1 DEF settlePayment
    <3>2. \A row : CoreRow(row) /\ core' = [core EXCEPT ![e] = row] => core'[e] = row
      BY <1>2, CoreSet
    <3>3. ASSUME NEW todo, core[e].pc = "none",
                 core' = [core EXCEPT ![e] =
                            [pc |-> IF todo.do = "upgrade" THEN "expire" ELSE "write",
                             d |-> d, todo |-> todo, at |-> now]]
          PROVE  FALSE
      <4> DEFINE row == [pc |-> IF todo.do = "upgrade" THEN "expire" ELSE "write",
                         d |-> d, todo |-> todo, at |-> now]
      <4>1. CoreRow(row) /\ row.pc # "none"
        BY DEF CoreRow
      <4>2. core' = [core EXCEPT ![e] = row]
        BY <3>3
      <4> HIDE DEF row
      <4> QED
        BY <1>4, <3>2, <3>3, <4>1, <4>2
    <3>4. ~\E pc \in {"finish"} : core' = [core EXCEPT ![e] = [NoCommand EXCEPT !.pc = pc]]
                                  /\ core[e].pc = "none"
      BY <1>4, <3>2, PlainRow
    <3> QED
      BY <3>1, <3>3, <3>4
  <2>2. core[e].pc = "done" => e \in receipts
    BY <1>3 DEF CommandOK
  <2>3. /\ worker' \in [Workers -> WorkerRows] /\ WorkersOK'
        /\ \A v \in Workers :
              worker'[v].pc # "idle" => worker'[v].d \in history /\ worker'[v].d.at <= now
    BY <2>1, <2>2, <1>g
  <2>4. CommandOK(e)' /\ CoreShaped(core)'
    BY <1>2, <1>3, <1>4, CommandSame DEF ShapeOK, CoreShaped, Events
  <2> QED
    BY <1>2, <1>4, <2>3, <2>4, CoreStep
<1>5. CASE /\ core' = [core EXCEPT ![e] = [NoCommand EXCEPT !.pc = "finish"]]
           /\ Go(w, "await") /\ e \in receipts
  <2>1. PICK row : CoreRow(row) /\ row.pc = "finish" /\ core' = [core EXCEPT ![e] = row]
    BY <1>5, PlainRow
  <2>2. /\ CoreShaped(core)' /\ core'[e] = row
        /\ \A o \in Events(history) \ {e} : core'[o] = core[o]
    BY <1>2, <2>1, CoreSet
  <2>3. CommandOK(e)'
    BY <1>2, <1>5, <2>1, <2>2 DEF CommandOK
  <2> QED
    BY <1>2, <1>5, <1>g, <2>2, <2>3, CoreStep
<1>6. CASE \E todo :
             /\ todo = Decision(book, d, now) /\ todo.do \notin {"defer", "refuse"}
             /\ e \notin receipts /\ Go(w, "await")
             /\ core' = [core EXCEPT ![e] =
                   [pc |-> IF todo.do = "upgrade" THEN "expire" ELSE "write",
                    d |-> d, todo |-> todo, at |-> now]]
  <2>1. PICK todo :
             /\ todo = Decision(book, d, now) /\ todo.do \notin {"defer", "refuse"}
             /\ e \notin receipts /\ Go(w, "await")
             /\ core' = [core EXCEPT ![e] =
                   [pc |-> IF todo.do = "upgrade" THEN "expire" ELSE "write",
                    d |-> d, todo |-> todo, at |-> now]]
    BY <1>6
  <2>2. now \in Nat
    BY DEF ShapeOK
  <2>3. TodoOK(todo, d)
    BY <1>0, <1>1, <2>1, <2>2, DecisionPays
  <2> DEFINE row == [pc |-> IF todo.do = "upgrade" THEN "expire" ELSE "write",
                     d |-> d, todo |-> todo, at |-> now]
  <2>4. /\ CoreRow(row) /\ row.pc \in {"expire", "write"} /\ row.d = d /\ row.todo = todo
        /\ row.at = now
    BY DEF CoreRow
  <2>5. core' = [core EXCEPT ![e] = row]
    BY <2>1
  <2> HIDE DEF row
  <2>6. /\ CoreShaped(core)' /\ core'[e] = row
        /\ \A o \in Events(history) \ {e} : core'[o] = core[o]
    BY <1>2, <2>4, <2>5, CoreSet
  <2>7. TodoOK(todo, d)'
    BY <1>2, <2>3 DEF TodoOK, Opened, Paid
  <2>8. TodoOK(core[e].todo, core[e].d)'
    BY <2>4, <2>6, <2>7 DEF TodoOK, Paid
  <2>9. CommandOK(e)'
    BY <1>0, <1>1, <1>2, <2>1, <2>2, <2>4, <2>6, <2>8 DEF CommandOK
  <2> QED
    BY <1>2, <1>g, <2>1, <2>6, <2>9, CoreStep
<1>7. ASSUME e \notin receipts PROVE Decision(book, d, now).do # "defer"
  BY <1>0, <1>1, <1>7, DecisionPays DEF ShapeOK
<1> QED
  BY <1>0, <1>1, <1>4, <1>5, <1>6, <1>7 DEF settlePayment

\* The ledger's own transaction, the lapse of a claim.
LEMMA QuietCoreStep ==
  ASSUME IInv, NEW e \in Events(history), expireSubscriptionLots(e) \/ commandLapses(e)
  PROVE  IInv'
<1> ShapeOK
  BY DEF IInv
<1>1. UNCHANGED <<now, history, inbox, worker, fence, asked, receipts, book, sched>>
  BY DEF expireSubscriptionLots, commandLapses, web
<1>2. CommandOK(e) /\ CoreRow(core[e])
  BY DEF IInv, CoreOK, ShapeOK, CoreShaped, CoreRow
<1>3. PICK row : /\ CoreRow(row) /\ core' = [core EXCEPT ![e] = row]
                 /\ \/ row.pc = "none"
                    \/ /\ core[e].pc = "expire" /\ row.pc = "write" /\ row.d = core[e].d
                       /\ row.todo = core[e].todo /\ row.at = core[e].at
  <2>1. CASE expireSubscriptionLots(e)
    <3> DEFINE r == [core[e] EXCEPT !.pc = "write"]
    <3>1. core' = [core EXCEPT ![e] = r] /\ core[e].pc = "expire"
      BY <2>1 DEF expireSubscriptionLots
    <3>2. /\ CoreRow(r) /\ r.pc = "write" /\ r.d = core[e].d
          /\ r.todo = core[e].todo /\ r.at = core[e].at
      BY <1>2 DEF CoreRow
    <3> HIDE DEF r
    <3> QED
      BY <3>1, <3>2
  <2>2. CASE commandLapses(e)
    <3>1. CoreRow(NoCommand) /\ NoCommand.pc = "none"
      BY DEF CoreRow, NoCommand
    <3> QED
      BY <2>2, <3>1 DEF commandLapses
  <2> QED
    BY <2>1, <2>2
<1>4. /\ CoreShaped(core)' /\ core'[e] = row
      /\ \A o \in Events(history) \ {e} : core'[o] = core[o]
  BY <1>1, <1>3, CoreSet
<1>5. CommandOK(e)'
  <2>1. CASE row.pc = "none"
    BY <1>4, <2>1 DEF CommandOK
  <2>2. CASE /\ core[e].pc = "expire" /\ row.pc = "write" /\ row.d = core[e].d
             /\ row.todo = core[e].todo /\ row.at = core[e].at
    BY <1>1, <1>2, <1>4, <2>2 DEF CommandOK, TodoOK, Opened, Paid
  <2> QED
    BY <1>3, <2>1, <2>2
<1>6. WorkersOK'
  BY <1>1, WorkersStay DEF IInv
<1> QED
  BY <1>1, <1>4, <1>5, <1>6, CoreStep DEF ShapeOK, WorkerRows

\* A worker that waits hears of success only when the receipt is on the books.
LEMMA AnswerKeeps ==
  ASSUME IInv, NEW e, NEW pc \in {"upsert", "retry"}, Answer(e, pc),
         UNCHANGED <<now, history, fence, asked, receipts>>,
         pc = "upsert" => e \in receipts
  PROVE  /\ worker' \in [Workers -> WorkerRows] /\ WorkersOK'
         /\ \A w \in Workers : worker'[w].pc # "idle" => worker'[w].d \in history /\ worker'[w].d.at <= now
<1> ShapeOK
  BY DEF IInv
<1>1. /\ worker' \in [Workers -> WorkerRows]
      /\ \A w \in Workers :
            \/ worker'[w] = worker[w]
            \/ /\ worker[w].pc = "await" /\ worker[w].d.event = e
               /\ worker'[w].pc = pc /\ worker'[w].d = worker[w].d
  BY Answered DEF Pcs
<1>2. WorkersOK'
  <2> SUFFICES ASSUME NEW v \in Workers
               PROVE  (/\ worker[v].pc \in {"upsert", "cancel"} => worker[v].d.event \in receipts
                       /\ worker[v].pc = "complete" => Acknowledgeable(worker[v].d))'
    BY DEF WorkersOK
  <2>1. CASE worker'[v] = worker[v]
    BY <2>1 DEF IInv, WorkersOK, Acknowledgeable, Overtaken, ToCancel
  <2>2. CASE worker[v].d.event = e /\ worker'[v].pc = pc /\ worker'[v].d = worker[v].d
    BY <2>2
  <2> QED
    BY <1>1, <2>1, <2>2
<1>3. ASSUME NEW w \in Workers, worker'[w].pc # "idle"
      PROVE  worker'[w].d \in history /\ worker'[w].d.at <= now
  BY <1>1, <1>3 DEF ShapeOK
<1> QED
  BY <1>1, <1>2, <1>3

\* Completing a command, and a crash of Core, keep the invariant.
LEMMA FinishStep ==
  ASSUME IInv, NEW e \in Events(history), completeModuleCommand(e) \/ coreCrashes(e)
  PROVE  IInv'
<1> ShapeOK
  BY DEF IInv
<1>1. UNCHANGED <<now, history, inbox, fence, asked, receipts, book, sched>>
  BY DEF completeModuleCommand, coreCrashes
<1>2. PICK pc \in {"done", "stuck"} :
        /\ core' = [core EXCEPT ![e] = [NoCommand EXCEPT !.pc = pc]]
        /\ pc = "done" => core[e].pc = "finish" /\ Answer(e, "upsert")
        /\ pc = "stuck" => Answer(e, "retry")
  BY DEF completeModuleCommand, coreCrashes
<1>3. PICK row : CoreRow(row) /\ row.pc = pc /\ core' = [core EXCEPT ![e] = row]
  BY <1>2, PlainRow
<1>4. pc = "done" => e \in receipts
  BY <1>2 DEF IInv, CoreOK, CommandOK
<1>5. /\ CoreShaped(core)' /\ core'[e] = row
      /\ \A o \in Events(history) \ {e} : core'[o] = core[o]
  BY <1>1, <1>3, CoreSet
<1>6. CommandOK(e)'
  BY <1>1, <1>3, <1>4, <1>5 DEF CommandOK
<1>7. /\ worker' \in [Workers -> WorkerRows] /\ WorkersOK'
      /\ \A w \in Workers : worker'[w].pc # "idle" => worker'[w].d \in history /\ worker'[w].d.at <= now
  BY <1>1, <1>2, <1>4, AnswerKeeps
<1> QED
  BY <1>1, <1>5, <1>6, <1>7, CoreStep

\* The command's transaction: the receipt and what it stands for are committed
\* together, or neither is.
LEMMA CommitStep ==
  ASSUME IInv, NEW e \in Events(history), commitPayment(e)
  PROVE  IInv'
<1> ShapeOK
  BY DEF IInv
<1>1. UNCHANGED <<now, history, inbox, fence, asked, sched>> /\ core[e].pc = "write"
  BY DEF commitPayment
<1>2. CASE /\ core' = [core EXCEPT ![e] = [NoCommand EXCEPT !.pc = "stuck"]]
           /\ Answer(e, "retry") /\ UNCHANGED <<book, receipts>>
  <2>1. PICK row : CoreRow(row) /\ row.pc = "stuck" /\ core' = [core EXCEPT ![e] = row]
    BY <1>2, PlainRow
  <2>2. /\ CoreShaped(core)' /\ core'[e] = row
        /\ \A o \in Events(history) \ {e} : core'[o] = core[o]
    BY <1>1, <2>1, CoreSet
  <2>3. CommandOK(e)'
    BY <2>1, <2>2 DEF CommandOK
  <2>4. /\ worker' \in [Workers -> WorkerRows] /\ WorkersOK'
        /\ \A w \in Workers :
              worker'[w].pc # "idle" => worker'[w].d \in history /\ worker'[w].d.at <= now
    BY <1>1, <1>2, AnswerKeeps
  <2> QED
    BY <1>1, <1>2, <2>2, <2>3, <2>4, CoreStep
<1>3. CASE /\ book' \in Settled(book, core[e].todo, core[e].d, core[e].at)
           /\ receipts' = receipts \cup {e} /\ UNCHANGED worker
           /\ core' = [core EXCEPT ![e] = [NoCommand EXCEPT !.pc = "finish"]]
  <2>1. PICK d \in history : /\ d = core[e].d /\ d.event = e /\ TodoOK(core[e].todo, d)
                             /\ core[e].at \in Nat /\ d.at <= core[e].at
    BY <1>1 DEF IInv, CoreOK, CommandOK
  <2>2. /\ Grows(book, book', Opened \cup (IF d.lifecycle = "activate" THEN {d.sub} ELSE {}))
        /\ Paid(d) => PeriodOf(d.sub, d) \in book'.periods
    BY <1>3, <2>1, SettledGrows
  <2>3. /\ Opened \subseteq Opened' /\ d.sub \in Subs
        /\ d.lifecycle = "activate" => d.sub \in Opened'
    BY <1>1, <1>3, <2>1 DEF Opened, ShapeOK, Orderly
  <2>4. BookOK'
    <3>1. ASSUME NEW s \in Subs, Exists(book, s)' PROVE s \in Opened'
      <4>1. CASE s \in Opened \/ (d.lifecycle = "activate" /\ s = d.sub)
        BY <2>3, <4>1
      <4>2. CASE ~(s \in Opened \/ (d.lifecycle = "activate" /\ s = d.sub))
        <5>1. book'.subs[s] = book.subs[s]
          BY <2>2, <4>2 DEF Grows
        <5> QED
          BY <3>1, <4>2, <5>1 DEF Exists, IInv, BookOK
      <4> QED
        BY <4>1, <4>2
    <3>2. ASSUME NEW o \in history, o.event \in receipts', Paid(o)
          PROVE  PeriodOf(o.sub, o) \in book'.periods
      <4>1. CASE o.event \in receipts
        BY <2>2, <3>2, <4>1 DEF Grows, IInv, BookOK
      <4>2. CASE o.event = e
        <5>1. /\ o.sub = d.sub /\ o.lifecycle = d.lifecycle /\ o.tier = d.tier
              /\ o.interval = d.interval /\ o.at = d.at /\ o.period = d.period
          BY <2>1, <4>2 DEF ShapeOK, Orderly
        <5>2. Paid(d) /\ PeriodOf(o.sub, o) = PeriodOf(d.sub, d)
          BY <3>2, <5>1 DEF Paid, PeriodOf
        <5> QED
          BY <2>2, <5>2
      <4> QED
        BY <1>3, <3>2, <4>1, <4>2
    <3>3. (sched.left \subseteq Opened)'
      BY <1>1, <2>3 DEF IInv, BookOK
    <3> QED
      BY <1>1, <3>1, <3>2, <3>3 DEF BookOK, Paid, PeriodOf
  <2>5. PICK row : CoreRow(row) /\ row.pc = "finish" /\ core' = [core EXCEPT ![e] = row]
    BY <1>3, PlainRow
  <2>6. /\ CoreShaped(core)' /\ core'[e] = row
        /\ \A o \in Events(history) \ {e} : core'[o] = core[o]
    BY <1>1, <2>5, CoreSet
  <2>7. CoreOK'
    <3> SUFFICES ASSUME NEW o \in Events(history) PROVE CommandOK(o)'
      BY <1>1 DEF CoreOK, Events
    <3>1. CASE o = e
      BY <1>3, <2>5, <2>6, <3>1 DEF CommandOK
    <3>2. CASE o # e
      <4>1. core'[o] = core[o] /\ CommandOK(o)
        BY <2>6, <3>2 DEF IInv, CoreOK
      <4> QED
        BY <1>1, <1>3, <2>3, <3>2, <4>1 DEF CommandOK, TodoOK, Paid
    <3> QED
      BY <3>1, <3>2
  <2>8. FenceOK'
    BY <1>1, <1>3 DEF IInv, FenceOK
  <2>9. WorkersOK' /\ InboxOK'
    BY <1>1, <1>3 DEF IInv, WorkersOK, InboxOK, Acknowledgeable, Overtaken
  <2>10. ShapeOK'
    <3>1. Shaped(book)' /\ Orderly(history)'
      BY <1>1, <2>2 DEF Grows, ShapeOK, Shaped, Orderly, Later, waffoLifecycleRank
    <3> QED
      BY <1>1, <1>3, <2>6, <3>1 DEF ShapeOK
  <2> QED
    BY <2>4, <2>7, <2>8, <2>9, <2>10 DEF IInv
<1> QED
  BY <1>2, <1>3 DEF commitPayment

-----------------------------------------------------------------------------
(* The scheduler and time *)

\* The scheduler changes rows of open subscriptions only, and no period.
LEMMA SchedulerStep ==
  ASSUME IInv, \/ run \/ schedulerFails \/ timePasses
               \/ \E s \in Subs : Visit(s)
  PROVE  IInv'
<1> ShapeOK
  BY DEF IInv
<1>1. /\ UNCHANGED <<history, inbox, worker, fence, asked, core, receipts>>
      /\ now' \in Nat /\ now <= now'
  BY DEF run, schedulerFails, timePasses, Visit, cancelLapsed, grantCycle, web, ShapeOK
<1>2. /\ sched' = [left |-> sched'.left, rows |-> sched'.rows, at |-> sched'.at]
      /\ sched'.left \subseteq Opened
  <2>1. CASE run
    BY <2>1 DEF run, IInv, BookOK
  <2>2. CASE schedulerFails
    BY <2>2 DEF schedulerFails, NoRun
  <2>3. CASE UNCHANGED sched
    BY <2>3 DEF ShapeOK, IInv, BookOK
  <2>4. CASE \E s \in Subs : Visited(s)
    <3>1. PICK s \in Subs : Visited(s)
      BY <2>4
    <3>2. CASE sched.left = {s}
      BY <3>1, <3>2 DEF Visited, NoRun
    <3>3. CASE sched.left # {s}
      <4> DEFINE rows == [sched.rows EXCEPT ![s] = NoRow]
      <4>1. sched' = [sched EXCEPT !.left = sched.left \ {s}, !.rows = rows]
        BY <3>1, <3>3 DEF Visited
      <4> HIDE DEF rows
      <4>2. sched = [left |-> sched.left, rows |-> sched.rows, at |-> sched.at]
        BY DEF ShapeOK
      <4>3. sched' = [left |-> sched.left \ {s}, rows |-> rows, at |-> sched.at]
        BY <4>1, <4>2
      <4> QED
        BY <4>3 DEF IInv, BookOK
    <3> QED
      BY <3>2, <3>3
  <2>5. CASE timePasses
    BY <2>3, <2>5 DEF timePasses
  <2>6. CASE \E s \in Subs : Visit(s)
    BY <2>3, <2>4, <2>6 DEF Visit, cancelLapsed, grantCycle
  <2> QED
    BY <2>1, <2>2, <2>5, <2>6
<1>3. Opened' = Opened
  BY <1>1 DEF Opened
<1>4. /\ Shaped(book') /\ book'.periods = book.periods
      /\ \A s \in Subs : Exists(book, s)' => s \in Opened
  <2>1. CASE UNCHANGED book
    BY <2>1 DEF ShapeOK, IInv, BookOK, Exists
  <2>2. CASE \E s \in Subs : cancelLapsed(s)
    <3>1. PICK s \in Subs : cancelLapsed(s)
      BY <2>2
    <3>2. s \in Opened
      BY <3>1 DEF cancelLapsed, IInv, BookOK
    <3>3. CASE book' = book
      BY <2>1, <3>3
    <3>4. CASE book' = Cancelled(book, s)
      <4>1. PICK row : book' = Put(book, s, row)
        BY <3>4 DEF Cancelled
      <4>2. Grows(book, book', {s}) /\ book'.periods = book.periods
        BY <4>1, PutGrows DEF ShapeOK
      <4> QED
        BY <3>2, <4>2 DEF Grows, IInv, BookOK, Exists
    <3> QED
      BY <3>1, <3>3, <3>4 DEF cancelLapsed, cancelPastDue
  <2> QED
    BY <2>1, <2>2 DEF run, schedulerFails, timePasses, Visit, grantCycle
<1>5. BookOK'
  <2>1. \A d \in history : d.event \in receipts /\ Paid(d) => PeriodOf(d.sub, d) \in book'.periods
    BY <1>4 DEF IInv, BookOK
  <2> QED
    BY <1>1, <1>2, <1>3, <1>4, <2>1 DEF BookOK, Paid, PeriodOf
<1>6. CoreOK' /\ FenceOK' /\ WorkersOK' /\ InboxOK'
  BY <1>1, CoreSame, FenceSame, WorkersStay, InboxSame DEF IInv
<1>7. ShapeOK'
  <2>1. CoreShaped(core)' /\ Orderly(history)' /\ Shaped(book)'
    BY <1>1, <1>4 DEF ShapeOK, CoreShaped, Events, Orderly, Shaped, Later, waffoLifecycleRank
  <2>2. \A d \in history : d.at \in Nat
    BY DEF ShapeOK, Orderly
  <2>3. now \in Nat
    BY DEF ShapeOK
  <2>4. \A d \in history : d.at <= now => d.at <= now'
    BY <1>1, <2>2, <2>3
  <2> QED
    BY <1>1, <1>2, <2>1, <2>4 DEF ShapeOK
<1> QED
  BY <1>5, <1>6, <1>7 DEF IInv

\* Nothing happening keeps the invariant.
LEMMA StutterStep == IInv /\ UNCHANGED vars => IInv'
<1> SUFFICES ASSUME IInv, UNCHANGED vars PROVE IInv'
  OBVIOUS
<1>1. UNCHANGED <<now, history, inbox, worker, fence, asked, core, receipts, book, sched>>
  BY DEF vars
<1>2. BookOK' /\ CoreOK' /\ FenceOK' /\ WorkersOK' /\ InboxOK'
  BY <1>1, BookSame, CoreSame, FenceSame, WorkersStay, InboxSame DEF IInv
<1>3. CoreShaped(core)' /\ Orderly(history)' /\ Shaped(book)'
  BY <1>1 DEF IInv, ShapeOK, CoreShaped, Events, Orderly, Shaped, Later, waffoLifecycleRank
<1>4. ShapeOK'
  BY <1>1, <1>3 DEF IInv, ShapeOK
<1> QED
  BY <1>2, <1>4 DEF IInv

\* Every step keeps the invariant.
LEMMA NextStep == IInv /\ [Next]_vars => IInv'
BY StutterStep, ReceiveStep, ClaimStep, CompleteStep, FailedCallStep, AskStep, UpsertStep,
   CommandStep, QuietCoreStep, FinishStep, CommitStep, SchedulerStep
   DEF Next, Step, Command

\* The invariant holds at the start of every orderly history.
LEMMA InitInv ==
  ASSUME \A h \in Histories : Orderly(h)
  PROVE  Init => IInv
<1> SUFFICES ASSUME Init PROVE IInv
  OBVIOUS
<1>1. Orderly(history)
  BY DEF Init
<1>2. /\ inbox \in [history -> InboxRows] /\ \A d \in history : inbox[d].status = "unsent"
  <2> DEFINE row == [status |-> "unsent", claim |-> None, live |-> FALSE]
  <2>1. row \in InboxRows /\ row.status = "unsent"
    BY DEF InboxRows
  <2>2. inbox = [d \in history |-> row]
    BY DEF Init
  <2> HIDE DEF row
  <2> QED
    BY <2>1, <2>2
<1>3. worker \in [Workers -> WorkerRows] /\ \A w \in Workers : worker[w].pc = "idle"
  <2> DEFINE row == [pc |-> "idle", d |-> None]
  <2>1. row \in WorkerRows /\ row.pc = "idle"
    BY DEF WorkerRows, Pcs
  <2>2. worker = [w \in Workers |-> row]
    BY DEF Init
  <2> HIDE DEF row
  <2> QED
    BY <2>1, <2>2
<1>4. CoreShaped(core) /\ \A e \in Events(history) : core[e].pc = "none"
  BY DEF Init, CoreShaped, NoCommand
<1>5. /\ Shaped(book) /\ \A s \in Subs : book.subs[s] = NoRow
  BY DEF Init, Shaped
<1>6. sched = [left |-> sched.left, rows |-> sched.rows, at |-> sched.at] /\ sched.left = {}
  BY DEF Init, NoRun
<1>7. receipts = {} /\ fence \in [Subs -> history \cup {None}] /\ now \in Nat
      /\ \A s \in Subs : fence[s] = None
  BY DEF Init
<1>8. ShapeOK
  BY <1>1, <1>2, <1>3, <1>4, <1>5, <1>6, <1>7 DEF ShapeOK, InboxRows, WorkerRows
<1>9. BookOK /\ FenceOK
  BY <1>5, <1>6, <1>7 DEF BookOK, FenceOK, Exists
<1>10. CoreOK
  BY <1>4 DEF CoreOK, CommandOK
<1>11. WorkersOK /\ InboxOK
  BY <1>2, <1>3 DEF WorkersOK, InboxOK
<1> QED
  BY <1>8, <1>9, <1>10, <1>11 DEF IInv

\* For orderly histories, whatever crashed, was repeated, delayed or taken over: a
\* receipt stands for a booked payment, the payment row follows the receipts, and an
\* acknowledged delivery has been overtaken or is settled.
THEOREM PaymentInvariant ==
  ASSUME \A h \in Histories : Orderly(h)
  PROVE  Spec => []IInv
<1>1. Init => IInv
  BY InitInv
<1> QED
  BY <1>1, NextStep, PTL DEF Spec

\* Only what is settled is acknowledged to the provider.
THEOREM AcknowledgementsAreSettled ==
  ASSUME \A h \in Histories : Orderly(h)
  PROVE  Spec => []AcknowledgedIsSettled
<1>1. Spec => []IInv
  BY PaymentInvariant
<1>2. IInv => AcknowledgedIsSettled
  BY DEF IInv, BookOK, InboxOK, Acknowledgeable, AcknowledgedIsSettled
<1> QED
  BY <1>1, <1>2, PTL

-----------------------------------------------------------------------------
(* What the books pay for *)

RowShaped(r) ==
    r = [tier |-> r.tier, interval |-> r.interval, changes |-> r.changes,
         offset |-> r.offset, lineage |-> r.lineage, anchor |-> r.anchor,
         paidThrough |-> r.paidThrough, status |-> r.status, pastDueAt |-> r.pastDueAt]

\* A row counts its cycles from the start of its lineage, and is paid through only
\* where there is cover.
RowOK(r, cover) ==
    /\ RowShaped(r) /\ r.status \in {"active", "past_due", "cancelled"}
    /\ r.offset = 0 /\ r.lineage \in Subs /\ r.anchor \in Nat /\ r.paidThrough \in Nat
    /\ 0 .. r.paidThrough - 1 \subseteq cover

\* Periods are those of rows.
PeriodOK(b, p) ==
    /\ p = [sub |-> p.sub, start |-> p.start, cycles |-> p.cycles, tier |-> p.tier,
            interval |-> p.interval]
    /\ p.sub \in Subs /\ p.start \in Nat /\ p.cycles \in Nat \ {0} /\ p.tier \in Nat
    /\ Exists(b, p.sub)

PeriodsSound(b) ==
    /\ IsFiniteSet(b.periods)
    /\ \A p \in b.periods : PeriodOK(b, p)

SoundBook(b) ==
    /\ PeriodsSound(b)
    /\ \A s \in Subs : Exists(b, s) => RowOK(b.subs[s], CoveredCycles(b, s))

\* The cycles of each lineage that are paid for.
Cover(b) ==
    {x \in Subs \X Nat : \E s \in Subs :
        Exists(b, s) /\ b.subs[s].lineage = x[1] /\ x[2] \in CoveredCycles(b, s)}

\* A cycle is covered by a period of its subscription.
LEMMA CoveredIff ==
  ASSUME NEW b, NEW s, NEW i
  PROVE  i \in CoveredCycles(b, s) <=>
           \E p \in b.periods : p.sub = s /\ i \in CyclesOf(p, b.subs[s].anchor)
BY DEF CoveredCycles, PeriodsOf

\* A payment covers at least one cycle.
LEMMA CoverageType == \A interval : paidCycleCoverage(interval) \in Nat \ {0}
BY BookAssumption DEF paidCycleCoverage

\* A period covers as many cycles as it pays for, or none.
LEMMA CyclesType ==
  ASSUME NEW b, NEW p, PeriodOK(b, p), NEW anchor \in Nat
  PROVE  /\ CyclesOf(p, anchor) \subseteq Nat
         /\ \E k \in Nat : CyclesOf(p, anchor) \subseteq k .. k + p.cycles - 1
<1>1. p.start \in Nat /\ p.cycles \in Nat /\ Month \in Nat /\ Month > 0
  BY BookAssumption DEF PeriodOK
<1>2. PICK first : first = creditSubscriptionCycleIndexAt(anchor, p.start)
  OBVIOUS
<1>3. first \in Int
  <2>1. CASE p.start < anchor
    BY <1>2, <2>1 DEF creditSubscriptionCycleIndexAt
  <2>2. CASE ~(p.start < anchor)
    BY <1>1, <1>2, <2>2 DEF creditSubscriptionCycleIndexAt
  <2> QED
    BY <2>1, <2>2
<1>4. CASE first < 0
  <2>1. CyclesOf(p, anchor) = {}
    BY <1>2, <1>4 DEF CyclesOf
  <2> QED
    BY <2>1
<1>5. CASE ~(first < 0)
  <2>1. CyclesOf(p, anchor) = first .. first + p.cycles - 1
    BY <1>2, <1>5 DEF CyclesOf
  <2> QED
    BY <1>1, <1>3, <1>5, <2>1
<1> QED
  BY <1>4, <1>5

\* Covered cycles are finitely many natural numbers.
LEMMA CoveredType ==
  ASSUME NEW b, PeriodsSound(b), NEW s, b.subs[s].anchor \in Nat
  PROVE  CoveredCycles(b, s) \subseteq Nat /\ IsFiniteSet(CoveredCycles(b, s))
<1> DEFINE of == PeriodsOf(b, s)
           sets == {CyclesOf(p, b.subs[s].anchor) : p \in of}
<1>1. IsFiniteSet(of)
  BY FS_Subset DEF PeriodsOf, PeriodsSound
<1>2. IsFiniteSet(sets)
  <2> DEFINE f == [p \in of |-> CyclesOf(p, b.subs[s].anchor)]
  <2>1. f \in Surjection(of, sets)
    BY DEF Surjection
  <2> HIDE DEF of, sets, f
  <2> QED
    BY <1>1, <2>1, FS_Surjection
<1>3. \A p \in of : CyclesOf(p, b.subs[s].anchor) \subseteq Nat
  BY CyclesType DEF PeriodsSound, PeriodsOf
<1>4. \A p \in of : IsFiniteSet(CyclesOf(p, b.subs[s].anchor))
  <2> SUFFICES ASSUME NEW p \in of PROVE IsFiniteSet(CyclesOf(p, b.subs[s].anchor))
    OBVIOUS
  <2>1. PeriodOK(b, p)
    BY DEF PeriodsSound, PeriodsOf
  <2>2. PICK k \in Nat : CyclesOf(p, b.subs[s].anchor) \subseteq k .. k + p.cycles - 1
    BY <2>1, CyclesType
  <2>3. p.cycles \in Nat
    BY <2>1 DEF PeriodOK
  <2>4. IsFiniteSet(k .. k + p.cycles - 1)
    BY <2>3, FS_Interval
  <2> QED
    BY <2>2, <2>4, FS_Subset
<1>5. CoveredCycles(b, s) = UNION sets
  BY DEF CoveredCycles
<1>6. \A x \in sets : IsFiniteSet(x)
  BY <1>4
<1>7. IsFiniteSet(UNION sets)
  <2> HIDE DEF sets
  <2> QED
    BY <1>2, <1>6, FS_UNION
<1> QED
  BY <1>3, <1>5, <1>7

\* There is no gap before the cycle that a row is paid through.
LEMMA Contiguous ==
  ASSUME NEW covered, covered \subseteq Nat, IsFiniteSet(covered),
         NEW m, m = contiguousPaidThroughCycle(covered)
  PROVE  m \in Nat /\ 0 .. m - 1 \subseteq covered
<1> DEFINE n == Cardinality(covered)
           gaps == {i \in 0 .. n : i \notin covered}
<1>1. n \in Nat /\ IsFiniteSet(0 .. n) /\ Cardinality(0 .. n) = n + 1
  BY FS_CardinalityType, FS_Interval
<1>2. gaps # {} /\ IsFiniteSet(gaps)
  <2>1. ASSUME gaps = {} PROVE FALSE
    <3>1. 0 .. n \in SUBSET covered
      BY <2>1
    <3>2. Cardinality(0 .. n) <= n
      BY <3>1, FS_Subset
    <3> QED
      BY <1>1, <3>2
  <2> QED
    BY <1>1, <2>1, FS_Subset
<1>3. m = CHOOSE x \in gaps : \A y \in gaps : x <= y
  BY DEF contiguousPaidThroughCycle, Min
<1>4. \A x \in gaps : x \in Nat
  BY <1>1
<1>5. \A i \in 0 .. n : i \notin gaps => i \in covered
  OBVIOUS
<1>6. gaps \subseteq 0 .. n
  OBVIOUS
<1> HIDE DEF gaps, n
<1>7. \E x \in gaps : \A y \in gaps : x <= y
  <2> DEFINE g == [x \in gaps |-> -x]
  <2>1. \A x \in gaps : g[x] = -x /\ g[x] \in Int
    BY <1>4
  <2> HIDE DEF g
  <2>2. PICK x \in gaps : \A y \in gaps : g[y] <= g[x]
    BY <1>2, <2>1, Greatest
  <2>3. \A y \in gaps : -y <= -x
    BY <2>1, <2>2
  <2> QED
    BY <1>4, <2>3
<1>8. m \in gaps /\ \A y \in gaps : m <= y
  BY <1>3, <1>7
<1>9. m \in Nat /\ m <= n
  BY <1>1, <1>4, <1>6, <1>8
<1>10. ASSUME NEW i \in 0 .. m - 1 PROVE i \in covered
  <2>1. i \in 0 .. n /\ ~(m <= i)
    BY <1>1, <1>9
  <2> QED
    BY <1>5, <1>8, <2>1
<1> QED
  BY <1>9, <1>10

\* The plan that pays for a covered cycle is the plan of a period over it.
LEMMA LatestPeriod ==
  ASSUME NEW b, PeriodsSound(b), NEW s, NEW i \in CoveredCycles(b, s)
  PROVE  \E p \in b.periods : /\ p.sub = s /\ i \in CyclesOf(p, b.subs[s].anchor)
                              /\ paidCoverageForCycle(b, s, i) = p.tier
<1> DEFINE over == {p \in PeriodsOf(b, s) : i \in CyclesOf(p, b.subs[s].anchor)}
<1>1. over # {} /\ over \subseteq b.periods
  BY CoveredIff DEF PeriodsOf
<1>2. IsFiniteSet(over)
  BY <1>1, FS_Subset DEF PeriodsSound
<1>3. \A p \in over : p.start \in Int
  BY <1>1 DEF PeriodsSound, PeriodOK
<1>4. \E p \in over : \A o \in over : o.start <= p.start
  <2> DEFINE g == [p \in over |-> p.start]
  <2> HIDE DEF over
  <2>1. \A p \in over : g[p] = p.start /\ g[p] \in Int
    BY <1>3
  <2> HIDE DEF g
  <2>2. PICK m \in over : \A x \in over : g[x] <= g[m]
    BY <1>1, <1>2, <2>1, Greatest
  <2> QED
    BY <2>1, <2>2
<1> DEFINE latest == CHOOSE p \in over : \A o \in over : o.start <= p.start
<1>5. latest \in over
  BY <1>4
<1>6. paidCoverageForCycle(b, s, i) = latest.tier
  BY <1>1 DEF paidCoverageForCycle
<1>7. latest \in b.periods /\ latest.sub = s /\ i \in CyclesOf(latest, b.subs[s].anchor)
  BY <1>5 DEF PeriodsOf
<1> HIDE DEF latest
<1> QED
  BY <1>6, <1>7

\* A lot of a covered cycle overlaps the period that pays for it.
LEMMA CyclesMeet ==
  ASSUME NEW b, NEW p, PeriodOK(b, p), NEW anchor \in Nat, NEW i \in CyclesOf(p, anchor)
  PROVE  /\ p.start < anchor + (i + 1) * Month
         /\ anchor + i * Month < p.start + p.cycles * Month
<1>1. p.start \in Nat /\ p.cycles \in Nat /\ p.cycles > 0 /\ Month \in Nat /\ Month > 0
  BY BookAssumption DEF PeriodOK
<1>2. PICK first : first = creditSubscriptionCycleIndexAt(anchor, p.start)
  OBVIOUS
<1>3. ~(p.start < anchor)
  BY <1>1, <1>2 DEF creditSubscriptionCycleIndexAt, CyclesOf
<1>4. PICK k \in Nat : k = p.start - anchor
  BY <1>1, <1>3
<1>5. first = k \div Month
  BY <1>2, <1>3, <1>4 DEF creditSubscriptionCycleIndexAt
<1>6. first \in Nat /\ Month * first <= k /\ k < Month * first + Month
  BY <1>1, <1>4, <1>5
<1>7. ~(first < 0)
  BY <1>6
<1>8. i \in first .. first + p.cycles - 1
  BY <1>2, <1>7 DEF CyclesOf
<1>9. i \in Nat /\ first <= i /\ i + 1 <= first + p.cycles
  BY <1>1, <1>6, <1>8
<1>10. PICK f, n, m, c \in Nat : f = Month * first /\ n = i * Month /\ m = (first + p.cycles) * Month
                                 /\ c = p.cycles * Month
  <2>1. /\ Month * first \in Nat /\ i * Month \in Nat
        /\ (first + p.cycles) * Month \in Nat /\ p.cycles * Month \in Nat
    BY <1>1, <1>6, <1>9
  <2> QED
    BY <2>1
<1>11. m = f + c
  BY <1>1, <1>6, <1>10
<1>12. (i + 1) * Month = n + Month
  BY <1>1, <1>9, <1>10
<1>13. f <= n
  <2>1. Month * first <= Month * i
    BY <1>1, <1>6, <1>9, ProductMono
  <2> QED
    BY <1>1, <1>9, <1>10, <2>1
<1>14. n + Month <= m
  <2>1. Month * (i + 1) <= Month * (first + p.cycles)
    BY <1>1, <1>6, <1>9, ProductMono
  <2>2. Month * (i + 1) = n + Month /\ Month * (first + p.cycles) = m
    BY <1>1, <1>6, <1>9, <1>10
  <2> QED
    BY <2>1, <2>2
<1>15. p.start < anchor + (n + Month)
  BY <1>1, <1>4, <1>6, <1>10, <1>13
<1>16. anchor + n < p.start + c
  BY <1>1, <1>4, <1>6, <1>10, <1>11, <1>14
<1> QED
  BY <1>10, <1>12, <1>15, <1>16

-----------------------------------------------------------------------------
(* What the store's operations add to the cover *)

\* A row that goes on with the lineage and the anchor of another one.
GoesOn(r, q) ==
    /\ RowShaped(q)
    /\ q.offset = r.offset /\ q.lineage = r.lineage /\ q.anchor = r.anchor

\* Books that keep the periods, lineages and anchors of others and cover no more than
\* they and some new cycles.
Carries(b, c, new) ==
    /\ Shaped(c) /\ SoundBook(c)
    /\ b.periods \subseteq c.periods
    /\ \A s \in Subs : Exists(b, s) =>
          /\ Exists(c, s)
          /\ c.subs[s].lineage = b.subs[s].lineage /\ c.subs[s].anchor = b.subs[s].anchor
    /\ Cover(c) \subseteq Cover(b) \cup new

\* Books carry themselves.
LEMMA CarriesSelf ==
  ASSUME NEW b, Shaped(b), SoundBook(b)
  PROVE  Carries(b, b, {})
BY DEF Carries

\* Carrying composes, and so do the cycles that become covered.
LEMMA CarriesOn ==
  ASSUME NEW b, NEW c, NEW d, NEW M, NEW N, Carries(b, c, M), Carries(c, d, N)
  PROVE  Carries(b, d, M \cup N)
<1>1. b.periods \subseteq d.periods /\ Cover(d) \subseteq Cover(b) \cup (M \cup N)
  BY DEF Carries
<1>2. \A s \in Subs : Exists(b, s) =>
          /\ Exists(d, s)
          /\ d.subs[s].lineage = b.subs[s].lineage /\ d.subs[s].anchor = b.subs[s].anchor
  BY DEF Carries
<1> QED
  BY <1>1, <1>2 DEF Carries

\* A row that is not "none" exists.
LEMMA RowExists ==
  ASSUME NEW q, q.status \in {"active", "past_due", "cancelled"}
  PROVE  q # NoRow
BY DEF NoRow

\* A row is written that goes on with the one it replaces.
LEMMA RowSet ==
  ASSUME NEW b, Shaped(b), SoundBook(b), NEW s \in Subs, Exists(b, s), NEW q,
         GoesOn(b.subs[s], q), q.status \in {"active", "past_due", "cancelled"},
         q.paidThrough \in Nat, 0 .. q.paidThrough - 1 \subseteq CoveredCycles(b, s)
  PROVE  Carries(b, Put(b, s, q), {})
<1> DEFINE c == Put(b, s, q)
<1>1. /\ Shaped(c) /\ c.periods = b.periods /\ c.subs[s] = q
      /\ \A x \in Subs \ {s} : c.subs[x] = b.subs[x]
  BY DEF Put, Shaped
<1> HIDE DEF c
<1>2. q # NoRow
  BY RowExists
<1>3. \A x \in Subs : Exists(c, x) <=> Exists(b, x)
  BY <1>1, <1>2 DEF Exists
<1>4. \A x \in Subs : Exists(b, x) =>
         c.subs[x].lineage = b.subs[x].lineage /\ c.subs[x].anchor = b.subs[x].anchor
  BY <1>1 DEF GoesOn
<1>5. \A x \in Subs : Exists(b, x) => CoveredCycles(c, x) = CoveredCycles(b, x)
  BY <1>1, <1>4 DEF CoveredCycles, PeriodsOf
<1>6. PeriodsSound(c)
  BY <1>1, <1>3 DEF SoundBook, PeriodsSound, PeriodOK
<1>7. ASSUME NEW x \in Subs, Exists(c, x) PROVE RowOK(c.subs[x], CoveredCycles(c, x))
  <2>1. Exists(b, x) /\ RowOK(b.subs[x], CoveredCycles(b, x))
    BY <1>3, <1>7 DEF SoundBook
  <2>2. CASE x = s
    BY <1>1, <1>5, <2>1, <2>2 DEF RowOK, GoesOn
  <2>3. CASE x # s
    BY <1>1, <1>5, <2>1, <2>3
  <2> QED
    BY <2>2, <2>3
<1>8. Cover(c) \subseteq Cover(b)
  BY <1>3, <1>4, <1>5 DEF Cover
<1> QED
  BY <1>1, <1>3, <1>4, <1>6, <1>7, <1>8 DEF Carries, SoundBook, c

\* Rows of sound books are sound.
LEMMA RowFacts ==
  ASSUME NEW b, SoundBook(b), NEW s \in Subs, Exists(b, s)
  PROVE  RowOK(b.subs[s], CoveredCycles(b, s))
BY DEF SoundBook

\* Cancelling covers no new cycle and uncovers none.
LEMMA CancelledCarries ==
  ASSUME NEW b, Shaped(b), SoundBook(b), NEW s \in Subs, Exists(b, s)
  PROVE  Carries(b, Cancelled(b, s), {})
<1>0. PICK q : q = [b.subs[s] EXCEPT !.status = "cancelled", !.pastDueAt = None]
  OBVIOUS
<1>1. RowOK(b.subs[s], CoveredCycles(b, s))
  BY RowFacts
<1>2. GoesOn(b.subs[s], q) /\ q.paidThrough = b.subs[s].paidThrough /\ q.status = "cancelled"
  BY <1>0, <1>1 DEF RowOK, RowShaped, GoesOn
<1>3. Cancelled(b, s) = Put(b, s, q)
  BY <1>0 DEF Cancelled
<1> QED
  BY <1>1, <1>2, <1>3, RowSet DEF RowOK

\* markPastDue covers no new cycle and uncovers none.
LEMMA PastDueCarries ==
  ASSUME NEW b, Shaped(b), SoundBook(b), NEW s \in Subs, Exists(b, s), NEW at,
         NEW c \in markPastDue(b, s, at)
  PROVE  Carries(b, c, {})
<1>0. PICK q : q = [b.subs[s] EXCEPT !.status = "past_due", !.pastDueAt = at]
  OBVIOUS
<1>1. RowOK(b.subs[s], CoveredCycles(b, s))
  BY RowFacts
<1>2. GoesOn(b.subs[s], q) /\ q.paidThrough = b.subs[s].paidThrough /\ q.status = "past_due"
  BY <1>0, <1>1 DEF RowOK, RowShaped, GoesOn
<1>3. c = b \/ c = Put(b, s, q)
  BY <1>0 DEF markPastDue
<1> QED
  BY <1>1, <1>2, <1>3, RowSet, CarriesSelf DEF RowOK

\* uncancel covers no new cycle and uncovers none.
LEMMA UncancelCarries ==
  ASSUME NEW b, Shaped(b), SoundBook(b), NEW s \in Subs, NEW c \in uncancel(b, s)
  PROVE  Carries(b, c, {})
<1>0. PICK q : q = [b.subs[s] EXCEPT !.status = "active", !.pastDueAt = None, !.changes = {}]
  OBVIOUS
<1>1. Exists(b, s) /\ c = Put(b, s, q)
  BY <1>0 DEF uncancel, Live
<1>2. RowOK(b.subs[s], CoveredCycles(b, s))
  BY <1>1, RowFacts
<1>3. GoesOn(b.subs[s], q) /\ q.paidThrough = b.subs[s].paidThrough /\ q.status = "active"
  BY <1>0, <1>2 DEF RowOK, RowShaped, GoesOn
<1> QED
  BY <1>1, <1>2, <1>3, RowSet DEF RowOK

\* Scheduling a change covers no new cycle and uncovers none.
LEMMA ScheduleCarries ==
  ASSUME NEW b, Shaped(b), SoundBook(b), NEW s \in Subs, NEW plan, NEW i,
         NEW c \in scheduleChange(b, s, plan, i)
  PROVE  Carries(b, c, {})
<1>1. PICK changes : Exists(b, s) /\ c = Put(b, s, [b.subs[s] EXCEPT !.changes = changes])
  BY DEF scheduleChange, Live
<1>0. PICK q : q = [b.subs[s] EXCEPT !.changes = changes]
  OBVIOUS
<1>2. RowOK(b.subs[s], CoveredCycles(b, s))
  BY <1>1, RowFacts
<1>3. GoesOn(b.subs[s], q) /\ q.paidThrough = b.subs[s].paidThrough /\ q.status = b.subs[s].status
  BY <1>0, <1>2 DEF RowOK, RowShaped, GoesOn
<1>4. c = Put(b, s, q)
  BY <1>0, <1>1
<1> QED
  BY <1>1, <1>2, <1>3, <1>4, RowSet DEF RowOK

\* A period is booked: its cycles are covered, and no others.  The row may already
\* count on them.
LEMMA BookedCarries ==
  ASSUME NEW b, Shaped(b), PeriodsSound(b), NEW p, PeriodOK(b, p), NEW cycles,
         cycles = CyclesOf(p, b.subs[p.sub].anchor),
         \A s \in Subs : Exists(b, s) =>
            RowOK(b.subs[s], CoveredCycles(b, s) \cup (IF s = p.sub THEN cycles ELSE {})),
         NEW c \in Booked(b, p)
  PROVE  Carries(b, c, {b.subs[p.sub].lineage} \X cycles)
<1>0. PICK s \in Subs : s = p.sub /\ Exists(b, s)
  BY DEF PeriodOK
<1> DEFINE o == [b EXCEPT !.periods = @ \cup {p}]
           through == contiguousPaidThroughCycle(CoveredCycles(b, s) \cup cycles)
<1>1. c = Extended(o, s, through)
  BY <1>0 DEF Booked
<1>2. Shaped(o) /\ o.periods = b.periods \cup {p} /\ o.subs = b.subs
  BY DEF Shaped
<1> HIDE DEF o
<1>3. \A x : Exists(o, x) <=> Exists(b, x)
  BY <1>2 DEF Exists
<1>4. \A x : CoveredCycles(o, x) = CoveredCycles(b, x) \cup (IF x = s THEN cycles ELSE {})
  <2>1. \A x, i : i \in CoveredCycles(o, x) <=>
                    i \in CoveredCycles(b, x) \cup (IF x = s THEN cycles ELSE {})
    BY <1>0, <1>2 DEF CoveredCycles, PeriodsOf
  <2> QED
    BY <2>1
<1>5. PeriodsSound(o)
  BY <1>2, <1>3, FS_AddElement DEF PeriodsSound, PeriodOK
<1>6. SoundBook(o)
  BY <1>0, <1>2, <1>3, <1>4, <1>5 DEF SoundBook
<1>7. Carries(b, o, {b.subs[p.sub].lineage} \X cycles)
  <2>1. ASSUME NEW x \in Cover(o) PROVE x \in Cover(b) \cup ({b.subs[p.sub].lineage} \X cycles)
    <3>1. PICK y \in Subs : /\ x \in Subs \X Nat /\ Exists(o, y) /\ o.subs[y].lineage = x[1]
                            /\ x[2] \in CoveredCycles(o, y)
      BY <2>1 DEF Cover
    <3>2. CASE x[2] \in CoveredCycles(b, y)
      BY <1>2, <1>3, <3>1, <3>2 DEF Cover
    <3>3. CASE x[2] \notin CoveredCycles(b, y)
      <4>1. y = s /\ x[2] \in cycles
        BY <1>4, <3>1, <3>3
      <4>2. x[1] = b.subs[p.sub].lineage /\ x = <<x[1], x[2]>>
        BY <1>0, <1>2, <3>1, <4>1
      <4> QED
        BY <4>1, <4>2
    <3> QED
      BY <3>2, <3>3
  <2> QED
    BY <1>2, <1>3, <1>6, <2>1 DEF Carries
<1>8. RowOK(o.subs[s], CoveredCycles(o, s)) /\ Exists(o, s)
  BY <1>0, <1>3, <1>6 DEF SoundBook
<1>9. through \in Nat /\ 0 .. through - 1 \subseteq CoveredCycles(o, s)
  <2>1. CoveredCycles(o, s) \subseteq Nat /\ IsFiniteSet(CoveredCycles(o, s))
    BY <1>5, <1>8, CoveredType DEF RowOK
  <2>2. through = contiguousPaidThroughCycle(CoveredCycles(o, s))
    BY <1>4
  <2> HIDE DEF through
  <2> QED
    BY <2>1, <2>2, Contiguous
<1> HIDE DEF through
<1>10. Carries(o, c, {})
  <2>1. PICK q : q = [o.subs[s] EXCEPT !.paidThrough = through, !.status = "active",
                                       !.pastDueAt = None]
    OBVIOUS
  <2>2. c = o \/ c = Put(o, s, q)
    BY <1>1, <2>1 DEF Extended
  <2>3. GoesOn(o.subs[s], q) /\ q.paidThrough = through /\ q.status = "active"
    BY <1>8, <2>1 DEF RowOK, RowShaped, GoesOn
  <2> QED
    BY <1>2, <1>6, <1>8, <1>9, <2>2, <2>3, RowSet, CarriesSelf
<1> DEFINE new == {b.subs[p.sub].lineage} \X cycles
<1>11. Carries(b, o, new)
  BY <1>7
<1> HIDE DEF new
<1>12. Carries(b, c, new \cup {})
  BY <1>10, <1>11, CarriesOn
<1>13. new \cup {} = new
  OBVIOUS
<1>14. Carries(b, c, new)
  BY <1>12, <1>13
<1> QED
  BY <1>14 DEF new

\* The period of a delivery has the cycles that were paid.
LEMMA PaidPeriod ==
  ASSUME NEW b, NEW d, d.period \in Nat, d.tier \in Nat, d.sub \in Subs, Exists(b, d.sub), NEW p,
         p = PeriodOf(d.sub, d)
  PROVE  PeriodOK(b, p) /\ p.sub = d.sub /\ p.start = d.period
         /\ p.cycles = paidCycleCoverage(d.interval)
BY CoverageType DEF PeriodOf, PeriodOK

\* At most n consecutive cycles of one lineage.
Within(new, n) ==
    \E lineage \in Subs : \E k \in Nat : new \subseteq {lineage} \X (k .. k + n - 1)

\* A new period covers no more cycles than were paid.
LEMMA NewCycles ==
  ASSUME NEW b, NEW d, NEW p, PeriodOK(b, p), p.cycles = paidCycleCoverage(d.interval),
         NEW anchor \in Nat, NEW lineage \in Subs
  PROVE  Within({lineage} \X CyclesOf(p, anchor), paidCycleCoverage(d.interval))
<1>1. PICK k \in Nat : CyclesOf(p, anchor) \subseteq k .. k + p.cycles - 1
  BY CyclesType
<1> DEFINE cycles == CyclesOf(p, anchor)
           most == k .. k + paidCycleCoverage(d.interval) - 1
<1>2. cycles \subseteq most
  BY <1>1
<1> HIDE DEF cycles, most
<1>3. {lineage} \X cycles \subseteq {lineage} \X most
  BY <1>2
<1> QED
  BY <1>3 DEF Within, cycles, most

\* A payment for a row on the books.
LEMMA RecordCarries ==
  ASSUME NEW b, Shaped(b), SoundBook(b), NEW d, d.sub \in Subs, d.period \in Nat, d.tier \in Nat,
         NEW at, NEW c \in recordPaidPeriod(b, d.sub, d, at)
  PROVE  \E new : Within(new, paidCycleCoverage(d.interval)) /\ Carries(b, c, new)
<1>1. PICK p : p = PeriodOf(d.sub, d)
  OBVIOUS
<1>2. Exists(b, d.sub) /\ (c = b \/ c \in Booked(b, p))
  BY <1>1 DEF recordPaidPeriod, Live
<1>3. PeriodOK(b, p) /\ p.sub = d.sub /\ p.cycles = paidCycleCoverage(d.interval)
  BY <1>1, <1>2, PaidPeriod
<1>4. CASE c = b
  <2>1. Within({}, paidCycleCoverage(d.interval))
    BY DEF Within
  <2> QED
    BY <1>4, <2>1, CarriesSelf
<1>5. CASE c \in Booked(b, p)
  <2>1. RowOK(b.subs[d.sub], CoveredCycles(b, d.sub))
    BY <1>2, RowFacts
  <2>2. PICK cycles : cycles = CyclesOf(p, b.subs[p.sub].anchor)
    OBVIOUS
  <2>3. Within({b.subs[p.sub].lineage} \X cycles, paidCycleCoverage(d.interval))
    BY <1>3, <2>1, <2>2, NewCycles DEF RowOK
  <2>4. \A s \in Subs : Exists(b, s) =>
            RowOK(b.subs[s], CoveredCycles(b, s) \cup (IF s = p.sub THEN cycles ELSE {}))
    BY DEF SoundBook, RowOK
  <2>5. Carries(b, c, {b.subs[p.sub].lineage} \X cycles)
    BY <1>3, <1>5, <2>2, <2>4, BookedCarries DEF SoundBook
  <2> QED
    BY <2>3, <2>5
<1> QED
  BY <1>2, <1>4, <1>5

\* A subscription without a row has no covered cycles.
LEMMA NoPeriods ==
  ASSUME NEW b, PeriodsSound(b), NEW s, ~Exists(b, s)
  PROVE  CoveredCycles(b, s) = {}
BY DEF CoveredCycles, PeriodsOf, PeriodsSound, PeriodOK

\* A subscription is opened: it is paid through what its first period covers.
LEMMA OpenCarries ==
  ASSUME NEW b, Shaped(b), SoundBook(b), NEW d, d.sub \in Subs, d.period \in Nat, d.tier \in Nat,
         ~Exists(b, d.sub), NEW c \in openSubscription(b, d, 0)
  PROVE  \E new : Within(new, paidCycleCoverage(d.interval)) /\ Carries(b, c, new)
<1>1. PICK row : row = [tier |-> d.tier, interval |-> d.interval, changes |-> {},
                   offset |-> 0, lineage |-> d.sub, anchor |-> d.period,
                   paidThrough |-> paidCycleCoverage(d.interval),
                   status |-> "active", pastDueAt |-> None]
  OBVIOUS
<1>2. PICK p : p = PeriodOf(d.sub, d)
  OBVIOUS
<1>3. PICK o : o = Put(b, d.sub, row) /\ c \in Booked(o, p)
  BY <1>1, <1>2 DEF openSubscription, Then, upsert, recordInitialPaidPeriod
<1>4. /\ Shaped(o) /\ o.periods = b.periods /\ o.subs[d.sub] = row
      /\ \A x \in Subs \ {d.sub} : o.subs[x] = b.subs[x]
  BY <1>3 DEF Put, Shaped
<1>5. /\ RowShaped(row) /\ row.status = "active" /\ row.offset = 0 /\ row.lineage = d.sub
      /\ row.anchor = d.period /\ row.paidThrough = paidCycleCoverage(d.interval)
  BY <1>1 DEF RowShaped
<1>6. Exists(o, d.sub) /\ \A x \in Subs \ {d.sub} : Exists(o, x) <=> Exists(b, x)
  BY <1>4, <1>5, RowExists DEF Exists
<1>7. /\ PeriodOK(o, p) /\ p.sub = d.sub /\ p.start = d.period
      /\ p.cycles = paidCycleCoverage(d.interval)
  BY <1>2, <1>6, PaidPeriod
<1>8. PeriodsSound(o)
  BY <1>4, <1>6 DEF SoundBook, PeriodsSound, PeriodOK
<1>9. PICK cycles : cycles = CyclesOf(p, o.subs[p.sub].anchor)
  OBVIOUS
<1>10. cycles = 0 .. paidCycleCoverage(d.interval) - 1
  <2>1. creditSubscriptionCycleIndexAt(d.period, d.period) = 0
    <3>1. ~(d.period < d.period) /\ d.period - d.period = 0
      OBVIOUS
    <3>2. 0 \div Month = 0
      BY BookAssumption
    <3> QED
      BY <3>1, <3>2 DEF creditSubscriptionCycleIndexAt
  <2>2. p.cycles \in Nat
    BY <1>7 DEF PeriodOK
  <2> QED
    BY <1>4, <1>5, <1>7, <1>9, <2>1, <2>2 DEF CyclesOf
<1>11. \A x \in Subs \ {d.sub} : Exists(b, x) => CoveredCycles(o, x) = CoveredCycles(b, x)
  BY <1>4 DEF CoveredCycles, PeriodsOf
<1>12. CoveredCycles(o, d.sub) = {}
  <2>1. \A q \in b.periods : q.sub # d.sub
    BY DEF SoundBook, PeriodsSound, PeriodOK
  <2> QED
    BY <1>4, <2>1 DEF CoveredCycles, PeriodsOf
<1>13. ASSUME NEW s \in Subs, Exists(o, s)
       PROVE  RowOK(o.subs[s], CoveredCycles(o, s) \cup (IF s = p.sub THEN cycles ELSE {}))
  <2>1. CASE s = d.sub
    <3>1. row.paidThrough \in Nat
      BY <1>5, CoverageType
    <3>2. RowOK(row, cycles)
      BY <1>5, <1>10, <3>1 DEF RowOK
    <3> QED
      BY <1>4, <1>7, <1>12, <2>1, <3>2
  <2>2. CASE s # d.sub
    <3>1. RowOK(b.subs[s], CoveredCycles(b, s)) /\ Exists(b, s)
      BY <1>6, <1>13, <2>2 DEF SoundBook
    <3> QED
      BY <1>4, <1>7, <1>11, <2>2, <3>1
  <2> QED
    BY <2>1, <2>2
<1> DEFINE new == {o.subs[p.sub].lineage} \X cycles
<1>14. Carries(o, c, new)
  BY <1>3, <1>4, <1>7, <1>8, <1>9, <1>13, BookedCarries
<1>15. Within(new, paidCycleCoverage(d.interval))
  BY <1>4, <1>5, <1>7, <1>9, NewCycles
<1> HIDE DEF new
<1>16. Cover(o) \subseteq Cover(b)
  <2> SUFFICES ASSUME NEW x \in Cover(o) PROVE x \in Cover(b)
    OBVIOUS
  <2>1. PICK y \in Subs : /\ x \in Subs \X Nat /\ Exists(o, y) /\ o.subs[y].lineage = x[1]
                          /\ x[2] \in CoveredCycles(o, y)
    BY DEF Cover
  <2>2. y # d.sub
    BY <1>12, <2>1
  <2> QED
    BY <1>4, <1>6, <1>11, <2>1, <2>2 DEF Cover
<1>17. Carries(b, c, new)
  <2>1. \A s \in Subs : Exists(b, s) => Exists(o, s) /\ o.subs[s] = b.subs[s]
    BY <1>4, <1>6
  <2>2. b.periods \subseteq c.periods
    BY <1>4, <1>14 DEF Carries
  <2> QED
    BY <1>14, <1>16, <2>1, <2>2 DEF Carries
<1> QED
  BY <1>15, <1>17

\* A row goes on under another subscription, with a copy of its periods.
LEMMA CopyCarries ==
  ASSUME NEW b, Shaped(b), SoundBook(b), NEW from \in Subs, NEW to \in Subs,
         Exists(b, from), ~Exists(b, to), NEW q, GoesOn(b.subs[from], q),
         q.status = "active", q.paidThrough = b.subs[from].paidThrough, NEW c,
         c = [Put(b, to, q) EXCEPT !.periods = @ \cup {[p EXCEPT !.sub = to] : p \in PeriodsOf(b, from)}]
  PROVE  Carries(b, c, {})
<1>0. PICK moved : moved = {[p EXCEPT !.sub = to] : p \in PeriodsOf(b, from)}
  OBVIOUS
<1>1. /\ Shaped(c) /\ c.periods = b.periods \cup moved /\ c.subs[to] = q
      /\ \A x \in Subs \ {to} : c.subs[x] = b.subs[x]
  BY <1>0 DEF Put, Shaped
<1>2. Exists(c, to) /\ from # to /\ \A x \in Subs \ {to} : Exists(c, x) <=> Exists(b, x)
  BY <1>1, RowExists DEF Exists
<1>3. \A p \in PeriodsOf(b, from) : p \in b.periods /\ PeriodOK(b, p) /\ p.sub = from
  BY DEF PeriodsOf, SoundBook, PeriodsSound
<1>4. ASSUME NEW p \in PeriodsOf(b, from), NEW m, m = [p EXCEPT !.sub = to]
      PROVE  /\ m.sub = to /\ m.start = p.start /\ m.cycles = p.cycles
             /\ PeriodOK(c, m)
  BY <1>2, <1>3, <1>4 DEF PeriodOK
<1>5. \A m \in moved : m.sub = to /\ PeriodOK(c, m)
  BY <1>0, <1>4
<1>6. IsFiniteSet(moved)
  <2> DEFINE of == PeriodsOf(b, from)
             f == [p \in of |-> [p EXCEPT !.sub = to]]
  <2>1. f \in Surjection(of, moved)
    BY <1>0 DEF Surjection
  <2>2. IsFiniteSet(of)
    BY FS_Subset DEF SoundBook, PeriodsSound, PeriodsOf
  <2> HIDE DEF of, f
  <2> QED
    BY <2>1, <2>2, FS_Surjection
<1>7. PeriodsSound(c)
  <2>1. \A p \in b.periods : PeriodOK(c, p)
    BY <1>1, <1>2 DEF SoundBook, PeriodsSound, PeriodOK
  <2>2. IsFiniteSet(c.periods)
    <3>1. PICK old : old = b.periods /\ IsFiniteSet(old)
      BY DEF SoundBook, PeriodsSound
    <3>2. IsFiniteSet(old \cup moved)
      BY <1>6, <3>1, FS_Union
    <3> QED
      BY <1>1, <3>1, <3>2
  <2> QED
    BY <1>1, <1>5, <2>1, <2>2 DEF PeriodsSound
<1>8. \A p \in b.periods : p.sub # to
  BY DEF SoundBook, PeriodsSound, PeriodOK
<1>9. \A x \in Subs \ {to} : Exists(b, x) => CoveredCycles(c, x) = CoveredCycles(b, x)
  BY <1>1, <1>5 DEF CoveredCycles, PeriodsOf
<1>10. CoveredCycles(c, to) = CoveredCycles(b, from)
  <2> DEFINE a == b.subs[from].anchor
  <2>1. c.subs[to].anchor = a
    BY <1>1 DEF GoesOn
  <2> HIDE DEF a
  <2>2. \A p, m : m.start = p.start /\ m.cycles = p.cycles => CyclesOf(m, a) = CyclesOf(p, a)
    BY DEF CyclesOf
  <2>3. ASSUME NEW i \in CoveredCycles(c, to) PROVE i \in CoveredCycles(b, from)
    <3>1. PICK m \in c.periods : m.sub = to /\ i \in CyclesOf(m, a)
      BY <2>1, <2>3, CoveredIff
    <3>2. m \in moved
      BY <1>1, <1>8, <3>1
    <3>3. PICK p \in PeriodsOf(b, from) : m = [p EXCEPT !.sub = to]
      BY <1>0, <3>2
    <3>4. i \in CyclesOf(p, a)
      BY <1>4, <2>2, <3>1, <3>3
    <3> QED
      BY <1>3, <3>3, <3>4, CoveredIff DEF a
  <2>4. ASSUME NEW i \in CoveredCycles(b, from) PROVE i \in CoveredCycles(c, to)
    <3>1. PICK p \in b.periods : p.sub = from /\ i \in CyclesOf(p, a)
      BY <2>4, CoveredIff DEF a
    <3>2. p \in PeriodsOf(b, from)
      BY <3>1 DEF PeriodsOf
    <3>3. PICK m : m = [p EXCEPT !.sub = to]
      OBVIOUS
    <3>4. m \in c.periods /\ m.sub = to /\ i \in CyclesOf(m, a)
      BY <1>0, <1>1, <1>4, <2>2, <3>1, <3>2, <3>3
    <3> QED
      BY <2>1, <3>4, CoveredIff
  <2> QED
    BY <2>3, <2>4
<1>11. ASSUME NEW s \in Subs, Exists(c, s) PROVE RowOK(c.subs[s], CoveredCycles(c, s))
  <2>1. CASE s = to
    <3>1. RowOK(b.subs[from], CoveredCycles(b, from))
      BY RowFacts
    <3> QED
      BY <1>1, <1>10, <2>1, <3>1 DEF RowOK, GoesOn
  <2>2. CASE s # to
    <3>1. RowOK(b.subs[s], CoveredCycles(b, s)) /\ Exists(b, s)
      BY <1>2, <1>11, <2>2, RowFacts
    <3> QED
      BY <1>1, <1>9, <2>2, <3>1
  <2> QED
    BY <2>1, <2>2
<1>12. ASSUME NEW x \in Cover(c) PROVE x \in Cover(b)
  <2>1. PICK y \in Subs : /\ x \in Subs \X Nat /\ Exists(c, y) /\ c.subs[y].lineage = x[1]
                          /\ x[2] \in CoveredCycles(c, y)
    BY <1>12 DEF Cover
  <2>2. CASE y = to
    <3>1. /\ x[1] = b.subs[from].lineage /\ x[2] \in CoveredCycles(b, from)
      BY <1>1, <1>10, <2>1, <2>2 DEF GoesOn
    <3> QED
      BY <2>1, <3>1 DEF Cover
  <2>3. CASE y # to
    BY <1>1, <1>2, <1>9, <2>1, <2>3 DEF Cover
  <2> QED
    BY <2>2, <2>3
<1> QED
  BY <1>1, <1>2, <1>7, <1>11, <1>12 DEF Carries, SoundBook

\* Replacing a subscription covers no new cycle and uncovers none.
LEMMA ReplaceCarries ==
  ASSUME NEW b, Shaped(b), SoundBook(b), NEW from \in Subs, NEW to \in Subs, Exists(b, from),
         NEW c \in replaceSubscription(b, from, to)
  PROVE  Carries(b, c, {})
<1>1. PICK o : o = Cancelled(b, from)
  OBVIOUS
<1>2. PICK q : q = [b.subs[from] EXCEPT !.status = "active", !.pastDueAt = None]
  OBVIOUS
<1>3. /\ ~Exists(b, to)
      /\ c = [Put(o, to, q) EXCEPT !.periods = @ \cup
                {[p EXCEPT !.sub = to] : p \in PeriodsOf(b, from)}]
  BY <1>1, <1>2 DEF replaceSubscription, upsert
<1>4. Carries(b, o, {})
  BY <1>1, CancelledCarries
<1>5. Shaped(o) /\ SoundBook(o) /\ Exists(o, from) /\ from # to
  BY <1>3, <1>4 DEF Carries
<1>6. o.periods = b.periods /\ \A x \in Subs \ {from} : o.subs[x] = b.subs[x]
  BY <1>1 DEF Cancelled, Put, Shaped
<1>7. ~Exists(o, to) /\ PeriodsOf(o, from) = PeriodsOf(b, from)
  BY <1>3, <1>5, <1>6 DEF Exists, PeriodsOf
<1>8. RowOK(b.subs[from], CoveredCycles(b, from)) /\ RowOK(o.subs[from], CoveredCycles(o, from))
  BY <1>5, RowFacts
<1>9. /\ RowShaped(q) /\ q.offset = b.subs[from].offset /\ q.lineage = b.subs[from].lineage
      /\ q.anchor = b.subs[from].anchor /\ q.status = "active"
      /\ q.paidThrough = b.subs[from].paidThrough
  BY <1>2, <1>8 DEF RowOK, RowShaped
<1>10. o.subs[from] = [b.subs[from] EXCEPT !.status = "cancelled", !.pastDueAt = None]
  BY <1>1 DEF Cancelled, Put, Shaped
<1>11. o.subs[from].paidThrough = b.subs[from].paidThrough
  BY <1>8, <1>10 DEF RowOK, RowShaped
<1>12. GoesOn(o.subs[from], q)
  BY <1>4, <1>8, <1>9 DEF GoesOn, RowOK, Carries
<1>13. Carries(o, c, {})
  <2>1. c = [Put(o, to, q) EXCEPT !.periods = @ \cup
                {[p EXCEPT !.sub = to] : p \in PeriodsOf(o, from)}]
    BY <1>3, <1>7
  <2> QED
    BY <1>5, <1>7, <1>9, <1>11, <1>12, <2>1, CopyCarries
<1> QED
  BY <1>4, <1>13, CarriesOn

\* Subscriptions whose activation is on the books are those with a row.
LEMMA OpenedExist ==
  ASSUME IInv, SoundBook(book)
  PROVE  \A s \in Subs : Exists(book, s) <=> s \in Opened
<1> SUFFICES ASSUME NEW s \in Opened PROVE Exists(book, s)
  BY DEF IInv, BookOK, Opened
<1>1. PICK d \in history : d.sub = s /\ d.lifecycle = "activate" /\ d.event \in receipts
  BY DEF Opened
<1>2. Paid(d)
  BY <1>1 DEF Paid, IInv, ShapeOK, Orderly
<1>3. PeriodOf(d.sub, d) \in book.periods
  BY <1>1, <1>2 DEF IInv, BookOK
<1>4. PeriodOf(d.sub, d).sub = s
  BY <1>1 DEF PeriodOf
<1> QED
  BY <1>3, <1>4 DEF SoundBook, PeriodsSound, PeriodOK

\* What a command writes adds to the cover no more than its event pays for.
LEMMA SettledCarries ==
  ASSUME IInv, SoundBook(book), NEW d \in history, d.event \notin receipts, NEW todo,
         TodoOK(todo, d), NEW at, NEW c \in Settled(book, todo, d, at)
  PROVE  \E new : /\ Within(new, IF Paid(d) THEN paidCycleCoverage(d.interval) ELSE 0)
                  /\ Carries(book, c, new)
<1>1. /\ d.sub \in Subs /\ Shaped(book) /\ Opened \subseteq Subs
      /\ d.period \in Nat /\ d.tier \in Nat /\ d.at \in Nat /\ d.period <= d.at
  BY DEF IInv, ShapeOK, Orderly, Opened
<1>2. \A s \in Subs : Exists(book, s) <=> s \in Opened
  BY OpenedExist
<1>3. ASSUME d.lifecycle = "activate" PROVE Paid(d) /\ ~Exists(book, d.sub)
  <2>1. d.sub \notin Opened
    BY <1>3 DEF Opened, IInv, ShapeOK, Orderly
  <2> QED
    BY <1>1, <1>2, <1>3, <2>1 DEF Paid
<1>4. CASE Carries(book, c, {})
  <2>1. Within({}, IF Paid(d) THEN paidCycleCoverage(d.interval) ELSE 0)
    BY <1>1 DEF Within
  <2> QED
    BY <1>4, <2>1
<1>5. CASE todo.do = "ignore"
  <2>1. c = book
    BY <1>5 DEF Settled
  <2> QED
    BY <1>1, <1>4, <2>1, CarriesSelf
<1>6. CASE todo.do \in {"past_due", "cancel", "uncancel", "schedule"}
  <2>1. todo.sub \in Subs /\ Exists(book, todo.sub)
    BY <1>1, <1>2, <1>6 DEF TodoOK
  <2>2. CASE todo.do = "past_due"
    <3>1. c \in markPastDue(book, todo.sub, at)
      BY <2>2 DEF Settled
    <3> QED
      BY <1>1, <1>4, <2>1, <3>1, PastDueCarries
  <2>3. CASE todo.do = "cancel"
    <3>1. c = Cancelled(book, todo.sub)
      BY <2>3 DEF Settled, cancel
    <3> QED
      BY <1>1, <1>4, <2>1, <3>1, CancelledCarries
  <2>4. CASE todo.do = "uncancel"
    <3>1. c \in uncancel(book, todo.sub)
      BY <2>4 DEF Settled
    <3> QED
      BY <1>1, <1>4, <2>1, <3>1, UncancelCarries
  <2>5. CASE todo.do = "schedule"
    <3>1. c \in scheduleChange(book, todo.sub, todo.plan, todo.cycle)
      BY <2>5 DEF Settled
    <3> QED
      BY <1>1, <1>4, <2>1, <3>1, ScheduleCarries
  <2> QED
    BY <1>6, <2>2, <2>3, <2>4, <2>5
<1>7. CASE todo.do = "pay"
  <2>1. todo.sub = d.sub /\ Paid(d)
    BY <1>7 DEF TodoOK
  <2>2. c \in recordPaidPeriod(book, d.sub, d, at)
    BY <1>7, <2>1 DEF Settled
  <2> QED
    BY <1>1, <2>1, <2>2, RecordCarries
<1>8. CASE todo.do = "open"
  <2>1. c \in openSubscription(book, d, 0) /\ d.lifecycle = "activate"
    BY <1>8 DEF Settled, TodoOK
  <2> QED
    BY <1>1, <1>3, <2>1, OpenCarries
<1>9. CASE todo.do = "upgrade"
  <2>1. d.lifecycle = "activate" /\ todo.from \in Opened /\ todo.offset = 0
    BY <1>9 DEF TodoOK
  <2>2. PICK o : o = Cancelled(book, todo.from) /\ c \in openSubscription(o, d, 0)
    BY <1>9, <2>1 DEF Settled, Then, cancel
  <2>3. Carries(book, o, {}) /\ Shaped(o) /\ SoundBook(o)
    BY <1>1, <1>2, <2>1, <2>2, CancelledCarries DEF Carries
  <2>4. d.sub # todo.from /\ ~Exists(o, d.sub)
    BY <1>1, <1>2, <1>3, <2>1, <2>2 DEF Cancelled, Put, Shaped, Exists
  <2>5. PICK new : Within(new, paidCycleCoverage(d.interval)) /\ Carries(o, c, new)
    BY <1>1, <2>2, <2>3, <2>4, OpenCarries
  <2>6. Carries(book, c, {} \cup new)
    BY <2>3, <2>5, CarriesOn
  <2>7. {} \cup new = new
    OBVIOUS
  <2> QED
    BY <1>3, <2>1, <2>5, <2>6, <2>7
<1>10. CASE todo.do = "replace"
  <2>1. d.lifecycle = "activate" /\ todo.from \in Opened
    BY <1>10 DEF TodoOK
  <2> DEFINE plan == [tier |-> d.tier, interval |-> d.interval]
  <2>2. PICK r \in replaceSubscription(book, todo.from, d.sub) :
          \E o \in (IF ~todo.reschedule THEN {r} ELSE scheduleChange(r, d.sub, plan, todo.cycle)) :
             c \in recordPaidPeriod(o, d.sub, d, at)
    BY <1>10 DEF Settled, Then
  <2>3. PICK o : /\ o = r \/ o \in scheduleChange(r, d.sub, plan, todo.cycle)
                 /\ c \in recordPaidPeriod(o, d.sub, d, at)
    BY <2>2
  <2> HIDE DEF plan
  <2>4. Carries(book, r, {}) /\ Shaped(r) /\ SoundBook(r)
    BY <1>1, <1>2, <2>1, ReplaceCarries DEF Carries
  <2>5. Carries(r, o, {}) /\ Shaped(o) /\ SoundBook(o)
    BY <1>1, <2>3, <2>4, ScheduleCarries, CarriesSelf DEF Carries
  <2>6. PICK new : Within(new, paidCycleCoverage(d.interval)) /\ Carries(o, c, new)
    BY <1>1, <2>3, <2>5, RecordCarries
  <2>7. Carries(book, c, ({} \cup {}) \cup new)
    BY <2>4, <2>5, <2>6, CarriesOn
  <2>8. ({} \cup {}) \cup new = new
    OBVIOUS
  <2> QED
    BY <1>3, <2>1, <2>6, <2>7, <2>8
<1> QED
  BY <1>5, <1>6, <1>7, <1>8, <1>9, <1>10 DEF TodoOK

-----------------------------------------------------------------------------
(* The lots *)

\* No more cycles are covered than the events on the books pay for.
AccountOK ==
    /\ SoundBook(book) /\ IsFiniteSet(receipts)
    /\ IsFiniteSet(Cover(book)) /\ Cardinality(Cover(book)) <= PaidCycles

\* The rows that a run listed may be replaced by now, but what they are paid through
\* is still covered.
SchedOK ==
    \A s \in sched.left :
        /\ Exists(book, s) /\ RowOK(sched.rows[s], CoveredCycles(book, s))
        /\ sched.rows[s].lineage = book.subs[s].lineage
        /\ sched.rows[s].anchor = book.subs[s].anchor

LotShaped(l) ==
    l = [lineage |-> l.lineage, index |-> l.index, tier |-> l.tier, start |-> l.start,
         end |-> l.end, live |-> l.live]

\* A lot is one covered cycle, of a plan that pays for some of its time.
LotOK(b, l) ==
    /\ LotShaped(l) /\ <<l.lineage, l.index>> \in Cover(b)
    /\ \E p \in b.periods :
          p.tier = l.tier /\ p.start < l.end /\ l.start < p.start + p.cycles * Month

LotsOK ==
    /\ \A l \in lots : LotOK(book, l)
    /\ \A l, m \in lots : l.lineage = m.lineage /\ l.index = m.index => l = m

GrantInv == IInv /\ AccountOK /\ SchedOK /\ LotsOK

\* Books that are carried on cover what they covered.
LEMMA CoverGrows ==
  ASSUME NEW b, NEW c, NEW new, Carries(b, c, new)
  PROVE  /\ \A s \in Subs : Exists(b, s) => CoveredCycles(b, s) \subseteq CoveredCycles(c, s)
         /\ Cover(b) \subseteq Cover(c)
<1>1. ASSUME NEW s \in Subs, Exists(b, s), NEW i \in CoveredCycles(b, s)
      PROVE  i \in CoveredCycles(c, s)
  <2>1. PICK p \in b.periods : p.sub = s /\ i \in CyclesOf(p, b.subs[s].anchor)
    BY <1>1, CoveredIff
  <2>2. p \in c.periods /\ c.subs[s].anchor = b.subs[s].anchor
    BY <1>1 DEF Carries
  <2> QED
    BY <2>1, <2>2, CoveredIff
<1>2. ASSUME NEW x \in Cover(b) PROVE x \in Cover(c)
  <2>1. PICK s \in Subs : /\ x \in Subs \X Nat /\ Exists(b, s) /\ b.subs[s].lineage = x[1]
                          /\ x[2] \in CoveredCycles(b, s)
    BY <1>2 DEF Cover
  <2>2. Exists(c, s) /\ c.subs[s].lineage = x[1] /\ x[2] \in CoveredCycles(c, s)
    BY <1>1, <2>1 DEF Carries
  <2> QED
    BY <2>1, <2>2 DEF Cover
<1> QED
  BY <1>1, <1>2

\* Cycles within a bound are finitely many, and not more than the bound.
LEMMA WithinFinite ==
  ASSUME NEW new, NEW n \in Nat, Within(new, n)
  PROVE  IsFiniteSet(new) /\ Cardinality(new) <= n
<1>1. PICK lineage \in Subs, k \in Nat : new \subseteq {lineage} \X (k .. k + n - 1)
  BY DEF Within
<1>2. PICK S, T : S = {lineage} /\ T = k .. k + n - 1
  OBVIOUS
<1>3. IsFiniteSet(S) /\ Cardinality(S) = 1
  BY <1>2, FS_Singleton
<1>4. IsFiniteSet(T) /\ Cardinality(T) = n
  BY <1>2, FS_Interval
<1>5. IsFiniteSet(S \X T) /\ Cardinality(S \X T) = Cardinality(S) * Cardinality(T)
  BY <1>3, <1>4, FS_Product
<1>6. Cardinality(S \X T) = n
  BY <1>3, <1>4, <1>5
<1>7. new \in SUBSET (S \X T)
  BY <1>1, <1>2
<1> QED
  BY <1>5, <1>6, <1>7, FS_Subset

\* The events on the books pay for what their deliveries say.
LEMMA EventPays ==
  ASSUME IInv, NEW d \in history
  PROVE  CyclesPaid(d.event) = paidCycleCoverage(d.interval)
<1> DEFINE o == CHOOSE o \in Of(d.event) : TRUE
<1>1. o \in Of(d.event)
  BY DEF Of
<1>2. o \in history /\ o.event = d.event
  BY <1>1 DEF Of
<1>3. CyclesPaid(d.event) = paidCycleCoverage(o.interval)
  BY DEF CyclesPaid
<1> HIDE DEF o
<1> QED
  BY <1>2, <1>3 DEF IInv, ShapeOK, Orderly

\* The number of paid cycles is a natural number.
LEMMA PaidCyclesNat ==
  ASSUME IsFiniteSet(receipts)
  PROVE  PaidCycles \in Nat
<1>1. PICK S : S = PaidEvents
  OBVIOUS
<1>2. IsFiniteSet(S)
  BY <1>1, FS_Subset DEF PaidEvents
<1>3. PICK g : g = [e \in S |-> CyclesPaid(e)]
  OBVIOUS
<1>4. \A e \in S : g[e] \in Nat
  BY <1>3, CoverageType DEF CyclesPaid
<1>5. SumFunctionOnSet(g, S) \in Nat
  BY <1>2, <1>4, SumNat
<1>6. DOMAIN g = S
  BY <1>3
<1> QED
  BY <1>1, <1>3, <1>5, <1>6 DEF PaidCycles, SumFunction

\* A receipt adds what its event pays for.
LEMMA ReceiptPays ==
  ASSUME IInv, IsFiniteSet(receipts), NEW d \in history, d.event \notin receipts,
         receipts' = receipts \cup {d.event}, UNCHANGED history
  PROVE  PaidCycles' = PaidCycles + (IF Paid(d) THEN paidCycleCoverage(d.interval) ELSE 0)
<1>1. PICK S : S = PaidEvents
  OBVIOUS
<1>2. IsFiniteSet(S) /\ d.event \notin S
  BY <1>1, FS_Subset DEF PaidEvents
<1>3. PaidEvents' = IF Paid(d) THEN S \cup {d.event} ELSE S
  <2>1. CASE Paid(d)
    BY <1>1, <2>1 DEF PaidEvents, Paid
  <2>2. CASE ~Paid(d)
    <3>1. \A o \in history : o.event = d.event => ~Paid(o)
      BY <2>2 DEF Paid, IInv, ShapeOK, Orderly
    <3> QED
      BY <1>1, <2>2, <3>1 DEF PaidEvents, Paid
  <2> QED
    BY <2>1, <2>2
<1>4. \A e : CyclesPaid(e)' = CyclesPaid(e) /\ CyclesPaid(e) \in Nat
  BY CoverageType DEF CyclesPaid, Of
<1>5. PICK g : g = [e \in S |-> CyclesPaid(e)]
  OBVIOUS
<1>6. PaidCycles = SumFunctionOnSet(g, S)
  BY <1>1, <1>5 DEF PaidCycles, SumFunction
<1>7. CASE ~Paid(d)
  <2>1. PaidCycles' = SumFunctionOnSet(g, S)
    BY <1>3, <1>4, <1>5, <1>7 DEF PaidCycles, SumFunction
  <2> QED
    BY <1>6, <1>7, <2>1, PaidCyclesNat
<1>8. CASE Paid(d)
  <2>1. PICK T : T = S \cup {d.event}
    OBVIOUS
  <2>2. PICK h : h = [e \in T |-> CyclesPaid(e)]
    OBVIOUS
  <2>3. PaidCycles' = SumFunctionOnSet(h, T)
    BY <1>3, <1>4, <1>8, <2>1, <2>2 DEF PaidCycles, SumFunction
  <2>4. /\ \A e \in T : h[e] \in Int
        /\ \A e \in S : g[e] \in Int /\ h[e] = g[e]
    BY <1>4, <1>5, <2>1, <2>2
  <2>5. SumFunctionOnSet(h, T) = h[d.event] + SumFunctionOnSet(h, S)
    BY <1>2, <2>1, <2>4, SumInsert
  <2>6. SumFunctionOnSet(h, S) = SumFunctionOnSet(g, S)
    BY <1>2, <2>4, SumSame
  <2>7. h[d.event] = paidCycleCoverage(d.interval) /\ h[d.event] \in Nat
    BY <2>1, <2>2, EventPays, CoverageType
  <2> QED
    BY <1>6, <1>8, <2>3, <2>5, <2>6, <2>7, PaidCyclesNat
<1> QED
  BY <1>7, <1>8

\* What a run listed and what was granted stays covered as the books go on.
LEMMA CarriedLots ==
  ASSUME IInv, SchedOK, LotsOK, NEW new, Carries(book, book', new), UNCHANGED lots,
         sched'.left \subseteq sched.left,
         \A s \in sched'.left : sched'.rows[s] = sched.rows[s]
  PROVE  SchedOK' /\ LotsOK'
<1>1. /\ \A s \in Subs : Exists(book, s) => CoveredCycles(book, s) \subseteq CoveredCycles(book', s)
      /\ Cover(book) \subseteq Cover(book')
  BY CoverGrows
<1>2. ASSUME NEW s \in sched'.left
      PROVE  /\ Exists(book', s) /\ RowOK(sched'.rows[s], CoveredCycles(book', s))
             /\ sched'.rows[s].lineage = book'.subs[s].lineage
             /\ sched'.rows[s].anchor = book'.subs[s].anchor
  <2>1. s \in Subs /\ s \in sched.left
    BY DEF IInv, BookOK, Opened
  <2>2. /\ Exists(book, s) /\ RowOK(sched.rows[s], CoveredCycles(book, s))
        /\ sched.rows[s].lineage = book.subs[s].lineage
        /\ sched.rows[s].anchor = book.subs[s].anchor
    BY <2>1 DEF SchedOK
  <2>3. /\ Exists(book', s) /\ book'.subs[s].lineage = book.subs[s].lineage
        /\ book'.subs[s].anchor = book.subs[s].anchor
    BY <2>1, <2>2 DEF Carries
  <2>4. RowOK(sched.rows[s], CoveredCycles(book', s))
    BY <1>1, <2>1, <2>2 DEF RowOK
  <2> QED
    BY <2>2, <2>3, <2>4
<1>3. SchedOK'
  BY <1>2 DEF SchedOK
<1>4. ASSUME NEW l \in lots PROVE LotOK(book', l)
  <2>1. LotOK(book, l) /\ book.periods \subseteq book'.periods
    BY DEF LotsOK, Carries
  <2> QED
    BY <1>1, <2>1 DEF LotOK
<1>5. LotsOK'
  BY <1>4 DEF LotsOK
<1> QED
  BY <1>3, <1>5

\* Committing a payment keeps lots within what was paid: cycles newly covered are newly
\* paid.
LEMMA CommitGrants ==
  ASSUME GrantInv, NEW e \in Events(history), commitPayment(e)
  PROVE  AccountOK' /\ SchedOK' /\ LotsOK'
<1> IInv /\ AccountOK /\ SchedOK /\ LotsOK
  BY DEF GrantInv
<1>1. UNCHANGED <<history, lots, sched>> /\ core[e].pc = "write"
  BY DEF commitPayment
<1>2. SoundBook(book) /\ Shaped(book)
  BY DEF AccountOK, IInv, ShapeOK
<1>3. CASE UNCHANGED <<book, receipts>>
  <2>1. Carries(book, book', {})
    BY <1>2, <1>3, CarriesSelf
  <2>2. AccountOK'
    BY <1>1, <1>3 DEF AccountOK, PaidCycles, PaidEvents, CyclesPaid, Of, Paid
  <2> QED
    BY <1>1, <2>1, <2>2, CarriedLots
<1>4. CASE /\ book' \in Settled(book, core[e].todo, core[e].d, core[e].at)
           /\ receipts' = receipts \cup {e}
  <2>1. PICK d \in history : d = core[e].d /\ d.event = e /\ TodoOK(core[e].todo, d)
                             /\ e \notin receipts
    BY <1>1 DEF IInv, CoreOK, CommandOK
  <2>2. PICK n \in Nat : n = IF Paid(d) THEN paidCycleCoverage(d.interval) ELSE 0
    BY CoverageType
  <2>3. PICK new : Within(new, n) /\ Carries(book, book', new)
    BY <1>2, <1>4, <2>1, <2>2, SettledCarries
  <2>4. PaidCycles' = PaidCycles + n /\ PaidCycles \in Nat
    BY <1>1, <1>4, <2>1, <2>2, ReceiptPays, PaidCyclesNat DEF AccountOK
  <2>5. PICK C : C = Cover(book) /\ IsFiniteSet(C) /\ Cardinality(C) <= PaidCycles
    BY DEF AccountOK
  <2>6. IsFiniteSet(new) /\ Cardinality(new) <= n
    BY <2>3, WithinFinite
  <2>7. /\ IsFiniteSet(C \cup new) /\ IsFiniteSet(C \cap new)
        /\ Cardinality(C \cup new) = Cardinality(C) + Cardinality(new) - Cardinality(C \cap new)
    BY <2>5, <2>6, FS_Union, FS_Intersection
  <2>8. Cardinality(C \cup new) <= PaidCycles + n
    <3>1. /\ Cardinality(C) \in Nat /\ Cardinality(new) \in Nat /\ Cardinality(C \cap new) \in Nat
      BY <2>5, <2>6, <2>7, FS_CardinalityType
    <3> QED
      BY <2>4, <2>5, <2>6, <2>7, <3>1
  <2>9. PICK D : D = Cover(book') /\ D \in SUBSET (C \cup new)
    BY <2>3, <2>5 DEF Carries
  <2>10. IsFiniteSet(D) /\ Cardinality(D) <= PaidCycles'
    <3>1. IsFiniteSet(D) /\ Cardinality(D) <= Cardinality(C \cup new)
      BY <2>7, <2>9, FS_Subset
    <3>2. Cardinality(D) \in Nat /\ Cardinality(C \cup new) \in Nat
      BY <2>7, <3>1, FS_CardinalityType
    <3> QED
      BY <2>4, <2>8, <3>1, <3>2
  <2>11. IsFiniteSet(receipts')
    BY <1>4, FS_AddElement DEF AccountOK
  <2>12. AccountOK'
    BY <2>3, <2>9, <2>10, <2>11 DEF AccountOK, Carries
  <2> QED
    BY <1>1, <2>3, <2>12, CarriedLots
<1> QED
  BY <1>3, <1>4 DEF commitPayment

\* An upgrade ends lots; it does not grant or forget any.
LEMMA ExpiryGrants ==
  ASSUME GrantInv, NEW e \in Events(history), expireSubscriptionLots(e)
  PROVE  AccountOK' /\ SchedOK' /\ LotsOK'
<1> IInv /\ AccountOK /\ SchedOK /\ LotsOK
  BY DEF GrantInv
<1>1. UNCHANGED <<history, receipts, book, sched>>
  BY DEF expireSubscriptionLots
<1>2. AccountOK' /\ SchedOK'
  BY <1>1 DEF AccountOK, SchedOK, PaidCycles, PaidEvents, CyclesPaid, Of, Paid
<1>3. \A l \in lots' : \E o \in lots : l = o \/ l = [o EXCEPT !.live = FALSE]
  BY DEF expireSubscriptionLots
<1>4. ASSUME NEW o \in lots, NEW l, l = o \/ l = [o EXCEPT !.live = FALSE]
      PROVE  /\ LotShaped(l) /\ l.lineage = o.lineage /\ l.index = o.index /\ l.tier = o.tier
             /\ l.start = o.start /\ l.end = o.end
  BY <1>4 DEF LotsOK, LotOK, LotShaped
<1>5. ASSUME NEW l \in lots' PROVE LotOK(book, l)
  <2>1. PICK o \in lots : l = o \/ l = [o EXCEPT !.live = FALSE]
    BY <1>3, <1>5
  <2> QED
    BY <1>4, <2>1 DEF LotsOK, LotOK
<1>6. ASSUME NEW l \in lots', NEW m \in lots', l.lineage = m.lineage, l.index = m.index
      PROVE  l = m
  <2>1. PICK lineage : lots' = {IF o.lineage = lineage THEN [o EXCEPT !.live = FALSE] ELSE o : o \in lots}
    BY DEF expireSubscriptionLots
  <2>2. PICK o \in lots : l = IF o.lineage = lineage THEN [o EXCEPT !.live = FALSE] ELSE o
    BY <1>6, <2>1
  <2>3. PICK u \in lots : m = IF u.lineage = lineage THEN [u EXCEPT !.live = FALSE] ELSE u
    BY <1>6, <2>1
  <2>4. o = u
    BY <1>4, <1>6, <2>2, <2>3 DEF LotsOK
  <2> QED
    BY <2>2, <2>3, <2>4
<1> QED
  BY <1>1, <1>2, <1>5, <1>6 DEF LotsOK

\* The scheduler leaves the rows it has still to visit as they were listed.
LEMMA VisitedRows ==
  ASSUME ShapeOK, NEW s \in Subs, Visited(s)
  PROVE  /\ sched'.left \subseteq sched.left
         /\ \A x \in sched'.left : x \in Subs => sched'.rows[x] = sched.rows[x]
<1>1. CASE sched.left = {s}
  BY <1>1 DEF Visited, NoRun
<1>2. CASE sched.left # {s}
  <2> DEFINE rows == [sched.rows EXCEPT ![s] = NoRow]
  <2>1. \A x \in Subs \ {s} : rows[x] = sched.rows[x]
    OBVIOUS
  <2>2. sched' = [sched EXCEPT !.left = sched.left \ {s}, !.rows = rows]
    BY <1>2 DEF Visited
  <2> HIDE DEF rows
  <2>3. sched'.left = sched.left \ {s} /\ sched'.rows = rows
    BY <2>2 DEF ShapeOK
  <2> QED
    BY <2>1, <2>3
<1> QED
  BY <1>1, <1>2

\* Listing the rows, and a failure of the run, keep lots within what was paid.
LEMMA ListGrants ==
  ASSUME GrantInv, run \/ schedulerFails
  PROVE  AccountOK' /\ SchedOK' /\ LotsOK'
<1> IInv /\ AccountOK /\ SchedOK /\ LotsOK
  BY DEF GrantInv
<1>1. UNCHANGED <<history, receipts, book, lots>>
  BY DEF run, schedulerFails
<1>2. AccountOK' /\ LotsOK'
  BY <1>1 DEF AccountOK, LotsOK, PaidCycles, PaidEvents, CyclesPaid, Of, Paid
<1>3. CASE run
  <2>1. \A s \in sched'.left : s \in Subs /\ Exists(book, s) /\ sched'.rows[s] = book.subs[s]
    BY <1>3 DEF run
  <2>2. ASSUME NEW s \in sched'.left PROVE RowOK(book.subs[s], CoveredCycles(book, s))
    BY <2>1, RowFacts DEF AccountOK
  <2> QED
    BY <1>1, <1>2, <2>1, <2>2 DEF SchedOK
<1>4. CASE schedulerFails
  BY <1>2, <1>4 DEF schedulerFails, NoRun, SchedOK
<1> QED
  BY <1>3, <1>4

\* Cancelling a lapsed subscription keeps lots within what was paid.
LEMMA LapseGrants ==
  ASSUME GrantInv, NEW s \in Subs, cancelLapsed(s)
  PROVE  AccountOK' /\ SchedOK' /\ LotsOK'
<1> IInv /\ AccountOK /\ SchedOK /\ LotsOK
  BY DEF GrantInv
<1>1. UNCHANGED <<history, receipts, lots>> /\ s \in sched.left /\ Visited(s)
  BY DEF cancelLapsed
<1>2. SoundBook(book) /\ Shaped(book) /\ Exists(book, s)
  BY <1>1 DEF AccountOK, SchedOK, IInv, ShapeOK
<1>3. Carries(book, book', {})
  <2>1. book' = book \/ book' = Cancelled(book, s)
    BY DEF cancelLapsed, cancelPastDue
  <2> QED
    BY <1>2, <2>1, CarriesSelf, CancelledCarries
<1>4. PICK C, D : C = Cover(book) /\ D = Cover(book') /\ D \in SUBSET C /\ IsFiniteSet(C)
  BY <1>3 DEF Carries, AccountOK
<1>5. IsFiniteSet(D) /\ Cardinality(D) <= Cardinality(C)
  BY <1>4, FS_Subset
<1>6. Cardinality(D) \in Nat /\ Cardinality(C) \in Nat /\ PaidCycles \in Nat /\ Cardinality(C) <= PaidCycles
  BY <1>4, <1>5, FS_CardinalityType, PaidCyclesNat DEF AccountOK
<1>7. Cardinality(D) <= PaidCycles
  BY <1>5, <1>6
<1>8. PaidCycles' = PaidCycles
  BY <1>1 DEF PaidCycles, PaidEvents, CyclesPaid, Of, Paid
<1>9. AccountOK'
  BY <1>1, <1>3, <1>4, <1>5, <1>7, <1>8 DEF AccountOK, Carries
<1>10. sched'.left \subseteq sched.left /\ \A x \in sched'.left : sched'.rows[x] = sched.rows[x]
  BY <1>1, VisitedRows DEF IInv, BookOK, Opened
<1> QED
  BY <1>1, <1>3, <1>9, <1>10, CarriedLots

\* A lot is granted for a cycle that has none.
LEMMA CycleGrants ==
  ASSUME GrantInv, NEW s \in Subs, grantCycle(s)
  PROVE  AccountOK' /\ SchedOK' /\ LotsOK'
<1> IInv /\ AccountOK /\ SchedOK /\ LotsOK
  BY DEF GrantInv
<1>1. UNCHANGED <<history, receipts, book>> /\ s \in sched.left
  BY DEF grantCycle
<1>2. PICK row : row = sched.rows[s]
  OBVIOUS
<1>3. PICK i \in Ungranted(row, sched.at) :
        /\ lots' = lots \cup {LotOf(row, i, paidCoverageForCycle(book, s, i))}
        /\ Visited(s) \/ UNCHANGED sched
  BY <1>2 DEF grantCycle
<1>4. PICK lot : lot = LotOf(row, i, paidCoverageForCycle(book, s, i))
  OBVIOUS
<1>5. /\ Exists(book, s) /\ RowOK(row, CoveredCycles(book, s))
      /\ row.lineage = book.subs[s].lineage /\ row.anchor = book.subs[s].anchor
  BY <1>1, <1>2 DEF SchedOK
<1>6. PeriodsSound(book)
  BY DEF AccountOK, SoundBook
<1>7. /\ i \in 0 .. row.paidThrough - 1 /\ i \in Nat /\ i \in CoveredCycles(book, s)
      /\ ~\E l \in lots : l.lineage = row.lineage /\ l.index = row.offset + i
  BY <1>5 DEF RowOK, Ungranted, dueCreditSubscriptionCycles
<1>8. PICK p \in book.periods : /\ p.sub = s /\ i \in CyclesOf(p, row.anchor)
                                /\ paidCoverageForCycle(book, s, i) = p.tier
  BY <1>5, <1>6, <1>7, LatestPeriod
<1>9. PeriodOK(book, p) /\ p.tier \in Nat /\ p.tier # None
  BY <1>6, BookAssumption DEF PeriodsSound, PeriodOK
<1>10. /\ p.start < row.anchor + (i + 1) * Month
       /\ row.anchor + i * Month < p.start + p.cycles * Month
  BY <1>5, <1>8, <1>9, CyclesMeet DEF RowOK
<1>11. /\ LotShaped(lot) /\ lot.lineage = row.lineage /\ lot.index = i /\ lot.tier = p.tier
       /\ lot.start = row.anchor + i * Month /\ lot.end = row.anchor + (i + 1) * Month
  <2>1. row.offset + i = i
    BY <1>5, <1>7 DEF RowOK
  <2> QED
    BY <1>4, <1>8, <1>9, <2>1 DEF LotOf, LotShaped, CycleStart
<1>12. LotOK(book, lot)
  <2>1. <<lot.lineage, lot.index>> \in Cover(book)
    <3>1. row.lineage \in Subs
      BY <1>5 DEF RowOK
    <3> QED
      BY <1>5, <1>7, <1>11, <3>1 DEF Cover
  <2>2. p.tier = lot.tier /\ p.start < lot.end /\ lot.start < p.start + p.cycles * Month
    BY <1>10, <1>11
  <2> QED
    BY <1>11, <2>1, <2>2 DEF LotOK
<1>13. \A l \in lots : ~(l.lineage = lot.lineage /\ l.index = lot.index)
  BY <1>5, <1>7, <1>11 DEF RowOK
<1>14. LotsOK'
  BY <1>1, <1>3, <1>4, <1>12, <1>13 DEF LotsOK
<1>15. AccountOK'
  BY <1>1 DEF AccountOK, PaidCycles, PaidEvents, CyclesPaid, Of, Paid
<1>16. sched'.left \subseteq sched.left /\ \A x \in sched'.left : sched'.rows[x] = sched.rows[x]
  BY <1>3, VisitedRows DEF IInv, BookOK, Opened
<1>17. SchedOK'
  BY <1>1, <1>16 DEF SchedOK
<1> QED
  BY <1>14, <1>15, <1>17

\* Steps that touch neither books nor lots keep lots within what was paid.
LEMMA QuietGrants ==
  ASSUME GrantInv, UNCHANGED <<history, receipts, book, lots, sched>>
  PROVE  AccountOK' /\ SchedOK' /\ LotsOK'
BY DEF GrantInv, AccountOK, SchedOK, LotsOK, PaidCycles, PaidEvents, CyclesPaid, Of, Paid

\* Every step keeps lots within what was paid.
LEMMA GrantStep == GrantInv /\ [Next]_vars => GrantInv'
<1> SUFFICES ASSUME GrantInv, [Next]_vars PROVE AccountOK' /\ SchedOK' /\ LotsOK'
  BY NextStep DEF GrantInv
<1>1. CASE \E e \in Events(history) : expireSubscriptionLots(e) \/ commitPayment(e)
  BY <1>1, ExpiryGrants, CommitGrants
<1>2. CASE run \/ schedulerFails
  BY <1>2, ListGrants
<1>3. CASE \E s \in Subs : Visit(s)
  BY <1>3, LapseGrants, CycleGrants DEF Visit
<1>4. CASE UNCHANGED <<history, receipts, book, lots, sched>>
  BY <1>4, QuietGrants
<1>5. CASE UNCHANGED vars
  BY <1>4, <1>5 DEF vars
<1>6. CASE \E d \in history : receive(d) \/ leaseExpires(d)
  BY <1>4, <1>6 DEF receive, leaseExpires
<1>7. CASE \E w \in Workers : \/ \E d \in history : claimNext(w, d)
                              \/ Step(w) \/ callFails(w) \/ crash(w)
  BY <1>4, <1>7 DEF claimNext, Step, callFails, crash, complete, retry, settlePayment,
     upsertWaffoSubscriptionPayment, cancelWaffoSubscriptionAtPeriodEnd
<1>8. CASE \E e \in Events(history) : completeModuleCommand(e) \/ commandLapses(e) \/ coreCrashes(e)
  BY <1>4, <1>8 DEF completeModuleCommand, commandLapses, coreCrashes
<1>9. CASE timePasses
  BY <1>4, <1>9 DEF timePasses
<1> QED
  BY <1>1, <1>2, <1>3, <1>5, <1>6, <1>7, <1>8, <1>9 DEF Next, Command

\* At the start of every orderly history nothing is granted and nothing paid.
LEMMA GrantInit ==
  ASSUME \A h \in Histories : Orderly(h)
  PROVE  Init => GrantInv
<1> SUFFICES ASSUME Init PROVE AccountOK /\ SchedOK /\ LotsOK
  BY InitInv DEF GrantInv
<1>1. book.periods = {} /\ \A s \in Subs : ~Exists(book, s)
  BY DEF Init, Exists
<1>2. receipts = {} /\ lots = {} /\ sched.left = {}
  BY DEF Init, NoRun
<1>3. SoundBook(book) /\ IsFiniteSet(receipts)
  BY <1>1, <1>2, FS_EmptySet DEF SoundBook, PeriodsSound
<1>4. Cover(book) = {}
  BY <1>1 DEF Cover
<1>5. IsFiniteSet(Cover(book)) /\ Cardinality(Cover(book)) = 0
  BY <1>4, FS_EmptySet
<1>6. PaidCycles \in Nat
  BY <1>3, PaidCyclesNat
<1>7. AccountOK
  BY <1>3, <1>5, <1>6 DEF AccountOK
<1> QED
  BY <1>2, <1>7 DEF SchedOK, LotsOK

\* One lot for each covered cycle at most, and one covered cycle for each paid one.
LEMMA LotsCounted == GrantInv => LotsArePaid
<1> SUFFICES ASSUME GrantInv PROVE LotsArePaid
  OBVIOUS
<1>1. PICK C : C = Cover(book) /\ IsFiniteSet(C) /\ Cardinality(C) <= PaidCycles
  BY DEF GrantInv, AccountOK
<1>2. PICK f : f = [l \in lots |-> <<l.lineage, l.index>>]
  OBVIOUS
<1>3. f \in Injection(lots, C)
  <2>1. f \in [lots -> C]
    BY <1>1, <1>2 DEF GrantInv, LotsOK, LotOK
  <2>2. \A l, m \in lots : f[l] = f[m] => l = m
    BY <1>2 DEF GrantInv, LotsOK
  <2> QED
    BY <2>1, <2>2 DEF Injection, IsInjective
<1>4. IsFiniteSet(lots) /\ Cardinality(lots) <= Cardinality(C)
  BY <1>1, <1>3, FS_Injection
<1>5. Cardinality(lots) \in Nat /\ Cardinality(C) \in Nat /\ PaidCycles \in Nat
  BY <1>1, <1>4, FS_CardinalityType, PaidCyclesNat DEF GrantInv, AccountOK
<1>6. Cardinality(lots) <= PaidCycles
  BY <1>1, <1>4, <1>5
<1> QED
  BY <1>6 DEF LotsArePaid, GrantInv, LotsOK, LotOK

\* Credits are granted only for what was paid: for every orderly history, whatever the
\* order of the events, and although the scheduler goes by rows that it listed earlier,
\* there are no more lots than paid cycles, and each is of a plan paid for its time.
THEOREM CreditsArePaidFor ==
  ASSUME \A h \in Histories : Orderly(h)
  PROVE  Spec => []LotsArePaid
<1>1. Init => GrantInv
  BY GrantInit
<1> QED
  BY <1>1, GrantStep, LotsCounted, PTL DEF Spec
=============================================================================
