---------------------------- MODULE MCPlanPayment -----------------------------
(* PlanPayment for TLC: two workers and histories of a few deliveries. *)
EXTENDS PlanPayment

CONSTANTS a, b

TwoWorkers == {1, 2}
TwoSubs == {a, b}

Delivery(event, sub, lifecycle, tier, interval, at, period, replaces) ==
    [event |-> event, sub |-> sub, lifecycle |-> lifecycle, tier |-> tier,
     interval |-> interval, at |-> at, period |-> period, replaces |-> replaces,
     delivery |-> 1]

Started == Delivery(1, a, "activate", 1, "monthly", 0, 0, None)

\* The second month is paid only after a failure, and perhaps too late.
PastDue == {Started, Delivery(2, a, "past_due", 1, "monthly", 2, 2, None),
            Delivery(3, a, "renew", 1, "monthly", 3, 2, None)}

\* The third month's payment may overtake the second's.
Renewals == {Started, Delivery(2, a, "renew", 1, "monthly", 2, 2, None),
             Delivery(3, a, "renew", 1, "monthly", 4, 4, None)}

\* In the middle of a year the merchant changes to a higher plan.
Upgrade == {Delivery(1, a, "activate", 1, "yearly", 0, 0, None),
            Delivery(2, b, "activate", 2, "monthly", 1, 1, a),
            Delivery(3, a, "expire", 1, "yearly", 4, 0, None)}

\* A lower plan from the next month on.
Downgrade == {Delivery(1, a, "activate", 2, "monthly", 0, 0, None),
              Delivery(2, b, "activate", 1, "monthly", 2, 2, a)}

\* The merchant changes his mind about leaving.
Uncancel == {Started, Delivery(2, a, "cancel_at_period_end", 1, "monthly", 1, 0, None),
             Delivery(3, a, "uncancel_at_period_end", 1, "monthly", 1, 0, None)}

\* A single month, which ends by itself.
OneMonth == {Delivery(1, a, "activate", 1, "single_month", 0, 0, None),
             Delivery(2, a, "expire", 1, "single_month", 2, 2, None)}

\* One event under two delivery ids.
Repeated == OneMonth \cup {[d EXCEPT !.delivery = 2] : d \in {o \in OneMonth : o.event = 1}}

\* A renewal that is delivered before its month begins.
Early == {Started, Delivery(2, a, "renew", 1, "monthly", 1, 2, None)}

AllHistories == {PastDue, Renewals, Upgrade, Downgrade, Uncancel, Repeated}
LiveHistories == {PastDue, Downgrade, OneMonth}
EarlyHistory == {Early}

\* All but the early renewal are what the theorem about acknowledgements asks for.
ASSUME HistoriesAreOrderly ==
    /\ \A h \in AllHistories \cup LiveHistories : Orderly(h)
    /\ ~Orderly(Early)
=============================================================================
