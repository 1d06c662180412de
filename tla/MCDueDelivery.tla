--------------------------- MODULE MCDueDelivery ----------------------------
(* DueDelivery for TLC: two workers. *)
EXTENDS DueDelivery

CONSTANTS w1, w2

TwoWorkers == {w1, w2}

=============================================================================
