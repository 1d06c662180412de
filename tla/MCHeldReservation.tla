-------------------------- MODULE MCHeldReservation --------------------------
(* Instances of HeldReservation for TLC. *)
EXTENDS HeldReservation

CONSTANTS m1, m2, s1, s2, r1

OneMerchant == {m1}
TwoMerchants == {m1, m2}
OneSweeper == {s1}
TwoSweepers == {s1, s2}
OneReconciler == {r1}
Nobody == {}
=============================================================================
