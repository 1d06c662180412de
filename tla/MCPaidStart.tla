---------------------------- MODULE MCPaidStart ----------------------------
(* Small instances of PaidStart for TLC. *)
EXTENDS PaidStart

CONSTANTS s1, s2

MCStarters == {s1, s2}
=============================================================================
