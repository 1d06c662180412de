---------------------------- MODULE UsageAccount ----------------------------
(***************************************************************************)
(* What the credit ledger promises the settlement of a task, lots and      *)
(* clocks forgotten: an operation is charged once, refunds of it only add  *)
(* up and never exceed the charge, and an acknowledged refund is posted.   *)
(***************************************************************************)
EXTENDS Integers

CONSTANT Ops
VARIABLES charged, refunded, acknowledged

vars == <<charged, refunded, acknowledged>>

Init ==
  /\ charged = [op \in Ops |-> 0]
  /\ refunded = [op \in Ops |-> 0]
  /\ acknowledged = [op \in Ops |-> 0]

Charge(op) ==
  /\ charged[op] = 0
  /\ charged'[op] \in Nat \ {0}
  /\ charged' = [charged EXCEPT ![op] = charged'[op]]
  /\ UNCHANGED <<refunded, acknowledged>>

Refund(op) ==
  /\ refunded'[op] \in refunded[op]..charged[op]
  /\ refunded' = [refunded EXCEPT ![op] = refunded'[op]]
  /\ acknowledged'[op] \in 0..refunded'[op]
  /\ acknowledged' = [acknowledged EXCEPT ![op] = acknowledged'[op]]
  /\ UNCHANGED charged

Next == \E op \in Ops : Charge(op) \/ Refund(op)

Spec == Init /\ [][Next]_vars
=============================================================================
