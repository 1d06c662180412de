---------------------------- MODULE WorkOutcome ----------------------------
(***************************************************************************)
(* What a merchant is promised about a paid Work, whoever settles it and   *)
(* however often: the refund is decided once, paid in full, and the Work   *)
(* is closed only after it was paid.                                       *)
(***************************************************************************)
CONSTANT Refunds        \* the refunds the frozen contract allows
VARIABLES phase, refund, paid

vars == <<phase, refund, paid>>

Init == phase = "open" /\ refund = 0 /\ paid = 0

Decide ==
  /\ phase = "open"
  /\ phase' = "decided"
  /\ refund' \in Refunds
  /\ UNCHANGED paid

Pay == phase # "open" /\ paid' = refund /\ UNCHANGED <<phase, refund>>

Close ==
  /\ phase = "decided" /\ paid = refund
  /\ phase' = "closed"
  /\ UNCHANGED <<refund, paid>>

Next == Decide \/ Pay \/ Close

Spec == Init /\ [][Next]_vars
=============================================================================
