\* The workflow goes on with one answer and a second answer starts its successor.
CONSTANTS
  m1 = m1  m2 = m2  s1 = s1  s2 = s2  r1 = r1
  Merchants <- TwoMerchants
  Sweepers <- OneSweeper
  Reconcilers <- OneReconciler
  Typed = FALSE
  HoldTimeout = FALSE
  MaxAttempts = 2
  MaxFaults = 0
SPECIFICATION Spec
INVARIANTS
  OneWork
CHECK_DEADLOCK FALSE
