\* One failed transaction of a sweeper leaves the workflow waiting for ever.
CONSTANTS
  m1 = m1  m2 = m2  s1 = s1  s2 = s2  r1 = r1
  Merchants <- Nobody
  Sweepers <- OneSweeper
  Reconcilers <- OneReconciler
  Typed = FALSE
  HoldTimeout = FALSE
  MaxAttempts = 2
  MaxFaults = 1
SPECIFICATION FairSpec
PROPERTIES
  SweptHoldEnds
CHECK_DEADLOCK FALSE
