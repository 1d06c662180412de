\* The workflow's own timer against two requests of the merchant and the reconciler.
CONSTANTS
  m1 = m1  m2 = m2  s1 = s1  s2 = s2  r1 = r1
  Merchants <- TwoMerchants
  Sweepers <- Nobody
  Reconcilers <- OneReconciler
  Typed = FALSE
  HoldTimeout = TRUE
  MaxAttempts = 2
  MaxFaults = 2
SPECIFICATION FairSpec
INVARIANTS
  OneWork
PROPERTIES
  AnswerReachesWorkflow
  HoldEnds
CHECK_DEADLOCK FALSE
