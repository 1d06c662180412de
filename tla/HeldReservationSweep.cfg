\* The hold has its timer; two sweepers and a reconciler race it and the merchant.
CONSTANTS
  m1 = m1  m2 = m2  s1 = s1  s2 = s2  r1 = r1
  Merchants <- OneMerchant
  Sweepers <- TwoSweepers
  Reconcilers <- OneReconciler
  Typed = FALSE
  HoldTimeout = TRUE
  MaxAttempts = 2
  MaxFaults = 1
SPECIFICATION FairSpec
INVARIANTS
  OneResolution
  OutcomeIsRecorded
  SweptIsOver
PROPERTIES
  LateAnswerIsHonoured
CHECK_DEADLOCK FALSE
