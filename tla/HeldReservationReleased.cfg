\* An answer that was read before the refund resumes the workflow after it.
CONSTANTS
  m1 = m1  m2 = m2  s1 = s1  s2 = s2  r1 = r1
  Merchants <- OneMerchant
  Sweepers <- OneSweeper
  Reconcilers <- OneReconciler
  Typed = FALSE
  HoldTimeout = FALSE
  MaxAttempts = 2
  MaxFaults = 0
SPECIFICATION Spec
PROPERTIES
  ReleasedNeverResumes
CHECK_DEADLOCK FALSE
