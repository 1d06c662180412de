\* One worker and one fault: an error answer that hides an acceptance.
CONSTANTS
  w1 = w1  w2 = w2
  None = None
  Workers <- OneWorker
  MaxSeq = 2
  RetryLimit = 2
  MaxFaults = 1
  Cancels = FALSE
SPECIFICATION Spec
INVARIANT NoBlindRetry
CHECK_DEADLOCK FALSE
