\* One worker and one fault: it dies after the ledger's settlement, before its record.
CONSTANTS
  w1 = w1  w2 = w2
  None = None
  Workers <- OneWorker
  MaxSeq = 2
  RetryLimit = 2
  MaxFaults = 1
  Cancels = FALSE
SPECIFICATION Spec
PROPERTY RecoveredIsUsed
CHECK_DEADLOCK FALSE
