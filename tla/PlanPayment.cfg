CONSTANTS
  a = a  b = b
  None = None
  Subs <- TwoSubs
  Workers <- TwoWorkers
  Histories <- AllHistories
  Month = 2
  YearCycles = 2
  MaxNow = 4
  Grace = 1
  MaxFaults = 1
SPECIFICATION Spec
CHECK_DEADLOCK FALSE
INVARIANTS
  AcknowledgedIsSettled
  LotsArePaid
