CONSTANTS
  a = a  b = b
  None = None
  Subs <- TwoSubs
  Workers <- TwoWorkers
  Histories <- EarlyHistory
  Month = 2
  YearCycles = 2
  MaxNow = 2
  Grace = 1
  MaxFaults = 0
SPECIFICATION Spec
CHECK_DEADLOCK FALSE
INVARIANT DeferralIsRetried
