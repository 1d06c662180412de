\* A payment that may come after its grace, a lower plan and a single month.
CONSTANTS
  a = a  b = b
  None = None
  Subs <- TwoSubs
  Workers <- TwoWorkers
  Histories <- LiveHistories
  Month = 2
  YearCycles = 2
  MaxNow = 3
  Grace = 1
  MaxFaults = 1
SPECIFICATION FairSpec
PROPERTIES
  ScheduleKept
  DeliveryEnds
CHECK_DEADLOCK FALSE
