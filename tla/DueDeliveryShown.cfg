\* Yesterday's item is settled after today's.
CONSTANTS
  w1 = w1  w2 = w2
  None = None
  Recall = Recall
  Workers <- TwoWorkers
  MaxDay = 2
  MaxAttempts = 2
  Retention = 1
  MaxFaults = 0
SPECIFICATION Spec
PROPERTIES
  TodayStaysShown
CHECK_DEADLOCK FALSE
