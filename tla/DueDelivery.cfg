\* Two workers, two business dates and the next, two attempts, a day of retention.
CONSTANTS
  w1 = w1  w2 = w2
  None = None
  Recall = Recall
  Workers <- TwoWorkers
  MaxDay = 2
  MaxAttempts = 2
  Retention = 1
  MaxFaults = 1
SPECIFICATION FairSpec
INVARIANTS
  RecallSentOnce
  RunTellsOutcome
  DeliveredInTime
  ChainGoesOn
PROPERTIES
  SettledIsFinal
  DueItemEnds
CHECK_DEADLOCK FALSE
