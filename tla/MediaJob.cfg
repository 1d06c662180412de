\* Two workers, three continuations, two retries, two faults, cancellation.
CONSTANTS
  w1 = w1  w2 = w2
  None = None
  Workers <- TwoWorkers
  MaxSeq = 2
  RetryLimit = 2
  MaxFaults = 2
  Cancels = TRUE
SPECIFICATION FairSpec
INVARIANTS
  OneTask
  CancelledIsQuiet
  ResultIsTrue
  JobIsCarried
PROPERTIES
  RecordedTaskEnds
CHECK_DEADLOCK FALSE
