SPECIFICATION FairSpec
CONSTANTS
    s1 = s1
    s2 = s2
    None = None
    Length = 2
    Starters <- MCStarters
    Cancels = TRUE
    MaxFaults = 1
INVARIANT OneLiveHold
INVARIANT ExpiredNeverStarts
PROPERTY OutputIsPaid
PROPERTY HoldEnds
CHECK_DEADLOCK FALSE
