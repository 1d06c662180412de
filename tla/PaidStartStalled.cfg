SPECIFICATION Spec
CONSTANTS
    s1 = s1
    s2 = s2
    None = None
    Length = 1
    Starters <- MCStarters
    Cancels = FALSE
    MaxFaults = 0
INVARIANT PendingHoldIsKept
CHECK_DEADLOCK FALSE
