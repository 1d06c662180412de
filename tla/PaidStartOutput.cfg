SPECIFICATION Spec
CONSTANTS
    s1 = s1
    s2 = s2
    None = None
    Length = 2
    Starters <- MCStarters
    Cancels = FALSE
    MaxFaults = 1
PROPERTY RepricedBeforeOutput
CHECK_DEADLOCK FALSE
