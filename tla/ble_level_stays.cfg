SPECIFICATION Spec
CONSTANTS
    Toys = {a}
    a = a
    b = b
    None = None
    MaxCalls = 2
    MaxOpen = 1
    Requests <- TailRequests
    Attempts = 1
    Fragile = {a}
    MaxFaults = 0
INVARIANT LevelStays
CHECK_DEADLOCK FALSE
