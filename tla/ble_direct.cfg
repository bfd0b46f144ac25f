SPECIFICATION Spec
CONSTANTS
    Toys = {a, b}
    a = a
    b = b
    None = None
    MaxCalls = 2
    MaxOpen = 1
    Requests <- AllRequests
    Attempts = 2
    Fragile = {a}
    MaxFaults = 1
INVARIANTS StoppedIsSilent OneCentral TimedSilent
CHECK_DEADLOCK FALSE
