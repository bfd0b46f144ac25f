SPECIFICATION Spec
CONSTANTS
    Toys = {a}
    a = a
    b = b
    None = None
    MaxCalls = 3
    MaxOpen = 2
    Requests <- PresetRequests
    Attempts = 1
    Fragile = {a}
    MaxFaults = 0
INVARIANT SoleTail
CHECK_DEADLOCK FALSE
