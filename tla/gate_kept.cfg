SPECIFICATION Spec
CONSTANTS
    Visitors = {1}
    Awake = {}
    Browser <- Shared
    Ids = {1, 2}
    ApprovalTtl = 4
    GrantTtl = 4
    Keep = 2
    MaxFailures = 2
    MaxOdd = 2
    None = None
PROPERTIES GrantKept
CHECK_DEADLOCK FALSE
