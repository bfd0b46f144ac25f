SPECIFICATION FairSpec
CONSTANTS
    Visitors = {1, 2}
    Awake = {1}
    Browser <- Shared
    Ids = {1, 2}
    ApprovalTtl = 2
    GrantTtl = 2
    Keep = 2
    MaxFailures = 2
    MaxOdd = 2
    None = None
INVARIANTS CodeOnce
PROPERTIES GrantOnce GrantWaits WaitingEnds
CHECK_DEADLOCK FALSE
