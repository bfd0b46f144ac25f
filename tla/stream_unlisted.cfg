SPECIFICATION Spec
CONSTANTS
    tab = tab
    phone = phone
    Viewers = {1, 2, 3}
    Ids = {tab}
    Id <- OneTab
    MaxToys = 2
    MaxOdd = 1
    Heartbeat = 1
    None = None
INVARIANT WatchingIsListed
CHECK_DEADLOCK FALSE
