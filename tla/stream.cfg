SPECIFICATION FairSpec
CONSTANTS
    tab = tab
    phone = phone
    Viewers = {1, 2}
    Ids = {tab}
    Id <- OneTab
    MaxToys = 2
    MaxOdd = 1
    Heartbeat = 1
    None = None
INVARIANTS RefreshIsFresh
PROPERTIES RowIsOwn Settles GoneLeaves
CHECK_DEADLOCK FALSE
