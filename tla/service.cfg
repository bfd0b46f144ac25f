SPECIFICATION FairSpec
CONSTANTS
    k1 = k1
    k2 = k2
    Creds = {k1, k2}
    Calls = {1, 2}
    Main = 0
    None = None
    Updates <- Posts
    MaxAsks = 2
    MaxCommands = 1
    Backends = {1, 2, 3}
    Clients = {1, 2, 3}
    MaxLosses = 1
INVARIANTS OneSession ClosedIsSilent AccountKept
PROPERTIES LinksKept Reconnects RequestsEnd
CHECK_DEADLOCK FALSE
