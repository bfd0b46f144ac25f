SPECIFICATION FairSpec
CONSTANTS
    Motors = {1, 2}
    MaxLevel = 1
    Commands = {1, 2}
    MaxEvents = 2
    MaxOdd = 4
    None = None
    Transports = {"lan", "scan"}
INVARIANTS LevelsAgree StopShowsOffline
PROPERTIES AvailSettles
CHECK_DEADLOCK FALSE
