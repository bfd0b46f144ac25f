SPECIFICATION Spec
CONSTANTS
    Toys = {a}
    a = a
    AllToys = AllToys
    None = None
    Reqs = {1, 2, 3}
    Jobs <- RunJobs
    SessionMax = 2
    MaxNow = 2
    MaxFail = 1
INVARIANTS RowWatched
PROPERTIES StopTakes TableIsBook
CHECK_DEADLOCK FALSE
