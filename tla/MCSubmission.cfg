SPECIFICATION FairSpec
CONSTANTS
    h1 = h1
    h2 = h2
    Handles = {h1, h2}
    NoHandle = NoHandle
    Breaks = {"compute", "reserve", "retire", "start"}
    MaxChanges = 1
INVARIANTS TypeOK StopFollowsStart NothingLeft CleanupIsLast
PROPERTIES AdmittedFresh EveryResultArrives CancelHolds
CHECK_DEADLOCK FALSE
