SPECIFICATION Spec
CONSTANTS
    Nodes = {a, b}
    MaxCalls = 3
    MaxCrashes = 1
CHECK_DEADLOCK FALSE
INVARIANTS
    TypeOK
    ListedIsCurrent
    ServedIsCurrent
    Accounted
    EpochsAgree
PROPERTIES
    DispatchSettles
