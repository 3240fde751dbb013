CONSTANTS
    Nodes <- MCNodes
    Inputs <- MCApartInputs
    Above <- MCApartAbove
    Volatile = {}
    Contents = {c1}
    Gone = Gone
    Results = {r1}
    Modes = {"force", "target"}
    Slots = {p1, p2}
    Backends = {k1, k2}
    None = None
    PerNode = 1
    PerWorkspace = 1
    Capacity = 2
    MaxChanges = 0
    MaxGenerations = 1
    MaxPreparations = 3
SPECIFICATION Spec
CHECK_DEADLOCK FALSE
INVARIANT CurrentIsRetained
