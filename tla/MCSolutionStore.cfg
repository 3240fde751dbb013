CONSTANTS
    Nodes <- MCNodes
    Inputs <- MCInputs
    Above <- MCAbove
    Volatile = {"b"}
    Contents = {c1, c2}
    Gone = Gone
    Results = {r1, r2}
    Modes = {"run", "force", "target", "trigger"}
    Slots = {p1, p2}
    Backends = {k1}
    None = None
    PerNode = 2
    PerWorkspace = 2
    Capacity = 1
    MaxChanges = 1
    MaxGenerations = 2
    MaxPreparations = 2
SYMMETRY MCSymmetry
SPECIFICATION Spec
CHECK_DEADLOCK FALSE
INVARIANTS TypeOK CurrentIsOfGraph CurrentIsRetained PinnedSurvive NothingOutlives
