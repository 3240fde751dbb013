CONSTANTS
    n1 = n1
    a1 = a1
    r1 = r1
    r2 = r2
    Paths = {p1, p2}
    NoPath = NoPath
    Nodes = {n1}
    Artifacts = {a1}
    Results = {r1, r2}
    Owner <- MCOwner
    Needs <- MCNeeds
    MaxEdits = 3
    MaxSaves = 3
    MaxMishaps = 2
SYMMETRY MCSymmetry
SPECIFICATION Spec
CHECK_DEADLOCK FALSE
INVARIANTS TypeOK DocComplete WorkComplete UnsavedIsDirty NothingForgotten
PROPERTIES ImplementsAtomicSave
