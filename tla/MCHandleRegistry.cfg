CONSTANTS
    HandleIds = {h1, h2, h3}
    Values = {v1, v2}
    Owners = {o1, o2}
    Contracts = {c1, c2}
    NoHandle = NoHandle
    MaxLeases = 2
    MaxGeneration = 2
SPECIFICATION Spec
INVARIANTS TypeOK IndexesExact DisposedOnce
PROPERTIES ImplementsLifetime DisposalCompletes
CHECK_DEADLOCK FALSE
