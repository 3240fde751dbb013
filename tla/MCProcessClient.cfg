SPECIFICATION Spec
CONSTANTS
    c1 = c1
    c2 = c2
    r1 = r1
    r2 = r2
    k1 = k1
    k2 = k2
    Callers = {c1, c2}
    Runs = {r1, r2}
    Contracts = {k1, k2}
    NoRun = NoRun
    NoContract = NoContract
    NoThread = NoThread
    Jobs = {"start", "ensure", "retire", "replace", "shutdown"}
    FaultSets = {{"timeout", "slow", "spawn"}, {"timeout", "crash", "slow", "stubborn", "spawn"}, {"timeout", "fatal", "offer", "slow", "stubborn", "spawn"}, {"timeout", "crash", "fatal", "offer", "stubborn", "slow", "spawn"}}
    MaxJobs = 1
    MaxGeneration = 4
SYMMETRY Symmetry
INVARIANTS TypeOK OneVerdict OneWorker NoStartDropped
CHECK_DEADLOCK FALSE
