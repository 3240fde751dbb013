SPECIFICATION FairSpec
CONSTANTS
    c1 = c1
    c2 = c2
    r1 = r1
    r2 = r2
    k1 = k1
    Callers = {c1, c2}
    Runs = {r1, r2}
    Contracts = {k1}
    NoRun = NoRun
    NoContract = NoContract
    NoThread = NoThread
    Jobs = {"start", "ensure", "retire"}
    FaultSets = {{"timeout", "slow", "spawn"}}
    MaxJobs = 1
    MaxGeneration = 4
PROPERTIES EveryStartSettles
CHECK_DEADLOCK FALSE
