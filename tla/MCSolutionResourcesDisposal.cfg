SPECIFICATION FairSpec
CONSTANTS
    o1 = o1
    o2 = o2
    Offers = {o1, o2}
    NoOffer = NoOffer
    Slots = {1, 2}
    Leases <- MCLeases
    FaultSets = {{"dispose"}}
    MaxGeneration = 1
    MaxQueue = 2
PROPERTIES EveryLeaseEnds
CHECK_DEADLOCK FALSE
