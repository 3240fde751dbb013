SPECIFICATION FairSpec
CONSTANTS
    o1 = o1
    o2 = o2
    Offers = {o1, o2}
    NoOffer = NoOffer
    Slots = {1, 2}
    Leases <- MCLeases
    FaultSets = {{"crash", "send", "callback"}, {"dispose"}}
    MaxGeneration = 2
    MaxQueue = 2
INVARIANTS TypeOK HeldIsBacked ListedIsLeased ReleaseAfterSettle CurrentReadable
PROPERTIES LeasesEnd
CHECK_DEADLOCK FALSE
