SPECIFICATION FairSpec
CHECK_DEADLOCK FALSE
CONSTANTS
    Veths = {v1, v2, v3}
    NoVeth = NoVeth
    MayFailAttach = {v1, v2}
    EventsCap = 2
INVARIANTS
    EgressCovers
    DoneMeansDetached
PROPERTIES
    EventuallyAttached
    RunEnds
