SPECIFICATION FairSpec
CHECK_DEADLOCK FALSE
CONSTANTS
    Veths = {v1, v2}
    NoVeth = NoVeth
    MayFailAttach = {}
    EventsCap = 1
    MaxQueued = 1
    Restless = {v1}
INVARIANTS
    NoSendAfterClose
    NothingMissed
    KnownFollowsLinks
PROPERTIES
    ImplementsController
    EventuallyServed
    RecordsForgotten
    MonitorEnds
