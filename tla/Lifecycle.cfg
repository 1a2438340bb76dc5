SPECIFICATION FairSpec
CHECK_DEADLOCK FALSE
CONSTANTS
    Threshold = 1
    MaxSetFails = 1
    Veths = {v1}
    NoVeth = NoVeth
    MayFailAttach = {}
    EventsCap = 1
    MayTimeout = TRUE
    MaxRestarts = 1
INVARIANTS
    TeardownBypassSticks
    BeliefSurvivesRestart
    LeaksOnlyAtEdges
PROPERTY ShutdownCompletes
