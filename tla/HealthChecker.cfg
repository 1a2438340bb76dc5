SPECIFICATION FairSpec
CHECK_DEADLOCK FALSE
CONSTANTS
    Threshold = 3
    MaxSetFails = 2
INVARIANTS
    ThresholdRespected
    BeliefMatches
PROPERTIES
    BypassOnOutage
    ClearOnRecovery
