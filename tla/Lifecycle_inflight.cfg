SPECIFICATION Spec
CHECK_DEADLOCK FALSE
CONSTANTS
    Threshold = 2
    MaxSetFails = 0
    Veths = {v1}
    NoVeth = NoVeth
    MayFailAttach = {}
    EventsCap = 1
    MayTimeout = FALSE
    MaxRestarts = 0
INVARIANT InFlightCompletes
