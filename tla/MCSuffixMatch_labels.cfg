SPECIFICATION Spec
CHECK_DEADLOCK FALSE
CONSTANTS
    NameLen = 7
    MaxLabelLen = 2
    MaxLabels = 3
    Bytes <- MCBytes
    FirstUpper = 3
    LastUpper = 4
    CaseShift = 2
    Packets <- AllPackets
    RuleSets <- MostRules
    DefaultActions = {1}
    MaxPackets = 1
INVARIANT LongNamesPass
