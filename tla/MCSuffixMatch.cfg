SPECIFICATION MCSpec
CHECK_DEADLOCK FALSE
CONSTANTS
    NameLen = 7
    MaxLabelLen = 2
    MaxLabels = 3
    Bytes <- MCBytes
    FirstUpper = 3
    LastUpper = 4
    CaseShift = 2
    Packets <- ManyPackets
    RuleSets <- ManyRules
    DefaultActions = {1, 2}
    MaxPackets = 3
INVARIANTS
    TypeOK
    LongestSuffixWins
    LookupExact
    RedirectNeedsRule
