SPECIFICATION FairSpec
CONSTANTS
    k1 = k1
    k2 = k2
    k3 = k3
    host = host
    cluster = cluster
    Keys = {k1, k2, k3}
    Actions = {host, cluster}
    Absent = Absent
    Rejected = Rejected
    MaxEntries = 2
    Configs <- MCConfigs
    MaxFaults = 3
INVARIANTS
    ServesConfig
    RoomForRules
PROPERTIES
    ImplementsRuleTable
    EventuallyServing
