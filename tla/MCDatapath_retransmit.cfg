SPECIFICATION Spec
CONSTANTS
    Addresses = {core, host}
    CoreDNS = core
    Host = host
    NoCsum = NoCsum
    BadCsum = BadCsum
    Queries = {q1, q2}
    Flows = {f1}
    Txids = {t1}
    Elements = {e1, e2}
    NoElement = NoElement
    TTL = 1
    MaxTime = 0
    Word = 8
    PodKinds = {"host"}
    NatFaults <- NoFaults
    MayOmitCsum = FALSE
    MayBypass = FALSE
    MayFailInsert = FALSE
    MayFragment = FALSE
    MayLose = FALSE
INVARIANT AlwaysFromCoreDNS
CHECK_DEADLOCK FALSE
