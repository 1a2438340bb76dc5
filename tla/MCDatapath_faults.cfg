SPECIFICATION Spec
CONSTANTS
    Addresses = {core, host}
    CoreDNS = core
    Host = host
    NoCsum = NoCsum
    BadCsum = BadCsum
    Queries = {q1, q2}
    Flows = {f1}
    Txids = {t1, t2}
    Elements = {e1, e2}
    NoElement = NoElement
    TTL = 1
    MaxTime = 2
    Word = 8
    PodKinds = {"host", "cluster", "malformed", "silent", "other", "direct"}
    NatFaults <- AllFaults
    MayOmitCsum = TRUE
    MayBypass = TRUE
    MayFailInsert = TRUE
    MayFragment = TRUE
    MayLose = TRUE
SYMMETRY Symmetry
INVARIANTS
    LeakExplained
    HalfRewritesAlarmed
    RoutingCounted
