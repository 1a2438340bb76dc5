SPECIFICATION Spec
CONSTANTS
    Addresses = {core, host}
    CoreDNS = core
    Host = host
    NoCsum = NoCsum
    BadCsum = BadCsum
    Queries = {q1, q2, q3}
    Flows = {f1}
    Txids = {t1, t2}
    Elements = {e1, e2}
    NoElement = NoElement
    TTL = 1
    MaxTime = 2
    Word = 8
    PodKinds = {"host", "direct"}
    NatFaults <- NoFaults
    MayOmitCsum = FALSE
    MayBypass = FALSE
    MayFailInsert = FALSE
    MayFragment = FALSE
    MayLose = TRUE
SYMMETRY Symmetry
INVARIANTS
    LeakExplained
    NoStaleSnat
CHECK_DEADLOCK FALSE
