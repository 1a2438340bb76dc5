------------------------------ MODULE Datapath ------------------------------
(***************************************************************************)
(* The two TC programs of bpf/dns_gateway.c, dns_gateway_ingress and       *)
(* dns_gateway_egress, and the conntrack_map they share.                   *)
(*                                                                         *)
(* Each member of Queries is one datagram a pod sends, followed through    *)
(* the ingress program, a resolver, and (as the response to it) through    *)
(* the egress program.  A retransmission is another member with the same   *)
(* key.  A packet is handled by one CPU at a time and packets are handled  *)
(* by any number of CPUs at once, so a program run is split into one       *)
(* action per access to state that other CPUs share: config_map's bypass   *)
(* flag, conntrack_map and the clock.                                      *)
(*                                                                         *)
(* conntrack_map is an LRU hash over preallocated elements.  A lookup      *)
(* returns a pointer to an element; an element that is deleted, replaced   *)
(* or evicted can be filled again while a program still holds the pointer. *)
(***************************************************************************)
EXTENDS NatRewrite, FiniteSets

CONSTANTS
    Queries,        \* datagrams sent by pods
    Flows,          \* {pod_ip, pod_port} pairs
    Txids,          \* DNS transaction ids
    Elements,       \* the preallocated elements (CONNTRACK_MAX of them)
    NoElement,      \* the null pointer
    CoreDNS,        \* coredns_ip
    Host,           \* host_resolver_ip
    TTL,            \* CONNTRACK_TTL_NS, in ticks
    MaxTime,        \* bound of the clock
    Word,           \* 2^64: timestamps are subtracted modulo Word
    PodKinds,       \* the kinds of datagram the pods send
    NatFaults,      \* the sets of rewrite helpers that may fail together
    MayOmitCsum,    \* whether pods may send UDP without a checksum
    MayBypass,      \* whether the control plane flips bypass
    MayFailInsert,  \* whether bpf_map_update_elem may fail
    MayFragment,    \* whether a response may come back fragmented
    MayLose         \* whether the network may lose packets

(***************************************************************************)
(* What the parser makes of a datagram:                                    *)
(*   host      a query whose name resolves to ACTION_HOST_RESOLVE          *)
(*   cluster   a query whose name resolves to any other action             *)
(*   malformed to CoreDNS's port 53, passed by the parser as PARSE_ERROR   *)
(*   silent    to CoreDNS's port 53, passed by the parser uncounted        *)
(*   other     to CoreDNS, but not an unfragmented datagram to port 53     *)
(*   direct    a query addressed to the host resolver itself               *)
(***************************************************************************)
Kinds == {"host", "cluster", "malformed", "silent", "other", "direct"}

Keys == Flows \X Txids
Time == 0 .. MaxTime

ASSUME AddressAssumption == CoreDNS \in Addresses /\ Host \in Addresses /\ CoreDNS # Host
ASSUME ElementAssumption == NoElement \notin Elements
ASSUME ClockAssumption ==
    MaxTime \in Nat /\ TTL \in Nat /\ Word \in Nat /\ Word > MaxTime + TTL
ASSUME ChoiceAssumption ==
    /\ PodKinds \subseteq Kinds
    /\ NatFaults \subseteq SUBSET Helpers
    /\ {MayOmitCsum, MayBypass, MayFailInsert, MayFragment, MayLose} \subseteq BOOLEAN
ASSUME QueriesAssumption == IsFiniteSet(Queries)

VARIABLES
    bypass,   \* config_map[0].bypass
    clock,    \* bpf_ktime_get_ns()
    table,    \* conntrack_map's buckets: the element that holds a key
    elem,     \* timestamp_ns of each element, in use or not
    kind,     \* what the parser makes of each datagram
    ident,    \* its flow and transaction id
    stage,    \* where it, or the response to it, is
    pkt,      \* its rewritable part
    ts,       \* ct_val.timestamp_ns in its ingress run
    now,      \* now in its egress run
    ptr,      \* ct_val in its egress run
    metrics,  \* metrics_map, summed over CPUs
    excuse,   \* history: what has happened to its conntrack entry
    stamp,    \* history: the latest timestamp inserted for a key
    insertFails \* history: failed insertions

dgrams  == <<kind, ident>>
mapVars == <<table, elem>>
vars == <<bypass, clock, dgrams, mapVars, stage, pkt, ts, now, ptr, metrics,
          excuse, stamp, insertFails>>

-----------------------------------------------------------------------------
(* Stages of a run: the next access to shared state it will make. *)
IngressStages == {"ingress", "insert", "dnat"}
EgressStages  == {"answered", "fragment", "clock", "ttl", "expire", "snat"}
Stages == {"idle", "routed", "delivered", "dropped"} \cup IngressStages \cup EgressStages

Live(q) == stage[q] \notin {"idle", "delivered", "dropped"}

(* Datagrams whose response may come from the host resolver. *)
Contends(q) == Live(q) /\ kind[q] \in {"host", "direct"}

Rivals(q) == {p \in Queries \ {q} : Contends(p) /\ ident[p] = ident[q]}

Causes == {"overlap", "evict", "recycled", "fragment", "snat_failed", "revert_failed"}

Mark(marks) == excuse' = [q \in Queries |-> excuse[q] \cup {c \in Causes : <<q, c>> \in marks}]

(* METRIC_SUFFIX_MATCH and METRIC_SUFFIX_NO_MATCH are counted together. *)
MetricIds == {"TOTAL_PACKETS", "DNS_QUERIES", "SUFFIX_LOOKUPS", "REDIRECTED",
              "CLUSTER_RESOLVED", "PARSE_ERROR", "BYPASS_ACTIVE", "EGRESS_TOTAL",
              "EGRESS_SNAT", "EGRESS_CONNTRACK_MISS", "NAT_ERROR", "NAT_REVERT_FAIL"}

increment_metric(ids) ==
    metrics' = [m \in MetricIds |-> metrics[m] + IF m \in ids THEN 1 ELSE 0]

BugCountRevertOnly(rc) == IF rc = -2 THEN {"NAT_REVERT_FAIL"} ELSE {"NAT_ERROR"}

count_nat_failure(rc) == {"NAT_ERROR"} \cup {m \in {"NAT_REVERT_FAIL"} : rc = -2}

(* The counters an ingress run that reads bypass = 0 leaves behind before  *)
(* it reaches conntrack.                                                   *)
ParserCounts(k) ==
    {"TOTAL_PACKETS"}
    \cup {m \in {"DNS_QUERIES"} : k \in {"host", "cluster", "malformed", "silent"}}
    \cup {m \in {"PARSE_ERROR"} : k = "malformed"}
    \cup {m \in {"SUFFIX_LOOKUPS"} : k \in {"host", "cluster"}}
    \cup {m \in {"CLUSTER_RESOLVED"} : k = "cluster"}

(* A conntrack_key is pod_ip, pod_port and txid. *)
BugKeyWithoutTxid(q) == <<ident[q][1], CHOOSE t \in Txids : TRUE>>

ConntrackKey(q) == ident[q]

(* now - ct_val->timestamp_ns > CONNTRACK_TTL_NS, on unsigned integers. *)
BugNeverExpired(n, stamped) == FALSE

Expired(n, stamped) == (n - stamped) % Word > TTL

(* bpf_map_delete_elem: the element keeps its content. *)
map_delete_elem(k) ==
    /\ table' = [table EXCEPT ![k] = NoElement]
    /\ UNCHANGED elem

Init ==
    /\ bypass = FALSE
    /\ clock = 0
    /\ table = [k \in Keys |-> NoElement]
    /\ elem = [e \in Elements |-> 0]
    /\ kind \in [Queries -> PodKinds]
    /\ ident \in [Queries -> Keys]
    /\ stage = [q \in Queries |-> "idle"]
    /\ pkt = [q \in Queries |-> Emitted(CoreDNS, CoreDNS)]
    /\ ts = [q \in Queries |-> 0]
    /\ now = [q \in Queries |-> 0]
    /\ ptr = [q \in Queries |-> NoElement]
    /\ metrics = [m \in MetricIds |-> 0]
    /\ excuse = [q \in Queries |-> {}]
    /\ stamp = [k \in Keys |-> -1]
    /\ insertFails = 0

-----------------------------------------------------------------------------
(* The environment: the clock, the control plane, pods and resolvers. *)
Tick ==
    /\ clock < MaxTime
    /\ clock' = clock + 1
    /\ UNCHANGED <<bypass, dgrams, mapVars, stage, pkt, ts, now, ptr, metrics,
                   excuse, stamp, insertFails>>

(* The health checker or the shutdown path writes the bypass flag. *)
SetBypass ==
    /\ MayBypass
    /\ bypass' = ~bypass
    /\ UNCHANGED <<clock, dgrams, mapVars, stage, pkt, ts, now, ptr, metrics,
                   excuse, stamp, insertFails>>

(* A pod sends a datagram, while others with the same key may be on their  *)
(* way.                                                                    *)
Send(q) ==
    LET dst == IF kind[q] = "direct" THEN Host ELSE CoreDNS
    IN  /\ stage[q] = "idle"
        /\ stage' = [stage EXCEPT ![q] = "ingress"]
        /\ \E c \in {dst} \cup {n \in {NoCsum} : MayOmitCsum} :
              pkt' = [pkt EXCEPT ![q] = Emitted(dst, c)]
        /\ IF kind[q] \in {"host", "direct"} /\ Rivals(q) # {}
           THEN Mark((Rivals(q) \cup {q}) \X {"overlap"})
           ELSE Mark({})
        /\ UNCHANGED <<bypass, clock, dgrams, mapVars, ts, now, ptr, metrics,
                       stamp, insertFails>>

(* The resolver a datagram is addressed to answers it from that address. *)
Answer(q) ==
    /\ stage[q] = "routed"
    /\ Intact(pkt[q])
    /\ \E s \in {"answered"} \cup {f \in {"fragment"} : MayFragment} :
          stage' = [stage EXCEPT ![q] = s]
    /\ pkt' = [pkt EXCEPT ![q] = Emitted(@.addr, @.addr)]
    /\ UNCHANGED <<bypass, clock, dgrams, mapVars, ts, now, ptr, metrics,
                   excuse, stamp, insertFails>>

(* A packet is lost on its way, or discarded for its checksum. *)
Lose(q) ==
    /\ stage[q] \in {"routed", "answered", "fragment"}
    /\ MayLose \/ ~Intact(pkt[q])
    /\ stage' = [stage EXCEPT ![q] = "dropped"]
    /\ UNCHANGED <<bypass, clock, dgrams, mapVars, pkt, ts, now, ptr, metrics,
                   excuse, stamp, insertFails>>

-----------------------------------------------------------------------------
(* dns_gateway_ingress *)

(* TC_ACT_OK before conntrack: bypass is set, or the datagram is not a     *)
(* query that resolves to ACTION_HOST_RESOLVE.                             *)
IngressPass(q) ==
    /\ stage[q] = "ingress"
    /\ \/ bypass /\ increment_metric({"TOTAL_PACKETS", "BYPASS_ACTIVE"})
       \/ ~bypass /\ kind[q] # "host" /\ increment_metric(ParserCounts(kind[q]))
    /\ stage' = [stage EXCEPT ![q] = "routed"]
    /\ UNCHANGED <<bypass, clock, dgrams, mapVars, pkt, ts, now, ptr,
                   excuse, stamp, insertFails>>

(* The name resolves to ACTION_HOST_RESOLVE: fill in ct_key and ct_val. *)
IngressMatch(q) ==
    /\ stage[q] = "ingress"
    /\ ~bypass
    /\ kind[q] = "host"
    /\ increment_metric(ParserCounts("host"))
    /\ ts' = [ts EXCEPT ![q] = clock]
    /\ stage' = [stage EXCEPT ![q] = "insert"]
    /\ UNCHANGED <<bypass, clock, dgrams, mapVars, pkt, now, ptr,
                   excuse, stamp, insertFails>>

(* bpf_map_update_elem(&conntrack_map, ..., BPF_ANY): the entry goes into  *)
(* an element e that was free or is taken from another key.                *)
IngressInsert(q, e) ==
    LET k == ConntrackKey(q)
        victims == {p \in Queries : /\ Contends(p)
                                    /\ stage[p] \notin {"ingress", "insert"}
                                    /\ ConntrackKey(p) # k
                                    /\ table[ConntrackKey(p)] = e}
        holders == {p \in Queries : stage[p] \in {"clock", "ttl"} /\ ptr[p] = e}
    IN  /\ stage[q] = "insert"
        /\ table' = [x \in Keys |-> IF x = k THEN e
                                    ELSE IF table[x] = e THEN NoElement ELSE table[x]]
        /\ elem' = [elem EXCEPT ![e] = ts[q]]
        /\ Mark((victims \X {"evict"}) \cup (holders \X {"recycled"}))
        /\ stamp' = [stamp EXCEPT ![k] = IF @ > ts[q] THEN @ ELSE ts[q]]
        /\ stage' = [stage EXCEPT ![q] = "dnat"]
        /\ UNCHANGED <<bypass, clock, dgrams, pkt, ts, now, ptr, metrics, insertFails>>

(* The insertion fails: no DNAT. *)
BugDnatWithoutEntry(q) ==
    /\ stage[q] = "insert"
    /\ MayFailInsert
    /\ insertFails' = insertFails + 1
    /\ stage' = [stage EXCEPT ![q] = "dnat"]
    /\ UNCHANGED <<bypass, clock, dgrams, mapVars, pkt, ts, now, ptr, metrics,
                   excuse, stamp>>

IngressInsertFails(q) ==
    /\ stage[q] = "insert"
    /\ MayFailInsert
    /\ insertFails' = insertFails + 1
    /\ stage' = [stage EXCEPT ![q] = "routed"]
    /\ UNCHANGED <<bypass, clock, dgrams, mapVars, pkt, ts, now, ptr, metrics,
                   excuse, stamp>>

(* nat_rewrite_addr on daddr; a failure takes the entry back. *)
IngressDnat(q, fail) ==
    LET r == nat_rewrite_addr(pkt[q], CoreDNS, Host, fail)
    IN  /\ stage[q] = "dnat"
        /\ pkt' = [pkt EXCEPT ![q] = r.pkt]
        /\ \/ /\ r.rc = 0
              /\ increment_metric({"REDIRECTED"})
              /\ UNCHANGED mapVars
           \/ /\ r.rc < 0
              /\ increment_metric(count_nat_failure(r.rc))
              /\ map_delete_elem(ConntrackKey(q))
        /\ Mark({m \in {<<q, "revert_failed">>} : r.rc = -2})
        /\ stage' = [stage EXCEPT ![q] = "routed"]
        /\ UNCHANGED <<bypass, clock, dgrams, ts, now, ptr, stamp, insertFails>>

-----------------------------------------------------------------------------
(* dns_gateway_egress: bypass is not consulted. *)

(* TC_ACT_OK before conntrack: a fragment, or not from the host resolver. *)
EgressPass(q) ==
    /\ \/ stage[q] = "fragment"
       \/ stage[q] = "answered" /\ pkt[q].addr # Host
    /\ increment_metric({"EGRESS_TOTAL"})
    /\ Mark({m \in {<<q, "fragment">>} : stage[q] = "fragment"})
    /\ stage' = [stage EXCEPT ![q] = "delivered"]
    /\ UNCHANGED <<bypass, clock, dgrams, mapVars, pkt, ts, now, ptr, stamp, insertFails>>

EgressMiss(q) ==
    /\ stage[q] = "answered"
    /\ pkt[q].addr = Host
    /\ table[ConntrackKey(q)] = NoElement
    /\ increment_metric({"EGRESS_TOTAL", "EGRESS_CONNTRACK_MISS"})
    /\ stage' = [stage EXCEPT ![q] = "delivered"]
    /\ UNCHANGED <<bypass, clock, dgrams, mapVars, pkt, ts, now, ptr,
                   excuse, stamp, insertFails>>

EgressHit(q) ==
    /\ stage[q] = "answered"
    /\ pkt[q].addr = Host
    /\ table[ConntrackKey(q)] # NoElement
    /\ increment_metric({"EGRESS_TOTAL"})
    /\ ptr' = [ptr EXCEPT ![q] = table[ConntrackKey(q)]]
    /\ stage' = [stage EXCEPT ![q] = "clock"]
    /\ UNCHANGED <<bypass, clock, dgrams, mapVars, pkt, ts, now,
                   excuse, stamp, insertFails>>

EgressClock(q) ==
    /\ stage[q] = "clock"
    /\ now' = [now EXCEPT ![q] = clock]
    /\ stage' = [stage EXCEPT ![q] = "ttl"]
    /\ UNCHANGED <<bypass, clock, dgrams, mapVars, pkt, ts, ptr, metrics,
                   excuse, stamp, insertFails>>

(* The element is read now, whoever owns it by now. *)
EgressStale(q) ==
    /\ stage[q] = "ttl"
    /\ Expired(now[q], elem[ptr[q]])
    /\ stage' = [stage EXCEPT ![q] = "expire"]
    /\ UNCHANGED <<bypass, clock, dgrams, mapVars, pkt, ts, now, ptr, metrics,
                   excuse, stamp, insertFails>>

(* nat_rewrite_addr on saddr; a failure keeps the entry. *)
EgressSnat(q, fail) ==
    LET r == nat_rewrite_addr(pkt[q], Host, CoreDNS, fail)
    IN  /\ stage[q] = "ttl"
        /\ ~Expired(now[q], elem[ptr[q]])
        /\ pkt' = [pkt EXCEPT ![q] = r.pkt]
        /\ \/ /\ r.rc = 0
              /\ stage' = [stage EXCEPT ![q] = "snat"]
              /\ UNCHANGED <<ptr, metrics, excuse>>
           \/ /\ r.rc < 0
              /\ stage' = [stage EXCEPT ![q] = "delivered"]
              /\ ptr' = [ptr EXCEPT ![q] = NoElement]
              /\ increment_metric(count_nat_failure(r.rc))
              /\ Mark({<<q, "snat_failed">>})
        /\ UNCHANGED <<bypass, clock, dgrams, mapVars, ts, now, stamp, insertFails>>

(* Both deletions go by key: they remove the entry the key has by now. *)
EgressDelete(q) ==
    /\ stage[q] \in {"expire", "snat"}
    /\ map_delete_elem(ConntrackKey(q))
    /\ increment_metric({IF stage[q] = "snat" THEN "EGRESS_SNAT"
                                              ELSE "EGRESS_CONNTRACK_MISS"})
    /\ ptr' = [ptr EXCEPT ![q] = NoElement]
    /\ stage' = [stage EXCEPT ![q] = "delivered"]
    /\ UNCHANGED <<bypass, clock, dgrams, pkt, ts, now, excuse, stamp, insertFails>>

-----------------------------------------------------------------------------
Ingress(q) ==
    \/ IngressPass(q)
    \/ IngressMatch(q)
    \/ \E e \in Elements : IngressInsert(q, e)
    \/ IngressInsertFails(q)
    \/ \E fail \in NatFaults : IngressDnat(q, fail)

Egress(q) ==
    \/ EgressPass(q)
    \/ EgressMiss(q)
    \/ EgressHit(q)
    \/ EgressClock(q)
    \/ EgressStale(q)
    \/ \E fail \in NatFaults : EgressSnat(q, fail)
    \/ EgressDelete(q)

Next ==
    \/ Tick
    \/ SetBypass
    \/ \E q \in Queries : Send(q) \/ Answer(q) \/ Lose(q) \/ Ingress(q) \/ Egress(q)

Spec == Init /\ [][Next]_vars

-----------------------------------------------------------------------------
(* Every variable stays in its domain. *)
TypeOK ==
    /\ bypass \in BOOLEAN
    /\ clock \in Time
    /\ table \in [Keys -> Elements \cup {NoElement}]
    /\ elem \in [Elements -> Time]
    /\ kind \in [Queries -> Kinds]
    /\ ident \in [Queries -> Keys]
    /\ stage \in [Queries -> Stages]
    /\ pkt \in [Queries -> Packets]
    /\ ts \in [Queries -> Time]
    /\ now \in [Queries -> Time]
    /\ ptr \in [Queries -> Elements \cup {NoElement}]
    /\ metrics \in [MetricIds -> Nat]
    /\ excuse \in [Queries -> SUBSET Causes]
    /\ stamp \in [Keys -> Time \cup {-1}]
    /\ insertFails \in Nat

(* The pod asked CoreDNS and gets the answer from the host resolver's      *)
(* address.                                                                *)
Leaked(q) == stage[q] = "delivered" /\ kind[q] # "direct" /\ pkt[q].addr = Host

(* The answer came later than CONNTRACK_TTL_NS after the redirection. *)
Late(q) == now[q] - ts[q] > TTL

(***************************************************************************)
(* A redirected query whose answer reaches the pod from the host resolver's*)
(* address has one of the known causes: the answer was later than the TTL, *)
(* another query with the same pod address, port and transaction id was on *)
(* its way at the same time, the entry was evicted, the answer was         *)
(* fragmented, or the rewrite of a packet failed.  Setting bypass in       *)
(* between, other queries of the same pod, failed insertions and reverted  *)
(* rewrites of the query are not causes.                                   *)
(***************************************************************************)
LeakExplained ==
    \A q \in Queries : Leaked(q) => Late(q) \/ excuse[q] \ {"recycled"} # {}

(***************************************************************************)
(* The answer to a query the pod sent to the host resolver itself is       *)
(* rewritten to come from CoreDNS only if some query with the same key was *)
(* redirected at most CONNTRACK_TTL_NS before: the TTL check keeps         *)
(* orphaned entries away from unrelated answers.  The one exception is an  *)
(* element filled again between the lookup and the check.                  *)
(***************************************************************************)
NoStaleSnat ==
    \A q \in Queries :
        kind[q] = "direct" /\ pkt[q].addr = CoreDNS /\ stage[q] # "idle" =>
            \/ stamp[ident[q]] >= 0 /\ now[q] - stamp[ident[q]] <= TTL
            \/ "recycled" \in excuse[q]

(***************************************************************************)
(* nat_rewrite_addr leaves a packet with a checksum that does not match    *)
(* its address only if METRIC_NAT_REVERT_FAIL says so, once per packet.    *)
(***************************************************************************)
HalfRewritesAlarmed ==
    Cardinality({q \in Queries : ~Intact(pkt[q])}) <= metrics["NAT_REVERT_FAIL"]

(***************************************************************************)
(* Every suffix lookup ends in exactly one of: redirected, left to         *)
(* CoreDNS, a counted rewrite failure, or a failed insertion; the rest are *)
(* in the middle of their run.  NAT_ERROR also counts egress failures.     *)
(***************************************************************************)
RoutingCounted ==
    metrics["SUFFIX_LOOKUPS"] + Cardinality({q \in Queries : "snat_failed" \in excuse[q]})
      = metrics["REDIRECTED"] + metrics["CLUSTER_RESOLVED"] + metrics["NAT_ERROR"]
        + insertFails + Cardinality({q \in Queries : stage[q] \in {"insert", "dnat"}})

(* README.md on the answer to a redirected query: "From the pod's view the *)
(* answer always appears to come from CoreDNS".                            *)
AlwaysFromCoreDNS == \A q \in Queries : ~Leaked(q)
=============================================================================
