----------------------------- MODULE SuffixMatch -----------------------------
(***************************************************************************)
(* The name matching part of dns_gateway_ingress (bpf/dns_gateway.c): load *)
(* the QNAME of a query into this CPU's scratch_map entry, walk its labels *)
(* and look up every suffix in suffix_rules, longest first.                *)
(*                                                                         *)
(* One CPU handles a sequence of queries.  scratch_map is never cleared,   *)
(* so each query finds what the earlier ones left in it.                   *)
(***************************************************************************)
EXTENDS DnsNames

CONSTANTS
    Packets,         \* the queries that arrive, from the QNAME to the end
    RuleSets,        \* the rules in the configurations considered
    DefaultActions,  \* the default actions considered
    MaxLabels,       \* MAX_LABELS
    MaxPackets       \* bound of the number of queries

ACTION_HOST_RESOLVE == 1
ACTION_CLUSTER_RESOLVE == 2

StartsWith(bytes, start) == Len(start) <= Len(bytes) /\ SubSeq(bytes, 1, Len(start)) = start

(* A packet is its bytes and the labels of the name that they carry, <<>>  *)
(* if they carry none, or the name of the root.                            *)
ASSUME PacketAssumption ==
    \A p \in Packets :
        /\ p.bytes \in Seq(Bytes)
        /\ p.name \in Seq(Seq(Bytes))
        /\ \A i \in DOMAIN p.name : Len(p.name[i]) \in 1 .. MaxLabelLen
        /\ IF p.name # <<>> THEN StartsWith(p.bytes, Wire(p.name))
                            ELSE CarriesName(p.bytes) => p.bytes[1] = 0

(* A rule is the labels of its pattern and an action. *)
ASSUME RuleAssumption == \A R \in RuleSets : \A r \in R : r.labels \in Seq(Seq(Bytes))

(* Patterns are host names.  validateRule does not refuse a NUL byte in a  *)
(* label; a pattern with one is not considered.                            *)
ASSUME PatternAssumption ==
    \A R \in RuleSets : \A r \in R :
        \A i \in DOMAIN r.labels : \A j \in DOMAIN r.labels[i] : r.labels[i][j] # 0

ASSUME BoundAssumption == MaxLabels \in Nat \ {0} /\ MaxPackets \in Nat

VARIABLES
    rules,           \* the rules of the configuration
    suffix_rules,    \* the map they were written to
    default_action,  \* config_map[0].default_action
    received,        \* number of queries so far
    pkt,             \* the current query
    qname,           \* scratch->qname
    lookup,          \* scratch->lookup
    remaining,       \* bytes of the query in qname
    label_offsets,   \* the first num_labels of label_offsets
    pos,             \* the walk's position, then the last byte of the name
    idx,             \* the suffix the matching loop is at
    pc,              \* the next step
    verdict          \* how the last query was left

config  == <<rules, suffix_rules, default_action>>
scratch == <<qname, lookup>>
walk    == <<remaining, label_offsets, pos>>
vars == <<config, received, pkt, scratch, walk, idx, pc, verdict>>

(***************************************************************************)
(* The verdicts: host and cluster are the resolved actions, malformed is   *)
(* passed and counted as PARSE_ERROR, silent is passed uncounted.          *)
(***************************************************************************)
Verdicts == {"none", "host", "cluster", "malformed", "silent"}

(* Config.Validate: some rule must differ from the default action. *)
Differing(R, default) == \E r \in R : r.action # default

Init ==
    /\ rules \in {R \in RuleSets : Accepted(R)}
    /\ suffix_rules = SuffixRules(rules)
    /\ default_action \in {d \in DefaultActions : Differing(rules, d)}
    /\ received = 0
    /\ pkt = [name |-> <<>>, bytes |-> <<>>]
    /\ qname = Padded(<<>>)
    /\ lookup = Padded(<<>>)
    /\ remaining = 0
    /\ label_offsets = <<>>
    /\ pos = 0
    /\ idx = 0
    /\ pc = "done"
    /\ verdict = "none"

-----------------------------------------------------------------------------
Receive(packets) ==
    /\ pc = "done"
    /\ received < MaxPackets
    /\ received' = received + 1
    /\ pkt' \in packets
    /\ pc' = "load"
    /\ verdict' = "none"
    /\ UNCHANGED <<config, scratch, walk, idx>>

Pass(v) == pc' = "done" /\ verdict' = v

BugCapped(n) == (IF n > NameLen THEN NameLen ELSE n) % NameLen

(* The cap and the mask of the number of bytes to load. *)
Capped(n) ==
    LET masked == (IF n > NameLen THEN NameLen ELSE n) % NameLen
    IN  IF masked = 0 THEN NameLen ELSE masked

(* bpf_skb_load_bytes overwrites only the bytes it loads. *)
Load ==
    /\ pc = "load"
    /\ IF pkt.bytes = <<>>
       THEN Pass("silent") /\ UNCHANGED <<qname, walk>>
       ELSE /\ remaining' = Capped(Len(pkt.bytes))
            /\ qname' = [k \in Offsets |-> IF k < remaining' THEN pkt.bytes[k + 1] ELSE qname[k]]
            /\ label_offsets' = <<>>
            /\ pos' = 0
            /\ pc' = "walk"
            /\ UNCHANGED verdict
    /\ UNCHANGED <<config, received, pkt, lookup, idx>>

BugWalkOver ==
    pos >= remaining \/ pos >= NameLen \/ qname[pos % NameLen] = 0

(* The bounded loop of the walk is over, or it breaks at position pos. *)
WalkOver ==
    \/ Len(label_offsets) = MaxLabels
    \/ pos >= remaining
    \/ pos >= NameLen
    \/ qname[pos % NameLen] = 0

WalkLabel ==
    /\ pc = "walk"
    /\ ~WalkOver
    /\ qname[pos % NameLen] <= MaxLabelLen
    /\ label_offsets' = Append(label_offsets, pos)
    /\ pos' = pos + 1 + qname[pos % NameLen]
    /\ UNCHANGED <<config, received, pkt, scratch, remaining, idx, pc, verdict>>

WalkInvalid ==
    /\ pc = "walk"
    /\ ~WalkOver
    /\ qname[pos % NameLen] > MaxLabelLen
    /\ Pass("malformed")
    /\ UNCHANGED <<config, received, pkt, scratch, walk, idx>>

qname_total_len == pos + 1

BugTooLong == qname_total_len > NameLen

TooLong == qname_total_len > NameLen \/ qname_total_len > remaining

WalkEnd ==
    /\ pc = "walk"
    /\ WalkOver
    /\ IF label_offsets = <<>> \/ TooLong
       THEN Pass("silent") /\ UNCHANGED idx
       ELSE pc' = "copy" /\ idx' = 0 /\ UNCHANGED verdict
    /\ UNCHANGED <<config, received, pkt, scratch, walk>>

-----------------------------------------------------------------------------
suffix_start == label_offsets[idx + 1]

(* Neither of the breaks of the matching loop. *)
MoreSuffixes ==
    idx < Len(label_offsets) /\ qname_total_len - suffix_start \in 1 .. NameLen

(* The unrolled loop that copies the suffix to the lookup buffer. *)
BugCopyWithoutPadding(start) ==
    [k \in Offsets |-> IF k < qname_total_len - start THEN qname[(start + k) % NameLen]
                                                      ELSE lookup[k]]

CopiedSuffix(start) ==
    [k \in Offsets |-> IF k < qname_total_len - start THEN qname[(start + k) % NameLen] ELSE 0]

Copy ==
    /\ pc = "copy"
    /\ MoreSuffixes
    /\ lookup' = CopiedSuffix(suffix_start)
    /\ pc' = "lookup"
    /\ UNCHANGED <<config, received, pkt, qname, walk, idx, verdict>>

Resolve(action) == Pass(IF action = ACTION_HOST_RESOLVE THEN "host" ELSE "cluster")

(* bpf_map_lookup_elem(&suffix_rules, ...): the first hit decides. *)
LookupHit ==
    /\ pc = "lookup"
    /\ lookup \in DOMAIN suffix_rules
    /\ Resolve(suffix_rules[lookup])
    /\ UNCHANGED <<config, received, pkt, scratch, walk, idx>>

LookupMiss ==
    /\ pc = "lookup"
    /\ lookup \notin DOMAIN suffix_rules
    /\ idx' = idx + 1
    /\ pc' = "copy"
    /\ UNCHANGED <<config, received, pkt, scratch, walk, verdict>>

NoMatch ==
    /\ pc = "copy"
    /\ ~MoreSuffixes
    /\ Resolve(default_action)
    /\ UNCHANGED <<config, received, pkt, scratch, walk, idx>>

Next ==
    \/ Receive(Packets)
    \/ Load
    \/ WalkLabel
    \/ WalkInvalid
    \/ WalkEnd
    \/ Copy
    \/ LookupHit
    \/ LookupMiss
    \/ NoMatch

Spec == Init /\ [][Next]_vars

-----------------------------------------------------------------------------
(* Every variable stays in its domain; the walk stays in label_offsets. *)
TypeOK ==
    /\ received \in 0 .. MaxPackets
    /\ pkt.bytes \in Seq(Bytes)
    /\ qname \in Buffers
    /\ lookup \in Buffers
    /\ remaining \in 0 .. NameLen
    /\ label_offsets \in Seq(Offsets) /\ Len(label_offsets) <= MaxLabels
    /\ pos \in 0 .. NameLen + MaxLabelLen
    /\ idx \in 0 .. MaxLabels
    /\ pc \in {"load", "walk", "copy", "lookup", "done"}
    /\ verdict \in Verdicts

(***************************************************************************)
(* The key that is looked up is made of bytes of the current query and     *)
(* zeros, whatever earlier queries left in the scratch buffer and however  *)
(* short or malformed the current one is: none of the masked reads of the  *)
(* copy wraps around or passes the end of what was loaded.                 *)
(***************************************************************************)
LookupExact ==
    pc = "lookup" =>
        /\ qname_total_len <= Len(pkt.bytes)
        /\ lookup = Padded(SubSeq(pkt.bytes, suffix_start + 1, qname_total_len))

(* The rules whose pattern is a suffix of a name, in any case. *)
Matching(name) == {r \in rules : IsSuffix(ToLower(r.labels), ToLower(name))}

(* The action of the most specific of them, else the default. *)
ExpectedAction(name) ==
    IF Matching(name) = {} THEN default_action
    ELSE (CHOOSE r \in Matching(name) :
             \A s \in Matching(name) : Len(s.labels) <= Len(r.labels)).action

WithinLimits(name) == Len(name) <= MaxLabels /\ Len(Wire(name)) <= NameLen

Finished == pc = "done" /\ verdict # "none"

(***************************************************************************)
(* A lower-case name within the limits gets the action of the longest      *)
(* pattern that is a suffix of it by whole labels, or the default action.  *)
(***************************************************************************)
LongestSuffixWins ==
    Finished /\ pkt.name # <<>> /\ WithinLimits(pkt.name) /\ ~HasUpper(pkt.name) =>
        verdict = IF ExpectedAction(pkt.name) = ACTION_HOST_RESOLVE THEN "host" ELSE "cluster"

(***************************************************************************)
(* When the default keeps queries on CoreDNS, a query is redirected only   *)
(* for a host-resolve rule that is a suffix of its name.  In particular no *)
(* malformed, truncated or over-long QNAME is redirected.                  *)
(***************************************************************************)
RedirectNeedsRule ==
    Finished /\ verdict = "host" /\ default_action # ACTION_HOST_RESOLVE =>
        \E r \in Matching(pkt.name) : r.action = ACTION_HOST_RESOLVE

(* docs/design.md on names beyond MAX_DNS_NAME_LEN or MAX_LABELS: "longer  *)
(* names pass through to CoreDNS".                                         *)
LongNamesPass ==
    Finished /\ pkt.name # <<>> /\ ~WithinLimits(pkt.name) => verdict # "host"

(* The comment on case in dns_gateway_ingress: mixed-case queries "miss    *)
(* the suffix rules and fall through to CoreDNS - functionally correct".   *)
(* A query that the rules keep on CoreDNS stays there in any case.         *)
MixedCasePasses ==
    Finished /\ HasUpper(pkt.name) /\ ExpectedAction(pkt.name) # ACTION_HOST_RESOLVE =>
        verdict # "host"
=============================================================================
