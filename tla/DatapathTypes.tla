--------------------------- MODULE DatapathTypes ----------------------------
(***************************************************************************)
(* Type correctness of Datapath, for every set of queries, flows,          *)
(* transaction ids and elements, every TTL and every combination of        *)
(* faults; what nat_rewrite_addr leaves behind; and that the counters      *)
(* account for what happened to the packets.                               *)
(***************************************************************************)
EXTENDS Datapath, FiniteSetTheorems, TLAPS

-----------------------------------------------------------------------------
(* Unsigned subtraction of timestamps that are in order. *)
LEMMA ModSmall ==
    ASSUME NEW x \in Nat, NEW w \in Nat, x < w
    PROVE  x % w = x
  BY SMT

(* Unsigned subtraction of timestamps that are out of order wraps around. *)
LEMMA ModNegative ==
    ASSUME NEW x \in Int, NEW w \in Nat, x < 0, -x < w
    PROVE  x % w = x + w
  BY SMT

(* nat_rewrite_addr returns one of its three codes and leaves a packet. *)
LEMMA NatTypes ==
    ASSUME NEW p \in Packets, NEW old \in Addresses, NEW new \in Addresses,
           NEW fail \in SUBSET Helpers
    PROVE  /\ nat_rewrite_addr(p, old, new, fail).rc \in {0, -1, -2}
           /\ nat_rewrite_addr(p, old, new, fail).pkt \in Packets
  BY Zenon DEF nat_rewrite_addr, Packets, store_bytes, l3_csum_replace, l4_csum_replace,
         csum_replace, undo_l3, undo_store

(***************************************************************************)
(* nat_rewrite_addr on a packet that arrives intact: return code 0 leaves  *)
(* it fully rewritten and intact, return code -1 leaves it as it arrived.  *)
(***************************************************************************)
THEOREM NatAtomic ==
    ASSUME NEW p \in Packets, NEW old \in Addresses, NEW new \in Addresses,
           NEW fail \in SUBSET Helpers, Intact(p), p.addr = old
    PROVE  LET r == nat_rewrite_addr(p, old, new, fail)
           IN  /\ r.rc = 0 => r.pkt.addr = new /\ Intact(r.pkt)
               /\ r.rc = -1 => r.pkt = p
<1> DEFINE r == nat_rewrite_addr(p, old, new, fail)
<1> USE DEF nat_rewrite_addr, store_bytes, l3_csum_replace, l4_csum_replace, csum_replace,
            undo_l3, undo_store
<1>0. p = [addr |-> old, ip_csum |-> old, udp_csum |-> p.udp_csum]
  BY DEF Packets, Intact
<1>1. CASE "store" \in fail
  BY <1>1
<1>2. CASE "store" \notin fail /\ "l3" \in fail
  <2>1. r.rc # 0 /\ (r.rc = -1 => "undo_store" \notin fail)
    BY <1>2
  <2>2. ASSUME "undo_store" \notin fail PROVE r.pkt = p
    <3>1. r.pkt = store_bytes(store_bytes(p, new), old)
      BY <1>2, <2>2
    <3>2. @ = [addr |-> old, ip_csum |-> old, udp_csum |-> p.udp_csum]
      BY Zenon, <1>0
    <3> QED BY <1>0, <3>1, <3>2
  <2> QED BY <2>1, <2>2
<1>3. CASE "store" \notin fail /\ "l3" \notin fail /\ "l4" \in fail
  <2>1. r.rc = -1 => "undo_l3" \notin fail /\ "undo_store" \notin fail
    BY <1>3
  <2>2. ASSUME "undo_l3" \notin fail, "undo_store" \notin fail PROVE r.pkt = p
    <3>1. r.pkt = store_bytes(l3_csum_replace(l3_csum_replace(
                      store_bytes(p, new), old, new), new, old), old)
      BY <1>3, <2>2
    <3>2. store_bytes(p, new) = [addr |-> new, ip_csum |-> old, udp_csum |-> p.udp_csum]
      BY <1>0
    <3>3. l3_csum_replace([addr |-> new, ip_csum |-> old, udp_csum |-> p.udp_csum], old, new)
            = [addr |-> new, ip_csum |-> new, udp_csum |-> p.udp_csum]
      OBVIOUS
    <3>4. l3_csum_replace([addr |-> new, ip_csum |-> new, udp_csum |-> p.udp_csum], new, old)
            = [addr |-> new, ip_csum |-> old, udp_csum |-> p.udp_csum]
      OBVIOUS
    <3>5. store_bytes([addr |-> new, ip_csum |-> old, udp_csum |-> p.udp_csum], old) = p
      BY <1>0
    <3> HIDE DEF store_bytes, l3_csum_replace
    <3> QED BY <3>1, <3>2, <3>3, <3>4, <3>5
  <2>3. r.rc # 0
    BY <1>3
  <2> QED BY <2>1, <2>2, <2>3
<1>4. CASE "store" \notin fail /\ "l3" \notin fail /\ "l4" \notin fail
  <2>1. r.rc = 0
    BY <1>4
  <2>2. r.pkt = [addr |-> new, ip_csum |-> new,
                 udp_csum |-> IF p.udp_csum = NoCsum THEN NoCsum ELSE new]
    BY Zenon, <1>0, <1>4 DEF Intact
  <2> QED BY <2>1, <2>2 DEF Intact
<1> QED BY <1>1, <1>2, <1>3, <1>4

-----------------------------------------------------------------------------
(* Type correctness. *)

(* A packet as sent. *)
LEMMA EmittedType ==
    ASSUME NEW a \in Addresses, NEW c \in Addresses \cup {NoCsum}
    PROVE  Emitted(a, c) \in Packets /\ Emitted(a, c).addr = a
  BY DEF Emitted, Packets

(* Its checksums are right. *)
LEMMA EmittedIntact ==
    ASSUME NEW a \in Addresses, NEW c \in {a, NoCsum}
    PROVE  Intact(Emitted(a, c))
  BY DEF Emitted, Intact

(* History only gains causes. *)
LEMMA MarkType ==
    ASSUME TypeOK, NEW marks, Mark(marks)
    PROVE  /\ excuse' \in [Queries -> SUBSET Causes]
           /\ \A q \in Queries : excuse[q] \subseteq excuse'[q]
  BY DEF TypeOK, Mark

(* Counters stay natural numbers. *)
LEMMA CountType ==
    ASSUME TypeOK, NEW ids, increment_metric(ids)
    PROVE  metrics' \in [MetricIds -> Nat]
  BY DEF TypeOK, increment_metric

(* The maps are empty and no program runs. *)
LEMMA InitType == Init => TypeOK
<1> SUFFICES ASSUME Init PROVE TypeOK
  OBVIOUS
<1>1. Emitted(CoreDNS, CoreDNS) \in Packets
  BY EmittedType, AddressAssumption
<1>2. kind \in [Queries -> Kinds]
  BY ChoiceAssumption DEF Init
<1>3. 0 \in Time /\ 0 \in Nat /\ -1 \in Time \cup {-1}
  BY ClockAssumption DEF Time
<1>4. pkt \in [Queries -> Packets] /\ stage \in [Queries -> Stages]
  BY <1>1 DEF Init, Stages
<1>5. metrics \in [MetricIds -> Nat] /\ excuse \in [Queries -> SUBSET Causes]
  BY DEF Init
<1> QED
  BY Zenon, <1>2, <1>3, <1>4, <1>5 DEF Init, TypeOK

(* Every step of either program keeps the types. *)
LEMMA NextType == TypeOK /\ [Next]_vars => TypeOK'
<1> SUFFICES ASSUME TypeOK, [Next]_vars PROVE TypeOK'
  OBVIOUS
<1> USE AddressAssumption, ClockAssumption
<1>1. CASE Tick
  BY <1>1 DEF Tick, TypeOK, dgrams, mapVars, Time
<1>2. CASE SetBypass
  BY <1>2 DEF SetBypass, TypeOK, dgrams, mapVars
<1>3. ASSUME NEW q \in Queries, Send(q) PROVE TypeOK'
  <2>1. pkt' \in [Queries -> Packets]
    BY <1>3, EmittedType DEF Send, TypeOK
  <2>2. excuse' \in [Queries -> SUBSET Causes]
    BY <1>3, MarkType DEF Send
  <2> QED BY <1>3, <2>1, <2>2 DEF Send, TypeOK, dgrams, mapVars, Stages, IngressStages
<1>4. ASSUME NEW q \in Queries, Answer(q) PROVE TypeOK'
  <2>1. pkt' \in [Queries -> Packets]
    <3>1. pkt[q].addr \in Addresses
      BY DEF TypeOK, Packets
    <3> QED BY <1>4, <3>1, EmittedType DEF Answer, TypeOK
  <2> QED BY <1>4, <2>1 DEF Answer, TypeOK, dgrams, mapVars, Stages, EgressStages
<1>5. ASSUME NEW q \in Queries, Lose(q) PROVE TypeOK'
  BY <1>5 DEF Lose, TypeOK, dgrams, mapVars, Stages
<1>6. ASSUME NEW q \in Queries, IngressPass(q) PROVE TypeOK'
  <2>1. metrics' \in [MetricIds -> Nat]
    BY <1>6, CountType DEF IngressPass
  <2> QED BY <1>6, <2>1 DEF IngressPass, TypeOK, dgrams, mapVars, Stages
<1>7. ASSUME NEW q \in Queries, IngressMatch(q) PROVE TypeOK'
  <2>1. metrics' \in [MetricIds -> Nat]
    BY <1>7, CountType DEF IngressMatch
  <2> QED BY <1>7, <2>1 DEF IngressMatch, TypeOK, dgrams, mapVars, Stages, IngressStages
<1>8. ASSUME NEW q \in Queries, NEW e \in Elements, IngressInsert(q, e) PROVE TypeOK'
  <2>1. excuse' \in [Queries -> SUBSET Causes]
    BY <1>8, MarkType DEF IngressInsert
  <2>2. stamp' \in [Keys -> Time \cup {-1}]
    BY Zenon, <1>8 DEF IngressInsert, TypeOK, Time
  <2>3. table' \in [Keys -> Elements \cup {NoElement}] /\ elem' \in [Elements -> Time]
    BY <1>8 DEF IngressInsert, TypeOK
  <2>4. stage' \in [Queries -> Stages]
    BY <1>8 DEF IngressInsert, TypeOK, Stages, IngressStages
  <2> QED BY <1>8, <2>1, <2>2, <2>3, <2>4 DEF IngressInsert, TypeOK, dgrams
<1>9. ASSUME NEW q \in Queries, IngressInsertFails(q) PROVE TypeOK'
  BY <1>9 DEF IngressInsertFails, TypeOK, dgrams, mapVars, Stages
<1>10. ASSUME NEW q \in Queries, NEW fail \in NatFaults, IngressDnat(q, fail) PROVE TypeOK'
  <2>1. nat_rewrite_addr(pkt[q], CoreDNS, Host, fail).pkt \in Packets
    BY NatTypes, ChoiceAssumption DEF TypeOK
  <2>2. pkt' \in [Queries -> Packets]
    BY Zenon, <1>10, <2>1 DEF IngressDnat, TypeOK
  <2>3. metrics' \in [MetricIds -> Nat] /\ excuse' \in [Queries -> SUBSET Causes]
    BY <1>10, CountType, MarkType DEF IngressDnat
  <2>4. table' \in [Keys -> Elements \cup {NoElement}] /\ elem' \in [Elements -> Time]
    BY <1>10 DEF IngressDnat, map_delete_elem, TypeOK, mapVars, ConntrackKey
  <2> QED BY Zenon, <1>10, <2>2, <2>3, <2>4 DEF IngressDnat, TypeOK, dgrams, Stages
<1>11. ASSUME NEW q \in Queries, EgressPass(q) PROVE TypeOK'
  <2>1. metrics' \in [MetricIds -> Nat] /\ excuse' \in [Queries -> SUBSET Causes]
    BY <1>11, CountType, MarkType DEF EgressPass
  <2> QED BY Zenon, <1>11, <2>1 DEF EgressPass, TypeOK, dgrams, mapVars, Stages
<1>12. ASSUME NEW q \in Queries, EgressMiss(q) PROVE TypeOK'
  <2>1. metrics' \in [MetricIds -> Nat]
    BY <1>12, CountType DEF EgressMiss
  <2> QED BY Zenon, <1>12, <2>1 DEF EgressMiss, TypeOK, dgrams, mapVars, Stages
<1>13. ASSUME NEW q \in Queries, EgressHit(q) PROVE TypeOK'
  <2>1. metrics' \in [MetricIds -> Nat]
    BY <1>13, CountType DEF EgressHit
  <2>2. ptr' \in [Queries -> Elements \cup {NoElement}]
    BY <1>13 DEF EgressHit, TypeOK, ConntrackKey
  <2> QED BY <1>13, <2>1, <2>2 DEF EgressHit, TypeOK, dgrams, mapVars, Stages, EgressStages
<1>14. ASSUME NEW q \in Queries, EgressClock(q) PROVE TypeOK'
  BY <1>14 DEF EgressClock, TypeOK, dgrams, mapVars, Stages, EgressStages
<1>15. ASSUME NEW q \in Queries, EgressStale(q) PROVE TypeOK'
  BY Zenon, <1>15 DEF EgressStale, TypeOK, dgrams, mapVars, Stages, EgressStages
<1>16. ASSUME NEW q \in Queries, NEW fail \in NatFaults, EgressSnat(q, fail) PROVE TypeOK'
  <2>1. nat_rewrite_addr(pkt[q], Host, CoreDNS, fail).pkt \in Packets
    BY NatTypes, ChoiceAssumption DEF TypeOK
  <2>2. pkt' \in [Queries -> Packets]
    BY <1>16, <2>1 DEF EgressSnat, TypeOK
  <2>3. metrics' \in [MetricIds -> Nat] /\ excuse' \in [Queries -> SUBSET Causes]
    BY <1>16, CountType, MarkType DEF EgressSnat, TypeOK
  <2>4. /\ stage' \in [Queries -> Stages]
        /\ ptr' \in [Queries -> Elements \cup {NoElement}]
    BY <1>16 DEF EgressSnat, TypeOK, Stages, EgressStages
  <2> QED BY Zenon, <1>16, <2>2, <2>3, <2>4 DEF EgressSnat, TypeOK, dgrams, mapVars
<1>17. ASSUME NEW q \in Queries, EgressDelete(q) PROVE TypeOK'
  <2>1. metrics' \in [MetricIds -> Nat]
    BY <1>17, CountType DEF EgressDelete
  <2>2. table' \in [Keys -> Elements \cup {NoElement}] /\ elem' \in [Elements -> Time]
    BY <1>17 DEF EgressDelete, map_delete_elem, TypeOK, ConntrackKey
  <2> QED BY <1>17, <2>1, <2>2 DEF EgressDelete, TypeOK, dgrams, Stages
<1>18. CASE UNCHANGED vars
  BY <1>18 DEF vars, TypeOK, dgrams, mapVars
<1> QED
  BY <1>1, <1>2, <1>3, <1>4, <1>5, <1>6, <1>7, <1>8, <1>9, <1>10, <1>11, <1>12, <1>13,
     <1>14, <1>15, <1>16, <1>17, <1>18 DEF Next, Ingress, Egress

(* Every variable of the datapath stays in its domain. *)
THEOREM TypeCorrect == Spec => []TypeOK
  BY InitType, NextType, PTL DEF Spec

-----------------------------------------------------------------------------
(* Two invariants that the proofs about leaks and stale entries share. *)

(* Timestamps held by a run were read from the clock. *)
ClockInv == \A q \in Queries : ts[q] <= clock /\ now[q] <= clock

(* Before the rewrite a packet is as its sender emitted it, and where a    *)
(* program has got to tells which address the packet carries.              *)
PacketInv ==
    \A q \in Queries :
        /\ stage[q] \in {"insert", "dnat"} => kind[q] = "host"
        /\ stage[q] \in IngressStages /\ kind[q] # "direct" =>
              pkt[q].addr = CoreDNS /\ Intact(pkt[q])
        /\ kind[q] \notin {"host", "direct"} => pkt[q].addr = CoreDNS
        /\ kind[q] = "direct" /\ stage[q] \in {"ingress", "routed", "answered", "fragment"} =>
              pkt[q].addr = Host
        /\ stage[q] \in {"answered", "clock", "ttl", "expire"} => Intact(pkt[q])
        /\ stage[q] \in {"clock", "ttl", "expire"} => pkt[q].addr = Host
        /\ stage[q] = "snat" => pkt[q].addr = CoreDNS /\ kind[q] \in {"host", "direct"}
        /\ stage[q] \in {"clock", "ttl"} => ptr[q] \in Elements

(* The clock is monotonic. *)
LEMMA ClockStep == TypeOK /\ ClockInv /\ [Next]_vars => ClockInv'
<1> SUFFICES ASSUME TypeOK, ClockInv, [Next]_vars PROVE ClockInv'
  OBVIOUS
<1>0. Tick \/ (\E q \in Queries : IngressMatch(q) \/ EgressClock(q))
           \/ UNCHANGED <<clock, ts, now>>
  BY ZenonT(60) DEF Next, vars, Ingress, Egress, SetBypass, Send, Answer, Lose, IngressPass,
         IngressInsert, IngressInsertFails, IngressDnat, EgressPass, EgressMiss, EgressHit,
         EgressStale, EgressSnat, EgressDelete
<1> USE DEF TypeOK, ClockInv, Time
<1>1. CASE Tick
  BY <1>1, ClockAssumption DEF Tick
<1>2. ASSUME NEW q \in Queries, IngressMatch(q) PROVE ClockInv'
  BY <1>2, ClockAssumption DEF IngressMatch
<1>3. ASSUME NEW q \in Queries, EgressClock(q) PROVE ClockInv'
  BY <1>3, ClockAssumption DEF EgressClock
<1>4. CASE UNCHANGED <<clock, ts, now>>
  BY <1>4
<1> QED BY <1>0, <1>1, <1>2, <1>3, <1>4

(* No step separates a packet's address from its stage. *)
LEMMA PacketStep == TypeOK /\ PacketInv /\ [Next]_vars => PacketInv'
<1> SUFFICES ASSUME TypeOK, PacketInv, [Next]_vars PROVE PacketInv'
  OBVIOUS
<1> USE AddressAssumption DEF TypeOK, PacketInv, IngressStages, dgrams
<1>1. CASE Tick \/ SetBypass \/ UNCHANGED vars
  BY <1>1 DEF Tick, SetBypass, vars
<1>3. ASSUME NEW q \in Queries, Send(q) PROVE PacketInv'
  <2> DEFINE dst == IF kind[q] = "direct" THEN Host ELSE CoreDNS
  <2>1. PICK c \in {dst, NoCsum} : pkt' = [pkt EXCEPT ![q] = Emitted(dst, c)]
    BY Zenon, <1>3 DEF Send
  <2>2. pkt'[q].addr = dst /\ Intact(pkt'[q])
    BY <2>1, EmittedType, EmittedIntact
  <2> QED BY <1>3, <2>1, <2>2 DEF Send
<1>4. ASSUME NEW q \in Queries, Answer(q) PROVE PacketInv'
  <2>1. pkt[q].addr \in Addresses
    BY DEF Packets
  <2>2. pkt'[q].addr = pkt[q].addr /\ Intact(pkt'[q])
    BY <1>4, <2>1, EmittedType, EmittedIntact DEF Answer
  <2> QED BY <1>4, <2>2 DEF Answer
<1>5. ASSUME NEW q \in Queries, Lose(q) PROVE PacketInv'
  BY <1>5 DEF Lose
<1>6. ASSUME NEW q \in Queries, IngressPass(q) PROVE PacketInv'
  BY <1>6 DEF IngressPass
<1>7. ASSUME NEW q \in Queries, IngressMatch(q) PROVE PacketInv'
  BY Zenon, <1>7 DEF IngressMatch
<1>8. ASSUME NEW q \in Queries, NEW e \in Elements, IngressInsert(q, e) PROVE PacketInv'
  BY <1>8 DEF IngressInsert
<1>9. ASSUME NEW q \in Queries, IngressInsertFails(q) PROVE PacketInv'
  BY Zenon, <1>9 DEF IngressInsertFails
<1>10. ASSUME NEW q \in Queries, NEW fail \in NatFaults, IngressDnat(q, fail) PROVE PacketInv'
  BY <1>10 DEF IngressDnat
<1>11. ASSUME NEW q \in Queries, EgressPass(q) PROVE PacketInv'
  BY <1>11 DEF EgressPass
<1>12. ASSUME NEW q \in Queries, EgressMiss(q) PROVE PacketInv'
  BY <1>12 DEF EgressMiss
<1>13. ASSUME NEW q \in Queries, EgressHit(q) PROVE PacketInv'
  <2>1. ptr'[q] \in Elements
    BY <1>13 DEF EgressHit, ConntrackKey
  <2> QED BY <1>13, <2>1 DEF EgressHit
<1>14. ASSUME NEW q \in Queries, EgressClock(q) PROVE PacketInv'
  BY <1>14 DEF EgressClock
<1>15. ASSUME NEW q \in Queries, EgressStale(q) PROVE PacketInv'
  BY Zenon, <1>15 DEF EgressStale
<1>16. ASSUME NEW q \in Queries, NEW fail \in NatFaults, EgressSnat(q, fail) PROVE PacketInv'
  <2> DEFINE r == nat_rewrite_addr(pkt[q], Host, CoreDNS, fail)
  <2>1. r.rc = 0 => r.pkt.addr = CoreDNS
    BY <1>16, NatAtomic, ChoiceAssumption DEF EgressSnat
  <2>2. kind[q] \in {"host", "direct"}
    BY <1>16 DEF EgressSnat
  <2> QED BY ZenonT(30), <1>16, <2>1, <2>2 DEF EgressSnat
<1>17. ASSUME NEW q \in Queries, EgressDelete(q) PROVE PacketInv'
  BY <1>17 DEF EgressDelete
<1> QED
  BY Zenon, <1>1, <1>3, <1>4, <1>5, <1>6, <1>7, <1>8, <1>9, <1>10, <1>11, <1>12, <1>13,
     <1>14, <1>15, <1>16, <1>17 DEF Next, Ingress, Egress

(* What every step leaves alone. *)
LEMMA StepFrame ==
    ASSUME TypeOK, [Next]_vars
    PROVE  /\ UNCHANGED <<kind, ident>>
           /\ \A q \in Queries : excuse[q] \subseteq excuse'[q]
<1>1. UNCHANGED <<kind, ident>>
  BY ZenonT(30)
     DEF Next, vars, dgrams, Ingress, Egress, Tick, SetBypass, Send, Answer, Lose, IngressPass,
         IngressMatch, IngressInsert, IngressInsertFails, IngressDnat, EgressPass, EgressMiss,
         EgressHit, EgressClock, EgressStale, EgressSnat, EgressDelete
<1>2. UNCHANGED excuse \/ \E marks : Mark(marks)
  BY ZenonT(30) DEF Next, vars, Ingress, Egress, Tick, SetBypass, Send, Answer, Lose, IngressPass,
         IngressMatch, IngressInsert, IngressInsertFails, IngressDnat, EgressPass, EgressMiss,
         EgressHit, EgressClock, EgressStale, EgressSnat, EgressDelete
<1>3. \A q \in Queries : excuse[q] \subseteq excuse'[q]
  BY <1>2, MarkType
<1> QED BY <1>1, <1>3

(* A program step, an answer or a loss concerns a query on its way, and no *)
(* other query moves.                                                      *)
LEMMA StageFrame ==
    ASSUME TypeOK, NEW x \in Queries, Answer(x) \/ Lose(x) \/ Ingress(x) \/ Egress(x)
    PROVE  /\ stage[x] \notin {"idle", "delivered", "dropped"}
           /\ \A z \in Queries \ {x} : UNCHANGED <<stage[z], pkt[z], ts[z], now[z], ptr[z]>>
  BY ZenonT(30) DEF TypeOK, Ingress, Egress, Answer, Lose, IngressPass, IngressMatch, IngressInsert,
     IngressInsertFails, IngressDnat, EgressPass, EgressMiss, EgressHit, EgressClock,
     EgressStale, EgressSnat, EgressDelete

(* They hold before the first packet. *)
LEMMA InitPackets == Init => ClockInv /\ PacketInv
<1> SUFFICES ASSUME Init PROVE ClockInv /\ PacketInv
  OBVIOUS
<1>1. Emitted(CoreDNS, CoreDNS).addr = CoreDNS
  BY EmittedType, AddressAssumption
<1> QED
  BY <1>1, ClockAssumption DEF Init, ClockInv, PacketInv, IngressStages

-----------------------------------------------------------------------------
(* The counters.  Sets of queries are counted by adding and taking away    *)
(* one query at a time.                                                    *)

(* The packets whose rewrite was left half-way. *)
Torn == {q \in Queries : ~Intact(pkt[q])}

(* The queries between the suffix lookup and the end of their ingress run. *)
Routing == {q \in Queries : stage[q] \in {"insert", "dnat"}}

(* The answers that could not be rewritten. *)
Unrestored == {q \in Queries : "snat_failed" \in excuse[q]}

(* An answer is rewritten at most once. *)
SnatInv == \A q \in Queries : "snat_failed" \in excuse[q] => stage[q] = "delivered"

(* What the counting arguments carry from state to state. *)
CountInv == TypeOK /\ PacketInv /\ SnatInv /\ HalfRewritesAlarmed /\ RoutingCounted

(* Sets of queries are finite, one more query adds at most one, and one    *)
(* less takes one away.                                                    *)
LEMMA QuerySets ==
    ASSUME NEW S \in SUBSET Queries
    PROVE  /\ Cardinality(S) \in Nat
           /\ \A q \in Queries \ S : Cardinality(S \cup {q}) = Cardinality(S) + 1
           /\ \A q \in S : Cardinality(S \ {q}) = Cardinality(S) - 1
           /\ \A T \in SUBSET S : Cardinality(T) <= Cardinality(S)
<1>1. IsFiniteSet(S)
  BY FS_Subset, QueriesAssumption
<1>2. Cardinality(S) \in Nat
  BY <1>1, FS_CardinalityType
<1>3. \A q : Cardinality(S \cup {q}) = IF q \in S THEN Cardinality(S) ELSE Cardinality(S) + 1
  BY <1>1, FS_AddElement
<1>4. \A q : Cardinality(S \ {q}) = IF q \in S THEN Cardinality(S) - 1 ELSE Cardinality(S)
  BY <1>1, FS_RemoveElement
<1>5. \A T \in SUBSET S : Cardinality(T) <= Cardinality(S)
  BY <1>1, FS_Subset
<1> QED BY <1>2, <1>3, <1>4, <1>5

(* A step counts some events, each at most once. *)
LEMMA StepCounts ==
    ASSUME TypeOK, [Next]_vars
    PROVE  metrics' \in [MetricIds -> Nat] /\ \A m \in MetricIds : metrics[m] <= metrics'[m]
<1>1. UNCHANGED metrics \/ \E ids : increment_metric(ids)
  BY ZenonT(30) DEF Next, vars, Ingress, Egress, Tick, SetBypass, Send, Answer, Lose, IngressPass,
         IngressMatch, IngressInsert, IngressInsertFails, IngressDnat, EgressPass, EgressMiss,
         EgressHit, EgressClock, EgressStale, EgressSnat, EgressDelete
<1> QED BY <1>1 DEF TypeOK, increment_metric

(* A rewrite of a packet that is as its sender emitted it leaves it torn   *)
(* only with the return code that raises the alarm.                        *)
LEMMA RewriteCounts ==
    ASSUME TypeOK, PacketInv, NEW x \in Queries, NEW fail \in NatFaults,
           IngressDnat(x, fail) \/ EgressSnat(x, fail)
    PROVE  Intact(pkt'[x]) \/ metrics'["NAT_REVERT_FAIL"] = metrics["NAT_REVERT_FAIL"] + 1
<1>0. fail \in SUBSET Helpers /\ "NAT_REVERT_FAIL" \in MetricIds /\ pkt[x] \in Packets
  BY ChoiceAssumption DEF TypeOK, MetricIds
<1>1. ASSUME NEW old \in Addresses, NEW new \in Addresses,
             pkt' = [pkt EXCEPT ![x] = nat_rewrite_addr(pkt[x], old, new, fail).pkt],
             Intact(pkt[x]), pkt[x].addr = old,
             \/ nat_rewrite_addr(pkt[x], old, new, fail).rc = 0
             \/ increment_metric(count_nat_failure(nat_rewrite_addr(pkt[x], old, new, fail).rc))
      PROVE  Intact(pkt'[x]) \/ metrics'["NAT_REVERT_FAIL"] = metrics["NAT_REVERT_FAIL"] + 1
  <2> DEFINE r == nat_rewrite_addr(pkt[x], old, new, fail)
  <2>1. /\ r.rc = 0 => Intact(r.pkt)
        /\ r.rc = -1 => r.pkt = pkt[x]
    BY <1>0, <1>1, NatAtomic
  <2>2. r.rc \in {0, -1, -2}
    BY <1>0, NatTypes
  <2>3. pkt'[x] = r.pkt
    BY <1>1 DEF TypeOK
  <2>4. increment_metric(count_nat_failure(-2)) =>
            metrics'["NAT_REVERT_FAIL"] = metrics["NAT_REVERT_FAIL"] + 1
    BY <1>0 DEF increment_metric, count_nat_failure
  <2> HIDE DEF r
  <2> QED BY <1>1, <2>1, <2>2, <2>3, <2>4 DEF r
<1>2. CASE IngressDnat(x, fail)
  <2>1. pkt[x].addr = CoreDNS /\ Intact(pkt[x])
    BY <1>2 DEF IngressDnat, PacketInv, IngressStages
  <2> QED BY Zenon, <1>1, <1>2, <2>1, AddressAssumption DEF IngressDnat
<1>3. CASE EgressSnat(x, fail)
  <2>1. pkt[x].addr = Host /\ Intact(pkt[x])
    BY <1>3 DEF EgressSnat, PacketInv
  <2> QED BY Zenon, <1>1, <1>3, <2>1, AddressAssumption DEF EgressSnat
<1> QED BY <1>2, <1>3

(* One packet at a time is torn, and counted. *)
LEMMA AlarmStep ==
    TypeOK /\ PacketInv /\ HalfRewritesAlarmed /\ [Next]_vars => HalfRewritesAlarmed'
<1> SUFFICES ASSUME TypeOK, PacketInv, HalfRewritesAlarmed, [Next]_vars
             PROVE  HalfRewritesAlarmed'
  OBVIOUS
<1>1. "NAT_REVERT_FAIL" \in MetricIds
  BY DEF MetricIds
<1>2. /\ metrics["NAT_REVERT_FAIL"] \in Nat /\ metrics'["NAT_REVERT_FAIL"] \in Nat
      /\ metrics["NAT_REVERT_FAIL"] <= metrics'["NAT_REVERT_FAIL"]
  BY <1>1, StepCounts DEF TypeOK
<1>3. /\ Torn \in SUBSET Queries /\ Torn' \in SUBSET Queries
      /\ Cardinality(Torn) \in Nat /\ Cardinality(Torn') \in Nat
      /\ Cardinality(Torn) <= metrics["NAT_REVERT_FAIL"]
  BY QuerySets DEF Torn, HalfRewritesAlarmed
<1>4. CASE Torn' \subseteq Torn
  <2>1. Cardinality(Torn') <= Cardinality(Torn)
    BY <1>3, <1>4, QuerySets
  <2>2. Cardinality(Torn') <= metrics'["NAT_REVERT_FAIL"]
    BY <1>2, <1>3, <2>1
  <2> QED BY <2>2 DEF Torn, HalfRewritesAlarmed
<1>5. ASSUME NEW x \in Queries, Torn' \subseteq Torn \cup {x},
             metrics'["NAT_REVERT_FAIL"] = metrics["NAT_REVERT_FAIL"] + 1
      PROVE  HalfRewritesAlarmed'
  <2>1. Cardinality(Torn \cup {x}) <= Cardinality(Torn) + 1
    <3>1. CASE x \in Torn
      <4>1. Torn \cup {x} = Torn
        BY <3>1
      <4> QED BY <1>3, <4>1
    <3>2. CASE x \notin Torn
      BY <1>3, <3>2, QuerySets
    <3> QED BY <3>1, <3>2
  <2>2. Cardinality(Torn') <= Cardinality(Torn \cup {x}) /\ Cardinality(Torn \cup {x}) \in Nat
    BY <1>3, <1>5, QuerySets
  <2>3. Cardinality(Torn') <= metrics'["NAT_REVERT_FAIL"]
    BY <1>2, <1>3, <1>5, <2>1, <2>2
  <2> QED BY <2>3 DEF Torn, HalfRewritesAlarmed
<1>6. ASSUME NEW x \in Queries, Send(x) PROVE Torn' \subseteq Torn
  <2> DEFINE dst == IF kind[x] = "direct" THEN Host ELSE CoreDNS
  <2>1. PICK c \in {dst, NoCsum} : pkt' = [pkt EXCEPT ![x] = Emitted(dst, c)]
    BY Zenon, <1>6 DEF Send
  <2>2. Intact(pkt'[x])
    BY <2>1, EmittedIntact, AddressAssumption DEF TypeOK
  <2> QED BY <2>1, <2>2 DEF Torn, TypeOK
<1>7. ASSUME NEW x \in Queries, Answer(x) PROVE Torn' \subseteq Torn
  <2>1. pkt[x].addr \in Addresses
    BY DEF Packets, TypeOK
  <2>2. Intact(pkt'[x])
    BY <1>7, <2>1, EmittedIntact DEF Answer, TypeOK
  <2> QED BY <1>7, <2>2 DEF Answer, Torn, TypeOK
<1>8. ASSUME NEW x \in Queries, NEW fail \in NatFaults,
             IngressDnat(x, fail) \/ EgressSnat(x, fail)
      PROVE  HalfRewritesAlarmed'
  <2>1. \A z \in Queries \ {x} : pkt'[z] = pkt[z]
    BY Zenon, <1>8 DEF IngressDnat, EgressSnat, TypeOK
  <2>2. CASE Intact(pkt'[x])
    BY <1>4, <2>1, <2>2 DEF Torn
  <2>3. CASE metrics'["NAT_REVERT_FAIL"] = metrics["NAT_REVERT_FAIL"] + 1
    <3>1. Torn' \subseteq Torn \cup {x}
      BY <2>1 DEF Torn
    <3> QED BY <1>5, <2>3, <3>1
  <2> QED BY <1>8, <2>2, <2>3, RewriteCounts
<1>9. CASE UNCHANGED pkt
  BY <1>4, <1>9 DEF Torn
<1>10. \/ UNCHANGED pkt
       \/ \E x \in Queries : Send(x) \/ Answer(x)
       \/ \E x \in Queries, fail \in NatFaults : IngressDnat(x, fail) \/ EgressSnat(x, fail)
  BY ZenonT(30) DEF Next, vars, Ingress, Egress, Tick, SetBypass, Lose, IngressPass,
         IngressMatch, IngressInsert, IngressInsertFails, EgressPass, EgressMiss,
         EgressHit, EgressClock, EgressStale, EgressDelete
<1> QED BY <1>4, <1>6, <1>7, <1>8, <1>9, <1>10

(* A failed rewrite of an answer is the end of its egress run. *)
LEMMA UnrestoredStep == TypeOK /\ SnatInv /\ [Next]_vars => SnatInv'
<1> SUFFICES ASSUME TypeOK, SnatInv, [Next]_vars, NEW q \in Queries,
                    "snat_failed" \in excuse'[q]
             PROVE  stage'[q] = "delivered"
  BY DEF SnatInv
<1>1. stage[q] = "delivered" => stage'[q] = "delivered"
  <2>1. ASSUME NEW x \in Queries, Send(x) PROVE stage[q] = "delivered" => stage'[q] = "delivered"
    BY <2>1 DEF Send, TypeOK
  <2>2. ASSUME NEW x \in Queries, Answer(x) \/ Lose(x) \/ Ingress(x) \/ Egress(x)
        PROVE  stage[q] = "delivered" => stage'[q] = "delivered"
    BY Zenon, <2>2, StageFrame
  <2> QED BY Zenon, <2>1, <2>2 DEF Next, Tick, SetBypass, vars
<1>2. ASSUME "snat_failed" \notin excuse[q] PROVE stage'[q] = "delivered"
  <2>1. ASSUME NEW marks, Mark(marks) PROVE <<q, "snat_failed">> \in marks
    BY <1>2, <2>1 DEF Mark
  <2>2. ~(UNCHANGED excuse)
    BY <1>2
  <2>3. ASSUME NEW x \in Queries, Send(x) \/ \E e \in Elements : IngressInsert(x, e) PROVE FALSE
    BY <2>1, <2>3 DEF Send, IngressInsert
  <2>4. ASSUME NEW x \in Queries,
               EgressPass(x) \/ \E fail \in NatFaults : IngressDnat(x, fail)
        PROVE  FALSE
    BY <2>1, <2>4 DEF EgressPass, IngressDnat
  <2>5. ASSUME NEW x \in Queries, NEW fail \in NatFaults, EgressSnat(x, fail)
        PROVE  stage'[q] = "delivered"
    <3>1. Mark({<<x, "snat_failed">>}) /\ stage' = [stage EXCEPT ![x] = "delivered"]
      BY Zenon, <2>2, <2>5 DEF EgressSnat
    <3>2. q = x
      BY <2>1, <3>1
    <3> QED BY <3>1, <3>2 DEF TypeOK
  <2>6. \E x \in Queries :
            \/ Send(x) \/ EgressPass(x) \/ \E e \in Elements : IngressInsert(x, e)
            \/ \E fail \in NatFaults : IngressDnat(x, fail) \/ EgressSnat(x, fail)
    BY ZenonT(30), <2>2 DEF Next, vars, Ingress, Egress, Tick, SetBypass, Answer, Lose,
         IngressPass, IngressMatch, IngressInsertFails, EgressMiss, EgressHit, EgressClock,
         EgressStale, EgressDelete
  <2> QED BY Zenon, <2>3, <2>4, <2>5, <2>6
<1> QED BY <1>1, <1>2 DEF SnatInv

(* The counters of RoutingCounted. *)
RoutingIds == {"SUFFIX_LOOKUPS", "REDIRECTED", "CLUSTER_RESOLVED", "NAT_ERROR"}

(* What increment_metric does to each counter. *)
LEMMA Increments ==
    ASSUME NEW ids, increment_metric(ids), NEW m \in RoutingIds
    PROVE  metrics'[m] = IF m \in ids THEN metrics[m] + 1 ELSE metrics[m] + 0
  BY DEF increment_metric, RoutingIds, MetricIds

(* No cause other than a failed rewrite of an answer adds to Unrestored. *)
LEMMA MarksOthers ==
    ASSUME TypeOK, NEW marks, Mark(marks), \A q : <<q, "snat_failed">> \notin marks
    PROVE  Unrestored' = Unrestored
  BY DEF TypeOK, Mark, Unrestored, Causes

(* A query whose ingress run moves on within, into or out of Routing. *)
LEMMA RoutingMoves ==
    ASSUME TypeOK, NEW x \in Queries, NEW s, stage' = [stage EXCEPT ![x] = s]
    PROVE  Routing' = IF s \in {"insert", "dnat"} THEN Routing \cup {x} ELSE Routing \ {x}
  BY DEF TypeOK, Routing

(* Steps that route nothing. *)
LEMMA RoutesNothing ==
    ASSUME RoutingCounted, Routing' = Routing, Unrestored' = Unrestored, UNCHANGED insertFails,
           \A m \in RoutingIds : metrics'[m] = metrics[m]
    PROVE  RoutingCounted'
  BY DEF RoutingCounted, Routing, Unrestored, RoutingIds

(* Each way out of the suffix lookup is counted. *)
LEMMA RoutingStep ==
    TypeOK /\ PacketInv /\ SnatInv /\ RoutingCounted /\ [Next]_vars => RoutingCounted'
<1> SUFFICES ASSUME TypeOK, PacketInv, SnatInv, RoutingCounted, [Next]_vars
             PROVE  RoutingCounted'
  OBVIOUS
<1>0. /\ Routing \in SUBSET Queries /\ Unrestored \in SUBSET Queries /\ insertFails \in Nat
      /\ Cardinality(Routing) \in Nat /\ Cardinality(Unrestored) \in Nat
      /\ \A m \in RoutingIds : metrics[m] \in Nat
      /\ metrics["SUFFIX_LOOKUPS"] \in Nat /\ metrics["CLUSTER_RESOLVED"] \in Nat
      /\ metrics["REDIRECTED"] \in Nat /\ metrics["NAT_ERROR"] \in Nat
      /\ metrics["SUFFIX_LOOKUPS"] + Cardinality(Unrestored)
           = metrics["REDIRECTED"] + metrics["CLUSTER_RESOLVED"] + metrics["NAT_ERROR"]
             + insertFails + Cardinality(Routing)
  BY QuerySets DEF Routing, Unrestored, RoutingCounted, TypeOK, RoutingIds, MetricIds
<1>a. ASSUME NEW dl \in {0, 1}, NEW dc \in {0, 1}, NEW dd \in {0, 1}, NEW dn \in {0, 1},
             NEW df \in {0, 1}, NEW dw \in {-1, 0, 1}, NEW du \in {0, 1},
             dl + du = dd + dc + dn + df + dw,
             metrics'["SUFFIX_LOOKUPS"] = metrics["SUFFIX_LOOKUPS"] + dl,
             metrics'["CLUSTER_RESOLVED"] = metrics["CLUSTER_RESOLVED"] + dc,
             metrics'["REDIRECTED"] = metrics["REDIRECTED"] + dd,
             metrics'["NAT_ERROR"] = metrics["NAT_ERROR"] + dn,
             insertFails' = insertFails + df,
             Cardinality(Routing') = Cardinality(Routing) + dw,
             Cardinality(Unrestored') = Cardinality(Unrestored) + du
      PROVE  RoutingCounted'
  <2>1. metrics'["SUFFIX_LOOKUPS"] + Cardinality(Unrestored')
          = metrics'["REDIRECTED"] + metrics'["CLUSTER_RESOLVED"] + metrics'["NAT_ERROR"]
            + insertFails' + Cardinality(Routing')
    BY <1>0, <1>a
  <2> QED BY <2>1 DEF Routing, Unrestored, RoutingCounted
<1>1. ASSUME NEW x \in Queries, IngressPass(x) PROVE RoutingCounted'
  <2>1. Routing' = Routing /\ Unrestored' = Unrestored /\ UNCHANGED insertFails
    BY <1>1, RoutingMoves DEF IngressPass, Routing, Unrestored
  <2>2. CASE \A m \in RoutingIds : metrics'[m] = metrics[m]
    BY Zenon, <2>1, <2>2, RoutesNothing
  <2>3. CASE increment_metric({"TOTAL_PACKETS", "BYPASS_ACTIVE"})
    BY <1>0, <2>2, <2>3, Increments DEF RoutingIds
  <2>4. CASE kind[x] \notin {"host", "cluster"} /\ increment_metric(ParserCounts(kind[x]))
    <3>1. \A m \in RoutingIds : m \notin ParserCounts(kind[x])
      BY <2>4 DEF ParserCounts, RoutingIds
    <3> QED BY <1>0, <2>2, <2>4, <3>1, Increments
  <2>5. CASE increment_metric(ParserCounts("cluster"))
    <3>1. /\ metrics'["SUFFIX_LOOKUPS"] = metrics["SUFFIX_LOOKUPS"] + 1
          /\ metrics'["CLUSTER_RESOLVED"] = metrics["CLUSTER_RESOLVED"] + 1
          /\ metrics'["REDIRECTED"] = metrics["REDIRECTED"] + 0
          /\ metrics'["NAT_ERROR"] = metrics["NAT_ERROR"] + 0
      BY <2>5, Increments DEF ParserCounts, RoutingIds
    <3> QED BY <1>0, <1>a, <2>1, <3>1
  <2> QED BY Zenon, <1>1, <2>3, <2>4, <2>5 DEF IngressPass
<1>2. ASSUME NEW x \in Queries, IngressMatch(x) PROVE RoutingCounted'
  <2>1. Routing' = Routing \cup {x} /\ x \notin Routing /\ Unrestored' = Unrestored
    BY <1>2, RoutingMoves DEF IngressMatch, Routing, Unrestored
  <2>2. /\ metrics'["SUFFIX_LOOKUPS"] = metrics["SUFFIX_LOOKUPS"] + 1
        /\ metrics'["CLUSTER_RESOLVED"] = metrics["CLUSTER_RESOLVED"] + 0
        /\ metrics'["REDIRECTED"] = metrics["REDIRECTED"] + 0
        /\ metrics'["NAT_ERROR"] = metrics["NAT_ERROR"] + 0
        /\ UNCHANGED insertFails
    BY <1>2, Increments DEF IngressMatch, ParserCounts, RoutingIds
  <2>3. Cardinality(Routing') = Cardinality(Routing) + 1
    BY <1>0, <2>1, QuerySets
  <2> QED BY <1>0, <1>a, <2>1, <2>2, <2>3
<1>3. ASSUME NEW x \in Queries, NEW e \in Elements, IngressInsert(x, e) PROVE RoutingCounted'
  <2>1. Routing' = Routing
    BY <1>3, RoutingMoves DEF IngressInsert, Routing
  <2>2. Unrestored' = Unrestored
    BY <1>3, MarksOthers DEF IngressInsert
  <2> QED BY <1>3, <2>1, <2>2, RoutesNothing DEF IngressInsert
<1>4. ASSUME NEW x \in Queries, IngressInsertFails(x) PROVE RoutingCounted'
  <2>1. Routing' = Routing \ {x} /\ x \in Routing /\ Unrestored' = Unrestored
    BY <1>4, RoutingMoves DEF IngressInsertFails, Routing, Unrestored
  <2>2. Cardinality(Routing') = Cardinality(Routing) - 1
    BY <1>0, <2>1, QuerySets
  <2> QED BY <1>0, <1>4, <1>a, <2>1, <2>2 DEF IngressInsertFails
<1>5. ASSUME NEW x \in Queries, NEW fail \in NatFaults, IngressDnat(x, fail)
      PROVE  RoutingCounted'
  <2>1. Routing' = Routing \ {x} /\ x \in Routing
    BY <1>5, RoutingMoves DEF IngressDnat, Routing
  <2>2. Unrestored' = Unrestored
    BY <1>5, MarksOthers DEF IngressDnat
  <2>3. Cardinality(Routing') = Cardinality(Routing) - 1
    BY <1>0, <2>1, QuerySets
  <2>4. CASE increment_metric({"REDIRECTED"})
    <3>1. /\ metrics'["SUFFIX_LOOKUPS"] = metrics["SUFFIX_LOOKUPS"] + 0
          /\ metrics'["CLUSTER_RESOLVED"] = metrics["CLUSTER_RESOLVED"] + 0
          /\ metrics'["REDIRECTED"] = metrics["REDIRECTED"] + 1
          /\ metrics'["NAT_ERROR"] = metrics["NAT_ERROR"] + 0
          /\ UNCHANGED insertFails
      BY <1>5, <2>4, Increments DEF IngressDnat, RoutingIds
    <3> QED BY <1>0, <1>a, <2>2, <2>3, <3>1
  <2>5. ASSUME NEW rc, increment_metric(count_nat_failure(rc)) PROVE RoutingCounted'
    <3>1. /\ metrics'["SUFFIX_LOOKUPS"] = metrics["SUFFIX_LOOKUPS"] + 0
          /\ metrics'["CLUSTER_RESOLVED"] = metrics["CLUSTER_RESOLVED"] + 0
          /\ metrics'["REDIRECTED"] = metrics["REDIRECTED"] + 0
          /\ metrics'["NAT_ERROR"] = metrics["NAT_ERROR"] + 1
          /\ UNCHANGED insertFails
      BY <1>5, <2>5, Increments DEF IngressDnat, count_nat_failure, RoutingIds
    <3> QED BY <1>0, <1>a, <2>2, <2>3, <3>1
  <2> QED BY Zenon, <1>5, <2>4, <2>5 DEF IngressDnat
<1>6. ASSUME NEW x \in Queries, NEW fail \in NatFaults, EgressSnat(x, fail)
      PROVE  RoutingCounted'
  <2>1. Routing' = Routing
    BY <1>6, RoutingMoves DEF EgressSnat, Routing
  <2>2. CASE UNCHANGED <<metrics, excuse>>
    BY <1>6, <2>1, <2>2, RoutesNothing DEF EgressSnat, Unrestored
  <2>3. ASSUME NEW rc, increment_metric(count_nat_failure(rc)), Mark({<<x, "snat_failed">>})
        PROVE  RoutingCounted'
    <3>1. /\ metrics'["SUFFIX_LOOKUPS"] = metrics["SUFFIX_LOOKUPS"] + 0
          /\ metrics'["CLUSTER_RESOLVED"] = metrics["CLUSTER_RESOLVED"] + 0
          /\ metrics'["REDIRECTED"] = metrics["REDIRECTED"] + 0
          /\ metrics'["NAT_ERROR"] = metrics["NAT_ERROR"] + 1
          /\ UNCHANGED insertFails
      BY <1>6, <2>3, Increments DEF EgressSnat, count_nat_failure, RoutingIds
    <3>2. Unrestored' = Unrestored \cup {x}
      BY <2>3 DEF TypeOK, Mark, Unrestored, Causes
    <3>3. x \notin Unrestored
      BY <1>6 DEF EgressSnat, Unrestored, SnatInv
    <3>4. Cardinality(Unrestored') = Cardinality(Unrestored) + 1
      BY <1>0, <3>2, <3>3, QuerySets
    <3> QED BY <1>0, <1>a, <2>1, <3>1, <3>4
  <2> QED BY Zenon, <1>6, <2>2, <2>3 DEF EgressSnat
<1>7. ASSUME NEW x \in Queries, Send(x) \/ Answer(x) \/ Lose(x) PROVE RoutingCounted'
  <2>1. Routing' = Routing
    BY <1>7, RoutingMoves DEF Send, Answer, Lose, Routing
  <2>2. Unrestored' = Unrestored
    BY <1>7, MarksOthers DEF Send, Answer, Lose, Unrestored
  <2> QED BY <1>7, <2>1, <2>2, RoutesNothing DEF Send, Answer, Lose
<1>8. ASSUME NEW x \in Queries, EgressClock(x) \/ EgressStale(x) PROVE RoutingCounted'
  <2>1. Routing' = Routing
    BY <1>8, RoutingMoves DEF EgressClock, EgressStale, Routing
  <2> QED BY <1>8, <2>1, RoutesNothing DEF EgressClock, EgressStale, Unrestored
<1>9. ASSUME NEW x \in Queries, EgressPass(x) \/ EgressMiss(x) \/ EgressHit(x) \/ EgressDelete(x)
      PROVE  RoutingCounted'
  <2>1. Routing' = Routing
    BY <1>9, RoutingMoves DEF EgressPass, EgressMiss, EgressHit, EgressDelete, Routing
  <2>2. Unrestored' = Unrestored
    BY <1>9, MarksOthers DEF EgressPass, EgressMiss, EgressHit, EgressDelete, Unrestored
  <2>3. PICK ids : ids \cap RoutingIds = {} /\ increment_metric(ids)
    BY <1>9 DEF EgressPass, EgressMiss, EgressHit, EgressDelete, RoutingIds
  <2>4. \A m \in RoutingIds : metrics'[m] = metrics[m]
    BY <1>0, <2>3, Increments
  <2>5. UNCHANGED insertFails
    BY Zenon, <1>9 DEF EgressPass, EgressMiss, EgressHit, EgressDelete
  <2> QED BY Zenon, <2>1, <2>2, <2>4, <2>5, RoutesNothing
<1>10. CASE Tick \/ SetBypass \/ UNCHANGED vars
  BY <1>10, RoutesNothing DEF Tick, SetBypass, vars, Routing, Unrestored
<1> QED BY Zenon, <1>1, <1>2, <1>3, <1>4, <1>5, <1>6, <1>7, <1>8, <1>9, <1>10
           DEF Next, Ingress, Egress

(* Nothing is counted, and nothing is under way, at the start. *)
LEMMA CountInit == Init => CountInv
<1> SUFFICES ASSUME Init PROVE CountInv
  OBVIOUS
<1>1. Torn = {} /\ Routing = {} /\ Unrestored = {}
  <2>1. Intact(Emitted(CoreDNS, CoreDNS))
    BY EmittedIntact, AddressAssumption
  <2> QED BY <2>1 DEF Init, Torn, Routing, Unrestored
<1>2. TypeOK /\ PacketInv
  BY Zenon, InitType, InitPackets
<1>3. SnatInv
  BY DEF Init, SnatInv
<1>4. HalfRewritesAlarmed /\ RoutingCounted
  <2>1. Cardinality({}) = 0
    BY FS_EmptySet
  <2>2. \A m \in MetricIds : metrics[m] = 0
    BY DEF Init
  <2>3. insertFails = 0
    BY DEF Init
  <2> QED BY <1>1, <2>1, <2>2, <2>3
          DEF HalfRewritesAlarmed, RoutingCounted, Torn, Routing, Unrestored, MetricIds
<1> QED BY Zenon, <1>2, <1>3, <1>4 DEF CountInv

(* Every step keeps the books. *)
LEMMA CountStep == CountInv /\ [Next]_vars => CountInv'
  BY Zenon, NextType, PacketStep, UnrestoredStep, AlarmStep, RoutingStep DEF CountInv

(* The counters agree with the packets in every reachable state. *)
LEMMA CountsHold == Spec => []CountInv
  BY CountInit, CountStep, PTL DEF Spec

(* Whatever fails and whenever, there are never more packets whose         *)
(* checksum does not match their address than METRIC_NAT_REVERT_FAIL has   *)
(* counted: nat_rewrite_addr leaves no half-rewritten packet unreported.   *)
THEOREM HalfRewritesRaiseTheAlarm == Spec => []HalfRewritesAlarmed
<1>1. CountInv => HalfRewritesAlarmed
  BY Zenon DEF CountInv
<1> QED BY <1>1, CountsHold, PTL

(* Each suffix lookup of dns_gateway_ingress ends in exactly one of        *)
(* METRIC_REDIRECTED, METRIC_CLUSTER_RESOLVED, METRIC_NAT_ERROR and a      *)
(* failed insertion, however many runs interleave.                         *)
THEOREM EveryLookupIsCounted == Spec => []RoutingCounted
<1>1. CountInv => RoutingCounted
  BY Zenon DEF CountInv
<1> QED BY <1>1, CountsHold, PTL
=============================================================================
