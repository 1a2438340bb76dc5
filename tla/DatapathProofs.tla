--------------------------- MODULE DatapathProofs ---------------------------
(***************************************************************************)
(* NoStaleSnat and LeakExplained hold of Datapath: an entry past its TTL   *)
(* rewrites no answer that has nothing to do with it, and a pod that asked *)
(* CoreDNS gets an answer from the host resolver's address only for a      *)
(* known cause.                                                            *)
(***************************************************************************)
EXTENDS DatapathTypes

-----------------------------------------------------------------------------
(* The inductive invariant behind NoStaleSnat. *)

(* No entry is younger than the latest insertion for its key. *)
StampInv ==
    /\ \A k \in Keys : table[k] # NoElement => elem[table[k]] <= stamp[k]
    /\ \A q \in Queries : stage[q] \in {"clock", "ttl"} =>
          elem[ptr[q]] <= stamp[ident[q]] \/ "recycled" \in excuse[q]

StaleInv == /\ TypeOK
            /\ PacketInv
            /\ StampInv
            /\ NoStaleSnat

-----------------------------------------------------------------------------
(* Insertions raise the stamp of their key with the timestamp. *)
LEMMA StampStep == TypeOK /\ PacketInv /\ StampInv /\ [Next]_vars => StampInv'
<1> SUFFICES ASSUME TypeOK, PacketInv, StampInv, [Next]_vars PROVE StampInv'
  OBVIOUS
<1>0. /\ UNCHANGED <<kind, ident>>
      /\ \A q \in Queries : excuse[q] \subseteq excuse'[q]
  BY StepFrame
<1> USE <1>0 DEF TypeOK, StampInv
<1>1. ASSUME NEW q \in Queries, NEW e \in Elements, IngressInsert(q, e) PROVE StampInv'
  <2>1. \A k \in Keys : stamp[k] <= stamp'[k]
    BY <1>1 DEF IngressInsert, ConntrackKey, Time
  <2>2. elem'[e] = ts[q] /\ ts[q] <= stamp'[ident[q]]
    BY <1>1, ClockAssumption DEF IngressInsert, ConntrackKey, Time
  <2>3. \A x \in Elements \ {e} : elem'[x] = elem[x]
    BY <1>1 DEF IngressInsert
  <2>4. ASSUME NEW k \in Keys, table'[k] # NoElement PROVE elem'[table'[k]] <= stamp'[k]
    <3>1. CASE k = ident[q]
      BY <1>1, <2>2, <3>1 DEF IngressInsert, ConntrackKey
    <3>2. CASE k # ident[q]
      <4>1. table'[k] = table[k] /\ table[k] \in Elements \ {e}
        BY <1>1, <2>4, <3>2 DEF IngressInsert, ConntrackKey
      <4>2. elem'[table'[k]] <= stamp[k]
        BY <2>3, <4>1, ElementAssumption
      <4>3. elem'[table'[k]] \in Int /\ stamp[k] \in Int /\ stamp'[k] \in Int
        BY <1>1, <4>1, <2>3 DEF IngressInsert, ConntrackKey, Time
      <4> QED BY <2>1, <4>2, <4>3
    <3> QED BY <3>1, <3>2
  <2>5. ASSUME NEW p \in Queries, stage'[p] \in {"clock", "ttl"}
        PROVE  elem'[ptr'[p]] <= stamp'[ident'[p]] \/ "recycled" \in excuse'[p]
    <3>1. stage[p] \in {"clock", "ttl"} /\ ptr'[p] = ptr[p] /\ ptr[p] \in Elements
      BY <1>1, <2>5 DEF IngressInsert, PacketInv
    <3>2. CASE ptr[p] = e
      <4>1. "recycled" \in excuse'[p]
        BY <1>1, <3>1, <3>2 DEF IngressInsert, Mark, Causes
      <4> QED BY <4>1
    <3>3. CASE ptr[p] # e
      <4>1. elem'[ptr'[p]] = elem[ptr[p]]
        BY <2>3, <3>1, <3>3
      <4>2. elem[ptr[p]] \in Int /\ stamp[ident[p]] \in Int /\ stamp'[ident[p]] \in Int
        BY <1>1, <3>1 DEF IngressInsert, ConntrackKey, Time
      <4> QED BY <2>1, <3>1, <4>1, <4>2
    <3> QED BY <3>2, <3>3
  <2> QED BY <2>4, <2>5
<1>2. ASSUME NEW q \in Queries, EgressHit(q) PROVE StampInv'
  BY <1>2 DEF EgressHit, mapVars, ConntrackKey
<1>3. ASSUME NEW q \in Queries, EgressClock(q) PROVE StampInv'
  BY <1>3 DEF EgressClock, mapVars
<1>4. CASE Tick \/ SetBypass \/ UNCHANGED vars
  BY <1>4 DEF Tick, SetBypass, vars, mapVars
<1>5. ASSUME NEW q \in Queries,
             \/ Send(q) \/ Answer(q) \/ Lose(q)
             \/ IngressPass(q) \/ IngressMatch(q) \/ IngressInsertFails(q)
             \/ EgressPass(q) \/ EgressMiss(q) \/ EgressStale(q)
      PROVE  StampInv'
  <2>1. /\ UNCHANGED <<table, elem, stamp, ptr>>
        /\ \A p \in Queries : stage'[p] \in {"clock", "ttl"} => stage'[p] = stage[p]
    BY Zenon, <1>5 DEF mapVars, Send, Answer, Lose, IngressPass, IngressMatch, IngressInsertFails,
                EgressPass, EgressMiss, EgressStale
  <2> QED BY Zenon, <2>1
<1>6. ASSUME NEW q \in Queries, NEW fail \in NatFaults, IngressDnat(q, fail) PROVE StampInv'
  BY <1>6 DEF IngressDnat, mapVars, map_delete_elem
<1>7. ASSUME NEW q \in Queries, NEW fail \in NatFaults, EgressSnat(q, fail) PROVE StampInv'
  BY <1>7 DEF EgressSnat, mapVars
<1>8. ASSUME NEW q \in Queries, EgressDelete(q) PROVE StampInv'
  BY <1>8 DEF EgressDelete, map_delete_elem
<1> QED
  BY <1>1, <1>2, <1>3, <1>4, <1>5, <1>6, <1>7, <1>8 DEF Next, Ingress, Egress

(* The stamp of a key never decreases. *)
LEMMA StampGrows ==
    ASSUME TypeOK, [Next]_vars
    PROVE  \A k \in Keys : stamp[k] <= stamp'[k] /\ stamp[k] \in Int /\ stamp'[k] \in Int
<1>1. ASSUME NEW q \in Queries, NEW e \in Elements, IngressInsert(q, e)
      PROVE  \A k \in Keys : stamp[k] <= stamp'[k]
  BY <1>1 DEF IngressInsert, ConntrackKey, TypeOK, Time
<1>2. UNCHANGED stamp \/ \E q \in Queries, e \in Elements : IngressInsert(q, e)
  BY ZenonT(30) DEF Next, vars, Ingress, Egress, Tick, SetBypass, Send, Answer, Lose, IngressPass,
         IngressMatch, IngressInsertFails, IngressDnat, EgressPass, EgressMiss,
         EgressHit, EgressClock, EgressStale, EgressSnat, EgressDelete
<1>3. \A k \in Keys : stamp[k] \in Int /\ stamp'[k] \in Int
  BY NextType DEF TypeOK, Time
<1> QED BY <1>1, <1>2, <1>3

(* A response that passed the TTL check. *)
LEMMA FreshEnough ==
    ASSUME NEW n \in Time, NEW t \in Time, NEW latest \in Time \cup {-1},
           ~Expired(n, t), t <= latest
    PROVE  latest >= 0 /\ n - latest <= TTL
<1> USE ClockAssumption DEF Time
<1>1. CASE t <= n
  <2>1. (n - t) % Word = n - t
    BY <1>1, ModSmall
  <2> QED BY <1>1, <2>1 DEF Expired
<1>2. CASE n < t
  <2>1. (n - t) % Word = n - t + Word
    BY <1>2, ModNegative
  <2> QED BY <1>2, <2>1 DEF Expired
<1> QED BY <1>1, <1>2

(* A rewritten direct answer passed the TTL check on its own entry. *)
LEMMA SnatStep ==
    TypeOK /\ PacketInv /\ StampInv /\ NoStaleSnat /\ [Next]_vars => NoStaleSnat'
<1> SUFFICES ASSUME TypeOK, PacketInv, StampInv, NoStaleSnat, [Next]_vars,
                    NEW p \in Queries, kind'[p] = "direct", pkt'[p].addr = CoreDNS,
                    stage'[p] # "idle", "recycled" \notin excuse'[p]
             PROVE  stamp'[ident'[p]] >= 0 /\ now'[p] - stamp'[ident'[p]] <= TTL
  BY DEF NoStaleSnat
<1>0. /\ UNCHANGED <<kind, ident>>
      /\ kind[p] = "direct"
      /\ "recycled" \notin excuse[p]
      /\ stamp[ident[p]] <= stamp'[ident[p]]
      /\ stamp[ident[p]] \in Int /\ stamp'[ident[p]] \in Int /\ now[p] \in Int
  BY StepFrame, StampGrows, ClockAssumption DEF TypeOK, Time
<1>1. CASE stage[p] # "idle" /\ UNCHANGED <<pkt[p], now[p]>>
  BY <1>0, <1>1, ClockAssumption DEF NoStaleSnat
<1>2. ASSUME NEW fail \in NatFaults, EgressSnat(p, fail)
      PROVE  stamp'[ident'[p]] >= 0 /\ now'[p] - stamp'[ident'[p]] <= TTL
  <2>1. /\ ptr[p] \in Elements
        /\ elem[ptr[p]] <= stamp[ident[p]]
        /\ ~Expired(now[p], elem[ptr[p]])
    BY Zenon, <1>0, <1>2 DEF EgressSnat, PacketInv, StampInv
  <2>2. stamp[ident[p]] >= 0 /\ now[p] - stamp[ident[p]] <= TTL
    BY Zenon, <2>1, FreshEnough DEF TypeOK
  <2> QED BY Zenon, <1>0, <1>2, <2>2 DEF EgressSnat
<1>3. \/ stage[p] # "idle" /\ UNCHANGED <<pkt[p], now[p]>>
      \/ \E fail \in NatFaults : EgressSnat(p, fail)
  <2>1. CASE Tick \/ SetBypass \/ UNCHANGED vars
    BY Zenon, <2>1 DEF Tick, SetBypass, vars
  <2>2. ASSUME NEW q \in Queries, Send(q) PROVE stage[p] # "idle" /\ UNCHANGED <<pkt[p], now[p]>>
    <3>1. pkt'[q].addr = Host \/ kind[q] # "direct"
      BY <2>2, EmittedType, AddressAssumption DEF Send, TypeOK
    <3> QED BY Zenon, <1>0, <2>2, <3>1, AddressAssumption DEF Send, TypeOK
  <2>3. ASSUME NEW q \in Queries, Answer(q) PROVE stage[p] # "idle" /\ UNCHANGED <<pkt[p], now[p]>>
    <3>1. pkt'[q].addr = pkt[q].addr
      BY <2>3, EmittedType DEF Answer, TypeOK, Packets
    <3> QED BY <1>0, <2>3, <3>1, AddressAssumption DEF Answer, TypeOK, PacketInv
  <2>4. ASSUME NEW q \in Queries, Ingress(q) PROVE stage[p] # "idle" /\ UNCHANGED <<pkt[p], now[p]>>
    BY ZenonT(30), <1>0, <2>4 DEF TypeOK, Ingress, IngressPass, IngressMatch, IngressInsert,
       IngressInsertFails, IngressDnat, PacketInv
  <2>5. ASSUME NEW q \in Queries, EgressClock(q) PROVE stage[p] # "idle" /\ UNCHANGED <<pkt[p], now[p]>>
    BY <1>0, <2>5, AddressAssumption DEF TypeOK, EgressClock, PacketInv
  <2>6. ASSUME NEW q \in Queries,
               \/ Lose(q) \/ EgressPass(q) \/ EgressMiss(q) \/ EgressHit(q) \/ EgressStale(q)
               \/ EgressDelete(q)
        PROVE  stage[p] # "idle" /\ UNCHANGED <<pkt[p], now[p]>>
    BY <1>0, <2>6 DEF TypeOK, Lose, EgressPass, EgressMiss, EgressHit, EgressStale, EgressDelete
  <2>7. ASSUME NEW q \in Queries \ {p}, NEW fail \in NatFaults, EgressSnat(q, fail)
        PROVE  stage[p] # "idle" /\ UNCHANGED <<pkt[p], now[p]>>
    BY <2>7 DEF EgressSnat, TypeOK
  <2> QED BY Zenon, <2>1, <2>2, <2>3, <2>4, <2>5, <2>6, <2>7 DEF Next, Egress
<1> QED BY <1>1, <1>2, <1>3

-----------------------------------------------------------------------------
(* Before the first packet the table is empty. *)
LEMMA InitStale == Init => StaleInv
  BY InitType, InitPackets DEF Init, StaleInv, StampInv, NoStaleSnat

(* The parts of the invariant are preserved together. *)
LEMMA NextStale == StaleInv /\ [Next]_vars => StaleInv'
  BY NextType, PacketStep, StampStep, SnatStep DEF StaleInv

(***************************************************************************)
(* An answer to a query the pod sent to the host resolver itself is        *)
(* rewritten only against an entry that is within its TTL.                 *)
(***************************************************************************)
THEOREM StaleEntriesUnused == Spec => []NoStaleSnat
  BY InitStale, NextStale, PTL DEF Spec, StaleInv

-----------------------------------------------------------------------------
(* The inductive invariant behind LeakExplained. *)

Excused(q) == excuse[q] \ {"recycled"} # {}

(* The entry of q's key is the one q's ingress run inserted. *)
Tracked(q) ==
    /\ table[ident[q]] # NoElement
    /\ elem[table[ident[q]]] = ts[q]

(* Two queries on their way with the same key know of each other. *)
OverlapInv ==
    \A p, q \in Queries :
        p # q /\ Contends(p) /\ Contends(q) /\ ident[p] = ident[q] =>
            "overlap" \in excuse[q]

(* From its insertion to its answer, an unexcused query owns its entry. *)
OwnsEntry(q) ==
    /\ stage[q] = "dnat" => Tracked(q)
    /\ stage[q] \in {"routed", "answered"} /\ pkt[q].addr = Host => Tracked(q)
    /\ stage[q] \in {"clock", "ttl"} => Tracked(q) /\ ptr[q] = table[ident[q]]
    /\ stage[q] = "ttl" => ts[q] <= now[q]
    /\ stage[q] = "expire" => Late(q)

TrackInv == \A q \in Queries : kind[q] = "host" /\ ~Excused(q) => OwnsEntry(q)

LeakInv == /\ TypeOK
           /\ ClockInv
           /\ PacketInv
           /\ OverlapInv
           /\ TrackInv
           /\ LeakExplained

-----------------------------------------------------------------------------
(* Each part of the inductive invariant is preserved. *)

(* A query sent while another with its key is on its way marks both. *)
LEMMA OverlapStep == TypeOK /\ OverlapInv /\ [Next]_vars => OverlapInv'
<1> SUFFICES ASSUME TypeOK, OverlapInv, [Next]_vars,
                    NEW p \in Queries, NEW q \in Queries,
                    p # q, Contends(p)', Contends(q)', ident'[p] = ident'[q]
             PROVE  "overlap" \in excuse'[q]
  BY DEF OverlapInv
<1>0. /\ UNCHANGED <<kind, ident>>
      /\ \A x \in Queries : excuse[x] \subseteq excuse'[x]
  BY StepFrame
<1>1. CASE Contends(p) /\ Contends(q)
  BY <1>0, <1>1 DEF OverlapInv
<1>2. CASE ~(Contends(p) /\ Contends(q))
  <2>1. ASSUME NEW y \in Queries, Contends(y)', ~Contends(y) PROVE Send(y)
    <3>1. /\ stage[y] \in {"idle", "delivered", "dropped"}
          /\ stage'[y] \notin {"idle", "delivered", "dropped"}
      BY <1>0, <2>1 DEF Contends, Live
    <3>2. ASSUME NEW x \in Queries, Send(x) PROVE \A z \in Queries \ {x} : stage'[z] = stage[z]
      BY <3>2 DEF Send, TypeOK
    <3>3. CASE Tick \/ SetBypass \/ UNCHANGED vars
      BY <3>1, <3>3 DEF Tick, SetBypass, vars
    <3> QED BY <3>1, <3>2, <3>3, StageFrame DEF Next
  <2>2. PICK x \in Queries : Send(x) /\ ((x = p /\ Contends(q)) \/ (x = q /\ Contends(p)))
    <3>1. ASSUME Send(p), Send(q) PROVE FALSE
      BY <3>1 DEF Send, TypeOK
    <3>2. ~Contends(p) => Send(p)
      BY <2>1
    <3>3. ~Contends(q) => Send(q)
      BY <2>1
    <3> QED BY <1>2, <3>1, <3>2, <3>3
  <2>3. kind[x] \in {"host", "direct"} /\ Rivals(x) # {} /\ q \in Rivals(x) \cup {x}
    BY <1>0, <2>2 DEF Rivals, Contends
  <2>4. Mark((Rivals(x) \cup {x}) \X {"overlap"})
    BY <2>2, <2>3 DEF Send
  <2> QED BY <2>3, <2>4 DEF Mark, Causes
<1> QED BY <1>1, <1>2

(* Two unexcused redirected queries on their way have different keys. *)
LEMMA DistinctKeys ==
    ASSUME OverlapInv, NEW p \in Queries, NEW q \in Queries, p # q,
           Contends(p), Contends(q), ~Excused(p)
    PROVE  ident[p] # ident[q]
  BY DEF OverlapInv, Excused

(* Deleting the entry of q's key leaves the other unexcused queries theirs. *)
LEMMA DeleteKeepsOthers ==
    ASSUME TypeOK, OverlapInv, TrackInv, NEW q \in Queries, Contends(q),
           map_delete_elem(ConntrackKey(q)), UNCHANGED <<kind, ident, ts>>,
           NEW p \in Queries \ {q}, kind[p] = "host", ~Excused(p),
           stage'[p] = stage[p], pkt'[p] = pkt[p], ptr'[p] = ptr[p], now'[p] = now[p]
    PROVE  OwnsEntry(p)'
<1>1. CASE Contends(p)
  <2>1. table'[ident[p]] = table[ident[p]] /\ elem' = elem
    BY Zenon, <1>1, DistinctKeys DEF map_delete_elem, ConntrackKey, TypeOK
  <2> QED BY Zenon, <2>1 DEF TrackInv, OwnsEntry, Tracked, Late
<1>2. CASE ~Contends(p)
  BY <1>2 DEF Contends, Live, OwnsEntry
<1> QED BY Zenon, <1>1, <1>2

(* What the rewrite of a query leaves behind. *)
LEMMA DnatOutcome ==
    ASSUME TypeOK, PacketInv, NEW q \in Queries, NEW fail \in NatFaults, stage[q] = "dnat"
    PROVE  /\ nat_rewrite_addr(pkt[q], CoreDNS, Host, fail).rc \in {0, -1, -2}
           /\ nat_rewrite_addr(pkt[q], CoreDNS, Host, fail).rc = -1 =>
                 nat_rewrite_addr(pkt[q], CoreDNS, Host, fail).pkt.addr # Host
<1>1. pkt[q] \in Packets
  BY DEF TypeOK
<1>2. Intact(pkt[q]) /\ pkt[q].addr = CoreDNS
  BY DEF PacketInv, IngressStages
<1>3. fail \in SUBSET Helpers
  BY ChoiceAssumption
<1> QED BY <1>1, <1>2, <1>3, NatTypes, NatAtomic, AddressAssumption

(* A query keeps its entry when a step concerns neither of them. *)
LEMMA OwnsStays ==
    ASSUME NEW p \in Queries, OwnsEntry(p), UNCHANGED <<kind, ident>>,
           UNCHANGED <<stage[p], pkt[p], ts[p], now[p], ptr[p]>>,
           UNCHANGED <<table, elem>>
    PROVE  OwnsEntry(p)'
  BY DEF OwnsEntry, Tracked, Late

(* The insertion of one query's entry leaves the others theirs. *)
LEMMA InsertKeepsOthers ==
    ASSUME TypeOK, PacketInv, OverlapInv, TrackInv, UNCHANGED <<kind, ident>>,
           NEW q \in Queries, NEW e \in Elements, IngressInsert(q, e),
           NEW p \in Queries \ {q}, kind[p] = "host", ~Excused(p), ~Excused(p)'
    PROVE  OwnsEntry(p)'
<1>0. UNCHANGED <<stage[p], pkt, ts, now, ptr>>
  BY Zenon DEF IngressInsert, TypeOK
<1>1. CASE ~Contends(p) \/ stage[p] \in {"ingress", "insert"}
  BY Zenon, <1>0, <1>1 DEF Contends, Live, OwnsEntry
<1>2. CASE Contends(p) /\ stage[p] \notin {"ingress", "insert"}
  <2>1. Contends(q)
    BY Zenon DEF IngressInsert, PacketInv, Contends, Live
  <2>2. ident[p] # ident[q]
    BY Zenon, <1>2, <2>1, DistinctKeys
  <2>3. table[ident[p]] # e
    <3> SUFFICES ASSUME table[ident[p]] = e PROVE FALSE
      OBVIOUS
    <3>1. "evict" \in excuse'[p]
      BY Zenon, <1>2, <2>2 DEF IngressInsert, Mark, Causes, ConntrackKey, TypeOK
    <3> QED BY <3>1 DEF Excused
  <2>4. table'[ident[p]] = table[ident[p]]
    BY Zenon, <2>2, <2>3 DEF IngressInsert, ConntrackKey, TypeOK
  <2>5. table[ident[p]] # NoElement => elem'[table[ident[p]]] = elem[table[ident[p]]]
    BY Zenon, <2>3 DEF IngressInsert, TypeOK
  <2> QED BY Zenon, <1>0, <2>4, <2>5 DEF TrackInv, OwnsEntry, Tracked, Late
<1> QED BY Zenon, <1>1, <1>2

(* An unexcused redirected query keeps its entry until its answer. *)
LEMMA TrackStep ==
    TypeOK /\ ClockInv /\ PacketInv /\ OverlapInv /\ TrackInv /\ [Next]_vars => TrackInv'
<1> SUFFICES ASSUME TypeOK, ClockInv, PacketInv, OverlapInv, TrackInv, [Next]_vars,
                    NEW p \in Queries, kind'[p] = "host", ~Excused(p)'
             PROVE  OwnsEntry(p)'
  BY Zenon DEF TrackInv
<1>0. UNCHANGED <<kind, ident>> /\ kind[p] = "host" /\ ~Excused(p) /\ OwnsEntry(p)
  BY Zenon, StepFrame DEF Excused, TrackInv
<1> USE <1>0
<1>1. CASE Tick \/ SetBypass \/ UNCHANGED vars
  BY Zenon, <1>1, OwnsStays DEF Tick, SetBypass, vars, mapVars
<1>2. ASSUME NEW q \in Queries \ {p}, UNCHANGED mapVars,
             UNCHANGED <<stage[p], pkt[p], ts[p], now[p], ptr[p]>>
      PROVE  OwnsEntry(p)'
  BY Zenon, <1>2, OwnsStays DEF mapVars
<1>3. ASSUME NEW q \in Queries, Send(q) PROVE OwnsEntry(p)'
  BY Zenon, <1>3 DEF Send, mapVars, TypeOK, OwnsEntry, Tracked, Late
<1>4. ASSUME NEW q \in Queries, Answer(q) PROVE OwnsEntry(p)'
  <2>1. pkt'[q].addr = pkt[q].addr
    BY Zenon, <1>4, EmittedType DEF Answer, Packets, TypeOK
  <2> QED BY Zenon, <1>4, <2>1 DEF Answer, mapVars, TypeOK, OwnsEntry, Tracked, Late
<1>5. ASSUME NEW q \in Queries, Lose(q) PROVE OwnsEntry(p)'
  BY Zenon, <1>5 DEF Lose, mapVars, TypeOK, OwnsEntry, Tracked, Late
<1>6. ASSUME NEW q \in Queries, IngressPass(q) PROVE OwnsEntry(p)'
  <2>1. kind[q] = "host" => pkt[q].addr # Host
    BY Zenon, <1>6, AddressAssumption DEF IngressPass, PacketInv, IngressStages
  <2> QED BY Zenon, <1>6, <2>1 DEF IngressPass, mapVars, TypeOK, OwnsEntry, Tracked, Late
<1>7. ASSUME NEW q \in Queries, IngressMatch(q) PROVE OwnsEntry(p)'
  BY Zenon, <1>7 DEF IngressMatch, mapVars, TypeOK, OwnsEntry, Tracked, Late
<1>8. ASSUME NEW q \in Queries, NEW e \in Elements, IngressInsert(q, e) PROVE OwnsEntry(p)'
  <2>1. CASE p = q
    <3>1. table'[ident[q]] = e /\ elem'[e] = ts[q] /\ UNCHANGED ts /\ stage'[q] = "dnat"
      BY Zenon, <1>8 DEF IngressInsert, ConntrackKey, TypeOK
    <3> QED BY Zenon, <2>1, <3>1, ElementAssumption DEF OwnsEntry, Tracked
  <2>2. CASE p # q
    BY Zenon, <1>8, <2>2, InsertKeepsOthers
  <2> QED BY Zenon, <2>1, <2>2
<1>9. ASSUME NEW q \in Queries, IngressInsertFails(q) PROVE OwnsEntry(p)'
  <2>1. pkt[q].addr # Host
    BY Zenon, <1>9, AddressAssumption DEF IngressInsertFails, PacketInv, IngressStages
  <2> QED BY Zenon, <1>9, <2>1 DEF IngressInsertFails, mapVars, TypeOK, OwnsEntry, Tracked, Late
<1>10. ASSUME NEW q \in Queries, NEW fail \in NatFaults, IngressDnat(q, fail)
       PROVE  OwnsEntry(p)'
  <2> DEFINE r == nat_rewrite_addr(pkt[q], CoreDNS, Host, fail)
  <2>1. /\ stage[q] = "dnat" /\ stage' = [stage EXCEPT ![q] = "routed"]
        /\ pkt' = [pkt EXCEPT ![q] = r.pkt]
        /\ UNCHANGED <<ts, now, ptr>>
        /\ \/ r.rc = 0 /\ UNCHANGED mapVars
           \/ r.rc < 0 /\ map_delete_elem(ConntrackKey(q))
    BY Zenon, <1>10 DEF IngressDnat
  <2>2. Contends(q)
    BY Zenon, <2>1 DEF PacketInv, Contends, Live
  <2>3. r.rc \in {0, -1, -2} /\ (r.rc = -1 => r.pkt.addr # Host)
    BY Zenon, <2>1, DnatOutcome
  <2>4. ASSUME r.rc = -2 PROVE "revert_failed" \in excuse'[q]
    BY Zenon, <1>10, <2>4 DEF IngressDnat, Mark, Causes, TypeOK
  <2> HIDE DEF r
  <2>5. stage'[q] = "routed" /\ pkt'[q] = r.pkt
    BY Zenon, <2>1 DEF TypeOK
  <2>6. CASE p = q
    <3>1. CASE r.rc = 0
      BY <2>1, <2>5, <2>6, <3>1 DEF mapVars, OwnsEntry, Tracked
    <3>2. CASE r.rc = -1
      BY Zenon, <2>3, <2>5, <2>6, <3>2 DEF OwnsEntry
    <3>3. CASE r.rc = -2
      BY <2>4, <2>6, <3>3 DEF Excused
    <3> QED BY Zenon, <2>3, <3>1, <3>2, <3>3
  <2>7. CASE p # q
    <3>1. UNCHANGED <<stage[p], pkt[p], ts[p], now[p], ptr[p]>>
      BY Zenon, <2>1, <2>7 DEF TypeOK
    <3> QED BY <1>2, <2>1, <2>2, <2>7, <3>1, DeleteKeepsOthers
  <2> QED BY Zenon, <2>6, <2>7
<1>11. ASSUME NEW q \in Queries, EgressPass(q) PROVE OwnsEntry(p)'
  BY Zenon, <1>11 DEF EgressPass, mapVars, TypeOK, OwnsEntry, Tracked, Late
<1>12. ASSUME NEW q \in Queries, EgressMiss(q) PROVE OwnsEntry(p)'
  BY Zenon, <1>12 DEF EgressMiss, mapVars, TypeOK, OwnsEntry, Tracked, Late
<1>13. ASSUME NEW q \in Queries, EgressHit(q) PROVE OwnsEntry(p)'
  BY Zenon, <1>13 DEF EgressHit, mapVars, ConntrackKey, TypeOK, OwnsEntry, Tracked, Late
<1>14. ASSUME NEW q \in Queries, EgressClock(q) PROVE OwnsEntry(p)'
  BY Zenon, <1>14 DEF EgressClock, mapVars, ClockInv, TypeOK, OwnsEntry, Tracked, Late
<1>15. ASSUME NEW q \in Queries, EgressStale(q) PROVE OwnsEntry(p)'
  <2>1. CASE p # q
    BY Zenon, <1>2, <1>15, <2>1 DEF EgressStale, TypeOK
  <2>2. CASE p = q
    <3>1. elem[ptr[q]] = ts[q] /\ ts[q] <= now[q]
      BY Zenon, <1>15, <2>2 DEF EgressStale, OwnsEntry, Tracked
    <3>2. (now[q] - ts[q]) % Word = now[q] - ts[q]
      BY <3>1, ModSmall, ClockAssumption DEF Time, TypeOK
    <3>3. Late(q)
      BY Zenon, <1>15, <3>1, <3>2 DEF EgressStale, Expired, Late
    <3> QED BY Zenon, <1>15, <2>2, <3>3 DEF EgressStale, TypeOK, OwnsEntry, Late
  <2> QED BY Zenon, <2>1, <2>2
<1>16. ASSUME NEW q \in Queries, NEW fail \in NatFaults, EgressSnat(q, fail)
       PROVE  OwnsEntry(p)'
  BY Zenon, <1>16 DEF EgressSnat, mapVars, TypeOK, OwnsEntry, Tracked, Late
<1>17. ASSUME NEW q \in Queries, EgressDelete(q) PROVE OwnsEntry(p)'
  <2>1. CASE p = q
    BY Zenon, <1>17, <2>1 DEF EgressDelete, TypeOK, OwnsEntry
  <2>2. CASE p # q
    <3>1. kind[q] \in {"host", "direct"}
      BY Zenon, <1>17, AddressAssumption DEF EgressDelete, PacketInv
    <3>2. Contends(q)
      BY Zenon, <1>17, <3>1 DEF EgressDelete, Contends, Live
    <3> QED BY Zenon, <1>17, <2>2, <3>2, DeleteKeepsOthers DEF EgressDelete, TypeOK
  <2> QED BY Zenon, <2>1, <2>2
<1> QED
  BY Zenon, <1>1, <1>3, <1>4, <1>5, <1>6, <1>7, <1>8, <1>9, <1>10, <1>11, <1>12, <1>13,
     <1>14, <1>15, <1>16, <1>17 DEF Next, Ingress, Egress

(* A delivery that leaks has lost its entry for a recorded cause. *)
LEMMA LeakStep ==
    TypeOK /\ PacketInv /\ TrackInv /\ LeakExplained /\ [Next]_vars => LeakExplained'
<1> SUFFICES ASSUME TypeOK, PacketInv, TrackInv, LeakExplained, [Next]_vars,
                    NEW p \in Queries, Leaked(p)', ~Excused(p)'
             PROVE  Late(p)'
  BY Zenon DEF LeakExplained, Excused
<1>0. UNCHANGED <<kind, ident>> /\ ~Excused(p) /\ stage'[p] = "delivered" /\ pkt'[p].addr = Host
      /\ kind[p] # "direct"
  BY Zenon, StepFrame DEF Excused, Leaked
<1>1. CASE stage[p] = "delivered"
  <2>1. UNCHANGED <<pkt[p], ts[p], now[p]>>
    BY Zenon, <1>1, StageFrame DEF TypeOK, Next, vars, Tick, SetBypass, Send
  <2> QED BY Zenon, <1>0, <1>1, <2>1 DEF LeakExplained, Leaked, Late, Excused
<1>2. CASE stage[p] # "delivered"
  <2>1. CASE EgressPass(p)
    BY Zenon, <1>0, <2>1, AddressAssumption DEF EgressPass, Mark, Causes, Excused
  <2>2. CASE EgressMiss(p)
    BY Zenon, <1>0, <2>2, AddressAssumption
       DEF EgressMiss, ConntrackKey, PacketInv, TrackInv, OwnsEntry, Tracked
  <2>3. ASSUME NEW fail \in NatFaults, EgressSnat(p, fail) PROVE FALSE
    <3>1. "snat_failed" \in excuse'[p]
      BY <1>0, <2>3 DEF EgressSnat, TypeOK, Mark, Causes
    <3> QED BY <3>1 DEF Excused
  <2>4. CASE EgressDelete(p)
    BY Zenon, <1>0, <2>4, AddressAssumption
       DEF EgressDelete, PacketInv, TrackInv, OwnsEntry, Late
  <2>5. Egress(p)
    <3>1. ~(Tick \/ SetBypass \/ UNCHANGED vars)
      BY Zenon, <1>0, <1>2 DEF Tick, SetBypass, vars
    <3>2. ASSUME NEW q \in Queries, Send(q) \/ Answer(q) \/ Lose(q) \/ Ingress(q) PROVE FALSE
      BY Zenon, <1>0, <1>2, <3>2 DEF TypeOK, Ingress, Send, Answer, Lose, IngressPass, IngressMatch,
         IngressInsert, IngressInsertFails, IngressDnat
    <3> QED BY Zenon, <1>0, <1>2, <3>1, <3>2, StageFrame DEF Next
  <2>6. ~(EgressHit(p) \/ EgressClock(p) \/ EgressStale(p))
    BY Zenon, <1>0 DEF EgressHit, EgressClock, EgressStale, TypeOK
  <2> QED BY Zenon, <2>1, <2>2, <2>3, <2>4, <2>5, <2>6 DEF Egress
<1> QED BY Zenon, <1>1, <1>2

-----------------------------------------------------------------------------
(* Before the first packet nothing is redirected. *)
LEMMA InitLeak == Init => LeakInv
  BY InitType, InitPackets
     DEF Init, LeakInv, OverlapInv, TrackInv, OwnsEntry, LeakExplained, Leaked, Contends, Live

(* The parts of the invariant are preserved together. *)
LEMMA NextLeak == LeakInv /\ [Next]_vars => LeakInv'
  BY NextType, ClockStep, PacketStep, OverlapStep, TrackStep, LeakStep DEF LeakInv

(***************************************************************************)
(* A pod that asked CoreDNS gets an answer from the host resolver's        *)
(* address only for one of the causes LeakExplained names.                 *)
(***************************************************************************)
THEOREM LeaksAreExplained == Spec => []LeakExplained
  BY InitLeak, NextLeak, PTL DEF Spec, LeakInv
=============================================================================
