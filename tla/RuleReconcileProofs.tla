------------------------ MODULE RuleReconcileProofs ------------------------
(***************************************************************************)
(* Proofs about RuleReconcile, for any finite set of keys, any capacity    *)
(* and any configurations.  Sound is the inductive invariant: desired      *)
(* holds the rules read so far, and in each loop the map differs from      *)
(* desired only in the keys the loop has yet to come to.                   *)
(***************************************************************************)
EXTENDS RuleReconcile, FiniteSetTheorems, TLAPS

Types ==
    /\ table \in Tables /\ desired \in Tables /\ existing \in Tables
    /\ todo \subseteq Keys
    /\ config \in Seq(Rules)
    /\ next \in Nat \ {0} /\ next <= Len(config) + 1

(* The rules before next are in desired, and nothing else is. *)
Built ==
    /\ proc \in {"down", "populate", "cleanup"} => desired = Empty /\ next = 1
    /\ \A i \in DOMAIN config :
           i < next => config[i].key # Rejected /\ desired[config[i].key] = config[i].action
    /\ \A k \in Entries(desired) : \E i \in DOMAIN config : i < next /\ config[i].key = k
    /\ proc \in {"delete", "add", "serving"} => next \notin DOMAIN config

(* How the map, the snapshot and desired differ in each loop. *)
Deleting ==
    proc = "delete" =>
        \A k \in Keys :
            /\ k \in todo => table[k] # Absent /\ desired[k] = Absent
            /\ desired[k] = Absent /\ k \notin todo => table[k] = Absent
            /\ desired[k] # Absent => table[k] = existing[k]

Adding ==
    proc = "add" =>
        \A k \in Keys :
            /\ k \in todo => desired[k] # Absent /\ table[k] = existing[k]
            /\ k \notin todo => table[k] = desired[k]

Served == proc = "serving" => table = desired

Sound == Types /\ Built /\ Deleting /\ Adding /\ Served

USE TableAssumption

(* The first start finds no map. *)
LEMMA SoundInit == Init => Sound
  <1> SUFFICES ASSUME Init PROVE Sound
    OBVIOUS
  <1>1. Empty \in Tables
    BY Zenon DEF Empty, Tables
  <1>2. Entries(Empty) = {}
    BY Zenon DEF Empty, Entries
  <1>3. config = <<>> /\ DOMAIN config = {}
    BY DEF Init
  <1>4. Types
    BY <1>1, <1>3 DEF Init, Types
  <1>5. Built
    BY Zenon, <1>2, <1>3 DEF Init, Built
  <1>6. Deleting /\ Adding /\ Served
    BY DEF Init, Deleting, Adding, Served
  <1> QED
    BY <1>4, <1>5, <1>6 DEF Sound

(* The process leaves PopulateSuffixRules or ends. *)
LEMMA LeaveSound ==
    ASSUME Sound, NEW stage \in {"down", "cleanup"}, Leave(stage), table' \in {table, Empty}
    PROVE  Sound'
  <1>1. Empty \in Tables
    BY Zenon DEF Empty, Tables
  <1>2. Entries(Empty) = {}
    BY Zenon DEF Empty, Entries
  <1>3. /\ config' = <<>> /\ DOMAIN config' = {} /\ next' = 1 /\ desired' = Empty
        /\ existing' = Empty /\ todo' = {} /\ proc' = stage
    BY DEF Leave
  <1>4. Types'
    BY <1>1, <1>3 DEF Sound, Types
  <1>5. proc' \notin {"delete", "add", "serving"}
    BY <1>3
  <1>6. Built'
    BY Zenon, <1>2, <1>3, <1>5 DEF Built
  <1>7. (Deleting /\ Adding /\ Served)'
    BY <1>5 DEF Deleting, Adding, Served
  <1> QED
    BY <1>4, <1>6, <1>7 DEF Sound

(* The start, and the loop that builds desired. *)
LEMMA BuildSound == Sound /\ (StartAny \/ PopulateConfig \/ BuildRule \/ Snapshot) => Sound'
  <1> SUFFICES ASSUME Sound, StartAny \/ PopulateConfig \/ BuildRule \/ Snapshot PROVE Sound'
    OBVIOUS
  <1> USE DEF Sound
  <1>1. ASSUME NEW c \in Configs, Start(c) PROVE Sound'
    <2>1. /\ proc = "down" /\ proc' = "populate" /\ config' = c
          /\ UNCHANGED <<table, next, desired, existing, todo>>
      BY Zenon, <1>1 DEF Start
    <2>2. c \in Seq(Rules)
      BY ConfigAssumption
    <2>3. desired = Empty /\ next = 1 /\ Entries(desired) = {}
      BY Zenon, <2>1 DEF Built, Empty, Entries
    <2>4. Types'
      BY <2>1, <2>2, <2>3 DEF Types
    <2>5. \A i \in DOMAIN c : ~(i < 1)
      BY <2>2
    <2>6. Built'
      <3>1. \A i \in DOMAIN config' : ~(i < next')
        BY Zenon, <2>1, <2>3, <2>5
      <3>2. desired' = Empty /\ next' = 1 /\ Entries(desired') = {}
        BY Zenon, <2>1, <2>3
      <3> QED
        BY Zenon, <2>1, <3>1, <3>2 DEF Built
    <2>7. (Deleting /\ Adding /\ Served)'
      BY <2>1 DEF Deleting, Adding, Served
    <2> QED
      BY <2>4, <2>6, <2>7
  <1>2. CASE PopulateConfig
    BY Zenon, <1>2 DEF PopulateConfig, Types, Built, Deleting, Adding, Served
  <1>3. CASE BuildRule
    <2> DEFINE r == config[next]
    <2>1. /\ proc = "build" /\ next \in DOMAIN config /\ ~Refused(r)
          /\ desired' = [desired EXCEPT ![r.key] = r.action] /\ next' = next + 1
          /\ UNCHANGED <<table, proc, config, existing, todo>>
      BY Zenon, <1>3 DEF BuildRule
    <2>2. r \in Rules
      BY <2>1 DEF Types
    <2>3. /\ r.key # Rejected /\ r.key \in Keys /\ r.action \in Actions
          /\ desired[r.key] \in {Absent, r.action}
      BY <2>1, <2>2 DEF Refused, Rules
    <2>4. desired' \in Tables /\ desired'[r.key] = r.action
          /\ \A k \in Keys : k # r.key => desired'[k] = desired[k]
      BY <2>1, <2>3 DEF Types, Tables
    <2>5. next' \in Nat \ {0} /\ next' <= Len(config) + 1
      BY <2>1 DEF Types
    <2>6. Types'
      BY Zenon, <2>1, <2>4, <2>5 DEF Types
    <2>7. \A i \in DOMAIN config : i < next' <=> i < next \/ i = next
      BY <2>1 DEF Types
    <2>8. ASSUME NEW i \in DOMAIN config, i < next'
          PROVE  config[i].key # Rejected /\ desired'[config[i].key] = config[i].action
      <3>1. CASE i = next
        BY Zenon, <3>1, <2>3, <2>4
      <3>2. CASE i < next
        <4>1. config[i].key # Rejected /\ desired[config[i].key] = config[i].action
          BY <3>2 DEF Built
        <4>2. config[i] \in Rules
          BY DEF Types
        <4>3. config[i].key \in Keys /\ config[i].action \in Actions
          BY <4>1, <4>2 DEF Rules
        <4>4. CASE config[i].key = r.key
          BY <4>1, <4>3, <4>4, <2>3, <2>4
        <4>5. CASE config[i].key # r.key
          BY Zenon, <4>1, <4>3, <4>5, <2>4
        <4> QED
          BY <4>1, <4>4, <4>5
      <3> QED
        BY <2>7, <2>8, <3>1, <3>2
    <2>9. ASSUME NEW k \in Keys, desired'[k] # Absent
          PROVE  \E i \in DOMAIN config : i < next' /\ config[i].key = k
      <3>1. CASE k = r.key
        BY Zenon, <2>1, <2>7, <3>1
      <3>2. CASE k # r.key
        <4>1. k \in Entries(desired)
          BY Zenon, <2>4, <2>9, <3>2 DEF Entries
        <4> QED
          BY Zenon, <4>1, <2>7 DEF Built
      <3> QED
        BY <3>1, <3>2
    <2>10. Built'
      BY Zenon, <2>1, <2>8, <2>9 DEF Built, Entries
    <2>11. (Deleting /\ Adding /\ Served)'
      BY <2>1 DEF Deleting, Adding, Served
    <2> QED
      BY <2>6, <2>10, <2>11
  <1>4. CASE Snapshot
    <2>1. /\ proc' = "delete" /\ next \notin DOMAIN config /\ existing' = table
          /\ todo' = Entries(table) \ Entries(desired)
          /\ UNCHANGED <<table, config, next, desired>>
      BY Zenon, <1>4 DEF Snapshot
    <2>2. Types'
      BY <2>1 DEF Types, Entries
    <2>3. Built'
      BY Zenon, <2>1 DEF Built
    <2>4. (Deleting /\ Adding /\ Served)'
      BY <2>1 DEF Deleting, Adding, Served, Entries
    <2> QED
      BY <2>2, <2>3, <2>4
  <1> QED
    BY Zenon, <1>1, <1>2, <1>3, <1>4 DEF StartAny

(* The two loops that write the map. *)
LEMMA WriteSound ==
    Sound /\ (\/ StaleDeleted \/ Ready
              \/ \E k \in Keys : DeleteStale(k) \/ KeepRule(k) \/ PutRule(k)) => Sound'
  <1> SUFFICES ASSUME Sound,
                      \/ StaleDeleted \/ Ready
                      \/ \E k \in Keys : DeleteStale(k) \/ KeepRule(k) \/ PutRule(k)
               PROVE  Sound'
    OBVIOUS
  <1> USE DEF Sound
  <1>0. UNCHANGED <<config, next, desired, existing>>
    BY Zenon DEF StaleDeleted, Ready, DeleteStale, KeepRule, PutRule
  <1>1. Built'
    <2>1. proc \in {"delete", "add"} /\ proc' \in {"delete", "add", "serving"}
      BY DEF StaleDeleted, Ready, DeleteStale, KeepRule, PutRule
    <2> QED
      BY Zenon, <1>0, <2>1 DEF Built
  <1>2. CASE StaleDeleted
    BY <1>0, <1>1, <1>2 DEF StaleDeleted, Types, Deleting, Adding, Served, Entries
  <1>3. CASE Ready
    <2>1. table = desired
      BY <1>3 DEF Ready, Types, Adding, Tables
    <2> QED
      BY <1>0, <1>1, <1>3, <2>1 DEF Ready, Types, Deleting, Adding, Served
  <1>4. ASSUME NEW k \in Keys, DeleteStale(k) PROVE Sound'
    BY <1>0, <1>1, <1>4 DEF DeleteStale, Types, Tables, Deleting, Adding, Served
  <1>5. ASSUME NEW k \in Keys, KeepRule(k) PROVE Sound'
    BY <1>0, <1>1, <1>5 DEF KeepRule, UpToDate, Types, Tables, Deleting, Adding, Served
  <1>6. ASSUME NEW k \in Keys, PutRule(k) PROVE Sound'
    BY <1>0, <1>1, <1>6 DEF PutRule, Types, Tables, Deleting, Adding, Served
  <1> QED
    BY Zenon, <1>2, <1>3, <1>4, <1>5, <1>6

(* Every other step leaves: the failures, the shutdown, Unpin, a crash. *)
LEMMA Leaving ==
    ASSUME \/ RefuseRule \/ StartupFails \/ Shutdown \/ Unpin \/ UnpinFails \/ Crash
           \/ \E k \in Keys : PutRuleFails(k)
    PROVE  /\ \E stage \in {"down", "cleanup"} : Leave(stage)
           /\ UNCHANGED table \/ table' = Empty
  BY Zenon DEF RefuseRule, StartupFails, Shutdown, Unpin, UnpinFails, Crash, PutRuleFails

(* Sound holds throughout. *)
LEMMA SoundInvariant == Spec => []Sound
  <1>1. Sound /\ [Next]_vars => Sound'
    <2> SUFFICES ASSUME Sound, [Next]_vars PROVE Sound'
      OBVIOUS
    <2>1. CASE UNCHANGED vars
      BY Zenon, <2>1 DEF vars, Sound, Types, Built, Deleting, Adding, Served
    <2>2. ASSUME NEW stage \in {"down", "cleanup"}, Leave(stage), UNCHANGED table \/ table' = Empty
          PROVE  Sound'
      <3>1. table' \in {table, Empty}
        BY Zenon, <2>2
      <3> QED
        BY Zenon, <2>2, <3>1, LeaveSound
    <2>3. CASE Next
      BY Zenon, <2>2, <2>3, BuildSound, WriteSound, Leaving DEF Next, Reconcile
    <2> QED
      BY <2>1, <2>3
  <1> QED
    BY SoundInit, <1>1, PTL DEF Spec

-----------------------------------------------------------------------------
(***************************************************************************)
(* Whatever rules earlier lives of the process left in the pinned map, a   *)
(* process that has come through PopulateSuffixRules serves the rules of   *)
(* its configuration and no other.                                         *)
(***************************************************************************)
THEOREM AlwaysServesConfig == Spec => []ServesConfig
  <1>1. Sound => ServesConfig
    <2> SUFFICES ASSUME Sound, proc = "serving" PROVE Holds(table, config)
      BY DEF ServesConfig
    <2>1. table = desired /\ next \notin DOMAIN config
      BY DEF Sound, Served, Built
    <2>2. \A i \in DOMAIN config : i < next
      BY <2>1 DEF Sound, Types
    <2> QED
      BY Zenon, <2>1, <2>2 DEF Sound, Built, Holds
  <1> QED
    BY SoundInvariant, <1>1, PTL

(* The number of entries of a map is a number. *)
LEMMA EntriesFinite ==
    ASSUME NEW t PROVE IsFiniteSet(Entries(t)) /\ Cardinality(Entries(t)) \in Nat
  <1>1. Entries(t) \in SUBSET Keys
    BY Zenon DEF Entries
  <1>2. IsFiniteSet(Entries(t))
    BY <1>1, FS_Subset
  <1> QED
    BY <1>2, FS_CardinalityType

(* When the stale keys are gone, the map holds keys of desired only. *)
LEMMA StaleGone ==
    ASSUME Sound, proc = "add" PROVE Entries(table) \subseteq Entries(desired)
  BY DEF Sound, Adding, Entries

(***************************************************************************)
(* Deleting stale keys first makes room: an update fails with ENOSPC only  *)
(* if the configuration itself has more keys than the map has entries.     *)
(***************************************************************************)
THEOREM AlwaysRoomForRules == Spec => []RoomForRules
  <1>1. Sound => RoomForRules
    <2> SUFFICES ASSUME Sound, NEW k \in todo, proc = "add", NoSpace(k)
                 PROVE  Cardinality(Entries(desired)) > MaxEntries
      BY DEF RoomForRules
    <2>1. k \in Entries(desired) /\ k \notin Entries(table)
      BY DEF Sound, Types, Adding, NoSpace, Entries
    <2>2. /\ Cardinality(Entries(table)) <= Cardinality(Entries(desired))
          /\ Cardinality(Entries(desired)) # Cardinality(Entries(table))
      BY <2>1, StaleGone, EntriesFinite, FS_Subset
    <2>3. Cardinality(Entries(table)) >= MaxEntries
      BY DEF NoSpace
    <2> QED
      BY <2>2, <2>3, EntriesFinite
  <1> QED
    BY SoundInvariant, <1>1, PTL

(***************************************************************************)
(* Interrupted anywhere and started again with any rules, the              *)
(* reconciliation implements RuleTable: one key at a time towards the      *)
(* rules of one configuration, common rules untouched, stale rules first.  *)
(***************************************************************************)
THEOREM ReconcileRefinesTable == Spec => ImplementsRuleTable
  <1> USE DEF RT!Empty, RT!Tables, RT!Entries
  <1>1. Init => RT!Init
    BY DEF Init, RT!Init, Goal, Empty
  <1>2. ASSUME Sound, [Next]_vars PROVE [RT!Next]_(RT!vars)
    <2>1. CASE UNCHANGED vars
      BY Zenon, <2>1 DEF vars, RT!vars, Goal
    <2>2. CASE \/ StartAny \/ PopulateConfig \/ BuildRule \/ StaleDeleted \/ Ready
               \/ \E k \in Keys : KeepRule(k)
      <3>1. UNCHANGED <<table, Goal>>
        BY <2>2 DEF StartAny, Start, PopulateConfig, BuildRule, StaleDeleted, Ready, KeepRule, Goal
      <3> QED
        BY Zenon, <3>1 DEF RT!vars
    <2>3. CASE Snapshot
      <3>1. Goal' \in Tables /\ UNCHANGED table
        BY <1>2, <2>3 DEF Snapshot, Goal, Sound, Types
      <3> QED
        BY Zenon, <3>1 DEF RT!Next, RT!Adopt, Tables
    <2>4. ASSUME NEW k \in Keys, DeleteStale(k) PROVE RT!Drop(k)
      BY <1>2, <2>4 DEF DeleteStale, Goal, Sound, Deleting, RT!Drop
    <2>5. ASSUME NEW k \in Keys, PutRule(k) PROVE RT!Put(k)
      <3>1. /\ proc = "add" /\ UNCHANGED <<proc, desired>> /\ k \in todo /\ ~UpToDate(k)
            /\ ~NoSpace(k) /\ table' = [table EXCEPT ![k] = desired[k]]
        BY Zenon, <2>5 DEF PutRule
      <3>2. Goal = desired /\ UNCHANGED Goal
        BY <3>1 DEF Goal
      <3>3. desired[k] \notin {Absent, table[k]}
        BY <1>2, <3>1 DEF UpToDate, Sound, Adding
      <3>4. table[k] = Absent => Cardinality(Entries(table)) < MaxEntries
        BY <3>1, EntriesFinite DEF NoSpace
      <3>5. Entries(table) \subseteq Entries(desired)
        BY <1>2, <3>1, StaleGone
      <3>6. RT!Cardinality(Entries(table)) = Cardinality(Entries(table))
        BY Zenon DEF Cardinality, RT!Cardinality, RT!IsFiniteSet, IsFiniteSet
      <3> QED
        BY Zenon, <3>1, <3>2, <3>3, <3>4, <3>5, <3>6 DEF RT!Put, Entries
    <2>6. CASE \/ RefuseRule \/ StartupFails \/ Shutdown \/ Unpin \/ UnpinFails \/ Crash
               \/ \E k \in Keys : PutRuleFails(k)
      <3>1. Goal' = table'
        BY <2>6, Leaving DEF Leave, Goal
      <3>2. CASE UNCHANGED table
        BY Zenon, <3>1, <3>2 DEF RT!Next, RT!Abandon
      <3>3. CASE table' = Empty
        BY Zenon, <3>1, <3>3 DEF RT!Next, RT!Vanish, Empty
      <3> QED
        BY Zenon, <2>6, <3>2, <3>3, Leaving
    <2> QED
      BY Zenon, <1>2, <2>1, <2>2, <2>3, <2>4, <2>5, <2>6 DEF Next, Reconcile, RT!Next
  <1> QED
    BY <1>1, <1>2, SoundInvariant, PTL DEF Spec, ImplementsRuleTable, RT!Spec
=============================================================================
