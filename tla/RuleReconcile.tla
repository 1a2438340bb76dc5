--------------------------- MODULE RuleReconcile ---------------------------
(***************************************************************************)
(* PopulateSuffixRules (internal/ebpf/maps.go) over the lives of the       *)
(* process: suffix_rules is pinned, so a start finds in it what a crash, a *)
(* failed startup or a failed Unpin left, and may come with another        *)
(* configuration.                                                          *)
(*                                                                         *)
(* No program is attached before the process serves, and nothing else      *)
(* writes the map.                                                         *)
(***************************************************************************)
EXTENDS Integers, FiniteSets, Sequences

CONSTANTS
    Keys, Actions, Absent, MaxEntries,
    Rejected,  \* in place of a key: no *.suffix pattern, or not encodable
    Configs,   \* the rules a configuration may hold, sequences
    MaxFaults  \* bound of crashes and failures

Rules == [key : Keys \cup {Rejected}, action : Actions]

ASSUME TableAssumption ==
    IsFiniteSet(Keys) /\ Rejected \notin Keys /\ Absent \notin Actions /\ MaxEntries \in Nat
ASSUME ConfigAssumption == \A c \in Configs : c \in Seq(Rules)
ASSUME FaultAssumption == MaxFaults \in Nat

VARIABLES
    table,     \* the content of suffix_rules
    pinned,    \* suffix_rules is pinned
    proc,      \* where the process is
    config,    \* cfg.Rules
    next,      \* the index of the rule the first loop comes to
    desired,
    existing,  \* the snapshot
    todo,      \* the keys the current loop has yet to come to
    faults

vars == <<table, pinned, proc, config, next, desired, existing, todo, faults>>

Tables == [Keys -> Actions \cup {Absent}]
Empty == [k \in Keys |-> Absent]
Entries(t) == {k \in Keys : t[k] # Absent}

(* populate: in PopulateConfig; build, delete, add: in the loops of        *)
(* PopulateSuffixRules; cleanup: about to Unpin.                           *)
Stages == {"down", "populate", "build", "delete", "add", "serving", "cleanup"}

Init ==
    /\ table = Empty
    /\ pinned = FALSE
    /\ proc = "down"
    /\ config = <<>>
    /\ next = 1
    /\ desired = Empty
    /\ existing = Empty
    /\ todo = {}
    /\ faults = 0

(* Exit and failure leave nothing of the locals. *)
Leave(stage) ==
    /\ proc' = stage
    /\ config' = <<>>
    /\ next' = 1
    /\ desired' = Empty
    /\ existing' = Empty
    /\ todo' = {}

Fault == faults < MaxFaults /\ faults' = faults + 1

-----------------------------------------------------------------------------
(* New opens the pinned map, or creates an empty one and pins it. *)
Start(c) ==
    /\ proc = "down"
    /\ proc' = "populate"
    /\ pinned' = TRUE
    /\ config' = c
    /\ UNCHANGED <<table, next, desired, existing, todo, faults>>

PopulateConfig ==
    /\ proc = "populate"
    /\ proc' = "build"
    /\ UNCHANGED <<table, pinned, config, next, desired, existing, todo, faults>>

BugRefused(r) == IF r.key = Rejected THEN TRUE ELSE desired[r.key] # Absent

(* A bad pattern, or one that appears with conflicting actions. *)
Refused(r) == IF r.key = Rejected THEN TRUE ELSE desired[r.key] \notin {Absent, r.action}

BuildRule ==
    /\ proc = "build"
    /\ next \in DOMAIN config
    /\ LET r == config[next] IN
        /\ ~Refused(r)
        /\ desired' = [desired EXCEPT ![r.key] = r.action]
    /\ next' = next + 1
    /\ UNCHANGED <<table, pinned, proc, config, existing, todo, faults>>

(* The rules are refused before the map is touched. *)
RefuseRule ==
    /\ proc = "build"
    /\ next \in DOMAIN config
    /\ Refused(config[next])
    /\ Leave("cleanup")
    /\ UNCHANGED <<table, pinned, faults>>

BugSnapshot ==
    /\ proc = "build"
    /\ next \notin DOMAIN config
    /\ existing' = table
    /\ todo' = Entries(desired)
    /\ proc' = "add"
    /\ UNCHANGED <<table, pinned, config, next, desired, faults>>

Snapshot ==
    /\ proc = "build"
    /\ next \notin DOMAIN config
    /\ existing' = table
    /\ todo' = Entries(table) \ Entries(desired)
    /\ proc' = "delete"
    /\ UNCHANGED <<table, pinned, config, next, desired, faults>>

DeleteStale(k) ==
    /\ proc = "delete"
    /\ k \in todo
    /\ table' = [table EXCEPT ![k] = Absent]
    /\ todo' = todo \ {k}
    /\ UNCHANGED <<pinned, proc, config, next, desired, existing, faults>>

StaleDeleted ==
    /\ proc = "delete"
    /\ todo = {}
    /\ todo' = Entries(desired)
    /\ proc' = "add"
    /\ UNCHANGED <<table, pinned, config, next, desired, existing, faults>>

BugUpToDate(k) == existing[k] # Absent

UpToDate(k) == existing[k] = desired[k]

KeepRule(k) ==
    /\ proc = "add"
    /\ k \in todo
    /\ UpToDate(k)
    /\ todo' = todo \ {k}
    /\ UNCHANGED <<table, pinned, proc, config, next, desired, existing, faults>>

(* An update of the kernel's map fails with ENOSPC if it needs a new entry *)
(* and the map is full.                                                    *)
NoSpace(k) == table[k] = Absent /\ Cardinality(Entries(table)) >= MaxEntries

PutRule(k) ==
    /\ proc = "add"
    /\ k \in todo
    /\ ~UpToDate(k)
    /\ ~NoSpace(k)
    /\ table' = [table EXCEPT ![k] = desired[k]]
    /\ todo' = todo \ {k}
    /\ UNCHANGED <<pinned, proc, config, next, desired, existing, faults>>

PutRuleFails(k) ==
    /\ proc = "add"
    /\ k \in todo
    /\ ~UpToDate(k)
    /\ NoSpace(k)
    /\ Leave("cleanup")
    /\ UNCHANGED <<table, pinned, faults>>

(* The rest of the startup; the programs may be attached now. *)
Ready ==
    /\ proc = "add"
    /\ todo = {}
    /\ proc' = "serving"
    /\ UNCHANGED <<table, pinned, config, next, desired, existing, todo, faults>>

-----------------------------------------------------------------------------
(* A map operation, or a later step of the startup, fails. *)
StartupFails ==
    /\ proc \in {"populate", "build", "delete", "add"}
    /\ Fault
    /\ Leave("cleanup")
    /\ UNCHANGED <<table, pinned>>

Shutdown ==
    /\ proc = "serving"
    /\ Leave("cleanup")
    /\ UNCHANGED <<table, pinned, faults>>

(* Close and Unpin: with its pin the map goes. *)
Unpin ==
    /\ proc = "cleanup"
    /\ table' = Empty
    /\ pinned' = FALSE
    /\ Leave("down")
    /\ UNCHANGED faults

(* The removal of a file fails before suffix_rules was removed. *)
UnpinFails ==
    /\ proc = "cleanup"
    /\ Fault
    /\ Leave("down")
    /\ UNCHANGED <<table, pinned>>

Crash ==
    /\ proc # "down"
    /\ Fault
    /\ Leave("down")
    /\ UNCHANGED <<table, pinned>>

-----------------------------------------------------------------------------
StartAny == \E c \in Configs : Start(c)

Reconcile ==
    \/ PopulateConfig
    \/ BuildRule
    \/ RefuseRule
    \/ Snapshot
    \/ \E k \in Keys : DeleteStale(k)
    \/ StaleDeleted
    \/ \E k \in Keys : KeepRule(k) \/ PutRule(k) \/ PutRuleFails(k)
    \/ Ready
    \/ Unpin

Next == StartAny \/ Reconcile \/ StartupFails \/ Shutdown \/ UnpinFails \/ Crash

Spec == Init /\ [][Next]_vars

(* The process is scheduled, and started again after an exit. *)
FairSpec == Spec /\ WF_vars(StartAny) /\ WF_vars(Reconcile)

-----------------------------------------------------------------------------
(* Every variable stays in its domain, and a map without a pin is empty. *)
TypeOK ==
    /\ table \in Tables
    /\ pinned \in BOOLEAN
    /\ proc \in Stages
    /\ config \in Configs \cup {<<>>}
    /\ next \in 1 .. Len(config) + 1
    /\ desired \in Tables
    /\ existing \in Tables
    /\ todo \subseteq Keys
    /\ faults \in 0 .. MaxFaults
    /\ ~pinned => table = Empty

(* t holds the rules of c and no other. *)
Holds(t, c) ==
    /\ \A i \in DOMAIN c : c[i].key # Rejected /\ t[c[i].key] = c[i].action
    /\ \A k \in Entries(t) : \E i \in DOMAIN c : c[i].key = k

(***************************************************************************)
(* When PopulateSuffixRules has succeeded, suffix_rules holds the rules of *)
(* the configuration and no other, whatever earlier lives of the process   *)
(* left in the pinned map.                                                 *)
(***************************************************************************)
ServesConfig == proc = "serving" => Holds(table, config)

(***************************************************************************)
(* The reconciliation does not run out of entries if the rules fit into    *)
(* the map, however full it was before: stale keys are deleted first.      *)
(***************************************************************************)
RoomForRules ==
    \A k \in todo :
        proc = "add" /\ ~UpToDate(k) /\ NoSpace(k) =>
            Cardinality(Entries(desired)) > MaxEntries

(* From the snapshot on, the map moves to desired. *)
Goal == IF proc \in {"delete", "add", "serving"} THEN desired ELSE table

RT == INSTANCE RuleTable WITH goal <- Goal

(***************************************************************************)
(* However it is interrupted, the reconciliation moves the map key by key  *)
(* to the rules of one configuration, keeps the rules old and new have in  *)
(* common, and takes new rules when the stale ones are gone.               *)
(***************************************************************************)
ImplementsRuleTable == RT!Spec

(* A configuration PopulateSuffixRules accepts and the map has room for. *)
Acceptable(c) ==
    \E t \in Tables : Holds(t, c) /\ Cardinality(Entries(t)) <= MaxEntries

(***************************************************************************)
(* A process that is started with acceptable rules serves in the end,      *)
(* although some starts fail or crash half-way and leave the map as it is. *)
(***************************************************************************)
EventuallyServing ==
    [](proc \in Stages \ {"down", "cleanup"} => Acceptable(config)) =>
        (proc = "populate" ~> proc = "serving")
=============================================================================
