----------------------------- MODULE RuleTable -----------------------------
(***************************************************************************)
(* What the reconciliation of suffix_rules promises, whatever fails on the *)
(* way: the map only ever moves towards the rules of one configuration,    *)
(* key by key, never touches a rule it already agrees on, and takes no new *)
(* rule before every stale one has left.  At any moment the effort may be  *)
(* given up, and the map may be lost as a whole.                           *)
(***************************************************************************)
EXTENDS Integers, FiniteSets

CONSTANTS
    Keys,       \* the keys of suffix_rules
    Actions,
    Absent,     \* stands for no entry
    MaxEntries  \* capacity of suffix_rules, 1024 in the code

VARIABLES
    table,  \* the content of suffix_rules
    goal    \* the content it is moving to

vars == <<table, goal>>

Tables == [Keys -> Actions \cup {Absent}]
Empty == [k \in Keys |-> Absent]
Entries(t) == {k \in Keys : t[k] # Absent}

Init == table = Empty /\ goal = Empty

Adopt == goal' \in Tables /\ UNCHANGED table

Abandon == goal' = table /\ UNCHANGED table

Drop(k) ==
    /\ table[k] # Absent /\ goal[k] = Absent
    /\ table' = [table EXCEPT ![k] = Absent]
    /\ UNCHANGED goal

Put(k) ==
    /\ Entries(table) \subseteq Entries(goal)
    /\ goal[k] \notin {Absent, table[k]}
    /\ table[k] = Absent => Cardinality(Entries(table)) < MaxEntries
    /\ table' = [table EXCEPT ![k] = goal[k]]
    /\ UNCHANGED goal

Vanish == table' = Empty /\ goal' = Empty

Next == Adopt \/ Abandon \/ Vanish \/ \E k \in Keys : Drop(k) \/ Put(k)

Spec == Init /\ [][Next]_vars
=============================================================================
