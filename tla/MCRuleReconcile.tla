-------------------------- MODULE MCRuleReconcile --------------------------
(* RuleReconcile for TLC: three keys, a map of two entries. *)
EXTENDS RuleReconcile

CONSTANTS k1, k2, k3, host, cluster

(* Up to two rules, which may repeat or contradict each other or be        *)
(* rejected, and one configuration the map has no room for.                *)
MCConfigs ==
    {<<>>} \cup {<<r>> : r \in Rules} \cup {<<r, s>> : r, s \in Rules}
        \cup {<<[key |-> k1, action |-> host], [key |-> k2, action |-> host],
                [key |-> k3, action |-> cluster]>>}
=============================================================================
