----------------------------- MODULE MCDatapath -----------------------------
(* Instances of Datapath for TLC. *)
EXTENDS Datapath, TLC

(* One set of failing helpers for each way nat_rewrite_addr can end. *)
AllFaults == {{}, {"store"}, {"l3"}, {"l3", "undo_store"}, {"l4"}, {"l4", "undo_l3"},
              {"l4", "undo_store"}, {"l4", "undo_l3", "undo_store"}}
NoFaults == {{}}

Symmetry == Permutations(Queries) \cup Permutations(Txids) \cup Permutations(Elements)
=============================================================================
