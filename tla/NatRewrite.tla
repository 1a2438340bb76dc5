----------------------------- MODULE NatRewrite -----------------------------
(***************************************************************************)
(* nat_rewrite_addr (bpf/dns_gateway.c): rewrite one IPv4 address of a     *)
(* packet and repair the IP and the UDP checksum, undoing the steps        *)
(* already applied when a helper fails in the middle.                      *)
(*                                                                         *)
(* A packet is reduced to what the rewrite touches: "addr", the address    *)
(* being rewritten (daddr of a query, saddr of a response), and for each   *)
(* checksum the address it accounts for.  A checksum is correct when it    *)
(* accounts for the address the packet carries.                            *)
(***************************************************************************)
EXTENDS Integers

CONSTANTS
    Addresses,  \* the IPv4 addresses that occur
    NoCsum,     \* the UDP checksum field is 0: the sender computed none
    BadCsum     \* a checksum that accounts for no address of the packet

ASSUME CsumAssumption ==
    NoCsum \notin Addresses /\ BadCsum \notin Addresses /\ NoCsum # BadCsum

(* The helper calls of nat_rewrite_addr, each of which may fail. *)
Helpers == {"store", "l3", "l4", "undo_l3", "undo_store"}

Packets == [addr : Addresses,
            ip_csum : Addresses \cup {BadCsum},
            udp_csum : Addresses \cup {NoCsum, BadCsum}]

(* A packet as its sender emits it; c is the content of its UDP checksum. *)
Emitted(a, c) == [addr |-> a, ip_csum |-> a, udp_csum |-> c]

(* What the next hop accepts: both checksums match the address. *)
Intact(p) == p.ip_csum = p.addr /\ p.udp_csum \in {p.addr, NoCsum}

(* bpf_skb_store_bytes at addr_off. *)
store_bytes(p, a) == [p EXCEPT !.addr = a]

(* Incremental checksum update: right only when the field accounted for    *)
(* the old address.                                                        *)
csum_replace(c, old, new) == IF c = old THEN new ELSE BadCsum

l3_csum_replace(p, old, new) ==
    [p EXCEPT !.ip_csum = csum_replace(p.ip_csum, old, new)]

(* BPF_F_MARK_MANGLED_0 leaves a UDP checksum of 0 alone. *)
l4_csum_replace(p, old, new) ==
    IF p.udp_csum = NoCsum THEN p
    ELSE [p EXCEPT !.udp_csum = csum_replace(p.udp_csum, old, new)]

(* The two undo calls of the error paths. *)
undo_l3(p, old, new, fail) ==
    IF "undo_l3" \in fail THEN p ELSE l3_csum_replace(p, new, old)

BugNoUndoStore(p, old, fail) == p

undo_store(p, old, fail) ==
    IF "undo_store" \in fail THEN p ELSE store_bytes(p, old)

(* The return code and the packet left behind when exactly the helper      *)
(* calls in "fail" fail.                                                   *)
nat_rewrite_addr(p, old, new, fail) ==
    LET stored == store_bytes(p, new)
        summed == l3_csum_replace(stored, old, new)
    IN  CASE "store" \in fail ->
                [rc |-> -1, pkt |-> p]
          [] "store" \notin fail /\ "l3" \in fail ->
                [rc  |-> IF "undo_store" \in fail THEN -2 ELSE -1,
                 pkt |-> undo_store(stored, old, fail)]
          [] "store" \notin fail /\ "l3" \notin fail /\ "l4" \in fail ->
                [rc  |-> IF fail \cap {"undo_l3", "undo_store"} # {} THEN -2 ELSE -1,
                 pkt |-> undo_store(undo_l3(summed, old, new, fail), old, fail)]
          [] OTHER ->
                [rc |-> 0, pkt |-> l4_csum_replace(summed, old, new)]
=============================================================================
