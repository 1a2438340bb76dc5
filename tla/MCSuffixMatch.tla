---------------------------- MODULE MCSuffixMatch ----------------------------
(***************************************************************************)
(* Instances of SuffixMatch for TLC.  Bytes 1 and 2 are lengths and (like  *)
(* '-' and the digits) characters; A, B, a and b are beyond MaxLabelLen,   *)
(* as letters are beyond 63.                                               *)
(***************************************************************************)
EXTENDS SuffixMatch

A == 3
B == 4
a == 5
b == 6

MCBytes == 0 .. 6

NamesOf(labels, n) == UNION {[1 .. k -> labels] : k \in 1 .. n}

Carry(names, tails) == {[name |-> n, bytes |-> Wire(n) \o t] : n \in names, t \in tails}

(* The bytes that end before the name does, and the name of the root. *)
Garbage(bytes, n) ==
    {[name |-> <<>>, bytes |-> g] :
        g \in {h \in UNION {[1 .. k -> bytes] : k \in 0 .. n} : CarriesName(h) => h[1] = 0}}

Rule(labels, action) == [labels |-> labels, action |-> action]

(* Labels such as <<1, a>> hold what looks like a label of its own. *)
AllPackets ==
    Carry(NamesOf({<<a>>, <<b>>, <<A>>, <<1, a>>, <<a, b>>}, 4), {<<>>, <<1, a, 0>>})

MostRules ==
    {{Rule(<<<<a>>>>, 1)},
     {Rule(<<<<a>>>>, 2)},
     {Rule(<<<<a>>>>, 1), Rule(<<<<b>>, <<a>>>>, 2)},
     {Rule(<<<<B>>>>, 1), Rule(<<<<a>>, <<b>>>>, 2), Rule(<<<<b>>, <<a>>, <<b>>>>, 1)},
     {Rule(<<<<A, B>>, <<1, a>>>>, 1), Rule(<<<<1, a>>>>, 2)},
     {Rule(<<<<a>>>>, 1), Rule(<<<<A>>>>, 2)},
     {Rule(<<<<a>>, <<a>>, <<a>>, <<a>>>>, 1)}}

FewPackets ==
    Carry(NamesOf({<<a>>, <<1, a>>}, 4), {<<>>}) \cup Garbage({0, 1, 2, a}, 4)

FewRules == {{Rule(<<<<a>>>>, 1)}, {Rule(<<<<a>>, <<a>>>>, 1), Rule(<<<<a>>>>, 2)}}

ManyPackets == AllPackets \cup FewPackets

ManyRules == MostRules \cup FewRules

(* Only few packets follow another. *)
MCNext ==
    \/ (pc = "done" => received = 0) /\ Next
    \/ received > 0 /\ rules \in FewRules /\ pkt \in FewPackets /\ Receive(FewPackets)

MCSpec == Init /\ [][MCNext]_vars
=============================================================================
