------------------------------ MODULE DnsNames ------------------------------
(***************************************************************************)
(* Domain names in wire format, and the keys of suffix_rules that          *)
(* internal/dnsenc/wire.go makes of rule patterns.                         *)
(*                                                                         *)
(* A name is a sequence of labels and a label a sequence of bytes.  The    *)
(* byte values matter: a length byte and a character are told apart only   *)
(* by position.                                                            *)
(*                                                                         *)
(* IsSuffix is defined here because SequencesExt extends Bags, and tlapm   *)
(* then carries the theorem libraries of Bags through every proof.         *)
(***************************************************************************)
EXTENDS Integers, Sequences

CONSTANTS
    NameLen,      \* MAX_DNS_NAME_LEN
    MaxLabelLen,  \* 63, the largest length byte of a label
    Bytes,        \* the byte values that occur
    FirstUpper,   \* 'A'
    LastUpper,    \* 'Z'
    CaseShift     \* 'a' - 'A'

ASSUME NameAssumption ==
    /\ NameLen \in Nat \ {0}
    /\ MaxLabelLen \in Nat \ {0}
    /\ Bytes \subseteq Nat /\ 0 \in Bytes

(* No letter is both: 'A' .. 'Z' and 'a' .. 'z' are apart. *)
ASSUME CaseAssumption ==
    /\ FirstUpper \in Nat /\ LastUpper \in Nat /\ CaseShift \in Nat
    /\ \A c \in FirstUpper .. LastUpper : c + CaseShift \notin FirstUpper .. LastUpper

Offsets == 0 .. NameLen - 1

(* A buffer of MAX_DNS_NAME_LEN bytes. *)
Buffers == [Offsets -> Bytes]

(* A label and its length byte, and the labels of a name up to the root's  *)
(* zero byte.                                                              *)
WireLabel(label) == <<Len(label)>> \o label

Wire(labels) ==
    LET upto[i \in 0 .. Len(labels)] ==
            IF i = 0 THEN <<>> ELSE upto[i - 1] \o WireLabel(labels[i])
    IN  Append(upto[Len(labels)], 0)

(* A name ends with the labels of a pattern. *)
IsSuffix(pattern, name) ==
    /\ Len(pattern) <= Len(name)
    /\ SubSeq(name, Len(name) - Len(pattern) + 1, Len(name)) = pattern

(* Following the length bytes from the first one ends at a zero byte: the  *)
(* length bytes met on the way are at the offsets in some set S.           *)
CarriesName(bytes) ==
    \E S \in SUBSET (0 .. Len(bytes) - 1) :
        /\ 0 \in S
        /\ \A s \in S : \/ bytes[s + 1] = 0
                        \/ bytes[s + 1] \in 1 .. MaxLabelLen /\ s + 1 + bytes[s + 1] \in S

Padded(bytes) == [k \in Offsets |-> IF k < Len(bytes) THEN bytes[k + 1] ELSE 0]

IsUpper(b) == b \in FirstUpper .. LastUpper

ToLower(labels) ==
    [i \in DOMAIN labels |->
        [j \in DOMAIN labels[i] |->
            IF IsUpper(labels[i][j]) THEN labels[i][j] + CaseShift ELSE labels[i][j]]]

HasUpper(labels) == \E i \in DOMAIN labels : \E j \in DOMAIN labels[i] : IsUpper(labels[i][j])

(* EncodeSuffix returns an error for any other sequence of labels. *)
Encodable(labels) ==
    /\ labels # <<>>
    /\ \A i \in DOMAIN labels : Len(labels[i]) \in 1 .. MaxLabelLen
    /\ Len(Wire(labels)) <= NameLen

EncodeSuffix(labels) == Padded(Wire(ToLower(labels)))

(* PopulateSuffixRules refuses rule sets with a pattern it cannot encode,  *)
(* and patterns with the same key and different actions.                   *)
Accepted(rules) ==
    \A r, s \in rules :
        /\ Encodable(r.labels)
        /\ EncodeSuffix(r.labels) = EncodeSuffix(s.labels) => r.action = s.action

(* The content of suffix_rules for a set of rules it accepts. *)
SuffixRules(rules) ==
    [key \in {EncodeSuffix(r.labels) : r \in rules} |->
        (CHOOSE r \in rules : EncodeSuffix(r.labels) = key).action]
=============================================================================
