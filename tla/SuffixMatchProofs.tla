-------------------------- MODULE SuffixMatchProofs --------------------------
(***************************************************************************)
(* What SuffixMatch promises, for every buffer size, label bound, set of   *)
(* packets and set of rules: type correctness, LookupExact,                *)
(* RedirectNeedsRule and LongestSuffixWins.                                *)
(*                                                                         *)
(* The first part is about names: what Wire, ToLower, EncodeSuffix and     *)
(* IsSuffix compute, and when the bytes that the matching loop copies from *)
(* a query equal the key of a rule.  The second part follows the state.    *)
(***************************************************************************)
EXTENDS SuffixMatch, WellFoundedInduction, TLAPS

Below == {ss \in Nat \X Nat : ss[1] < ss[2]}

(* A set of numbers has a least one. *)
LEMMA LeastNat ==
    ASSUME NEW T \in SUBSET Nat, T # {}
    PROVE  \E x \in T : \A y \in T : x <= y
<1>1. IsWellFoundedOn(Below, Nat)
  BY Zenon, NatLessThanWellFounded DEF OpToRel, Below
<1>2. PICK x \in T : \A y \in T : ~ (<<y, x>> \in Below)
  BY Zenon, <1>1, WFMin
<1>3. \A y, z \in Nat : y < z => <<y, z>> \in Below
  BY DEF Below
<1>4. \A y \in T : ~(y < x)
  BY Zenon, <1>2, <1>3
<1> QED BY <1>4

(* Induction, with the property as a set. *)
LEMMA Induct ==
    ASSUME NEW S, 0 \in S, \A n \in Nat : n \in S => n + 1 \in S
    PROVE  \A n \in Nat : n \in S
<1> SUFFICES ASSUME Nat \ S # {} PROVE FALSE
  OBVIOUS
<1>1. PICK x \in Nat \ S : \A y \in Nat \ S : x <= y
  BY Zenon, LeastNat
<1> QED BY <1>1, x - 1 \in Nat /\ x - 1 \notin S

-----------------------------------------------------------------------------
(* Concatenation of sequences of numbers. *)
LEMMA Concat ==
    ASSUME NEW s \in Seq(Nat), NEW t \in Seq(Nat)
    PROVE  /\ s \o t \in Seq(Nat)
           /\ Len(s \o t) = Len(s) + Len(t)
           /\ \A i \in 1 .. Len(s) : (s \o t)[i] = s[i]
           /\ \A i \in 1 .. Len(t) : (s \o t)[Len(s) + i] = t[i]
  OBVIOUS

(* The recursive function inside Wire. *)
WireStep(labels, i, g) == IF i = 0 THEN <<>> ELSE g[i - 1] \o WireLabel(labels[i])

Wires(labels, k, g) ==
    g \in [0 .. k -> Seq(Nat)] /\ \A i \in 0 .. k : g[i] = WireStep(labels, i, g)

(* A label with its length byte is a sequence of bytes. *)
LEMMA WireLabelType ==
    ASSUME NEW label \in Seq(Nat) PROVE WireLabel(label) \in Seq(Nat)
<1>1. <<Len(label)>> \in Seq(Nat)
  OBVIOUS
<1> QED BY Zenon, <1>1, Concat DEF WireLabel

(* It is defined on every sequence of labels. *)
LEMMA WireDefined ==
    ASSUME NEW w \in Seq(Seq(Nat)) PROVE \E g : Wires(w, Len(w), g)
<1>1. Len(w) \in Nat /\ \A i \in 1 .. Len(w) : w[i] \in Seq(Nat)
  OBVIOUS
<1> DEFINE K == {k \in Nat : k <= Len(w) => \E g : Wires(w, k, g)}
<1>2. 0 \in K
  <2> DEFINE h == [i \in 0 .. 0 |-> <<>>]
  <2>1. h \in [0 .. 0 -> Seq(Nat)] /\ \A i \in 0 .. 0 : h[i] = <<>> /\ i = 0
    OBVIOUS
  <2>2. Wires(w, 0, h)
    BY Zenon, <2>1 DEF Wires, WireStep
  <2> QED BY <2>2
<1>3. ASSUME NEW k \in Nat, k \in K, k + 1 <= Len(w) PROVE \E g : Wires(w, k + 1, g)
  <2>1. PICK g : Wires(w, k, g)
    BY <1>1, <1>3
  <2>2. g \in [0 .. k -> Seq(Nat)] /\ \A i \in 0 .. k : g[i] = WireStep(w, i, g)
    BY <2>1 DEF Wires
  <2> DEFINE h == [i \in 0 .. k + 1 |-> IF i = k + 1 THEN WireStep(w, i, g) ELSE g[i]]
  <2>3. WireStep(w, k + 1, g) \in Seq(Nat)
    <3>1. g[k] \in Seq(Nat) /\ w[k + 1] \in Seq(Nat) /\ (k + 1) - 1 = k /\ k + 1 # 0
      BY <1>1, <1>3, <2>2
    <3>2. WireStep(w, k + 1, g) = g[k] \o WireLabel(w[k + 1])
      BY Zenon, <3>1 DEF WireStep
    <3> QED BY ZenonT(30), <3>1, <3>2, Concat, WireLabelType
  <2>4. h \in [0 .. k + 1 -> Seq(Nat)]
    BY <2>2, <2>3
  <2>5. ASSUME NEW i \in 0 .. k + 1 PROVE h[i] = WireStep(w, i, h)
    <3>1. i # 0 => h[i - 1] = g[i - 1]
      OBVIOUS
    <3>2. WireStep(w, i, h) = WireStep(w, i, g)
      BY <3>1 DEF WireStep
    <3>3. CASE i = k + 1
      BY <3>2, <3>3
    <3>4. CASE i \in 0 .. k
      <4>1. h[i] = g[i]
        BY <3>4
      <4> QED BY <2>2, <3>2, <3>4, <4>1
    <3> QED BY <3>3, <3>4
  <2>6. Wires(w, k + 1, h)
    BY Zenon, <2>4, <2>5 DEF Wires
  <2> QED BY <2>6
<1>4. \A k \in Nat : k \in K
  <2>1. \A k \in Nat : k + 1 \in Nat
    OBVIOUS
  <2>2. \A k \in Nat : k \in K => k + 1 \in K
    BY Zenon, <1>3, <2>1
  <2> HIDE DEF K
  <2> QED BY Zenon, <1>2, <2>2, Induct
<1> QED BY <1>1, <1>4

(* What Wire returns. *)
LEMMA Wired ==
    ASSUME NEW w \in Seq(Seq(Nat))
    PROVE  \E g : Wires(w, Len(w), g) /\ Wire(w) = Append(g[Len(w)], 0)
<1>1. Len(w) \in Nat
  OBVIOUS
<1> DEFINE n == Len(w)
           D(f) == f = [i \in 0 .. n |-> IF i = 0 THEN <<>> ELSE f[i - 1] \o WireLabel(w[i])]
           fl == CHOOSE f : D(f)
<1>2. PICK g : Wires(w, n, g)
  BY WireDefined
<1>3. D(g)
  BY Zenon, <1>2 DEF Wires, WireStep
<1>4. D(fl)
  BY Zenon, <1>3
<1>5. Wire(w) = Append(fl[n], 0)
  BY Zenon DEF Wire
<1> HIDE DEF fl
<1>6. \A k \in Nat : k \in 0 .. n => fl[k] = g[k]
  <2> DEFINE J == {k \in Nat : k \in 0 .. n => fl[k] = g[k]}
  <2>1. 0 \in J
    <3>1. 0 \in 0 .. n
      BY <1>1
    <3>2. fl[0] = <<>> /\ g[0] = <<>>
      BY Zenon, <1>3, <1>4, <3>1
    <3> QED BY Zenon, <3>2
  <2>2. ASSUME NEW k \in Nat, k \in J, k + 1 \in 0 .. n PROVE fl[k + 1] = g[k + 1]
    <3>1. k \in 0 .. n /\ fl[k] = g[k] /\ k + 1 # 0 /\ (k + 1) - 1 = k
      BY <1>1, <2>2
    <3>2. fl[k + 1] = fl[k] \o WireLabel(w[k + 1])
      BY Zenon, <1>4, <2>2, <3>1
    <3>3. g[k + 1] = g[k] \o WireLabel(w[k + 1])
      BY Zenon, <1>3, <2>2, <3>1
    <3> QED BY Zenon, <3>1, <3>2, <3>3
  <2>3. \A k \in Nat : k \in J => k + 1 \in J
    <3>1. \A k \in Nat : k + 1 \in Nat
      OBVIOUS
    <3> QED BY Zenon, <2>2, <3>1
  <2>4. \A k \in Nat : k \in J
    <3> HIDE DEF J
    <3> QED BY Zenon, <2>1, <2>3, Induct
  <2> QED BY <2>4
<1>7. fl[n] = g[n]
  <2>1. n \in Nat /\ n \in 0 .. n
    BY <1>1
  <2> QED BY Zenon, <1>6, <2>1
<1> QED BY Zenon, <1>2, <1>5, <1>7

(* A label with its length byte, at an offset of a packet. *)
LabelAt(bytes, p, label) ==
    /\ bytes[p + 1] = Len(label)
    /\ \A j \in 1 .. Len(label) : bytes[p + 1 + j] = label[j]

(* Where the labels of a name start in its wire format. *)
Laid(bytes, labels, st) ==
    /\ st \in [1 .. Len(labels) + 1 -> Nat]
    /\ st[1] = 0
    /\ \A i \in 1 .. Len(labels) :
          /\ st[i + 1] = st[i] + 1 + Len(labels[i])
          /\ LabelAt(bytes, st[i], labels[i])
    /\ bytes[st[Len(labels) + 1] + 1] = 0

(* One sequence starts with another. *)
Pre(s, t) == Len(s) <= Len(t) /\ \A x \in 1 .. Len(s) : t[x] = s[x]

(* The length of a sequence is a number. *)
LEMMA LenNat == \A s \in Seq(Nat) : Len(s) \in Nat
  OBVIOUS

(* A sequence comes before what it is extended to. *)
LEMMA PreAppend ==
    ASSUME NEW a \in Seq(Nat), NEW b \in Seq(Nat), NEW t \in Seq(Nat), NEW c,
           Pre(a, b), c = b \o t
    PROVE  Pre(a, c)
<1>1. c \in Seq(Nat) /\ Len(c) = Len(b) + Len(t) /\ \A i \in 1 .. Len(b) : c[i] = b[i]
  BY Concat
<1> QED BY <1>1 DEF Pre

(* A sequence comes before itself. *)
LEMMA PreSelf == \A s \in Seq(Nat) : Pre(s, s)
  BY DEF Pre

(* A label with its length byte. *)
LEMMA WireLabelBytes ==
    ASSUME NEW label \in Seq(Nat)
    PROVE  /\ WireLabel(label) \in Seq(Nat) /\ Len(WireLabel(label)) = 1 + Len(label)
           /\ WireLabel(label)[1] = Len(label)
           /\ \A j \in 1 .. Len(label) : WireLabel(label)[1 + j] = label[j]
<1>1. \A n \in Nat : <<n>> \in Seq(Nat) /\ Len(<<n>>) = 1 /\ <<n>>[1] = n
  OBVIOUS
<1>2. Len(label) \in Nat
  OBVIOUS
<1>3. ASSUME NEW z \in Seq(Nat), Len(z) = 1
      PROVE  /\ z \o label \in Seq(Nat) /\ Len(z \o label) = 1 + Len(label)
             /\ (z \o label)[1] = z[1]
             /\ \A j \in 1 .. Len(label) : (z \o label)[1 + j] = label[j]
  <2>1. /\ z \o label \in Seq(Nat) /\ Len(z \o label) = Len(z) + Len(label)
        /\ \A i \in 1 .. Len(z) : (z \o label)[i] = z[i]
        /\ \A i \in 1 .. Len(label) : (z \o label)[Len(z) + i] = label[i]
    BY Zenon, Concat
  <2>2. 1 \in 1 .. Len(z)
    BY <1>3
  <2> QED BY Zenon, <1>3, <2>1, <2>2
<1> QED BY Zenon, <1>1, <1>2, <1>3 DEF WireLabel

(* The bytes of one label. *)
LEMMA LabelBytes ==
    ASSUME NEW before \in Seq(Nat), NEW label \in Seq(Nat), NEW u, u = WireLabel(label),
           NEW upto, upto = before \o u, NEW all \in Seq(Nat), Pre(upto, all)
    PROVE  /\ Len(upto) = Len(before) + 1 + Len(label)
           /\ LabelAt(all, Len(before), label)
<1>1. /\ u \in Seq(Nat) /\ Len(u) = 1 + Len(label) /\ u[1] = Len(label)
      /\ \A j \in 1 .. Len(label) : u[1 + j] = label[j]
  BY Zenon, WireLabelBytes
<1>2. /\ upto \in Seq(Nat) /\ Len(upto) = Len(before) + Len(u)
      /\ \A j \in 1 .. Len(u) : upto[Len(before) + j] = u[j]
  BY ZenonT(30), <1>1, Concat
<1>3. \A j \in 1 .. Len(u) : all[Len(before) + j] = u[j]
  <2>1. \A p, q \in Nat : \A j \in 1 .. q : p + j \in 1 .. p + q
    OBVIOUS
  <2>2. \A j \in 1 .. Len(u) : Len(before) + j \in 1 .. Len(upto)
    BY Zenon, <1>1, <1>2, <2>1, LenNat
  <2> QED BY Zenon, <1>2, <2>2 DEF Pre
<1>4. ASSUME NEW p \in Nat, NEW q \in Nat
      PROVE  /\ p + (1 + q) = p + 1 + q /\ 1 \in 1 .. 1 + q
             /\ \A j \in 1 .. q : 1 + j \in 1 .. 1 + q /\ p + (1 + j) = p + 1 + j
  OBVIOUS
<1>5. Len(before) \in Nat /\ Len(label) \in Nat
  OBVIOUS
<1>6. /\ Len(before) + (1 + Len(label)) = Len(before) + 1 + Len(label)
      /\ 1 \in 1 .. Len(u)
      /\ \A j \in 1 .. Len(label) :
            1 + j \in 1 .. Len(u) /\ Len(before) + (1 + j) = Len(before) + 1 + j
  BY Zenon, <1>1, <1>4, <1>5
<1>7. Len(upto) = Len(before) + 1 + Len(label)
  BY Zenon, <1>1, <1>2, <1>6
<1>8. all[Len(before) + 1] = Len(label)
  BY Zenon, <1>1, <1>3, <1>6
<1>9. ASSUME NEW j \in 1 .. Len(label) PROVE all[Len(before) + 1 + j] = label[j]
  <2>1. all[Len(before) + (1 + j)] = label[j]
    BY Zenon, <1>1, <1>3, <1>6
  <2> QED BY Zenon, <1>6, <2>1
<1> QED BY Zenon, <1>7, <1>8, <1>9 DEF LabelAt

(* Wire only appends. *)
LEMMA WirePrefix ==
    ASSUME NEW w \in Seq(Seq(Nat)), NEW n, n = Len(w), NEW g, Wires(w, n, g)
    PROVE  \A k \in 0 .. n : \A m \in 0 .. k : Pre(g[m], g[k])
<1> DEFINE J == {k \in Nat : k \in 0 .. n => \A m \in 0 .. k : Pre(g[m], g[k])}
<1>1. n \in Nat /\ \A i \in 1 .. n : w[i] \in Seq(Nat)
  OBVIOUS
<1>2. \A i \in 0 .. n : g[i] \in Seq(Nat)
  BY Zenon DEF Wires
<1>3. 0 \in J
  <2>1. 0 \in 0 .. n /\ \A m \in 0 .. 0 : m = 0
    BY <1>1
  <2> QED BY Zenon, <1>2, <2>1, PreSelf
<1>4. ASSUME NEW k \in Nat, k \in J, k + 1 \in 0 .. n, NEW m \in 0 .. k + 1
      PROVE  Pre(g[m], g[k + 1])
  <2>1. CASE m = k + 1
    BY Zenon, <1>2, <1>4, <2>1, PreSelf
  <2>2. CASE m # k + 1
    <3>1. /\ m \in 0 .. k /\ k \in 0 .. n /\ m \in 0 .. n
          /\ k + 1 \in 1 .. n /\ k + 1 # 0 /\ (k + 1) - 1 = k
      BY <1>1, <1>4, <2>2
    <3>2. Pre(g[m], g[k])
      BY Zenon, <1>4, <3>1
    <3>3. g[k + 1] = g[k] \o WireLabel(w[k + 1])
      BY Zenon, <1>4, <3>1 DEF Wires, WireStep
    <3>4. g[m] \in Seq(Nat) /\ g[k] \in Seq(Nat) /\ WireLabel(w[k + 1]) \in Seq(Nat)
      BY Zenon, <1>1, <1>2, <3>1, WireLabelType
    <3> QED BY ZenonT(30), <3>2, <3>3, <3>4, PreAppend
  <2> QED BY <2>1, <2>2
<1>5. \A k \in Nat : k \in J
  <2>1. \A k \in Nat : k + 1 \in Nat
    OBVIOUS
  <2>2. \A k \in Nat : k \in J => k + 1 \in J
    BY Zenon, <1>4, <2>1
  <2> HIDE DEF J
  <2> QED BY Zenon, <1>3, <2>2, Induct
<1>6. \A k \in 0 .. n : k \in Nat
  BY <1>1
<1> QED BY Zenon, <1>5, <1>6

(* The wire format of a name. *)
LEMMA WireLaid ==
    ASSUME NEW labels \in Seq(Seq(Nat)), labels # <<>>
    PROVE  /\ Wire(labels) \in Seq(Nat)
           /\ \E st : Laid(Wire(labels), labels, st)
                      /\ Len(Wire(labels)) = st[Len(labels) + 1] + 1
<1> DEFINE n == Len(labels)
           W == Wire(labels)
<1>1. n \in Nat /\ n \in 0 .. n /\ 0 \in 0 .. n /\ \A i \in 1 .. n : labels[i] \in Seq(Nat)
  OBVIOUS
<1>2. PICK g : Wires(labels, n, g) /\ W = Append(g[n], 0)
  BY Zenon, Wired
<1>3. \A i \in 0 .. n : g[i] \in Seq(Nat) /\ Len(g[i]) \in Nat
  BY Zenon, <1>2, LenNat DEF Wires
<1>4. Len(g[0]) = 0
  <2>1. g[0] = <<>>
    BY Zenon, <1>1, <1>2 DEF Wires, WireStep
  <2> QED BY <2>1
<1>5. W \in Seq(Nat) /\ Len(W) = Len(g[n]) + 1 /\ Pre(g[n], W) /\ W[Len(g[n]) + 1] = 0
  <2>1. ASSUME NEW s \in Seq(Nat), NEW t, t = Append(s, 0)
        PROVE  t \in Seq(Nat) /\ Len(t) = Len(s) + 1 /\ Pre(s, t) /\ t[Len(s) + 1] = 0
    BY <2>1 DEF Pre
  <2> HIDE DEF W
  <2> QED BY Zenon, <1>1, <1>2, <1>3, <2>1
<1> DEFINE st == [i \in 1 .. n + 1 |-> Len(g[i - 1])]
<1>6. /\ st \in [1 .. n + 1 -> Nat] /\ st[1] = Len(g[0]) /\ st[n + 1] = Len(g[n])
      /\ \A i \in 1 .. n : st[i + 1] = Len(g[i]) /\ st[i] = Len(g[i - 1])
  <2>1. /\ 1 \in 1 .. n + 1 /\ 1 - 1 = 0 /\ n + 1 \in 1 .. n + 1 /\ (n + 1) - 1 = n
        /\ \A i \in 1 .. n : i \in 1 .. n + 1 /\ i + 1 \in 1 .. n + 1 /\ (i + 1) - 1 = i
        /\ \A i \in 1 .. n + 1 : i - 1 \in 0 .. n
    BY <1>1
  <2> HIDE DEF n
  <2> QED BY Zenon, <1>3, <2>1
<1> HIDE DEF st
<1>7. ASSUME NEW i \in 1 .. n
      PROVE  st[i + 1] = st[i] + 1 + Len(labels[i]) /\ LabelAt(W, st[i], labels[i])
  <2>1. i \in 0 .. n /\ i - 1 \in 0 .. n /\ i # 0
    BY <1>1
  <2>2. g[i] = g[i - 1] \o WireLabel(labels[i])
    BY Zenon, <1>2, <2>1 DEF Wires, WireStep
  <2>3. Pre(g[i], g[n])
    BY Zenon, <1>1, <1>2, <2>1, WirePrefix
  <2> HIDE DEF W, n
  <2>4. Pre(g[i], W)
    <3>1. \A x, y, z \in Seq(Nat) : Pre(x, y) /\ Pre(y, z) => Pre(x, z)
      BY DEF Pre
    <3> QED BY Zenon, <1>1, <1>3, <1>5, <2>1, <2>3, <3>1
  <2>5. Len(g[i]) = Len(g[i - 1]) + 1 + Len(labels[i]) /\ LabelAt(W, Len(g[i - 1]), labels[i])
    BY Zenon, <1>1, <1>3, <1>5, <2>1, <2>2, <2>4, LabelBytes
  <2> QED BY Zenon, <1>6, <2>5
<1>8. Laid(W, labels, st)
  BY Zenon, <1>4, <1>5, <1>6, <1>7 DEF Laid
<1> QED BY Zenon, <1>5, <1>6, <1>8

-----------------------------------------------------------------------------
(* ToLower, label by label. *)
LowerByte(c) == IF IsUpper(c) THEN c + CaseShift ELSE c
LowerLabel(l) == [j \in DOMAIN l |-> LowerByte(l[j])]

(* A label without a zero byte. *)
NoZero(l) == \A j \in DOMAIN l : l[j] # 0

(* Sequences over a larger set. *)
LEMMA SeqMono == \A S, T : S \subseteq T => Seq(S) \subseteq Seq(T)
  OBVIOUS

(* Labels are sequences of numbers. *)
LEMMA LabelsNat == Seq(Seq(Bytes)) \subseteq Seq(Seq(Nat))
  BY Zenon, SeqMono, NameAssumption

(* Lower-casing a label changes letters only, and once is enough. *)
LEMMA LowerLabelType ==
    ASSUME NEW l \in Seq(Nat)
    PROVE  /\ LowerLabel(l) \in Seq(Nat) /\ Len(LowerLabel(l)) = Len(l)
           /\ LowerLabel(LowerLabel(l)) = LowerLabel(l)
           /\ NoZero(l) => NoZero(LowerLabel(l))
<1>1. \A c \in Nat : /\ LowerByte(c) \in Nat
                     /\ LowerByte(LowerByte(c)) = LowerByte(c)
                     /\ c # 0 => LowerByte(c) # 0
  BY CaseAssumption DEF LowerByte, IsUpper
<1>2. DOMAIN l = 1 .. Len(l) /\ Len(l) \in Nat /\ \A j \in 1 .. Len(l) : l[j] \in Nat
  OBVIOUS
<1>3. /\ DOMAIN LowerLabel(l) = 1 .. Len(l)
      /\ \A j \in 1 .. Len(l) : LowerLabel(l)[j] = LowerByte(l[j])
  BY Zenon, <1>2 DEF LowerLabel
<1>4. LowerLabel(l) \in [1 .. Len(l) -> Nat]
  BY <1>1, <1>2 DEF LowerLabel
<1>5. LowerLabel(l) \in Seq(Nat) /\ Len(LowerLabel(l)) = Len(l)
  BY <1>2, <1>4
<1>6. LowerLabel(LowerLabel(l)) = LowerLabel(l)
  <2>1. LowerLabel(LowerLabel(l)) = [j \in 1 .. Len(l) |-> LowerByte(LowerByte(l[j]))]
    BY <1>3 DEF LowerLabel
  <2>2. LowerLabel(l) = [j \in 1 .. Len(l) |-> LowerByte(l[j])]
    BY Zenon, <1>2 DEF LowerLabel
  <2> QED BY <1>1, <1>2, <2>1, <2>2
<1>7. NoZero(l) => NoZero(LowerLabel(l))
  BY Zenon, <1>1, <1>2, <1>3 DEF NoZero
<1> QED BY <1>5, <1>6, <1>7

(* ToLower works label by label. *)
LEMMA LowerType ==
    ASSUME NEW labels \in Seq(Seq(Nat))
    PROVE  /\ ToLower(labels) \in Seq(Seq(Nat))
           /\ Len(ToLower(labels)) = Len(labels)
           /\ \A i \in 1 .. Len(labels) : ToLower(labels)[i] = LowerLabel(labels[i])
<1>1. DOMAIN labels = 1 .. Len(labels) /\ Len(labels) \in Nat
  OBVIOUS
<1>2. \A i \in 1 .. Len(labels) : labels[i] \in Seq(Nat)
  OBVIOUS
<1>3. ToLower(labels) = [i \in 1 .. Len(labels) |-> LowerLabel(labels[i])]
  BY Zenon, <1>1 DEF ToLower, LowerLabel, LowerByte
<1>4. \A i \in 1 .. Len(labels) : LowerLabel(labels[i]) \in Seq(Nat)
  BY Zenon, <1>2, LowerLabelType
<1>5. ToLower(labels) \in [1 .. Len(labels) -> Seq(Nat)]
  BY Zenon, <1>3, <1>4
<1>6. \A k \in Nat : \A S : [1 .. k -> S] \subseteq Seq(S)
  OBVIOUS
<1>7. ToLower(labels) \in Seq(Seq(Nat))
  BY Zenon, <1>1, <1>5, <1>6
<1>8. DOMAIN ToLower(labels) = 1 .. Len(labels)
  BY Zenon, <1>3
<1>9. Len(ToLower(labels)) = Len(labels)
  BY <1>1, <1>7, <1>8
<1> QED BY Zenon, <1>3, <1>7, <1>9

(* A name without upper-case letters. *)
LEMMA LowerAlready ==
    ASSUME NEW labels \in Seq(Seq(Nat)), ~HasUpper(labels)
    PROVE  ToLower(labels) = labels
<1>1. DOMAIN labels = 1 .. Len(labels)
  OBVIOUS
<1>2. ASSUME NEW i \in 1 .. Len(labels) PROVE ToLower(labels)[i] = labels[i]
  <2>1. labels[i] \in Seq(Nat)
    OBVIOUS
  <2>2. \A j \in DOMAIN labels[i] : LowerByte(labels[i][j]) = labels[i][j]
    BY Zenon, <1>1 DEF HasUpper, LowerByte
  <2>3. ASSUME NEW l \in Seq(Nat), \A j \in DOMAIN l : LowerByte(l[j]) = l[j]
        PROVE  LowerLabel(l) = l
    <3>1. LowerLabel(l) = [j \in DOMAIN l |-> l[j]]
      BY Zenon, <2>3 DEF LowerLabel
    <3> QED BY <3>1
  <2> QED BY Zenon, <2>1, <2>2, <2>3, LowerType
<1>3. labels = [i \in 1 .. Len(labels) |-> labels[i]]
  OBVIOUS
<1>4. DOMAIN ToLower(labels) = 1 .. Len(labels)
  BY Zenon, <1>1 DEF ToLower
<1>5. ToLower(labels) = [i \in 1 .. Len(labels) |-> ToLower(labels)[i]]
  BY Zenon, <1>1 DEF ToLower
<1> QED BY Zenon, <1>2, <1>3, <1>5

-----------------------------------------------------------------------------
(* A suffix by whole labels. *)
LEMMA SuffixLabels ==
    ASSUME NEW X, NEW s \in Seq(X), NEW t \in Seq(X)
    PROVE  IsSuffix(s, t) <=> /\ Len(s) <= Len(t)
                              /\ \A j \in 1 .. Len(s) : s[j] = t[Len(t) - Len(s) + j]
<1> DEFINE n == Len(t)
           m == Len(s)
<1>1. n \in Nat /\ m \in Nat
  OBVIOUS
<1>2. ASSUME m <= n
      PROVE  /\ Len(SubSeq(t, n - m + 1, n)) = m
             /\ \A j \in 1 .. m : SubSeq(t, n - m + 1, n)[j] = t[n - m + j]
             /\ SubSeq(t, n - m + 1, n) \in Seq(X)
  BY <1>1, <1>2
<1>3. ASSUME NEW u \in Seq(X), Len(u) = m
      PROVE  u = s <=> \A j \in 1 .. m : s[j] = u[j]
  BY <1>1, <1>3
<1> DEFINE u == SubSeq(t, n - m + 1, n)
<1>4. IsSuffix(s, t) <=> m <= n /\ u = s
  BY Zenon DEF IsSuffix
<1> HIDE DEF u
<1>5. ASSUME m <= n PROVE u = s <=> \A j \in 1 .. m : s[j] = t[n - m + j]
  <2>1. u = s <=> \A j \in 1 .. m : s[j] = u[j]
    BY Zenon, <1>2, <1>3, <1>5 DEF u
  <2>2. \A j \in 1 .. m : u[j] = t[n - m + j]
    BY Zenon, <1>2, <1>5 DEF u
  <2> QED BY Zenon, <2>1, <2>2
<1> QED BY Zenon, <1>4, <1>5

-----------------------------------------------------------------------------
(* The n labels of a buffer that start at the offsets o, by their length   *)
(* bytes.                                                                  *)
Chained(buf, n, o) ==
    /\ o \in [1 .. n + 1 -> Nat]
    /\ o[1] = 0
    /\ \A i \in 1 .. n : buf[o[i]] \in Nat \ {0} /\ o[i + 1] = o[i] + 1 + buf[o[i]]

(* Offsets increase. *)
LEMMA Increasing ==
    ASSUME NEW N \in Nat, NEW f \in [1 .. N + 1 -> Nat], \A i \in 1 .. N : f[i] < f[i + 1]
    PROVE  \A k \in 1 .. N + 1 : \A i \in 1 .. k : f[i] <= f[k] /\ (i # k => f[i] < f[k])
<1> DEFINE Q(k) == \A i \in 1 .. k : f[i] <= f[k] /\ (i # k => f[i] < f[k])
           J == {k \in Nat : k \in 1 .. N + 1 => Q(k)}
<1>1. 0 \in J
  OBVIOUS
<1>2. ASSUME NEW k \in Nat, k \in J, k + 1 \in 1 .. N + 1 PROVE Q(k + 1)
  <2>1. CASE k = 0
    BY <1>2, <2>1
  <2>2. CASE k # 0
    <3>1. k \in 1 .. N /\ f[k] < f[k + 1] /\ f[k] \in Nat /\ f[k + 1] \in Nat
      BY <1>2, <2>2
    <3>2. Q(k)
      BY <1>2, <3>1
    <3>3. \A i \in 1 .. k : f[i] \in Nat
      BY <3>1
    <3> QED BY <3>1, <3>2, <3>3
  <2> QED BY <2>1, <2>2
<1>3. \A k \in Nat : k \in J
  <2> HIDE DEF Q
  <2>1. \A k \in Nat : k + 1 \in Nat
    OBVIOUS
  <2>2. \A k \in Nat : k \in J => k + 1 \in J
    BY Zenon, <1>2, <2>1
  <2> HIDE DEF J
  <2> QED BY Zenon, <1>1, <2>2, Induct
<1>4. \A k \in 1 .. N + 1 : k \in Nat
  OBVIOUS
<1> HIDE DEF Q
<1>5. \A k \in 1 .. N + 1 : Q(k)
  BY Zenon, <1>3, <1>4
<1> QED BY Zenon, <1>5 DEF Q

(* Two sequences of offsets agree. *)
Same(N, f, h) == \A i \in 1 .. N : f[i] = h[i]

(* They do if each has the same successors. *)
SameSteps(N, f, h) == f[1] = h[1] /\ \A i \in 1 .. N : f[i] = h[i] => f[i + 1] = h[i + 1]

(* Offsets with the same first one and the same successors agree. *)
LEMMA Align ==
    ASSUME NEW N \in Nat, NEW f, NEW h, SameSteps(N, f, h)
    PROVE  Same(N + 1, f, h)
<1> DEFINE J == {k \in Nat : k \in 1 .. N + 1 => f[k] = h[k]}
<1>1. 0 \in J
  OBVIOUS
<1>2. ASSUME NEW k \in Nat, k \in J, k + 1 \in 1 .. N + 1 PROVE f[k + 1] = h[k + 1]
  <2>1. CASE k = 0
    <3>1. k + 1 = 1
      BY <2>1
    <3> QED BY Zenon, <3>1 DEF SameSteps
  <2>2. CASE k # 0
    <3>1. k \in 1 .. N /\ k \in 1 .. N + 1
      BY <1>2, <2>2
    <3> QED BY Zenon, <1>2, <3>1 DEF SameSteps
  <2> QED BY <2>1, <2>2
<1>3. \A k \in Nat : k \in J
  <2>1. \A k \in Nat : k + 1 \in Nat
    OBVIOUS
  <2>2. \A k \in Nat : k \in J => k + 1 \in J
    BY Zenon, <1>2, <2>1
  <2> HIDE DEF J
  <2> QED BY Zenon, <1>1, <2>2, Induct
<1>4. \A k \in 1 .. N + 1 : k \in Nat
  OBVIOUS
<1> QED BY Zenon, <1>3, <1>4 DEF Same

(* Every label starts after the one before it. *)
LEMMA ChainGrows ==
    ASSUME NEW buf, NEW n \in Nat, NEW o, Chained(buf, n, o)
    PROVE  \A k \in 1 .. n + 1 : \A i \in 1 .. k : o[i] <= o[k] /\ (i # k => o[i] < o[k])
<1>1. o \in [1 .. n + 1 -> Nat]
  BY Zenon DEF Chained
<1>2. \A i \in 1 .. n : o[i] < o[i + 1]
  <2> SUFFICES ASSUME NEW i \in 1 .. n PROVE o[i] < o[i + 1]
    BY Zenon
  <2>1. buf[o[i]] \in Nat /\ o[i + 1] = o[i] + 1 + buf[o[i]]
    BY Zenon DEF Chained
  <2>2. o[i] \in Nat
    BY <1>1
  <2> QED BY <2>1, <2>2
<1> QED BY Zenon, <1>1, <1>2, Increasing

(* The bytes decide where the labels start. *)
LEMMA SameChain ==
    ASSUME NEW buf, NEW n \in Nat, NEW m \in Nat, NEW o, NEW p, n <= m,
           Chained(buf, n, o), Chained(buf, m, p)
    PROVE  Same(n + 1, o, p)
<1>1. \A i \in 1 .. n : i \in 1 .. m
  OBVIOUS
<1>2. \A i \in 1 .. n : o[i] = p[i] => o[i + 1] = p[i + 1]
  <2> SUFFICES ASSUME NEW i \in 1 .. n, o[i] = p[i] PROVE o[i + 1] = p[i + 1]
    BY Zenon
  <2>1. o[i + 1] = o[i] + 1 + buf[o[i]] /\ p[i + 1] = p[i] + 1 + buf[p[i]]
    BY Zenon, <1>1 DEF Chained
  <2> QED BY Zenon, <2>1
<1>3. o[1] = p[1]
  BY Zenon DEF Chained
<1>4. SameSteps(n, o, p)
  BY Zenon, <1>2, <1>3 DEF SameSteps
<1> QED BY Zenon, <1>4, Align

(* Two ways to read a buffer up to a zero byte are the same. *)
LEMMA SameEnd ==
    ASSUME NEW buf, NEW n \in Nat, NEW m \in Nat, NEW o, NEW p,
           Chained(buf, n, o), Chained(buf, m, p), buf[o[n + 1]] = 0, buf[p[m + 1]] = 0
    PROVE  n = m /\ Same(n + 1, o, p)
<1>1. ASSUME NEW n1 \in Nat, NEW m1 \in Nat, NEW o1, NEW p1, n1 < m1,
             Chained(buf, n1, o1), Chained(buf, m1, p1), buf[o1[n1 + 1]] = 0
      PROVE  FALSE
  <2>1. n1 + 1 \in 1 .. n1 + 1 /\ n1 + 1 \in 1 .. m1 /\ n1 <= m1
    BY <1>1
  <2>2. Same(n1 + 1, o1, p1)
    BY Zenon, <1>1, <2>1, SameChain
  <2>3. buf[p1[n1 + 1]] \in Nat \ {0}
    BY Zenon, <1>1, <2>1 DEF Chained
  <2> QED BY Zenon, <1>1, <2>1, <2>2, <2>3 DEF Same
<1>2. ~(n < m) /\ ~(m < n)
  BY <1>1
<1>3. n = m /\ n <= m
  BY <1>2
<1> QED BY Zenon, <1>3, SameChain

-----------------------------------------------------------------------------
(* A label at an offset of a buffer. *)
LabelIn(buf, p, label) ==
    buf[p] = Len(label) /\ \A j \in 1 .. Len(label) : buf[p + j] = label[j]

(* A buffer starts with a name. *)
Spelled(buf, labels, st) ==
    /\ Chained(buf, Len(labels), st)
    /\ \A i \in 1 .. Len(labels) : LabelIn(buf, st[i], labels[i])
    /\ buf[st[Len(labels) + 1]] = 0

(* The names of queries and the patterns of rules. *)
IsName(labels) ==
    /\ labels \in Seq(Seq(Nat))
    /\ labels # <<>>
    /\ \A i \in 1 .. Len(labels) : Len(labels[i]) \in Nat \ {0}

(* A buffer that starts with the wire format of a name spells it. *)
LEMMA WireSpelled ==
    ASSUME NEW labels, IsName(labels), NEW buf,
           \A k \in 0 .. Len(Wire(labels)) - 1 : buf[k] = Wire(labels)[k + 1]
    PROVE  \E st : Spelled(buf, labels, st) /\ Len(Wire(labels)) = st[Len(labels) + 1] + 1
<1> DEFINE n == Len(labels)
           W == Wire(labels)
<1>1. labels \in Seq(Seq(Nat)) /\ labels # <<>> /\ n \in Nat
      /\ \A i \in 1 .. n : labels[i] \in Seq(Nat)
  BY DEF IsName
<1>2. W \in Seq(Nat) /\ Len(W) \in Nat
  BY Zenon, <1>1, WireLaid, LenNat
<1>3. PICK st : Laid(W, labels, st) /\ Len(W) = st[n + 1] + 1
  BY Zenon, <1>1, WireLaid
<1> HIDE DEF W
<1>4. /\ st \in [1 .. n + 1 -> Nat] /\ st[1] = 0
      /\ \A i \in 1 .. n : st[i + 1] = st[i] + 1 + Len(labels[i]) /\ LabelAt(W, st[i], labels[i])
      /\ W[st[n + 1] + 1] = 0
  BY Zenon, <1>3 DEF Laid
<1>5. \A i \in 1 .. n + 1 : st[i] \in Nat
  BY <1>4
<1>6. \A i \in 1 .. n : Len(labels[i]) \in Nat \ {0}
  BY Zenon DEF IsName
<1>7. \A i \in 1 .. n : i \in 1 .. n + 1 /\ i + 1 \in 1 .. n + 1
  BY <1>1
<1>8. n + 1 \in 1 .. n + 1
  BY <1>1
<1>9. \A i \in 1 .. n + 1 : st[i] <= st[n + 1]
  <2>1. \A a, b \in Nat : \A x \in Nat \ {0} : b = a + 1 + x => a < b
    OBVIOUS
  <2>2. \A i \in 1 .. n : st[i] < st[i + 1]
    BY Zenon, <1>4, <1>5, <1>6, <1>7, <2>1
  <2> QED BY Zenon, <1>1, <1>4, <1>8, <2>2, Increasing
<1>10. \A k \in 0 .. st[n + 1] : buf[k] = W[k + 1]
  <2>1. \A e \in Nat : 0 .. (e + 1) - 1 = 0 .. e
    OBVIOUS
  <2>2. 0 .. Len(W) - 1 = 0 .. st[n + 1]
    BY Zenon, <1>3, <1>5, <1>8, <2>1
  <2> QED BY Zenon, <2>2 DEF W
<1>11. ASSUME NEW i \in 1 .. n
       PROVE  /\ LabelIn(buf, st[i], labels[i])
              /\ buf[st[i]] \in Nat \ {0} /\ st[i + 1] = st[i] + 1 + buf[st[i]]
  <2> DEFINE l == labels[i]
             p == st[i]
             e == st[n + 1]
  <2>1. /\ p \in Nat /\ e \in Nat /\ Len(l) \in Nat \ {0} /\ p + 1 + Len(l) <= e
        /\ LabelAt(W, p, l) /\ st[i + 1] = p + 1 + Len(l)
    BY Zenon, <1>4, <1>5, <1>6, <1>7, <1>8, <1>9
  <2> HIDE DEF l, p, e
  <2>2. \A k \in 0 .. e : buf[k] = W[k + 1]
    BY Zenon, <1>10 DEF e
  <2>3. p \in 0 .. e /\ \A j \in 1 .. Len(l) : p + j \in 0 .. e /\ (p + j) + 1 = p + 1 + j
    BY <2>1
  <2>4. buf[p] = Len(l)
    BY Zenon, <2>1, <2>2, <2>3 DEF LabelAt
  <2>5. \A j \in 1 .. Len(l) : buf[p + j] = l[j]
    BY Zenon, <2>1, <2>2, <2>3 DEF LabelAt
  <2>6. LabelIn(buf, p, l)
    BY Zenon, <2>4, <2>5 DEF LabelIn
  <2> QED BY Zenon, <2>1, <2>4, <2>6 DEF l, p
<1>12. Chained(buf, n, st)
  BY Zenon, <1>4, <1>11 DEF Chained
<1>13. buf[st[n + 1]] = 0
  <2>1. st[n + 1] \in 0 .. st[n + 1]
    BY <1>5, <1>8
  <2> QED BY Zenon, <1>4, <1>10, <2>1
<1>14. Spelled(buf, labels, st)
  BY Zenon, <1>11, <1>12, <1>13 DEF Spelled
<1> QED BY Zenon, <1>3, <1>14 DEF W

(* A key that ends in the middle of a name is no pattern's key. *)
LEMMA KeySound ==
    ASSUME NEW K, NEW c \in Nat, NEW h, Chained(K, c, h),
           \A k \in Offsets : k > h[c + 1] => K[k] = 0,
           NEW R, IsName(R), NEW rs, Spelled(K, R, rs), rs[Len(R) + 1] < NameLen,
           K[h[c + 1]] = 0 \/ \A i \in 1 .. Len(R) : R[i][1] # 0
    PROVE  Len(R) = c /\ Same(c + 1, h, rs) /\ K[h[c + 1]] = 0
<1> DEFINE m == Len(R)
<1>1. m \in Nat
  BY DEF IsName
<1>2. Chained(K, m, rs) /\ K[rs[m + 1]] = 0 /\ \A i \in 1 .. m : LabelIn(K, rs[i], R[i])
  BY Zenon DEF Spelled
<1>3. CASE K[h[c + 1]] = 0
  BY Zenon, <1>1, <1>2, <1>3, SameEnd
<1>4. CASE K[h[c + 1]] # 0 /\ m <= c
  <2>1. Same(m + 1, rs, h)
    BY Zenon, <1>1, <1>2, <1>4, SameChain
  <2>2. m + 1 \in 1 .. m + 1 /\ (m = c \/ m + 1 \in 1 .. c)
    BY <1>1, <1>4
  <2>3. K[h[m + 1]] = 0
    BY Zenon, <1>2, <2>1, <2>2 DEF Same
  <2>4. m + 1 \in 1 .. c => K[h[m + 1]] # 0
    BY Zenon DEF Chained
  <2> QED BY Zenon, <1>4, <2>2, <2>3, <2>4
<1>5. CASE K[h[c + 1]] # 0 /\ c < m
  <2>1. c + 1 \in 1 .. c + 1 /\ c + 1 \in 1 .. m /\ c <= m
    BY <1>1, <1>5
  <2>2. h[c + 1] = rs[c + 1]
    <3>1. Same(c + 1, h, rs)
      BY Zenon, <1>1, <1>2, <2>1, SameChain
    <3> QED BY Zenon, <2>1, <3>1 DEF Same
  <2>3. LabelIn(K, rs[c + 1], R[c + 1]) /\ Len(R[c + 1]) \in Nat \ {0} /\ R[c + 1][1] # 0
    BY Zenon, <1>2, <1>5, <2>1 DEF IsName
  <2>4. 1 \in 1 .. Len(R[c + 1])
    BY <2>3
  <2>5. K[rs[c + 1] + 1] # 0
    BY Zenon, <2>3, <2>4 DEF LabelIn
  <2>6. rs \in [1 .. m + 1 -> Nat] /\ rs[(c + 1) + 1] = rs[c + 1] + 1 + K[rs[c + 1]]
        /\ K[rs[c + 1]] \in Nat \ {0}
    BY Zenon, <1>2, <2>1 DEF Chained
  <2>7. m + 1 \in 1 .. m + 1 /\ (c + 1) + 1 \in 1 .. m + 1 /\ c + 1 \in 1 .. m + 1
    BY <1>1, <2>1
  <2>8. rs[(c + 1) + 1] <= rs[m + 1]
    BY Zenon, <1>1, <1>2, <2>7, ChainGrows
  <2>9. rs[c + 1] \in Nat /\ rs[(c + 1) + 1] \in Nat /\ rs[m + 1] \in Nat
    BY Zenon, <2>6, <2>7
  <2>10. rs[c + 1] + 1 \in Offsets /\ rs[c + 1] + 1 > rs[c + 1]
    <3>1. ASSUME NEW a \in Nat, NEW b \in Nat, NEW e \in Nat, NEW x \in Nat \ {0},
                 b = a + 1 + x, b <= e, e < NameLen
          PROVE  a + 1 \in Offsets /\ a + 1 > a
      BY <3>1, NameAssumption DEF Offsets
    <3> QED BY Zenon, <2>6, <2>8, <2>9, <3>1
  <2> QED BY Zenon, <2>2, <2>5, <2>10
<1>6. m <= c \/ c < m
  BY <1>1
<1> QED BY Zenon, <1>3, <1>4, <1>5, <1>6

(* Every byte before the end of a name is in one of its labels. *)
LEMMA Covered ==
    ASSUME NEW n \in Nat, NEW f \in [1 .. n + 1 -> Nat], f[1] = 0, NEW k \in Nat, k < f[n + 1]
    PROVE  \E i \in 1 .. n : f[i] <= k /\ k < f[i + 1]
<1> DEFINE T == {i \in 1 .. n + 1 : k < f[i]}
<1>1. n + 1 \in T /\ T \in SUBSET Nat
  OBVIOUS
<1>2. PICK x \in T : \A y \in T : x <= y
  BY Zenon, <1>1, LeastNat
<1>3. x # 1 /\ x \in 1 .. n + 1 /\ k < f[x]
  BY <1>2
<1>4. x - 1 \in 1 .. n /\ x - 1 \notin T /\ (x - 1) + 1 = x
  BY <1>2, <1>3
<1>5. f[x - 1] <= k
  BY <1>4
<1> QED BY <1>3, <1>4, <1>5

(* Nothing but zeros after an offset. *)
ZerosAfter(K, e) == \A k \in Offsets : k > e => K[k] = 0

(* A name and padding make up the whole key. *)
LEMMA KeyUnique ==
    ASSUME NEW K \in [Offsets -> Nat], NEW P \in [Offsets -> Nat], NEW R, IsName(R),
           NEW h, NEW rs, Spelled(K, R, h), Spelled(P, R, rs),
           ZerosAfter(K, h[Len(R) + 1]), ZerosAfter(P, rs[Len(R) + 1])
    PROVE  K = P
<1> DEFINE m == Len(R)
<1>1. m \in Nat /\ m + 1 \in 1 .. m + 1
  BY DEF IsName
<1>2. Chained(K, m, h) /\ Chained(P, m, rs) /\ K[h[m + 1]] = 0 /\ P[rs[m + 1]] = 0
  BY Zenon DEF Spelled
<1>3. h \in [1 .. m + 1 -> Nat] /\ rs \in [1 .. m + 1 -> Nat] /\ h[1] = 0 /\ rs[1] = 0
  BY Zenon, <1>2 DEF Chained
<1>4. \A i \in 1 .. m : LabelIn(K, h[i], R[i]) /\ LabelIn(P, rs[i], R[i])
  BY Zenon DEF Spelled
<1>5. \A i \in 1 .. m : /\ h[i + 1] = h[i] + 1 + Len(R[i])
                        /\ rs[i + 1] = rs[i] + 1 + Len(R[i])
  <2> SUFFICES ASSUME NEW i \in 1 .. m
               PROVE  /\ h[i + 1] = h[i] + 1 + Len(R[i])
                      /\ rs[i + 1] = rs[i] + 1 + Len(R[i])
    BY Zenon
  <2>1. K[h[i]] = Len(R[i]) /\ P[rs[i]] = Len(R[i])
    BY Zenon, <1>4 DEF LabelIn
  <2>2. h[i + 1] = h[i] + 1 + K[h[i]] /\ rs[i + 1] = rs[i] + 1 + P[rs[i]]
    BY Zenon, <1>2 DEF Chained
  <2> QED BY Zenon, <2>1, <2>2
<1>6. Same(m + 1, h, rs)
  <2>1. ASSUME NEW i \in 1 .. m, h[i] = rs[i] PROVE h[i + 1] = rs[i + 1]
    BY Zenon, <1>5, <2>1
  <2>2. SameSteps(m, h, rs)
    BY Zenon, <1>3, <2>1 DEF SameSteps
  <2> QED BY Zenon, <1>1, <2>2, Align
<1>7. h[m + 1] = rs[m + 1] /\ h[m + 1] \in Nat
  BY Zenon, <1>1, <1>3, <1>6 DEF Same
<1>8. ASSUME NEW k \in Offsets PROVE K[k] = P[k]
  <2>1. k \in Nat
    BY NameAssumption DEF Offsets
  <2>2. CASE k > h[m + 1]
    BY Zenon, <1>7, <2>2 DEF ZerosAfter
  <2>3. CASE k = h[m + 1]
    BY Zenon, <1>2, <1>7, <2>3
  <2>4. CASE k < h[m + 1]
    <3>1. PICK i \in 1 .. m : h[i] <= k /\ k < h[i + 1]
      BY Zenon, <1>1, <1>3, <2>1, <2>4, Covered
    <3>2. i \in 1 .. m + 1
      BY <1>1
    <3>3. h[i] = rs[i] /\ h[i] \in Nat
      BY Zenon, <1>3, <1>6, <3>2 DEF Same
    <3>4. Len(R[i]) \in Nat /\ h[i + 1] = h[i] + 1 + Len(R[i])
      BY Zenon, <1>5 DEF IsName
    <3>5. k = h[i] \/ (k - h[i] \in 1 .. Len(R[i]) /\ h[i] + (k - h[i]) = k)
      <4>1. ASSUME NEW a \in Nat, NEW b, NEW x \in Nat, b = a + 1 + x, a <= k, k < b
            PROVE  k = a \/ (k - a \in 1 .. x /\ a + (k - a) = k)
        BY <2>1, <4>1
      <4> QED BY Zenon, <3>1, <3>3, <3>4, <4>1
    <3>6. LabelIn(K, h[i], R[i]) /\ LabelIn(P, h[i], R[i])
      BY Zenon, <1>4, <3>3
    <3> QED BY Zenon, <3>5, <3>6 DEF LabelIn
  <2>5. k > h[m + 1] \/ k = h[m + 1] \/ k < h[m + 1]
    BY <1>7, <2>1
  <2> QED BY Zenon, <2>2, <2>3, <2>4, <2>5
<1> QED BY <1>8

-----------------------------------------------------------------------------
(* The part of a buffer that the matching loop copies: from a label to the *)
(* end of the name.                                                        *)
IsCopy(K, q, from, end) ==
    /\ K \in [Offsets -> Nat]
    /\ \A k \in Offsets : K[k] = IF k < end + 1 - from THEN q[(from + k) % NameLen] ELSE 0

Rest(o, c, t) == [i \in 1 .. (c + 1 - t) + 1 |-> o[t + i - 1] - o[t]]

(* The mask of the copy loop has no effect on a name that fits. *)
LEMMA CopyReads ==
    ASSUME NEW K, NEW q, NEW from \in Nat, NEW end \in Nat, from <= end, end < NameLen,
           IsCopy(K, q, from, end)
    PROVE  /\ \A x \in from .. end : K[x - from] = q[x]
           /\ ZerosAfter(K, end - from)
<1>1. ASSUME NEW x \in from .. end PROVE K[x - from] = q[x]
  <2>1. x - from \in Offsets /\ x - from < end + 1 - from /\ from + (x - from) = x
    BY NameAssumption DEF Offsets
  <2>2. x % NameLen = x
    BY NameAssumption
  <2> QED BY Zenon, <2>1, <2>2 DEF IsCopy
<1>2. ASSUME NEW k \in Offsets, k > end - from PROVE K[k] = 0
  <2>1. ~(k < end + 1 - from)
    BY <1>2, NameAssumption DEF Offsets
  <2> QED BY Zenon, <2>1 DEF IsCopy
<1> QED BY Zenon, <1>1, <1>2 DEF ZerosAfter

IsSuffixCopy(K, q, c, o, t) ==
    /\ c \in Nat /\ Chained(q, c, o) /\ o[c + 1] < NameLen
    /\ t \in 1 .. c
    /\ IsCopy(K, q, o[t], o[c + 1])

(* It is chained like the end of what it was copied from, and padded. *)
ChainedCopy(K, q, c, o, t) ==
    /\ Chained(K, c + 1 - t, Rest(o, c, t))
    /\ \A i \in 1 .. (c + 1 - t) + 1 : /\ Rest(o, c, t)[i] = o[t + i - 1] - o[t]
                                       /\ K[Rest(o, c, t)[i]] = q[o[t + i - 1]]
    /\ Rest(o, c, t)[(c + 1 - t) + 1] = o[c + 1] - o[t]
    /\ \A x \in o[t] .. o[c + 1] : K[x - o[t]] = q[x]
    /\ ZerosAfter(K, o[c + 1] - o[t])

(* CopiedSuffix is read by its length bytes like the query it is from. *)
LEMMA CopyChained ==
    ASSUME NEW q, NEW c, NEW o, NEW t, NEW K, IsSuffixCopy(K, q, c, o, t)
    PROVE  ChainedCopy(K, q, c, o, t)
<1>0. /\ c \in Nat /\ Chained(q, c, o) /\ o[c + 1] < NameLen
      /\ t \in 1 .. c /\ IsCopy(K, q, o[t], o[c + 1])
  BY Zenon DEF IsSuffixCopy
<1> DEFINE m == c + 1 - t
           h == Rest(o, c, t)
<1>1. /\ o \in [1 .. c + 1 -> Nat] /\ m \in Nat /\ t \in 1 .. c + 1 /\ c + 1 \in 1 .. c + 1
      /\ \A i \in 1 .. m + 1 : t + i - 1 \in 1 .. c + 1 /\ t \in 1 .. (t + i - 1)
      /\ \A i \in 1 .. m : /\ t + i - 1 \in 1 .. c /\ t + (i + 1) - 1 = (t + i - 1) + 1
                           /\ i \in 1 .. m + 1 /\ i + 1 \in 1 .. m + 1
      /\ 1 \in 1 .. m + 1 /\ t + 1 - 1 = t /\ m + 1 \in 1 .. m + 1 /\ t + (m + 1) - 1 = c + 1
  <2>1. o \in [1 .. c + 1 -> Nat]
    BY Zenon, <1>0 DEF Chained
  <2> QED BY <1>0, <2>1
<1>2. \A i \in 1 .. m + 1 : /\ o[t + i - 1] \in Nat /\ o[t] <= o[t + i - 1]
                            /\ o[t + i - 1] <= o[c + 1]
  <2> SUFFICES ASSUME NEW i \in 1 .. m + 1
               PROVE  /\ o[t + i - 1] \in Nat /\ o[t] <= o[t + i - 1]
                      /\ o[t + i - 1] <= o[c + 1]
    BY Zenon
  <2>1. t + i - 1 \in 1 .. c + 1 /\ t \in 1 .. (t + i - 1)
    BY Zenon, <1>1
  <2> QED BY Zenon, <1>0, <1>1, <2>1, ChainGrows
<1>3. o[t] \in Nat /\ o[c + 1] \in Nat /\ o[t] <= o[c + 1]
  BY Zenon, <1>1, <1>2
<1>4. /\ \A x \in o[t] .. o[c + 1] : K[x - o[t]] = q[x]
      /\ ZerosAfter(K, o[c + 1] - o[t])
  BY Zenon, <1>0, <1>3, CopyReads
<1>5. \A i \in 1 .. m + 1 : h[i] = o[t + i - 1] - o[t]
  BY Zenon DEF Rest
<1>6. ASSUME NEW i \in 1 .. m + 1 PROVE h[i] \in Nat /\ K[h[i]] = q[o[t + i - 1]]
  <2>1. o[t + i - 1] \in o[t] .. o[c + 1] /\ o[t + i - 1] - o[t] \in Nat
    BY <1>2, <1>3
  <2> QED BY Zenon, <1>4, <1>5, <2>1
<1>7. h \in [1 .. m + 1 -> Nat]
  BY Zenon, <1>5, <1>6 DEF Rest
<1>8. h[1] = 0
  <2>1. h[1] = o[t] - o[t]
    BY Zenon, <1>1, <1>5
  <2> QED BY <1>3, <2>1
<1>9. ASSUME NEW i \in 1 .. m PROVE K[h[i]] \in Nat \ {0} /\ h[i + 1] = h[i] + 1 + K[h[i]]
  <2> DEFINE j == t + i - 1
  <2>1. j \in 1 .. c /\ h[i] = o[j] - o[t] /\ h[i + 1] = o[j + 1] - o[t] /\ K[h[i]] = q[o[j]]
    BY Zenon, <1>1, <1>5, <1>6
  <2>2. o[j] \in Nat
    BY Zenon, <1>1, <1>2
  <2> HIDE DEF j
  <2>3. q[o[j]] \in Nat \ {0} /\ o[j + 1] = o[j] + 1 + q[o[j]]
    BY Zenon, <1>0, <2>1 DEF Chained
  <2>4. ASSUME NEW a \in Nat, NEW b \in Nat, NEW x \in Nat PROVE (a + 1 + x) - b = (a - b) + 1 + x
    OBVIOUS
  <2>5. (o[j] + 1 + q[o[j]]) - o[t] = (o[j] - o[t]) + 1 + q[o[j]]
    BY Zenon, <1>3, <2>2, <2>3, <2>4
  <2> QED BY Zenon, <2>1, <2>3, <2>5
<1>10. Chained(K, m, h)
  BY Zenon, <1>7, <1>8, <1>9 DEF Chained
<1>11. h[m + 1] = o[c + 1] - o[t]
  BY Zenon, <1>1, <1>5
<1> QED BY Zenon, <1>4, <1>5, <1>6, <1>10, <1>11 DEF ChainedCopy

-----------------------------------------------------------------------------
(* The keys of the rules. *)
LEMMA LowerName ==
    ASSUME NEW labels, IsName(labels)
    PROVE  /\ IsName(ToLower(labels)) /\ Len(ToLower(labels)) = Len(labels)
           /\ \A i \in 1 .. Len(labels) : /\ Len(ToLower(labels)[i]) = Len(labels[i])
                                          /\ LowerLabel(ToLower(labels)[i]) = ToLower(labels)[i]
                                          /\ ToLower(labels)[i] = LowerLabel(labels[i])
<1>1. labels \in Seq(Seq(Nat)) /\ \A i \in 1 .. Len(labels) : labels[i] \in Seq(Nat)
  BY DEF IsName
<1>2. /\ ToLower(labels) \in Seq(Seq(Nat)) /\ Len(ToLower(labels)) = Len(labels)
      /\ \A i \in 1 .. Len(labels) : ToLower(labels)[i] = LowerLabel(labels[i])
  BY Zenon, <1>1, LowerType
<1>3. \A i \in 1 .. Len(labels) : /\ Len(ToLower(labels)[i]) = Len(labels[i])
                                  /\ LowerLabel(ToLower(labels)[i]) = ToLower(labels)[i]
  BY Zenon, <1>1, <1>2, LowerLabelType
<1>4. \A s \in Seq(Seq(Nat)) : s # <<>> <=> Len(s) # 0
  OBVIOUS
<1>5. ToLower(labels) # <<>>
  BY Zenon, <1>1, <1>2, <1>4 DEF IsName
<1>6. IsName(ToLower(labels))
  BY Zenon, <1>2, <1>3, <1>5 DEF IsName
<1> QED BY Zenon, <1>2, <1>3, <1>6

(* Lower case is as long as upper case. *)
LEMMA LowerWire ==
    ASSUME NEW labels, IsName(labels)
    PROVE  Len(Wire(ToLower(labels))) = Len(Wire(labels))
<1> DEFINE n == Len(labels)
           low == ToLower(labels)
<1>1. n \in Nat /\ n + 1 \in 1 .. n + 1 /\ labels \in Seq(Seq(Nat)) /\ labels # <<>>
  BY DEF IsName
<1>2. /\ low \in Seq(Seq(Nat)) /\ low # <<>> /\ Len(low) = n
      /\ \A i \in 1 .. n : Len(low[i]) = Len(labels[i])
  BY Zenon, LowerName DEF IsName
<1> HIDE DEF low
<1>3. PICK s : Laid(Wire(labels), labels, s) /\ Len(Wire(labels)) = s[n + 1] + 1
  BY Zenon, <1>1, WireLaid
<1>4. PICK r : Laid(Wire(low), low, r) /\ Len(Wire(low)) = r[n + 1] + 1
  BY Zenon, <1>2, WireLaid
<1>5. s[1] = r[1]
  BY Zenon, <1>3, <1>4 DEF Laid
<1>6. ASSUME NEW i \in 1 .. n, s[i] = r[i] PROVE s[i + 1] = r[i + 1]
  <2>1. s[i + 1] = s[i] + 1 + Len(labels[i])
    BY Zenon, <1>3 DEF Laid
  <2>2. r[i + 1] = r[i] + 1 + Len(low[i])
    BY Zenon, <1>2, <1>4 DEF Laid
  <2> QED BY Zenon, <1>2, <1>6, <2>1, <2>2
<1>7. SameSteps(n, s, r)
  BY Zenon, <1>5, <1>6 DEF SameSteps
<1>8. Same(n + 1, s, r)
  BY Zenon, <1>1, <1>7, Align
<1>9. s[n + 1] = r[n + 1]
  BY Zenon, <1>1, <1>8 DEF Same
<1> QED BY Zenon, <1>3, <1>4, <1>9 DEF low

(* EncodeSuffix spells the pattern in lower case and pads it. *)
IsKeyOf(K, R, rs) ==
    /\ K \in [Offsets -> Nat]
    /\ Spelled(K, R, rs)
    /\ rs[Len(R) + 1] < NameLen
    /\ ZerosAfter(K, rs[Len(R) + 1])

(* Every pattern that fits has a key of this form. *)
LEMMA KeySpelled ==
    ASSUME NEW labels, IsName(labels), Len(Wire(labels)) <= NameLen
    PROVE  \E rs : IsKeyOf(EncodeSuffix(labels), ToLower(labels), rs)
<1> DEFINE R == ToLower(labels)
           W == Wire(R)
           K == EncodeSuffix(labels)
<1>1. IsName(R) /\ R \in Seq(Seq(Nat)) /\ R # <<>>
  BY Zenon, LowerName DEF IsName
<1>2. W \in Seq(Nat) /\ Len(W) <= NameLen /\ Len(W) \in Nat
  BY Zenon, <1>1, LowerWire, WireLaid, LenNat
<1>3. K = [k \in Offsets |-> IF k < Len(W) THEN W[k + 1] ELSE 0]
  BY Zenon DEF EncodeSuffix, Padded
<1> HIDE DEF W, K
<1>4. K \in [Offsets -> Nat]
  BY <1>2, <1>3, NameAssumption DEF Offsets
<1>5. /\ \A k \in 0 .. Len(W) - 1 : K[k] = W[k + 1]
      /\ \A k \in Offsets : k >= Len(W) => K[k] = 0
  <2>1. /\ \A k \in 0 .. Len(W) - 1 : k \in Offsets /\ k < Len(W)
        /\ \A k \in Offsets : k >= Len(W) => ~ (k < Len(W))
    BY <1>2, NameAssumption DEF Offsets
  <2> QED BY Zenon, <1>3, <2>1
<1>6. PICK rs : Spelled(K, R, rs) /\ Len(W) = rs[Len(R) + 1] + 1
  BY Zenon, <1>1, <1>5, WireSpelled DEF W
<1>7. rs[Len(R) + 1] \in Nat
  <2>1. Len(R) \in Nat /\ Len(R) + 1 \in 1 .. Len(R) + 1
    BY <1>1
  <2>2. rs \in [1 .. Len(R) + 1 -> Nat]
    BY Zenon, <1>6 DEF Spelled, Chained
  <2> QED BY Zenon, <2>1, <2>2
<1>8. rs[Len(R) + 1] < NameLen /\ \A k \in Offsets : k > rs[Len(R) + 1] => k >= Len(W)
  BY <1>2, <1>6, <1>7, NameAssumption DEF Offsets
<1>9. IsKeyOf(K, R, rs)
  BY Zenon, <1>4, <1>5, <1>6, <1>8 DEF IsKeyOf, ZerosAfter
<1> QED BY Zenon, <1>9 DEF K

-----------------------------------------------------------------------------
(* The copy holds the labels from the one it starts at. *)
LEMMA CopyLabels ==
    ASSUME NEW q, NEW c, NEW o, NEW t, NEW K, IsSuffixCopy(K, q, c, o, t),
           NEW i \in 1 .. c + 1 - t, NEW l \in Seq(Nat)
    PROVE  LabelIn(K, Rest(o, c, t)[i], l) <=> LabelIn(q, o[t + i - 1], l)
<1> DEFINE h == Rest(o, c, t)
           p == o[t + i - 1]
<1>0. c \in Nat /\ t \in 1 .. c /\ Chained(q, c, o)
  BY Zenon DEF IsSuffixCopy
<1>1. /\ i \in 1 .. (c + 1 - t) + 1 /\ t + i - 1 \in 1 .. c /\ t + i - 1 \in 1 .. c + 1
      /\ t \in 1 .. t + i - 1 /\ (t + i - 1) + 1 \in 1 .. c + 1 /\ c + 1 \in 1 .. c + 1
      /\ t \in 1 .. c + 1
  BY <1>0
<1>2. /\ h[i] = p - o[t] /\ K[h[i]] = q[p]
      /\ \A x \in o[t] .. o[c + 1] : K[x - o[t]] = q[x]
  <2>1. ChainedCopy(K, q, c, o, t)
    BY Zenon, CopyChained
  <2> QED BY Zenon, <1>1, <2>1 DEF ChainedCopy
<1>3. /\ o \in [1 .. c + 1 -> Nat]
      /\ q[p] \in Nat \ {0} /\ o[(t + i - 1) + 1] = p + 1 + q[p]
  BY Zenon, <1>0, <1>1 DEF Chained
<1>4. o[t] <= p /\ o[(t + i - 1) + 1] <= o[c + 1]
  BY Zenon, <1>0, <1>1, ChainGrows
<1>5. p \in Nat /\ o[t] \in Nat /\ o[c + 1] \in Nat
  BY Zenon, <1>1, <1>3
<1> HIDE DEF h, p
<1>6. ASSUME q[p] = Len(l), NEW j \in 1 .. Len(l) PROVE K[h[i] + j] = q[p + j]
  <2>1. ASSUME NEW a \in Nat, NEW b \in Nat, NEW e \in Nat, NEW x \in Nat, b <= a,
               a + 1 + x <= e, NEW y \in 1 .. x
        PROVE  a + y \in b .. e /\ (a - b) + y = (a + y) - b
    BY <2>1
  <2>2. Len(l) \in Nat /\ p + 1 + Len(l) <= o[c + 1]
    BY Zenon, <1>3, <1>4, <1>6, LenNat
  <2>3. p + j \in o[t] .. o[c + 1] /\ (p - o[t]) + j = (p + j) - o[t]
    BY SMTT(30), <1>4, <1>5, <2>1, <2>2
  <2> QED BY Zenon, <1>2, <2>3
<1>7. LabelIn(K, h[i], l) <=> LabelIn(q, p, l)
  BY Zenon, <1>2, <1>6 DEF LabelIn
<1> QED BY Zenon, <1>7 DEF h, p

(* Nothing but a zero byte ends a name, unless no pattern has one. *)
EndsOrNoNul(q, c, o, R) == q[o[c + 1]] = 0 \/ \A i \in 1 .. Len(R) : R[i][1] # 0

(* A pattern spells the last labels, up to the end of the name. *)
SpellsRest(q, c, o, t, R) ==
    /\ q[o[c + 1]] = 0
    /\ Len(R) = c + 1 - t
    /\ \A i \in 1 .. Len(R) : LabelIn(q, o[t + i - 1], R[i])

(* A key that is a pattern's is that of the last labels of the name. *)
LEMMA HitSound ==
    ASSUME NEW q, NEW c, NEW o, NEW t, NEW K, IsSuffixCopy(K, q, c, o, t), NEW R, IsName(R),
           NEW rs, IsKeyOf(K, R, rs), EndsOrNoNul(q, c, o, R)
    PROVE  SpellsRest(q, c, o, t, R)
<1>0. c \in Nat /\ t \in 1 .. c /\ Chained(q, c, o)
  BY Zenon DEF IsSuffixCopy
<1> DEFINE h == Rest(o, c, t)
           m == c + 1 - t
<1>1. /\ m \in Nat /\ m + 1 \in 1 .. m + 1 /\ t + (m + 1) - 1 = c + 1
      /\ \A i \in 1 .. m : i \in 1 .. m + 1
  BY <1>0
<1>2. /\ Chained(K, m, h) /\ h[m + 1] = o[c + 1] - o[t]
      /\ K[h[m + 1]] = q[o[c + 1]]
      /\ ZerosAfter(K, o[c + 1] - o[t])
  <2>1. ChainedCopy(K, q, c, o, t)
    BY Zenon, CopyChained
  <2> QED BY Zenon, <1>1, <2>1 DEF ChainedCopy
<1> HIDE DEF h
<1>3. Spelled(K, R, rs) /\ rs[Len(R) + 1] < NameLen
  BY Zenon DEF IsKeyOf
<1>4. \A k \in Offsets : k > h[m + 1] => K[k] = 0
  BY Zenon, <1>2 DEF ZerosAfter
<1>5. Len(R) = m /\ Same(m + 1, h, rs) /\ K[h[m + 1]] = 0
  <2> HIDE DEF m
  <2>1. K[h[m + 1]] = 0 \/ \A i \in 1 .. Len(R) : R[i][1] # 0
    BY Zenon, <1>2 DEF EndsOrNoNul
  <2> QED BY Zenon, <1>1, <1>2, <1>3, <1>4, <2>1, KeySound
<1>6. ASSUME NEW i \in 1 .. Len(R) PROVE LabelIn(q, o[t + i - 1], R[i])
  <2>1. i \in 1 .. m /\ h[i] = rs[i] /\ R[i] \in Seq(Nat)
    <3>1. R[i] \in Seq(Nat)
      BY DEF IsName
    <3> QED BY Zenon, <1>1, <1>5, <3>1 DEF Same
  <2>2. LabelIn(K, h[i], R[i])
    BY Zenon, <1>3, <2>1 DEF Spelled
  <2> QED BY Zenon, <2>1, <2>2, CopyLabels DEF h
<1> QED BY Zenon, <1>2, <1>5, <1>6 DEF SpellsRest

(* One label at most is at an offset. *)
LEMMA LabelUnique ==
    ASSUME NEW q, NEW p, NEW a \in Seq(Nat), NEW b \in Seq(Nat), LabelIn(q, p, a), LabelIn(q, p, b)
    PROVE  a = b
<1>1. Len(a) = Len(b) /\ \A j \in 1 .. Len(a) : a[j] = b[j]
  BY Zenon DEF LabelIn
<1>2. \A x \in Seq(Nat) : x = [j \in 1 .. Len(x) |-> x[j]]
  OBVIOUS
<1>3. a = [j \in 1 .. Len(a) |-> a[j]] /\ b = [j \in 1 .. Len(a) |-> b[j]]
  BY Zenon, <1>1, <1>2
<1>4. [j \in 1 .. Len(a) |-> a[j]] = [j \in 1 .. Len(a) |-> b[j]]
  BY Zenon, <1>1
<1> QED BY Zenon, <1>3, <1>4

(* The labels of a pattern are those of a name from label t on. *)
EndsFrom(name, R, c, t) ==
    /\ Len(name) = c /\ Len(R) = c + 1 - t
    /\ \A i \in 1 .. Len(R) : R[i] = name[c - Len(R) + i]

(* A rule that is hit is a suffix of the name. *)
LEMMA HitMatches ==
    ASSUME NEW q, NEW c, NEW o, NEW t, NEW K, IsSuffixCopy(K, q, c, o, t), NEW R, IsName(R),
           NEW rs, IsKeyOf(K, R, rs), EndsOrNoNul(q, c, o, R),
           NEW name, IsName(name), NEW st, Spelled(q, name, st)
    PROVE  EndsFrom(name, R, c, t)
<1>0. c \in Nat /\ t \in 1 .. c /\ Chained(q, c, o)
  BY Zenon DEF IsSuffixCopy
<1>1. /\ q[o[c + 1]] = 0 /\ Len(R) = c + 1 - t
      /\ \A i \in 1 .. Len(R) : LabelIn(q, o[t + i - 1], R[i])
  <2>1. SpellsRest(q, c, o, t, R)
    BY Zenon, HitSound
  <2> QED BY Zenon, <2>1 DEF SpellsRest
<1>2. Len(name) \in Nat
  BY DEF IsName
<1>3. c = Len(name) /\ Same(c + 1, o, st)
  BY Zenon, <1>0, <1>1, <1>2, SameEnd DEF Spelled
<1>4. ASSUME NEW i \in 1 .. Len(R) PROVE R[i] = name[c - Len(R) + i]
  <2>1. /\ t + i - 1 \in 1 .. c /\ t + i - 1 \in 1 .. c + 1 /\ c - Len(R) + i = t + i - 1
    BY <1>0, <1>1
  <2>2. LabelIn(q, o[t + i - 1], name[t + i - 1])
    BY Zenon, <1>3, <2>1 DEF Spelled, Same
  <2>3. R[i] \in Seq(Nat)
    BY DEF IsName
  <2>4. name[t + i - 1] \in Seq(Nat)
    BY <1>3, <2>1 DEF IsName
  <2>5. LabelIn(q, o[t + i - 1], R[i])
    BY Zenon, <1>1
  <2>6. R[i] = name[t + i - 1]
    BY Zenon, <2>2, <2>3, <2>4, <2>5, LabelUnique
  <2> QED BY Zenon, <2>1, <2>6
<1> QED BY Zenon, <1>1, <1>3, <1>4 DEF EndsFrom

(* The labels of a pattern are the last ones of a name. *)
EndsWith(name, R) ==
    Len(R) <= Len(name) /\ \A i \in 1 .. Len(R) : R[i] = name[Len(name) - Len(R) + i]

(* A copy of as many labels of a name. *)
CopyOfLast(K, q, name, st, R) ==
    /\ st[Len(name) + 1] < NameLen
    /\ IsCopy(K, q, st[Len(name) + 1 - Len(R)], st[Len(name) + 1])

(* The key of a rule that is a suffix of the name is looked up. *)
LEMMA MatchHits ==
    ASSUME NEW q, NEW name, IsName(name), NEW st, Spelled(q, name, st), NEW R, IsName(R),
           EndsWith(name, R), NEW P, NEW rs, IsKeyOf(P, R, rs), NEW K, CopyOfLast(K, q, name, st, R)
    PROVE  K = P
<1> DEFINE n == Len(name)
           m == Len(R)
           t == n + 1 - m
           h == Rest(st, n, t)
<1>1. n \in Nat /\ m \in Nat /\ m >= 1
  BY DEF IsName
<1>a. m <= n /\ \A i \in 1 .. m : R[i] = name[n - m + i]
  BY Zenon DEF EndsWith
<1>b. st[n + 1] < NameLen /\ IsCopy(K, q, st[n + 1 - m], st[n + 1])
  BY Zenon DEF CopyOfLast
<1>2. /\ t \in 1 .. n /\ n + 1 - t = m /\ m + 1 \in 1 .. m + 1 /\ t + (m + 1) - 1 = n + 1
      /\ \A i \in 1 .. m : n - m + i = t + i - 1 /\ t + i - 1 \in 1 .. n
  BY <1>1, <1>a
<1>3. Chained(q, n, st) /\ q[st[n + 1]] = 0 /\ \A i \in 1 .. n : LabelIn(q, st[i], name[i])
  BY Zenon DEF Spelled
<1> HIDE DEF t, h
<1>4. IsSuffixCopy(K, q, n, st, t)
  BY Zenon, <1>1, <1>2, <1>3, <1>b DEF t, IsSuffixCopy
<1>5. /\ Chained(K, n + 1 - t, h)
      /\ \A i \in 1 .. (n + 1 - t) + 1 : K[h[i]] = q[st[t + i - 1]]
      /\ h[(n + 1 - t) + 1] = st[n + 1] - st[t]
      /\ ZerosAfter(K, st[n + 1] - st[t])
  <2>1. ChainedCopy(K, q, n, st, t)
    BY Zenon, <1>4, CopyChained
  <2> QED BY Zenon, <2>1 DEF h, ChainedCopy
<1>6. Chained(K, m, h) /\ K[h[m + 1]] = 0 /\ ZerosAfter(K, h[m + 1])
  BY Zenon, <1>2, <1>3, <1>5
<1>7. ASSUME NEW i \in 1 .. m PROVE LabelIn(K, h[i], R[i])
  <2>1. LabelIn(q, st[t + i - 1], R[i])
    BY Zenon, <1>2, <1>3, <1>a
  <2>2. R[i] \in Seq(Nat)
    BY DEF IsName
  <2>3. i \in 1 .. n + 1 - t
    BY Zenon, <1>2
  <2> QED BY Zenon, <1>4, <2>1, <2>2, <2>3, CopyLabels DEF h
<1>8. Spelled(K, R, h)
  BY Zenon, <1>6, <1>7 DEF Spelled
<1>9. /\ K \in [Offsets -> Nat] /\ P \in [Offsets -> Nat] /\ Spelled(P, R, rs)
      /\ ZerosAfter(P, rs[m + 1])
  BY Zenon, <1>b DEF IsCopy, IsKeyOf
<1> QED BY Zenon, <1>6, <1>8, <1>9, KeyUnique

-----------------------------------------------------------------------------
(* The labels of a name are sequences of bytes. *)
LEMMA LabelsIn == \A labels \in Seq(Seq(Nat)) : \A i \in 1 .. Len(labels) : labels[i] \in Seq(Nat)
  OBVIOUS

(* The rules of a configuration that PopulateSuffixRules accepts. *)
Configured(R) == R \in RuleSets /\ Accepted(R)

(* The key of a rule. *)
HasKey(labels) ==
    /\ IsName(labels) /\ IsName(ToLower(labels))
    /\ \E rs : IsKeyOf(EncodeSuffix(labels), ToLower(labels), rs)

(* Every rule of an accepted configuration has a key. *)
LEMMA RuleKey ==
    ASSUME NEW R, Configured(R), NEW r \in R
    PROVE  HasKey(r.labels)
<1>1. r.labels \in Seq(Seq(Nat))
  BY Zenon, RuleAssumption, LabelsNat DEF Configured
<1>2. Encodable(r.labels)
  BY Zenon DEF Configured, Accepted
<1>3. ASSUME NEW l \in Seq(Seq(Nat)) PROVE DOMAIN l = 1 .. Len(l)
  BY <1>3
<1>4. \A x \in 1 .. MaxLabelLen : x \in Nat \ {0}
  BY NameAssumption
<1>5. IsName(r.labels)
  BY Zenon, <1>1, <1>2, <1>3, <1>4 DEF Encodable, IsName
<1>6. Len(Wire(r.labels)) <= NameLen
  BY Zenon, <1>2 DEF Encodable
<1>7. \E rs : IsKeyOf(EncodeSuffix(r.labels), ToLower(r.labels), rs)
  BY Zenon, <1>5, <1>6, KeySpelled
<1>8. IsName(ToLower(r.labels))
  BY Zenon, <1>5, LowerName
<1> QED BY Zenon, <1>5, <1>7, <1>8 DEF HasKey

(* No label of a pattern starts with a zero byte. *)
LEMMA RuleBytes ==
    ASSUME NEW R, Configured(R), NEW r \in R
    PROVE  \A i \in 1 .. Len(ToLower(r.labels)) : ToLower(r.labels)[i][1] # 0
<1> DEFINE l == r.labels
<1>1. IsName(l)
  BY Zenon, RuleKey DEF HasKey
<1>2. l \in Seq(Seq(Nat)) /\ DOMAIN l = 1 .. Len(l)
  BY <1>1 DEF IsName
<1>3. \A i \in 1 .. Len(l) : NoZero(l[i])
  BY Zenon, <1>2, PatternAssumption DEF Configured, NoZero
<1> HIDE DEF l
<1>4. /\ Len(ToLower(l)) = Len(l)
      /\ \A i \in 1 .. Len(l) : ToLower(l)[i] = LowerLabel(l[i])
  BY Zenon, <1>2, LowerType
<1>5. ASSUME NEW i \in 1 .. Len(l) PROVE ToLower(l)[i][1] # 0
  <2>1. l[i] \in Seq(Nat) /\ Len(l[i]) \in Nat \ {0}
    BY Zenon, <1>1, <1>2, LabelsIn DEF IsName
  <2>2. /\ LowerLabel(l[i]) \in Seq(Nat) /\ Len(LowerLabel(l[i])) = Len(l[i])
        /\ NoZero(LowerLabel(l[i]))
    BY Zenon, <1>3, <2>1, LowerLabelType
  <2>3. ASSUME NEW x \in Seq(Nat), Len(x) \in Nat \ {0}, NoZero(x) PROVE x[1] # 0
    BY <2>3 DEF NoZero
  <2>4. LowerLabel(l[i])[1] # 0
    BY Zenon, <2>1, <2>2, <2>3
  <2> QED BY Zenon, <1>4, <2>4
<1>6. \A i \in 1 .. Len(ToLower(l)) : ToLower(l)[i][1] # 0
  BY Zenon, <1>4, <1>5
<1> QED BY Zenon, <1>6 DEF l

(* What suffix_rules holds. *)
LEMMA RuleLookup ==
    ASSUME NEW R, Configured(R)
    PROVE  /\ \A r \in R : /\ EncodeSuffix(r.labels) \in DOMAIN SuffixRules(R)
                           /\ SuffixRules(R)[EncodeSuffix(r.labels)] = r.action
           /\ \A key \in DOMAIN SuffixRules(R) : \E r \in R : EncodeSuffix(r.labels) = key
<1> DEFINE Keys == {EncodeSuffix(r.labels) : r \in R}
           Act(key) == (CHOOSE r \in R : EncodeSuffix(r.labels) = key).action
<1>1. SuffixRules(R) = [key \in Keys |-> Act(key)]
  BY Zenon DEF SuffixRules
<1>2. \A r \in R : EncodeSuffix(r.labels) \in Keys
  BY Zenon
<1>3. \A key \in Keys : \E r \in R : EncodeSuffix(r.labels) = key
  BY Zenon
<1>4. ASSUME NEW r \in R PROVE Act(EncodeSuffix(r.labels)) = r.action
  <2> DEFINE x == CHOOSE x \in R : EncodeSuffix(x.labels) = EncodeSuffix(r.labels)
  <2>1. x \in R /\ EncodeSuffix(x.labels) = EncodeSuffix(r.labels)
    BY Zenon
  <2>2. x.action = r.action
    BY Zenon, <2>1 DEF Configured, Accepted
  <2> QED BY Zenon, <2>2
<1> HIDE DEF Keys, Act
<1>5. DOMAIN SuffixRules(R) = Keys /\ \A key \in Keys : SuffixRules(R)[key] = Act(key)
  BY Zenon, <1>1
<1> QED BY Zenon, <1>2, <1>3, <1>4, <1>5

-----------------------------------------------------------------------------
(* The bytes of a query by offset. *)
Query(p) == [k \in 0 .. Len(p.bytes) - 1 |-> p.bytes[k + 1]]

(* A query that carries a name spells it. *)
Carried(p, st) ==
    /\ Spelled(Query(p), p.name, st)
    /\ Len(Wire(p.name)) = st[Len(p.name) + 1] + 1
    /\ Len(Wire(p.name)) <= Len(p.bytes)

(* The bytes of a query with a name spell the name. *)
LEMMA PacketName ==
    ASSUME NEW p \in Packets, p.name # <<>>
    PROVE  /\ IsName(p.name) /\ \E st : Carried(p, st)
           /\ \A i \in 1 .. Len(p.name) : Len(p.name[i]) <= MaxLabelLen
<1> DEFINE l == p.name
           W == Wire(p.name)
           B == p.bytes
<1>1. l \in Seq(Seq(Nat)) /\ B \in Seq(Nat)
  BY Zenon, PacketAssumption, LabelsNat, SeqMono, NameAssumption
<1>2. (\A i \in DOMAIN l : Len(l[i]) \in 1 .. MaxLabelLen) /\ StartsWith(B, W)
  BY Zenon, PacketAssumption
<1>3. DOMAIN l = 1 .. Len(l)
  BY <1>1
<1>4. \A x \in 1 .. MaxLabelLen : x \in Nat \ {0} /\ x <= MaxLabelLen
  BY NameAssumption
<1>5. IsName(l)
  BY Zenon, <1>1, <1>2, <1>3, <1>4 DEF IsName
<1>6. \A i \in 1 .. Len(l) : Len(l[i]) <= MaxLabelLen
  BY Zenon, <1>2, <1>3, <1>4
<1>7. W \in Seq(Nat)
  BY Zenon, <1>1, WireLaid
<1> HIDE DEF W, B
<1>8. Len(W) <= Len(B) /\ \A k \in 0 .. Len(W) - 1 : W[k + 1] = B[k + 1]
  <2>1. Len(W) <= Len(B) /\ SubSeq(B, 1, Len(W)) = W
    BY Zenon, <1>2 DEF StartsWith
  <2>2. \A i \in 1 .. Len(W) : W[i] = B[i]
    BY <1>1, <1>7, <2>1
  <2> QED BY <1>7, <2>1, <2>2
<1>9. \A k \in 0 .. Len(W) - 1 : Query(p)[k] = W[k + 1]
  BY <1>1, <1>7, <1>8 DEF Query, B
<1>10. \E st : Spelled(Query(p), l, st) /\ Len(W) = st[Len(l) + 1] + 1
  BY Zenon, <1>5, <1>9, WireSpelled DEF W
<1>11. \E st : Carried(p, st)
  BY Zenon, <1>8, <1>10 DEF Carried, W, B
<1> QED BY Zenon, <1>5, <1>6, <1>11

(* A key that the matching loop makes of a query. *)
KeyFrom(p, K, c, o, t) ==
    /\ IsSuffixCopy(K, Query(p), c, o, t)
    /\ o[c + 1] < Len(p.bytes)
    /\ \A i \in 1 .. c : Query(p)[o[i]] <= MaxLabelLen

(* A walk that ends at a zero byte has read a name. *)
LEMMA WalkedName ==
    ASSUME NEW p \in Packets, NEW c, NEW o, NEW t, NEW K, KeyFrom(p, K, c, o, t),
           Query(p)[o[c + 1]] = 0
    PROVE  p.name # <<>>
<1> SUFFICES ASSUME p.name = <<>> PROVE FALSE
  BY Zenon
<1> DEFINE q == Query(p)
           B == p.bytes
           S == {o[i] : i \in 1 .. c + 1}
<1>1. c \in Nat /\ t \in 1 .. c /\ Chained(q, c, o) /\ o[c + 1] < Len(B)
  BY Zenon DEF KeyFrom, IsSuffixCopy
<1>2. B \in Seq(Nat)
  BY Zenon, PacketAssumption, SeqMono, NameAssumption
<1>3. /\ o \in [1 .. c + 1 -> Nat] /\ o[1] = 0
      /\ \A i \in 1 .. c : q[o[i]] \in Nat \ {0} /\ o[i + 1] = o[i] + 1 + q[o[i]]
  BY Zenon, <1>1 DEF Chained
<1>4. \A i \in 1 .. c : q[o[i]] <= MaxLabelLen
  BY Zenon DEF KeyFrom
<1>5. ASSUME NEW i \in 1 .. c + 1 PROVE o[i] \in 0 .. Len(B) - 1
  <2>1. c + 1 \in 1 .. c + 1 /\ i \in 1 .. (c + 1)
    BY <1>1
  <2>2. o[i] <= o[c + 1]
    BY Zenon, <1>1, <2>1, ChainGrows
  <2>3. o[i] \in Nat /\ o[c + 1] \in Nat /\ Len(B) \in Nat
    BY Zenon, <1>2, <1>3, <2>1, LenNat
  <2> QED BY <1>1, <2>2, <2>3
<1>6. \A s \in 0 .. Len(B) - 1 : q[s] = B[s + 1]
  BY Zenon DEF Query
<1> HIDE DEF q, B
<1>7. S \in SUBSET (0 .. Len(B) - 1)
  BY Zenon, <1>5
<1>8. 0 \in S
  <2>1. 1 \in 1 .. c + 1
    BY <1>1
  <2> QED BY Zenon, <1>3, <2>1
<1>9. ASSUME NEW i \in 1 .. c + 1
      PROVE  \/ B[o[i] + 1] = 0
             \/ B[o[i] + 1] \in 1 .. MaxLabelLen /\ o[i] + 1 + B[o[i] + 1] \in S
  <2>0. B[o[i] + 1] = q[o[i]]
    BY Zenon, <1>5, <1>6
  <2>1. CASE i = c + 1
    BY Zenon, <2>0, <2>1 DEF q
  <2>2. CASE i # c + 1
    <3>1. i \in 1 .. c /\ i + 1 \in 1 .. c + 1
      BY <1>1, <2>2
    <3>2. ASSUME NEW x \in Nat \ {0}, x <= MaxLabelLen PROVE x \in 1 .. MaxLabelLen
      BY <3>2, NameAssumption
    <3>3. q[o[i]] \in 1 .. MaxLabelLen
      BY Zenon, <1>3, <1>4, <3>1, <3>2 DEF q
    <3>4. o[i] + 1 + q[o[i]] = o[i + 1]
      BY Zenon, <1>3, <3>1
    <3> QED BY Zenon, <2>0, <3>1, <3>3, <3>4
  <2> QED BY Zenon, <2>1, <2>2
<1>10. \A s \in S : \/ B[s + 1] = 0
                    \/ B[s + 1] \in 1 .. MaxLabelLen /\ s + 1 + B[s + 1] \in S
  BY Zenon, <1>9
<1> HIDE DEF S
<1>11. CarriesName(p.bytes)
  BY Zenon, <1>7, <1>8, <1>10 DEF CarriesName, B
<1>12. B[1] = 0
  BY Zenon, <1>11, PacketAssumption DEF B
<1>13. 1 \in 1 .. c + 1 /\ 1 \in 1 .. c /\ 0 + 1 = 1
  BY <1>1
<1>14. q[0] \in Nat \ {0} /\ q[0] = B[0 + 1]
  BY Zenon, <1>3, <1>5, <1>6, <1>13
<1>15. q[0] = 0
  BY Zenon, <1>12, <1>13, <1>14
<1> QED BY <1>14, <1>15

(* The last labels of a name are a suffix of it in any case. *)
LEMMA LowerEnds ==
    ASSUME NEW name, IsName(name), NEW labels, IsName(labels), EndsWith(name, ToLower(labels))
    PROVE  IsSuffix(ToLower(labels), ToLower(name))
<1> DEFINE R == ToLower(labels)
           n == Len(name)
<1>1. /\ R \in Seq(Seq(Nat)) /\ Len(R) \in Nat /\ Len(R) = Len(labels)
      /\ \A i \in 1 .. Len(R) : LowerLabel(R[i]) = R[i]
  <2>1. IsName(R) /\ Len(R) = Len(labels) /\ \A i \in 1 .. Len(labels) : LowerLabel(R[i]) = R[i]
    BY Zenon, LowerName
  <2>2. R \in Seq(Seq(Nat))
    BY Zenon, <2>1 DEF IsName
  <2> HIDE DEF R
  <2>3. Len(R) \in Nat
    BY <2>2
  <2> QED BY Zenon, <2>1, <2>2, <2>3
<1>2. /\ ToLower(name) \in Seq(Seq(Nat)) /\ Len(ToLower(name)) = n
      /\ \A i \in 1 .. n : ToLower(name)[i] = LowerLabel(name[i])
  BY Zenon, LowerType DEF IsName
<1>3. n \in Nat
  BY DEF IsName
<1>4. Len(R) <= n /\ \A i \in 1 .. Len(R) : R[i] = name[n - Len(R) + i]
  BY Zenon DEF EndsWith
<1> HIDE DEF R, n
<1>5. ASSUME NEW i \in 1 .. Len(R) PROVE R[i] = ToLower(name)[Len(ToLower(name)) - Len(R) + i]
  <2>1. n - Len(R) + i \in 1 .. n
    BY <1>1, <1>3, <1>4
  <2>2. ToLower(name)[n - Len(R) + i] = LowerLabel(name[n - Len(R) + i])
    BY Zenon, <1>2, <2>1
  <2>3. R[i] = name[n - Len(R) + i]
    BY Zenon, <1>4
  <2>4. LowerLabel(R[i]) = R[i]
    BY Zenon, <1>1
  <2>5. ToLower(name)[n - Len(R) + i] = R[i]
    BY Zenon, <2>2, <2>3, <2>4
  <2> QED BY Zenon, <1>2, <2>5
<1>6. Len(R) <= Len(ToLower(name))
  BY Zenon, <1>2, <1>4
<1>7. IsSuffix(R, ToLower(name))
  BY Zenon, <1>1, <1>2, <1>5, <1>6, SuffixLabels
<1> QED BY Zenon, <1>7 DEF R

(* The rule of a key that is found is a suffix of the name of the query. *)
HitRule(p, labels, c, t) ==
    /\ p.name # <<>>
    /\ Len(p.name) = c
    /\ Len(labels) = c + 1 - t
    /\ IsSuffix(ToLower(labels), ToLower(p.name))

(* A hit in suffix_rules is on a rule that matches the name. *)
LEMMA HitNamed ==
    ASSUME NEW p \in Packets, NEW c, NEW o, NEW t, NEW labels, HasKey(labels),
           KeyFrom(p, EncodeSuffix(labels), c, o, t), EndsOrNoNul(Query(p), c, o, ToLower(labels))
    PROVE  HitRule(p, labels, c, t)
<1> DEFINE q == Query(p)
           K == EncodeSuffix(labels)
           R == ToLower(labels)
<1>1. IsName(labels) /\ IsName(R)
  BY Zenon DEF HasKey
<1>2. PICK rs : IsKeyOf(K, R, rs)
  BY Zenon DEF HasKey
<1>3. IsSuffixCopy(K, q, c, o, t)
  BY Zenon DEF KeyFrom
<1> HIDE DEF q, K, R
<1>4. EndsOrNoNul(q, c, o, R)
  BY Zenon DEF q, R
<1>5. SpellsRest(q, c, o, t, R)
  BY Zenon, <1>1, <1>2, <1>3, <1>4, HitSound
<1>6. Query(p)[o[c + 1]] = 0
  BY Zenon, <1>5 DEF SpellsRest, q
<1>7. p.name # <<>>
  BY Zenon, <1>6, WalkedName
<1>8. IsName(p.name) /\ \E st : Carried(p, st)
  BY Zenon, <1>7, PacketName
<1>9. PICK st : Carried(p, st)
  BY Zenon, <1>8
<1>10. Spelled(q, p.name, st)
  BY Zenon, <1>9 DEF Carried, q
<1>11. /\ Len(p.name) = c /\ Len(R) = c + 1 - t
       /\ \A i \in 1 .. Len(R) : R[i] = p.name[c - Len(R) + i]
  <2>1. EndsFrom(p.name, R, c, t)
    BY Zenon, <1>1, <1>2, <1>3, <1>4, <1>8, <1>10, HitMatches
  <2> QED BY Zenon, <2>1 DEF EndsFrom
<1>12. Len(R) <= c
  <2>1. c \in Nat /\ t \in 1 .. c
    BY Zenon, <1>3 DEF IsSuffixCopy
  <2> QED BY <1>11, <2>1
<1>13. EndsWith(p.name, R)
  BY Zenon, <1>11, <1>12 DEF EndsWith
<1>14. IsSuffix(ToLower(labels), ToLower(p.name)) /\ Len(R) = Len(labels)
  BY Zenon, <1>1, <1>8, <1>13, LowerEnds, LowerName DEF R
<1> QED BY Zenon, <1>7, <1>11, <1>14 DEF HitRule

(* A rule that is a suffix of a lower-case name ends it as it is spelled. *)
MatchEnds(name, labels) ==
    /\ Len(labels) \in 1 .. Len(name)
    /\ Len(ToLower(labels)) = Len(labels)
    /\ EndsWith(name, ToLower(labels))

(* Every rule that matches does, for names in lower case. *)
LEMMA MatchLabels ==
    ASSUME NEW name, IsName(name), ~HasUpper(name), NEW labels, IsName(labels),
           IsSuffix(ToLower(labels), ToLower(name))
    PROVE  MatchEnds(name, labels)
<1>1. name \in Seq(Seq(Nat)) /\ labels \in Seq(Seq(Nat))
  BY Zenon DEF IsName
<1>2. ToLower(name) = name
  BY Zenon, <1>1, LowerAlready
<1>3. ToLower(labels) \in Seq(Seq(Nat)) /\ Len(ToLower(labels)) = Len(labels)
  BY Zenon, <1>1, LowerType
<1>4. IsSuffix(ToLower(labels), name)
  BY Zenon, <1>2
<1>5. EndsWith(name, ToLower(labels))
  BY Zenon, <1>1, <1>3, <1>4, SuffixLabels DEF EndsWith
<1>6. Len(labels) <= Len(name)
  BY Zenon, <1>3, <1>5 DEF EndsWith
<1>7. Len(labels) \in Nat \ {0} /\ Len(name) \in Nat
  BY DEF IsName
<1>8. Len(labels) \in 1 .. Len(name)
  BY <1>6, <1>7
<1> QED BY Zenon, <1>3, <1>5, <1>8 DEF MatchEnds

(* The key of such a rule is the part of the query from there. *)
LEMMA MatchKey ==
    ASSUME NEW p \in Packets, p.name # <<>>, NEW st, Carried(p, st), st[Len(p.name) + 1] < NameLen,
           NEW labels, HasKey(labels), MatchEnds(p.name, labels), NEW K,
           IsCopy(K, Query(p), st[Len(p.name) + 1 - Len(labels)], st[Len(p.name) + 1])
    PROVE  K = EncodeSuffix(labels)
<1> DEFINE R == ToLower(labels)
           q == Query(p)
<1>1. IsName(p.name)
  BY Zenon, PacketName
<1>2. IsName(R)
  BY Zenon DEF HasKey
<1>3. PICK rs : IsKeyOf(EncodeSuffix(labels), R, rs)
  BY Zenon DEF HasKey
<1>4. Spelled(q, p.name, st)
  BY Zenon DEF Carried
<1>5. Len(R) = Len(labels) /\ EndsWith(p.name, R)
  BY Zenon DEF MatchEnds
<1> HIDE DEF R, q
<1>6. CopyOfLast(K, q, p.name, st, R)
  BY Zenon, <1>5 DEF q, CopyOfLast
<1> QED BY Zenon, <1>1, <1>2, <1>3, <1>4, <1>5, <1>6, MatchHits

(* The walk of a query with a name keeps to the labels of the name. *)
OnTrack(p, c, o, st) ==
    /\ c <= Len(p.name)
    /\ \A i \in 1 .. c + 1 : o[i] = st[i]
    /\ o[c + 1] <= st[Len(p.name) + 1]
    /\ Query(p)[o[c + 1]] <= MaxLabelLen
    /\ Query(p)[o[c + 1]] = 0 <=> c = Len(p.name)

(* The offsets of the walk are those of the name. *)
LEMMA KeepsTrack ==
    ASSUME NEW p \in Packets, p.name # <<>>, NEW st, Carried(p, st), NEW c \in Nat, NEW o,
           Chained(Query(p), c, o)
    PROVE  OnTrack(p, c, o, st)
<1> DEFINE n == Len(p.name)
           q == Query(p)
<1>1. IsName(p.name) /\ \A i \in 1 .. n : Len(p.name[i]) <= MaxLabelLen
  BY Zenon, PacketName
<1>2. n \in Nat /\ \A i \in 1 .. n : Len(p.name[i]) \in Nat \ {0}
  <2>1. n \in Nat
    BY <1>1 DEF IsName
  <2> QED BY Zenon, <1>1, <2>1 DEF IsName
<1>3. Spelled(q, p.name, st)
  BY Zenon DEF Carried
<1>4. Chained(q, n, st) /\ q[st[n + 1]] = 0 /\ \A i \in 1 .. n : q[st[i]] = Len(p.name[i])
  BY Zenon, <1>3 DEF Spelled, LabelIn
<1> HIDE DEF q
<1>5. Chained(q, c, o)
  BY Zenon DEF q
<1>6. c <= n
  <2> SUFFICES ASSUME n < c PROVE FALSE
    BY <1>2
  <2>1. n <= c /\ n + 1 \in 1 .. c /\ n + 1 \in 1 .. n + 1
    BY <1>2
  <2>2. Same(n + 1, st, o)
    BY Zenon, <1>2, <1>4, <1>5, <2>1, SameChain
  <2>3. q[o[n + 1]] \in Nat \ {0}
    BY Zenon, <1>5, <2>1 DEF Chained
  <2> QED BY Zenon, <1>4, <2>1, <2>2, <2>3 DEF Same
<1>7. \A i \in 1 .. c + 1 : o[i] = st[i]
  <2>1. Same(c + 1, o, st)
    BY Zenon, <1>2, <1>4, <1>5, <1>6, SameChain
  <2> QED BY Zenon, <2>1 DEF Same
<1>8. c + 1 \in 1 .. c + 1 /\ c + 1 \in 1 .. (n + 1) /\ n + 1 \in 1 .. n + 1
  BY <1>2, <1>6
<1>9. o[c + 1] <= st[n + 1]
  <2>1. st[c + 1] <= st[n + 1]
    BY Zenon, <1>2, <1>4, <1>8, ChainGrows
  <2> QED BY Zenon, <1>7, <1>8, <2>1
<1>10. q[o[c + 1]] = q[st[c + 1]]
  BY Zenon, <1>7, <1>8
<1>11. CASE c = n
  <2>1. q[o[c + 1]] = 0
    BY Zenon, <1>4, <1>10, <1>11
  <2>2. 0 <= MaxLabelLen
    BY NameAssumption
  <2> QED BY Zenon, <1>6, <1>7, <1>9, <1>11, <2>1, <2>2 DEF OnTrack, q
<1>12. CASE c # n
  <2>1. c + 1 \in 1 .. n
    BY <1>2, <1>6, <1>12
  <2>2. q[o[c + 1]] = Len(p.name[c + 1])
    BY Zenon, <1>4, <1>10, <2>1
  <2>3. q[o[c + 1]] <= MaxLabelLen /\ q[o[c + 1]] # 0
    BY Zenon, <1>1, <1>2, <2>1, <2>2
  <2> QED BY Zenon, <1>6, <1>7, <1>9, <1>12, <2>3 DEF OnTrack, q
<1> QED BY Zenon, <1>11, <1>12

-----------------------------------------------------------------------------
(* The action of the longest matching rules, when they agree on it. *)
LEMMA LongestAction ==
    ASSUME NEW name, NEW r \in Matching(name),
           \A s \in Matching(name) : Len(s.labels) \in Nat /\ Len(s.labels) <= Len(r.labels),
           \A s \in Matching(name) : Len(s.labels) = Len(r.labels) => s.action = r.action
    PROVE  ExpectedAction(name) = r.action
<1> DEFINE x == CHOOSE x \in Matching(name) :
                    \A s \in Matching(name) : Len(s.labels) <= Len(x.labels)
<1>1. x \in Matching(name) /\ \A s \in Matching(name) : Len(s.labels) <= Len(x.labels)
  BY Zenon
<1> HIDE DEF x
<1>2. \A k, m \in Nat : k <= m /\ m <= k => k = m
  OBVIOUS
<1>3. Len(x.labels) = Len(r.labels)
  BY Zenon, <1>1, <1>2
<1>4. x.action = r.action
  BY Zenon, <1>1, <1>3
<1>5. ExpectedAction(name) = x.action
  BY Zenon DEF ExpectedAction, x
<1> QED BY Zenon, <1>4, <1>5

-----------------------------------------------------------------------------
Walking == pc \in {"walk", "copy", "lookup"}

(* What Load leaves in the scratch buffer stays there during the walk. *)
LoadedInv ==
    Walking =>
        /\ remaining \in 1 .. NameLen
        /\ remaining <= Len(pkt.bytes)
        /\ \A k \in 0 .. remaining - 1 : qname[k] = pkt.bytes[k + 1]

(* The recorded offsets lie before the position of the walk. *)
OffsetInv == Walking => \A j \in 1 .. Len(label_offsets) : label_offsets[j] < pos

(* The matching loop runs only on names that end within what was loaded. *)
FitInv == pc \in {"copy", "lookup"} => pos < remaining

KeyInv ==
    pc = "lookup" => idx < Len(label_offsets) /\ lookup = CopiedSuffix(suffix_start)

SuffixInv == TypeOK /\ LoadedInv /\ OffsetInv /\ FitInv /\ KeyInv

USE NameAssumption DEF Offsets, Buffers

-----------------------------------------------------------------------------
(* The mask of an index within the buffer changes nothing. *)
LEMMA ModSmall == \A x \in Nat : x < NameLen => x % NameLen = x
  OBVIOUS

(* A capped length is at least 1, within the buffer, and not lengthened. *)
LEMMA CappedRange ==
    ASSUME NEW n \in Nat, n > 0
    PROVE  Capped(n) \in 1 .. NameLen /\ Capped(n) <= n
<1>1. CASE n >= NameLen
  BY <1>1 DEF Capped
<1>2. CASE n < NameLen
  BY <1>2, ModSmall DEF Capped
<1> QED BY <1>1, <1>2

(* The zeroed scratch buffer is a buffer. *)
LEMMA PaddedEmpty == Padded(<<>>) \in Buffers
  BY DEF Padded

(* No query is being parsed at first. *)
LEMMA InitInv == Init => SuffixInv
  BY PaddedEmpty, BoundAssumption
     DEF Init, SuffixInv, TypeOK, LoadedInv, OffsetInv, FitInv, KeyInv, Walking, Verdicts

(* The copied suffix is a buffer. *)
LEMMA CopiedType ==
    ASSUME TypeOK, NEW s \in Offsets PROVE CopiedSuffix(s) \in Buffers
  BY DEF CopiedSuffix, TypeOK, qname_total_len

(* Every step of the parser keeps the invariant. *)
LEMMA NextInv == SuffixInv /\ [Next]_vars => SuffixInv'
<1> SUFFICES ASSUME SuffixInv, [Next]_vars PROVE SuffixInv'
  OBVIOUS
<1> USE BoundAssumption DEF SuffixInv
<1>1. CASE Receive(Packets)
  BY <1>1, PacketAssumption
     DEF Receive, config, scratch, walk, TypeOK, LoadedInv, OffsetInv, FitInv, KeyInv, Walking,
         Verdicts
<1>2. CASE Load
  <2>1. CASE pkt.bytes = <<>>
    BY <1>2, <2>1
       DEF Load, Pass, config, walk, TypeOK, LoadedInv, OffsetInv, FitInv, KeyInv, Walking,
           Verdicts
  <2>2. CASE pkt.bytes # <<>>
    <3>1. Len(pkt.bytes) \in Nat /\ Len(pkt.bytes) > 0
      BY <2>2 DEF TypeOK
    <3> DEFINE r == Capped(Len(pkt.bytes))
    <3>2. r \in 1 .. NameLen /\ r <= Len(pkt.bytes)
      BY <3>1, CappedRange
    <3>3. /\ pkt' = pkt /\ pkt.bytes \in Seq(Bytes) /\ remaining' = r
          /\ qname' = [k \in Offsets |-> IF k < r THEN pkt.bytes[k + 1] ELSE qname[k]]
          /\ qname \in Buffers
          /\ pc' = "walk" /\ label_offsets' = <<>> /\ pos' = 0
          /\ UNCHANGED <<received, lookup, idx, verdict>>
      BY <1>2, <2>2 DEF Load, TypeOK
    <3> HIDE DEF r
    <3>4. qname' \in Buffers
      BY <3>1, <3>2, <3>3
    <3>5. \A k \in 0 .. r - 1 : qname'[k] = pkt.bytes[k + 1]
      BY <3>2, <3>3
    <3>6. LoadedInv' /\ OffsetInv' /\ FitInv' /\ KeyInv'
      BY <3>2, <3>3, <3>5 DEF LoadedInv, OffsetInv, FitInv, KeyInv, Walking
    <3>7. TypeOK'
      BY <3>2, <3>3, <3>4 DEF TypeOK
    <3> QED BY <3>6, <3>7
  <2> QED BY Zenon, <2>1, <2>2
<1>3. CASE WalkLabel
  <2>1. /\ pos \in Offsets /\ pos < remaining /\ pos % NameLen = pos
        /\ Len(label_offsets) < MaxLabels
    BY SMTT(30), <1>3, ModSmall DEF WalkLabel, WalkOver, TypeOK
  <2>2. qname[pos] \in 1 .. MaxLabelLen
    <3>1. qname[pos] \in Nat
      BY Zenon, <2>1 DEF TypeOK
    <3> QED BY <1>3, <2>1, <3>1 DEF WalkLabel, WalkOver
  <2>3. /\ label_offsets' = Append(label_offsets, pos)
        /\ pos' = pos + 1 + qname[pos]
        /\ UNCHANGED <<received, pkt, qname, lookup, remaining, idx, pc, verdict>>
        /\ pc = "walk"
    BY <1>3, <2>1 DEF WalkLabel, scratch
  <2>4. TypeOK'
    BY <2>1, <2>2, <2>3 DEF TypeOK
  <2>5. OffsetInv'
    BY SMTT(30), <2>1, <2>2, <2>3 DEF OffsetInv, TypeOK, Walking
  <2>6. LoadedInv' /\ FitInv' /\ KeyInv'
    BY <2>3 DEF LoadedInv, FitInv, KeyInv, Walking
  <2> QED BY Zenon, <2>4, <2>5, <2>6
<1>4. CASE WalkInvalid
  BY <1>4
     DEF WalkInvalid, Pass, config, scratch, walk, TypeOK, LoadedInv, OffsetInv, FitInv, KeyInv,
         Walking, Verdicts
<1>5. CASE WalkEnd
  BY <1>5
     DEF WalkEnd, TooLong, qname_total_len, Pass, config, scratch, walk, TypeOK, LoadedInv,
         OffsetInv, FitInv, KeyInv, Walking, Verdicts
<1>6. CASE Copy
  <2>1. /\ idx + 1 \in 1 .. Len(label_offsets)
        /\ suffix_start \in Offsets
    BY <1>6 DEF Copy, MoreSuffixes, suffix_start, TypeOK
  <2>2. lookup' \in Buffers
    BY <1>6, <2>1, CopiedType DEF Copy
  <2>3. KeyInv'
    BY <1>6, <2>1
       DEF Copy, walk, KeyInv, CopiedSuffix, suffix_start, qname_total_len, TypeOK
  <2> QED
    BY Zenon, <1>6, <2>2, <2>3 DEF Copy, config, walk, TypeOK, LoadedInv, OffsetInv, FitInv, Walking
<1>7. CASE LookupHit \/ NoMatch
  BY Zenon, <1>7
     DEF LookupHit, NoMatch, Resolve, Pass, config, scratch, walk, TypeOK, LoadedInv, OffsetInv,
         FitInv, KeyInv, Walking, Verdicts
<1>8. CASE LookupMiss
  BY <1>8
     DEF LookupMiss, config, scratch, walk, TypeOK, LoadedInv, OffsetInv, FitInv, KeyInv, Walking
<1>9. CASE UNCHANGED vars
  BY <1>9
     DEF vars, scratch, walk, TypeOK, LoadedInv, OffsetInv, FitInv, KeyInv, Walking,
         CopiedSuffix, suffix_start, qname_total_len
<1> QED BY Zenon, <1>1, <1>2, <1>3, <1>4, <1>5, <1>6, <1>7, <1>8, <1>9 DEF Next

(* A key that is looked up is a piece of the current query. *)
LEMMA ExactKey == SuffixInv => LookupExact
<1> SUFFICES ASSUME SuffixInv, pc = "lookup" PROVE LookupExact
  BY DEF LookupExact
<1> DEFINE s == suffix_start
<1>a. idx + 1 \in 1 .. Len(label_offsets) /\ s \in Nat /\ s < pos
  BY DEF SuffixInv, TypeOK, OffsetInv, KeyInv, Walking, suffix_start
<1>b. /\ remaining \in 1 .. NameLen /\ remaining <= Len(pkt.bytes) /\ pos < remaining
      /\ \A k \in 0 .. remaining - 1 : qname[k] = pkt.bytes[k + 1]
  BY DEF SuffixInv, LoadedInv, FitInv, Walking
<1>c. pos \in Nat /\ pkt.bytes \in Seq(Bytes) /\ Len(pkt.bytes) \in Nat
  BY DEF SuffixInv, TypeOK
<1>d. lookup = CopiedSuffix(s)
  BY DEF SuffixInv, KeyInv
<1> HIDE DEF s
<1>1. /\ s \in Nat /\ s <= pos /\ pos \in Nat /\ pos < remaining /\ remaining \in Nat
      /\ remaining <= NameLen /\ remaining <= Len(pkt.bytes)
      /\ pkt.bytes \in Seq(Bytes) /\ Len(pkt.bytes) \in Nat
      /\ \A k \in 0 .. remaining - 1 : qname[k] = pkt.bytes[k + 1]
  BY <1>a, <1>b, <1>c
<1>2. /\ SubSeq(pkt.bytes, s + 1, pos + 1) \in Seq(Bytes)
      /\ Len(SubSeq(pkt.bytes, s + 1, pos + 1)) = pos + 1 - s
      /\ \A k \in 0 .. pos - s : SubSeq(pkt.bytes, s + 1, pos + 1)[k + 1] = pkt.bytes[s + k + 1]
  BY <1>1
<1>3. ASSUME NEW k \in Offsets, k < pos + 1 - s
      PROVE  qname[(s + k) % NameLen] = SubSeq(pkt.bytes, s + 1, pos + 1)[k + 1]
  <2>1. s + k \in 0 .. remaining - 1 /\ s + k < NameLen
    BY <1>1, <1>3
  <2>2. (s + k) % NameLen = s + k
    BY <1>1, <2>1, ModSmall
  <2> QED BY <1>1, <1>2, <1>3, <2>1, <2>2
<1>4. CopiedSuffix(s) = Padded(SubSeq(pkt.bytes, s + 1, pos + 1))
  <2> DEFINE t == SubSeq(pkt.bytes, s + 1, pos + 1)
  <2>1. Len(t) = pos + 1 - s
    BY <1>2
  <2>2. \A k \in Offsets : k < pos + 1 - s => qname[(s + k) % NameLen] = t[k + 1]
    BY Zenon, <1>3
  <2> HIDE DEF t
  <2>3. CopiedSuffix(s) = Padded(t)
    BY <1>a, <1>c, <2>1, <2>2 DEF CopiedSuffix, Padded, qname_total_len
  <2> QED BY <2>3 DEF t
<1> QED BY <1>1, <1>4, <1>d DEF LookupExact, s, qname_total_len

(* The invariant holds throughout. *)
LEMMA Inductive == Spec => []SuffixInv
  BY InitInv, NextInv, PTL DEF Spec

(***************************************************************************)
(* The walk and the matching loop of dns_gateway_ingress stay within       *)
(* scratch_buf and label_offsets.                                          *)
(***************************************************************************)
THEOREM TypeCorrect == Spec => []TypeOK
  BY Inductive, PTL DEF SuffixInv

(***************************************************************************)
(* Every key that dns_gateway_ingress looks up in suffix_rules consists of *)
(* bytes of the current query and zeros.                                   *)
(***************************************************************************)
THEOREM KeysAreExact == Spec => []LookupExact
  BY Inductive, ExactKey, PTL

HIDE NameAssumption DEF Offsets, Buffers

-----------------------------------------------------------------------------
(* The offsets where the labels read so far start, and where the walk is. *)
Chain(offsets, end) ==
    [i \in 1 .. Len(offsets) + 1 |-> IF i <= Len(offsets) THEN offsets[i] ELSE end]

(* suffix_rules holds the rules of an accepted configuration. *)
ConfigInv == Configured(rules) /\ suffix_rules = SuffixRules(rules)

PktInv == pc # "done" => pkt \in Packets

(* Only the size of the buffer truncates a query. *)
RemainingInv == Walking => remaining = NameLen \/ remaining = Len(pkt.bytes)

(* Each length byte leads from one label of the query to the next. *)
ChainInv ==
    Walking =>
        /\ Chained(Query(pkt), Len(label_offsets), Chain(label_offsets, pos))
        /\ \A i \in 1 .. Len(label_offsets) :
               Query(pkt)[Chain(label_offsets, pos)[i]] <= MaxLabelLen

(* The matching loop runs after a walk that ended by itself or was full. *)
EndInv ==
    pc \in {"copy", "lookup"} =>
        /\ label_offsets # <<>>
        /\ Len(label_offsets) = MaxLabels \/ Query(pkt)[pos] = 0

(* The suffixes before the current one are no keys. *)
TriedInv ==
    pc \in {"copy", "lookup"} =>
        /\ idx <= Len(label_offsets)
        /\ \A j \in 1 .. idx : CopiedSuffix(label_offsets[j]) \notin DOMAIN suffix_rules

WalkInv == ConfigInv /\ PktInv /\ RemainingInv /\ ChainInv /\ EndInv /\ TriedInv

-----------------------------------------------------------------------------
(* No walk is in progress at first. *)
LEMMA InitWalk == Init => WalkInv
  BY Zenon
     DEF Init, WalkInv, ConfigInv, Configured, PktInv, RemainingInv, ChainInv, EndInv, TriedInv,
         Walking

(* A query that fits is loaded in full. *)
LEMMA CappedMin ==
    ASSUME NEW n \in Nat, n > 0
    PROVE  Capped(n) = NameLen \/ Capped(n) = n
<1> USE NameAssumption
<1>1. CASE n >= NameLen
  BY <1>1 DEF Capped
<1>2. CASE n < NameLen
  BY <1>2, ModSmall DEF Capped
<1> QED BY <1>1, <1>2

(* The chain of no labels, and one with a label more. *)
LEMMA ChainEmpty ==
    ASSUME NEW q PROVE Chained(q, Len(<<>>), Chain(<<>>, 0))
<1>1. Len(<<>>) = 0
  OBVIOUS
<1>2. /\ Chain(<<>>, 0) \in [1 .. 0 + 1 -> Nat] /\ Chain(<<>>, 0)[1] = 0
  BY <1>1 DEF Chain
<1>3. \A i \in 1 .. 0 : FALSE
  OBVIOUS
<1>4. Chained(q, 0, Chain(<<>>, 0))
  BY Zenon, <1>2, <1>3 DEF Chained
<1> QED BY Zenon, <1>1, <1>4

(* A chain by its index. *)
LEMMA ChainIndex ==
    ASSUME NEW s \in Seq(Nat), NEW e \in Nat
    PROVE  /\ Chain(s, e) \in [1 .. Len(s) + 1 -> Nat]
           /\ \A i \in 1 .. Len(s) : Chain(s, e)[i] = s[i]
           /\ Chain(s, e)[Len(s) + 1] = e
  BY DEF Chain

(* WalkLabel adds a link to the chain. *)
LEMMA ChainAppend ==
    ASSUME NEW q, NEW s \in Seq(Nat), NEW e \in Nat, Chained(q, Len(s), Chain(s, e)),
           q[e] \in Nat \ {0}
    PROVE  /\ Chained(q, Len(Append(s, e)), Chain(Append(s, e), e + 1 + q[e]))
           /\ Len(Append(s, e)) = Len(s) + 1
           /\ \A i \in 1 .. Len(s) + 1 : Chain(Append(s, e), e + 1 + q[e])[i] = Chain(s, e)[i]
<1> DEFINE z == Append(s, e)
           f == e + 1 + q[e]
           n == Len(s)
<1>1. z \in Seq(Nat) /\ Len(z) = n + 1 /\ n \in Nat /\ f \in Nat
      /\ z[n + 1] = e /\ \A i \in 1 .. n : z[i] = s[i]
  OBVIOUS
<1> HIDE DEF z, f
<1>2. /\ Chain(s, e) \in [1 .. n + 1 -> Nat] /\ Chain(s, e)[n + 1] = e
      /\ \A i \in 1 .. n : Chain(s, e)[i] = s[i]
  BY Zenon, ChainIndex
<1>3. /\ Chain(z, f) \in [1 .. (n + 1) + 1 -> Nat] /\ Chain(z, f)[(n + 1) + 1] = f
      /\ \A i \in 1 .. n + 1 : Chain(z, f)[i] = z[i]
  <2>1. /\ Chain(z, f) \in [1 .. Len(z) + 1 -> Nat] /\ Chain(z, f)[Len(z) + 1] = f
        /\ \A i \in 1 .. Len(z) : Chain(z, f)[i] = z[i]
    BY Zenon, <1>1, ChainIndex
  <2>2. Len(z) = n + 1
    BY Zenon, <1>1
  <2> QED BY Zenon, <2>1, <2>2
<1>4. ASSUME NEW i \in 1 .. n + 1 PROVE Chain(z, f)[i] = Chain(s, e)[i]
  <2>1. i = n + 1 \/ i \in 1 .. n
    BY <1>1
  <2> QED BY Zenon, <1>1, <1>2, <1>3, <2>1
<1>5. /\ Chain(s, e)[1] = 0
      /\ \A i \in 1 .. n : /\ q[Chain(s, e)[i]] \in Nat \ {0}
                           /\ Chain(s, e)[i + 1] = Chain(s, e)[i] + 1 + q[Chain(s, e)[i]]
  BY Zenon DEF Chained
<1>6. ASSUME NEW i \in 1 .. n + 1
      PROVE  /\ q[Chain(z, f)[i]] \in Nat \ {0}
             /\ Chain(z, f)[i + 1] = Chain(z, f)[i] + 1 + q[Chain(z, f)[i]]
  <2>1. CASE i = n + 1
    <3>1. Chain(z, f)[i] = e /\ Chain(z, f)[i + 1] = f
      BY Zenon, <1>2, <1>3, <1>4, <2>1
    <3> QED BY Zenon, <3>1 DEF f
  <2>2. CASE i # n + 1
    <3>1. i \in 1 .. n /\ i + 1 \in 1 .. n + 1
      BY <1>1, <2>2
    <3>2. Chain(z, f)[i] = Chain(s, e)[i] /\ Chain(z, f)[i + 1] = Chain(s, e)[i + 1]
      BY Zenon, <1>4, <3>1
    <3> QED BY Zenon, <1>5, <3>1, <3>2
  <2> QED BY Zenon, <2>1, <2>2
<1>7. 1 \in 1 .. n + 1
  BY <1>1
<1>8. Chain(z, f)[1] = 0
  BY Zenon, <1>4, <1>5, <1>7
<1>9. Chained(q, n + 1, Chain(z, f))
  BY Zenon, <1>3, <1>6, <1>8 DEF Chained
<1>10. Chained(q, Len(z), Chain(z, f))
  BY Zenon, <1>1, <1>9
<1> QED BY Zenon, <1>1, <1>4, <1>10 DEF z, f

-----------------------------------------------------------------------------
(* What the invariants say of a walk in progress. *)
LEMMA WalkFacts ==
    ASSUME SuffixInv, Walking
    PROVE  /\ label_offsets \in Seq(Nat) /\ Len(label_offsets) \in Nat
           /\ Len(label_offsets) <= MaxLabels
           /\ pos \in Nat /\ Len(pkt.bytes) \in Nat
           /\ remaining \in 1 .. NameLen /\ remaining <= Len(pkt.bytes)
           /\ \A k \in 0 .. remaining - 1 : qname[k] = Query(pkt)[k] /\ qname[k] \in Nat
<1>1. /\ label_offsets \in Seq(Offsets) /\ Len(label_offsets) <= MaxLabels
      /\ pos \in 0 .. NameLen + MaxLabelLen /\ pkt.bytes \in Seq(Bytes) /\ qname \in Buffers
  BY Zenon DEF SuffixInv, TypeOK
<1>2. /\ remaining \in 1 .. NameLen /\ remaining <= Len(pkt.bytes)
      /\ \A k \in 0 .. remaining - 1 : qname[k] = pkt.bytes[k + 1]
  BY Zenon DEF SuffixInv, LoadedInv
<1>3. Offsets \subseteq Nat
  BY DEF Offsets
<1>4. label_offsets \in Seq(Nat)
  BY Zenon, <1>1, <1>3, SeqMono
<1>5. pos \in Nat /\ Len(pkt.bytes) \in Nat /\ Len(label_offsets) \in Nat
  BY <1>1, <1>4, NameAssumption
<1>6. ASSUME NEW k \in 0 .. remaining - 1 PROVE qname[k] = Query(pkt)[k] /\ qname[k] \in Nat
  <2>1. k \in 0 .. Len(pkt.bytes) - 1 /\ k \in Offsets
    BY <1>2, <1>5, NameAssumption DEF Offsets
  <2>2. qname[k] \in Nat
    BY Zenon, <1>1, <2>1, NameAssumption DEF Buffers
  <2> QED BY Zenon, <1>2, <2>1, <2>2 DEF Query
<1> QED BY Zenon, <1>1, <1>2, <1>4, <1>5, <1>6

(* Steps leave the configuration alone and take queries from Packets. *)
LEMMA ConfigStep == ConfigInv /\ [Next]_vars => ConfigInv'
<1> SUFFICES ASSUME ConfigInv, [Next]_vars PROVE ConfigInv'
  BY Zenon
<1>1. UNCHANGED <<rules, suffix_rules>>
  BY Zenon
     DEF Next, Receive, Load, WalkLabel, WalkInvalid, WalkEnd, Copy, LookupHit, LookupMiss,
         NoMatch, vars, config
<1> QED BY Zenon, <1>1 DEF ConfigInv

(* Receive takes its query from Packets, and no other step changes it. *)
LEMMA PktStep == PktInv /\ [Next]_vars => PktInv'
<1> SUFFICES ASSUME PktInv, [Next]_vars PROVE PktInv'
  BY Zenon
<1>1. CASE Receive(Packets)
  BY Zenon, <1>1 DEF Receive, PktInv
<1>2. CASE ~Receive(Packets)
  <2>1. pkt' = pkt /\ (pc' # "done" => pc # "done")
    BY Zenon, <1>2
       DEF Next, Load, WalkLabel, WalkInvalid, WalkEnd, Copy, LookupHit, LookupMiss, NoMatch,
           Pass, Resolve, vars
  <2> QED BY Zenon, <2>1 DEF PktInv
<1> QED BY Zenon, <1>1, <1>2

(* What a walk that has started keeps until the verdict. *)
Kept == UNCHANGED <<pkt, qname, remaining, suffix_rules>>

(* The steps between Load and the verdict. *)
LEMMA WalkFrame ==
    ASSUME [Next]_vars, Walking', ~Load PROVE Walking /\ Kept
  BY Zenon
     DEF Next, Receive, WalkLabel, WalkInvalid, WalkEnd, Copy, LookupHit, LookupMiss, NoMatch,
         Pass, Resolve, vars, config, scratch, walk, Walking, Kept

(* Load starts a walk at the first byte. *)
LEMMA LoadFrame ==
    ASSUME Load, Walking'
    PROVE  /\ pkt' = pkt /\ label_offsets' = <<>> /\ pos' = 0 /\ pc' = "walk"
           /\ remaining' = Capped(Len(pkt.bytes)) /\ pkt.bytes # <<>>
  BY Zenon DEF Load, Pass, Walking

(* Load sets remaining to the size of the query or of the buffer. *)
LEMMA RemainingStep == SuffixInv /\ RemainingInv /\ [Next]_vars => RemainingInv'
<1> SUFFICES ASSUME SuffixInv, RemainingInv, [Next]_vars, Walking'
             PROVE  remaining' = NameLen \/ remaining' = Len(pkt.bytes)'
  BY Zenon DEF RemainingInv
<1>1. CASE Load
  <2>1. pkt' = pkt /\ remaining' = Capped(Len(pkt.bytes)) /\ pkt.bytes # <<>>
    BY Zenon, <1>1, LoadFrame
  <2>2. pkt.bytes \in Seq(Bytes)
    BY Zenon DEF SuffixInv, TypeOK
  <2>3. Len(pkt.bytes) \in Nat /\ Len(pkt.bytes) > 0
    BY <2>1, <2>2
  <2>4. Capped(Len(pkt.bytes)) = NameLen \/ Capped(Len(pkt.bytes)) = Len(pkt.bytes)
    BY Zenon, <2>3, CappedMin
  <2> QED BY Zenon, <2>1, <2>4
<1>2. CASE ~Load
  <2>1. Walking /\ Kept
    BY Zenon, <1>2, WalkFrame
  <2> QED BY Zenon, <2>1 DEF RemainingInv, Kept
<1> QED BY Zenon, <1>1, <1>2

-----------------------------------------------------------------------------
(* The byte at the position of a walk that goes on. *)
LEMMA WalkByte ==
    ASSUME SuffixInv, pc = "walk", ~WalkOver
    PROVE  /\ qname[pos % NameLen] = Query(pkt)[pos]
           /\ Query(pkt)[pos] \in Nat \ {0}
           /\ pos < remaining /\ Len(label_offsets) < MaxLabels
<1>1. Walking
  BY Zenon DEF Walking
<1>2. /\ pos \in Nat /\ remaining \in 1 .. NameLen /\ Len(label_offsets) \in Nat
      /\ Len(label_offsets) <= MaxLabels
      /\ \A k \in 0 .. remaining - 1 : qname[k] = Query(pkt)[k] /\ qname[k] \in Nat
  BY Zenon, <1>1, WalkFacts
<1>3. /\ Len(label_offsets) # MaxLabels /\ ~(pos >= remaining) /\ qname[pos % NameLen] # 0
  BY Zenon DEF WalkOver
<1>4. pos \in 0 .. remaining - 1 /\ pos < NameLen /\ pos < remaining
  BY <1>2, <1>3, NameAssumption
<1>5. pos % NameLen = pos
  BY Zenon, <1>2, <1>4, ModSmall
<1>6. Len(label_offsets) < MaxLabels
  BY <1>2, <1>3, BoundAssumption
<1>7. qname[pos] = Query(pkt)[pos] /\ qname[pos] \in Nat
  BY Zenon, <1>2, <1>4
<1>8. qname[pos] # 0
  BY Zenon, <1>3, <1>5
<1> QED BY Zenon, <1>4, <1>5, <1>6, <1>7, <1>8

(* Load starts a chain and WalkLabel extends it. *)
LEMMA ChainStep == SuffixInv /\ ChainInv /\ [Next]_vars => ChainInv'
<1> DEFINE Good(p, s, e) == /\ Chained(Query(p), Len(s), Chain(s, e))
                            /\ \A i \in 1 .. Len(s) : Query(p)[Chain(s, e)[i]] <= MaxLabelLen
<1> SUFFICES ASSUME SuffixInv, ChainInv, [Next]_vars, Walking'
             PROVE  Good(pkt', label_offsets', pos')
  BY Zenon DEF ChainInv, Query
<1>0. Walking => Good(pkt, label_offsets, pos)
  BY Zenon DEF ChainInv
<1>1. CASE Load
  <2>1. label_offsets' = <<>> /\ pos' = 0
    BY Zenon, <1>1, LoadFrame
  <2>2. \A i \in 1 .. Len(<<>>) : FALSE
    OBVIOUS
  <2>3. Good(pkt', <<>>, 0)
    BY Zenon, <2>2, ChainEmpty
  <2> HIDE DEF Good
  <2> QED BY Zenon, <2>1, <2>3
<1>2. CASE WalkLabel
  <2>1. /\ pc = "walk" /\ ~WalkOver /\ pkt' = pkt
        /\ label_offsets' = Append(label_offsets, pos)
        /\ pos' = pos + 1 + qname[pos % NameLen]
        /\ qname[pos % NameLen] <= MaxLabelLen
    BY Zenon, <1>2 DEF WalkLabel
  <2>2. Walking
    BY Zenon, <2>1 DEF Walking
  <2> DEFINE q == Query(pkt)
             s == label_offsets
             e == pos
  <2>3. qname[pos % NameLen] = q[e] /\ q[e] \in Nat \ {0}
    BY Zenon, <2>1, WalkByte
  <2>4. s \in Seq(Nat) /\ e \in Nat /\ Len(s) \in Nat
    BY Zenon, <2>2, WalkFacts
  <2>5. Chained(q, Len(s), Chain(s, e)) /\ \A i \in 1 .. Len(s) : q[Chain(s, e)[i]] <= MaxLabelLen
    BY Zenon, <1>0, <2>2
  <2> HIDE DEF q, s, e
  <2>6. /\ Chained(q, Len(Append(s, e)), Chain(Append(s, e), e + 1 + q[e]))
        /\ Len(Append(s, e)) = Len(s) + 1
        /\ \A i \in 1 .. Len(s) + 1 : Chain(Append(s, e), e + 1 + q[e])[i] = Chain(s, e)[i]
    BY ZenonT(30), <2>3, <2>4, <2>5, ChainAppend
  <2>7. Chain(s, e)[Len(s) + 1] = e
    BY Zenon, <2>4, ChainIndex
  <2>8. q[e] <= MaxLabelLen
    BY Zenon, <2>1, <2>3
  <2>9. ASSUME NEW i \in 1 .. Len(Append(s, e))
        PROVE  q[Chain(Append(s, e), e + 1 + q[e])[i]] <= MaxLabelLen
    <3>1. i \in 1 .. Len(s) + 1
      BY Zenon, <2>6
    <3>2. i = Len(s) + 1 \/ i \in 1 .. Len(s)
      BY <2>4, <3>1
    <3> QED BY Zenon, <2>5, <2>6, <2>7, <2>8, <3>1, <3>2
  <2>10. Good(pkt, Append(s, e), e + 1 + q[e])
    BY Zenon, <2>6, <2>9 DEF q
  <2> HIDE DEF Good
  <2>11. label_offsets' = Append(s, e) /\ pos' = e + 1 + q[e]
    BY Zenon, <2>1, <2>3 DEF s, e
  <2> QED BY Zenon, <2>1, <2>10, <2>11
<1>3. CASE ~Load /\ ~WalkLabel
  <2>1. Walking /\ Kept
    BY Zenon, <1>3, WalkFrame
  <2>2. UNCHANGED <<label_offsets, pos>>
    BY Zenon, <1>3
       DEF Next, Receive, WalkInvalid, WalkEnd, Copy, LookupHit, LookupMiss, NoMatch, vars, walk
  <2>3. Good(pkt, label_offsets, pos) /\ pkt' = pkt
    BY Zenon, <1>0, <2>1 DEF Kept
  <2> HIDE DEF Good
  <2> QED BY Zenon, <2>2, <2>3
<1> QED BY Zenon, <1>1, <1>2, <1>3

(* The matching loop is entered at WalkEnd, and changes no walk variable. *)
LEMMA MatchFrame ==
    ASSUME [Next]_vars, pc' \in {"copy", "lookup"}
    PROVE  /\ UNCHANGED <<pkt, qname, remaining, label_offsets, pos, suffix_rules>>
           /\ pc = "walk" => WalkEnd
           /\ pc \in {"walk", "copy", "lookup"}
  BY Zenon
     DEF Next, Receive, Load, WalkLabel, WalkInvalid, WalkEnd, Copy, LookupHit, LookupMiss,
         NoMatch, Pass, Resolve, vars, config, scratch, walk

(* WalkEnd starts the matching loop on a name that is read in full, or full. *)
LEMMA EndStep == SuffixInv /\ EndInv /\ [Next]_vars => EndInv'
<1> SUFFICES ASSUME SuffixInv, EndInv, [Next]_vars, pc' \in {"copy", "lookup"}
             PROVE  /\ label_offsets' # <<>>
                    /\ Len(label_offsets') = MaxLabels \/ Query(pkt')[pos'] = 0
  BY Zenon DEF EndInv, Query
<1>1. /\ UNCHANGED <<pkt, label_offsets, pos>>
      /\ pc = "walk" => WalkEnd
      /\ pc \in {"walk", "copy", "lookup"}
  BY Zenon, MatchFrame
<1>2. CASE pc \in {"copy", "lookup"}
  BY Zenon, <1>1, <1>2 DEF EndInv
<1>3. CASE pc = "walk"
  <2>1. WalkOver /\ label_offsets # <<>> /\ ~TooLong
    BY Zenon, <1>1, <1>3 DEF WalkEnd, Pass
  <2>2. Walking
    BY Zenon, <1>3 DEF Walking
  <2>3. /\ pos \in Nat /\ remaining \in 1 .. NameLen
        /\ \A k \in 0 .. remaining - 1 : qname[k] = Query(pkt)[k] /\ qname[k] \in Nat
    BY Zenon, <2>2, WalkFacts
  <2>4. ~(pos + 1 > NameLen) /\ ~(pos + 1 > remaining)
    BY Zenon, <2>1 DEF TooLong, qname_total_len
  <2>5. pos \in 0 .. remaining - 1 /\ pos < NameLen /\ ~(pos >= remaining) /\ ~(pos >= NameLen)
    BY <2>3, <2>4, NameAssumption
  <2>6. pos % NameLen = pos
    BY Zenon, <2>3, <2>5, ModSmall
  <2>7. Len(label_offsets) = MaxLabels \/ qname[pos % NameLen] = 0
    BY Zenon, <2>1, <2>5 DEF WalkOver
  <2>8. qname[pos % NameLen] = Query(pkt)[pos]
    BY Zenon, <2>3, <2>5, <2>6
  <2> QED BY Zenon, <1>1, <2>1, <2>7, <2>8
<1> QED BY Zenon, <1>1, <1>2, <1>3

(* LookupMiss goes on to the next suffix. *)
LEMMA TriedStep == SuffixInv /\ TriedInv /\ [Next]_vars => TriedInv'
<1> SUFFICES ASSUME SuffixInv, TriedInv, [Next]_vars, pc' \in {"copy", "lookup"}
             PROVE  TriedInv'
  BY Zenon DEF TriedInv
<1> SUFFICES /\ idx' <= Len(label_offsets)
             /\ \A j \in 1 .. idx' :
                    CopiedSuffix(label_offsets[j]) \notin DOMAIN suffix_rules
  <2>1. UNCHANGED <<qname, label_offsets, pos, suffix_rules>>
    BY Zenon, MatchFrame
  <2> QED BY Zenon, <2>1 DEF TriedInv, CopiedSuffix, qname_total_len
<1>0. /\ pc = "walk" => WalkEnd
      /\ pc \in {"walk", "copy", "lookup"}
  BY Zenon, MatchFrame
<1>1. CASE pc = "walk"
  <2>1. idx' = 0
    BY Zenon, <1>0, <1>1 DEF WalkEnd, Pass
  <2>2. Len(label_offsets) \in Nat
    BY Zenon, <1>1, WalkFacts DEF Walking
  <2>3. 0 <= Len(label_offsets) /\ \A j \in 1 .. 0 : FALSE
    BY <2>2
  <2> QED BY Zenon, <2>1, <2>3
<1>2. CASE pc \in {"copy", "lookup"}
  <2>0. /\ idx <= Len(label_offsets)
        /\ \A j \in 1 .. idx : CopiedSuffix(label_offsets[j]) \notin DOMAIN suffix_rules
    BY Zenon, <1>2 DEF TriedInv
  <2>1. CASE idx' = idx
    BY Zenon, <2>0, <2>1
  <2>2. CASE idx' # idx
    <3>1. LookupMiss
      BY Zenon, <1>2, <2>2
         DEF Next, Receive, Load, WalkLabel, WalkInvalid, WalkEnd, Copy, LookupHit, NoMatch, vars
    <3>2. pc = "lookup" /\ lookup \notin DOMAIN suffix_rules /\ idx' = idx + 1
      BY Zenon, <3>1 DEF LookupMiss
    <3>3. idx < Len(label_offsets) /\ lookup = CopiedSuffix(label_offsets[idx + 1])
      BY Zenon, <3>2 DEF SuffixInv, KeyInv, suffix_start
    <3>4. idx \in Nat /\ Len(label_offsets) \in Nat
      <4>1. Len(label_offsets) \in Nat
        BY Zenon, <3>2, WalkFacts DEF Walking
      <4>2. idx \in 0 .. MaxLabels
        BY Zenon DEF SuffixInv, TypeOK
      <4> QED BY <4>1, <4>2
    <3>5. idx + 1 <= Len(label_offsets) /\ \A j \in 1 .. idx + 1 : j \in 1 .. idx \/ j = idx + 1
      BY <3>3, <3>4
    <3> QED BY Zenon, <2>0, <3>2, <3>3, <3>5
  <2> QED BY Zenon, <2>1, <2>2
<1> QED BY Zenon, <1>0, <1>1, <1>2

(* Every step keeps what is known of the walk and of the rules. *)
LEMMA WalkStep == SuffixInv /\ WalkInv /\ [Next]_vars => WalkInv'
  BY Zenon, ConfigStep, PktStep, RemainingStep, ChainStep, EndStep, TriedStep DEF WalkInv

-----------------------------------------------------------------------------
(* The offsets of a walk that the matching loop follows. *)
Offset == Chain(label_offsets, pos)

(* The keys of the matching loop are made of the current query. *)
LEMMA KeyAt ==
    ASSUME SuffixInv, WalkInv, pc \in {"copy", "lookup"}, NEW t \in 1 .. Len(label_offsets)
    PROVE  /\ KeyFrom(pkt, CopiedSuffix(label_offsets[t]), Len(label_offsets), Offset, t)
           /\ IsCopy(CopiedSuffix(label_offsets[t]), Query(pkt), Offset[t],
                     Offset[Len(label_offsets) + 1])
<1> DEFINE c == Len(label_offsets)
           a == label_offsets[t]
           q == Query(pkt)
<1>0. Walking
  BY Zenon DEF Walking
<1>1. /\ label_offsets \in Seq(Nat) /\ c \in Nat /\ pos \in Nat /\ Len(pkt.bytes) \in Nat
      /\ remaining \in 1 .. NameLen /\ remaining <= Len(pkt.bytes)
      /\ \A k \in 0 .. remaining - 1 : qname[k] = q[k] /\ qname[k] \in Nat
  BY Zenon, <1>0, WalkFacts
<1>2. pos < remaining /\ a < pos
  BY Zenon, <1>0 DEF SuffixInv, FitInv, OffsetInv
<1>3. Offset[t] = a /\ Offset[c + 1] = pos
  BY Zenon, <1>1, ChainIndex DEF Offset
<1>4. Chained(q, c, Offset) /\ \A i \in 1 .. c : q[Offset[i]] <= MaxLabelLen
  BY Zenon, <1>0 DEF WalkInv, ChainInv, Offset
<1>5. a \in Nat
  BY <1>1
<1>6. pos < NameLen /\ pos < Len(pkt.bytes)
  BY <1>1, <1>2, NameAssumption
<1> DEFINE K == CopiedSuffix(label_offsets[t])
<1>7. \A k \in Offsets : K[k] = IF k < pos + 1 - a THEN qname[(a + k) % NameLen] ELSE 0
  <2>a. \A x, y \in Nat : (x + 1) - y = x + 1 - y
    OBVIOUS
  <2>0. (pos + 1) - a = pos + 1 - a
    BY Zenon, <1>1, <1>5, <2>a
  <2> DEFINE F(k) == IF k < (pos + 1) - a THEN qname[(a + k) % NameLen] ELSE 0
  <2>1. K = [k \in Offsets |-> F(k)]
    BY Zenon DEF CopiedSuffix, qname_total_len
  <2> HIDE DEF F, K
  <2>2. \A k \in Offsets : K[k] = F(k)
    BY Zenon, <2>1
  <2> HIDE DEF a
  <2> QED BY Zenon, <2>0, <2>2 DEF F
<1>8. K \in [Offsets -> Nat]
  <2>1. label_offsets \in Seq(Offsets) /\ TypeOK
    BY Zenon DEF SuffixInv, TypeOK
  <2>2. a \in Offsets
    BY <2>1
  <2>3. K \in Buffers
    BY Zenon, <2>1, <2>2, CopiedType
  <2>4. Buffers \subseteq [Offsets -> Nat]
    BY Zenon, NameAssumption DEF Buffers
  <2> QED BY Zenon, <2>3, <2>4
<1> HIDE DEF a, q, K
<1>9. ASSUME NEW k \in Offsets, k < pos + 1 - a
      PROVE  qname[(a + k) % NameLen] = q[(a + k) % NameLen]
  <2>1. a + k \in 0 .. remaining - 1 /\ a + k \in Nat /\ a + k < NameLen
    BY <1>1, <1>2, <1>5, <1>9, NameAssumption DEF Offsets
  <2>2. (a + k) % NameLen = a + k
    BY Zenon, <2>1, ModSmall
  <2> QED BY Zenon, <1>1, <2>1, <2>2
<1>10. IsCopy(K, q, a, pos)
  BY Zenon, <1>7, <1>8, <1>9 DEF IsCopy
<1>11. IsCopy(K, q, Offset[t], Offset[c + 1])
  BY Zenon, <1>3, <1>10
<1>12. Offset[c + 1] < NameLen /\ Offset[c + 1] < Len(pkt.bytes)
  BY Zenon, <1>3, <1>6
<1>13. IsSuffixCopy(K, q, c, Offset, t)
  BY Zenon, <1>1, <1>4, <1>11, <1>12 DEF IsSuffixCopy
<1>14. KeyFrom(pkt, K, c, Offset, t)
  BY Zenon, <1>4, <1>12, <1>13 DEF KeyFrom, q
<1> QED BY Zenon, <1>11, <1>14 DEF K, q

(* The rule that a lookup finds. *)
Found(r) ==
    /\ r \in rules
    /\ EncodeSuffix(r.labels) = lookup
    /\ suffix_rules[lookup] = r.action

(* Every key of suffix_rules is the key of a rule. *)
LEMMA LookupFinds ==
    ASSUME WalkInv, lookup \in DOMAIN suffix_rules PROVE \E r : Found(r)
<1>1. Configured(rules) /\ suffix_rules = SuffixRules(rules)
  BY Zenon DEF WalkInv, ConfigInv
<1>2. /\ \A r \in rules : SuffixRules(rules)[EncodeSuffix(r.labels)] = r.action
      /\ \A key \in DOMAIN SuffixRules(rules) : \E r \in rules : EncodeSuffix(r.labels) = key
  BY Zenon, <1>1, RuleLookup
<1>3. PICK r \in rules : EncodeSuffix(r.labels) = lookup
  BY Zenon, <1>1, <1>2
<1>4. suffix_rules[lookup] = r.action
  BY Zenon, <1>1, <1>2, <1>3
<1> QED BY Zenon, <1>3, <1>4 DEF Found

(* The key that is looked up starts at the label idx + 1. *)
LEMMA CurrentKey ==
    ASSUME SuffixInv, WalkInv, pc = "lookup"
    PROVE  /\ pkt \in Packets
           /\ idx + 1 \in 1 .. Len(label_offsets)
           /\ lookup = CopiedSuffix(label_offsets[idx + 1])
           /\ KeyFrom(pkt, lookup, Len(label_offsets), Offset, idx + 1)
<1>1. idx < Len(label_offsets) /\ lookup = CopiedSuffix(label_offsets[idx + 1])
  BY Zenon DEF SuffixInv, KeyInv, suffix_start
<1>2. idx \in 0 .. MaxLabels
  BY Zenon DEF SuffixInv, TypeOK
<1>3. Len(label_offsets) \in Nat
  BY Zenon, WalkFacts DEF Walking
<1>4. idx + 1 \in 1 .. Len(label_offsets)
  BY <1>1, <1>2, <1>3
<1>5. KeyFrom(pkt, CopiedSuffix(label_offsets[idx + 1]), Len(label_offsets), Offset, idx + 1)
  BY Zenon, <1>4, KeyAt
<1>6. pc # "done"
  OBVIOUS
<1>7. pkt \in Packets
  BY Zenon, <1>6 DEF WalkInv, PktInv
<1> QED BY Zenon, <1>1, <1>4, <1>5, <1>7

(* A query is redirected by a hit or by default. *)
LEMMA HostFrame ==
    ASSUME [Next]_vars, pc' = "done", verdict' = "host"
    PROVE  /\ UNCHANGED <<rules, default_action, pkt>>
           /\ \/ LookupHit /\ pc = "lookup" /\ suffix_rules[lookup] = ACTION_HOST_RESOLVE
              \/ default_action = ACTION_HOST_RESOLVE
              \/ UNCHANGED vars
  BY Zenon
     DEF Next, Receive, Load, WalkLabel, WalkInvalid, WalkEnd, Copy, LookupHit, LookupMiss,
         NoMatch, Pass, Resolve, vars, config

(* Every step keeps RedirectNeedsRule: only LookupHit could break it. *)
LEMMA RedirectStep ==
    SuffixInv /\ WalkInv /\ RedirectNeedsRule /\ [Next]_vars => RedirectNeedsRule'
<1> SUFFICES ASSUME SuffixInv, WalkInv, RedirectNeedsRule, [Next]_vars, pc' = "done",
                    verdict' = "host", default_action' # ACTION_HOST_RESOLVE
             PROVE  \E r \in Matching(pkt.name)' : r.action = ACTION_HOST_RESOLVE
  BY Zenon DEF RedirectNeedsRule, Finished, ACTION_HOST_RESOLVE
<1>1. /\ UNCHANGED <<rules, default_action, pkt>>
      /\ \/ LookupHit /\ pc = "lookup" /\ suffix_rules[lookup] = ACTION_HOST_RESOLVE
         \/ default_action = ACTION_HOST_RESOLVE
         \/ UNCHANGED vars
  BY Zenon, HostFrame
<1> SUFFICES \E r \in Matching(pkt.name) : r.action = ACTION_HOST_RESOLVE
  BY Zenon, <1>1 DEF Matching
<1>2. CASE UNCHANGED vars
  <2>1. pc = "done" /\ verdict = "host" /\ default_action # ACTION_HOST_RESOLVE
    BY Zenon, <1>1, <1>2 DEF vars
  <2> QED BY Zenon, <2>1 DEF RedirectNeedsRule, Finished
<1>3. CASE LookupHit /\ pc = "lookup" /\ suffix_rules[lookup] = ACTION_HOST_RESOLVE
  <2> DEFINE c == Len(label_offsets)
             t == idx + 1
  <2>1. pkt \in Packets /\ KeyFrom(pkt, lookup, c, Offset, t)
    BY Zenon, <1>3, CurrentKey
  <2>2. lookup \in DOMAIN suffix_rules
    BY Zenon, <1>3 DEF LookupHit
  <2>3. PICK r : Found(r)
    BY Zenon, <2>2, LookupFinds
  <2>4. r \in rules /\ EncodeSuffix(r.labels) = lookup /\ suffix_rules[lookup] = r.action
    BY Zenon, <2>3 DEF Found
  <2>5. Configured(rules)
    BY Zenon DEF WalkInv, ConfigInv
  <2>6. HasKey(r.labels)
    BY Zenon, <2>4, <2>5, RuleKey
  <2>7. EndsOrNoNul(Query(pkt), c, Offset, ToLower(r.labels))
    <3>1. \A i \in 1 .. Len(ToLower(r.labels)) : ToLower(r.labels)[i][1] # 0
      BY Zenon, <2>4, <2>5, RuleBytes
    <3> QED BY Zenon, <3>1 DEF EndsOrNoNul
  <2>8. KeyFrom(pkt, EncodeSuffix(r.labels), c, Offset, t)
    BY Zenon, <2>1, <2>4
  <2>9. HitRule(pkt, r.labels, c, t)
    BY Zenon, <2>1, <2>6, <2>7, <2>8, HitNamed
  <2>10. r \in Matching(pkt.name)
    BY Zenon, <2>4, <2>9 DEF HitRule, Matching
  <2> QED BY Zenon, <1>3, <2>4, <2>10
<1> QED BY Zenon, <1>1, <1>2, <1>3

(* The queries that LongestSuffixWins is about. *)
Plain == pkt \in Packets /\ pkt.name # <<>> /\ WithinLimits(pkt.name) /\ ~HasUpper(pkt.name)

(* Their walk stays within what was loaded. *)
TrackFacts(st) ==
    /\ OnTrack(pkt, Len(label_offsets), Offset, st)
    /\ Offset[Len(label_offsets) + 1] = pos
    /\ pos < remaining /\ pos < NameLen
    /\ st[Len(pkt.name) + 1] < NameLen
    /\ Len(label_offsets) \in Nat /\ Len(pkt.name) \in Nat

(* What holds of them at every step of the walk. *)
LEMMA PlainTrack ==
    ASSUME SuffixInv, WalkInv, Walking, Plain PROVE \E st : Carried(pkt, st) /\ TrackFacts(st)
<1> DEFINE c == Len(label_offsets)
           n == Len(pkt.name)
<1>1. IsName(pkt.name) /\ \E st : Carried(pkt, st)
  BY Zenon, PacketName DEF Plain
<1>2. PICK st : Carried(pkt, st)
  BY Zenon, <1>1
<1>3. /\ label_offsets \in Seq(Nat) /\ c \in Nat /\ pos \in Nat /\ Len(pkt.bytes) \in Nat
      /\ remaining \in 1 .. NameLen
  BY Zenon, WalkFacts
<1>4. Chained(Query(pkt), c, Offset) /\ (remaining = NameLen \/ remaining = Len(pkt.bytes))
  BY Zenon DEF WalkInv, ChainInv, RemainingInv, Offset
<1>5. OnTrack(pkt, c, Offset, st)
  BY Zenon, <1>2, <1>3, <1>4, KeepsTrack DEF Plain
<1>6. Offset[c + 1] = pos
  BY Zenon, <1>3, ChainIndex DEF Offset
<1>7. n \in Nat
  BY <1>1 DEF IsName
<1>8. /\ Len(Wire(pkt.name)) = st[n + 1] + 1 /\ Len(Wire(pkt.name)) <= Len(pkt.bytes)
      /\ Spelled(Query(pkt), pkt.name, st)
  BY Zenon, <1>2 DEF Carried
<1>9. st[n + 1] \in Nat
  <2>1. st \in [1 .. n + 1 -> Nat] /\ n + 1 \in 1 .. n + 1
    <3>1. st \in [1 .. n + 1 -> Nat]
      BY Zenon, <1>8 DEF Spelled, Chained
    <3>2. n + 1 \in 1 .. n + 1
      BY <1>7
    <3> QED BY Zenon, <3>1, <3>2
  <2> QED BY Zenon, <2>1
<1>10. pos <= st[n + 1]
  BY Zenon, <1>5, <1>6 DEF OnTrack
<1>11. Len(Wire(pkt.name)) <= NameLen
  BY Zenon DEF Plain, WithinLimits
<1>12. ASSUME NEW x \in Nat, NEW e \in Nat, NEW b \in Nat, NEW r \in Nat, x <= e,
              e + 1 <= NameLen, e + 1 <= b, r = NameLen \/ r = b
       PROVE  x < r /\ x < NameLen /\ e < NameLen
  BY <1>12, NameAssumption
<1>13. remaining \in Nat
  BY <1>3
<1>14. st[n + 1] + 1 <= NameLen /\ st[n + 1] + 1 <= Len(pkt.bytes)
  BY Zenon, <1>8, <1>11
<1>15. pos < remaining /\ pos < NameLen /\ st[n + 1] < NameLen
  BY Zenon, <1>3, <1>4, <1>9, <1>10, <1>12, <1>13, <1>14
<1> QED BY Zenon, <1>2, <1>3, <1>5, <1>6, <1>7, <1>15 DEF TrackFacts

(* The walk of such a query is never cut short. *)
LEMMA PlainWalks ==
    ASSUME SuffixInv, WalkInv, pc = "walk", Plain
    PROVE  /\ ~(~WalkOver /\ qname[pos % NameLen] > MaxLabelLen)
           /\ WalkOver => label_offsets # <<>> /\ ~TooLong
<1>0. Walking
  BY Zenon DEF Walking
<1>1. PICK st : Carried(pkt, st) /\ TrackFacts(st)
  BY Zenon, <1>0, PlainTrack
<1>2. /\ OnTrack(pkt, Len(label_offsets), Offset, st) /\ Offset[Len(label_offsets) + 1] = pos
      /\ pos < remaining /\ pos < NameLen
  BY Zenon, <1>1 DEF TrackFacts
<1>3. Query(pkt)[pos] <= MaxLabelLen /\ (Query(pkt)[pos] = 0 <=> Len(label_offsets) = Len(pkt.name))
  BY Zenon, <1>2 DEF OnTrack
<1>4. pos \in Nat /\ remaining \in 1 .. NameLen /\ Len(label_offsets) \in Nat
      /\ \A k \in 0 .. remaining - 1 : qname[k] = Query(pkt)[k] /\ qname[k] \in Nat
      /\ label_offsets \in Seq(Nat)
  BY Zenon, <1>0, WalkFacts
<1>5. pos \in 0 .. remaining - 1
  BY <1>2, <1>4
<1>6. pos % NameLen = pos
  BY Zenon, <1>2, <1>4, ModSmall
<1>7. qname[pos % NameLen] = Query(pkt)[pos] /\ qname[pos % NameLen] \in Nat
  BY Zenon, <1>4, <1>5, <1>6
<1>8. \A x \in Nat : x <= MaxLabelLen => ~(x > MaxLabelLen)
  BY NameAssumption
<1>9. ~(qname[pos % NameLen] > MaxLabelLen)
  BY Zenon, <1>3, <1>7, <1>8
<1>10. ~TooLong
  <2>1. ~(pos + 1 > NameLen) /\ ~(pos + 1 > remaining)
    BY <1>2, <1>4, NameAssumption
  <2> QED BY Zenon, <2>1 DEF TooLong, qname_total_len
<1>11. ASSUME WalkOver PROVE label_offsets # <<>>
  <2>1. ~(pos >= remaining) /\ ~(pos >= NameLen)
    BY <1>2, <1>4, NameAssumption
  <2>2. Len(label_offsets) = MaxLabels \/ qname[pos % NameLen] = 0
    BY Zenon, <1>11, <2>1 DEF WalkOver
  <2>3. Len(pkt.name) # 0
    <3>1. IsName(pkt.name)
      BY Zenon, PacketName DEF Plain
    <3> QED BY <3>1 DEF IsName
  <2>4. Len(label_offsets) = MaxLabels \/ Len(label_offsets) = Len(pkt.name)
    BY Zenon, <1>3, <1>7, <2>2
  <2>5. MaxLabels # 0
    BY BoundAssumption
  <2>6. Len(label_offsets) # 0
    BY Zenon, <2>3, <2>4, <2>5
  <2> QED BY <2>6
<1> QED BY Zenon, <1>9, <1>10, <1>11

(* The matching loop has every label of such a query. *)
LEMMA PlainEnds ==
    ASSUME SuffixInv, WalkInv, pc \in {"copy", "lookup"}, Plain
    PROVE  \E st : /\ Carried(pkt, st) /\ st[Len(pkt.name) + 1] < NameLen
                   /\ Len(label_offsets) = Len(pkt.name)
                   /\ \A i \in 1 .. Len(pkt.name) + 1 : Offset[i] = st[i]
                   /\ Query(pkt)[Offset[Len(pkt.name) + 1]] = 0
<1>0. Walking
  BY Zenon DEF Walking
<1> DEFINE c == Len(label_offsets)
           n == Len(pkt.name)
<1>1. PICK st : Carried(pkt, st) /\ TrackFacts(st)
  BY Zenon, <1>0, PlainTrack
<1>2. /\ OnTrack(pkt, c, Offset, st) /\ Offset[c + 1] = pos
      /\ st[n + 1] < NameLen /\ c \in Nat /\ n \in Nat
  BY Zenon, <1>1 DEF TrackFacts
<1>3. /\ c <= n /\ \A i \in 1 .. c + 1 : Offset[i] = st[i]
      /\ Query(pkt)[Offset[c + 1]] = 0 <=> c = n
  BY Zenon, <1>2 DEF OnTrack
<1>4. c = MaxLabels \/ Query(pkt)[pos] = 0
  BY Zenon DEF WalkInv, EndInv
<1>5. n <= MaxLabels
  BY Zenon DEF Plain, WithinLimits
<1> HIDE DEF c, n
<1>6. c = MaxLabels => c = n
  BY <1>2, <1>3, <1>5, BoundAssumption
<1>7. c = n
  BY Zenon, <1>2, <1>3, <1>4, <1>6
<1>8. \A i \in 1 .. n + 1 : Offset[i] = st[i]
  BY Zenon, <1>3, <1>7
<1>9. Query(pkt)[Offset[n + 1]] = 0
  BY Zenon, <1>3, <1>7
<1> QED BY Zenon, <1>1, <1>2, <1>7, <1>8, <1>9 DEF c, n

(* A matching rule is found at the label it starts at, not before. *)
Due(s) ==
    /\ Len(s.labels) \in 1 .. Len(label_offsets)
    /\ CopiedSuffix(label_offsets[Len(label_offsets) + 1 - Len(s.labels)]) = EncodeSuffix(s.labels)
    /\ idx + Len(s.labels) <= Len(label_offsets)

(* The loop has not passed the label where a matching rule starts. *)
LEMMA MatchDue ==
    ASSUME SuffixInv, WalkInv, pc \in {"copy", "lookup"}, Plain, NEW s \in Matching(pkt.name)
    PROVE  Due(s)
<1> DEFINE n == Len(pkt.name)
           m == Len(s.labels)
           t == n + 1 - m
           K == CopiedSuffix(label_offsets[t])
<1>1. PICK st : /\ Carried(pkt, st) /\ st[n + 1] < NameLen /\ Len(label_offsets) = n
                /\ \A i \in 1 .. n + 1 : Offset[i] = st[i]
  BY Zenon, PlainEnds
<1>2. s \in rules /\ IsSuffix(ToLower(s.labels), ToLower(pkt.name))
  BY Zenon DEF Matching
<1>3. Configured(rules) /\ suffix_rules = SuffixRules(rules)
  BY Zenon DEF WalkInv, ConfigInv
<1>4. HasKey(s.labels)
  BY Zenon, <1>2, <1>3, RuleKey
<1>5. IsName(pkt.name) /\ pkt \in Packets /\ pkt.name # <<>> /\ ~HasUpper(pkt.name)
  BY Zenon, PacketName DEF Plain
<1>6. IsName(s.labels)
  BY Zenon, <1>4 DEF HasKey
<1>7. MatchEnds(pkt.name, s.labels)
  BY Zenon, <1>2, <1>5, <1>6, MatchLabels
<1>8. m \in 1 .. n
  BY Zenon, <1>7 DEF MatchEnds
<1>9. n \in Nat /\ idx \in Nat
  <2>1. idx \in 0 .. MaxLabels
    BY Zenon DEF SuffixInv, TypeOK
  <2>2. n \in Nat
    BY <1>5 DEF IsName
  <2> QED BY <2>1, <2>2
<1> HIDE DEF n, m
<1>10. t \in 1 .. n /\ t \in 1 .. n + 1 /\ n + 1 \in 1 .. n + 1
  BY <1>8, <1>9
<1> HIDE DEF t
<1>11. IsCopy(K, Query(pkt), Offset[t], Offset[n + 1])
  BY Zenon, <1>1, <1>10, KeyAt
<1>12. Offset[t] = st[t] /\ Offset[n + 1] = st[n + 1]
  BY Zenon, <1>1, <1>10
<1> HIDE DEF K
<1>13. IsCopy(K, Query(pkt), st[Len(pkt.name) + 1 - Len(s.labels)], st[Len(pkt.name) + 1])
  BY Zenon, <1>11, <1>12 DEF n, m, t
<1>14. st[Len(pkt.name) + 1] < NameLen
  BY Zenon, <1>1 DEF n
<1>15. K = EncodeSuffix(s.labels)
  BY Zenon, <1>1, <1>4, <1>5, <1>7, <1>13, <1>14, MatchKey
<1>16. K \in DOMAIN suffix_rules
  <2>1. EncodeSuffix(s.labels) \in DOMAIN SuffixRules(rules)
    BY Zenon, <1>2, <1>3, RuleLookup
  <2> QED BY Zenon, <1>3, <1>15, <2>1
<1>17. t \notin 1 .. idx
  BY Zenon, <1>16 DEF K, WalkInv, TriedInv
<1>18. idx + m <= n
  BY <1>8, <1>9, <1>17 DEF t
<1> QED BY Zenon, <1>1, <1>8, <1>15, <1>18 DEF Due, K, t, m

-----------------------------------------------------------------------------
(* The rule that decides is a longest one. *)
LEMMA HitDecides ==
    ASSUME SuffixInv, WalkInv, pc = "lookup", Plain, lookup \in DOMAIN suffix_rules
    PROVE  suffix_rules[lookup] = ExpectedAction(pkt.name)
<1> DEFINE c == Len(label_offsets)
           t == idx + 1
<1>0. pc \in {"copy", "lookup"}
  BY Zenon
<1>1. /\ pkt \in Packets /\ t \in 1 .. c /\ lookup = CopiedSuffix(label_offsets[t])
      /\ KeyFrom(pkt, lookup, c, Offset, t)
  BY Zenon, CurrentKey
<1>2. PICK r : Found(r)
  BY Zenon, LookupFinds
<1>3. r \in rules /\ EncodeSuffix(r.labels) = lookup /\ suffix_rules[lookup] = r.action
  BY Zenon, <1>2 DEF Found
<1>4. Configured(rules)
  BY Zenon DEF WalkInv, ConfigInv
<1>5. HasKey(r.labels)
  BY Zenon, <1>3, <1>4, RuleKey
<1>6. PICK st : c = Len(pkt.name) /\ Query(pkt)[Offset[Len(pkt.name) + 1]] = 0
  BY Zenon, <1>0, PlainEnds
<1>7. EndsOrNoNul(Query(pkt), c, Offset, ToLower(r.labels))
  BY Zenon, <1>6 DEF EndsOrNoNul
<1>8. KeyFrom(pkt, EncodeSuffix(r.labels), c, Offset, t)
  BY Zenon, <1>1, <1>3
<1>9. HitRule(pkt, r.labels, c, t)
  BY Zenon, <1>1, <1>5, <1>7, <1>8, HitNamed
<1>10. r \in Matching(pkt.name) /\ Len(r.labels) = c + 1 - t
  BY Zenon, <1>3, <1>9 DEF HitRule, Matching
<1>11. c \in Nat /\ idx \in Nat
  <2>1. idx \in 0 .. MaxLabels
    BY Zenon DEF SuffixInv, TypeOK
  <2>2. c \in Nat
    BY Zenon, WalkFacts DEF Walking
  <2> QED BY <2>1, <2>2
<1>12. ASSUME NEW s \in Matching(pkt.name)
       PROVE  /\ Len(s.labels) \in Nat /\ Len(s.labels) <= Len(r.labels)
              /\ Len(s.labels) = Len(r.labels) => s.action = r.action
  <2>1. Due(s)
    BY Zenon, <1>0, MatchDue
  <2>2. /\ Len(s.labels) \in 1 .. c
        /\ CopiedSuffix(label_offsets[c + 1 - Len(s.labels)]) = EncodeSuffix(s.labels)
        /\ idx + Len(s.labels) <= c
    BY Zenon, <2>1 DEF Due
  <2>a. ASSUME NEW x \in 1 .. c, idx + x <= c
        PROVE  /\ x \in Nat /\ x <= c + 1 - t
               /\ x = c + 1 - t => c + 1 - x = t
    BY <1>1, <1>11, <2>a
  <2>3. Len(s.labels) \in Nat /\ Len(s.labels) <= Len(r.labels)
    BY Zenon, <1>10, <2>2, <2>a
  <2>4. ASSUME Len(s.labels) = Len(r.labels) PROVE s.action = r.action
    <3>1. c + 1 - Len(s.labels) = t
      BY Zenon, <1>10, <2>2, <2>4, <2>a
    <3>2. EncodeSuffix(s.labels) = EncodeSuffix(r.labels)
      BY Zenon, <1>1, <1>3, <2>2, <3>1
    <3>3. s \in rules
      BY Zenon DEF Matching
    <3> QED BY Zenon, <1>3, <1>4, <3>2, <3>3 DEF Configured, Accepted
  <2> QED BY Zenon, <2>3, <2>4
<1>13. ExpectedAction(pkt.name) = r.action
  BY Zenon, <1>10, <1>12, LongestAction
<1> QED BY Zenon, <1>3, <1>13

(* When the loop ends no rule matches. *)
LEMMA MissDecides ==
    ASSUME SuffixInv, WalkInv, pc = "copy", Plain, ~MoreSuffixes
    PROVE  default_action = ExpectedAction(pkt.name)
<1> DEFINE c == Len(label_offsets)
<1>0. Walking /\ pc \in {"copy", "lookup"}
  BY Zenon DEF Walking
<1>1. /\ label_offsets \in Seq(Nat) /\ c \in Nat /\ pos \in Nat /\ remaining \in 1 .. NameLen
  BY Zenon, <1>0, WalkFacts
<1>2. idx \in Nat /\ idx <= c
  <2>1. idx \in 0 .. MaxLabels
    BY Zenon DEF SuffixInv, TypeOK
  <2>2. idx <= c
    BY Zenon, <1>0 DEF WalkInv, TriedInv
  <2> QED BY <2>1, <2>2
<1>3. idx = c
  <2> SUFFICES ASSUME idx < c PROVE FALSE
    BY <1>1, <1>2
  <2>1. idx + 1 \in 1 .. c
    BY <1>1, <1>2
  <2>2. label_offsets[idx + 1] \in Nat
    BY <1>1, <2>1
  <2>3. label_offsets[idx + 1] < pos /\ pos < remaining
    BY Zenon, <1>0, <2>1 DEF SuffixInv, OffsetInv, FitInv
  <2>4. ASSUME NEW x \in Nat, x < pos PROVE (pos + 1) - x \in 1 .. NameLen
    BY <1>1, <2>3, <2>4, NameAssumption
  <2>5. (pos + 1) - label_offsets[idx + 1] \in 1 .. NameLen
    BY Zenon, <2>2, <2>3, <2>4
  <2> QED BY Zenon, <2>5 DEF MoreSuffixes, qname_total_len, suffix_start
<1>4. Matching(pkt.name) = {}
  <2> SUFFICES ASSUME NEW s \in Matching(pkt.name) PROVE FALSE
    BY Zenon
  <2>1. Due(s)
    BY Zenon, <1>0, MatchDue
  <2>2. Len(s.labels) \in 1 .. c /\ idx + Len(s.labels) <= c
    BY Zenon, <2>1 DEF Due
  <2>3. \A x \in 1 .. c : ~(idx + x <= c)
    BY <1>1, <1>3
  <2> QED BY Zenon, <2>2, <2>3
<1> QED BY Zenon, <1>4 DEF ExpectedAction

-----------------------------------------------------------------------------
(* How a query is left. *)
LEMMA FinishFrame ==
    ASSUME [Next]_vars, pc' = "done", verdict' # "none"
    PROVE  /\ UNCHANGED <<rules, default_action, pkt>>
           /\ \/ pc = "load" /\ pkt.bytes = <<>>
              \/ pc = "walk" /\ ~WalkOver /\ qname[pos % NameLen] > MaxLabelLen
              \/ pc = "walk" /\ WalkOver /\ (label_offsets = <<>> \/ TooLong)
              \/ /\ pc = "lookup" /\ lookup \in DOMAIN suffix_rules
                 /\ Resolve(suffix_rules[lookup])
              \/ pc = "copy" /\ ~MoreSuffixes /\ Resolve(default_action)
              \/ UNCHANGED vars
<1>1. UNCHANGED <<rules, default_action, pkt>>
  BY Zenon
     DEF Next, Receive, Load, WalkLabel, WalkInvalid, WalkEnd, Copy, LookupHit, LookupMiss,
         NoMatch, vars, config
<1>2. CASE Load
  BY Zenon, <1>1, <1>2 DEF Load, Pass
<1>3. CASE WalkInvalid \/ WalkEnd
  BY Zenon, <1>1, <1>3 DEF WalkInvalid, WalkEnd, Pass
<1>4. CASE LookupHit \/ NoMatch
  BY Zenon, <1>1, <1>4 DEF LookupHit, NoMatch
<1>5. CASE Receive(Packets) \/ WalkLabel \/ Copy \/ LookupMiss
  BY Zenon, <1>5 DEF Receive, WalkLabel, Copy, LookupMiss
<1> QED BY Zenon, <1>1, <1>2, <1>3, <1>4, <1>5 DEF Next

(* The expected action as a function of the matching rules and the default. *)
MostSpecific(M, default) ==
    IF M = {} THEN default
    ELSE (CHOOSE r \in M : \A s \in M : Len(s.labels) <= Len(r.labels)).action

(* Every step that leaves a query gives it the verdict that is expected. *)
LEMMA LongestStep ==
    SuffixInv /\ WalkInv /\ LongestSuffixWins /\ [Next]_vars => LongestSuffixWins'
<1> DEFINE Good(v) ==
               v = IF ExpectedAction(pkt.name) = ACTION_HOST_RESOLVE THEN "host" ELSE "cluster"
<1> SUFFICES ASSUME SuffixInv, WalkInv, LongestSuffixWins, [Next]_vars, Finished'
             PROVE  LongestSuffixWins'
  BY Zenon DEF LongestSuffixWins
<1>1. /\ UNCHANGED <<rules, default_action, pkt>>
      /\ \/ pc = "load" /\ pkt.bytes = <<>>
         \/ pc = "walk" /\ ~WalkOver /\ qname[pos % NameLen] > MaxLabelLen
         \/ pc = "walk" /\ WalkOver /\ (label_offsets = <<>> \/ TooLong)
         \/ pc = "lookup" /\ lookup \in DOMAIN suffix_rules /\ Resolve(suffix_rules[lookup])
         \/ pc = "copy" /\ ~MoreSuffixes /\ Resolve(default_action)
         \/ UNCHANGED vars
  BY Zenon, FinishFrame DEF Finished
<1>2. ExpectedAction(pkt.name)' = ExpectedAction(pkt.name)
  <2>1. Matching(pkt.name)' = Matching(pkt.name) /\ default_action' = default_action
    BY Zenon, <1>1 DEF Matching
  <2>2. ExpectedAction(pkt.name) = MostSpecific(Matching(pkt.name), default_action)
    BY Zenon DEF ExpectedAction, MostSpecific
  <2>3. ExpectedAction(pkt.name)' = MostSpecific(Matching(pkt.name)', default_action')
    BY Zenon DEF ExpectedAction, MostSpecific
  <2> QED BY Zenon, <2>1, <2>2, <2>3
<1> SUFFICES ASSUME pkt.name # <<>>, WithinLimits(pkt.name), ~HasUpper(pkt.name)
             PROVE  Good(verdict')
  BY Zenon, <1>1, <1>2 DEF LongestSuffixWins, WithinLimits, HasUpper
<1>3. CASE UNCHANGED vars
  <2>1. Finished
    BY Zenon, <1>3 DEF Finished, vars
  <2>2. Good(verdict)
    BY Zenon, <2>1 DEF LongestSuffixWins
  <2>3. verdict' = verdict
    BY Zenon, <1>3 DEF vars
  <2> HIDE DEF Good
  <2> QED BY Zenon, <2>2, <2>3
<1>4. ASSUME pc # "done" PROVE Plain
  BY Zenon, <1>4 DEF Plain, WalkInv, PktInv
<1>5. CASE pc = "load" /\ pkt.bytes = <<>>
  <2>1. Plain
    BY <1>4, <1>5
  <2>2. \E st : Carried(pkt, st)
    BY Zenon, <2>1, PacketName DEF Plain
  <2>3. PICK st : Carried(pkt, st)
    BY Zenon, <2>2
  <2>4. IsName(pkt.name)
    BY Zenon, <2>1, PacketName DEF Plain
  <2>5. /\ Len(Wire(pkt.name)) = st[Len(pkt.name) + 1] + 1
        /\ Len(Wire(pkt.name)) <= Len(pkt.bytes) /\ Spelled(Query(pkt), pkt.name, st)
    BY Zenon, <2>3 DEF Carried
  <2>6. Len(pkt.name) + 1 \in 1 .. Len(pkt.name) + 1
    BY <2>4 DEF IsName
  <2>7. st[Len(pkt.name) + 1] \in Nat
    BY Zenon, <2>5, <2>6 DEF Spelled, Chained
  <2>8. Len(pkt.bytes) = 0
    BY <1>5
  <2>9. \A x \in Nat : ~(x + 1 <= 0)
    OBVIOUS
  <2> QED BY Zenon, <2>5, <2>7, <2>8, <2>9
<1>6. CASE pc = "walk"
  <2>1. Plain
    BY <1>4, <1>6
  <2>2. /\ ~(~WalkOver /\ qname[pos % NameLen] > MaxLabelLen)
        /\ WalkOver => label_offsets # <<>> /\ ~TooLong
    BY Zenon, <1>6, <2>1, PlainWalks
  <2>3. UNCHANGED vars
    BY <1>1, <1>6, <2>2
  <2> QED BY Zenon, <1>3, <2>3
<1>7. CASE pc = "lookup" /\ lookup \in DOMAIN suffix_rules /\ Resolve(suffix_rules[lookup])
  <2>1. Plain
    BY <1>4, <1>7
  <2>2. suffix_rules[lookup] = ExpectedAction(pkt.name)
    BY Zenon, <1>7, <2>1, HitDecides
  <2> QED BY Zenon, <1>7, <2>2 DEF Resolve, Pass
<1>8. CASE pc = "copy" /\ ~MoreSuffixes /\ Resolve(default_action)
  <2>1. Plain
    BY <1>4, <1>8
  <2>2. default_action = ExpectedAction(pkt.name)
    BY Zenon, <1>8, <2>1, MissDecides
  <2> QED BY Zenon, <1>8, <2>2 DEF Resolve, Pass
<1> QED BY Zenon, <1>1, <1>3, <1>5, <1>6, <1>7, <1>8

-----------------------------------------------------------------------------
(* Both properties hold throughout. *)
MatchInv == SuffixInv /\ WalkInv /\ RedirectNeedsRule /\ LongestSuffixWins

(* No query is finished at first. *)
LEMMA InitMatch == Init => MatchInv
<1>1. Init => RedirectNeedsRule /\ LongestSuffixWins
  BY Zenon DEF Init, RedirectNeedsRule, LongestSuffixWins, Finished
<1> QED BY Zenon, <1>1, InitInv, InitWalk DEF MatchInv

(* Every step keeps the invariant. *)
LEMMA MatchStep == MatchInv /\ [Next]_vars => MatchInv'
  BY Zenon, NextInv, WalkStep, RedirectStep, LongestStep DEF MatchInv

(* It holds throughout. *)
LEMMA MatchInductive == Spec => []MatchInv
  BY InitMatch, MatchStep, PTL DEF Spec

(***************************************************************************)
(* dns_gateway_ingress redirects no query by mistake: with a default other *)
(* than host-resolve, a query that it redirects carries a name that some   *)
(* host-resolve rule is a suffix of.                                       *)
(***************************************************************************)
THEOREM RedirectsFollowRules == Spec => []RedirectNeedsRule
  BY MatchInductive, PTL DEF MatchInv

(***************************************************************************)
(* Looking up the suffixes of a name from the longest on decides as the    *)
(* definition says: the action of the rule with most labels that is a      *)
(* suffix of the name by whole labels, else the default action.            *)
(***************************************************************************)
THEOREM LongestSuffixDecides == Spec => []LongestSuffixWins
  BY MatchInductive, PTL DEF MatchInv
=============================================================================
