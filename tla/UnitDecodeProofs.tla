--------------------------- MODULE UnitDecodeProofs ---------------------------
(***************************************************************************)
(* Proofs about UnitDecode: what was taken back leaves nothing behind, and *)
(* every byte read is spoken for, whatever the message's extent, the       *)
(* bounds, the kinds of field and the quirks.  Inv carries the first: each *)
(* unit's nodes lie inside its space, in the order it read them, and every *)
(* record it holds is of one of its fields, or of a field further in, that *)
(* nothing has refused or taken over.  SpokenInv adds the second.          *)
(***************************************************************************)
EXTENDS UnitDecode, SequenceTheorems, WellFoundedInduction, TLAPS

(***************************************************************************)
(* Induction over the natural numbers, stated for a set of them, and the   *)
(* recursion of a loop: each term is a function of the one before it.      *)
(***************************************************************************)
(* A set of natural numbers that is not empty has a least member.          *)
LEMMA LeastNat ==
  ASSUME NEW S \in SUBSET Nat, S # {}
  PROVE  \E x \in S : \A y \in S : x <= y
<1> DEFINE R == {ss \in Nat \X Nat : ss[1] < ss[2]}
<1>1. IsWellFoundedOn(R, Nat)
  BY NatLessThanWellFounded DEF OpToRel
<1>2. PICK x \in S : \A y \in S : <<y, x>> \notin R
  <2> HIDE DEF R
  <2> QED
    BY <1>1, WFMin
<1>3. \A y \in S : ~(y < x)
  BY <1>2
<1> QED
  BY <1>3

(* The least number outside such a set would have no predecessor.          *)
LEMMA SetInduction ==
  ASSUME NEW S, 0 \in S, \A n \in Nat : n \in S => n + 1 \in S
  PROVE  Nat \subseteq S
<1> SUFFICES ASSUME Nat \ S # {} PROVE FALSE
  OBVIOUS
<1>1. PICK x \in Nat \ S : \A y \in Nat \ S : x <= y
  BY LeastNat
<1>2. x - 1 \in Nat /\ x - 1 \notin Nat \ S
  BY <1>1
<1> QED
  BY <1>1, <1>2

(* f starts at c, and G says what comes next at each place.                *)
Iterates(f, D, c, G, m) ==
  /\ f \in [0 .. m -> D]
  /\ f[0] = c
  /\ \A k \in 1 .. m : f[k] = G[<<k, f[k - 1]>>]

(* There is such a function, on every interval.                            *)
LEMMA SomeIterates ==
  ASSUME NEW D, NEW c \in D, NEW m \in Nat, NEW G \in [(1 .. m) \X D -> D]
  PROVE  \E f : Iterates(f, D, c, G, m)
<1> DEFINE S == {i \in Nat : i <= m => \E f : Iterates(f, D, c, G, i)}
<1>1. 0 \in S
  <2> DEFINE f == [j \in 0 .. 0 |-> c]
  <2>1. Iterates(f, D, c, G, 0)
    BY DEF Iterates
  <2> QED
    BY <2>1
<1>2. ASSUME NEW i \in Nat, i \in S PROVE i + 1 \in S
  <2> SUFFICES ASSUME i + 1 <= m PROVE \E f : Iterates(f, D, c, G, i + 1)
    OBVIOUS
  <2>1. PICK f : Iterates(f, D, c, G, i)
    BY <1>2
  <2>2. f[i] \in D /\ i + 1 \in 1 .. m
    BY <2>1 DEF Iterates
  <2>3. PICK last \in D : last = G[<<i + 1, f[i]>>]
    BY <2>2
  <2> DEFINE h == [j \in 0 .. i + 1 |-> IF j <= i THEN f[j] ELSE last]
  <2>4. h \in [0 .. i + 1 -> D] /\ h[0] = c
    BY <2>1, <2>3 DEF Iterates
  <2>5. ASSUME NEW j \in 1 .. i + 1 PROVE h[j] = G[<<j, h[j - 1]>>]
    <3>1. CASE j <= i
      <4>1. j \in 1 .. i /\ j - 1 \in 0 .. i /\ j \in 0 .. i + 1 /\ j - 1 \in 0 .. i + 1
        BY <3>1
      <4>2. f[j] = G[<<j, f[j - 1]>>] /\ h[j] = f[j] /\ h[j - 1] = f[j - 1]
        BY <2>1, <3>1, <4>1 DEF Iterates
      <4> QED
        BY <4>2
    <3>2. CASE j = i + 1
      <4>1. h[j] = last /\ h[j - 1] = f[i]
        BY <3>2
      <4> QED
        BY <2>3, <3>2, <4>1
    <3> QED
      BY <3>1, <3>2
  <2>6. Iterates(h, D, c, G, i + 1)
    <3> HIDE DEF h
    <3> QED
      BY <2>4, <2>5 DEF Iterates
  <2> QED
    BY <2>6
<1>3. Nat \subseteq S
  <2> HIDE DEF S
  <2> QED
    BY <1>1, <1>2, SetInduction
<1> QED
  BY <1>3

(***************************************************************************)
(* Sequences of anything: nodes nest, so that no set holds them all.       *)
(***************************************************************************)
IsSeq(s) == s \in Seq(ToSet(s))

LEMMA EmptyIsSeq == IsSeq(<<>>) /\ Len(<<>>) = 0 /\ DOMAIN <<>> = 1 .. 0
BY DEF IsSeq, ToSet

LEMMA IsSeqOf ==
  ASSUME NEW S, NEW s \in Seq(S)
  PROVE  IsSeq(s)
<1>1. \A i \in 1 .. Len(s) : s[i] \in ToSet(s)
  BY DEF ToSet
<1>2. s = [i \in 1 .. Len(s) |-> s[i]] /\ Len(s) \in Nat
  OBVIOUS
<1>3. [i \in 1 .. Len(s) |-> s[i]] \in [1 .. Len(s) -> ToSet(s)]
  BY <1>1
<1>4. s \in UNION {[1 .. n -> ToSet(s)] : n \in Nat}
  BY <1>2, <1>3
<1> QED
  BY <1>1, <1>2 DEF IsSeq

LEMMA SeqDomain ==
  ASSUME NEW s, IsSeq(s)
  PROVE  Len(s) \in Nat /\ DOMAIN s = 1 .. Len(s)
BY DEF IsSeq

LEMMA AppendSeq ==
  ASSUME NEW s, IsSeq(s), NEW x
  PROVE  /\ IsSeq(Append(s, x))
         /\ Len(Append(s, x)) = Len(s) + 1
         /\ Len(s) \in Nat
         /\ DOMAIN s = 1 .. Len(s)
         /\ DOMAIN Append(s, x) = 1 .. Len(s) + 1
         /\ Append(s, x)[Len(s) + 1] = x
         /\ \A i \in 1 .. Len(s) : Append(s, x)[i] = s[i]
<1>1. PICK S : S = ToSet(s) \cup {x}
  OBVIOUS
<1>2. s \in Seq(S) /\ x \in S
  BY <1>1, SeqMonotonic DEF IsSeq
<1>3. Append(s, x) \in Seq(S)
  BY <1>2
<1>4. IsSeq(Append(s, x))
  BY <1>3, IsSeqOf
<1> QED
  BY <1>2, <1>4

LEMMA FrontSeq ==
  ASSUME NEW s, IsSeq(s), s # <<>>
  PROVE  /\ IsSeq(Front(s))
         /\ Len(s) \in Nat \ {0}
         /\ DOMAIN s = 1 .. Len(s)
         /\ Len(Front(s)) = Len(s) - 1
         /\ DOMAIN Front(s) = 1 .. Len(s) - 1
         /\ \A i \in 1 .. Len(s) - 1 : Front(s)[i] = s[i]
<1>1. PICK S : S = ToSet(s)
  OBVIOUS
<1>2. s \in Seq(S) /\ Len(s) \in Nat \ {0} /\ DOMAIN s = 1 .. Len(s)
  BY <1>1 DEF IsSeq
<1>3. \A i \in 1 .. Len(s) - 1 : s[i] \in S
  BY <1>2
<1>4. /\ Front(s) \in Seq(S)
      /\ Len(Front(s)) = Len(s) - 1
      /\ \A i \in 1 .. Len(s) - 1 : Front(s)[i] = s[i]
  <2>1. /\ SubSeq(s, 1, Len(s) - 1) \in Seq(S)
        /\ Len(SubSeq(s, 1, Len(s) - 1)) = IF 1 <= Len(s) - 1 THEN Len(s) - 1 - 1 + 1 ELSE 0
        /\ \A i \in 1 .. Len(s) - 1 - 1 + 1 : SubSeq(s, 1, Len(s) - 1)[i] = s[1 + i - 1]
    BY <1>2, <1>3, SubSeqProperties
  <2> QED
    BY <1>2, <2>1 DEF Front
<1>5. IsSeq(Front(s)) /\ DOMAIN Front(s) = 1 .. Len(Front(s))
  BY <1>4, IsSeqOf
<1> QED
  BY <1>2, <1>4, <1>5

(***************************************************************************)
(* Writes.                                                                 *)
(***************************************************************************)
Reasons == {"none", "undecodable", "skipped"}

Write == [tag : {"record", "region"}, from : Int, to : Int, role : Seq(Nat), reason : Reasons]

(* The fields a sequence of writes has records of, and that it has no two  *)
(* of one.                                                                 *)
Roles(writes) == {writes[k].role : k \in {j \in DOMAIN writes : IsRecord(writes[j])}}

Distinct(writes) ==
  \A i, j \in DOMAIN writes :
    IsRecord(writes[i]) /\ IsRecord(writes[j]) /\ writes[i].role = writes[j].role => i = j

LEMMA RecordWrite ==
  ASSUME NEW from \in Int, NEW to \in Int, NEW role \in Seq(Nat)
  PROVE  /\ RecordOf(from, to, role) \in Write
         /\ <<RecordOf(from, to, role)>> \in Seq(Write)
         /\ Roles(<<RecordOf(from, to, role)>>) = {role}
         /\ Distinct(<<RecordOf(from, to, role)>>)
<1>1. RecordOf(from, to, role) \in Write /\ IsRecord(RecordOf(from, to, role))
      /\ RecordOf(from, to, role).role = role
  BY DEF RecordOf, Write, Reasons, IsRecord
<1> QED
  BY <1>1 DEF Roles, Distinct

LEMMA NamingWrite ==
  ASSUME NEW node, node.from \in Int, node.to \in Int, NEW reason \in Reasons
  PROVE  /\ Naming(node, reason) \in Seq(Write)
         /\ Roles(Naming(node, reason)) = {}
         /\ Distinct(Naming(node, reason))
<1>1. RegionOf(node.from, node.to, reason) \in Write
      /\ ~IsRecord(RegionOf(node.from, node.to, reason))
  BY DEF RegionOf, Write, Reasons, IsRecord
<1> QED
  BY <1>1 DEF Roles, Distinct, Naming

LEMMA NoWrites == <<>> \in Seq(Write) /\ Roles(<<>>) = {} /\ Distinct(<<>>)
BY DEF Roles, Distinct

LEMMA JoinedWrites ==
  ASSUME NEW ws \in Seq(Write), NEW vs \in Seq(Write)
  PROVE  /\ ws \o vs \in Seq(Write)
         /\ Roles(ws \o vs) = Roles(ws) \cup Roles(vs)
         /\ Distinct(ws) /\ Distinct(vs) /\ Roles(ws) \cap Roles(vs) = {}
              => Distinct(ws \o vs)
<1>1. PICK us : us = ws \o vs
  OBVIOUS
<1>2. /\ us \in Seq(Write)
      /\ Len(us) = Len(ws) + Len(vs)
      /\ \A i \in 1 .. Len(ws) : us[i] = ws[i]
      /\ \A i \in 1 .. Len(vs) : us[Len(ws) + i] = vs[i]
      /\ \A i \in DOMAIN us : i \in 1 .. Len(ws) \/ i - Len(ws) \in 1 .. Len(vs)
  BY <1>1
<1>3. /\ DOMAIN us = 1 .. Len(us) /\ DOMAIN ws = 1 .. Len(ws) /\ DOMAIN vs = 1 .. Len(vs)
      /\ Len(ws) \in Nat /\ Len(vs) \in Nat
  BY <1>2
<1>4. Roles(us) \subseteq Roles(ws) \cup Roles(vs)
  <2> SUFFICES ASSUME NEW k \in DOMAIN us, IsRecord(us[k])
               PROVE  us[k].role \in Roles(ws) \cup Roles(vs)
    BY DEF Roles
  <2>1. CASE k \in 1 .. Len(ws)
    BY <1>2, <1>3, <2>1 DEF Roles
  <2>2. CASE k - Len(ws) \in 1 .. Len(vs)
    <3>1. us[k] = vs[k - Len(ws)]
      BY <1>2, <1>3, <2>2
    <3> QED
      BY <1>3, <2>2, <3>1 DEF Roles
  <2> QED
    BY <1>2, <2>1, <2>2
<1>5. Roles(ws) \subseteq Roles(us)
  BY <1>2, <1>3 DEF Roles
<1>6. Roles(vs) \subseteq Roles(us)
  <2> SUFFICES ASSUME NEW k \in DOMAIN vs, IsRecord(vs[k]) PROVE vs[k].role \in Roles(us)
    BY DEF Roles
  <2>1. Len(ws) + k \in DOMAIN us /\ us[Len(ws) + k] = vs[k]
    BY <1>2, <1>3
  <2> QED
    BY <2>1 DEF Roles
<1>7. ASSUME Distinct(ws), Distinct(vs), Roles(ws) \cap Roles(vs) = {} PROVE Distinct(us)
  <2> SUFFICES ASSUME NEW i \in DOMAIN us, NEW j \in DOMAIN us,
                      IsRecord(us[i]), IsRecord(us[j]), us[i].role = us[j].role
               PROVE  i = j
    BY DEF Distinct
  <2>1. CASE i \in 1 .. Len(ws) /\ j \in 1 .. Len(ws)
    BY <1>2, <1>3, <1>7, <2>1 DEF Distinct
  <2>2. CASE i - Len(ws) \in 1 .. Len(vs) /\ j - Len(ws) \in 1 .. Len(vs)
    <3>1. us[i] = vs[i - Len(ws)] /\ us[j] = vs[j - Len(ws)]
      BY <1>2, <1>3, <2>2
    <3>2. i - Len(ws) = j - Len(ws)
      BY <1>3, <1>7, <2>2, <3>1 DEF Distinct
    <3> QED
      BY <1>3, <3>2
  <2>3. ASSUME NEW m \in 1 .. Len(ws), NEW n, n - Len(ws) \in 1 .. Len(vs), n \in DOMAIN us,
               IsRecord(us[m]), IsRecord(us[n]), us[m].role = us[n].role
        PROVE  FALSE
    <3>1. us[m] = ws[m] /\ us[n] = vs[n - Len(ws)]
      BY <1>2, <1>3, <2>3
    <3>2. us[m].role \in Roles(ws) /\ us[n].role \in Roles(vs)
      BY <1>3, <2>3, <3>1 DEF Roles
    <3> QED
      BY <1>7, <2>3, <3>2
  <2> QED
    BY <1>2, <2>1, <2>2, <2>3
<1> QED
  BY <1>1, <1>2, <1>4, <1>5, <1>6, <1>7

LEMMA JoinedSet ==
  ASSUME NEW ws \in Seq(Write), NEW vs \in Seq(Write)
  PROVE  ToSet(ws \o vs) = ToSet(ws) \cup ToSet(vs)
<1>1. PICK us : us = ws \o vs
  OBVIOUS
<1>2. /\ Len(ws) \in Nat /\ Len(vs) \in Nat
      /\ DOMAIN us = 1 .. Len(ws) + Len(vs) /\ DOMAIN ws = 1 .. Len(ws) /\ DOMAIN vs = 1 .. Len(vs)
      /\ \A i \in 1 .. Len(ws) : us[i] = ws[i]
      /\ \A i \in 1 .. Len(vs) : us[Len(ws) + i] = vs[i]
  BY <1>1
<1>3. ToSet(us) \subseteq ToSet(ws) \cup ToSet(vs)
  <2> SUFFICES ASSUME NEW k \in DOMAIN us PROVE us[k] \in ToSet(ws) \cup ToSet(vs)
    BY DEF ToSet
  <2>1. CASE k <= Len(ws)
    BY <1>2, <2>1 DEF ToSet
  <2>2. CASE ~(k <= Len(ws))
    <3>1. k - Len(ws) \in DOMAIN vs /\ us[k] = vs[k - Len(ws)]
      BY <1>2, <2>2
    <3> QED
      BY <3>1 DEF ToSet
  <2> QED
    BY <2>1, <2>2
<1>4. ASSUME NEW k \in DOMAIN vs PROVE vs[k] \in ToSet(us)
  <2>1. Len(ws) + k \in DOMAIN us /\ us[Len(ws) + k] = vs[k]
    BY <1>2
  <2> QED
    BY <2>1 DEF ToSet
<1>5. ToSet(ws) \subseteq ToSet(us) /\ ToSet(vs) \subseteq ToSet(us)
  BY <1>2, <1>4 DEF ToSet
<1> QED
  BY <1>1, <1>3, <1>5

(* One sequence of writes has no field's record more than another.         *)
Thins(vs, ws) ==
  vs \in Seq(Write) /\ Roles(vs) \subseteq Roles(ws) /\ (Distinct(ws) => Distinct(vs))

LEMMA ThinsBoth ==
  ASSUME NEW ws \in Seq(Write), NEW vs, Thins(vs, ws), NEW us, Thins(us, vs)
  PROVE  Thins(us, ws)
BY DEF Thins

LEMMA NamingThins ==
  ASSUME NEW ws \in Seq(Write), NEW vs, Thins(vs, ws),
         NEW node, node.from \in Int, node.to \in Int, NEW reason \in Reasons
  PROVE  Thins(vs \o Naming(node, reason), ws)
                /\ Roles(vs \o Naming(node, reason)) = Roles(vs)
<1>1. PICK region : region = Naming(node, reason)
  OBVIOUS
<1>2. region \in Seq(Write) /\ Roles(region) = {} /\ Distinct(region)
  BY <1>1, NamingWrite
<1>3. /\ vs \o region \in Seq(Write) /\ Roles(vs \o region) = Roles(vs)
      /\ Distinct(vs) => Distinct(vs \o region)
  <2>1. vs \in Seq(Write) /\ Roles(vs) \cap Roles(region) = {}
    BY <1>2 DEF Thins
  <2>2. /\ vs \o region \in Seq(Write) /\ Roles(vs \o region) = Roles(vs) \cup Roles(region)
        /\ Distinct(vs) => Distinct(vs \o region)
    BY <1>2, <2>1, JoinedWrites
  <2> QED
    BY <1>2, <2>2
<1> QED
  BY <1>1, <1>3 DEF Thins

LEMMA MaxOfSome ==
  ASSUME NEW n \in Nat, NEW S \in SUBSET (1 .. n), S # {}
  PROVE  Max(S) \in S /\ \A i \in S : i <= Max(S)
<1> DEFINE T == {k \in Nat : n - k \in S}
<1>1. T \in SUBSET Nat /\ T # {}
  <2>1. PICK i \in S : TRUE
    OBVIOUS
  <2>2. n - i \in Nat /\ n - (n - i) = i
    BY <2>1
  <2>3. n - i \in T
    BY <2>1, <2>2
  <2> QED
    BY <2>3
<1>2. PICK k \in T : \A m \in T : k <= m
  <2> HIDE DEF T
  <2> QED
    BY <1>1, LeastNat
<1>3. n - k \in S /\ k \in Nat
  BY <1>2
<1>4. ASSUME NEW i \in S PROVE n - k >= i
  <2>1. n - i \in T
    OBVIOUS
  <2>2. k <= n - i
    BY <1>2, <2>1
  <2> QED
    BY <1>3, <2>2
<1>5. \E x \in S : \A y \in S : x >= y
  BY <1>3, <1>4
<1>6. Max(S) \in S /\ \A y \in S : Max(S) >= y
  BY <1>5 DEF Max
<1> QED
  BY <1>6

LEMMA RemovedWrite ==
  ASSUME NEW ws \in Seq(Write), NEW i \in 1 .. Len(ws)
  PROVE  /\ RemoveAt(ws, i) \in Seq(Write)
         /\ Len(RemoveAt(ws, i)) = Len(ws) - 1
         /\ \A j \in 1 .. Len(ws) - 1 : RemoveAt(ws, i)[j] = IF j < i THEN ws[j] ELSE ws[j + 1]
<1>1. Len(ws) \in Nat /\ \A j \in 1 .. Len(ws) : ws[j] \in Write
  OBVIOUS
<1>2. PICK lo : lo = SubSeq(ws, 1, i - 1)
  OBVIOUS
<1>3. PICK hi : hi = SubSeq(ws, i + 1, Len(ws))
  OBVIOUS
<1>4. /\ lo \in Seq(Write) /\ Len(lo) = i - 1
      /\ \A j \in 1 .. i - 1 : lo[j] = ws[j]
  <2>1. \A j \in 1 .. i - 1 : ws[j] \in Write
    BY <1>1
  <2>2. /\ lo \in Seq(Write) /\ Len(lo) = IF 1 <= i - 1 THEN i - 1 - 1 + 1 ELSE 0
        /\ \A j \in 1 .. i - 1 - 1 + 1 : lo[j] = ws[1 + j - 1]
    BY <1>2, <2>1, SubSeqProperties
  <2> QED
    BY <2>2
<1>5. /\ hi \in Seq(Write) /\ Len(hi) = Len(ws) - i
      /\ \A j \in 1 .. Len(ws) - i : hi[j] = ws[i + j]
  <2>1. \A j \in i + 1 .. Len(ws) : ws[j] \in Write
    BY <1>1
  <2>2. /\ hi \in Seq(Write)
        /\ Len(hi) = IF i + 1 <= Len(ws) THEN Len(ws) - (i + 1) + 1 ELSE 0
        /\ \A j \in 1 .. Len(ws) - (i + 1) + 1 : hi[j] = ws[i + 1 + j - 1]
    BY <1>1, <1>3, <2>1, SubSeqProperties
  <2> QED
    BY <1>1, <2>2
<1>6. /\ lo \o hi \in Seq(Write) /\ Len(lo \o hi) = Len(ws) - 1
      /\ \A j \in 1 .. Len(ws) - 1 : (lo \o hi)[j] = IF j < i THEN ws[j] ELSE ws[j + 1]
  <2>1. /\ lo \o hi \in Seq(Write) /\ Len(lo \o hi) = Len(lo) + Len(hi)
        /\ \A j \in 1 .. Len(lo) + Len(hi) :
              (lo \o hi)[j] = IF j <= Len(lo) THEN lo[j] ELSE hi[j - Len(lo)]
    BY <1>4, <1>5, ConcatProperties
  <2>2. ASSUME NEW j \in 1 .. Len(ws) - 1 PROVE (lo \o hi)[j] = IF j < i THEN ws[j] ELSE ws[j + 1]
    <3>1. CASE j < i
      BY <1>1, <1>4, <1>5, <2>1, <3>1
    <3>2. CASE ~(j < i)
      <4>1. j - Len(lo) \in 1 .. Len(ws) - i /\ i + (j - Len(lo)) = j + 1 /\ ~(j <= Len(lo))
        BY <1>1, <1>4, <3>2
      <4>2. (lo \o hi)[j] = hi[j - Len(lo)]
        BY <1>1, <1>4, <1>5, <2>1, <4>1
      <4> QED
        BY <1>5, <3>2, <4>1, <4>2
    <3> QED
      BY <3>1, <3>2
  <2> QED
    BY <1>1, <1>4, <1>5, <2>1, <2>2
<1> QED
  BY <1>2, <1>3, <1>6 DEF RemoveAt

(* What is left once one write is taken back, and what is gone.            *)
LEMMA RemovedThins ==
  ASSUME NEW ws \in Seq(Write), NEW i \in 1 .. Len(ws)
  PROVE  /\ Thins(RemoveAt(ws, i), ws)
         /\ Distinct(ws) /\ IsRecord(ws[i]) => ws[i].role \notin Roles(RemoveAt(ws, i))
         /\ ToSet(ws) \ {ws[i]} \subseteq ToSet(RemoveAt(ws, i))
         /\ ToSet(RemoveAt(ws, i)) \subseteq ToSet(ws)
<1>1. PICK us : us = RemoveAt(ws, i)
  OBVIOUS
<1>2. /\ us \in Seq(Write) /\ Len(us) = Len(ws) - 1 /\ Len(ws) \in Nat
      /\ DOMAIN us = 1 .. Len(ws) - 1 /\ DOMAIN ws = 1 .. Len(ws)
      /\ \A j \in 1 .. Len(ws) - 1 : us[j] = IF j < i THEN ws[j] ELSE ws[j + 1]
  BY <1>1, RemovedWrite
<1>3. \A j \in DOMAIN us : \E k \in DOMAIN ws :
        us[j] = ws[k] /\ k # i /\ k = IF j < i THEN j ELSE j + 1
  <2> TAKE j \in DOMAIN us
  <2>1. CASE j < i
    BY <1>2, <2>1
  <2>2. CASE ~(j < i)
    <3>1. j + 1 \in DOMAIN ws /\ us[j] = ws[j + 1] /\ j + 1 # i
      BY <1>2, <2>2
    <3> QED
      BY <2>2, <3>1
  <2> QED
    BY <2>1, <2>2
<1>4. Roles(us) \subseteq Roles(ws) /\ ToSet(us) \subseteq ToSet(ws)
  BY <1>3 DEF Roles, ToSet
<1>5. ASSUME Distinct(ws) PROVE Distinct(us)
  <2> SUFFICES ASSUME NEW m \in DOMAIN us, NEW n \in DOMAIN us,
                      IsRecord(us[m]), IsRecord(us[n]), us[m].role = us[n].role
               PROVE  m = n
    BY DEF Distinct
  <2>1. PICK k \in DOMAIN ws : us[m] = ws[k] /\ k = IF m < i THEN m ELSE m + 1
    BY <1>3
  <2>2. PICK l \in DOMAIN ws : us[n] = ws[l] /\ l = IF n < i THEN n ELSE n + 1
    BY <1>3
  <2>3. k = l
    BY <1>5, <2>1, <2>2 DEF Distinct
  <2> QED
    BY <1>2, <2>1, <2>2, <2>3
<1>6. ASSUME Distinct(ws), IsRecord(ws[i]) PROVE ws[i].role \notin Roles(us)
  <2> SUFFICES ASSUME NEW m \in DOMAIN us, IsRecord(us[m]), us[m].role = ws[i].role PROVE FALSE
    BY DEF Roles
  <2>1. PICK k \in DOMAIN ws : us[m] = ws[k] /\ k # i
    BY <1>3
  <2> QED
    BY <1>2, <1>6, <2>1 DEF Distinct
<1>7. ToSet(ws) \ {ws[i]} \subseteq ToSet(us)
  <2> SUFFICES ASSUME NEW k \in DOMAIN ws, k # i PROVE ws[k] \in ToSet(us)
    BY DEF ToSet
  <2>1. CASE k < i
    BY <1>2, <2>1 DEF ToSet
  <2>2. CASE k > i
    <3>1. k - 1 \in DOMAIN us /\ us[k - 1] = ws[k]
      BY <1>2, <2>2
    <3> QED
      BY <3>1 DEF ToSet
  <2> QED
    BY <1>2, <2>1, <2>2
<1> QED
  BY <1>1, <1>2, <1>4, <1>5, <1>6, <1>7 DEF Thins

(* What is taken back is one write that was found, if any was.             *)
LEMMA LastThins ==
  ASSUME NEW ws \in Seq(Write), NEW found \in SUBSET DOMAIN ws
  PROVE  /\ Thins(WithoutLast(ws, found), ws)
         /\ found = {} => WithoutLast(ws, found) = ws
         /\ found # {} => \E i \in found :
              /\ WithoutLast(ws, found) = RemoveAt(ws, i)
              /\ Distinct(ws) /\ IsRecord(ws[i]) => ws[i].role \notin Roles(WithoutLast(ws, found))
              /\ ToSet(ws) \ {ws[i]} \subseteq ToSet(WithoutLast(ws, found))
              /\ ToSet(WithoutLast(ws, found)) \subseteq ToSet(ws)
<1>1. CASE found = {}
  BY <1>1 DEF WithoutLast, Thins
<1>2. CASE found # {}
  <2>1. Len(ws) \in Nat /\ DOMAIN ws = 1 .. Len(ws)
    OBVIOUS
  <2>2. PICK i : i = Max(found)
    OBVIOUS
  <2>3. i \in found /\ i \in 1 .. Len(ws)
    BY <1>2, <2>1, <2>2, MaxOfSome
  <2>4. WithoutLast(ws, found) = RemoveAt(ws, i)
    BY <1>2, <2>2 DEF WithoutLast
  <2>5. /\ Thins(RemoveAt(ws, i), ws)
        /\ Distinct(ws) /\ IsRecord(ws[i]) => ws[i].role \notin Roles(RemoveAt(ws, i))
        /\ ToSet(ws) \ {ws[i]} \subseteq ToSet(RemoveAt(ws, i))
        /\ ToSet(RemoveAt(ws, i)) \subseteq ToSet(ws)
    BY <2>3, RemovedThins
  <2> QED
    BY <1>2, <2>3, <2>4, <2>5
<1> QED
  BY <1>1, <1>2

(* A field whose record is taken back has none, and nothing else is lost.  *)
LEMMA RetractThins ==
  ASSUME NEW ws \in Seq(Write), NEW role
  PROVE  /\ Thins(Retract(ws, role), ws)
         /\ Distinct(ws) => role \notin Roles(Retract(ws, role))
         /\ ToSet(Retract(ws, role)) \subseteq ToSet(ws)
         /\ \A w \in ToSet(ws) : w \in ToSet(Retract(ws, role)) \/ (IsRecord(w) /\ w.role = role)
<1>1. PICK found : found = {k \in DOMAIN ws : IsRecord(ws[k]) /\ ws[k].role = role}
  OBVIOUS
<1>2. found \in SUBSET DOMAIN ws /\ Retract(ws, role) = WithoutLast(ws, found)
  BY <1>1 DEF Retract
<1>3. Thins(WithoutLast(ws, found), ws)
  BY <1>2, LastThins
<1>4. CASE found = {}
  <2>1. role \notin Roles(ws) /\ WithoutLast(ws, found) = ws
    BY <1>1, <1>2, <1>4, LastThins DEF Roles
  <2> QED
    BY <1>2, <1>3, <2>1
<1>5. CASE found # {}
  <2>1. PICK i \in found :
          /\ Distinct(ws) /\ IsRecord(ws[i]) => ws[i].role \notin Roles(WithoutLast(ws, found))
          /\ ToSet(ws) \ {ws[i]} \subseteq ToSet(WithoutLast(ws, found))
          /\ ToSet(WithoutLast(ws, found)) \subseteq ToSet(ws)
    BY <1>2, <1>5, LastThins
  <2>2. IsRecord(ws[i]) /\ ws[i].role = role
    BY <1>1, <2>1
  <2> QED
    BY <1>2, <1>3, <2>1, <2>2
<1> QED
  BY <1>4, <1>5

LEMMA WithdrawThins ==
  ASSUME NEW ws \in Seq(Write), NEW node
  PROVE  /\ Thins(Withdraw(ws, node), ws)
         /\ ToSet(Withdraw(ws, node)) \subseteq ToSet(ws)
         /\ \A w \in ToSet(ws) : \/ w \in ToSet(Withdraw(ws, node))
                                 \/ w = RegionOf(node.from, node.to, "skipped")
<1>1. PICK found : found = {k \in DOMAIN ws : ws[k] = RegionOf(node.from, node.to, "skipped")}
  OBVIOUS
<1>2. found \in SUBSET DOMAIN ws /\ Withdraw(ws, node) = WithoutLast(ws, found)
  BY <1>1 DEF Withdraw
<1>3. Thins(WithoutLast(ws, found), ws)
  BY <1>2, LastThins
<1>4. CASE found = {}
  BY <1>2, <1>3, <1>4, LastThins
<1>5. CASE found # {}
  <2>1. PICK i \in found :
          /\ ToSet(ws) \ {ws[i]} \subseteq ToSet(WithoutLast(ws, found))
          /\ ToSet(WithoutLast(ws, found)) \subseteq ToSet(ws)
    BY <1>2, <1>5, LastThins
  <2>2. ws[i] = RegionOf(node.from, node.to, "skipped")
    BY <1>1, <2>1
  <2> QED
    BY <1>2, <1>3, <2>1, <2>2
<1> QED
  BY <1>4, <1>5

LEMMA AddedRecord ==
  ASSUME NEW ws \in Seq(Write), NEW from \in Int, NEW to \in Int, NEW role \in Seq(Nat)
  PROVE  /\ Append(ws, RecordOf(from, to, role)) \in Seq(Write)
         /\ Roles(Append(ws, RecordOf(from, to, role))) = Roles(ws) \cup {role}
         /\ Distinct(ws) /\ role \notin Roles(ws) => Distinct(Append(ws, RecordOf(from, to, role)))
         /\ ToSet(Append(ws, RecordOf(from, to, role))) = ToSet(ws) \cup {RecordOf(from, to, role)}
<1>1. PICK w : w = RecordOf(from, to, role)
  OBVIOUS
<1>2. PICK last : last = <<w>>
  OBVIOUS
<1>3. w \in Write /\ last \in Seq(Write) /\ Roles(last) = {role} /\ Distinct(last)
  BY <1>1, <1>2, RecordWrite
<1>4. Append(ws, w) = ws \o last
  BY <1>2, <1>3
<1>5. /\ ws \o last \in Seq(Write) /\ Roles(ws \o last) = Roles(ws) \cup {role}
      /\ Distinct(ws) /\ role \notin Roles(ws) => Distinct(ws \o last)
  <2>1. role \notin Roles(ws) => Roles(ws) \cap Roles(last) = {}
    BY <1>3
  <2> QED
    BY <1>3, <2>1, JoinedWrites
<1>6. ToSet(Append(ws, w)) = ToSet(ws) \cup {w}
  <2>1. /\ DOMAIN ws = 1 .. Len(ws) /\ DOMAIN Append(ws, w) = 1 .. Len(ws) + 1 /\ Len(ws) \in Nat
        /\ Append(ws, w)[Len(ws) + 1] = w /\ \A k \in 1 .. Len(ws) : Append(ws, w)[k] = ws[k]
    BY <1>3
  <2>2. PICK us : us = Append(ws, w)
    OBVIOUS
  <2> QED
    BY <2>1, <2>2 DEF ToSet
<1> QED
  BY <1>1, <1>4, <1>5, <1>6

(* Output's loop over what is released to it.                              *)
LEMMA RecitedSteps ==
  ASSUME NEW ws \in Seq(Write), NEW from \in Int, NEW to \in Int
  PROVE  \E kept :
           /\ Recited(ws, from, to) = kept[Len(ws)]
           /\ kept[0] = <<>>
           /\ \A k \in 1 .. Len(ws) :
                kept[k] = IF IsRecord(ws[k])
                            THEN Append(kept[k - 1], RecordOf(from, to, ws[k].role))
                            ELSE kept[k - 1]
<1> DEFINE N == Len(ws)
           Rec(b) == b = [k \in 0 .. N |->
                            IF k = 0 THEN <<>>
                            ELSE IF IsRecord(ws[k])
                              THEN Append(b[k - 1], RecordOf(from, to, ws[k].role))
                              ELSE b[k - 1]]
           kept == CHOOSE b : Rec(b)
           G == [p \in (1 .. N) \X Seq(Write) |->
                   IF IsRecord(ws[p[1]]) THEN Append(p[2], RecordOf(from, to, ws[p[1]].role)) ELSE p[2]]
<1>1. N \in Nat /\ <<>> \in Seq(Write)
  OBVIOUS
<1>2. G \in [(1 .. N) \X Seq(Write) -> Seq(Write)]
  <2> SUFFICES ASSUME NEW k \in 1 .. N, NEW us \in Seq(Write)
               PROVE  Append(us, RecordOf(from, to, ws[k].role)) \in Seq(Write)
    OBVIOUS
  <2>1. ws[k] \in Write
    OBVIOUS
  <2>2. ws[k].role \in Seq(Nat)
    BY <2>1 DEF Write
  <2> QED
    BY <2>2, AddedRecord
<1>3. PICK f : Iterates(f, Seq(Write), <<>>, G, N)
  <2> HIDE DEF N, G
  <2> QED
    BY <1>1, <1>2, SomeIterates
<1>4. ASSUME NEW k \in 1 .. N
      PROVE  f[k] = IF IsRecord(ws[k]) THEN Append(f[k - 1], RecordOf(from, to, ws[k].role)) ELSE f[k - 1]
  <2>1. k - 1 \in 0 .. N
    BY <1>1
  <2>2. f[k - 1] \in Seq(Write) /\ f[k] = G[<<k, f[k - 1]>>]
    BY <1>3, <2>1 DEF Iterates
  <2> QED
    BY <2>2
<1> HIDE DEF N, G
<1>5. Rec(f)
  <2>1. f = [k \in 0 .. N |-> f[k]] /\ f[0] = <<>>
    BY <1>3 DEF Iterates
  <2>2. \A k \in 0 .. N : k # 0 => k \in 1 .. N
    BY <1>1
  <2> QED
    BY <1>4, <2>1, <2>2
<1>6. Rec(kept)
  BY <1>5
<1>7. Recited(ws, from, to) = kept[N]
  BY DEF Recited, N
<1> HIDE DEF kept
<1>8. kept[0] = <<>>
  BY <1>1, <1>6
<1>9. \A k \in 1 .. N : kept[k] = IF IsRecord(ws[k])
                                    THEN Append(kept[k - 1], RecordOf(from, to, ws[k].role))
                                    ELSE kept[k - 1]
  <2> TAKE k \in 1 .. N
  <2>1. k \in 0 .. N /\ k # 0
    BY <1>1
  <2> QED
    BY <1>6, <2>1
<1> QED
  BY <1>7, <1>8, <1>9 DEF N

(* It keeps every record and no region, and each cites what it was told.   *)
LEMMA RecitedThins ==
  ASSUME NEW ws \in Seq(Write), NEW from \in Int, NEW to \in Int
  PROVE  /\ Thins(Recited(ws, from, to), ws)
         /\ Roles(Recited(ws, from, to)) = Roles(ws)
         /\ \A w \in ToSet(Recited(ws, from, to)) : IsRecord(w) /\ w.from = from /\ w.to = to
<1> DEFINE N == Len(ws)
           Of(k) == {ws[j].role : j \in {i \in 1 .. k : IsRecord(ws[i])}}
<1>1. N \in Nat /\ DOMAIN ws = 1 .. N
  OBVIOUS
<1>2. PICK kept :
        /\ Recited(ws, from, to) = kept[N]
        /\ kept[0] = <<>>
        /\ \A k \in 1 .. N : kept[k] = IF IsRecord(ws[k])
                                        THEN Append(kept[k - 1], RecordOf(from, to, ws[k].role))
                                        ELSE kept[k - 1]
  BY RecitedSteps
<1> DEFINE Good(k) ==
             /\ kept[k] \in Seq(Write) /\ Roles(kept[k]) = Of(k)
             /\ Distinct(ws) => Distinct(kept[k])
             /\ \A w \in ToSet(kept[k]) : IsRecord(w) /\ w.from = from /\ w.to = to
           S == {k \in Nat : k <= N => Good(k)}
<1> HIDE DEF N
<1>3. 0 \in S
  <2>1. Of(0) = {} /\ ToSet(<<>>) = {}
    BY DEF ToSet
  <2> QED
    BY <1>2, <2>1, NoWrites
<1>4. ASSUME NEW k \in Nat, k \in S PROVE k + 1 \in S
  <2> SUFFICES ASSUME k + 1 <= N PROVE Good(k + 1)
    OBVIOUS
  <2>1. Good(k) /\ k + 1 \in 1 .. N /\ (k + 1) - 1 = k
    BY <1>1, <1>4
  <2>2. kept[k + 1] = IF IsRecord(ws[k + 1])
                        THEN Append(kept[k], RecordOf(from, to, ws[k + 1].role))
                        ELSE kept[k]
    BY <1>2, <2>1
  <2>3. CASE IsRecord(ws[k + 1])
    <3>1. PICK role : role = ws[k + 1].role
      OBVIOUS
    <3>2. role \in Seq(Nat)
      <4>1. ws[k + 1] \in Write
        BY <2>1 DEF N
      <4> QED
        BY <3>1, <4>1 DEF Write
    <3>3. Of(k + 1) = Of(k) \cup {role}
      <4>1. {i \in 1 .. k + 1 : IsRecord(ws[i])} = {i \in 1 .. k : IsRecord(ws[i])} \cup {k + 1}
        BY <2>3
      <4> QED
        BY <3>1, <4>1
    <3>4. Distinct(ws) => role \notin Of(k)
      <4> SUFFICES ASSUME Distinct(ws), NEW j \in 1 .. k, IsRecord(ws[j]), ws[j].role = role
                   PROVE  FALSE
        OBVIOUS
      <4>1. j \in DOMAIN ws /\ k + 1 \in DOMAIN ws /\ j # k + 1
        BY <1>1, <2>1
      <4> QED
        BY <2>3, <3>1, <4>1 DEF Distinct
    <3>5. PICK us : us = kept[k]
      OBVIOUS
    <3>6. /\ us \in Seq(Write) /\ Roles(us) = Of(k)
          /\ Distinct(ws) => Distinct(us)
          /\ \A w \in ToSet(us) : IsRecord(w) /\ w.from = from /\ w.to = to
      BY <2>1, <3>5
    <3>7. kept[k + 1] = Append(us, RecordOf(from, to, role))
      BY <2>2, <2>3, <3>1, <3>5
    <3> HIDE DEF Of
    <3>8. /\ Append(us, RecordOf(from, to, role)) \in Seq(Write)
          /\ Roles(Append(us, RecordOf(from, to, role))) = Roles(us) \cup {role}
          /\ Distinct(us) /\ role \notin Roles(us) => Distinct(Append(us, RecordOf(from, to, role)))
          /\ ToSet(Append(us, RecordOf(from, to, role))) = ToSet(us) \cup {RecordOf(from, to, role)}
      BY <3>2, <3>6, AddedRecord
    <3>9. IsRecord(RecordOf(from, to, role)) /\ RecordOf(from, to, role).from = from
          /\ RecordOf(from, to, role).to = to
      BY DEF RecordOf, IsRecord
    <3>10. /\ kept[k + 1] \in Seq(Write) /\ Roles(kept[k + 1]) = Of(k + 1)
           /\ Distinct(ws) => Distinct(kept[k + 1])
      BY <3>3, <3>4, <3>6, <3>7, <3>8
    <3>11. \A w \in ToSet(kept[k + 1]) : IsRecord(w) /\ w.from = from /\ w.to = to
      BY <3>6, <3>7, <3>8, <3>9
    <3> QED
      BY <3>10, <3>11
  <2>4. CASE ~IsRecord(ws[k + 1])
    <3>1. {i \in 1 .. k + 1 : IsRecord(ws[i])} = {i \in 1 .. k : IsRecord(ws[i])}
      BY <2>4
    <3>2. Of(k + 1) = Of(k) /\ kept[k + 1] = kept[k]
      BY <2>2, <2>4, <3>1
    <3> HIDE DEF Of
    <3> QED
      BY <2>1, <3>2
  <2> QED
    BY <2>3, <2>4
<1>5. Nat \subseteq S
  <2> HIDE DEF S
  <2> QED
    BY <1>3, <1>4, SetInduction
<1>6. Good(N)
  <2>1. N \in S
    BY <1>1, <1>5
  <2> QED
    BY <1>1, <2>1
<1>7. Of(N) = Roles(ws)
  BY <1>1 DEF Roles
<1> QED
  BY <1>2, <1>6, <1>7 DEF Thins

(* take_over's loop over the arguments: only their regions are lost.       *)
LEMMA WithdrawnThins ==
  ASSUME NEW ws \in Seq(Write), NEW nodes, Len(nodes) \in Nat, NEW positions
  PROVE  /\ Thins(Withdrawn(ws, nodes, positions), ws)
         /\ ToSet(Withdrawn(ws, nodes, positions)) \subseteq ToSet(ws)
         /\ \A w \in ToSet(ws) :
              \/ w \in ToSet(Withdrawn(ws, nodes, positions))
              \/ \E a \in positions \cap (1 .. Len(nodes)) :
                   w = RegionOf(nodes[a].from, nodes[a].to, "skipped")
<1> DEFINE N == Len(nodes)
           Rec(b) == b = [k \in 0 .. N |->
                            IF k = 0 THEN ws
                            ELSE IF k \in positions THEN Withdraw(b[k - 1], nodes[k]) ELSE b[k - 1]]
           left == CHOOSE b : Rec(b)
           G == [p \in (1 .. N) \X Seq(Write) |->
                   IF p[1] \in positions THEN Withdraw(p[2], nodes[p[1]]) ELSE p[2]]
<1>1. N \in Nat
  OBVIOUS
<1>2. G \in [(1 .. N) \X Seq(Write) -> Seq(Write)]
  <2> SUFFICES ASSUME NEW k \in 1 .. N, NEW us \in Seq(Write)
               PROVE  Withdraw(us, nodes[k]) \in Seq(Write)
    OBVIOUS
  <2> QED
    BY WithdrawThins DEF Thins
<1>3. PICK f : Iterates(f, Seq(Write), ws, G, N)
  <2> HIDE DEF N, G
  <2> QED
    BY <1>1, <1>2, SomeIterates
<1>4. ASSUME NEW k \in 1 .. N
      PROVE  f[k] = IF k \in positions THEN Withdraw(f[k - 1], nodes[k]) ELSE f[k - 1]
  <2>1. k - 1 \in 0 .. N
    BY <1>1
  <2>2. f[k - 1] \in Seq(Write) /\ f[k] = G[<<k, f[k - 1]>>]
    BY <1>3, <2>1 DEF Iterates
  <2> QED
    BY <2>2
<1> HIDE DEF N, G
<1>5. Rec(f)
  <2>1. f = [k \in 0 .. N |-> f[k]] /\ f[0] = ws
    BY <1>3 DEF Iterates
  <2>2. \A k \in 0 .. N : k # 0 => k \in 1 .. N
    BY <1>1
  <2> QED
    BY <1>4, <2>1, <2>2
<1>6. Rec(left)
  BY <1>5
<1>7. Withdrawn(ws, nodes, positions) = left[N]
  BY DEF Withdrawn, N
<1> HIDE DEF left
<1>8. left[0] = ws
  BY <1>1, <1>6
<1>9. \A k \in 1 .. N : left[k] = IF k \in positions THEN Withdraw(left[k - 1], nodes[k]) ELSE left[k - 1]
  <2> TAKE k \in 1 .. N
  <2>1. k \in 0 .. N /\ k # 0
    BY <1>1
  <2> QED
    BY <1>6, <2>1
<1> DEFINE Good(k) ==
             /\ Thins(left[k], ws) /\ ToSet(left[k]) \subseteq ToSet(ws)
             /\ \A w \in ToSet(ws) : \/ w \in ToSet(left[k])
                                     \/ \E a \in positions \cap (1 .. N) :
                                        w = RegionOf(nodes[a].from, nodes[a].to, "skipped")
           S == {k \in Nat : k <= N => Good(k)}
<1>10. 0 \in S
  BY <1>8 DEF Thins
<1>11. ASSUME NEW k \in Nat, k \in S PROVE k + 1 \in S
  <2> SUFFICES ASSUME k + 1 <= N PROVE Good(k + 1)
    OBVIOUS
  <2>1. Good(k) /\ k + 1 \in 1 .. N /\ (k + 1) - 1 = k
    BY <1>1, <1>11
  <2>2. CASE k + 1 \in positions
    <3>1. left[k + 1] = Withdraw(left[k], nodes[k + 1])
      BY <1>9, <2>1, <2>2
    <3>2. PICK us : us = left[k]
      OBVIOUS
    <3>3. us \in Seq(Write) /\ Thins(us, ws) /\ ToSet(us) \subseteq ToSet(ws)
      BY <2>1, <3>2 DEF Thins
    <3>4. PICK node : node = nodes[k + 1]
      OBVIOUS
    <3>5. /\ Thins(Withdraw(us, node), us) /\ ToSet(Withdraw(us, node)) \subseteq ToSet(us)
          /\ \A w \in ToSet(us) : \/ w \in ToSet(Withdraw(us, node))
                                  \/ w = RegionOf(node.from, node.to, "skipped")
      BY <3>3, WithdrawThins
    <3>6. Thins(Withdraw(us, node), ws)
      BY <3>3, <3>5, ThinsBoth
    <3> QED
      BY <2>1, <2>2, <3>1, <3>2, <3>3, <3>4, <3>5, <3>6
  <2>3. CASE k + 1 \notin positions
    BY <1>9, <2>1, <2>3
  <2> QED
    BY <2>2, <2>3
<1>12. Nat \subseteq S
  <2> HIDE DEF S
  <2> QED
    BY <1>10, <1>11, SetInduction
<1>13. Good(N)
  <2>1. N \in S
    BY <1>1, <1>12
  <2> QED
    BY <1>1, <2>1
<1> QED
  BY <1>7, <1>13 DEF N

(* take_over's loop over the members a concat joined: only their records   *)
(* are lost, and their bytes are named.                                    *)
LEMMA MembersThins ==
  ASSUME NEW ws \in Seq(Write), NEW members, Len(members) \in Nat, NEW reason \in Reasons,
         \A j \in 1 .. Len(members) : members[j].node.from \in Int /\ members[j].node.to \in Int
  PROVE  /\ Thins(MembersNamed(ws, members, reason), ws)
         /\ \A j \in 1 .. Len(members) :
              ToSet(Naming(members[j].node, reason)) \subseteq ToSet(MembersNamed(ws, members, reason))
         /\ \A w \in ToSet(MembersNamed(ws, members, reason)) :
              \/ w \in ToSet(ws)
              \/ \E j \in 1 .. Len(members) : w \in ToSet(Naming(members[j].node, reason))
         /\ \A w \in ToSet(ws) :
              \/ w \in ToSet(MembersNamed(ws, members, reason))
              \/ IsRecord(w) /\ \E j \in 1 .. Len(members) : w.role = members[j].role
<1> DEFINE N == Len(members)
           Rec(b) == b = [j \in 0 .. N |->
                            IF j = 0 THEN ws
                            ELSE Retract(b[j - 1], members[j].role) \o Naming(members[j].node, reason)]
           named == CHOOSE b : Rec(b)
           G == [p \in (1 .. N) \X Seq(Write) |->
                   Retract(p[2], members[p[1]].role) \o Naming(members[p[1]].node, reason)]
           Says(j) == Naming(members[j].node, reason)
<1>1. N \in Nat
  OBVIOUS
<1>2. ASSUME NEW k \in 1 .. N, NEW us \in Seq(Write)
      PROVE  /\ Thins(Retract(us, members[k].role) \o Says(k), us)
             /\ ToSet(Retract(us, members[k].role) \o Says(k))
                   = ToSet(Retract(us, members[k].role)) \cup ToSet(Says(k))
             /\ ToSet(Retract(us, members[k].role)) \subseteq ToSet(us)
             /\ \A w \in ToSet(us) : \/ w \in ToSet(Retract(us, members[k].role))
                                     \/ IsRecord(w) /\ w.role = members[k].role
  <2>1. PICK node : node = members[k].node
    OBVIOUS
  <2>2. node.from \in Int /\ node.to \in Int
    BY <2>1
  <2>3. PICK vs : vs = Retract(us, members[k].role)
    OBVIOUS
  <2>4. /\ Thins(vs, us) /\ ToSet(vs) \subseteq ToSet(us)
        /\ \A w \in ToSet(us) : w \in ToSet(vs) \/ (IsRecord(w) /\ w.role = members[k].role)
    BY <2>3, RetractThins
  <2>5. Thins(vs \o Naming(node, reason), us)
    BY <2>2, <2>4, NamingThins
  <2>6. ToSet(vs \o Naming(node, reason)) = ToSet(vs) \cup ToSet(Naming(node, reason))
    <3>1. Naming(node, reason) \in Seq(Write) /\ vs \in Seq(Write)
      BY <2>2, <2>4, NamingWrite DEF Thins
    <3> QED
      BY <3>1, JoinedSet
  <2>7. PICK region : region = Says(k) /\ region = Naming(node, reason)
    BY <2>1
  <2>8. /\ Thins(vs \o region, us) /\ ToSet(vs \o region) = ToSet(vs) \cup ToSet(region)
        /\ ToSet(vs) \subseteq ToSet(us)
        /\ \A w \in ToSet(us) : w \in ToSet(vs) \/ (IsRecord(w) /\ w.role = members[k].role)
    BY <2>4, <2>5, <2>6, <2>7
  <2> HIDE DEF Says
  <2> QED
    BY <2>3, <2>7, <2>8
<1>3. G \in [(1 .. N) \X Seq(Write) -> Seq(Write)]
  BY <1>2 DEF Thins
<1>4. PICK f : Iterates(f, Seq(Write), ws, G, N)
  <2> HIDE DEF N, G
  <2> QED
    BY <1>1, <1>3, SomeIterates
<1>5. ASSUME NEW k \in 1 .. N
      PROVE  f[k] = Retract(f[k - 1], members[k].role) \o Naming(members[k].node, reason)
  <2>1. k - 1 \in 0 .. N
    BY <1>1
  <2>2. f[k - 1] \in Seq(Write) /\ f[k] = G[<<k, f[k - 1]>>]
    BY <1>4, <2>1 DEF Iterates
  <2> QED
    BY <2>2
<1> HIDE DEF N, G
<1>6. Rec(f)
  <2>1. f = [k \in 0 .. N |-> f[k]] /\ f[0] = ws
    BY <1>4 DEF Iterates
  <2>2. \A k \in 0 .. N : k # 0 => k \in 1 .. N
    BY <1>1
  <2> QED
    BY <1>5, <2>1, <2>2
<1>7. Rec(named)
  BY <1>6
<1>8. MembersNamed(ws, members, reason) = named[N]
  BY DEF MembersNamed, N
<1> HIDE DEF named
<1>9. named[0] = ws
  BY <1>1, <1>7
<1>10. \A k \in 1 .. N : named[k] = Retract(named[k - 1], members[k].role) \o Says(k)
  <2> TAKE k \in 1 .. N
  <2>1. k \in 0 .. N /\ k # 0
    BY <1>1
  <2> QED
    BY <1>7, <2>1
<1> HIDE DEF Says
<1> DEFINE Good(k) ==
             /\ Thins(named[k], ws)
             /\ \A j \in 1 .. k : ToSet(Says(j)) \subseteq ToSet(named[k])
             /\ \A w \in ToSet(named[k]) : w \in ToSet(ws) \/ \E j \in 1 .. N : w \in ToSet(Says(j))
             /\ \A w \in ToSet(ws) : \/ w \in ToSet(named[k])
                                     \/ IsRecord(w) /\ \E j \in 1 .. N : w.role = members[j].role
           S == {k \in Nat : k <= N => Good(k)}
<1>11. 0 \in S
  <2>1. Thins(ws, ws) /\ named[0] = ws
    BY <1>9 DEF Thins
  <2>2. Good(0)
    BY <2>1
  <2> QED
    BY <2>2
<1>12. ASSUME NEW k \in Nat, k \in S PROVE k + 1 \in S
  <2> SUFFICES ASSUME k + 1 <= N PROVE Good(k + 1)
    OBVIOUS
  <2>1. Good(k) /\ k + 1 \in 1 .. N /\ (k + 1) - 1 = k
    BY <1>1, <1>12
  <2>2. PICK us : us = named[k]
    OBVIOUS
  <2>3. us \in Seq(Write) /\ Thins(us, ws)
    BY <2>1, <2>2 DEF Thins
  <2>4. PICK vs : vs = Retract(us, members[k + 1].role)
    OBVIOUS
  <2>5. named[k + 1] = vs \o Says(k + 1)
    BY <1>10, <2>1, <2>2, <2>4
  <2>6. /\ Thins(vs \o Says(k + 1), us)
        /\ ToSet(vs \o Says(k + 1)) = ToSet(vs) \cup ToSet(Says(k + 1))
        /\ ToSet(vs) \subseteq ToSet(us)
        /\ \A w \in ToSet(us) : w \in ToSet(vs) \/ (IsRecord(w) /\ w.role = members[k + 1].role)
    BY <1>2, <2>1, <2>3, <2>4
  <2>7. Thins(named[k + 1], ws)
    BY <2>3, <2>5, <2>6, ThinsBoth
  <2>8. ASSUME NEW j \in 1 .. k + 1, NEW w \in ToSet(Says(j)) PROVE w \in ToSet(named[k + 1])
    <3>1. CASE j = k + 1
      BY <2>5, <2>6, <2>8, <3>1
    <3>2. CASE j \in 1 .. k
      <4>1. w \in ToSet(us)
        BY <2>1, <2>2, <2>8, <3>2
      <4>2. ~IsRecord(w)
        BY <2>8 DEF Says, Naming, ToSet, IsRecord, RegionOf
      <4> QED
        BY <2>5, <2>6, <4>1, <4>2
    <3> QED
      BY <2>1, <2>8, <3>1, <3>2
  <2>9. \A w \in ToSet(named[k + 1]) : w \in ToSet(ws) \/ \E j \in 1 .. N : w \in ToSet(Says(j))
    BY <2>1, <2>2, <2>5, <2>6
  <2>10. \A w \in ToSet(ws) : \/ w \in ToSet(named[k + 1])
                              \/ IsRecord(w) /\ \E j \in 1 .. N : w.role = members[j].role
    BY <2>1, <2>2, <2>5, <2>6
  <2> QED
    BY <2>7, <2>8, <2>9, <2>10
<1>13. Nat \subseteq S
  <2> HIDE DEF S
  <2> QED
    BY <1>11, <1>12, SetInduction
<1>14. Good(N)
  <2>1. N \in S
    BY <1>1, <1>13
  <2> QED
    BY <1>1, <2>1
<1> QED
  BY <1>8, <1>14 DEF N, Says

(***************************************************************************)
(* Paths.                                                                  *)
(***************************************************************************)
LEMMA SiblingsSteps ==
  ASSUME NEW nodes, NEW path \in Seq(Nat)
  PROVE  /\ path # <<>> => Siblings(nodes, path)[1] = nodes
         /\ \A n \in 1 .. Len(path) : n # 1 =>
              Siblings(nodes, path)[n] = Siblings(nodes, path)[n - 1][path[n - 1]].kids
<1> DEFINE N == Len(path)
           Rec(f, k) == f = [n \in 1 .. k |-> IF n = 1 THEN nodes ELSE f[n - 1][path[n - 1]].kids]
           S == {k \in Nat : \E f : Rec(f, k)}
           level == CHOOSE f : Rec(f, N)
<1>1. N \in Nat /\ DOMAIN path = 1 .. N
  OBVIOUS
<1>2. 0 \in S
  <2> DEFINE f == [n \in 1 .. 0 |-> nodes]
  <2>1. Rec(f, 0)
    OBVIOUS
  <2> QED
    BY <2>1
<1>3. ASSUME NEW k \in Nat, k \in S PROVE k + 1 \in S
  <2>1. PICK f : Rec(f, k)
    BY <1>3
  <2>2. PICK last : last = IF k = 0 THEN nodes ELSE f[k][path[k]].kids
    OBVIOUS
  <2> DEFINE g == [n \in 1 .. k + 1 |-> IF n = k + 1 THEN last ELSE f[n]]
  <2>3. ASSUME NEW n \in 1 .. k + 1
        PROVE  g[n] = IF n = 1 THEN nodes ELSE g[n - 1][path[n - 1]].kids
    <3>1. CASE n = k + 1
      <4>1. g[n] = last /\ (n # 1 => g[n - 1] = f[k] /\ n - 1 = k)
        BY <3>1
      <4> QED
        BY <2>2, <3>1, <4>1
    <3>2. CASE n # k + 1
      <4>1. n \in 1 .. k /\ g[n] = f[n] /\ (n # 1 => g[n - 1] = f[n - 1])
        BY <3>2
      <4>2. f[n] = IF n = 1 THEN nodes ELSE f[n - 1][path[n - 1]].kids
        BY <2>1, <4>1
      <4> QED
        BY <4>1, <4>2
    <3> QED
      BY <3>1, <3>2
  <2>4. g = [n \in 1 .. k + 1 |-> g[n]]
    OBVIOUS
  <2> HIDE DEF g
  <2>5. Rec(g, k + 1)
    BY <2>3, <2>4
  <2> QED
    BY <2>5
<1>4. N \in S
  <2>1. Nat \subseteq S
    <3> HIDE DEF S
    <3> QED
      BY <1>2, <1>3, SetInduction
  <2> QED
    BY <1>1, <2>1
<1>5. Rec(level, N)
  <2> HIDE DEF N
  <2> QED
    BY <1>4
<1>6. Siblings(nodes, path) = level
  BY <1>1 DEF Siblings
<1> HIDE DEF level, N
<1>7. N # 0 => level[1] = nodes
  BY <1>1, <1>5
<1>8. \A n \in 1 .. N : n # 1 => level[n] = level[n - 1][path[n - 1]].kids
  BY <1>1, <1>5
<1>9. path # <<>> => N # 0
  BY DEF N
<1> QED
  BY <1>6, <1>7, <1>8, <1>9 DEF N

(* A path leads to a node of the tree through nodes that are not silent,   *)
(* and no transform speaks for what it leads to.                           *)
Stands(nodes, path) ==
  /\ path # <<>>
  /\ \A n \in DOMAIN path :
       /\ path[n] \in DOMAIN Siblings(nodes, path)[n]
       /\ ~Silent(Siblings(nodes, path)[n][path[n]])
  /\ path[Len(path)] \notin Taken(Siblings(nodes, path)[Len(path)])

LEMMA StandsHere ==
  ASSUME NEW nodes, NEW i \in Nat
  PROVE  Stands(nodes, <<i>>) <=> i \in DOMAIN nodes /\ ~Silent(nodes[i]) /\ i \notin Taken(nodes)
<1>1. PICK path : path = <<i>>
  OBVIOUS
<1>2. /\ path \in Seq(Nat) /\ path # <<>> /\ Len(path) = 1 /\ DOMAIN path = {1} /\ path[1] = i
  BY <1>1
<1>3. Siblings(nodes, path)[1] = nodes
  BY <1>2, SiblingsSteps
<1>4. Stands(nodes, path) <=> i \in DOMAIN nodes /\ ~Silent(nodes[i]) /\ i \notin Taken(nodes)
  BY <1>2, <1>3 DEF Stands
<1> QED
  BY <1>1, <1>4

LEMMA StandsBelow ==
  ASSUME NEW nodes, NEW i \in Nat, NEW rel \in Seq(Nat), rel # <<>>
  PROVE  Stands(nodes, <<i>> \o rel) <=>
           i \in DOMAIN nodes /\ ~Silent(nodes[i]) /\ Stands(nodes[i].kids, rel)
<1>1. PICK path : path = <<i>> \o rel
  OBVIOUS
<1>2. /\ path \in Seq(Nat) /\ path # <<>> /\ Len(path) = Len(rel) + 1 /\ path[1] = i
      /\ Len(rel) \in Nat \ {0} /\ DOMAIN path = 1 .. Len(rel) + 1 /\ DOMAIN rel = 1 .. Len(rel)
      /\ \A n \in 1 .. Len(rel) : path[n + 1] = rel[n]
  BY <1>1
<1>3. PICK P : P = Siblings(nodes, path)
  OBVIOUS
<1>4. PICK kids : kids = nodes[i].kids
  OBVIOUS
<1>5. PICK Q : Q = Siblings(kids, rel)
  OBVIOUS
<1>6. /\ P[1] = nodes
      /\ \A n \in 1 .. Len(path) : n # 1 => P[n] = P[n - 1][path[n - 1]].kids
  BY <1>2, <1>3, SiblingsSteps
<1>7. /\ Q[1] = kids
      /\ \A n \in 1 .. Len(rel) : n # 1 => Q[n] = Q[n - 1][rel[n - 1]].kids
  BY <1>5, SiblingsSteps
<1> DEFINE S == {k \in Nat : k + 1 <= Len(rel) => P[k + 2] = Q[k + 1]}
<1>8. 0 \in S
  <2>1. 2 \in 1 .. Len(path) /\ 2 # 1 /\ 2 - 1 = 1
    BY <1>2
  <2>2. P[2] = P[1][path[1]].kids
    BY <1>6, <2>1
  <2> QED
    BY <1>2, <1>4, <1>6, <1>7, <2>2
<1>9. ASSUME NEW k \in Nat, k \in S PROVE k + 1 \in S
  <2> SUFFICES ASSUME k + 2 <= Len(rel) PROVE P[k + 3] = Q[k + 2]
    OBVIOUS
  <2>1. P[k + 2] = Q[k + 1]
    BY <1>2, <1>9
  <2>2. k + 3 \in 1 .. Len(path) /\ k + 3 # 1 /\ (k + 3) - 1 = k + 2
    BY <1>2
  <2>3. P[k + 3] = P[k + 2][path[k + 2]].kids
    BY <1>6, <2>2
  <2>4. k + 2 \in 1 .. Len(rel) /\ k + 2 # 1 /\ (k + 2) - 1 = k + 1
    BY <1>2
  <2>5. Q[k + 2] = Q[k + 1][rel[k + 1]].kids
    BY <1>7, <2>4
  <2>6. path[k + 2] = rel[k + 1]
    <3>1. k + 1 \in 1 .. Len(rel) /\ (k + 1) + 1 = k + 2
      BY <1>2
    <3> QED
      BY <1>2, <3>1
  <2> QED
    BY <2>1, <2>3, <2>5, <2>6
<1>10. \A n \in 1 .. Len(rel) : P[n + 1] = Q[n]
  <2>1. Nat \subseteq S
    <3> HIDE DEF S
    <3> QED
      BY <1>8, <1>9, SetInduction
  <2> TAKE n \in 1 .. Len(rel)
  <2>2. PICK k \in Nat : k + 1 = n
    <3>1. n - 1 \in Nat /\ (n - 1) + 1 = n
      BY <1>2
    <3> QED
      BY <3>1
  <2>3. k \in S
    BY <2>1, <2>2
  <2>4. P[k + 2] = Q[k + 1]
    BY <1>2, <2>2, <2>3
  <2> QED
    BY <2>2, <2>4
<1>11. Stands(nodes, path) <=>
         /\ \A n \in 1 .. Len(rel) + 1 : path[n] \in DOMAIN P[n] /\ ~Silent(P[n][path[n]])
         /\ path[Len(rel) + 1] \notin Taken(P[Len(rel) + 1])
  BY <1>2, <1>3 DEF Stands
<1>12. Stands(kids, rel) <=>
         /\ \A n \in 1 .. Len(rel) : rel[n] \in DOMAIN Q[n] /\ ~Silent(Q[n][rel[n]])
         /\ rel[Len(rel)] \notin Taken(Q[Len(rel)])
  BY <1>2, <1>5 DEF Stands
<1>13. path[Len(rel) + 1] \notin Taken(P[Len(rel) + 1]) <=> rel[Len(rel)] \notin Taken(Q[Len(rel)])
  BY <1>2, <1>10
<1>14. (\A n \in 1 .. Len(rel) + 1 : path[n] \in DOMAIN P[n] /\ ~Silent(P[n][path[n]])) <=>
         /\ i \in DOMAIN nodes /\ ~Silent(nodes[i])
         /\ \A n \in 1 .. Len(rel) : rel[n] \in DOMAIN Q[n] /\ ~Silent(Q[n][rel[n]])
  <2> DEFINE F(n) == path[n] \in DOMAIN P[n] /\ ~Silent(P[n][path[n]])
             E(n) == rel[n] \in DOMAIN Q[n] /\ ~Silent(Q[n][rel[n]])
  <2>1. F(1) <=> i \in DOMAIN nodes /\ ~Silent(nodes[i])
    BY <1>2, <1>6
  <2>2. \A n \in 1 .. Len(rel) : F(n + 1) <=> E(n)
    BY <1>2, <1>10
  <2> HIDE DEF F, E
  <2>3. \A n \in 1 .. Len(rel) + 1 : n = 1 \/ (n - 1 \in 1 .. Len(rel) /\ (n - 1) + 1 = n)
    BY <1>2
  <2>4. (\A n \in 1 .. Len(rel) + 1 : F(n)) => F(1) /\ \A n \in 1 .. Len(rel) : E(n)
    <3>1. 1 \in 1 .. Len(rel) + 1 /\ \A n \in 1 .. Len(rel) : n + 1 \in 1 .. Len(rel) + 1
      BY <1>2
    <3> QED
      BY <2>2, <3>1
  <2>5. ASSUME F(1), \A n \in 1 .. Len(rel) : E(n), NEW n \in 1 .. Len(rel) + 1 PROVE F(n)
    <3>1. CASE n = 1
      BY <2>5, <3>1
    <3>2. CASE n # 1
      <4>1. PICK k \in 1 .. Len(rel) : k + 1 = n
        BY <2>3, <3>2
      <4> QED
        BY <2>2, <2>5, <4>1
    <3> QED
      BY <3>1, <3>2
  <2> QED
    BY <2>1, <2>4, <2>5 DEF F, E
<1> QED
  BY <1>1, <1>4, <1>11, <1>12, <1>13, <1>14

(***************************************************************************)
(* Frames.                                                                 *)
(***************************************************************************)
IsNode(n) ==
  DOMAIN n = {"kind", "from", "to", "none", "status", "refused", "failed", "typed",
              "source", "args", "kids"}

IsFrame(f) == DOMAIN f = {"kind", "from", "at", "extent", "path", "head", "nodes", "writes"}

Within(n, at) == n.from \in Nat /\ n.to \in Nat /\ n.from <= n.to /\ n.to <= at

ChunkWidths == {<<>>} \cup {<<w>> : w \in 0 .. 1} \cup {<<w, v>> : w, v \in 0 .. 1}

IsChunks(n) ==
  \E from \in Nat, widths \in ChunkWidths, none \in BOOLEAN : n = Chunks(from, widths, none)

(* A node that reads other nodes reads earlier ones, of the kind it can.   *)
Reads(n, nodes) ==
  /\ n.kind = "chunks" => IsChunks(n)
  /\ n.kind = "concat" => n.source \in DOMAIN nodes /\ nodes[n.source].kind = "chunks"
  /\ n.kind = "transform" => n.source \in DOMAIN nodes

NodesOK(f) ==
  \A i \in DOMAIN f.nodes : Within(f.nodes[i], f.at) /\ Reads(f.nodes[i], f.nodes)

(* Every record held is of a field of the unit that may have one.          *)
RecordsStand(f) ==
  /\ Distinct(f.writes)
  /\ \A role \in Roles(f.writes) :
       \E rel \in Seq(Nat) : role = f.path \o rel /\ Stands(f.nodes, rel)

FrameOK(f) ==
  /\ IsFrame(f) /\ IsSeq(f.nodes) /\ f.writes \in Seq(Write) /\ f.path \in Seq(Nat)
  /\ f.from \in Nat /\ f.at \in Nat /\ f.extent \in Nat /\ f.from <= f.at /\ f.at <= f.extent
  /\ NodesOK(f)
  /\ RecordsStand(f)

LEMMA PathsCancel ==
  ASSUME NEW p \in Seq(Nat), NEW r \in Seq(Nat), NEW t \in Seq(Nat), p \o r = p \o t
  PROVE  r = t
<1>1. Len(r) = Len(t)
  <2>1. Len(p \o r) = Len(p) + Len(r) /\ Len(p \o t) = Len(p) + Len(t)
    OBVIOUS
  <2>2. Len(p) \in Nat /\ Len(r) \in Nat /\ Len(t) \in Nat
    OBVIOUS
  <2> QED
    BY <2>1, <2>2
<1>2. ASSUME NEW k \in 1 .. Len(r) PROVE r[k] = t[k]
  <2>1. (p \o r)[Len(p) + k] = r[k] /\ (p \o t)[Len(p) + k] = t[k]
    BY <1>1
  <2> QED
    BY <2>1
<1> QED
  BY <1>1, <1>2, SeqEqual

LEMMA FirstOf ==
  ASSUME NEW rel \in Seq(Nat), rel # <<>>
  PROVE  \E i \in Nat, rest \in Seq(Nat) : rel = <<i>> \o rest /\ i = rel[1]
<1>1. Head(rel) \in Nat /\ Tail(rel) \in Seq(Nat) /\ rel = <<Head(rel)>> \o Tail(rel) /\ Head(rel) = rel[1]
  <2>1. Head(rel) \in Nat /\ Tail(rel) \in Seq(Nat) /\ Head(rel) = rel[1]
    OBVIOUS
  <2>2. PICK one : one = <<Head(rel)>>
    OBVIOUS
  <2>3. PICK rest : rest = Tail(rel)
    OBVIOUS
  <2>4. one \in Seq(Nat) /\ Len(one) = 1 /\ one[1] = rel[1]
    BY <2>1, <2>2
  <2>5. rest \in Seq(Nat) /\ Len(rest) = Len(rel) - 1 /\ Len(rel) \in Nat \ {0}
        /\ \A k \in 1 .. Len(rel) - 1 : rest[k] = rel[k + 1]
    BY <2>3, HeadTailProperties
  <2>6. /\ one \o rest \in Seq(Nat) /\ Len(one \o rest) = Len(one) + Len(rest)
        /\ \A k \in 1 .. Len(one) + Len(rest) :
             (one \o rest)[k] = IF k <= Len(one) THEN one[k] ELSE rest[k - Len(one)]
    BY <2>4, <2>5, ConcatProperties
  <2>7. ASSUME NEW k \in 1 .. Len(rel) PROVE rel[k] = (one \o rest)[k]
    <3>1. CASE k = 1
      BY <2>4, <2>5, <2>6, <3>1
    <3>2. CASE k # 1
      <4>1. k - 1 \in 1 .. Len(rel) - 1 /\ (k - 1) + 1 = k
        BY <2>5, <3>2
      <4>2. rest[k - 1] = rel[k]
        BY <2>5, <4>1
      <4>3. (one \o rest)[k] = rest[k - 1]
        BY <2>4, <2>5, <2>6, <3>2
      <4> QED
        BY <4>2, <4>3
    <3> QED
      BY <3>1, <3>2
  <2>8. rel = one \o rest
    <3>1. PICK two : two = one \o rest
      OBVIOUS
    <3>2. two \in Seq(Nat) /\ Len(two) = Len(rel) /\ \A k \in 1 .. Len(rel) : rel[k] = two[k]
      BY <2>4, <2>5, <2>6, <2>7, <3>1
    <3>3. rel = two
      BY <3>2, SeqEqual
    <3> QED
      BY <3>1, <3>3
  <2> QED
    BY <2>1, <2>2, <2>3, <2>8
<1> QED
  BY <1>1

(* A path that stands leads into the nodes there are.                      *)
LEMMA StandsInside ==
  ASSUME NEW nodes, NEW rel \in Seq(Nat), Stands(nodes, rel)
  PROVE  rel # <<>> /\ rel[1] \in DOMAIN nodes
<1>1. rel # <<>>
  BY DEF Stands
<1>2. PICK i \in Nat, rest \in Seq(Nat) : rel = <<i>> \o rest /\ i = rel[1]
  BY <1>1, FirstOf
<1>3. CASE rest = <<>>
  <2>1. rel = <<i>>
    BY <1>2, <1>3
  <2> QED
    BY <1>1, <1>2, <2>1, StandsHere
<1>4. CASE rest # <<>>
  BY <1>1, <1>2, <1>4, StandsBelow
<1> QED
  BY <1>3, <1>4

(* It still stands when a node is added that does not speak for its end.   *)
LEMMA StandsOn ==
  ASSUME NEW nodes, IsSeq(nodes), NEW node, NEW rel \in Seq(Nat), Stands(nodes, rel),
         node.kind = "transform" => rel # <<node.source>>
  PROVE  Stands(Append(nodes, node), rel)
<1>1. PICK i \in Nat, rest \in Seq(Nat) : rel = <<i>> \o rest /\ i = rel[1]
  BY FirstOf, StandsInside
<1>2. PICK more : more = Append(nodes, node)
  OBVIOUS
<1>3. /\ Len(nodes) \in Nat /\ DOMAIN nodes = 1 .. Len(nodes) /\ DOMAIN more = 1 .. Len(nodes) + 1
      /\ more[Len(nodes) + 1] = node /\ \A k \in 1 .. Len(nodes) : more[k] = nodes[k]
  BY <1>2, AppendSeq
<1>4. i \in DOMAIN more /\ more[i] = nodes[i]
  <2>1. i \in 1 .. Len(nodes)
    BY <1>1, <1>3, StandsInside
  <2> QED
    BY <1>3, <2>1
<1>5. CASE rest = <<>>
  <2>1. rel = <<i>>
    BY <1>1, <1>5
  <2>2. ~Silent(nodes[i]) /\ i \notin Taken(nodes)
    BY <2>1, StandsHere
  <2>3. ASSUME i \in Taken(more) PROVE FALSE
    <3>1. PICK k \in DOMAIN more : more[k].kind = "transform" /\ more[k].source = i
      BY <2>3 DEF Taken
    <3>2. CASE k = Len(nodes) + 1
      BY <1>3, <2>1, <3>1, <3>2
    <3>3. CASE k \in 1 .. Len(nodes)
      BY <1>3, <2>2, <3>1, <3>3 DEF Taken
    <3> QED
      BY <1>3, <3>1, <3>2, <3>3
  <2>4. Stands(more, <<i>>)
    BY <1>4, <2>2, <2>3, StandsHere
  <2> QED
    BY <1>2, <2>1, <2>4
<1>6. CASE rest # <<>>
  <2>1. ~Silent(nodes[i]) /\ Stands(nodes[i].kids, rest)
    BY <1>1, <1>6, StandsBelow
  <2>2. Stands(more, <<i>> \o rest)
    BY <1>4, <1>6, <2>1, StandsBelow
  <2> QED
    BY <1>1, <1>2, <2>2
<1> QED
  BY <1>5, <1>6

(* The hull of nodes lies where they lie, and holds each of them.          *)
LEMMA HullSpans ==
  ASSUME NEW at \in Nat, NEW nodes, \A n \in nodes : Within(n, at)
  PROVE  /\ Hull(nodes, at)[1] \in Nat /\ Hull(nodes, at)[2] \in Nat
         /\ Hull(nodes, at)[1] <= Hull(nodes, at)[2] /\ Hull(nodes, at)[2] <= at
         /\ \A n \in nodes : n.to > n.from => Hull(nodes, at)[1] <= n.from /\ n.to <= Hull(nodes, at)[2]
<1>1. PICK spans : spans = {n \in nodes : Width(n) > 0}
  OBVIOUS
<1>2. \A n \in nodes : n.to > n.from <=> n \in spans
  BY <1>1 DEF Width, Within
<1>3. CASE spans = {}
  <2>1. Hull(nodes, at) = <<at, at>>
    BY <1>1, <1>3 DEF Hull
  <2> QED
    BY <1>2, <1>3, <2>1
<1>4. CASE spans # {}
  <2>1. PICK froms : froms = {n.from : n \in spans}
    OBVIOUS
  <2>2. PICK tos : tos = {n.to : n \in spans}
    OBVIOUS
  <2>3. Hull(nodes, at) = <<Min(froms), Max(tos)>>
    BY <1>1, <1>4, <2>1, <2>2 DEF Hull
  <2>4. PICK m \in spans : TRUE
    BY <1>4
  <2>5. \A n \in spans : n \in nodes /\ Within(n, at) /\ n.to > n.from
    BY <1>1, <1>2
  <2>6. froms \in SUBSET Nat /\ froms # {} /\ tos \in SUBSET (1 .. at) /\ tos # {}
    BY <2>1, <2>2, <2>4, <2>5 DEF Within
  <2>7. Min(froms) \in froms /\ \A x \in froms : Min(froms) <= x
    <3>1. \E x \in froms : \A y \in froms : x <= y
      BY <2>6, LeastNat
    <3> QED
      BY <3>1 DEF Min
  <2>8. Max(tos) \in tos /\ \A x \in tos : x <= Max(tos)
    BY <2>6, MaxOfSome
  <2>9. PICK lo : lo = Min(froms)
    OBVIOUS
  <2>10. PICK hi : hi = Max(tos)
    OBVIOUS
  <2>11. /\ lo \in Nat /\ hi \in 1 .. at
         /\ \A n \in spans : lo <= n.from /\ n.to <= hi
    BY <2>1, <2>2, <2>6, <2>7, <2>8, <2>9, <2>10
  <2>12. lo <= m.from /\ m.to <= hi /\ m.to > m.from /\ m.from \in Nat /\ m.to \in Nat
    BY <2>4, <2>5, <2>11 DEF Within
  <2>13. lo <= hi
    BY <2>11, <2>12
  <2>14. Hull(nodes, at)[1] = lo /\ Hull(nodes, at)[2] = hi
    BY <2>3, <2>9, <2>10
  <2> QED
    BY <1>2, <2>11, <2>13, <2>14
<1> QED
  BY <1>3, <1>4

(* A record of a node a unit takes next, or of a field inside the node.    *)
OwnRecord(f, node, role) ==
  \E rel \in Seq(Nat) :
    /\ role = NextPath(f) \o rel
    /\ ~Silent(node)
    /\ rel # <<>> => Stands(node.kids, rel)

(* What a unit may have a record of, once it has taken a node: a field it  *)
(* had one of, unless the node speaks for it, or the node and its fields.  *)
MayRecord(f, node, role) ==
  \/ /\ role \in Roles(f.writes)
     /\ node.kind = "transform" => role # f.path \o <<node.source>>
  \/ \E rel \in Seq(Nat) :
       /\ role = f.path \o (<<Len(f.nodes) + 1>> \o rel)
       /\ ~Silent(node)
       /\ rel # <<>> => Stands(node.kids, rel)

(* A field is taken: what is written stays in order, if it is what was     *)
(* written before, without the record of a source it speaks for, and       *)
(* records of the field itself.                                            *)
LEMMA TookOK ==
  ASSUME NEW f, FrameOK(f), NEW node, NEW at \in Nat, f.at <= at, at <= f.extent,
         Within(node, at), Reads(node, f.nodes),
         NEW ws \in Seq(Write), Distinct(ws),
         \A role \in Roles(ws) : MayRecord(f, node, role),
         NEW g, g = Took(f, node, at, ws)
  PROVE  /\ FrameOK(g) /\ g.kind = f.kind /\ g.path = f.path /\ g.from = f.from
         /\ g.extent = f.extent /\ g.head = f.head /\ g.at = at
         /\ g.nodes = Append(f.nodes, node) /\ g.writes = ws
<1>1. g = Took(f, node, at, ws)
  OBVIOUS
<1>2. PICK more : more = Append(f.nodes, node)
  OBVIOUS
<1>3. IsFrame(f) /\ IsSeq(f.nodes)
  BY DEF FrameOK
<1>4. /\ IsFrame(g) /\ g.kind = f.kind /\ g.path = f.path /\ g.from = f.from
      /\ g.extent = f.extent /\ g.head = f.head /\ g.at = at /\ g.nodes = more /\ g.writes = ws
  BY <1>1, <1>2, <1>3 DEF Took, IsFrame
<1>5. PICK old : old = f.nodes
  OBVIOUS
<1>6. /\ IsSeq(more) /\ Len(old) \in Nat /\ DOMAIN old = 1 .. Len(old)
      /\ DOMAIN more = 1 .. Len(old) + 1 /\ more[Len(old) + 1] = node
      /\ \A i \in 1 .. Len(old) : more[i] = old[i]
  BY <1>2, <1>3, <1>5, AppendSeq
<1>7. NodesOK(g)
  <2> SUFFICES ASSUME NEW i \in DOMAIN more PROVE Within(more[i], at) /\ Reads(more[i], more)
    BY <1>4 DEF NodesOK
  <2>1. \A n : Reads(n, old) => Reads(n, more)
    BY <1>6 DEF Reads
  <2>2. CASE i = Len(old) + 1
    BY <1>5, <1>6, <2>1, <2>2
  <2>3. CASE i \in 1 .. Len(old)
    <3>1. Within(old[i], f.at) /\ Reads(old[i], old)
      BY <1>5, <1>6, <2>3 DEF FrameOK, NodesOK
    <3>2. Within(old[i], at)
      BY <3>1 DEF Within, FrameOK
    <3> QED
      BY <1>6, <2>1, <2>3, <3>1, <3>2
  <2> QED
    BY <1>6, <2>2, <2>3
<1>8. ASSUME NEW role \in Roles(ws)
      PROVE  \E rel \in Seq(Nat) : role = f.path \o rel /\ Stands(more, rel)
  <2>1. CASE /\ role \in Roles(f.writes)
             /\ node.kind = "transform" => role # f.path \o <<node.source>>
    <3>1. PICK rel \in Seq(Nat) : role = f.path \o rel /\ Stands(f.nodes, rel)
      BY <2>1 DEF FrameOK, RecordsStand
    <3>2. node.kind = "transform" => rel # <<node.source>>
      BY <2>1, <3>1
    <3>3. Stands(Append(old, node), rel)
      BY <1>3, <1>5, <3>1, <3>2, StandsOn
    <3> QED
      BY <1>2, <1>5, <3>1, <3>3
  <2>2. CASE \E rel \in Seq(Nat) :
                /\ role = f.path \o (<<Len(f.nodes) + 1>> \o rel)
                /\ ~Silent(node)
                /\ rel # <<>> => Stands(node.kids, rel)
    <3>1. PICK rel \in Seq(Nat) :
                /\ role = f.path \o (<<Len(f.nodes) + 1>> \o rel)
                /\ ~Silent(node)
                /\ rel # <<>> => Stands(node.kids, rel)
      BY <2>2
    <3>2. PICK last \in Nat : last = Len(old) + 1
      BY <1>6
    <3>3. last \in DOMAIN more /\ more[last] = node
      BY <1>6, <3>2
    <3>4. CASE rel = <<>>
      <4>1. last \notin Taken(more)
        <5> SUFFICES ASSUME NEW k \in DOMAIN more, more[k].kind = "transform", more[k].source = last
                     PROVE  FALSE
          BY DEF Taken
        <5>1. CASE k = Len(old) + 1
          BY <1>5, <1>6, <3>2, <5>1 DEF Reads
        <5>2. CASE k \in 1 .. Len(old)
          <6>1. Reads(old[k], old)
            BY <1>5, <1>6, <5>2 DEF FrameOK, NodesOK
          <6> QED
            BY <1>6, <3>2, <5>2, <6>1 DEF Reads
        <5> QED
          BY <1>6, <5>1, <5>2
      <4>2. Stands(more, <<last>>)
        BY <3>1, <3>3, <4>1, StandsHere
      <4>3. <<last>> \o rel = <<last>> /\ <<last>> \in Seq(Nat)
        BY <3>4
      <4>4. PICK own \in Seq(Nat) : own = <<last>>
        BY <4>3
      <4>5. role = f.path \o own /\ Stands(more, own)
        BY <1>5, <3>1, <3>2, <4>2, <4>3, <4>4
      <4> QED
        BY <4>5
    <3>5. CASE rel # <<>>
      <4>1. Stands(more, <<last>> \o rel)
        BY <3>1, <3>3, <3>5, StandsBelow
      <4>2. PICK own \in Seq(Nat) : own = <<last>> \o rel
        <5>1. <<last>> \in Seq(Nat)
          OBVIOUS
        <5>2. <<last>> \o rel \in Seq(Nat)
          BY <5>1, ConcatProperties
        <5> QED
          BY <5>2
      <4>3. role = f.path \o own /\ Stands(more, own)
        BY <1>5, <3>1, <3>2, <4>1, <4>2
      <4> QED
        BY <4>3
    <3> QED
      BY <3>4, <3>5
  <2> QED
    BY <2>1, <2>2 DEF MayRecord
<1>9. RecordsStand(g)
  BY <1>4, <1>8 DEF RecordsStand
<1>10. FrameOK(g)
  BY <1>3, <1>4, <1>6, <1>7, <1>9 DEF FrameOK
<1> QED
  BY <1>1, <1>2, <1>4, <1>10

(* A field read next has no record yet.                                    *)
LEMMA NewField ==
  ASSUME NEW f, FrameOK(f), NEW rel \in Seq(Nat)
  PROVE  f.path \o (<<Len(f.nodes) + 1>> \o rel) \notin Roles(f.writes)
<1>1. PICK last : last = Len(f.nodes) + 1
  OBVIOUS
<1>2. Len(f.nodes) \in Nat /\ DOMAIN f.nodes = 1 .. Len(f.nodes) /\ f.path \in Seq(Nat)
  BY SeqDomain DEF FrameOK
<1>3. PICK own : own = <<last>> \o rel
  OBVIOUS
<1>4. own \in Seq(Nat) /\ own[1] = last
  BY <1>1, <1>2, <1>3
<1> SUFFICES ASSUME f.path \o own \in Roles(f.writes) PROVE FALSE
  BY <1>1, <1>3
<1>5. PICK r \in Seq(Nat) : f.path \o own = f.path \o r /\ Stands(f.nodes, r)
  BY DEF FrameOK, RecordsStand
<1>6. own = r
  BY <1>2, <1>4, <1>5, PathsCancel
<1>7. own[1] \in DOMAIN f.nodes
  BY <1>5, <1>6, StandsInside
<1> QED
  BY <1>1, <1>2, <1>4, <1>7

LEMMA NextPaths ==
  ASSUME NEW f, FrameOK(f)
  PROVE  /\ NextPath(f) \in Seq(Nat)
         /\ NextPath(f) = f.path \o <<Len(f.nodes) + 1>>
         /\ \A rel \in Seq(Nat) : NextPath(f) \o rel = f.path \o (<<Len(f.nodes) + 1>> \o rel)
<1>1. PICK p : p = f.path
  OBVIOUS
<1>2. PICK last : last = Len(f.nodes) + 1
  OBVIOUS
<1>3. p \in Seq(Nat) /\ last \in Nat
  BY <1>1, <1>2, SeqDomain DEF FrameOK
<1>4. Append(p, last) \in Seq(Nat) /\ Append(p, last) = p \o <<last>>
  BY <1>3
<1>5. ASSUME NEW rel \in Seq(Nat) PROVE Append(p, last) \o rel = p \o (<<last>> \o rel)
  <2>1. PICK one : one = <<last>>
    OBVIOUS
  <2>2. one \in Seq(Nat)
    BY <1>3, <2>1
  <2>3. (p \o one) \o rel = p \o (one \o rel)
    BY <1>3, <2>2, ConcatAssociative
  <2> QED
    BY <1>4, <2>1, <2>3
<1> QED
  BY <1>1, <1>2, <1>4, <1>5 DEF NextPath

(***************************************************************************)
(* What a field says of its bytes.                                         *)
(***************************************************************************)
Accountable(node) ==
  node.from \in Int /\ node.to \in Int /\ node.status \in {"ok", "undecodable", "truncated"}
                   /\ node.none \in BOOLEAN

LEMMA AccountedWrites ==
  ASSUME NEW node, Accountable(node), NEW role \in Seq(Nat)
  PROVE  /\ Accounted(node, role) \in Seq(Write)
         /\ Distinct(Accounted(node, role))
         /\ Roles(Accounted(node, role)) \subseteq {role}
<1>1. node.from \in Int /\ node.to \in Int /\ "undecodable" \in Reasons /\ "skipped" \in Reasons
  BY DEF Accountable, Reasons
<1>2. CASE node.status # "ok"
  <2>1. Accounted(node, role) = Naming(node, "undecodable")
    BY <1>2 DEF Accounted
  <2> QED
    BY <1>1, <2>1, NamingWrite
<1>3. CASE node.status = "ok" /\ node.none
  <2>1. Accounted(node, role) = Naming(node, "skipped")
    BY <1>3 DEF Accounted
  <2> QED
    BY <1>1, <2>1, NamingWrite
<1>4. CASE node.status = "ok" /\ ~node.none
  <2>1. Accounted(node, role) = <<RecordOf(node.from, node.to, role)>>
    BY <1>4 DEF Accounted
  <2> QED
    BY <1>1, <2>1, RecordWrite
<1> QED
  BY <1>2, <1>3, <1>4

LEMMA LeafFields ==
  ASSUME NEW from \in Nat, NEW width \in Nat, NEW none \in BOOLEAN,
         NEW node, node = Leaf(from, width, none)
  PROVE  /\ IsNode(node) /\ node.kind = "leaf"
         /\ node.from = from /\ node.to = from + width
         /\ node.none = none /\ node.status = "ok"
         /\ ~Silent(node)
         /\ Accountable(node)
BY DEF Leaf, Node, IsNode, Silent, Accountable

LEMMA ChunkFields ==
  ASSUME NEW from \in Nat, NEW width \in 0 .. 1, NEW none \in BOOLEAN
  PROVE  /\ Chunk(from, width, none).kind = "group"
         /\ Chunk(from, width, none).from = from /\ Chunk(from, width, none).to = from + 1 + width
         /\ ~Silent(Chunk(from, width, none))
         /\ Chunk(from, width, none).kids = <<Leaf(from, 1, none), Leaf(from + 1, width, FALSE)>>
BY DEF Chunk, Node, Silent

(* Where the chunks of a repetition begin.                                 *)
Starts(from, widths) == [j \in DOMAIN widths |-> from + (IF j = 1 THEN 0 ELSE 1 + widths[1])]

(* A repetition of chunks is as many as it has widths, one after another.  *)
Tiled(n, from, widths, none, start) ==
  /\ n.kind = "chunks" /\ n.from = from /\ ~Silent(n)
  /\ DOMAIN n.kids = 1 .. Len(widths) /\ Len(n.kids) = Len(widths) /\ Len(widths) \in 0 .. 2
  /\ \A j \in 1 .. Len(widths) :
       /\ widths[j] \in 0 .. 1 /\ start[j] \in Nat
       /\ n.kids[j] = Chunk(start[j], widths[j], none)
  /\ n.to \in Nat /\ from <= n.to
  /\ Len(widths) = 0 => n.to = from
  /\ Len(widths) = 1 => n.to = start[1] + 1 + widths[1]
  /\ Len(widths) = 2 => n.to = start[2] + 1 + widths[2]

LEMMA ChunksFields ==
  ASSUME NEW from \in Nat, NEW widths \in ChunkWidths, NEW none \in BOOLEAN,
         NEW n, n = Chunks(from, widths, none),
         NEW start, start = Starts(from, widths)
  PROVE  Tiled(n, from, widths, none, start)
<1>1. PICK kids : kids = [j \in DOMAIN widths |-> Chunk(start[j], widths[j], none)]
  OBVIOUS
<1>2. /\ n.kind = "chunks" /\ n.from = from /\ ~Silent(n) /\ n.kids = kids
      /\ n.to = IF kids = <<>> THEN from ELSE Last(kids).to
  BY <1>1 DEF Chunks, Node, Silent, Starts
<1>3. /\ DOMAIN widths = 1 .. Len(widths) /\ Len(widths) \in 0 .. 2
      /\ \A j \in 1 .. Len(widths) : widths[j] \in 0 .. 1
  <2>1. CASE widths = <<>>
    BY <2>1
  <2>2. CASE \E w \in 0 .. 1 : widths = <<w>>
    BY <2>2
  <2>3. CASE \E w, v \in 0 .. 1 : widths = <<w, v>>
    BY <2>3
  <2> QED
    BY <2>1, <2>2, <2>3 DEF ChunkWidths
<1>4. DOMAIN kids = 1 .. Len(widths) /\ Len(kids) = Len(widths)
  <2>1. DOMAIN kids = 1 .. Len(widths) /\ Len(widths) \in Nat
    BY <1>1, <1>3
  <2>2. \A j \in 1 .. Len(widths) : kids[j] \in {kids[i] : i \in 1 .. Len(widths)}
    OBVIOUS
  <2>3. kids = [j \in 1 .. Len(widths) |-> kids[j]]
    BY <1>1, <2>1
  <2>4. kids \in [1 .. Len(widths) -> {kids[i] : i \in 1 .. Len(widths)}]
    BY <2>2, <2>3
  <2>5. PICK S : S = {kids[i] : i \in 1 .. Len(widths)}
    OBVIOUS
  <2>6. kids \in Seq(S)
    BY <2>1, <2>4, <2>5
  <2> QED
    BY <2>1, <2>6
<1>5. ASSUME NEW j \in 1 .. Len(widths)
      PROVE  /\ widths[j] \in 0 .. 1 /\ start[j] \in Nat /\ start[j] >= from
             /\ kids[j] = Chunk(start[j], widths[j], none)
             /\ kids[j].to = start[j] + 1 + widths[j]
  <2>1. 1 \in 1 .. Len(widths) /\ widths[1] \in 0 .. 1 /\ widths[j] \in 0 .. 1
    BY <1>3
  <2>2. start[j] = from + (IF j = 1 THEN 0 ELSE 1 + widths[1])
    BY <1>3 DEF Starts
  <2>3. start[j] \in Nat /\ start[j] >= from
    BY <2>1, <2>2
  <2>4. kids[j] = Chunk(start[j], widths[j], none)
    BY <1>1, <1>3
  <2>5. PICK at \in Nat : at = start[j]
    BY <2>3
  <2>6. PICK width \in 0 .. 1 : width = widths[j]
    BY <2>1
  <2>7. kids[j] = Chunk(at, width, none)
    BY <2>4, <2>5, <2>6
  <2>8. Chunk(at, width, none).to = at + 1 + width
    BY ChunkFields
  <2> QED
    BY <2>1, <2>3, <2>4, <2>5, <2>6, <2>7, <2>8
<1>6. Len(widths) = 0 => n.to = from
  <2>1. ASSUME Len(widths) = 0 PROVE widths = <<>>
    BY <2>1 DEF ChunkWidths
  <2>2. widths = <<>> => kids = <<>>
    BY <1>1
  <2> QED
    BY <1>2, <2>1, <2>2
<1>7. Len(widths) # 0 => n.to = start[Len(widths)] + 1 + widths[Len(widths)]
  <2> SUFFICES ASSUME Len(widths) # 0 PROVE n.to = start[Len(widths)] + 1 + widths[Len(widths)]
    OBVIOUS
  <2>1. Len(widths) \in 1 .. Len(widths) /\ kids # <<>> /\ Last(kids) = kids[Len(widths)]
    BY <1>3, <1>4 DEF Last
  <2> QED
    BY <1>2, <1>5, <2>1
<1>8. n.to \in Nat /\ from <= n.to
  <2>1. CASE Len(widths) = 0
    BY <1>6, <2>1
  <2>2. CASE Len(widths) # 0
    <3>1. PICK k : k = Len(widths) /\ k \in 1 .. Len(widths)
      BY <1>3, <2>2
    <3>2. start[k] \in Nat /\ start[k] >= from /\ widths[k] \in 0 .. 1 /\ n.to = start[k] + 1 + widths[k]
      BY <1>5, <1>7, <2>2, <3>1
    <3> QED
      BY <3>2
  <2> QED
    BY <2>1, <2>2
<1>9. /\ Len(widths) = 1 => n.to = start[1] + 1 + widths[1]
      /\ Len(widths) = 2 => n.to = start[2] + 1 + widths[2]
  BY <1>7
<1>10. \A j \in 1 .. Len(widths) :
         /\ widths[j] \in 0 .. 1 /\ start[j] \in Nat
         /\ n.kids[j] = Chunk(start[j], widths[j], none)
  BY <1>2, <1>5
<1>11. DOMAIN n.kids = 1 .. Len(widths) /\ Len(n.kids) = Len(widths)
  BY <1>2, <1>4
<1> QED
  BY <1>2, <1>3, <1>6, <1>8, <1>9, <1>10, <1>11, Zenon DEF Tiled

LEMMA OneChunkWrites ==
  ASSUME NEW from \in Nat, NEW width \in 0 .. 1, NEW none \in BOOLEAN, NEW role \in Seq(Nat)
  PROVE  /\ ChunkWrites(Chunk(from, width, none), role) \in Seq(Write)
         /\ Distinct(ChunkWrites(Chunk(from, width, none), role))
         /\ Roles(ChunkWrites(Chunk(from, width, none), role)) \subseteq {Append(role, 1), Append(role, 2)}
<1>1. PICK size : size = Leaf(from, 1, none)
  OBVIOUS
<1>2. PICK data : data = Leaf(from + 1, width, FALSE)
  OBVIOUS
<1>3. Accountable(size) /\ Accountable(data)
  <2>1. from + 1 \in Nat /\ width \in Nat /\ 1 \in Nat /\ FALSE \in BOOLEAN
    OBVIOUS
  <2> QED
    BY <1>1, <1>2, <2>1 DEF Leaf, Node, Accountable
<1>4. PICK chunk : chunk = Chunk(from, width, none)
  OBVIOUS
<1>5. chunk.kids[1] = size /\ chunk.kids[2] = data
  <2>1. chunk.kids = <<size, data>>
    BY <1>1, <1>2, <1>4, ChunkFields, Zenon
  <2> QED
    BY <2>1
<1>6. PICK first : first = Append(role, 1)
  OBVIOUS
<1>7. PICK second : second = Append(role, 2)
  OBVIOUS
<1>8. first \in Seq(Nat) /\ second \in Seq(Nat) /\ first # second
  <2>1. first[Len(role) + 1] = 1 /\ second[Len(role) + 1] = 2
    BY <1>6, <1>7
  <2> QED
    BY <1>6, <1>7, <2>1
<1>9. PICK ws : ws = Accounted(size, first)
  OBVIOUS
<1>10. PICK vs : vs = Accounted(data, second)
  OBVIOUS
<1>11. /\ ws \in Seq(Write) /\ Distinct(ws) /\ Roles(ws) \subseteq {first}
       /\ vs \in Seq(Write) /\ Distinct(vs) /\ Roles(vs) \subseteq {second}
  BY <1>3, <1>8, <1>9, <1>10, AccountedWrites
<1>12. ChunkWrites(chunk, role) = ws \o vs
  BY <1>5, <1>6, <1>7, <1>9, <1>10 DEF ChunkWrites
<1>13. Roles(ws) \cap Roles(vs) = {}
  BY <1>8, <1>11
<1>14. /\ ws \o vs \in Seq(Write) /\ Distinct(ws \o vs) /\ Roles(ws \o vs) = Roles(ws) \cup Roles(vs)
  BY <1>11, <1>13, JoinedWrites
<1> QED
  BY <1>4, <1>6, <1>7, <1>11, <1>12, <1>14

LEMMA ChunksSteps ==
  ASSUME NEW n, IsChunks(n), NEW role \in Seq(Nat)
  PROVE  /\ Len(n.kids) \in Nat
         /\ \E says :
              /\ ChunksWrites(n, role) = says[Len(n.kids)]
              /\ says[0] = <<>>
              /\ \A j \in 1 .. Len(n.kids) :
                   says[j] = says[j - 1] \o ChunkWrites(n.kids[j], Append(role, j))
<1> DEFINE N == Len(n.kids)
           Rec(b) == b = [j \in 0 .. N |->
                            IF j = 0 THEN <<>>
                            ELSE b[j - 1] \o ChunkWrites(n.kids[j], Append(role, j))]
           says == CHOOSE b : Rec(b)
           G == [p \in (1 .. N) \X Seq(Write) |-> p[2] \o ChunkWrites(n.kids[p[1]], Append(role, p[1]))]
<1>1. PICK from \in Nat, widths \in ChunkWidths, none \in BOOLEAN : n = Chunks(from, widths, none)
  BY DEF IsChunks
<1>2. PICK start : start = Starts(from, widths)
  OBVIOUS
<1>3. /\ N = Len(widths) /\ N \in Nat
      /\ \A j \in 1 .. N : widths[j] \in 0 .. 1 /\ start[j] \in Nat
                           /\ n.kids[j] = Chunk(start[j], widths[j], none)
  <2>1. Tiled(n, from, widths, none, start)
    BY <1>1, <1>2, ChunksFields
  <2> QED
    BY <2>1 DEF Tiled
<1>4. <<>> \in Seq(Write)
  OBVIOUS
<1>5. ASSUME NEW k \in 1 .. N PROVE ChunkWrites(n.kids[k], Append(role, k)) \in Seq(Write)
  <2>1. PICK at \in Nat, width \in 0 .. 1 : n.kids[k] = Chunk(at, width, none)
    BY <1>3
  <2>2. Append(role, k) \in Seq(Nat)
    BY <1>3
  <2> QED
    BY <2>1, <2>2, OneChunkWrites
<1>6. G \in [(1 .. N) \X Seq(Write) -> Seq(Write)]
  <2> SUFFICES ASSUME NEW k \in 1 .. N, NEW us \in Seq(Write)
               PROVE  us \o ChunkWrites(n.kids[k], Append(role, k)) \in Seq(Write)
    OBVIOUS
  <2> QED
    BY <1>5, ConcatProperties
<1>7. PICK f : Iterates(f, Seq(Write), <<>>, G, N)
  <2> HIDE DEF N, G
  <2> QED
    BY <1>3, <1>4, <1>6, SomeIterates
<1>8. ASSUME NEW k \in 1 .. N
      PROVE  f[k] = f[k - 1] \o ChunkWrites(n.kids[k], Append(role, k))
  <2>1. k - 1 \in 0 .. N
    BY <1>3
  <2>2. f[k - 1] \in Seq(Write) /\ f[k] = G[<<k, f[k - 1]>>]
    BY <1>7, <2>1 DEF Iterates
  <2> QED
    BY <2>2
<1> HIDE DEF N, G
<1>9. Rec(f)
  <2>1. f = [k \in 0 .. N |-> f[k]] /\ f[0] = <<>>
    BY <1>7 DEF Iterates
  <2>2. \A k \in 0 .. N : k # 0 => k \in 1 .. N
    BY <1>3
  <2> QED
    BY <1>8, <2>1, <2>2
<1>10. Rec(says)
  BY <1>9
<1>11. ChunksWrites(n, role) = says[N]
  BY DEF ChunksWrites, N
<1> HIDE DEF says
<1>12. says[0] = <<>>
  BY <1>3, <1>10
<1>13. \A k \in 1 .. N : says[k] = says[k - 1] \o ChunkWrites(n.kids[k], Append(role, k))
  <2> TAKE k \in 1 .. N
  <2>1. k \in 0 .. N /\ k # 0
    BY <1>3
  <2> QED
    BY <1>10, <2>1
<1> QED
  BY <1>3, <1>11, <1>12, <1>13 DEF N

(* The path of a size or of a datum in a repetition.                       *)
ChunkRole(n, path, r) ==
  \E j \in 1 .. Len(n.kids), i \in 1 .. 2 : r = Append(Append(path, j), i)

LEMMA ChunksRecords ==
  ASSUME NEW n, IsChunks(n), NEW role \in Seq(Nat)
  PROVE  /\ ChunksWrites(n, role) \in Seq(Write)
         /\ Distinct(ChunksWrites(n, role))
         /\ \A r \in Roles(ChunksWrites(n, role)) : ChunkRole(n, role, r)
<1> DEFINE N == Len(n.kids)
<1>1. PICK from \in Nat, widths \in ChunkWidths, none \in BOOLEAN : n = Chunks(from, widths, none)
  BY DEF IsChunks
<1>2. PICK start : start = Starts(from, widths)
  OBVIOUS
<1>3. /\ N = Len(widths) /\ N \in Nat
      /\ \A j \in 1 .. N : widths[j] \in 0 .. 1 /\ start[j] \in Nat
                           /\ n.kids[j] = Chunk(start[j], widths[j], none)
  <2>1. Tiled(n, from, widths, none, start)
    BY <1>1, <1>2, ChunksFields
  <2> QED
    BY <2>1 DEF Tiled
<1>4. PICK says :
        /\ ChunksWrites(n, role) = says[N]
        /\ says[0] = <<>>
        /\ \A j \in 1 .. N : says[j] = says[j - 1] \o ChunkWrites(n.kids[j], Append(role, j))
  BY ChunksSteps
<1> HIDE DEF N
<1> DEFINE Good(k) ==
             /\ says[k] \in Seq(Write) /\ Distinct(says[k])
             /\ \A r \in Roles(says[k]) : \E j \in 1 .. k, i \in 1 .. 2 : r = Append(Append(role, j), i)
           S == {k \in Nat : k <= N => Good(k)}
<1>5. 0 \in S
  BY <1>4, NoWrites
<1>6. ASSUME NEW k \in Nat, k \in S PROVE k + 1 \in S
  <2> SUFFICES ASSUME k + 1 <= N PROVE Good(k + 1)
    OBVIOUS
  <2>1. Good(k) /\ k + 1 \in 1 .. N /\ (k + 1) - 1 = k
    <3> HIDE DEF Good
    <3> QED
      BY <1>3, <1>6
  <2>2. PICK ws : ws = says[k]
    OBVIOUS
  <2>3. PICK here : here = Append(role, k + 1)
    OBVIOUS
  <2>4. here \in Seq(Nat)
    BY <2>3
  <2>5. PICK at \in Nat, width \in 0 .. 1 : n.kids[k + 1] = Chunk(at, width, none)
    BY <1>3, <2>1
  <2>6. PICK vs : vs = ChunkWrites(n.kids[k + 1], here)
    OBVIOUS
  <2>7. vs \in Seq(Write) /\ Distinct(vs) /\ Roles(vs) \subseteq {Append(here, 1), Append(here, 2)}
    BY <2>4, <2>5, <2>6, OneChunkWrites
  <2>8. /\ ws \in Seq(Write) /\ Distinct(ws)
        /\ \A r \in Roles(ws) : \E j \in 1 .. k, i \in 1 .. 2 : r = Append(Append(role, j), i)
    BY <2>1, <2>2
  <2>9. says[k + 1] = ws \o vs
    BY <1>4, <2>1, <2>2, <2>3, <2>6
  <2>10. ASSUME NEW r \in Roles(ws), r \in Roles(vs) PROVE FALSE
    <3>1. PICK j \in 1 .. k, i \in 1 .. 2 : r = Append(Append(role, j), i)
      BY <2>8, <2>10
    <3>2. PICK there : there = Append(role, j)
      OBVIOUS
    <3>3. there \in Seq(Nat) /\ Len(there) = Len(role) + 1 /\ there[Len(role) + 1] = j
      BY <3>2
    <3>4. r[Len(role) + 1] = j
      BY <3>1, <3>2, <3>3
    <3>5. Len(here) = Len(role) + 1 /\ here[Len(role) + 1] = k + 1
      BY <2>3
    <3>6. PICK l \in 1 .. 2 : r = Append(here, l)
      BY <2>7, <2>10
    <3>7. r[Len(role) + 1] = k + 1
      BY <2>4, <3>5, <3>6
    <3> QED
      BY <3>4, <3>7
  <2>11. Roles(ws) \cap Roles(vs) = {}
    BY <2>10
  <2>12. ws \o vs \in Seq(Write) /\ Distinct(ws \o vs) /\ Roles(ws \o vs) = Roles(ws) \cup Roles(vs)
    BY <2>7, <2>8, <2>11, JoinedWrites
  <2>13. ASSUME NEW r \in Roles(says[k + 1])
         PROVE  \E j \in 1 .. k + 1, i \in 1 .. 2 : r = Append(Append(role, j), i)
    <3>1. CASE r \in Roles(ws)
      <4>1. PICK j \in 1 .. k, i \in 1 .. 2 : r = Append(Append(role, j), i)
        BY <2>8, <3>1
      <4>2. j \in 1 .. k + 1
        OBVIOUS
      <4> QED
        BY <4>1, <4>2, Zenon
    <3>2. CASE r \in Roles(vs)
      <4>1. PICK i \in 1 .. 2 : r = Append(here, i)
        BY <2>7, <3>2
      <4>2. k + 1 \in 1 .. k + 1
        OBVIOUS
      <4> QED
        BY <2>3, <4>1, <4>2, Zenon
    <3> QED
      BY <2>9, <2>12, <2>13, <3>1, <3>2
  <2> QED
    BY <2>9, <2>12, <2>13
<1>7. Nat \subseteq S
  <2> HIDE DEF S
  <2> QED
    BY <1>5, <1>6, SetInduction
<1>8. Good(N)
  <2>1. N \in S
    BY <1>3, <1>7
  <2> QED
    BY <1>3, <2>1
<1> QED
  BY <1>4, <1>8 DEF N, ChunkRole

(***************************************************************************)
(* A transform takes over what its source and its arguments wrote.         *)
(***************************************************************************)
LEMMA ChunkOf ==
  ASSUME NEW n, IsChunks(n)
  PROVE  /\ Len(n.kids) \in Nat /\ DOMAIN n.kids = 1 .. Len(n.kids) /\ ~Silent(n)
         /\ \A j \in 1 .. Len(n.kids) :
              \E at \in Nat, width \in 0 .. 1, none \in BOOLEAN : n.kids[j] = Chunk(at, width, none)
<1>1. PICK from \in Nat, widths \in ChunkWidths, none \in BOOLEAN : n = Chunks(from, widths, none)
  BY DEF IsChunks
<1>2. PICK start : start = Starts(from, widths)
  OBVIOUS
<1>3. /\ Len(n.kids) = Len(widths) /\ Len(widths) \in 0 .. 2 /\ DOMAIN n.kids = 1 .. Len(widths) /\ ~Silent(n)
      /\ \A j \in 1 .. Len(widths) : widths[j] \in 0 .. 1 /\ start[j] \in Nat
                                      /\ n.kids[j] = Chunk(start[j], widths[j], none)
  <2>1. Tiled(n, from, widths, none, start)
    BY <1>1, <1>2, ChunksFields
  <2> QED
    BY <2>1 DEF Tiled
<1>4. Len(n.kids) \in Nat
  BY <1>3
<1>5. \A j \in 1 .. Len(n.kids) :
        \E at \in Nat, width \in 0 .. 1, skip \in BOOLEAN : n.kids[j] = Chunk(at, width, skip)
  BY <1>3, Zenon
<1> QED
  BY <1>3, <1>4, <1>5

(* The data a concat joins lie in the repetition that read them.           *)
LEMMA DataWithin ==
  ASSUME NEW n, IsChunks(n), NEW at \in Nat, n.to <= at, NEW j \in DOMAIN n.kids
  PROVE  Within(n.kids[j].kids[2], at)
<1>1. PICK from \in Nat, widths \in ChunkWidths, none \in BOOLEAN : n = Chunks(from, widths, none)
  BY DEF IsChunks
<1>2. PICK start : start = Starts(from, widths)
  OBVIOUS
<1>3. /\ DOMAIN n.kids = 1 .. Len(widths) /\ Len(widths) \in 0 .. 2
      /\ \A k \in 1 .. Len(widths) : widths[k] \in 0 .. 1 /\ start[k] \in Nat
                                      /\ n.kids[k] = Chunk(start[k], widths[k], none)
      /\ Len(widths) = 1 => n.to = start[1] + 1 + widths[1]
      /\ Len(widths) = 2 => n.to = start[2] + 1 + widths[2]
  <2>1. Tiled(n, from, widths, none, start)
    BY <1>1, <1>2, ChunksFields
  <2> QED
    BY <2>1 DEF Tiled
<1>4. /\ widths[j] \in 0 .. 1 /\ start[j] \in Nat /\ n.kids[j] = Chunk(start[j], widths[j], none)
  <2>1. j \in 1 .. Len(widths)
    BY <1>3
  <2> QED
    BY <1>3, <2>1
<1>5. start[j] + 1 + widths[j] <= n.to
  <2>1. CASE Len(widths) = j
    BY <1>3, <1>4, <2>1
  <2>2. CASE Len(widths) # j
    <3>1. j = 1 /\ Len(widths) = 2
      BY <1>3, <2>2
    <3>2. DOMAIN widths = 1 .. 2
      <4>1. CASE widths = <<>>
        BY <3>1, <4>1
      <4>2. CASE \E w \in 0 .. 1 : widths = <<w>>
        BY <3>1, <4>2
      <4>3. CASE \E w, v \in 0 .. 1 : widths = <<w, v>>
        BY <4>3
      <4> QED
        BY <4>1, <4>2, <4>3 DEF ChunkWidths
    <3>3. start[1] = from + 0 /\ start[2] = from + (1 + widths[1])
      BY <1>2, <3>2 DEF Starts
    <3>4. widths[1] \in 0 .. 1 /\ widths[2] \in 0 .. 1
      BY <1>3, <3>1
    <3> QED
      BY <1>3, <3>1, <3>3, <3>4
  <2> QED
    BY <2>1, <2>2
<1>6. PICK from1 \in Nat : from1 = start[j]
  BY <1>4
<1>7. PICK width \in 0 .. 1 : width = widths[j]
  BY <1>4
<1>8. n.kids[j] = Chunk(from1, width, none)
  BY <1>4, <1>6, <1>7
<1>9. n.kids[j].kids[2] = Leaf(from1 + 1, width, FALSE)
  BY <1>8 DEF Chunk, Node
<1>10. n.kids[j].kids[2].from = from1 + 1 /\ n.kids[j].kids[2].to = from1 + 1 + width
  BY <1>9 DEF Leaf, Node
<1>11. from1 + 1 \in Nat /\ from1 + 1 + width \in Nat /\ from1 + 1 <= from1 + 1 + width
       /\ from1 + 1 + width <= at
  <2>1. from1 + 1 + width <= n.to /\ n.to \in Nat
    <3>1. Tiled(n, from, widths, none, start)
      BY <1>1, <1>2, ChunksFields
    <3> QED
      BY <1>5, <1>6, <1>7, <3>1 DEF Tiled
  <2> QED
    BY <2>1
<1> QED
  BY <1>10, <1>11 DEF Within

MembersAre(members, nodes, concat, path) ==
  /\ Len(members) \in Nat /\ Len(members) = Len(nodes[concat.source].kids)
  /\ \A j \in 1 .. Len(members) :
       /\ members[j].node = nodes[concat.source].kids[j].kids[2]
       /\ members[j].role = path \o <<concat.source, j, 2>>
       /\ members[j].node.from \in Int /\ members[j].node.to \in Int

LEMMA MembersOf ==
  ASSUME NEW nodes, NEW concat, IsChunks(nodes[concat.source]), NEW path,
         NEW members, members = Members(nodes, concat, path)
  PROVE  MembersAre(members, nodes, concat, path)
<1>1. PICK kids : kids = nodes[concat.source].kids
  OBVIOUS
<1>2. /\ Len(kids) \in Nat /\ DOMAIN kids = 1 .. Len(kids)
      /\ \A j \in 1 .. Len(kids) :
           \E at \in Nat, width \in 0 .. 1, none \in BOOLEAN : kids[j] = Chunk(at, width, none)
  BY <1>1, ChunkOf
<1>4. members = [j \in 1 .. Len(kids) |->
                   [node |-> kids[j].kids[2], role |-> path \o <<concat.source, j, 2>>]]
  BY <1>1, <1>2 DEF Members
<1>5. PICK S : S = {members[j] : j \in 1 .. Len(kids)}
  OBVIOUS
<1>6. members \in Seq(S)
  <2>1. \A j \in 1 .. Len(kids) : members[j] \in S
    BY <1>5
  <2>2. members = [j \in 1 .. Len(kids) |-> members[j]]
    BY <1>4
  <2>3. members \in [1 .. Len(kids) -> S]
    BY <2>1, <2>2
  <2> QED
    BY <1>2, <2>3
<1>7. Len(members) = Len(kids)
  BY <1>2, <1>4, <1>6
<1>8. ASSUME NEW j \in 1 .. Len(kids)
      PROVE  /\ members[j].node = kids[j].kids[2]
             /\ members[j].role = path \o <<concat.source, j, 2>>
             /\ kids[j].kids[2].from \in Int /\ kids[j].kids[2].to \in Int
  <2>1. members[j].node = kids[j].kids[2] /\ members[j].role = path \o <<concat.source, j, 2>>
    BY <1>4
  <2>2. PICK at \in Nat, width \in 0 .. 1, none \in BOOLEAN : kids[j] = Chunk(at, width, none)
    BY <1>2
  <2>3. PICK data : data = Leaf(at + 1, width, FALSE)
    OBVIOUS
  <2>4. kids[j].kids[2] = data
    <3>1. kids[j].kids = <<Leaf(at, 1, none), Leaf(at + 1, width, FALSE)>>
      BY <2>2 DEF Chunk, Node
    <3> QED
      BY <2>3, <3>1
  <2>5. data.from \in Int /\ data.to \in Int
    BY <2>3 DEF Leaf, Node
  <2> QED
    BY <2>1, <2>4, <2>5
<1> QED
  BY <1>1, <1>2, <1>7, <1>8 DEF MembersAre

LEMMA TakenOverThins ==
  ASSUME NEW f, FrameOK(f), NEW node, node.source \in DOMAIN f.nodes,
         NEW ws \in Seq(Write), Distinct(ws)
  PROVE  /\ TakenOver(f, node, ws) \in Seq(Write)
         /\ Distinct(TakenOver(f, node, ws))
         /\ Roles(TakenOver(f, node, ws)) \subseteq Roles(ws)
         /\ f.path \o <<node.source>> \notin Roles(TakenOver(f, node, ws))
<1>1. PICK nodes : nodes = f.nodes
  OBVIOUS
<1>2. PICK i : i = node.source
  OBVIOUS
<1>3. Len(nodes) \in Nat /\ DOMAIN nodes = 1 .. Len(nodes) /\ i \in 1 .. Len(nodes)
  BY <1>1, <1>2, SeqDomain DEF FrameOK
<1>4. PICK source : source = nodes[i]
  OBVIOUS
<1>5. Within(source, f.at) /\ Reads(source, nodes) /\ NodesOK(f)
  BY <1>1, <1>3, <1>4 DEF FrameOK, NodesOK
<1>6. PICK own : own = Retract(ws, Append(f.path, i))
  OBVIOUS
<1>7. Thins(own, ws) /\ Append(f.path, i) \notin Roles(own)
  BY <1>6, RetractThins
<1>8. own \in Seq(Write) /\ Distinct(own) /\ Roles(own) \subseteq Roles(ws)
  BY <1>7 DEF Thins
<1>9. Append(f.path, i) = f.path \o <<i>>
  BY <1>3 DEF FrameOK
<1>10. Thins(own, own)
  BY <1>8 DEF Thins
<1>11. SUFFICES Thins(TakenOver(f, node, ws), own)
  BY <1>2, <1>7, <1>8, <1>9 DEF Thins
<1>12. PICK reason \in Reasons : reason = IF node.none THEN "skipped" ELSE "undecodable"
  BY DEF Reasons
<1>13. CASE ~(node.none \/ node.failed)
  <2>1. TakenOver(f, node, ws) = Withdrawn(own, nodes, {a \in node.args : nodes[a].none})
    BY <1>1, <1>2, <1>6, <1>13 DEF TakenOver
  <2> QED
    BY <1>3, <1>8, <2>1, WithdrawnThins
<1>14. CASE (node.none \/ node.failed) /\ source.kind # "concat"
  <2>1. TakenOver(f, node, ws) = own \o Naming(source, reason)
    BY <1>1, <1>2, <1>4, <1>6, <1>12, <1>14 DEF TakenOver
  <2>2. source.from \in Int /\ source.to \in Int
    BY <1>5 DEF Within
  <2> QED
    BY <1>8, <1>10, <2>1, <2>2, NamingThins
<1>15. CASE (node.none \/ node.failed) /\ source.kind = "concat"
  <2>1. TakenOver(f, node, ws) = MembersNamed(own, Members(nodes, source, f.path), reason)
    BY <1>1, <1>2, <1>4, <1>6, <1>12, <1>15 DEF TakenOver
  <2>2. IsChunks(nodes[source.source])
    <3>1. source.source \in DOMAIN nodes /\ nodes[source.source].kind = "chunks"
      BY <1>5, <1>15 DEF Reads
    <3>2. Reads(nodes[source.source], nodes)
      BY <1>1, <1>5, <3>1 DEF NodesOK
    <3> QED
      BY <3>1, <3>2 DEF Reads
  <2>3. PICK members : members = Members(nodes, source, f.path)
    OBVIOUS
  <2>4. /\ Len(members) \in Nat
        /\ \A j \in 1 .. Len(members) : members[j].node.from \in Int /\ members[j].node.to \in Int
    BY <2>2, <2>3, MembersOf DEF MembersAre
  <2>5. Thins(MembersNamed(own, members, reason), own)
    BY <1>8, <2>4, MembersThins
  <2> QED
    BY <2>1, <2>3, <2>5
<1> QED
  BY <1>13, <1>14, <1>15

(***************************************************************************)
(* The stack: every unit is read inside the one below it.                  *)
(***************************************************************************)
HeadOK(h, f) ==
  /\ IsNode(h) /\ h.kind = "transform" /\ ~h.refused /\ ~h.failed
  /\ h.source \in DOMAIN f.nodes /\ h.args \subseteq DOMAIN f.nodes
  /\ Within(h, f.at)

Nested(f, g) ==
  /\ g.path = NextPath(f) /\ g.kind \in {"group", "output"}
  /\ g.kind = "group" => g.from = f.at /\ g.extent = f.extent
  /\ g.kind = "output" => HeadOK(g.head, f)

Stacked(s) ==
  /\ IsSeq(s)
  /\ \A k \in 1 .. Len(s) : FrameOK(s[k])
  /\ \A k \in 1 .. Len(s) : k # 1 => Nested(s[k - 1], s[k])
  /\ s # <<>> => s[1].path = <<>> /\ s[1].kind = "message"

LEMMA TopOf ==
  ASSUME NEW s, Stacked(s), s # <<>>
  PROVE  /\ Len(s) \in Nat \ {0} /\ DOMAIN s = 1 .. Len(s)
         /\ Last(s) = s[Len(s)] /\ FrameOK(Last(s))
         /\ Last(s).kind \in {"message", "group", "output"}
         /\ Last(s).kind = "message" <=> Len(s) = 1
         /\ Len(s) # 1 => Nested(s[Len(s) - 1], Last(s)) /\ FrameOK(s[Len(s) - 1])
<1>1. Len(s) \in Nat \ {0} /\ DOMAIN s = 1 .. Len(s)
  BY FrontSeq DEF Stacked
<1>2. Last(s) = s[Len(s)]
  BY DEF Last
<1>3. PICK n : n = Len(s) /\ n \in 1 .. Len(s)
  BY <1>1
<1>4. FrameOK(s[n])
  BY <1>3 DEF Stacked
<1>5. CASE n = 1
  BY <1>1, <1>2, <1>3, <1>4, <1>5 DEF Stacked
<1>6. CASE n # 1
  <2>1. Nested(s[n - 1], s[n]) /\ n - 1 \in 1 .. Len(s)
    BY <1>1, <1>3, <1>6 DEF Stacked
  <2>2. FrameOK(s[n - 1])
    BY <2>1 DEF Stacked
  <2>3. s[n].kind \in {"group", "output"}
    BY <2>1 DEF Nested
  <2> QED
    BY <1>1, <1>2, <1>3, <1>4, <1>6, <2>1, <2>2, <2>3
<1> QED
  BY <1>5, <1>6

LEMMA PushOK ==
  ASSUME NEW s, Stacked(s), s # <<>>, NEW g, FrameOK(g), Nested(Last(s), g)
  PROVE  Stacked(Append(s, g))
<1>1. PICK more : more = Append(s, g)
  OBVIOUS
<1>2. /\ IsSeq(more) /\ Len(more) = Len(s) + 1 /\ more[Len(s) + 1] = g
      /\ \A k \in 1 .. Len(s) : more[k] = s[k]
  BY <1>1, AppendSeq DEF Stacked
<1>3. Len(s) \in Nat \ {0} /\ Last(s) = s[Len(s)]
  BY TopOf
<1>4. ASSUME NEW k \in 1 .. Len(more) PROVE FrameOK(more[k]) /\ (k # 1 => Nested(more[k - 1], more[k]))
  <2>1. CASE k = Len(s) + 1
    <3>1. k - 1 = Len(s) /\ more[k - 1] = s[Len(s)] /\ more[k] = g
      BY <1>2, <1>3, <2>1
    <3> QED
      BY <1>3, <3>1
  <2>2. CASE k # Len(s) + 1
    <3>1. k \in 1 .. Len(s) /\ (k # 1 => k - 1 \in 1 .. Len(s))
      BY <1>2, <1>3, <2>2
    <3>2. more[k] = s[k] /\ (k # 1 => more[k - 1] = s[k - 1])
      BY <1>2, <3>1
    <3> QED
      BY <3>1, <3>2 DEF Stacked
  <2> QED
    BY <2>1, <2>2
<1>5. more[1] = s[1]
  BY <1>2, <1>3
<1> QED
  BY <1>1, <1>2, <1>4, <1>5 DEF Stacked

LEMMA PopOK ==
  ASSUME NEW s, Stacked(s), s # <<>>, Len(s) # 1
  PROVE  Stacked(Front(s)) /\ Front(s) # <<>> /\ Last(Front(s)) = s[Len(s) - 1]
<1>1. PICK rest : rest = Front(s)
  OBVIOUS
<1>2. /\ IsSeq(rest) /\ Len(s) \in Nat \ {0} /\ Len(rest) = Len(s) - 1
      /\ \A k \in 1 .. Len(s) - 1 : rest[k] = s[k]
  BY <1>1, FrontSeq DEF Stacked
<1>3. rest # <<>>
  BY <1>2
<1>4. Last(rest) = s[Len(s) - 1]
  <2>1. Len(s) - 1 \in 1 .. Len(s) - 1
    BY <1>2
  <2> QED
    BY <1>2, <2>1 DEF Last
<1>5. ASSUME NEW k \in 1 .. Len(rest) PROVE FrameOK(rest[k]) /\ (k # 1 => Nested(rest[k - 1], rest[k]))
  <2>1. k \in 1 .. Len(s) /\ rest[k] = s[k] /\ (k # 1 => rest[k - 1] = s[k - 1])
    BY <1>2
  <2> QED
    BY <2>1 DEF Stacked
<1>6. rest[1] = s[1]
  BY <1>2
<1> QED
  BY <1>1, <1>2, <1>3, <1>4, <1>5, <1>6 DEF Stacked

LEMMA ReplaceOK ==
  ASSUME NEW s, Stacked(s), s # <<>>, NEW g, FrameOK(g),
         g.kind = Last(s).kind, g.path = Last(s).path, g.from = Last(s).from,
         g.extent = Last(s).extent, g.head = Last(s).head
  PROVE  Stacked(Append(Front(s), g))
<1>1. PICK more : more = Append(Front(s), g)
  OBVIOUS
<1>2. /\ IsSeq(Front(s)) /\ Len(s) \in Nat \ {0} /\ Len(Front(s)) = Len(s) - 1
      /\ \A k \in 1 .. Len(s) - 1 : Front(s)[k] = s[k]
  BY FrontSeq DEF Stacked
<1>3. /\ IsSeq(more) /\ Len(more) = Len(s) /\ more[Len(s)] = g
      /\ \A k \in 1 .. Len(s) - 1 : more[k] = s[k]
  BY <1>1, <1>2, AppendSeq
<1>4. Last(s) = s[Len(s)]
  BY TopOf
<1>5. ASSUME NEW k \in 1 .. Len(more) PROVE FrameOK(more[k]) /\ (k # 1 => Nested(more[k - 1], more[k]))
  <2>1. CASE k = Len(s)
    <3>1. CASE k # 1
      <4>1. Nested(s[k - 1], s[k]) /\ k - 1 \in 1 .. Len(s) - 1
        BY <1>2, <2>1, <3>1 DEF Stacked
      <4>2. Nested(s[k - 1], g)
        BY <1>4, <2>1, <4>1 DEF Nested
      <4> QED
        BY <1>3, <2>1, <4>1, <4>2
    <3> QED
      BY <1>3, <2>1, <3>1
  <2>2. CASE k # Len(s)
    <3>1. k \in 1 .. Len(s) /\ more[k] = s[k] /\ (k # 1 => more[k - 1] = s[k - 1])
      BY <1>2, <1>3, <2>2
    <3> QED
      BY <3>1 DEF Stacked
  <2> QED
    BY <2>1, <2>2
<1>6. more[1].path = <<>> /\ more[1].kind = "message"
  <2>1. CASE Len(s) = 1
    BY <1>3, <1>4, <2>1 DEF Stacked
  <2>2. CASE Len(s) # 1
    BY <1>2, <1>3, <2>2 DEF Stacked
  <2> QED
    BY <2>1, <2>2
<1> QED
  BY <1>1, <1>3, <1>5, <1>6 DEF Stacked

(* What the frame of a unit is when it is entered.                         *)
LEMMA FrameBegins ==
  ASSUME NEW kind, NEW from \in Nat, NEW extent \in Nat, from <= extent,
         NEW path \in Seq(Nat), NEW head
  PROVE  /\ FrameOK(Frame(kind, from, extent, path, head))
         /\ Frame(kind, from, extent, path, head).kind = kind
         /\ Frame(kind, from, extent, path, head).path = path
         /\ Frame(kind, from, extent, path, head).from = from
         /\ Frame(kind, from, extent, path, head).extent = extent
         /\ Frame(kind, from, extent, path, head).head = head
<1>1. PICK f : f = Frame(kind, from, extent, path, head)
  OBVIOUS
<1>2. /\ IsFrame(f) /\ f.kind = kind /\ f.path = path /\ f.from = from /\ f.at = from
      /\ f.extent = extent /\ f.head = head /\ f.nodes = <<>> /\ f.writes = <<>>
  BY <1>1 DEF Frame, IsFrame
<1>3. NodesOK(f)
  BY <1>2, EmptyIsSeq DEF NodesOK
<1>4. RecordsStand(f)
  BY <1>2, NoWrites DEF RecordsStand
<1>5. FrameOK(f)
  BY <1>2, <1>3, <1>4, EmptyIsSeq, NoWrites DEF FrameOK
<1> QED
  BY <1>1, <1>2, <1>5

(***************************************************************************)
(* The fields a unit reads.                                                *)
(***************************************************************************)
LEMMA Assumptions ==
  /\ Extent \in Nat /\ OutExtent \in Nat /\ MaxFields \in Nat /\ MaxDepth \in Nat \ {0}
  /\ Widths \subseteq 0 .. 1
BY ExtentAssumption, BoundsAssumption, WidthsAssumption

(* A field that is no transform is taken by the innermost unit.            *)
LEMMA OwnRecords ==
  ASSUME NEW f, FrameOK(f), NEW node, NEW vs, \A role \in Roles(vs) : OwnRecord(f, node, role)
  PROVE  /\ Roles(f.writes) \cap Roles(vs) = {}
         /\ \A role \in Roles(vs) : MayRecord(f, node, role)
<1>1. ASSUME NEW role \in Roles(vs)
      PROVE  \E rel \in Seq(Nat) :
                /\ role = f.path \o (<<Len(f.nodes) + 1>> \o rel)
                /\ ~Silent(node)
                /\ rel # <<>> => Stands(node.kids, rel)
  <2>1. PICK rel \in Seq(Nat) :
           /\ role = NextPath(f) \o rel
           /\ ~Silent(node)
           /\ rel # <<>> => Stands(node.kids, rel)
    BY DEF OwnRecord
  <2>2. role = f.path \o (<<Len(f.nodes) + 1>> \o rel)
    BY <2>1, NextPaths
  <2> QED
    BY <2>1, <2>2
<1>2. ASSUME NEW role \in Roles(f.writes), role \in Roles(vs) PROVE FALSE
  <2>1. PICK rel \in Seq(Nat) : role = f.path \o (<<Len(f.nodes) + 1>> \o rel)
    BY <1>1, <1>2
  <2> QED
    BY <1>2, <2>1, NewField
<1> QED
  BY <1>1, <1>2 DEF MayRecord

LEMMA FieldOK ==
  ASSUME NEW f, FrameOK(f), NEW node, node.kind # "transform", NEW at \in Nat,
         f.at <= at, at <= f.extent, Within(node, at), Reads(node, f.nodes),
         NEW vs \in Seq(Write), Distinct(vs),
         \A role \in Roles(vs) : OwnRecord(f, node, role),
         NEW g, g = Took(f, node, at, f.writes \o vs)
  PROVE  /\ FrameOK(g) /\ g.kind = f.kind /\ g.path = f.path /\ g.from = f.from
         /\ g.extent = f.extent /\ g.head = f.head
<1>1. f.writes \in Seq(Write) /\ Distinct(f.writes)
  BY DEF FrameOK, RecordsStand
<1>2. /\ Roles(f.writes) \cap Roles(vs) = {}
      /\ \A role \in Roles(vs) : MayRecord(f, node, role)
  BY OwnRecords
<1>3. PICK ws : ws = f.writes \o vs
  OBVIOUS
<1>4. ws \in Seq(Write) /\ Distinct(ws) /\ Roles(ws) = Roles(f.writes) \cup Roles(vs)
  BY <1>1, <1>2, <1>3, JoinedWrites
<1>5. \A role \in Roles(ws) : MayRecord(f, node, role)
  BY <1>2, <1>4 DEF MayRecord
<1>6. g = Took(f, node, at, ws)
  BY <1>3
<1> QED
  BY <1>4, <1>5, <1>6, TookOK

LEMMA IntoOK ==
  ASSUME Stacked(stack), stack # <<>>, NEW g, FrameOK(g),
         g.kind = Top.kind, g.path = Top.path, g.from = Top.from,
         g.extent = Top.extent, g.head = Top.head, Into(g)
  PROVE  Stacked(stack')
<1>1. Stacked(Append(Front(stack), g))
  BY ReplaceOK DEF Top
<1> QED
  BY <1>1 DEF Into

(* A field that says of itself what it does is taken.                      *)
LEMMA OneField ==
  ASSUME Stacked(stack), stack # <<>>, NEW node, node.kind # "transform", ~Silent(node),
         Accountable(node), NEW at \in Nat, Top.at <= at, at <= Top.extent,
         Within(node, at), Reads(node, Top.nodes),
         Into(Took(Top, node, at, Top.writes \o Accounted(node, NextPath(Top))))
  PROVE  Stacked(stack')
<1>1. PICK f : f = Top
  OBVIOUS
<1>2. FrameOK(f)
  BY <1>1, TopOf DEF Top
<1>3. PICK path \in Seq(Nat) : path = NextPath(f)
  BY <1>2, NextPaths
<1>4. PICK vs : vs = Accounted(node, path)
  OBVIOUS
<1>5. vs \in Seq(Write) /\ Distinct(vs) /\ Roles(vs) \subseteq {path}
  BY <1>4, AccountedWrites
<1>6. \A role \in Roles(vs) : OwnRecord(f, node, role)
  <2>1. <<>> \in Seq(Nat) /\ path \o <<>> = path
    OBVIOUS
  <2> QED
    BY <1>3, <1>5, <2>1 DEF OwnRecord
<1>7. PICK g : g = Took(f, node, at, f.writes \o vs)
  OBVIOUS
<1>8. /\ FrameOK(g) /\ g.kind = f.kind /\ g.path = f.path /\ g.from = f.from
      /\ g.extent = f.extent /\ g.head = f.head
  BY <1>1, <1>2, <1>5, <1>6, <1>7, FieldOK
<1>9. Into(g)
  BY <1>1, <1>3, <1>4, <1>7
<1> QED
  BY <1>1, <1>8, <1>9, IntoOK

LEMMA ReadLeafOK ==
  ASSUME Stacked(stack), stack # <<>>, ReadLeaf
  PROVE  Stacked(stack') /\ stop' = stop
<1>1. PICK width \in Widths, none \in BOOLEAN :
        /\ Leaf(Top.at, width, none).to <= Top.extent
        /\ Into(Took(Top, Leaf(Top.at, width, none), Leaf(Top.at, width, none).to,
                     Top.writes \o Accounted(Leaf(Top.at, width, none), NextPath(Top))))
        /\ stop' = stop
  BY DEF ReadLeaf
<1>2. PICK at : at = Top.at
  OBVIOUS
<1>3. at \in Nat /\ width \in Nat
  BY <1>2, TopOf, Assumptions DEF Top, FrameOK
<1>4. PICK node : node = Leaf(at, width, none)
  OBVIOUS
<1>5. /\ node.kind = "leaf" /\ node.from = at /\ node.to = at + width
      /\ ~Silent(node) /\ Accountable(node)
  BY <1>3, <1>4 DEF Leaf, Node, Silent, Accountable
<1>6. PICK to \in Nat : to = at + width
  BY <1>3
<1>7. Within(node, to) /\ Reads(node, Top.nodes) /\ Top.at <= to /\ node.kind # "transform"
  BY <1>2, <1>3, <1>5, <1>6 DEF Within, Reads
<1>8. to <= Top.extent /\ Into(Took(Top, node, to, Top.writes \o Accounted(node, NextPath(Top))))
  BY <1>1, <1>2, <1>4, <1>5, <1>6
<1> QED
  BY <1>1, <1>5, <1>7, <1>8, OneField

LEMMA ReadWrongConstOK ==
  ASSUME Stacked(stack), stack # <<>>, ReadWrongConst
  PROVE  Stacked(stack') /\ stop' = "undecodable"
<1>1. PICK none \in BOOLEAN :
        \E node :
          /\ node = [Leaf(Top.at, 1, none) EXCEPT !.status = "undecodable"]
          /\ node.to <= Top.extent
          /\ Into(Took(Top, node, node.to, Top.writes \o Accounted(node, NextPath(Top))))
          /\ stop' = "undecodable"
  BY DEF ReadWrongConst
<1>2. PICK node :
        /\ node = [Leaf(Top.at, 1, none) EXCEPT !.status = "undecodable"]
        /\ node.to <= Top.extent
        /\ Into(Took(Top, node, node.to, Top.writes \o Accounted(node, NextPath(Top))))
        /\ stop' = "undecodable"
  BY <1>1
<1>3. PICK at : at = Top.at
  OBVIOUS
<1>4. at \in Nat
  BY <1>3, TopOf DEF Top, FrameOK
<1>5. /\ node.kind = "leaf" /\ node.from = at /\ node.to = at + 1
      /\ ~Silent(node) /\ Accountable(node)
  BY <1>2, <1>3, <1>4 DEF Leaf, Node, Silent, Accountable
<1>6. PICK to \in Nat : to = at + 1
  BY <1>4
<1>7. Within(node, to) /\ Reads(node, Top.nodes) /\ Top.at <= to /\ node.kind # "transform"
  BY <1>3, <1>4, <1>5, <1>6 DEF Within, Reads
<1>8. to <= Top.extent /\ Into(Took(Top, node, to, Top.writes \o Accounted(node, NextPath(Top))))
  BY <1>2, <1>5, <1>6
<1> QED
  BY <1>2, <1>5, <1>7, <1>8, OneField

LEMMA ReadTruncatedOK ==
  ASSUME Stacked(stack), stack # <<>>, ReadTruncated
  PROVE  Stacked(stack') /\ stop' = "truncated"
<1>1. PICK node :
        /\ node = [Leaf(Top.at, 0, FALSE) EXCEPT !.status = "truncated"]
        /\ Into(Took(Top, node, Top.at, Top.writes))
        /\ stop' = "truncated"
  BY DEF ReadTruncated
<1>2. PICK f : f = Top
  OBVIOUS
<1>3. PICK at : at = f.at
  OBVIOUS
<1>4. FrameOK(f) /\ at \in Nat /\ f.at <= at /\ at <= f.extent
  BY <1>2, <1>3, TopOf DEF Top, FrameOK
<1>5. /\ node.kind = "leaf" /\ node.from = at /\ node.to = at + 0
      /\ ~Silent(node)
  BY <1>1, <1>2, <1>3, <1>4 DEF Leaf, Node, Silent
<1>6. Within(node, at) /\ Reads(node, f.nodes) /\ node.kind # "transform"
  BY <1>4, <1>5 DEF Within, Reads
<1>7. PICK none \in Seq(Write) : none = <<>>
  BY NoWrites
<1>8. Distinct(none) /\ Roles(none) = {}
  BY <1>7, NoWrites
<1>9. PICK g : g = Took(f, node, at, f.writes \o none)
  OBVIOUS
<1>10. /\ FrameOK(g) /\ g.kind = f.kind /\ g.path = f.path /\ g.from = f.from
      /\ g.extent = f.extent /\ g.head = f.head
  <2>1. \A role \in Roles(none) : OwnRecord(f, node, role)
    BY <1>8
  <2> QED
    BY <1>4, <1>6, <1>9, <1>8, <2>1, FieldOK
<1>11. f.writes \o none = f.writes
  BY <1>4, <1>7 DEF FrameOK
<1>12. Into(g)
  BY <1>1, <1>2, <1>3, <1>9, <1>11
<1> QED
  BY <1>1, <1>2, <1>10, <1>12, IntoOK

LEMMA ReadChunksOK ==
  ASSUME Stacked(stack), stack # <<>>, ReadChunks
  PROVE  Stacked(stack') /\ stop' = stop
<1>1. PICK widths \in ChunkWidths, skip \in BOOLEAN :
        \E node :
          /\ node = Chunks(Top.at, widths, skip)
          /\ node.to <= Top.extent
          /\ Into(Took(Top, node, node.to, Top.writes \o ChunksWrites(node, NextPath(Top))))
          /\ stop' = stop
  BY DEF ReadChunks, ChunkWidths
<1>2. PICK node :
        /\ node = Chunks(Top.at, widths, skip)
        /\ node.to <= Top.extent
        /\ Into(Took(Top, node, node.to, Top.writes \o ChunksWrites(node, NextPath(Top))))
        /\ stop' = stop
  BY <1>1
<1>3. PICK f : f = Top
  OBVIOUS
<1>4. PICK at : at = f.at
  OBVIOUS
<1>5. FrameOK(f) /\ at \in Nat
  BY <1>3, <1>4, TopOf DEF Top, FrameOK
<1>6. node = Chunks(at, widths, skip)
  BY <1>2, <1>3, <1>4
<1>7. IsChunks(node)
  BY <1>5, <1>6, Zenon DEF IsChunks
<1>8. PICK start : start = Starts(at, widths)
  OBVIOUS
<1>9. /\ node.kind = "chunks" /\ node.from = at /\ ~Silent(node) /\ node.to \in Nat /\ at <= node.to
  <2>1. Tiled(node, at, widths, skip, start)
    BY <1>5, <1>6, <1>8, ChunksFields
  <2> QED
    BY <2>1 DEF Tiled
<1>10. PICK to \in Nat : to = node.to
  BY <1>9
<1>11. /\ Within(node, to) /\ Reads(node, f.nodes) /\ node.kind # "transform"
       /\ f.at <= to /\ to <= f.extent
  BY <1>2, <1>3, <1>4, <1>5, <1>7, <1>9, <1>10 DEF Within, Reads
<1>12. PICK path \in Seq(Nat) : path = NextPath(f)
  BY <1>5, NextPaths
<1>13. PICK vs : vs = ChunksWrites(node, path)
  OBVIOUS
<1>14. vs \in Seq(Write) /\ Distinct(vs) /\ \A r \in Roles(vs) : ChunkRole(node, path, r)
  BY <1>7, <1>13, ChunksRecords
<1>15. ASSUME NEW role \in Roles(vs)
       PROVE  OwnRecord(f, node, role)
  <2>1. PICK j \in 1 .. Len(node.kids), i \in 1 .. 2 : role = Append(Append(path, j), i)
    BY <1>14 DEF ChunkRole
  <2>2. PICK kids : kids = node.kids
    OBVIOUS
  <2>3. Len(kids) \in Nat /\ DOMAIN kids = 1 .. Len(kids)
    BY <1>7, <2>2, ChunkOf
  <2>4. PICK from \in Nat, width \in 0 .. 1, none \in BOOLEAN : kids[j] = Chunk(from, width, none)
    BY <1>7, <2>2, ChunkOf
  <2>5. PICK rel \in Seq(Nat) : rel = <<j, i>>
    <3>1. <<j, i>> \in Seq(Nat)
      BY <2>2, <2>3
    <3> QED
      BY <3>1
  <2>6. role = path \o rel
    <3>1. PICK l : l = j /\ l \in Nat
      BY <2>2, <2>3
    <3>2. path \o <<l, i>> = Append(Append(path, l), i)
      BY <3>1
    <3> QED
      BY <2>1, <2>5, <3>1, <3>2
  <2>7. PICK chunk : chunk = kids[j]
    OBVIOUS
  <2>8. ~Silent(chunk)
    BY <2>4, <2>7 DEF Chunk, Node, Silent
  <2>9. DOMAIN chunk.kids = 1 .. 2
    BY <2>4, <2>7 DEF Chunk, Node
  <2>10. ASSUME NEW k \in 1 .. 2 PROVE chunk.kids[k].kind = "leaf" /\ ~Silent(chunk.kids[k])
    BY <2>4, <2>7 DEF Chunk, Node, Leaf, Silent
  <2>11. i \notin Taken(chunk.kids)
    BY <2>9, <2>10 DEF Taken
  <2>12. Stands(chunk.kids, <<i>>)
    BY <2>9, <2>10, <2>11, StandsHere
  <2>13. PICK rest \in Seq(Nat) : rest = <<i>>
    <3>1. <<i>> \in Seq(Nat)
      OBVIOUS
    <3> QED
      BY <3>1
  <2>14. j \in Nat /\ j \in DOMAIN kids /\ rest # <<>>
    BY <2>2, <2>3, <2>13
  <2>15. Stands(kids, <<j>> \o rest)
    BY <2>7, <2>8, <2>12, <2>13, <2>14, StandsBelow
  <2>16. <<j>> \o rest = rel
    <3>1. PICK l : l = j /\ l \in Nat
      BY <2>14
    <3>2. PICK both \in Seq(Nat) : both = <<l>> \o <<i>>
      <4>1. <<l>> \in Seq(Nat) /\ <<i>> \in Seq(Nat)
        BY <3>1
      <4>2. <<l>> \o <<i>> \in Seq(Nat)
        BY <4>1, ConcatProperties
      <4> QED
        BY <4>2
    <3>3. Len(both) = 2 /\ both[1] = l /\ both[2] = i
      BY <3>1, <3>2
    <3>4. Len(rel) = 2 /\ rel[1] = l /\ rel[2] = i
      BY <2>5, <3>1
    <3>5. both = rel
      <4>1. \A k \in 1 .. Len(both) : both[k] = rel[k]
        BY <3>3, <3>4
      <4> QED
        BY <3>3, <3>4, <4>1, SeqEqual
    <3> QED
      BY <2>13, <3>1, <3>2, <3>5
  <2> QED
    BY <1>9, <1>12, <2>2, <2>6, <2>15, <2>16 DEF OwnRecord
<1>16. PICK g : g = Took(f, node, to, f.writes \o vs)
  OBVIOUS
<1>17. /\ FrameOK(g) /\ g.kind = f.kind /\ g.path = f.path /\ g.from = f.from
       /\ g.extent = f.extent /\ g.head = f.head
  BY <1>5, <1>11, <1>14, <1>15, <1>16, FieldOK
<1>18. Into(g)
  BY <1>2, <1>3, <1>10, <1>12, <1>13, <1>16
<1> QED
  BY <1>2, <1>3, <1>17, <1>18, IntoOK

LEMMA ReadConcatOK ==
  ASSUME Stacked(stack), stack # <<>>, ReadConcat
  PROVE  Stacked(stack') /\ stop' = stop
<1>1. PICK i \in DOMAIN Top.nodes, skip \in BOOLEAN :
        \E data, hull, node :
          /\ data = {Top.nodes[i].kids[j].kids[2] : j \in DOMAIN Top.nodes[i].kids}
          /\ hull = Hull(data, Top.at)
          /\ node = [Node("concat", hull[1], hull[2]) EXCEPT !.source = i, !.none = skip]
          /\ Top.nodes[i].kind = "chunks"
          /\ Into(Took(Top, node, Top.at, Top.writes \o Accounted(node, NextPath(Top))))
          /\ stop' = stop
  BY DEF ReadConcat
<1>2. PICK data, hull, node :
        /\ data = {Top.nodes[i].kids[j].kids[2] : j \in DOMAIN Top.nodes[i].kids}
        /\ hull = Hull(data, Top.at)
        /\ node = [Node("concat", hull[1], hull[2]) EXCEPT !.source = i, !.none = skip]
        /\ Top.nodes[i].kind = "chunks"
        /\ Into(Took(Top, node, Top.at, Top.writes \o Accounted(node, NextPath(Top))))
        /\ stop' = stop
  BY <1>1
<1>3. PICK f : f = Top
  OBVIOUS
<1>4. PICK at : at = f.at
  OBVIOUS
<1>5. FrameOK(f) /\ at \in Nat /\ f.at <= at /\ at <= f.extent
  BY <1>3, <1>4, TopOf DEF Top, FrameOK
<1>6. PICK chunks : chunks = f.nodes[i]
  OBVIOUS
<1>7. IsChunks(chunks) /\ Within(chunks, at)
  BY <1>2, <1>3, <1>4, <1>5, <1>6 DEF FrameOK, NodesOK, Reads
<1>8. data = {chunks.kids[j].kids[2] : j \in DOMAIN chunks.kids}
  BY <1>2, <1>3, <1>6
<1>9. \A n \in data : Within(n, at)
  <2>1. chunks.to <= at
    BY <1>7 DEF Within
  <2> QED
    BY <1>5, <1>7, <1>8, <2>1, DataWithin
<1>10. /\ hull[1] \in Nat /\ hull[2] \in Nat /\ hull[1] <= hull[2] /\ hull[2] <= at
  <2>1. hull = Hull(data, at)
    BY <1>2, <1>3, <1>4
  <2> QED
    BY <1>5, <1>9, <2>1, HullSpans
<1>11. /\ node.kind = "concat" /\ node.from = hull[1] /\ node.to = hull[2] /\ node.source = i
       /\ ~Silent(node) /\ node.status = "ok" /\ node.none = skip
  BY <1>2 DEF Node, Silent
<1>12. Accountable(node)
  BY <1>10, <1>11 DEF Accountable
<1>13. Within(node, at) /\ Reads(node, f.nodes) /\ node.kind # "transform"
  BY <1>2, <1>3, <1>10, <1>11 DEF Within, Reads
<1>14. Into(Took(Top, node, at, Top.writes \o Accounted(node, NextPath(Top))))
  BY <1>2, <1>3, <1>4
<1> QED
  BY <1>2, <1>3, <1>5, <1>11, <1>12, <1>13, <1>14, OneField

(***************************************************************************)
(* Transforms.                                                             *)
(***************************************************************************)
LEMMA TransformFields ==
  ASSUME NEW f, FrameOK(f), NEW t \in Transforms(f)
  PROVE  HeadOK(t, f) /\ \A n \in {t.source} \cup t.args : Within(f.nodes[n], f.at)
<1>1. PICK i \in {j \in DOMAIN f.nodes : Source(f.nodes[j])},
           args \in SUBSET {j \in DOMAIN f.nodes : Argument(f.nodes[j])}, none \in BOOLEAN :
        t = NextTransform(f, i, args, none)
  BY DEF Transforms
<1>2. i \in DOMAIN f.nodes /\ args \in SUBSET DOMAIN f.nodes
  OBVIOUS
<1>3. PICK hull :
        /\ hull = Hull({f.nodes[n] : n \in {i} \cup args}, f.at)
        /\ t = [Node("transform", hull[1], hull[2]) EXCEPT
                  !.source = i, !.args = args, !.none = none]
  BY <1>1 DEF NextTransform
<1>4. PICK spans : spans = {f.nodes[n] : n \in {i} \cup args}
  OBVIOUS
<1>5. \A n \in {i} \cup args : Within(f.nodes[n], f.at)
  BY <1>2 DEF FrameOK, NodesOK
<1>6. \A n \in spans : Within(n, f.at)
  BY <1>4, <1>5
<1>7. f.at \in Nat
  BY DEF FrameOK
<1>8. hull[1] \in Nat /\ hull[2] \in Nat /\ hull[1] <= hull[2] /\ hull[2] <= f.at
  BY <1>3, <1>4, <1>6, <1>7, HullSpans
<1>9. /\ IsNode(t) /\ t.kind = "transform" /\ ~t.refused /\ ~t.failed
      /\ t.source = i /\ t.args = args /\ t.from = hull[1] /\ t.to = hull[2]
  BY <1>3 DEF Node, IsNode
<1> QED
  BY <1>5, <1>8, <1>9, <1>2 DEF HeadOK, Within

(* The frame once a transform has its outcome.                             *)
LEMMA TransformedOK ==
  ASSUME NEW f, FrameOK(f), NEW node, node.kind = "transform", node.source \in DOMAIN f.nodes,
         Within(node, f.at),
         NEW released \in Seq(Write), Distinct(released),
         \A role \in Roles(released) : OwnRecord(f, node, role),
         NEW whole \in Seq(Write), Distinct(whole),
         \A role \in Roles(whole) : OwnRecord(f, node, role),
         Roles(whole) \cap Roles(released) = {},
         NEW g, g = Took(f, node, f.at, TakenOver(f, node, f.writes \o released) \o whole)
  PROVE  /\ FrameOK(g) /\ g.kind = f.kind /\ g.path = f.path /\ g.from = f.from
         /\ g.extent = f.extent /\ g.head = f.head
<1>1. f.writes \in Seq(Write) /\ Distinct(f.writes) /\ f.at \in Nat /\ f.at <= f.extent
  BY DEF FrameOK, RecordsStand
<1>2. PICK before : before = f.writes \o released
  OBVIOUS
<1>3. /\ Roles(f.writes) \cap Roles(released) = {}
      /\ \A role \in Roles(released) : MayRecord(f, node, role)
  BY OwnRecords
<1>4. /\ Roles(f.writes) \cap Roles(whole) = {}
      /\ \A role \in Roles(whole) : MayRecord(f, node, role)
  BY OwnRecords
<1>5. before \in Seq(Write) /\ Distinct(before) /\ Roles(before) = Roles(f.writes) \cup Roles(released)
  BY <1>1, <1>2, <1>3, JoinedWrites
<1>6. PICK after : after = TakenOver(f, node, before)
  OBVIOUS
<1>7. /\ after \in Seq(Write) /\ Distinct(after) /\ Roles(after) \subseteq Roles(before)
      /\ f.path \o <<node.source>> \notin Roles(after)
  BY <1>5, <1>6, TakenOverThins
<1>8. PICK ws : ws = after \o whole
  OBVIOUS
<1>9. ws \in Seq(Write) /\ Distinct(ws) /\ Roles(ws) = Roles(after) \cup Roles(whole)
  <2>1. Roles(after) \cap Roles(whole) = {}
    BY <1>4, <1>5, <1>7
  <2> QED
    BY <1>7, <1>8, <2>1, JoinedWrites
<1>10. ASSUME NEW role \in Roles(ws) PROVE MayRecord(f, node, role)
  <2>1. CASE role \in Roles(whole)
    BY <1>4, <2>1
  <2>2. CASE role \in Roles(after) /\ role \in Roles(released)
    BY <1>3, <2>2
  <2>3. CASE role \in Roles(after) /\ role \in Roles(f.writes)
    <3>1. role # f.path \o <<node.source>>
      BY <1>7, <2>3
    <3> QED
      BY <2>3, <3>1 DEF MayRecord
  <2> QED
    BY <1>5, <1>7, <1>9, <2>1, <2>2, <2>3
<1>11. g = Took(f, node, f.at, ws)
  BY <1>2, <1>6, <1>8
<1>12. Reads(node, f.nodes)
  BY DEF Reads
<1>13. PICK at \in Nat : at = f.at
  BY <1>1
<1>14. f.at <= at /\ at <= f.extent /\ Within(node, at) /\ g = Took(f, node, at, ws)
  BY <1>1, <1>11, <1>13
<1> QED
  BY <1>9, <1>10, <1>12, <1>14, TookOK

LEMMA CompiledHullIn ==
  ASSUME NEW f, FrameOK(f), NEW node, node.source \in DOMAIN f.nodes, node.args \subseteq DOMAIN f.nodes
  PROVE  CompiledHull(f, node)[1] \in Int /\ CompiledHull(f, node)[2] \in Int
<1>1. PICK names : names = {node.source} \cup {a \in node.args : f.nodes[a].kind # "group"}
  OBVIOUS
<1>2. PICK spans : spans = {f.nodes[n] : n \in names}
  OBVIOUS
<1>3. CompiledHull(f, node) = Hull(spans, f.at)
  BY <1>1, <1>2 DEF CompiledHull
<1>4. \A n \in names : Within(f.nodes[n], f.at)
  BY <1>1 DEF FrameOK, NodesOK
<1>5. \A n \in spans : Within(n, f.at)
  BY <1>2, <1>4
<1>6. f.at \in Nat
  BY DEF FrameOK
<1> QED
  BY <1>3, <1>5, <1>6, HullSpans

LEMMA ReadTransformOK ==
  ASSUME Stacked(stack), stack # <<>>, ReadTransform
  PROVE  Stacked(stack') /\ stop' = stop
<1>1. PICK t \in Transforms(Top), failed \in BOOLEAN :
        \E node, hull, taken, whole :
          /\ node  = [t EXCEPT !.failed = failed]
          /\ hull  = CompiledHull(Top, t)
          /\ taken = Transformed(Top, node, <<>>)
          /\ whole = IF failed \/ t.none THEN <<>>
                                        ELSE <<RecordOf(hull[1], hull[2], NextPath(Top))>>
          /\ Into([taken EXCEPT !.writes = @ \o whole])
          /\ stop' = stop
  BY DEF ReadTransform
<1>2. PICK node, hull, taken, whole :
        /\ node  = [t EXCEPT !.failed = failed]
        /\ hull  = CompiledHull(Top, t)
        /\ taken = Transformed(Top, node, <<>>)
        /\ whole = IF failed \/ t.none THEN <<>>
                                      ELSE <<RecordOf(hull[1], hull[2], NextPath(Top))>>
        /\ Into([taken EXCEPT !.writes = @ \o whole])
        /\ stop' = stop
  BY <1>1
<1>3. PICK f : f = Top
  OBVIOUS
<1>4. FrameOK(f)
  BY <1>3, TopOf DEF Top
<1>5. HeadOK(t, f)
  BY <1>3, <1>4, TransformFields
<1>6. /\ node.kind = "transform" /\ node.source = t.source /\ node.source \in DOMAIN f.nodes
      /\ Within(node, f.at) /\ ~node.refused /\ node.failed = failed /\ node.none = t.none
  BY <1>2, <1>5 DEF HeadOK, IsNode, Within
<1>7. hull[1] \in Int /\ hull[2] \in Int
  <2>1. hull = CompiledHull(f, t)
    BY <1>2, <1>3
  <2> QED
    BY <1>4, <1>5, <2>1, CompiledHullIn DEF HeadOK
<1>8. PICK path \in Seq(Nat) : path = NextPath(f)
  BY <1>4, NextPaths
<1>9. /\ whole \in Seq(Write) /\ Distinct(whole)
      /\ \A role \in Roles(whole) : role = path /\ ~Silent(node)
  <2>1. CASE failed \/ t.none
    <3>1. whole = <<>>
      BY <1>2, <2>1
    <3> QED
      BY <3>1, NoWrites
  <2>2. CASE ~(failed \/ t.none)
    <3>1. whole = <<RecordOf(hull[1], hull[2], path)>>
      BY <1>2, <1>3, <1>8, <2>2
    <3>2. ~Silent(node)
      BY <1>6, <2>2 DEF Silent
    <3> QED
      BY <1>7, <3>1, <3>2, RecordWrite
  <2> QED
    BY <2>1, <2>2
<1>10. ASSUME NEW role \in Roles(whole) PROVE OwnRecord(f, node, role)
  <2>1. <<>> \in Seq(Nat) /\ path \o <<>> = path
    OBVIOUS
  <2> QED
    BY <1>8, <1>9, <2>1 DEF OwnRecord
<1>11. PICK released \in Seq(Write) : released = <<>>
  BY NoWrites
<1>12. Distinct(released) /\ Roles(released) = {}
  BY <1>11, NoWrites
<1>13. PICK g : g = Took(f, node, f.at, TakenOver(f, node, f.writes \o released) \o whole)
  OBVIOUS
<1>14. [taken EXCEPT !.writes = @ \o whole] = g
  <2>1. taken = Took(f, node, f.at, TakenOver(f, node, f.writes \o released))
    BY <1>2, <1>3, <1>11 DEF Transformed
  <2>2. IsFrame(f)
    BY <1>4 DEF FrameOK
  <2> QED
    BY <1>13, <2>1, <2>2 DEF Took, IsFrame
<1>15. /\ FrameOK(g) /\ g.kind = f.kind /\ g.path = f.path /\ g.from = f.from
       /\ g.extent = f.extent /\ g.head = f.head
  <2>1. \A role \in Roles(released) : OwnRecord(f, node, role)
    BY <1>12
  <2>2. \A role \in Roles(whole) : OwnRecord(f, node, role)
    BY <1>10
  <2>3. Roles(whole) \cap Roles(released) = {}
    BY <1>12
  <2>4. /\ node.kind = "transform" /\ node.source \in DOMAIN f.nodes /\ Within(node, f.at)
        /\ whole \in Seq(Write) /\ Distinct(whole)
    BY <1>6, <1>9
  <2> QED
    BY <1>4, <2>4, <1>12, <1>13, <2>1, <2>2, <2>3, TransformedOK
<1>16. Into(g)
  BY <1>2, <1>14
<1> QED
  BY <1>2, <1>3, <1>15, <1>16, IntoOK

LEMMA OpenOutputOK ==
  ASSUME Stacked(stack), stack # <<>>, OpenOutput
  PROVE  Stacked(stack') /\ stop' = stop
<1>1. PICK t \in Transforms(Top), extent \in 0 .. OutExtent :
        /\ stack' = Append(stack, Frame("output", 0, extent, NextPath(Top), [t EXCEPT !.typed = TRUE]))
        /\ stop' = stop
  BY DEF OpenOutput
<1>2. PICK f : f = Top
  OBVIOUS
<1>3. FrameOK(f)
  BY <1>2, TopOf DEF Top
<1>4. HeadOK(t, f)
  BY <1>2, <1>3, TransformFields
<1>5. PICK head : head = [t EXCEPT !.typed = TRUE]
  OBVIOUS
<1>6. HeadOK(head, f)
  BY <1>4, <1>5 DEF HeadOK, IsNode, Within
<1>7. PICK path \in Seq(Nat) : path = NextPath(f)
  BY <1>3, NextPaths
<1>8. extent \in Nat /\ 0 <= extent /\ 0 \in Nat
  BY Assumptions
<1>9. PICK g : g = Frame("output", 0, extent, path, head)
  OBVIOUS
<1>10. FrameOK(g) /\ g.kind = "output" /\ g.path = path /\ g.head = head
  BY <1>8, <1>9, FrameBegins
<1>11. Nested(Last(stack), g)
  BY <1>2, <1>6, <1>7, <1>10 DEF Nested, Top
<1>12. stack' = Append(stack, g)
  BY <1>1, <1>2, <1>5, <1>7, <1>9
<1> QED
  BY <1>1, <1>10, <1>11, <1>12, PushOK

LEMMA EnterGroupOK ==
  ASSUME Stacked(stack), stack # <<>>, EnterGroup
  PROVE  Stacked(stack') /\ stop' = stop
<1>1. /\ stack' = Append(stack, Frame("group", Top.at, Top.extent, NextPath(Top), NoNode))
      /\ stop' = stop
  BY DEF EnterGroup
<1>2. PICK f : f = Top
  OBVIOUS
<1>3. FrameOK(f)
  BY <1>2, TopOf DEF Top
<1>4. f.at \in Nat /\ f.extent \in Nat /\ f.at <= f.extent
  BY <1>3 DEF FrameOK
<1>5. PICK path \in Seq(Nat) : path = NextPath(f)
  BY <1>3, NextPaths
<1>6. PICK g : g = Frame("group", f.at, f.extent, path, NoNode)
  OBVIOUS
<1>7. FrameOK(g) /\ g.kind = "group" /\ g.path = path /\ g.from = f.at /\ g.extent = f.extent
  BY <1>4, <1>6, FrameBegins
<1>8. Nested(Last(stack), g)
  BY <1>2, <1>5, <1>7 DEF Nested, Top
<1>9. stack' = Append(stack, g)
  BY <1>1, <1>2, <1>5, <1>6
<1> QED
  BY <1>1, <1>7, <1>8, <1>9, PushOK

(***************************************************************************)
(* A unit is left, and the one around it takes its node.                   *)
(***************************************************************************)
LEMMA InnerOf ==
  ASSUME Stacked(stack), stack # <<>>, Top.kind # "message"
  PROVE  FrameOK(Top) /\ FrameOK(Parent) /\ Nested(Parent, Top)
<1>1. Len(stack) # 1 /\ Last(stack) = Top /\ FrameOK(Last(stack))
  BY TopOf DEF Top
<1> QED
  BY <1>1, TopOf DEF Parent

LEMMA BackIntoOK ==
  ASSUME Stacked(stack), stack # <<>>, Top.kind # "message", NEW g, FrameOK(g),
         g.kind = Parent.kind, g.path = Parent.path, g.from = Parent.from,
         g.extent = Parent.extent, g.head = Parent.head, BackInto(g)
  PROVE  Stacked(stack')
<1>1. Len(stack) # 1
  BY TopOf DEF Top
<1>2. Stacked(Front(stack)) /\ Front(stack) # <<>> /\ Last(Front(stack)) = Parent
  BY <1>1, PopOK DEF Parent
<1>3. Stacked(Append(Front(Front(stack)), g))
  BY <1>2, ReplaceOK
<1> QED
  BY <1>3 DEF BackInto

(* What a unit holds is of fields of the node it becomes.                  *)
LEMMA HeldRecords ==
  ASSUME NEW f, FrameOK(f), NEW u, FrameOK(u), u.path = NextPath(f),
         NEW node, node.kids = u.nodes, ~Silent(node), NEW role \in Roles(u.writes)
  PROVE  OwnRecord(f, node, role) /\ role # NextPath(f)
<1>1. PICK path \in Seq(Nat) : path = u.path
  BY DEF FrameOK
<1>2. PICK rel \in Seq(Nat) : role = path \o rel /\ Stands(u.nodes, rel)
  BY <1>1 DEF FrameOK, RecordsStand
<1>3. OwnRecord(f, node, role)
  BY <1>1, <1>2 DEF OwnRecord
<1>4. Len(rel) \in Nat \ {0} /\ Len(path) \in Nat /\ Len(path \o rel) = Len(path) + Len(rel)
  BY <1>2, StandsInside
<1>5. Len(role) # Len(path)
  BY <1>2, <1>4
<1> QED
  BY <1>1, <1>3, <1>5

LEMMA CloseOutputOK ==
  ASSUME Stacked(stack), CloseOutput
  PROVE  Stacked(stack') /\ stop' = stop /\ read' = read /\ tree' = tree /\ out' = out
<1>1. PICK node, hull, released :
        /\ node = [Top.head EXCEPT !.kids = Top.nodes]
        /\ hull = CompiledHull(Parent, node)
        /\ released = Released(Top, hull)
        /\ stack # <<>> /\ Top.kind = "output"
        /\ BackInto(Transformed(Parent, node, released))
        /\ UNCHANGED <<stop, read, tree, out>>
  BY DEF CloseOutput, Decoding
<1>2. PICK f : f = Parent
  OBVIOUS
<1>3. PICK u : u = Top
  OBVIOUS
<1>4. FrameOK(u) /\ FrameOK(f) /\ Nested(f, u)
  BY <1>1, <1>2, <1>3, InnerOf
<1>5. HeadOK(u.head, f) /\ u.path = NextPath(f)
  BY <1>1, <1>3, <1>4 DEF Nested
<1>6. /\ node.kind = "transform" /\ node.source \in DOMAIN f.nodes /\ node.args \subseteq DOMAIN f.nodes
      /\ Within(node, f.at) /\ node.kids = u.nodes
      /\ ~node.refused /\ ~node.failed /\ node.none = u.head.none
  BY <1>1, <1>3, <1>5 DEF HeadOK, IsNode, Within
<1>7. hull[1] \in Int /\ hull[2] \in Int
  <2>1. hull = CompiledHull(f, node)
    BY <1>1, <1>2
  <2> QED
    BY <1>4, <1>6, <2>1, CompiledHullIn
<1>8. u.writes \in Seq(Write) /\ Distinct(u.writes)
  BY <1>4 DEF FrameOK, RecordsStand
<1>9. /\ released \in Seq(Write) /\ Distinct(released)
      /\ \A role \in Roles(released) : role \in Roles(u.writes) /\ ~Silent(node)
  <2>1. CASE u.head.none
    <3>1. released = <<>>
      BY <1>1, <1>3, <2>1 DEF Released
    <3> QED
      BY <3>1, NoWrites
  <2>2. CASE ~u.head.none
    <3>1. released = Recited(u.writes, hull[1], hull[2])
      BY <1>1, <1>3, <2>2 DEF Released
    <3>2. ~Silent(node)
      BY <1>6, <2>2 DEF Silent
    <3>3. Thins(Recited(u.writes, hull[1], hull[2]), u.writes)
      BY <1>7, <1>8, RecitedThins
    <3> QED
      BY <1>8, <3>1, <3>2, <3>3 DEF Thins
  <2> QED
    BY <2>1, <2>2
<1>10. \A role \in Roles(released) : OwnRecord(f, node, role)
  BY <1>4, <1>5, <1>6, <1>9, HeldRecords
<1>11. PICK whole \in Seq(Write) : whole = <<>>
  BY NoWrites
<1>12. Distinct(whole) /\ Roles(whole) = {}
  BY <1>11, NoWrites
<1>13. PICK g : g = Took(f, node, f.at, TakenOver(f, node, f.writes \o released) \o whole)
  OBVIOUS
<1>14. Transformed(f, node, released) = g
  <2>1. f.writes \o released \in Seq(Write) /\ Distinct(f.writes \o released)
    <3>1. f.writes \in Seq(Write) /\ Distinct(f.writes)
      BY <1>4 DEF FrameOK, RecordsStand
    <3>2. Roles(f.writes) \cap Roles(released) = {}
      BY <1>4, <1>10, OwnRecords
    <3> QED
      BY <1>9, <3>1, <3>2, JoinedWrites
  <2>2. PICK after : after = TakenOver(f, node, f.writes \o released)
    OBVIOUS
  <2>3. after \in Seq(Write)
    BY <1>4, <1>6, <2>1, <2>2, TakenOverThins
  <2>4. after \o whole = after
    BY <1>11, <2>3
  <2> QED
    BY <1>13, <2>2, <2>4 DEF Transformed
<1>15. /\ FrameOK(g) /\ g.kind = f.kind /\ g.path = f.path /\ g.from = f.from
       /\ g.extent = f.extent /\ g.head = f.head
  <2>1. Roles(whole) \cap Roles(released) = {} /\ \A role \in Roles(whole) : OwnRecord(f, node, role)
    BY <1>12
  <2> QED
    BY <1>4, <1>6, <1>9, <1>10, <1>12, <1>13, <2>1, TransformedOK
<1>16. BackInto(g) /\ Top.kind # "message"
  BY <1>1, <1>2, <1>14
<1> QED
  BY <1>1, <1>2, <1>15, <1>16, BackIntoOK

LEMMA FailOutputOK ==
  ASSUME Stacked(stack), FailOutput
  PROVE  Stacked(stack') /\ stop' = "no" /\ read' = read /\ tree' = tree /\ out' = out
<1>1. PICK node :
        /\ node = [Top.head EXCEPT !.failed = TRUE]
        /\ stack # <<>> /\ Top.kind = "output"
        /\ BackInto(Transformed(Parent, node, <<>>))
        /\ stop' = "no" /\ UNCHANGED <<read, tree, out>>
  BY DEF FailOutput
<1>2. PICK f : f = Parent
  OBVIOUS
<1>3. FrameOK(f) /\ Nested(f, Top)
  BY <1>1, <1>2, InnerOf
<1>4. HeadOK(Top.head, f)
  BY <1>1, <1>3 DEF Nested
<1>5. /\ node.kind = "transform" /\ node.source \in DOMAIN f.nodes /\ Within(node, f.at)
  BY <1>1, <1>4 DEF HeadOK, IsNode, Within
<1>6. PICK empty \in Seq(Write) : empty = <<>>
  BY NoWrites
<1>7. Distinct(empty) /\ Roles(empty) = {}
  BY <1>6, NoWrites
<1>8. PICK g : g = Took(f, node, f.at, TakenOver(f, node, f.writes \o empty) \o empty)
  OBVIOUS
<1>9. Transformed(f, node, <<>>) = g
  <2>1. f.writes \in Seq(Write) /\ Distinct(f.writes) /\ f.writes \o empty = f.writes
    BY <1>3, <1>6 DEF FrameOK, RecordsStand
  <2>2. PICK after : after = TakenOver(f, node, f.writes)
    OBVIOUS
  <2>3. after \in Seq(Write)
    BY <1>3, <1>5, <2>1, <2>2, TakenOverThins
  <2>4. after \o empty = after
    BY <1>6, <2>3
  <2>5. Transformed(f, node, empty) = Took(f, node, f.at, after)
    BY <2>1, <2>2 DEF Transformed
  <2> QED
    BY <1>6, <1>8, <2>1, <2>2, <2>4, <2>5
<1>10. /\ FrameOK(g) /\ g.kind = f.kind /\ g.path = f.path /\ g.from = f.from
       /\ g.extent = f.extent /\ g.head = f.head
  <2>1. Roles(empty) \cap Roles(empty) = {} /\ \A role \in Roles(empty) : OwnRecord(f, node, role)
    BY <1>7
  <2> QED
    BY <1>3, <1>5, <1>7, <1>8, <2>1, TransformedOK
<1>11. BackInto(g) /\ Top.kind # "message"
  BY <1>1, <1>2, <1>9
<1> QED
  BY <1>1, <1>2, <1>10, <1>11, BackIntoOK

(* A unit is over: the node it becomes, and what its wrapper writes.       *)
Left(u, node, ws) ==
  \E status \in {"ok", "undecodable", "truncated"}, refused \in BOOLEAN :
    node = Unit(u, status, refused) /\ ws = Wrapped(u, refused)

LEMMA WrappedRecords ==
  ASSUME NEW u, FrameOK(u), NEW node, NEW ws, Left(u, node, ws)
  PROVE  /\ node.kind = "group" /\ node.from = u.from /\ node.to = u.at /\ node.kids = u.nodes
         /\ ws \in Seq(Write) /\ Distinct(ws)
         /\ \A role \in Roles(ws) : role \in Roles(u.writes) /\ ~Silent(node)
<1>1. PICK status \in {"ok", "undecodable", "truncated"}, refused \in BOOLEAN :
        node = Unit(u, status, refused) /\ ws = Wrapped(u, refused)
  BY DEF Left
<1>2. /\ node.kind = "group" /\ node.from = u.from /\ node.to = u.at /\ node.kids = u.nodes
      /\ node.refused = refused /\ node.failed = FALSE
  BY <1>1 DEF Unit, Node
<1>3. CASE refused
  <2>1. PICK whole : whole = Unit(u, "undecodable", TRUE)
    OBVIOUS
  <2>2. whole.from = u.from /\ whole.to = u.at
    BY <2>1 DEF Unit, Node
  <2>3. whole.from \in Int /\ whole.to \in Int /\ "undecodable" \in Reasons
    BY <2>2 DEF FrameOK, Reasons
  <2>4. ws = Naming(whole, "undecodable")
    BY <1>3, <1>1, <2>1 DEF Wrapped
  <2>5. ws \in Seq(Write) /\ Distinct(ws) /\ Roles(ws) = {}
    BY <2>3, <2>4, NamingWrite
  <2> QED
    BY <1>2, <2>5
<1>4. CASE ~refused
  <2>1. ws = u.writes
    BY <1>4, <1>1 DEF Wrapped
  <2>2. ~Silent(node)
    BY <1>2, <1>4 DEF Silent
  <2> QED
    BY <1>2, <2>1, <2>2 DEF FrameOK, RecordsStand
<1> QED
  BY <1>3, <1>4

LEMMA LeaveGroupOK ==
  ASSUME Stacked(stack), stop \in {"no", "undecodable", "truncated"}, LeaveGroup
  PROVE  /\ Stacked(stack') /\ stop' \in {"no", "undecodable", "truncated"}
         /\ read' = read /\ tree' = tree /\ out' = out
<1>1. PICK refused \in BOOLEAN :
        \E status, node, vs :
          /\ status = StatusOf(refused)
          /\ node = Unit(Top, status, refused)
          /\ vs = Wrapped(Top, refused)
          /\ stack # <<>> /\ Top.kind = "group"
          /\ BackInto(Took(Parent, node, Top.at, Parent.writes \o vs))
          /\ stop' = IF refused THEN "undecodable" ELSE stop
          /\ UNCHANGED <<read, tree, out>>
  BY DEF LeaveGroup
<1>2. PICK status, node, vs :
        /\ status = StatusOf(refused)
        /\ node = Unit(Top, status, refused)
        /\ vs = Wrapped(Top, refused)
        /\ stack # <<>> /\ Top.kind = "group"
        /\ BackInto(Took(Parent, node, Top.at, Parent.writes \o vs))
        /\ stop' = IF refused THEN "undecodable" ELSE stop
        /\ UNCHANGED <<read, tree, out>>
  BY <1>1
<1>3. PICK f : f = Parent
  OBVIOUS
<1>4. PICK u : u = Top
  OBVIOUS
<1>5. FrameOK(u) /\ FrameOK(f) /\ Nested(f, u)
  BY <1>2, <1>3, <1>4, InnerOf
<1>6. u.path = NextPath(f) /\ u.from = f.at /\ u.extent = f.extent
  BY <1>2, <1>4, <1>5 DEF Nested
<1>7. /\ node.kind = "group" /\ node.from = u.from /\ node.to = u.at /\ node.kids = u.nodes
      /\ vs \in Seq(Write) /\ Distinct(vs)
      /\ \A role \in Roles(vs) : role \in Roles(u.writes) /\ ~Silent(node)
  <2>1. status \in {"ok", "undecodable", "truncated"}
    BY <1>2 DEF StatusOf
  <2>2. node = Unit(u, status, refused) /\ vs = Wrapped(u, refused)
    BY <1>2, <1>4
  <2>3. Left(u, node, vs)
    BY <2>1, <2>2, Zenon DEF Left
  <2> QED
    BY <1>5, <2>3, WrappedRecords
<1>8. \A role \in Roles(vs) : OwnRecord(f, node, role)
  BY <1>5, <1>6, <1>7, HeldRecords
<1>9. PICK at : at = u.at
  OBVIOUS
<1>10. at \in Nat /\ f.at <= at /\ at <= f.extent /\ Within(node, at)
  BY <1>5, <1>6, <1>7, <1>9 DEF FrameOK, Within
<1>11. Reads(node, f.nodes) /\ node.kind # "transform"
  BY <1>7 DEF Reads
<1>12. PICK g : g = Took(f, node, at, f.writes \o vs)
  OBVIOUS
<1>13. /\ FrameOK(g) /\ g.kind = f.kind /\ g.path = f.path /\ g.from = f.from
       /\ g.extent = f.extent /\ g.head = f.head
  BY <1>5, <1>7, <1>8, <1>10, <1>11, <1>12, FieldOK
<1>14. BackInto(g) /\ Top.kind # "message"
  BY <1>2, <1>3, <1>4, <1>9, <1>12
<1>15. Stacked(stack')
  BY <1>2, <1>3, <1>13, <1>14, BackIntoOK
<1> QED
  BY <1>2, <1>15

(* What the generated module has written is of fields of the tree.         *)
OutOK ==
  /\ out \in Seq(Write)
  /\ \A role \in Roles(out) : role \in Seq(Nat) /\ Stands(tree.kids, role)

LEMMA FinishOK ==
  ASSUME Stacked(stack), stop \in {"no", "undecodable", "truncated"}, Finish
  PROVE  Stacked(stack') /\ stop' = stop /\ read' = read /\ OutOK'
<1>1. PICK refused \in BOOLEAN :
        \E status :
          /\ Len(stack) = 1
          /\ status = StatusOf(refused)
          /\ tree' = Unit(Top, status, refused)
          /\ out' = Wrapped(Top, refused)
          /\ stack' = <<>>
          /\ stop' = stop /\ read' = read
  BY DEF Finish
<1>2. PICK status :
        /\ Len(stack) = 1
        /\ status = StatusOf(refused)
        /\ tree' = Unit(Top, status, refused)
        /\ out' = Wrapped(Top, refused)
        /\ stack' = <<>>
        /\ stop' = stop /\ read' = read
  BY <1>1
<1>3. PICK u : u = Top
  OBVIOUS
<1>4. FrameOK(u) /\ u.path = <<>>
  <2>1. stack # <<>>
    BY <1>2
  <2>2. Last(stack) = stack[1] /\ FrameOK(Last(stack))
    BY <1>2, <2>1, TopOf
  <2> QED
    BY <1>3, <2>1, <2>2 DEF Top, Stacked
<1>5. PICK node : node = tree'
  OBVIOUS
<1>6. PICK ws : ws = out'
  OBVIOUS
<1>7. /\ node.kids = u.nodes /\ ws \in Seq(Write)
      /\ \A role \in Roles(ws) : role \in Roles(u.writes)
  <2>1. status \in {"ok", "undecodable", "truncated"}
    BY <1>2 DEF StatusOf
  <2>2. node = Unit(u, status, refused) /\ ws = Wrapped(u, refused)
    BY <1>2, <1>3, <1>5, <1>6
  <2>3. Left(u, node, ws)
    BY <2>1, <2>2, Zenon DEF Left
  <2> QED
    BY <1>4, <2>3, WrappedRecords
<1>8. ASSUME NEW role \in Roles(ws) PROVE role \in Seq(Nat) /\ Stands(node.kids, role)
  <2>1. PICK rel \in Seq(Nat) : role = u.path \o rel /\ Stands(u.nodes, rel)
    BY <1>4, <1>7 DEF FrameOK, RecordsStand
  <2>2. <<>> \o rel = rel
    OBVIOUS
  <2> QED
    BY <1>4, <1>7, <2>1, <2>2
<1>9. OutOK'
  BY <1>5, <1>6, <1>7, <1>8 DEF OutOK
<1>10. Stacked(stack')
  BY <1>2, EmptyIsSeq DEF Stacked
<1> QED
  BY <1>2, <1>9, <1>10

(***************************************************************************)
(* The invariant, and what follows from it.                                *)
(***************************************************************************)
Inv ==
  /\ stop \in {"no", "undecodable", "truncated"}
  /\ read \in 0 .. MaxFields
  /\ Stacked(stack)
  /\ OutOK

LEMMA InitInv == Init => Inv
<1> SUFFICES ASSUME Init PROVE Inv
  OBVIOUS
<1>1. PICK f : f = Frame("message", 0, Extent, <<>>, NoNode)
  OBVIOUS
<1>2. stack = <<f>> /\ stop = "no" /\ read = 0 /\ out = <<>>
  BY <1>1 DEF Init
<1>3. FrameOK(f) /\ f.path = <<>> /\ f.kind = "message"
  <2>1. PICK path \in Seq(Nat) : path = <<>>
    <3>1. <<>> \in Seq(Nat)
      OBVIOUS
    <3> QED
      BY <3>1
  <2>2. 0 <= Extent /\ 0 \in Nat /\ Extent \in Nat
    BY Assumptions
  <2>3. f = Frame("message", 0, Extent, path, NoNode)
    BY <1>1, <2>1
  <2>4. FrameOK(f) /\ f.path = path /\ f.kind = "message"
    BY <2>2, <2>3, FrameBegins
  <2> QED
    BY <2>1, <2>4
<1>4. Stacked(stack)
  <2>1. <<f>> \in Seq({f})
    OBVIOUS
  <2>2. IsSeq(stack) /\ Len(stack) = 1 /\ stack[1] = f
    BY <1>2, <2>1, IsSeqOf
  <2> QED
    BY <1>3, <2>2 DEF Stacked
<1>5. OutOK
  BY <1>2, NoWrites DEF OutOK
<1> QED
  BY <1>2, <1>4, <1>5, Assumptions DEF Inv

LEMMA ReadFieldOK ==
  ASSUME Inv, ReadField
  PROVE  /\ Stacked(stack') /\ stop' \in {"no", "undecodable", "truncated"}
         /\ read' \in 0 .. MaxFields /\ tree' = tree /\ out' = out
<1>1. stack # <<>> /\ read < MaxFields /\ read' = read + 1 /\ tree' = tree /\ out' = out
  BY DEF ReadField, Decoding
<1>2. read' \in 0 .. MaxFields
  BY <1>1, Assumptions DEF Inv
<1>3. Stacked(stack) /\ stop \in {"no", "undecodable", "truncated"}
  BY DEF Inv
<1>4. CASE ReadLeaf
  BY <1>1, <1>2, <1>3, <1>4, ReadLeafOK
<1>5. CASE ReadWrongConst
  BY <1>1, <1>2, <1>3, <1>5, ReadWrongConstOK
<1>6. CASE ReadTruncated
  BY <1>1, <1>2, <1>3, <1>6, ReadTruncatedOK
<1>7. CASE ReadChunks
  BY <1>1, <1>2, <1>3, <1>7, ReadChunksOK
<1>8. CASE ReadConcat
  BY <1>1, <1>2, <1>3, <1>8, ReadConcatOK
<1>9. CASE ReadTransform
  BY <1>1, <1>2, <1>3, <1>9, ReadTransformOK
<1>10. CASE OpenOutput
  BY <1>1, <1>2, <1>3, <1>10, OpenOutputOK
<1>11. CASE EnterGroup
  BY <1>1, <1>2, <1>3, <1>11, EnterGroupOK
<1> QED
  BY <1>4, <1>5, <1>6, <1>7, <1>8, <1>9, <1>10, <1>11 DEF ReadField

LEMMA NextInv == Inv /\ [Next]_vars => Inv'
<1> SUFFICES ASSUME Inv, [Next]_vars PROVE Inv'
  OBVIOUS
<1>1. /\ Stacked(stack) /\ stop \in {"no", "undecodable", "truncated"}
      /\ read \in 0 .. MaxFields /\ OutOK
  BY DEF Inv
<1>2. ASSUME tree' = tree, out' = out PROVE OutOK'
  BY <1>1, <1>2 DEF OutOK
<1>3. CASE ReadField
  BY <1>2, <1>3, ReadFieldOK DEF Inv
<1>4. CASE CloseOutput
  BY <1>1, <1>2, <1>4, CloseOutputOK DEF Inv
<1>5. CASE FailOutput
  BY <1>1, <1>2, <1>5, FailOutputOK DEF Inv
<1>6. CASE LeaveGroup
  BY <1>1, <1>2, <1>6, LeaveGroupOK DEF Inv
<1>7. CASE Finish
  BY <1>1, <1>7, FinishOK DEF Inv
<1>8. CASE UNCHANGED vars
  <2>1. stack' = stack /\ stop' = stop /\ read' = read /\ tree' = tree /\ out' = out
    BY <1>8 DEF vars
  <2> QED
    BY <1>1, <1>2, <2>1 DEF Inv
<1> QED
  BY <1>3, <1>4, <1>5, <1>6, <1>7, <1>8 DEF Next

LEMMA InvTypes == Inv => TypeOK
<1> SUFFICES ASSUME Inv PROVE TypeOK
  OBVIOUS
<1>1. \A k \in DOMAIN stack : FrameOK(stack[k]) /\ stack[k].kind \in {"message", "group", "output"}
  <2>1. Stacked(stack)
    BY DEF Inv
  <2>2. Len(stack) \in Nat /\ DOMAIN stack = 1 .. Len(stack)
    BY <2>1, SeqDomain DEF Stacked
  <2> SUFFICES ASSUME NEW k \in 1 .. Len(stack)
               PROVE  FrameOK(stack[k]) /\ stack[k].kind \in {"message", "group", "output"}
    BY <2>2
  <2>3. CASE k = 1
    BY <2>1, <2>2, <2>3 DEF Stacked
  <2>4. CASE k # 1
    <3>1. Nested(stack[k - 1], stack[k])
      BY <2>1, <2>4 DEF Stacked
    <3> QED
      BY <2>1, <3>1 DEF Stacked, Nested
  <2> QED
    BY <2>3, <2>4
<1>2. ASSUME NEW f, FrameOK(f)
      PROVE  /\ f.from <= f.at /\ f.at <= f.extent
             /\ \A n \in ToSet(f.nodes) : 0 <= n.from /\ n.from <= n.to /\ n.to <= f.at
  BY <1>2 DEF FrameOK, NodesOK, Within, ToSet
<1> QED
  BY <1>1, <1>2 DEF Inv, TypeOK

LEMMA RecordStands ==
  ASSUME Inv, NEW w \in ToSet(out), IsRecord(w)
  PROVE  Stands(tree.kids, w.role) /\ w.role \in Seq(Nat)
<1>1. w.role \in Roles(out)
  BY DEF Roles, ToSet
<1> QED
  BY <1>1 DEF Inv, OutOK

LEMMA InvTakenBack == Inv => TakenBack
<1> SUFFICES ASSUME Inv PROVE TakenBack
  OBVIOUS
<1>1. NothingOfAFailure
  BY RecordStands DEF NothingOfAFailure, Stands
<1>2. SourceSpokenForOnce
  BY RecordStands DEF SourceSpokenForOnce, Stands
<1> QED
  BY <1>1, <1>2, InvTypes DEF TakenBack

(* The inductive invariant: every unit's nodes lie inside its space, in    *)
(* the order it read them, and what it holds back has one record at most   *)
(* of a field, which is one of its own or of a unit inside it that is      *)
(* neither refused, nor failed, nor read by a transform.                   *)
THEOREM Held == Spec => []Inv
<1>1. Init => Inv
  BY InitInv
<1>2. Inv /\ [Next]_vars => Inv'
  BY NextInv
<1> QED
  BY <1>1, <1>2, PTL DEF Spec

(* Whatever is written as a record once a message is over is a field of    *)
(* its tree, none of what a refused guard or a failed output read is, and  *)
(* a field a transform took over (take_over in kober.runtime) has no       *)
(* record of its own.                                                      *)
THEOREM NothingLeftBehind == Spec => []TakenBack
<1>1. Inv => TakenBack
  BY InvTakenBack
<1> QED
  BY <1>1, Held, PTL

-----------------------------------------------------------------------------
(***************************************************************************)
(* Every byte read is spoken for.  A concat's record says again what the   *)
(* data it joined have said; everything else a unit has read is spoken for *)
(* without it, and so without the record a transform may take from it.     *)
(***************************************************************************)
Joins(f, w) ==
  IsRecord(w) /\ \E i \in DOMAIN f.nodes : f.nodes[i].kind = "concat" /\ w.role = f.path \o <<i>>

(* A write is of bytes the unit has read; the record of a field, or of the *)
(* data in a chunk, is of the bytes of that field or those data.           *)
Fits(f, w) ==
  /\ Bytes(w) \subseteq f.from .. f.at - 1
  /\ IsRecord(w) => \A i \in DOMAIN f.nodes :
       /\ w.role = f.path \o <<i>> => Bytes(w) \subseteq Bytes(f.nodes[i])
       /\ f.nodes[i].kind = "chunks" =>
            \A j \in DOMAIN f.nodes[i].kids :
              w.role = f.path \o <<i, j, 2>> => Bytes(w) \subseteq Bytes(f.nodes[i].kids[j].kids[2])

(* A field a unit may have: no nested unit is decoded for control flow.    *)
Begun(f, node) == f.from <= node.from /\ (node.kind = "group" => ~node.none)

Speaks(f) ==
  \A b \in f.from .. f.at - 1 : \E w \in ToSet(f.writes) : b \in Bytes(w) /\ ~Joins(f, w)

Accounts(f) ==
  /\ \A i \in DOMAIN f.nodes : Begun(f, f.nodes[i])
  /\ \A w \in ToSet(f.writes) : Fits(f, w)
  /\ Speaks(f)

(* A record held is not of the field read next.                            *)
LEMMA OldRole ==
  ASSUME NEW f, FrameOK(f), NEW w \in ToSet(f.writes), IsRecord(w), NEW rel \in Seq(Nat)
  PROVE  w.role # f.path \o (<<Len(f.nodes) + 1>> \o rel)
<1>1. w.role \in Roles(f.writes)
  BY DEF Roles, ToSet
<1> QED
  BY <1>1, NewField

(* Nor is a record of the field read next of an earlier one.               *)
LEMMA NewRole ==
  ASSUME NEW f, FrameOK(f), NEW rel \in Seq(Nat), NEW i \in 1 .. Len(f.nodes), NEW rest \in Seq(Nat)
  PROVE  f.path \o (<<Len(f.nodes) + 1>> \o rel) # f.path \o (<<i>> \o rest)
<1>1. PICK last : last = Len(f.nodes) + 1
  OBVIOUS
<1>2. Len(f.nodes) \in Nat /\ f.path \in Seq(Nat)
  BY SeqDomain DEF FrameOK
<1>3. last \in Nat /\ i \in Nat /\ last # i
  BY <1>1, <1>2
<1>4. PICK own : own = <<last>> \o rel
  OBVIOUS
<1>5. PICK other : other = <<i>> \o rest
  OBVIOUS
<1>6. own \in Seq(Nat) /\ own[1] = last
  BY <1>3, <1>4
<1>7. other \in Seq(Nat) /\ other[1] = i
  BY <1>3, <1>5
<1>8. own # other
  BY <1>3, <1>6, <1>7
<1> QED
  BY <1>1, <1>2, <1>4, <1>5, <1>6, <1>7, <1>8, PathsCancel

(* A field's path and that of data in a chunk, by their first step.        *)
LEMMA FirstSteps ==
  ASSUME NEW i \in Nat
  PROVE  /\ <<>> \in Seq(Nat) /\ <<i>> \o <<>> = <<i>>
         /\ \A j \in Nat : <<j, 2>> \in Seq(Nat) /\ <<i>> \o <<j, 2>> = <<i, j, 2>>
<1>1. <<>> \in Seq(Nat) /\ <<i>> \o <<>> = <<i>>
  OBVIOUS
<1>2. ASSUME NEW j \in Nat PROVE <<j, 2>> \in Seq(Nat) /\ <<i>> \o <<j, 2>> = <<i, j, 2>>
  <2> <<i>> \in Seq(Nat) /\ <<j, 2>> \in Seq(Nat) /\ <<i, j, 2>> \in Seq(Nat)
    OBVIOUS
  <2>1. PICK a \in Seq(Nat) : a = <<i>>
    OBVIOUS
  <2>2. PICK b \in Seq(Nat) : b = <<j, 2>>
    OBVIOUS
  <2>3. PICK both \in Seq(Nat) : both = a \o b
    <3>1. a \o b \in Seq(Nat)
      BY ConcatProperties
    <3> QED
      BY <3>1
  <2>4. PICK long \in Seq(Nat) : long = <<i, j, 2>>
    OBVIOUS
  <2>5. Len(both) = 3 /\ both[1] = i /\ both[2] = j /\ both[3] = 2
    BY <2>1, <2>2, <2>3
  <2>6. Len(long) = 3 /\ long[1] = i /\ long[2] = j /\ long[3] = 2
    BY <2>4
  <2>7. both = long
    <3>1. \A k \in 1 .. Len(both) : both[k] = long[k]
      BY <2>5, <2>6
    <3> QED
      BY <2>5, <2>6, <3>1, SeqEqual
  <2> QED
    BY <2>1, <2>2, <2>3, <2>4, <2>7
<1> QED
  BY <1>1, <1>2

(* Of two paths below a field, that are equal, so are the rests.           *)
LEMMA SameTail ==
  ASSUME NEW p \in Seq(Nat), NEW n \in Nat, NEW rel \in Seq(Nat), NEW rest \in Seq(Nat),
         p \o (<<n>> \o rel) = p \o (<<n>> \o rest)
  PROVE  rel = rest
<1>1. PICK one : one = <<n>>
  OBVIOUS
<1>2. one \in Seq(Nat)
  BY <1>1
<1>3. one \o rel \in Seq(Nat) /\ one \o rest \in Seq(Nat)
  BY <1>2, ConcatProperties
<1>4. one \o rel = one \o rest
  BY <1>1, <1>3, PathsCancel
<1> QED
  BY <1>2, <1>4, PathsCancel

(* The fields of a unit that has taken one more.                           *)
Grown(f, g, node) ==
  /\ g.nodes = Append(f.nodes, node) /\ g.path = f.path /\ g.from = f.from
  /\ f.at \in Nat /\ g.at \in Nat /\ f.at <= g.at

LEMMA GrownNodes ==
  ASSUME NEW f, FrameOK(f), NEW node, NEW g, Grown(f, g, node)
  PROVE  /\ Len(f.nodes) \in Nat /\ DOMAIN f.nodes = 1 .. Len(f.nodes)
         /\ DOMAIN g.nodes = 1 .. Len(f.nodes) + 1 /\ g.nodes[Len(f.nodes) + 1] = node
         /\ \A i \in 1 .. Len(f.nodes) : g.nodes[i] = f.nodes[i]
  BY AppendSeq DEF FrameOK, Grown

(* What was held still fits.                                               *)
LEMMA FitsOn ==
  ASSUME NEW f, FrameOK(f), NEW node, Reads(node, f.nodes), NEW g, Grown(f, g, node),
         NEW w \in ToSet(f.writes), Fits(f, w)
  PROVE  Fits(g, w) /\ (Joins(g, w) => Joins(f, w))
<1>1. PICK last : last = Len(f.nodes) + 1
  OBVIOUS
<1>2. /\ last \in Nat /\ DOMAIN f.nodes = 1 .. last - 1 /\ DOMAIN g.nodes = 1 .. last
      /\ g.nodes[last] = node /\ \A i \in 1 .. last - 1 : g.nodes[i] = f.nodes[i]
  BY <1>1, GrownNodes
<1>3. /\ g.path = f.path /\ f.from .. f.at - 1 \subseteq g.from .. g.at - 1
  BY DEF Grown, FrameOK
<1>4. Bytes(w) \subseteq g.from .. g.at - 1
  BY <1>3 DEF Fits
<1>5. ASSUME IsRecord(w), NEW rel \in Seq(Nat) PROVE w.role # f.path \o (<<last>> \o rel)
  BY <1>1, <1>5, OldRole
<1>6. ASSUME IsRecord(w) PROVE w.role # g.path \o <<last>>
  BY <1>2, <1>3, <1>5, <1>6, FirstSteps
<1>7. ASSUME IsRecord(w), node.kind = "chunks", NEW j \in DOMAIN node.kids
      PROVE  w.role # g.path \o <<last, j, 2>>
  <2>1. j \in Nat
    <3>1. IsChunks(node)
      BY <1>7 DEF Reads
    <3> QED
      BY <1>7, <3>1, ChunkOf
  <2>2. <<j, 2>> \in Seq(Nat) /\ <<last>> \o <<j, 2>> = <<last, j, 2>>
    BY <1>2, <2>1, FirstSteps
  <2> QED
    BY <1>3, <1>5, <1>7, <2>2
<1>8. ASSUME IsRecord(w), NEW i \in DOMAIN g.nodes
      PROVE  /\ w.role = g.path \o <<i>> => Bytes(w) \subseteq Bytes(g.nodes[i])
             /\ g.nodes[i].kind = "chunks" =>
                  \A j \in DOMAIN g.nodes[i].kids :
                    w.role = g.path \o <<i, j, 2>> =>
                      Bytes(w) \subseteq Bytes(g.nodes[i].kids[j].kids[2])
  <2>1. CASE i = last
    BY <1>2, <1>6, <1>7, <1>8, <2>1
  <2>2. CASE i # last
    <3>1. i \in DOMAIN f.nodes /\ g.nodes[i] = f.nodes[i]
      BY <1>2, <1>8, <2>2
    <3> QED
      BY <1>3, <1>8, <3>1 DEF Fits
  <2> QED
    BY <2>1, <2>2
<1>9. Fits(g, w)
  BY <1>4, <1>8 DEF Fits
<1>10. ASSUME Joins(g, w) PROVE Joins(f, w)
  <2>1. PICK i \in DOMAIN g.nodes : g.nodes[i].kind = "concat" /\ w.role = g.path \o <<i>>
    BY <1>10 DEF Joins
  <2>2. IsRecord(w)
    BY <1>10 DEF Joins
  <2>3. i # last
    BY <1>6, <2>1, <2>2
  <2>4. i \in DOMAIN f.nodes /\ g.nodes[i] = f.nodes[i]
    BY <1>2, <2>1, <2>3
  <2> QED
    BY <1>3, <2>1, <2>2, <2>4 DEF Joins
<1> QED
  BY <1>9, <1>10

(* A record of the field just taken fits.                                  *)
LEMMA FitsNew ==
  ASSUME NEW f, FrameOK(f), NEW node, Reads(node, f.nodes), NEW g, Grown(f, g, node),
         NEW w, NEW rel \in Seq(Nat), w.role = NextPath(f) \o rel,
         Bytes(w) \subseteq g.from .. g.at - 1,
         rel = <<>> => Bytes(w) \subseteq Bytes(node),
         node.kind = "chunks" =>
           \A j \in DOMAIN node.kids : rel = <<j, 2>> => Bytes(w) \subseteq Bytes(node.kids[j].kids[2])
  PROVE  Fits(g, w) /\ (Joins(g, w) => node.kind = "concat" /\ rel = <<>>)
<1>1. PICK last : last = Len(f.nodes) + 1
  OBVIOUS
<1>2. /\ last \in Nat /\ DOMAIN f.nodes = 1 .. last - 1 /\ DOMAIN g.nodes = 1 .. last
      /\ g.nodes[last] = node /\ \A i \in 1 .. last - 1 : g.nodes[i] = f.nodes[i]
  BY <1>1, GrownNodes
<1>3. g.path = f.path /\ f.path \in Seq(Nat)
  BY DEF Grown, FrameOK
<1>4. w.role = f.path \o (<<last>> \o rel)
  BY <1>1, NextPaths
<1>5. ASSUME NEW i \in 1 .. last - 1, NEW rest \in Seq(Nat) PROVE w.role # f.path \o (<<i>> \o rest)
  <2>1. i \in 1 .. Len(f.nodes)
    BY <1>1, <1>2
  <2> QED
    BY <1>1, <1>4, <2>1, NewRole
<1>6. ASSUME NEW rest \in Seq(Nat), w.role = f.path \o (<<last>> \o rest) PROVE rel = rest
  <2>1. f.path \o (<<last>> \o rel) = f.path \o (<<last>> \o rest)
    BY <1>4, <1>6
  <2> QED
    BY <1>2, <1>3, <2>1, SameTail
<1>7. ASSUME NEW i \in DOMAIN g.nodes, w.role = g.path \o <<i>> PROVE i = last /\ rel = <<>>
  <2>1. i \in Nat
    BY <1>2
  <2>2. <<>> \in Seq(Nat) /\ <<i>> \o <<>> = <<i>>
    BY <2>1, FirstSteps
  <2>3. w.role = f.path \o (<<i>> \o <<>>)
    BY <1>3, <1>7, <2>2
  <2>4. i = last
    <3>1. i \notin 1 .. last - 1
      BY <1>5, <2>2, <2>3
    <3> QED
      BY <1>2, <3>1
  <2> QED
    BY <1>6, <2>2, <2>3, <2>4
<1>8. ASSUME NEW i \in DOMAIN g.nodes, NEW j \in Nat, w.role = g.path \o <<i, j, 2>>
      PROVE  i = last /\ rel = <<j, 2>>
  <2>1. i \in Nat
    BY <1>2
  <2>2. <<j, 2>> \in Seq(Nat) /\ <<i>> \o <<j, 2>> = <<i, j, 2>>
    BY <2>1, FirstSteps
  <2>3. w.role = f.path \o (<<i>> \o <<j, 2>>)
    BY <1>3, <1>8, <2>2
  <2>4. i = last
    <3>1. i \notin 1 .. last - 1
      BY <1>5, <2>2, <2>3
    <3> QED
      BY <1>2, <3>1
  <2> QED
    BY <1>6, <2>2, <2>3, <2>4
<1>9. ASSUME NEW i \in DOMAIN g.nodes, g.nodes[i].kind = "chunks", NEW j \in DOMAIN g.nodes[i].kids,
             w.role = g.path \o <<i, j, 2>>
      PROVE  Bytes(w) \subseteq Bytes(g.nodes[i].kids[j].kids[2])
  <2>1. j \in Nat
    <3>1. IsChunks(g.nodes[i])
      <4>1. CASE i = last
        BY <1>2, <1>9, <4>1 DEF Reads
      <4>2. CASE i # last
        <5>1. i \in DOMAIN f.nodes /\ g.nodes[i] = f.nodes[i]
          BY <1>2, <4>2
        <5> QED
          BY <1>9, <5>1 DEF FrameOK, NodesOK, Reads
      <4> QED
        BY <4>1, <4>2
    <3> QED
      BY <3>1, ChunkOf
  <2>2. i = last /\ rel = <<j, 2>>
    BY <1>8, <1>9, <2>1
  <2> QED
    BY <1>2, <1>9, <2>2
<1>10. \A i \in DOMAIN g.nodes : w.role = g.path \o <<i>> => Bytes(w) \subseteq Bytes(g.nodes[i])
  BY <1>2, <1>7
<1>11. Fits(g, w)
  BY <1>9, <1>10 DEF Fits
<1>12. Joins(g, w) => node.kind = "concat" /\ rel = <<>>
  BY <1>2, <1>7 DEF Joins
<1> QED
  BY <1>11, <1>12

LEMMA TookGrown ==
  ASSUME NEW f, FrameOK(f), NEW node, NEW at \in Nat, f.at <= at, NEW ws, NEW g, g = Took(f, node, at, ws)
  PROVE  Grown(f, g, node) /\ g.at = at /\ g.writes = ws /\ g.from = f.from
BY DEF FrameOK, IsFrame, Took, Grown

LEMMA TookAccounts ==
  ASSUME NEW f, FrameOK(f), Accounts(f), NEW node, Begun(f, node),
         NEW at \in Nat, f.at <= at, NEW ws, NEW g, g = Took(f, node, at, ws),
         \A w \in ToSet(ws) : Fits(g, w),
         \A b \in f.from .. at - 1 : \E w \in ToSet(ws) : b \in Bytes(w) /\ ~Joins(g, w)
  PROVE  Accounts(g)
<1>1. Grown(f, g, node) /\ g.at = at /\ g.writes = ws /\ g.from = f.from
  BY TookGrown
<1>2. \A i \in DOMAIN g.nodes : Begun(g, g.nodes[i])
  <2> TAKE i \in DOMAIN g.nodes
  <2>1. i \in 1 .. Len(f.nodes) + 1 /\ Len(f.nodes) \in Nat
    BY <1>1, GrownNodes
  <2>2. CASE i = Len(f.nodes) + 1
    BY <1>1, <2>2, GrownNodes DEF Begun
  <2>3. CASE i # Len(f.nodes) + 1
    <3>1. i \in 1 .. Len(f.nodes)
      BY <2>1, <2>3
    <3>2. i \in DOMAIN f.nodes /\ g.nodes[i] = f.nodes[i]
      BY <1>1, <3>1, GrownNodes
    <3> QED
      BY <1>1, <3>2 DEF Accounts, Begun
  <2> QED
    BY <2>2, <2>3
<1> QED
  BY <1>1, <1>2 DEF Accounts, Speaks

(* A field is taken, with what is written of it after what was held.       *)
LEMMA FieldAccounts ==
  ASSUME NEW f, FrameOK(f), Accounts(f), NEW node, Reads(node, f.nodes), Begun(f, node),
         NEW at \in Nat, f.at <= at, NEW vs \in Seq(Write),
         NEW g, g = Took(f, node, at, f.writes \o vs),
         \A w \in ToSet(vs) : Fits(g, w),
         \A b \in f.at .. at - 1 : \E w \in ToSet(vs) : b \in Bytes(w) /\ ~Joins(g, w)
  PROVE  Accounts(g)
<1>1. PICK ws : ws = f.writes \o vs
  OBVIOUS
<1>2. Grown(f, g, node) /\ g = Took(f, node, at, ws)
  BY <1>1, TookGrown
<1>3. ToSet(ws) = ToSet(f.writes) \cup ToSet(vs)
  BY <1>1, JoinedSet DEF FrameOK
<1>4. \A w \in ToSet(f.writes) : Fits(g, w) /\ (Joins(g, w) => Joins(f, w))
  BY <1>2, FitsOn DEF Accounts
<1>5. \A w \in ToSet(ws) : Fits(g, w)
  BY <1>3, <1>4
<1>6. ASSUME NEW b \in f.from .. at - 1
      PROVE  \E w \in ToSet(ws) : b \in Bytes(w) /\ ~Joins(g, w)
  <2>1. f.from \in Nat /\ f.at \in Nat
    BY DEF FrameOK
  <2>2. CASE b < f.at
    <3>1. b \in f.from .. f.at - 1
      BY <2>1, <2>2
    <3>2. PICK w \in ToSet(f.writes) : b \in Bytes(w) /\ ~Joins(f, w)
      BY <3>1 DEF Accounts, Speaks
    <3> QED
      BY <1>3, <1>4, <3>2
  <2>3. CASE ~(b < f.at)
    <3>1. b \in f.at .. at - 1
      BY <2>1, <2>3
    <3> QED
      BY <1>3, <3>1
  <2> QED
    BY <2>2, <2>3
<1> QED
  BY <1>2, <1>5, <1>6, TookAccounts

(* A region says nothing of a field.                                       *)
LEMMA RegionFits ==
  ASSUME NEW f, NEW w, IsRegion(w), Bytes(w) \subseteq f.from .. f.at - 1
  PROVE  Fits(f, w) /\ ~Joins(f, w)
BY DEF Fits, Joins, IsRegion, IsRecord

LEMMA OneWrite ==
  ASSUME NEW w
  PROVE  ToSet(<<w>>) = {w} /\ ToSet(<<>>) = {}
BY DEF ToSet

LEMMA NamingSays ==
  ASSUME NEW node, NEW reason
  PROVE  /\ \A w \in ToSet(Naming(node, reason)) : IsRegion(w) /\ Bytes(w) = Bytes(node)
         /\ node.from \in Int /\ node.to \in Int =>
              \A b \in Bytes(node) : \E w \in ToSet(Naming(node, reason)) : b \in Bytes(w)
<1>1. PICK w : w = RegionOf(node.from, node.to, reason)
  OBVIOUS
<1>2. IsRegion(w) /\ Bytes(w) = Bytes(node)
  BY <1>1 DEF RegionOf, IsRegion, Bytes
<1>3. CASE node.to > node.from
  <2>1. Naming(node, reason) = <<w>>
    BY <1>1, <1>3 DEF Naming
  <2>2. ToSet(Naming(node, reason)) = {w}
    BY <2>1, OneWrite
  <2> QED
    BY <1>2, <2>2
<1>4. CASE ~(node.to > node.from)
  <2>1. Naming(node, reason) = <<>>
    BY <1>4 DEF Naming
  <2>2. ToSet(Naming(node, reason)) = {}
    BY <2>1, OneWrite
  <2>3. node.from \in Int /\ node.to \in Int => Bytes(node) = {}
    BY <1>4 DEF Bytes
  <2> QED
    BY <2>2, <2>3
<1> QED
  BY <1>3, <1>4

LEMMA AccountedSays ==
  ASSUME NEW node, Accountable(node), NEW role
  PROVE  /\ \A w \in ToSet(Accounted(node, role)) :
              /\ Bytes(w) = Bytes(node)
              /\ IsRegion(w) \/ (IsRecord(w) /\ w.role = role)
         /\ \A b \in Bytes(node) : \E w \in ToSet(Accounted(node, role)) : b \in Bytes(w)
<1>1. node.from \in Int /\ node.to \in Int
  BY DEF Accountable
<1>2. CASE node.status # "ok"
  <2>1. Accounted(node, role) = Naming(node, "undecodable")
    BY <1>2 DEF Accounted
  <2> QED
    BY <1>1, <2>1, NamingSays
<1>3. CASE node.status = "ok" /\ node.none
  <2>1. Accounted(node, role) = Naming(node, "skipped")
    BY <1>3 DEF Accounted
  <2> QED
    BY <1>1, <2>1, NamingSays
<1>4. CASE node.status = "ok" /\ ~node.none
  <2>1. PICK w : w = RecordOf(node.from, node.to, role)
    OBVIOUS
  <2>2. ToSet(Accounted(node, role)) = {w}
    <3>1. Accounted(node, role) = <<w>>
      BY <1>4, <2>1 DEF Accounted
    <3> QED
      BY <3>1, OneWrite
  <2>3. IsRecord(w) /\ w.role = role /\ Bytes(w) = Bytes(node)
    BY <2>1 DEF RecordOf, IsRecord, Bytes
  <2> QED
    BY <2>2, <2>3
<1> QED
  BY <1>2, <1>3, <1>4

(* A leaf speaks for the bytes it reads, where it stands; a concat, which  *)
(* reads none, for some that are spoken for.                               *)
LEMMA OneFieldAccounts ==
  ASSUME NEW f, FrameOK(f), Accounts(f), NEW node, Accountable(node), Reads(node, f.nodes),
         node.kind \in {"leaf", "concat"}, NEW at \in Nat, f.at <= at, Within(node, at),
         f.from <= node.from,
         node.kind = "leaf" => node.from = f.at /\ node.to = at,
         node.kind = "concat" => at = f.at,
         NEW g, g = Took(f, node, at, f.writes \o Accounted(node, NextPath(f)))
  PROVE  Accounts(g)
<1>1. PICK path \in Seq(Nat) : path = NextPath(f)
  BY NextPaths
<1>2. PICK vs : vs = Accounted(node, path)
  OBVIOUS
<1>3. vs \in Seq(Write) /\ g = Took(f, node, at, f.writes \o vs)
  BY <1>1, <1>2, AccountedWrites
<1>4. Grown(f, g, node) /\ g.at = at /\ g.from = f.from
  BY <1>3, TookGrown
<1>5. Bytes(node) \subseteq f.from .. at - 1
  BY DEF Bytes, Within, FrameOK
<1>6. ASSUME NEW w \in ToSet(vs)
      PROVE  Bytes(w) = Bytes(node) /\ Fits(g, w) /\ (node.kind = "leaf" => ~Joins(g, w))
  <2>1. Bytes(w) = Bytes(node) /\ (IsRegion(w) \/ (IsRecord(w) /\ w.role = path))
    BY <1>2, <1>6, AccountedSays
  <2>2. Bytes(w) \subseteq g.from .. g.at - 1
    BY <1>4, <1>5, <2>1
  <2>3. CASE IsRegion(w)
    BY <2>1, <2>2, <2>3, RegionFits
  <2>4. CASE IsRecord(w) /\ w.role = path
    <3>1. PICK rel \in Seq(Nat) : rel = <<>>
      <4>1. <<>> \in Seq(Nat)
        OBVIOUS
      <4> QED
        BY <4>1
    <3>2. w.role = NextPath(f) \o rel
      BY <1>1, <2>4, <3>1
    <3>3. node.kind # "chunks"
      OBVIOUS
    <3>4. Fits(g, w) /\ (Joins(g, w) => node.kind = "concat" /\ rel = <<>>)
      BY <1>4, <2>1, <2>2, <3>2, <3>3, FitsNew
    <3> QED
      BY <2>1, <3>4
  <2> QED
    BY <2>1, <2>3, <2>4
<1>7. ASSUME NEW b \in f.at .. at - 1 PROVE \E w \in ToSet(vs) : b \in Bytes(w) /\ ~Joins(g, w)
  <2>1. node.kind = "leaf"
    BY DEF FrameOK
  <2>2. b \in Bytes(node)
    BY <2>1 DEF Bytes
  <2>3. PICK w \in ToSet(vs) : b \in Bytes(w)
    BY <1>2, <2>2, AccountedSays
  <2> QED
    BY <1>6, <2>1, <2>3
<1>8. Begun(f, node)
  BY DEF Begun
<1> QED
  BY <1>3, <1>6, <1>7, <1>8, FieldAccounts

IsChunk(chunk) == \E at \in Nat, width \in 0 .. 1, none \in BOOLEAN : chunk = Chunk(at, width, none)

(* A chunk's size and data speak for its bytes.                            *)
LEMMA ChunkSays ==
  ASSUME NEW chunk, IsChunk(chunk), NEW role \in Seq(Nat)
  PROVE  /\ \A w \in ToSet(ChunkWrites(chunk, role)) :
              /\ Bytes(w) \subseteq Bytes(chunk)
              /\ \/ IsRegion(w)
                 \/ IsRecord(w) /\ \E i \in 1 .. 2 :
                      w.role = Append(role, i) /\ Bytes(w) = Bytes(chunk.kids[i])
         /\ \A b \in Bytes(chunk) : \E w \in ToSet(ChunkWrites(chunk, role)) : b \in Bytes(w)
<1>0. PICK from \in Nat, width \in 0 .. 1, none \in BOOLEAN : chunk = Chunk(from, width, none)
  BY DEF IsChunk
<1>1. PICK size : size = Leaf(from, 1, none)
  OBVIOUS
<1>2. PICK data : data = Leaf(from + 1, width, FALSE)
  OBVIOUS
<1>3. /\ size.from = from /\ size.to = from + 1 /\ Accountable(size)
  BY <1>1 DEF Leaf, Node, Accountable
<1>4. /\ data.from = from + 1 /\ data.to = from + 1 + width /\ Accountable(data)
  BY <1>2 DEF Leaf, Node, Accountable
<1>5. chunk.from = from /\ chunk.to = from + 1 + width /\ chunk.kids = <<size, data>>
  BY <1>0, <1>1, <1>2 DEF Chunk, Node
<1>6. chunk.kids[1] = size /\ chunk.kids[2] = data
  BY <1>5
<1>7. /\ Bytes(chunk) = from .. from + width
      /\ Bytes(size) = from .. from /\ Bytes(data) = from + 1 .. from + width
  BY <1>3, <1>4, <1>5 DEF Bytes
<1>8. PICK one : one = Append(role, 1)
  OBVIOUS
<1>9. PICK two : two = Append(role, 2)
  OBVIOUS
<1>10. one \in Seq(Nat) /\ two \in Seq(Nat)
  BY <1>8, <1>9
<1>11. PICK vs : vs = Accounted(size, one)
  OBVIOUS
<1>12. PICK us : us = Accounted(data, two)
  OBVIOUS
<1>13. vs \in Seq(Write) /\ us \in Seq(Write)
  BY <1>3, <1>4, <1>10, <1>11, <1>12, AccountedWrites
<1>14. ToSet(ChunkWrites(chunk, role)) = ToSet(vs) \cup ToSet(us)
  BY <1>6, <1>8, <1>9, <1>11, <1>12, <1>13, JoinedSet DEF ChunkWrites
<1>15. /\ \A w \in ToSet(vs) : Bytes(w) = Bytes(size) /\ (IsRegion(w) \/ (IsRecord(w) /\ w.role = one))
       /\ \A b \in Bytes(size) : \E w \in ToSet(vs) : b \in Bytes(w)
  BY <1>3, <1>11, AccountedSays
<1>16. /\ \A w \in ToSet(us) : Bytes(w) = Bytes(data) /\ (IsRegion(w) \/ (IsRecord(w) /\ w.role = two))
       /\ \A b \in Bytes(data) : \E w \in ToSet(us) : b \in Bytes(w)
  BY <1>4, <1>12, AccountedSays
<1>17. Bytes(chunk) = Bytes(size) \cup Bytes(data)
  BY <1>7
<1>18. ASSUME NEW w \in ToSet(vs) \cup ToSet(us)
       PROVE  /\ Bytes(w) \subseteq Bytes(chunk)
              /\ \/ IsRegion(w)
                 \/ IsRecord(w) /\ \E i \in 1 .. 2 :
                      w.role = Append(role, i) /\ Bytes(w) = Bytes(chunk.kids[i])
  <2>1. CASE w \in ToSet(vs)
    BY <1>6, <1>8, <1>15, <1>17, <2>1
  <2>2. CASE w \in ToSet(us)
    BY <1>6, <1>9, <1>16, <1>17, <2>2
  <2> QED
    BY <1>18, <2>1, <2>2
<1> QED
  BY <1>7, <1>14, <1>15, <1>16, <1>17, <1>18

(* A repetition's chunks are all it has read.                              *)
LEMMA ChunksTile ==
  ASSUME NEW n, IsChunks(n)
  PROVE  /\ \A j \in 1 .. Len(n.kids) : Bytes(n.kids[j]) \subseteq Bytes(n)
         /\ \A b \in Bytes(n) : \E j \in 1 .. Len(n.kids) : b \in Bytes(n.kids[j])
<1>1. PICK from \in Nat, widths \in ChunkWidths, none \in BOOLEAN : n = Chunks(from, widths, none)
  BY DEF IsChunks
<1>2. PICK start : start = Starts(from, widths)
  OBVIOUS
<1>3. /\ Len(n.kids) = Len(widths) /\ Len(widths) \in 0 .. 2 /\ n.from = from
      /\ \A j \in 1 .. Len(widths) : widths[j] \in 0 .. 1 /\ start[j] \in Nat
                                      /\ n.kids[j] = Chunk(start[j], widths[j], none)
      /\ Len(widths) = 0 => n.to = from
      /\ Len(widths) = 1 => n.to = start[1] + 1 + widths[1]
      /\ Len(widths) = 2 => n.to = start[2] + 1 + widths[2]
  <2>1. Tiled(n, from, widths, none, start)
    BY <1>1, <1>2, ChunksFields
  <2> QED
    BY <2>1 DEF Tiled
<1>4. DOMAIN widths = 1 .. Len(widths)
  BY DEF ChunkWidths
<1>5. /\ Len(widths) # 0 => start[1] = from
      /\ Len(widths) = 2 => start[2] = from + 1 + widths[1]
  BY <1>2, <1>3, <1>4 DEF Starts
<1>6. ASSUME NEW j \in 1 .. Len(widths) PROVE Bytes(n.kids[j]) = start[j] .. start[j] + widths[j]
  <2>1. PICK at \in Nat : at = start[j]
    BY <1>3
  <2>2. PICK width \in 0 .. 1 : width = widths[j]
    BY <1>3
  <2>3. n.kids[j] = Chunk(at, width, none)
    BY <1>3, <2>1, <2>2
  <2>4. PICK chunk : chunk = n.kids[j]
    OBVIOUS
  <2>5. chunk.from = at /\ chunk.to = at + 1 + width
    BY <2>3, <2>4 DEF Chunk, Node
  <2> QED
    BY <2>1, <2>2, <2>4, <2>5 DEF Bytes
<1>7. Bytes(n) = from .. n.to - 1
  BY <1>3 DEF Bytes
<1>8. CASE Len(widths) = 0
  BY <1>3, <1>7, <1>8
<1>9. CASE Len(widths) = 1
  <2>1. n.to - 1 = from + widths[1] /\ 1 \in 1 .. Len(widths) /\ widths[1] \in 0 .. 1
    BY <1>3, <1>5, <1>9
  <2>2. Bytes(n) = Bytes(n.kids[1])
    BY <1>5, <1>6, <1>7, <1>9, <2>1
  <2>3. \A j \in 1 .. Len(n.kids) : j = 1
    BY <1>3, <1>9
  <2> QED
    BY <1>3, <1>9, <2>1, <2>2, <2>3
<1>10. CASE Len(widths) = 2
  <2>1. /\ 1 \in 1 .. Len(widths) /\ 2 \in 1 .. Len(widths)
        /\ widths[1] \in 0 .. 1 /\ widths[2] \in 0 .. 1
    BY <1>3, <1>10
  <2>2. PICK v \in 0 .. 1 : v = widths[1]
    BY <2>1
  <2>3. PICK u \in 0 .. 1 : u = widths[2]
    BY <2>1
  <2>4. /\ Bytes(n.kids[1]) = from .. from + v
        /\ Bytes(n.kids[2]) = from + 1 + v .. from + 1 + v + u
        /\ Bytes(n) = from .. from + 1 + v + u
    <3>1. start[1] = from /\ start[2] = from + 1 + v /\ n.to = start[2] + 1 + u
      BY <1>3, <1>5, <1>10, <2>2, <2>3
    <3>2. Bytes(n.kids[1]) = from .. from + v
      BY <1>6, <2>1, <2>2, <3>1
    <3>3. Bytes(n.kids[2]) = from + 1 + v .. from + 1 + v + u
      BY <1>6, <2>1, <2>3, <3>1
    <3>4. n.to - 1 = from + 1 + v + u
      BY <3>1
    <3> QED
      BY <1>7, <3>2, <3>3, <3>4
  <2>5. \A j \in 1 .. Len(n.kids) : j = 1 \/ j = 2
    BY <1>3, <1>10
  <2>6. Bytes(n) = Bytes(n.kids[1]) \cup Bytes(n.kids[2])
    BY <2>4
  <2> QED
    BY <1>3, <2>1, <2>5, <2>6
<1> QED
  BY <1>3, <1>8, <1>9, <1>10

LEMMA ChunksSet ==
  ASSUME NEW n, IsChunks(n), NEW role \in Seq(Nat)
  PROVE  \A w : w \in ToSet(ChunksWrites(n, role)) <=>
                  \E j \in 1 .. Len(n.kids) : w \in ToSet(ChunkWrites(n.kids[j], Append(role, j)))
<1>1. PICK kids : kids = n.kids
  OBVIOUS
<1>2. PICK N : N = Len(kids)
  OBVIOUS
<1>3. N \in 0 .. 2
  <2>1. PICK from \in Nat, widths \in ChunkWidths, none \in BOOLEAN : n = Chunks(from, widths, none)
    BY DEF IsChunks
  <2>2. PICK start : start = Starts(from, widths)
    OBVIOUS
  <2> QED
    <3>1. Tiled(n, from, widths, none, start)
      BY <2>1, <2>2, ChunksFields
    <3> QED
      BY <1>1, <1>2, <3>1 DEF Tiled
<1>4. PICK said : said = [j \in 1 .. N |-> ChunkWrites(kids[j], Append(role, j))]
  OBVIOUS
<1>5. \A j \in 1 .. N : said[j] \in Seq(Write)
  <2> TAKE j \in 1 .. N
  <2>1. PICK at \in Nat, width \in 0 .. 1, none \in BOOLEAN : kids[j] = Chunk(at, width, none)
    BY <1>1, <1>2, ChunkOf
  <2>2. Append(role, j) \in Seq(Nat)
    BY <1>3
  <2> QED
    BY <1>4, <2>1, <2>2, OneChunkWrites
<1>6. PICK says :
        /\ ChunksWrites(n, role) = says[N]
        /\ says[0] = <<>>
        /\ \A j \in 1 .. N : says[j] = says[j - 1] \o said[j]
  <2>1. PICK says :
          /\ ChunksWrites(n, role) = says[Len(n.kids)]
          /\ says[0] = <<>>
          /\ \A j \in 1 .. Len(n.kids) : says[j] = says[j - 1] \o ChunkWrites(n.kids[j], Append(role, j))
    BY ChunksSteps
  <2>2. \A j \in 1 .. N : said[j] = ChunkWrites(kids[j], Append(role, j))
    BY <1>4
  <2>3. \A j \in 1 .. N : says[j] = says[j - 1] \o said[j]
    BY <1>1, <1>2, <2>1, <2>2
  <2> QED
    BY <1>1, <1>2, <2>1, <2>3
<1>7. says[0] \in Seq(Write) /\ ToSet(says[0]) = {}
  BY <1>6, NoWrites, OneWrite
<1>8. N # 0 => says[1] \in Seq(Write) /\ ToSet(says[1]) = ToSet(said[1])
  <2> SUFFICES ASSUME N # 0 PROVE says[1] \in Seq(Write) /\ ToSet(says[1]) = ToSet(said[1])
    OBVIOUS
  <2>1. 1 \in 1 .. N /\ 1 - 1 = 0
    BY <1>3
  <2>2. says[1] = says[0] \o said[1] /\ said[1] \in Seq(Write)
    BY <1>5, <1>6, <2>1
  <2>3. says[1] \in Seq(Write)
    BY <1>7, <2>2, ConcatProperties
  <2>4. ToSet(says[1]) = ToSet(says[0]) \cup ToSet(said[1])
    BY <1>7, <2>2, JoinedSet
  <2> QED
    BY <1>7, <2>3, <2>4
<1>9. N = 2 => ToSet(says[2]) = ToSet(said[1]) \cup ToSet(said[2])
  <2> SUFFICES ASSUME N = 2 PROVE ToSet(says[2]) = ToSet(said[1]) \cup ToSet(said[2])
    OBVIOUS
  <2>1. 2 \in 1 .. N /\ 2 - 1 = 1
    OBVIOUS
  <2>2. says[2] = says[1] \o said[2] /\ said[2] \in Seq(Write)
    BY <1>5, <1>6, <2>1
  <2>3. says[1] \in Seq(Write) /\ ToSet(says[1]) = ToSet(said[1])
    BY <1>8
  <2> QED
    BY <2>2, <2>3, JoinedSet
<1>10. \A w : w \in ToSet(says[N]) <=> \E j \in 1 .. N : w \in ToSet(said[j])
  <2>1. CASE N = 0
    BY <1>7, <2>1
  <2>2. CASE N = 1
    <3>1. 1 .. N = {1}
      BY <2>2
    <3> QED
      BY <1>8, <2>2, <3>1
  <2>3. CASE N = 2
    <3>1. 1 .. N = {1, 2}
      BY <2>3
    <3> QED
      BY <1>9, <2>3, <3>1
  <2> QED
    BY <1>3, <2>1, <2>2, <2>3
<1> QED
  BY <1>1, <1>2, <1>4, <1>6, <1>10

(* A repetition's sizes and data speak for all it has read.                *)
LEMMA ChunksSay ==
  ASSUME NEW n, IsChunks(n), NEW role \in Seq(Nat)
  PROVE  /\ \A w \in ToSet(ChunksWrites(n, role)) :
              /\ Bytes(w) \subseteq Bytes(n)
              /\ \/ IsRegion(w)
                 \/ IsRecord(w) /\ \E j \in 1 .. Len(n.kids), i \in 1 .. 2 :
                      /\ w.role = Append(Append(role, j), i)
                      /\ Bytes(w) = Bytes(n.kids[j].kids[i])
         /\ \A b \in Bytes(n) : \E w \in ToSet(ChunksWrites(n, role)) : b \in Bytes(w)
<1>1. ASSUME NEW j \in 1 .. Len(n.kids)
      PROVE  /\ \A w \in ToSet(ChunkWrites(n.kids[j], Append(role, j))) :
                  /\ Bytes(w) \subseteq Bytes(n.kids[j])
                  /\ \/ IsRegion(w)
                     \/ IsRecord(w) /\ \E i \in 1 .. 2 :
                          w.role = Append(Append(role, j), i) /\ Bytes(w) = Bytes(n.kids[j].kids[i])
             /\ \A b \in Bytes(n.kids[j]) :
                  \E w \in ToSet(ChunkWrites(n.kids[j], Append(role, j))) : b \in Bytes(w)
  <2>1. IsChunk(n.kids[j])
    BY ChunkOf DEF IsChunk
  <2>2. PICK below \in Seq(Nat) : below = Append(role, j)
    <3>1. j \in Nat
      BY ChunkOf
    <3>2. Append(role, j) \in Seq(Nat)
      BY <3>1
    <3> QED
      BY <3>2
  <2>3. PICK chunk : chunk = n.kids[j]
    OBVIOUS
  <2>4. IsChunk(chunk)
    BY <2>1, <2>3
  <2>5. /\ \A w \in ToSet(ChunkWrites(chunk, below)) :
             /\ Bytes(w) \subseteq Bytes(chunk)
             /\ \/ IsRegion(w)
                \/ IsRecord(w) /\ \E i \in 1 .. 2 :
                     w.role = Append(below, i) /\ Bytes(w) = Bytes(chunk.kids[i])
        /\ \A b \in Bytes(chunk) : \E w \in ToSet(ChunkWrites(chunk, below)) : b \in Bytes(w)
    BY <2>4, ChunkSays
  <2> QED
    BY <2>2, <2>3, <2>5
<1>2. ASSUME NEW w \in ToSet(ChunksWrites(n, role))
      PROVE  /\ Bytes(w) \subseteq Bytes(n)
             /\ \/ IsRegion(w)
                \/ IsRecord(w) /\ \E j \in 1 .. Len(n.kids), i \in 1 .. 2 :
                     /\ w.role = Append(Append(role, j), i)
                     /\ Bytes(w) = Bytes(n.kids[j].kids[i])
  <2>1. PICK j \in 1 .. Len(n.kids) : w \in ToSet(ChunkWrites(n.kids[j], Append(role, j)))
    BY ChunksSet
  <2>2. Bytes(n.kids[j]) \subseteq Bytes(n)
    BY ChunksTile
  <2> QED
    BY <1>1, <2>1, <2>2
<1>3. ASSUME NEW b \in Bytes(n) PROVE \E w \in ToSet(ChunksWrites(n, role)) : b \in Bytes(w)
  <2>1. PICK j \in 1 .. Len(n.kids) : b \in Bytes(n.kids[j])
    BY ChunksTile
  <2>2. PICK w \in ToSet(ChunkWrites(n.kids[j], Append(role, j))) : b \in Bytes(w)
    BY <1>1, <2>1
  <2> QED
    BY <2>2, ChunksSet
<1> QED
  BY <1>2, <1>3

(* The data in a repetition's chunks are of the bytes it has read.         *)
LEMMA DataInside ==
  ASSUME NEW n, IsChunks(n), NEW j \in DOMAIN n.kids
  PROVE  Bytes(n.kids[j].kids[2]) \subseteq Bytes(n)
<1>1. j \in 1 .. Len(n.kids)
  BY ChunkOf
<1>2. PICK from \in Nat, width \in 0 .. 1, none \in BOOLEAN : n.kids[j] = Chunk(from, width, none)
  BY <1>1, ChunkOf
<1>3. PICK chunk : chunk = n.kids[j]
  OBVIOUS
<1>4. PICK data : data = chunk.kids[2]
  OBVIOUS
<1>5. chunk.from = from /\ chunk.to = from + 1 + width
  BY <1>2, <1>3 DEF Chunk, Node
<1>6. data.from = from + 1 /\ data.to = from + 1 + width
  BY <1>2, <1>3, <1>4 DEF Chunk, Node, Leaf
<1>7. Bytes(data) \subseteq Bytes(chunk)
  BY <1>5, <1>6 DEF Bytes
<1>8. Bytes(chunk) \subseteq Bytes(n)
  BY <1>1, <1>3, ChunksTile
<1> QED
  BY <1>3, <1>4, <1>7, <1>8

LEMMA FieldInside ==
  ASSUME NEW f, FrameOK(f), Accounts(f), NEW i \in DOMAIN f.nodes
  PROVE  Bytes(f.nodes[i]) \subseteq f.from .. f.at - 1
<1>1. Begun(f, f.nodes[i]) /\ Within(f.nodes[i], f.at) /\ f.from \in Nat /\ f.at \in Nat
  BY DEF Accounts, FrameOK, NodesOK
<1> QED
  BY <1>1 DEF Begun, Within, Bytes

(* What is written of a transform speaks for what it takes over.           *)
SpeaksFor(g, f, node, ws) ==
  /\ \A w \in ws : IsRecord(w) /\ Fits(g, w) /\ w.role # f.path \o <<node.source>>
  /\ ~(node.none \/ node.failed) =>
       \E w \in ws :
         /\ ~Joins(g, w)
         /\ Bytes(f.nodes[node.source]) \subseteq Bytes(w)
         /\ \A a \in node.args \cap DOMAIN f.nodes :
              f.nodes[a].none => Bytes(f.nodes[a]) \subseteq Bytes(w)

(* A transform takes its source's record back, and the data's if a concat  *)
(* joined them, where it names them or cites them itself.                  *)
LEMMA TransformAccounts ==
  ASSUME NEW f, FrameOK(f), Accounts(f), NEW node, node.kind = "transform",
         node.source \in DOMAIN f.nodes, f.from <= node.from,
         NEW released \in Seq(Write), Distinct(f.writes \o released), NEW whole \in Seq(Write),
         NEW g, g = Took(f, node, f.at, TakenOver(f, node, f.writes \o released) \o whole),
         SpeaksFor(g, f, node, ToSet(released) \cup ToSet(whole))
  PROVE  Accounts(g)
<1>0. /\ \A w \in ToSet(released) \cup ToSet(whole) :
           IsRecord(w) /\ Fits(g, w) /\ w.role # f.path \o <<node.source>>
      /\ ~(node.none \/ node.failed) =>
           \E w \in ToSet(released) \cup ToSet(whole) :
             /\ ~Joins(g, w)
             /\ Bytes(f.nodes[node.source]) \subseteq Bytes(w)
             /\ \A a \in node.args \cap DOMAIN f.nodes :
                  f.nodes[a].none => Bytes(f.nodes[a]) \subseteq Bytes(w)
  BY DEF SpeaksFor
<1>1. PICK nodes : nodes = f.nodes
  OBVIOUS
<1>2. PICK i : i = node.source
  OBVIOUS
<1>3. Len(nodes) \in Nat /\ DOMAIN nodes = 1 .. Len(nodes) /\ i \in 1 .. Len(nodes)
  BY <1>1, <1>2, SeqDomain DEF FrameOK
<1>4. PICK source : source = nodes[i]
  OBVIOUS
<1>5. Within(source, f.at) /\ Reads(source, nodes) /\ NodesOK(f) /\ f.at \in Nat /\ f.writes \in Seq(Write)
  BY <1>1, <1>3, <1>4 DEF FrameOK, NodesOK
<1>6. PICK before : before = f.writes \o released
  OBVIOUS
<1>7. before \in Seq(Write) /\ ToSet(before) = ToSet(f.writes) \cup ToSet(released) /\ Distinct(before)
  BY <1>5, <1>6, JoinedSet, ConcatProperties
<1>8. PICK after : after = TakenOver(f, node, before)
  OBVIOUS
<1>9. after \in Seq(Write)
  BY <1>7, <1>8, TakenOverThins
<1>10. PICK ws : ws = after \o whole
  OBVIOUS
<1>11. ToSet(ws) = ToSet(after) \cup ToSet(whole)
  BY <1>9, <1>10, JoinedSet
<1>12. g = Took(f, node, f.at, ws)
  BY <1>6, <1>8, <1>10
<1>13. Grown(f, g, node) /\ g.at = f.at /\ g.from = f.from
  BY <1>5, <1>12, TookGrown
<1>14. Reads(node, f.nodes) /\ Begun(f, node)
  BY DEF Reads, Begun
<1>15. \A w \in ToSet(f.writes) : Fits(f, w) /\ Fits(g, w) /\ (Joins(g, w) => Joins(f, w))
  BY <1>13, <1>14, FitsOn DEF Accounts
<1>16. PICK own : own = Retract(before, Append(f.path, i))
  OBVIOUS
<1>17. Append(f.path, i) = f.path \o <<i>>
  BY <1>3 DEF FrameOK
<1>18. /\ Thins(own, before) /\ ToSet(own) \subseteq ToSet(before)
       /\ \A w \in ToSet(before) : w \in ToSet(own) \/ (IsRecord(w) /\ w.role = f.path \o <<i>>)
  <2>1. PICK role : role = Append(f.path, i)
    OBVIOUS
  <2>2. own = Retract(before, role)
    BY <1>16, <2>1
  <2>3. /\ Thins(own, before) /\ ToSet(own) \subseteq ToSet(before)
        /\ \A w \in ToSet(before) : w \in ToSet(own) \/ (IsRecord(w) /\ w.role = role)
    BY <1>7, <2>2, RetractThins
  <2> QED
    BY <1>17, <2>1, <2>3
<1>19. own \in Seq(Write)
  BY <1>18 DEF Thins
<1>20. \A w \in ToSet(own) : Fits(g, w)
  BY <1>0, <1>7, <1>15, <1>18
<1>21. PICK reason \in Reasons : reason = IF node.none THEN "skipped" ELSE "undecodable"
  BY DEF Reasons
<1>22. SUFFICES /\ \A w \in ToSet(after) : Fits(g, w)
                /\ \A b \in f.from .. f.at - 1 :
                     \E w \in ToSet(after) \cup ToSet(whole) : b \in Bytes(w) /\ ~Joins(g, w)
  <2>1. \A w \in ToSet(ws) : Fits(g, w)
    BY <1>0, <1>11
  <2>2. \A b \in f.from .. f.at - 1 : \E w \in ToSet(ws) : b \in Bytes(w) /\ ~Joins(g, w)
    BY <1>11
  <2>3. PICK at \in Nat : at = f.at /\ f.at <= at
    BY <1>5
  <2>4. \A b \in f.from .. at - 1 : \E w \in ToSet(ws) : b \in Bytes(w) /\ ~Joins(g, w)
    BY <2>2, <2>3
  <2>5. g = Took(f, node, at, ws)
    BY <1>12, <2>3
  <2> QED
    BY <1>14, <2>1, <2>3, <2>4, <2>5, TookAccounts
<1>23. ASSUME NEW b \in f.from .. f.at - 1
       PROVE  \E w \in ToSet(before) : /\ w \in ToSet(f.writes) /\ b \in Bytes(w) /\ Fits(f, w)
                                       /\ ~Joins(f, w) /\ ~Joins(g, w)
  <2>1. PICK w \in ToSet(f.writes) : b \in Bytes(w) /\ ~Joins(f, w)
    BY DEF Accounts, Speaks
  <2> QED
    BY <1>7, <1>15, <2>1
<1>24. \A w : Fits(f, w) /\ IsRecord(w) /\ w.role = f.path \o <<i>> => Bytes(w) \subseteq Bytes(source)
  BY <1>1, <1>3, <1>4 DEF Fits
<1>25. CASE ~(node.none \/ node.failed)
  <2>1. after = Withdrawn(own, nodes, {a \in node.args : nodes[a].none})
    BY <1>1, <1>2, <1>8, <1>16, <1>25 DEF TakenOver
  <2>2. PICK spoken : spoken = {a \in node.args : nodes[a].none}
    OBVIOUS
  <2>3. /\ ToSet(after) \subseteq ToSet(own)
        /\ \A w \in ToSet(own) :
             \/ w \in ToSet(after)
             \/ \E a \in spoken \cap (1 .. Len(nodes)) :
                  w = RegionOf(nodes[a].from, nodes[a].to, "skipped")
    BY <1>3, <1>19, <2>1, <2>2, WithdrawnThins
  <2>4. PICK h \in ToSet(released) \cup ToSet(whole) :
          /\ ~Joins(g, h)
          /\ Bytes(source) \subseteq Bytes(h)
          /\ \A a \in node.args \cap DOMAIN nodes : nodes[a].none => Bytes(nodes[a]) \subseteq Bytes(h)
    BY <1>0, <1>1, <1>2, <1>4, <1>25
  <2>5. h \in ToSet(after) \cup ToSet(whole)
    <3> SUFFICES ASSUME h \in ToSet(released) PROVE h \in ToSet(after)
      OBVIOUS
    <3>1. IsRecord(h) /\ h.role # f.path \o <<i>>
      BY <1>0, <1>2
    <3>2. h \in ToSet(own)
      BY <1>7, <1>18, <3>1
    <3>3. \A a : h # RegionOf(nodes[a].from, nodes[a].to, "skipped")
      BY <3>1 DEF IsRecord, RegionOf
    <3> QED
      BY <2>3, <3>2, <3>3
  <2>6. ASSUME NEW b \in f.from .. f.at - 1
        PROVE  \E w \in ToSet(after) \cup ToSet(whole) : b \in Bytes(w) /\ ~Joins(g, w)
    <3>1. PICK w \in ToSet(before) : b \in Bytes(w) /\ Fits(f, w) /\ ~Joins(g, w)
      BY <1>23
    <3>2. CASE w \notin ToSet(own)
      <4>1. Bytes(w) \subseteq Bytes(source)
        BY <1>18, <1>24, <3>1, <3>2
      <4> QED
        BY <2>4, <2>5, <3>1, <4>1
    <3>3. CASE w \in ToSet(own) /\ w \notin ToSet(after)
      <4>1. PICK a \in spoken \cap (1 .. Len(nodes)) :
              w = RegionOf(nodes[a].from, nodes[a].to, "skipped")
        BY <2>3, <3>3
      <4>2. Bytes(w) = Bytes(nodes[a])
        BY <4>1 DEF RegionOf, Bytes
      <4>3. Bytes(nodes[a]) \subseteq Bytes(h)
        BY <1>3, <2>2, <2>4, <4>1
      <4> QED
        BY <2>4, <2>5, <3>1, <4>2, <4>3
    <3> QED
      BY <3>1, <3>2, <3>3
  <2> QED
    BY <1>20, <2>3, <2>6
<1>26. CASE (node.none \/ node.failed) /\ source.kind # "concat"
  <2>1. PICK named : named = Naming(source, reason)
    OBVIOUS
  <2>2. after = own \o named
    BY <1>1, <1>2, <1>4, <1>8, <1>16, <1>21, <1>26, <2>1 DEF TakenOver
  <2>3. source.from \in Int /\ source.to \in Int
    BY <1>5 DEF Within
  <2>4. named \in Seq(Write)
    BY <2>1, <2>3, NamingWrite
  <2>5. ToSet(after) = ToSet(own) \cup ToSet(named)
    BY <1>19, <2>2, <2>4, JoinedSet
  <2>6. /\ \A w \in ToSet(named) : IsRegion(w) /\ Bytes(w) = Bytes(source)
        /\ \A b \in Bytes(source) : \E w \in ToSet(named) : b \in Bytes(w)
    BY <2>1, <2>3, NamingSays
  <2>7. Bytes(source) \subseteq g.from .. g.at - 1
    BY <1>1, <1>3, <1>4, <1>13, FieldInside
  <2>8. \A w \in ToSet(named) : Fits(g, w) /\ ~Joins(g, w)
    BY <2>6, <2>7, RegionFits
  <2>9. ASSUME NEW b \in f.from .. f.at - 1
        PROVE  \E w \in ToSet(after) \cup ToSet(whole) : b \in Bytes(w) /\ ~Joins(g, w)
    <3>1. PICK w \in ToSet(before) : b \in Bytes(w) /\ Fits(f, w) /\ ~Joins(g, w)
      BY <1>23
    <3>2. CASE w \in ToSet(own)
      BY <2>5, <3>1, <3>2
    <3>3. CASE w \notin ToSet(own)
      <4>1. b \in Bytes(source)
        BY <1>18, <1>24, <3>1, <3>3
      <4>2. PICK v \in ToSet(named) : b \in Bytes(v)
        BY <2>6, <4>1
      <4> QED
        BY <2>5, <2>8, <4>2
    <3> QED
      BY <3>2, <3>3
  <2> QED
    BY <1>20, <2>5, <2>8, <2>9
<1>27. CASE (node.none \/ node.failed) /\ source.kind = "concat"
  <2>0. PICK path : path = f.path
    OBVIOUS
  <2>1. PICK members : members = Members(nodes, source, path)
    OBVIOUS
  <2>2. after = MembersNamed(own, members, reason)
    BY <1>1, <1>2, <1>4, <1>8, <1>16, <1>21, <1>27, <2>0, <2>1 DEF TakenOver
  <2>3. source.source \in DOMAIN nodes /\ nodes[source.source].kind = "chunks"
    BY <1>5, <1>27 DEF Reads
  <2>4. PICK s \in 1 .. Len(nodes) : s = source.source
    BY <1>3, <2>3
  <2>5. PICK chunks : chunks = nodes[s]
    OBVIOUS
  <2>6. IsChunks(chunks) /\ chunks.kind = "chunks"
    <3>1. Reads(chunks, nodes)
      BY <1>1, <1>3, <1>5, <2>5 DEF NodesOK
    <3> QED
      BY <2>3, <2>4, <2>5, <3>1 DEF Reads
  <2>7. /\ Len(members) \in Nat /\ Len(members) = Len(chunks.kids)
        /\ \A j \in 1 .. Len(members) :
             /\ members[j].node = chunks.kids[j].kids[2]
             /\ members[j].role = f.path \o <<s, j, 2>>
             /\ members[j].node.from \in Int /\ members[j].node.to \in Int
    <3>1. IsChunks(nodes[source.source])
      BY <2>4, <2>5, <2>6
    <3>2. MembersAre(members, nodes, source, path)
      BY <2>1, <3>1, MembersOf
    <3> QED
      BY <2>0, <2>4, <2>5, <3>2 DEF MembersAre
  <2>8. /\ \A j \in 1 .. Len(members) :
             ToSet(Naming(members[j].node, reason)) \subseteq ToSet(after)
        /\ \A w \in ToSet(after) :
             \/ w \in ToSet(own)
             \/ \E j \in 1 .. Len(members) : w \in ToSet(Naming(members[j].node, reason))
        /\ \A w \in ToSet(own) :
             \/ w \in ToSet(after)
             \/ IsRecord(w) /\ \E j \in 1 .. Len(members) : w.role = members[j].role
    <3>1. /\ Len(members) \in Nat
          /\ \A j \in 1 .. Len(members) :
               members[j].node.from \in Int /\ members[j].node.to \in Int
      BY <2>7
    <3> QED
      BY <1>19, <2>2, <3>1, MembersThins
  <2>9. DOMAIN chunks.kids = 1 .. Len(members)
    BY <2>6, <2>7, ChunkOf
  <2>10. ASSUME NEW j \in 1 .. Len(members), NEW w \in ToSet(Naming(members[j].node, reason))
         PROVE  Fits(g, w) /\ ~Joins(g, w)
    <3>1. IsRegion(w) /\ Bytes(w) = Bytes(members[j].node)
      BY NamingSays
    <3>2. Bytes(members[j].node) \subseteq Bytes(chunks)
      BY <2>6, <2>7, <2>9, DataInside
    <3>3. Bytes(chunks) \subseteq g.from .. g.at - 1
      BY <1>1, <1>3, <1>13, <2>5, FieldInside
    <3> QED
      BY <3>1, <3>2, <3>3, RegionFits
  <2>11. ASSUME NEW b \in f.from .. f.at - 1
         PROVE  \E w \in ToSet(after) \cup ToSet(whole) : b \in Bytes(w) /\ ~Joins(g, w)
    <3>1. PICK w \in ToSet(before) : b \in Bytes(w) /\ Fits(f, w) /\ ~Joins(f, w) /\ ~Joins(g, w)
      BY <1>23
    <3>2. w \in ToSet(own)
      <4> SUFFICES ASSUME w \notin ToSet(own) PROVE FALSE
        OBVIOUS
      <4>1. IsRecord(w) /\ w.role = f.path \o <<i>>
        BY <1>18
      <4> QED
        BY <1>1, <1>3, <1>4, <1>27, <3>1, <4>1 DEF Joins
    <3>3. CASE w \in ToSet(after)
      BY <3>1, <3>3
    <3>4. CASE w \notin ToSet(after)
      <4>1. PICK j \in 1 .. Len(members) : w.role = f.path \o <<s, j, 2>>
        BY <2>7, <2>8, <3>2, <3>4
      <4>2. IsRecord(w)
        BY <2>8, <3>2, <3>4
      <4>3. Bytes(w) \subseteq Bytes(members[j].node)
        <5>1. s \in DOMAIN f.nodes /\ f.nodes[s].kind = "chunks" /\ j \in DOMAIN f.nodes[s].kids
          BY <1>1, <1>3, <2>5, <2>6, <2>9
        <5>2. Bytes(w) \subseteq Bytes(f.nodes[s].kids[j].kids[2])
          BY <3>1, <4>1, <4>2, <5>1 DEF Fits
        <5> QED
          BY <1>1, <2>5, <2>7, <5>2
      <4>4. PICK v \in ToSet(Naming(members[j].node, reason)) : b \in Bytes(v)
        <5>1. b \in Bytes(members[j].node)
          BY <3>1, <4>3
        <5> QED
          BY <2>7, <5>1, NamingSays
      <4> QED
        BY <2>8, <2>10, <4>4
    <3> QED
      BY <3>3, <3>4
  <2> QED
    BY <1>20, <2>8, <2>10, <2>11
<1> QED
  BY <1>25, <1>26, <1>27

(* The hull of nodes reaches from one of them to another.                  *)
LEMMA HullEnds ==
  ASSUME NEW at \in Nat, NEW nodes, \A n \in nodes : Within(n, at)
  PROVE  \/ Hull(nodes, at)[1] = at /\ Hull(nodes, at)[2] = at
         \/ \E n, m \in nodes : /\ n.from < n.to /\ m.from < m.to
                                /\ Hull(nodes, at)[1] = n.from /\ Hull(nodes, at)[2] = m.to
<1>1. PICK spans : spans = {n \in nodes : Width(n) > 0}
  OBVIOUS
<1>2. \A n \in spans : n \in nodes /\ Within(n, at) /\ n.from < n.to
  BY <1>1 DEF Width, Within
<1>3. CASE spans = {}
  <2>1. Hull(nodes, at) = <<at, at>>
    BY <1>1, <1>3 DEF Hull
  <2> QED
    BY <2>1
<1>4. CASE spans # {}
  <2>1. PICK froms : froms = {n.from : n \in spans}
    OBVIOUS
  <2>2. PICK tos : tos = {n.to : n \in spans}
    OBVIOUS
  <2>3. Hull(nodes, at) = <<Min(froms), Max(tos)>>
    BY <1>1, <1>4, <2>1, <2>2 DEF Hull
  <2>4. froms \in SUBSET Nat /\ froms # {} /\ tos \in SUBSET (1 .. at) /\ tos # {}
    BY <1>2, <1>4, <2>1, <2>2 DEF Within
  <2>5. Min(froms) \in froms
    <3>1. \E x \in froms : \A y \in froms : x <= y
      BY <2>4, LeastNat
    <3> QED
      BY <3>1 DEF Min
  <2>6. Max(tos) \in tos
    BY <2>4, MaxOfSome
  <2>7. PICK n \in spans : Min(froms) = n.from
    BY <2>1, <2>5
  <2>8. PICK m \in spans : Max(tos) = m.to
    BY <2>2, <2>6
  <2>9. Hull(nodes, at)[1] = n.from /\ Hull(nodes, at)[2] = m.to
    BY <2>3, <2>7, <2>8
  <2> QED
    BY <1>2, <2>7, <2>8, <2>9
<1> QED
  BY <1>3, <1>4

(* The hull of nodes begins where they may begin, and the hull of some of  *)
(* them is inside it.                                                      *)
LEMMA HullBegins ==
  ASSUME NEW at \in Nat, NEW nodes, \A n \in nodes : Within(n, at),
         NEW from \in Nat, from <= at, \A n \in nodes : from <= n.from
  PROVE  from <= Hull(nodes, at)[1]
<1>1. CASE Hull(nodes, at)[1] = at /\ Hull(nodes, at)[2] = at
  BY <1>1
<1>2. CASE \E n, m \in nodes : /\ n.from < n.to /\ m.from < m.to
                               /\ Hull(nodes, at)[1] = n.from /\ Hull(nodes, at)[2] = m.to
  BY <1>2
<1> QED
  BY <1>1, <1>2, HullEnds

LEMMA HullGrows ==
  ASSUME NEW at \in Nat, NEW nodes, \A n \in nodes : Within(n, at), NEW some, some \subseteq nodes,
         NEW hull, hull = Hull(nodes, at), NEW inner, inner = Hull(some, at)
  PROVE  inner[1] .. inner[2] - 1 \subseteq hull[1] .. hull[2] - 1
<1>1. /\ hull[1] \in Nat /\ hull[2] \in Nat
      /\ \A n \in nodes : n.to > n.from => hull[1] <= n.from /\ n.to <= hull[2]
  BY HullSpans
<1>2. \A n \in some : Within(n, at)
  OBVIOUS
<1>3. CASE inner[1] = at /\ inner[2] = at
  BY <1>3
<1>4. CASE \E n, m \in some : /\ n.from < n.to /\ m.from < m.to
                              /\ inner[1] = n.from /\ inner[2] = m.to
  <2>1. PICK n \in some, m \in some :
          n.from < n.to /\ m.from < m.to /\ inner[1] = n.from /\ inner[2] = m.to
    BY <1>4
  <2>2. n.from \in Nat /\ m.to \in Nat /\ hull[1] <= n.from /\ m.to <= hull[2]
    BY <1>1, <1>2, <2>1 DEF Within
  <2> QED
    BY <1>1, <2>1, <2>2
<1> QED
  BY <1>2, <1>3, <1>4, HullEnds

(***************************************************************************)
(* The stack: every unit accounts for what it has read, and a transform's  *)
(* output stands for bytes of the unit around it.                          *)
(***************************************************************************)
Headed(f, g) == g.kind = "output" => f.from <= g.head.from

Spoken(s) ==
  /\ \A k \in 1 .. Len(s) : Accounts(s[k])
  /\ \A k \in 1 .. Len(s) : k # 1 => Headed(s[k - 1], s[k])

LEMMA TopSpoken ==
  ASSUME NEW s, Stacked(s), Spoken(s), s # <<>>
  PROVE  /\ Accounts(Last(s))
         /\ Len(s) # 1 => Accounts(s[Len(s) - 1]) /\ Headed(s[Len(s) - 1], Last(s))
<1>1. PICK n : n = Len(s)
  OBVIOUS
<1>2. n \in Nat \ {0} /\ Last(s) = s[n]
  BY <1>1, TopOf
<1>3. n \in 1 .. Len(s) /\ (n # 1 => n - 1 \in 1 .. Len(s))
  BY <1>1, <1>2
<1> QED
  BY <1>1, <1>2, <1>3 DEF Spoken

LEMMA PushSpoken ==
  ASSUME NEW s, Stacked(s), Spoken(s), s # <<>>, NEW g, Accounts(g), Headed(Last(s), g)
  PROVE  Spoken(Append(s, g))
<1>1. PICK more : more = Append(s, g)
  OBVIOUS
<1>2. /\ IsSeq(more) /\ Len(more) = Len(s) + 1 /\ more[Len(s) + 1] = g
      /\ \A k \in 1 .. Len(s) : more[k] = s[k]
  BY <1>1, AppendSeq DEF Stacked
<1>3. Len(s) \in Nat \ {0} /\ Last(s) = s[Len(s)]
  BY TopOf
<1>4. ASSUME NEW k \in 1 .. Len(more) PROVE Accounts(more[k]) /\ (k # 1 => Headed(more[k - 1], more[k]))
  <2>1. CASE k = Len(s) + 1
    <3>1. k - 1 = Len(s) /\ more[k - 1] = s[Len(s)] /\ more[k] = g
      BY <1>2, <1>3, <2>1
    <3> QED
      BY <1>3, <3>1
  <2>2. CASE k # Len(s) + 1
    <3>1. k \in 1 .. Len(s) /\ (k # 1 => k - 1 \in 1 .. Len(s))
      BY <1>2, <1>3, <2>2
    <3>2. more[k] = s[k] /\ (k # 1 => more[k - 1] = s[k - 1])
      BY <1>2, <3>1
    <3> QED
      BY <3>1, <3>2 DEF Spoken
  <2> QED
    BY <2>1, <2>2
<1> QED
  BY <1>1, <1>4 DEF Spoken

LEMMA PopSpoken ==
  ASSUME NEW s, Stacked(s), Spoken(s), s # <<>>
  PROVE  Spoken(Front(s))
<1>1. PICK rest : rest = Front(s)
  OBVIOUS
<1>2. /\ Len(s) \in Nat \ {0} /\ Len(rest) = Len(s) - 1
      /\ \A k \in 1 .. Len(s) - 1 : rest[k] = s[k]
  BY <1>1, FrontSeq DEF Stacked
<1>3. ASSUME NEW k \in 1 .. Len(rest) PROVE Accounts(rest[k]) /\ (k # 1 => Headed(rest[k - 1], rest[k]))
  <2>1. k \in 1 .. Len(s) /\ rest[k] = s[k] /\ (k # 1 => rest[k - 1] = s[k - 1])
    BY <1>2
  <2> QED
    BY <2>1 DEF Spoken
<1> QED
  BY <1>1, <1>3 DEF Spoken

LEMMA ReplaceSpoken ==
  ASSUME NEW s, Stacked(s), Spoken(s), s # <<>>, NEW g, Accounts(g),
         g.kind = Last(s).kind, g.head = Last(s).head
  PROVE  Spoken(Append(Front(s), g))
<1>1. PICK more : more = Append(Front(s), g)
  OBVIOUS
<1>2. /\ IsSeq(Front(s)) /\ Len(s) \in Nat \ {0} /\ Len(Front(s)) = Len(s) - 1
      /\ \A k \in 1 .. Len(s) - 1 : Front(s)[k] = s[k]
  BY FrontSeq DEF Stacked
<1>3. /\ Len(more) = Len(s) /\ more[Len(s)] = g
      /\ \A k \in 1 .. Len(s) - 1 : more[k] = s[k]
  BY <1>1, <1>2, AppendSeq
<1>4. Last(s) = s[Len(s)]
  BY TopOf
<1>5. ASSUME NEW k \in 1 .. Len(more) PROVE Accounts(more[k]) /\ (k # 1 => Headed(more[k - 1], more[k]))
  <2>1. CASE k = Len(s)
    <3>1. CASE k # 1
      <4>1. Headed(s[k - 1], s[k]) /\ k - 1 \in 1 .. Len(s) - 1
        BY <1>2, <2>1, <3>1 DEF Spoken
      <4>2. Headed(s[k - 1], g)
        BY <1>4, <2>1, <4>1 DEF Headed
      <4> QED
        BY <1>3, <2>1, <4>1, <4>2
    <3> QED
      BY <1>3, <2>1, <3>1
  <2>2. CASE k # Len(s)
    <3>1. k \in 1 .. Len(s) /\ more[k] = s[k] /\ (k # 1 => more[k - 1] = s[k - 1])
      BY <1>2, <1>3, <2>2
    <3> QED
      BY <3>1 DEF Spoken
  <2> QED
    BY <2>1, <2>2
<1> QED
  BY <1>1, <1>5 DEF Spoken

(* A unit entered has nothing to account for.                              *)
LEMMA BeginsSpoken ==
  ASSUME NEW kind, NEW from \in Nat, NEW extent, NEW path, NEW head
  PROVE  Accounts(Frame(kind, from, extent, path, head))
<1>1. PICK f : f = Frame(kind, from, extent, path, head)
  OBVIOUS
<1>2. f.from = from /\ f.at = from /\ f.nodes = <<>> /\ f.writes = <<>>
  BY <1>1 DEF Frame
<1>3. DOMAIN f.nodes = {} /\ ToSet(f.writes) = {} /\ f.from .. f.at - 1 = {}
  <2>1. DOMAIN f.nodes = {}
    BY <1>2, EmptyIsSeq
  <2>2. ToSet(f.writes) = {}
    BY <1>2, OneWrite
  <2>3. f.from .. f.at - 1 = {}
    BY <1>2
  <2> QED
    BY <2>1, <2>2, <2>3
<1> QED
  BY <1>1, <1>3 DEF Accounts, Speaks

LEMMA IntoSpoken ==
  ASSUME Stacked(stack), Spoken(stack), stack # <<>>, NEW g, Accounts(g),
         g.kind = Top.kind, g.head = Top.head, Into(g)
  PROVE  Spoken(stack')
<1>1. Spoken(Append(Front(stack), g))
  BY ReplaceSpoken DEF Top
<1> QED
  BY <1>1 DEF Into

LEMMA InnerSpoken ==
  ASSUME Stacked(stack), Spoken(stack), stack # <<>>, Top.kind # "message"
  PROVE  Accounts(Top) /\ Accounts(Parent) /\ Headed(Parent, Top)
<1>1. Len(stack) # 1 /\ Last(stack) = Top
  BY TopOf DEF Top
<1> QED
  BY <1>1, TopSpoken DEF Parent

LEMMA BackIntoSpoken ==
  ASSUME Stacked(stack), Spoken(stack), stack # <<>>, Top.kind # "message",
         NEW g, Accounts(g), g.kind = Parent.kind, g.head = Parent.head, BackInto(g)
  PROVE  Spoken(stack')
<1>1. Len(stack) # 1
  BY TopOf DEF Top
<1>2. /\ Stacked(Front(stack)) /\ Front(stack) # <<>> /\ Last(Front(stack)) = Parent
      /\ Spoken(Front(stack))
  BY <1>1, PopOK, PopSpoken DEF Parent
<1>3. Spoken(Append(Front(Front(stack)), g))
  BY <1>2, ReplaceSpoken
<1> QED
  BY <1>3 DEF BackInto

LEMMA TookKeeps ==
  ASSUME NEW f, FrameOK(f), NEW node, NEW at, NEW ws, NEW g, g = Took(f, node, at, ws)
  PROVE  g.kind = f.kind /\ g.head = f.head
BY DEF FrameOK, IsFrame, Took

LEMMA OneFieldSpoken ==
  ASSUME Stacked(stack), Spoken(stack), stack # <<>>, NEW node, Accountable(node),
         Reads(node, Top.nodes), node.kind \in {"leaf", "concat"},
         NEW at \in Nat, Top.at <= at, Within(node, at), Top.from <= node.from,
         node.kind = "leaf" => node.from = Top.at /\ node.to = at,
         node.kind = "concat" => at = Top.at,
         Into(Took(Top, node, at, Top.writes \o Accounted(node, NextPath(Top))))
  PROVE  Spoken(stack')
<1>1. PICK f : f = Top
  OBVIOUS
<1>2. FrameOK(f) /\ Accounts(f)
  BY <1>1, TopOf, TopSpoken DEF Top
<1>3. PICK ws : ws = f.writes \o Accounted(node, NextPath(f))
  OBVIOUS
<1>4. PICK g : g = Took(f, node, at, ws)
  OBVIOUS
<1>5. Accounts(g)
  BY <1>1, <1>2, <1>3, <1>4, OneFieldAccounts
<1>6. g.kind = f.kind /\ g.head = f.head
  BY <1>2, <1>4, TookKeeps
<1>7. Into(g)
  BY <1>1, <1>3, <1>4
<1> QED
  BY <1>1, <1>5, <1>6, <1>7, IntoSpoken

LEMMA ReadLeafSpoken ==
  ASSUME Stacked(stack), Spoken(stack), stack # <<>>, ReadLeaf
  PROVE  Spoken(stack')
<1>1. PICK width \in Widths, none \in BOOLEAN :
        /\ Leaf(Top.at, width, none).to <= Top.extent
        /\ Into(Took(Top, Leaf(Top.at, width, none), Leaf(Top.at, width, none).to,
                     Top.writes \o Accounted(Leaf(Top.at, width, none), NextPath(Top))))
  BY DEF ReadLeaf
<1>2. PICK at : at = Top.at
  OBVIOUS
<1>3. at \in Nat /\ width \in Nat /\ Top.from <= at
  BY <1>2, TopOf, Assumptions DEF Top, FrameOK
<1>4. PICK node : node = Leaf(at, width, none)
  OBVIOUS
<1>5. node.kind = "leaf" /\ node.from = at /\ node.to = at + width /\ Accountable(node)
  BY <1>3, <1>4 DEF Leaf, Node, Accountable
<1>6. PICK to \in Nat : to = at + width
  BY <1>3
<1>7. Within(node, to) /\ Reads(node, Top.nodes) /\ Top.at <= to
  BY <1>2, <1>3, <1>5, <1>6 DEF Within, Reads
<1>8. Into(Took(Top, node, to, Top.writes \o Accounted(node, NextPath(Top))))
  BY <1>1, <1>2, <1>4, <1>5, <1>6
<1> QED
  BY <1>2, <1>3, <1>5, <1>6, <1>7, <1>8, OneFieldSpoken

LEMMA ReadWrongConstSpoken ==
  ASSUME Stacked(stack), Spoken(stack), stack # <<>>, ReadWrongConst
  PROVE  Spoken(stack')
<1>1. PICK none \in BOOLEAN :
        \E node :
          /\ node = [Leaf(Top.at, 1, none) EXCEPT !.status = "undecodable"]
          /\ Into(Took(Top, node, node.to, Top.writes \o Accounted(node, NextPath(Top))))
  BY DEF ReadWrongConst
<1>2. PICK node :
        /\ node = [Leaf(Top.at, 1, none) EXCEPT !.status = "undecodable"]
        /\ Into(Took(Top, node, node.to, Top.writes \o Accounted(node, NextPath(Top))))
  BY <1>1
<1>3. PICK at : at = Top.at
  OBVIOUS
<1>4. at \in Nat /\ Top.from <= at
  BY <1>3, TopOf DEF Top, FrameOK
<1>5. node.kind = "leaf" /\ node.from = at /\ node.to = at + 1 /\ Accountable(node)
  BY <1>2, <1>3, <1>4 DEF Leaf, Node, Accountable
<1>6. PICK to \in Nat : to = at + 1
  BY <1>4
<1>7. Within(node, to) /\ Reads(node, Top.nodes) /\ Top.at <= to
  BY <1>3, <1>4, <1>5, <1>6 DEF Within, Reads
<1>8. Into(Took(Top, node, to, Top.writes \o Accounted(node, NextPath(Top))))
  BY <1>2, <1>5, <1>6
<1> QED
  BY <1>3, <1>4, <1>5, <1>6, <1>7, <1>8, OneFieldSpoken

LEMMA ReadTruncatedSpoken ==
  ASSUME Stacked(stack), Spoken(stack), stack # <<>>, ReadTruncated
  PROVE  Spoken(stack')
<1>1. PICK node :
        /\ node = [Leaf(Top.at, 0, FALSE) EXCEPT !.status = "truncated"]
        /\ Into(Took(Top, node, Top.at, Top.writes))
  BY DEF ReadTruncated
<1>2. PICK f : f = Top
  OBVIOUS
<1>3. FrameOK(f) /\ Accounts(f)
  BY <1>2, TopOf, TopSpoken DEF Top
<1>4. PICK at \in Nat : at = f.at
  BY <1>3 DEF FrameOK
<1>5. node.kind = "leaf" /\ node.from = at
  BY <1>1, <1>2, <1>4 DEF Leaf, Node
<1>6. Reads(node, f.nodes) /\ Begun(f, node)
  BY <1>3, <1>4, <1>5 DEF Reads, Begun, FrameOK
<1>7. PICK vs \in Seq(Write) : vs = <<>>
  BY NoWrites
<1>8. ToSet(vs) = {} /\ f.at .. at - 1 = {}
  <2>1. ToSet(vs) = {}
    BY <1>7, OneWrite
  <2> QED
    BY <1>4, <2>1
<1>9. PICK g : g = Took(f, node, at, f.writes \o vs)
  OBVIOUS
<1>10. Accounts(g)
  BY <1>3, <1>4, <1>6, <1>8, <1>9, FieldAccounts
<1>11. g.kind = f.kind /\ g.head = f.head
  BY <1>3, <1>9, TookKeeps
<1>12. f.writes \o vs = f.writes
  BY <1>3, <1>7 DEF FrameOK
<1>13. Into(g)
  BY <1>1, <1>2, <1>4, <1>9, <1>12
<1> QED
  BY <1>2, <1>10, <1>11, <1>13, IntoSpoken

LEMMA ReadChunksSpoken ==
  ASSUME Stacked(stack), Spoken(stack), stack # <<>>, ReadChunks
  PROVE  Spoken(stack')
<1>1. PICK widths \in ChunkWidths, skip \in BOOLEAN :
        \E node :
          /\ node = Chunks(Top.at, widths, skip)
          /\ Into(Took(Top, node, node.to, Top.writes \o ChunksWrites(node, NextPath(Top))))
  BY DEF ReadChunks, ChunkWidths
<1>2. PICK node :
        /\ node = Chunks(Top.at, widths, skip)
        /\ Into(Took(Top, node, node.to, Top.writes \o ChunksWrites(node, NextPath(Top))))
  BY <1>1
<1>3. PICK f : f = Top
  OBVIOUS
<1>4. FrameOK(f) /\ Accounts(f)
  BY <1>3, TopOf, TopSpoken DEF Top
<1>5. PICK at : at = f.at
  OBVIOUS
<1>6. at \in Nat /\ f.from \in Nat /\ f.from <= at /\ node = Chunks(at, widths, skip)
  BY <1>2, <1>3, <1>4, <1>5 DEF FrameOK
<1>7. IsChunks(node)
  BY <1>6, Zenon DEF IsChunks
<1>8. PICK start : start = Starts(at, widths)
  OBVIOUS
<1>9. node.kind = "chunks" /\ node.from = at /\ node.to \in Nat /\ at <= node.to
  <2>1. Tiled(node, at, widths, skip, start)
    BY <1>6, <1>8, ChunksFields
  <2> QED
    BY <2>1 DEF Tiled
<1>10. PICK to \in Nat : to = node.to
  BY <1>9
<1>11. Reads(node, f.nodes) /\ Begun(f, node) /\ f.at <= to
  BY <1>5, <1>6, <1>7, <1>9, <1>10 DEF Reads, Begun
<1>12. PICK path \in Seq(Nat) : path = NextPath(f)
  BY <1>4, NextPaths
<1>13. PICK vs \in Seq(Write) : vs = ChunksWrites(node, path)
  BY <1>7, ChunksRecords
<1>14. PICK g : g = Took(f, node, to, f.writes \o vs)
  OBVIOUS
<1>15. Grown(f, g, node) /\ g.at = to /\ g.from = f.from
  BY <1>4, <1>11, <1>14, TookGrown
<1>16. Bytes(node) \subseteq g.from .. g.at - 1
  BY <1>6, <1>9, <1>10, <1>15 DEF Bytes
<1>17. ASSUME NEW w \in ToSet(vs) PROVE Fits(g, w) /\ ~Joins(g, w)
  <2>1. /\ Bytes(w) \subseteq Bytes(node)
        /\ \/ IsRegion(w)
           \/ IsRecord(w) /\ \E j \in 1 .. Len(node.kids), i \in 1 .. 2 :
                /\ w.role = Append(Append(path, j), i)
                /\ Bytes(w) = Bytes(node.kids[j].kids[i])
    BY <1>7, <1>13, ChunksSay
  <2>2. Bytes(w) \subseteq g.from .. g.at - 1
    BY <1>16, <2>1
  <2>3. CASE IsRegion(w)
    BY <2>2, <2>3, RegionFits
  <2>4. CASE ~IsRegion(w)
    <3>1. PICK j \in 1 .. Len(node.kids), i \in 1 .. 2 :
            /\ w.role = Append(Append(path, j), i)
            /\ Bytes(w) = Bytes(node.kids[j].kids[i])
      BY <2>1, <2>4
    <3>2. j \in Nat /\ i \in Nat
      BY <1>7, ChunkOf
    <3>3. PICK rel \in Seq(Nat) : rel = <<j, i>>
      <4>1. <<j, i>> \in Seq(Nat)
        BY <3>2
      <4> QED
        BY <4>1
    <3>4. w.role = NextPath(f) \o rel
      <4>1. path \o <<j, i>> = Append(Append(path, j), i)
        BY <3>2
      <4> QED
        BY <1>12, <3>1, <3>3, <4>1
    <3>5. rel # <<>>
      BY <3>3
    <3>6. ASSUME NEW k \in DOMAIN node.kids, rel = <<k, 2>>
          PROVE  Bytes(w) \subseteq Bytes(node.kids[k].kids[2])
      <4>1. k = j /\ i = 2
        BY <3>3, <3>6
      <4> QED
        BY <3>1, <4>1
    <3> QED
      BY <1>4, <1>9, <1>11, <1>15, <2>2, <3>4, <3>5, <3>6, FitsNew
  <2> QED
    BY <2>3, <2>4
<1>18. ASSUME NEW b \in f.at .. to - 1 PROVE \E w \in ToSet(vs) : b \in Bytes(w) /\ ~Joins(g, w)
  <2>1. b \in Bytes(node)
    BY <1>5, <1>9, <1>10 DEF Bytes
  <2>2. PICK w \in ToSet(vs) : b \in Bytes(w)
    BY <1>7, <1>13, <2>1, ChunksSay
  <2> QED
    BY <1>17, <2>2
<1>19. Accounts(g)
  BY <1>4, <1>11, <1>14, <1>17, <1>18, FieldAccounts
<1>20. g.kind = f.kind /\ g.head = f.head
  BY <1>4, <1>14, TookKeeps
<1>21. Into(g)
  BY <1>2, <1>3, <1>10, <1>12, <1>13, <1>14
<1> QED
  BY <1>3, <1>19, <1>20, <1>21, IntoSpoken

(* The data in a repetition's chunks begin where it does, or later.        *)
LEMMA DataAfter ==
  ASSUME NEW n, IsChunks(n), NEW j \in DOMAIN n.kids
  PROVE  n.from <= n.kids[j].kids[2].from
<1>1. PICK from \in Nat, widths \in ChunkWidths, none \in BOOLEAN : n = Chunks(from, widths, none)
  BY DEF IsChunks
<1>2. PICK start : start = Starts(from, widths)
  OBVIOUS
<1>3. /\ DOMAIN n.kids = 1 .. Len(widths) /\ Len(widths) \in 0 .. 2 /\ n.from = from
      /\ \A k \in 1 .. Len(widths) : widths[k] \in 0 .. 1 /\ start[k] \in Nat
                                      /\ n.kids[k] = Chunk(start[k], widths[k], none)
  <2>1. Tiled(n, from, widths, none, start)
    BY <1>1, <1>2, ChunksFields
  <2> QED
    BY <2>1 DEF Tiled
<1>4. /\ j \in 1 .. Len(widths) /\ widths[j] \in 0 .. 1 /\ start[j] \in Nat
      /\ n.kids[j] = Chunk(start[j], widths[j], none)
  <2>1. j \in 1 .. Len(widths)
    BY <1>3
  <2> QED
    BY <1>3, <2>1
<1>5. from <= start[j]
  <2>1. j \in DOMAIN widths
    BY <1>3, <1>4, SeqDomain
  <2>2. start[j] = from + (IF j = 1 THEN 0 ELSE 1 + widths[1])
    BY <1>2, <2>1 DEF Starts
  <2>3. widths[1] \in 0 .. 1
    BY <1>3, <1>4
  <2> QED
    BY <2>2, <2>3
<1>6. PICK chunk : chunk = n.kids[j]
  OBVIOUS
<1>7. PICK data : data = chunk.kids[2]
  OBVIOUS
<1>8. data.from = start[j] + 1
  BY <1>4, <1>6, <1>7 DEF Chunk, Node, Leaf
<1> QED
  BY <1>3, <1>4, <1>5, <1>6, <1>7, <1>8

LEMMA ReadConcatSpoken ==
  ASSUME Stacked(stack), Spoken(stack), stack # <<>>, ReadConcat
  PROVE  Spoken(stack')
<1>1. PICK i \in DOMAIN Top.nodes, skip \in BOOLEAN :
        \E data, hull, node :
          /\ data = {Top.nodes[i].kids[j].kids[2] : j \in DOMAIN Top.nodes[i].kids}
          /\ hull = Hull(data, Top.at)
          /\ node = [Node("concat", hull[1], hull[2]) EXCEPT !.source = i, !.none = skip]
          /\ Top.nodes[i].kind = "chunks"
          /\ Into(Took(Top, node, Top.at, Top.writes \o Accounted(node, NextPath(Top))))
  BY DEF ReadConcat
<1>2. PICK data, hull, node :
        /\ data = {Top.nodes[i].kids[j].kids[2] : j \in DOMAIN Top.nodes[i].kids}
        /\ hull = Hull(data, Top.at)
        /\ node = [Node("concat", hull[1], hull[2]) EXCEPT !.source = i, !.none = skip]
        /\ Top.nodes[i].kind = "chunks"
        /\ Into(Took(Top, node, Top.at, Top.writes \o Accounted(node, NextPath(Top))))
  BY <1>1
<1>3. PICK f : f = Top
  OBVIOUS
<1>4. FrameOK(f) /\ Accounts(f)
  BY <1>3, TopOf, TopSpoken DEF Top
<1>5. PICK at : at = f.at
  OBVIOUS
<1>6. at \in Nat /\ f.from \in Nat /\ f.from <= at
  BY <1>4, <1>5 DEF FrameOK
<1>7. PICK chunks : chunks = f.nodes[i]
  OBVIOUS
<1>8. IsChunks(chunks) /\ Within(chunks, at) /\ f.from <= chunks.from
  BY <1>2, <1>3, <1>4, <1>5, <1>7 DEF FrameOK, NodesOK, Reads, Accounts, Begun
<1>9. data = {chunks.kids[j].kids[2] : j \in DOMAIN chunks.kids}
  BY <1>2, <1>3, <1>7
<1>10. \A n \in data : Within(n, at) /\ f.from <= n.from
  <2>1. chunks.to <= at
    BY <1>8 DEF Within
  <2>2. ASSUME NEW j \in DOMAIN chunks.kids
        PROVE  Within(chunks.kids[j].kids[2], at) /\ f.from <= chunks.kids[j].kids[2].from
    <3>1. PICK one : one = chunks.kids[j].kids[2]
      OBVIOUS
    <3>2. Within(one, at)
      BY <1>6, <1>8, <2>1, <3>1, DataWithin
    <3>3. chunks.from <= one.from
      BY <1>8, <3>1, DataAfter
    <3>4. f.from <= one.from
      BY <1>6, <1>8, <3>2, <3>3 DEF Within
    <3> QED
      BY <3>1, <3>2, <3>4
  <2> QED
    BY <1>9, <2>2
<1>11. hull = Hull(data, at)
  BY <1>2, <1>3, <1>5
<1>12. hull[1] \in Nat /\ hull[2] \in Nat /\ hull[1] <= hull[2] /\ hull[2] <= at
  BY <1>6, <1>10, <1>11, HullSpans
<1>13. f.from <= hull[1]
  BY <1>6, <1>10, <1>11, HullBegins
<1>14. /\ node.kind = "concat" /\ node.from = hull[1] /\ node.to = hull[2] /\ node.source = i
       /\ node.status = "ok" /\ node.none = skip
  BY <1>2 DEF Node
<1>15. Accountable(node)
  BY <1>12, <1>14 DEF Accountable
<1>16. Within(node, at) /\ Reads(node, f.nodes)
  BY <1>2, <1>3, <1>12, <1>14 DEF Within, Reads
<1>17. Into(Took(Top, node, at, Top.writes \o Accounted(node, NextPath(Top))))
  BY <1>2, <1>3, <1>5
<1> QED
  BY <1>3, <1>5, <1>6, <1>13, <1>14, <1>15, <1>16, <1>17, OneFieldSpoken

(***************************************************************************)
(* Transforms.                                                             *)
(***************************************************************************)

(* What a transform may read lies where the unit's fields do.              *)
LEMMA TransformBegun ==
  ASSUME NEW f, FrameOK(f), Accounts(f), NEW t \in Transforms(f)
  PROVE  /\ f.from <= t.from
         /\ \A s \in SUBSET ({t.source} \cup t.args) :
              \A hull : hull = Hull({f.nodes[n] : n \in s}, f.at) =>
                 /\ f.from <= hull[1] /\ hull[2] <= f.at
                 /\ hull[1] .. hull[2] - 1 \subseteq Bytes(t)
<1>1. PICK i \in {j \in DOMAIN f.nodes : Source(f.nodes[j])},
           args \in SUBSET {j \in DOMAIN f.nodes : Argument(f.nodes[j])}, none \in BOOLEAN :
        t = NextTransform(f, i, args, none)
  BY DEF Transforms
<1>2. PICK names : names = {i} \cup args
  OBVIOUS
<1>3. PICK spans : spans = {f.nodes[n] : n \in names}
  OBVIOUS
<1>4. PICK whole : whole = Hull(spans, f.at)
  OBVIOUS
<1>5. t = [Node("transform", whole[1], whole[2]) EXCEPT !.source = i, !.args = args, !.none = none]
  BY <1>1, <1>2, <1>3, <1>4 DEF NextTransform
<1>6. t.source = i /\ t.args = args /\ t.from = whole[1] /\ t.to = whole[2]
  BY <1>5 DEF Node
<1>7. names \subseteq DOMAIN f.nodes
  BY <1>2
<1>8. \A n \in names : Within(f.nodes[n], f.at) /\ f.from <= f.nodes[n].from
  BY <1>7 DEF FrameOK, NodesOK, Accounts, Begun
<1>9. PICK at \in Nat : at = f.at
  BY DEF FrameOK
<1>10. PICK from \in Nat : from = f.from /\ from <= at
  BY <1>9 DEF FrameOK
<1>11. \A n \in spans : Within(n, at) /\ from <= n.from
  BY <1>3, <1>8, <1>9, <1>10
<1>12. from <= whole[1]
  BY <1>4, <1>9, <1>10, <1>11, HullBegins
<1>13. ASSUME NEW s \in SUBSET names, NEW hull, hull = Hull({f.nodes[n] : n \in s}, f.at)
       PROVE  /\ from <= hull[1] /\ hull[2] <= at
              /\ hull[1] .. hull[2] - 1 \subseteq whole[1] .. whole[2] - 1
  <2>1. PICK some : some = {f.nodes[n] : n \in s}
    OBVIOUS
  <2>2. hull = Hull(some, at)
    BY <1>9, <1>13, <2>1
  <2>3. some \subseteq spans
    BY <1>3, <2>1
  <2>4. \A n \in some : Within(n, at) /\ from <= n.from
    BY <1>11, <2>3
  <2>5. from <= hull[1]
    BY <1>10, <2>2, <2>4, HullBegins
  <2>6. hull[2] <= at
    BY <2>2, <2>4, HullSpans
  <2>7. hull[1] .. hull[2] - 1 \subseteq whole[1] .. whole[2] - 1
    BY <1>4, <1>9, <1>11, <2>2, <2>3, HullGrows
  <2> QED
    BY <2>5, <2>6, <2>7
<1>14. Bytes(t) = whole[1] .. whole[2] - 1
  BY <1>6 DEF Bytes
<1> QED
  BY <1>2, <1>6, <1>9, <1>10, <1>12, <1>13, <1>14

(* The range a generated module cites for a transform holds its source and *)
(* the arguments that are fields of the unit.                              *)
LEMMA CompiledHullHolds ==
  ASSUME NEW f, FrameOK(f), Accounts(f), NEW node, node.source \in DOMAIN f.nodes,
         node.args \subseteq DOMAIN f.nodes, NEW hull, hull = CompiledHull(f, node)
  PROVE  /\ hull[1] \in Nat /\ hull[2] \in Nat /\ hull[1] .. hull[2] - 1 \subseteq f.from .. f.at - 1
         /\ \A n \in {node.source} \cup {a \in node.args : f.nodes[a].none} :
              n \in DOMAIN f.nodes /\ (n # node.source => f.nodes[n].kind # "group") =>
                 Bytes(f.nodes[n]) \subseteq hull[1] .. hull[2] - 1
<1>1. PICK names : names = {node.source} \cup {a \in node.args : f.nodes[a].kind # "group"}
  OBVIOUS
<1>2. PICK spans : spans = {f.nodes[n] : n \in names}
  OBVIOUS
<1>3. hull = Hull(spans, f.at)
  BY <1>1, <1>2 DEF CompiledHull
<1>4. \A n \in names : Within(f.nodes[n], f.at) /\ f.from <= f.nodes[n].from
  BY <1>1 DEF FrameOK, NodesOK, Accounts, Begun
<1>5. PICK at \in Nat : at = f.at
  BY DEF FrameOK
<1>6. PICK from \in Nat : from = f.from /\ from <= at
  BY <1>5 DEF FrameOK
<1>7. \A n \in spans : Within(n, at) /\ from <= n.from
  BY <1>2, <1>4, <1>5, <1>6
<1>8. /\ hull[1] \in Nat /\ hull[2] \in Nat /\ hull[2] <= at
      /\ \A n \in spans : n.to > n.from => hull[1] <= n.from /\ n.to <= hull[2]
  BY <1>3, <1>5, <1>7, HullSpans
<1>9. from <= hull[1]
  BY <1>3, <1>5, <1>6, <1>7, HullBegins
<1>10. hull[1] .. hull[2] - 1 \subseteq f.from .. f.at - 1
  BY <1>5, <1>6, <1>8, <1>9
<1>11. ASSUME NEW n \in names PROVE Bytes(f.nodes[n]) \subseteq hull[1] .. hull[2] - 1
  <2>1. PICK m : m = f.nodes[n]
    OBVIOUS
  <2>2. m \in spans /\ m.from \in Nat /\ m.to \in Nat
    BY <1>2, <1>4, <2>1 DEF Within
  <2>3. m.to > m.from => hull[1] <= m.from /\ m.to <= hull[2]
    BY <1>8, <2>2
  <2>4. Bytes(m) \subseteq hull[1] .. hull[2] - 1
    BY <1>8, <2>2, <2>3 DEF Bytes
  <2> QED
    BY <2>1, <2>4
<1> QED
  BY <1>1, <1>8, <1>10, <1>11

LEMMA ReadTransformSpoken ==
  ASSUME Stacked(stack), Spoken(stack), stack # <<>>, ReadTransform
  PROVE  Spoken(stack')
<1>1. PICK t \in Transforms(Top), failed \in BOOLEAN :
        \E node, hull, taken, whole :
          /\ node  = [t EXCEPT !.failed = failed]
          /\ hull  = CompiledHull(Top, t)
          /\ taken = Transformed(Top, node, <<>>)
          /\ whole = IF failed \/ t.none THEN <<>>
                                        ELSE <<RecordOf(hull[1], hull[2], NextPath(Top))>>
          /\ Into([taken EXCEPT !.writes = @ \o whole])
  BY DEF ReadTransform
<1>2. PICK node, hull, taken, whole :
        /\ node  = [t EXCEPT !.failed = failed]
        /\ hull  = CompiledHull(Top, t)
        /\ taken = Transformed(Top, node, <<>>)
        /\ whole = IF failed \/ t.none THEN <<>>
                                      ELSE <<RecordOf(hull[1], hull[2], NextPath(Top))>>
        /\ Into([taken EXCEPT !.writes = @ \o whole])
  BY <1>1
<1>3. PICK f : f = Top
  OBVIOUS
<1>4. FrameOK(f) /\ Accounts(f)
  BY <1>3, TopOf, TopSpoken DEF Top
<1>5. HeadOK(t, f)
  BY <1>3, <1>4, TransformFields
<1>6. /\ node.kind = "transform" /\ node.source = t.source /\ node.source \in DOMAIN f.nodes
      /\ node.args = t.args /\ node.args \subseteq DOMAIN f.nodes
      /\ node.failed = failed /\ node.none = t.none /\ node.from = t.from /\ node.to = t.to
  BY <1>2, <1>5 DEF HeadOK, IsNode
<1>7. hull = CompiledHull(f, node)
  <2>1. CompiledHull(f, t) = CompiledHull(f, node)
    BY <1>6 DEF CompiledHull
  <2> QED
    BY <1>2, <1>3, <2>1
<1>8. PICK names : names = {t.source} \cup {a \in t.args : f.nodes[a].kind # "group"}
  OBVIOUS
<1>9. hull = Hull({f.nodes[n] : n \in names}, f.at)
  BY <1>6, <1>7, <1>8 DEF CompiledHull
<1>10. f.from <= node.from /\ hull[1] .. hull[2] - 1 \subseteq Bytes(node)
  <2>1. names \in SUBSET ({t.source} \cup t.args)
    BY <1>8
  <2>2. f.from <= t.from /\ hull[1] .. hull[2] - 1 \subseteq Bytes(t)
    BY <1>3, <1>4, <1>9, <2>1, TransformBegun
  <2>3. Bytes(t) = Bytes(node)
    BY <1>6 DEF Bytes
  <2> QED
    BY <1>6, <2>2, <2>3
<1>11. /\ hull[1] \in Nat /\ hull[2] \in Nat /\ hull[1] .. hull[2] - 1 \subseteq f.from .. f.at - 1
       /\ \A n \in {node.source} \cup {a \in node.args : f.nodes[a].none} :
            n \in DOMAIN f.nodes /\ (n # node.source => f.nodes[n].kind # "group") =>
               Bytes(f.nodes[n]) \subseteq hull[1] .. hull[2] - 1
  BY <1>4, <1>6, <1>7, CompiledHullHolds
<1>12. PICK path \in Seq(Nat) : path = NextPath(f)
  BY <1>4, NextPaths
<1>13. PICK w : w = RecordOf(hull[1], hull[2], path)
  OBVIOUS
<1>14. IsRecord(w) /\ w.role = path /\ Bytes(w) = hull[1] .. hull[2] - 1
  BY <1>13 DEF RecordOf, IsRecord, Bytes
<1>15. /\ whole \in Seq(Write)
       /\ failed \/ t.none => ToSet(whole) = {}
       /\ ~(failed \/ t.none) => ToSet(whole) = {w}
  <2>1. CASE failed \/ t.none
    <3>1. whole = <<>>
      BY <1>2, <2>1
    <3> QED
      BY <2>1, <3>1, NoWrites, OneWrite
  <2>2. CASE ~(failed \/ t.none)
    <3>1. whole = <<RecordOf(hull[1], hull[2], path)>>
      BY <1>2, <1>3, <1>12, <2>2
    <3>2. whole \in Seq(Write)
      BY <1>11, <3>1, RecordWrite
    <3>3. ToSet(whole) = {w}
      BY <1>13, <3>1, OneWrite
    <3> QED
      BY <2>2, <3>2, <3>3
  <2> QED
    BY <2>1, <2>2
<1>16. PICK released \in Seq(Write) : released = <<>>
  BY NoWrites
<1>17. ToSet(released) = {}
  BY <1>16, OneWrite
<1>18. Distinct(f.writes \o released)
  <2>1. f.writes \o released = f.writes /\ Distinct(f.writes)
    BY <1>4, <1>16 DEF FrameOK, RecordsStand
  <2> QED
    BY <2>1
<1>19. PICK g : g = Took(f, node, f.at, TakenOver(f, node, f.writes \o released) \o whole)
  OBVIOUS
<1>20. PICK ws : ws = TakenOver(f, node, f.writes \o released) \o whole
  OBVIOUS
<1>21. f.at \in Nat /\ g = Took(f, node, f.at, ws) /\ Reads(node, f.nodes)
  BY <1>4, <1>6, <1>19, <1>20 DEF FrameOK, Reads
<1>22. Grown(f, g, node) /\ g.at = f.at /\ g.from = f.from
  BY <1>4, <1>21, TookGrown
<1>23. Fits(g, w) /\ ~Joins(g, w)
  <2>1. PICK rel \in Seq(Nat) : rel = <<>>
    <3>1. <<>> \in Seq(Nat)
      OBVIOUS
    <3> QED
      BY <3>1
  <2>2. w.role = NextPath(f) \o rel
    BY <1>12, <1>14, <2>1
  <2>3. Bytes(w) \subseteq g.from .. g.at - 1 /\ Bytes(w) \subseteq Bytes(node)
    BY <1>10, <1>11, <1>14, <1>22
  <2> QED
    BY <1>4, <1>6, <1>21, <1>22, <2>2, <2>3, FitsNew
<1>24. w.role # f.path \o <<node.source>>
  <2>1. PICK rel \in Seq(Nat) : rel = <<>>
    <3>1. <<>> \in Seq(Nat)
      OBVIOUS
    <3> QED
      BY <3>1
  <2>2. path = f.path \o (<<Len(f.nodes) + 1>> \o rel)
    <3>1. path \o rel = path
      BY <2>1
    <3> QED
      BY <1>4, <1>12, <3>1, NextPaths
  <2>3. node.source \in 1 .. Len(f.nodes) /\ node.source \in Nat
    BY <1>4, <1>6, SeqDomain DEF FrameOK
  <2>4. f.path \o (<<Len(f.nodes) + 1>> \o rel) # f.path \o (<<node.source>> \o rel)
    BY <1>4, <2>3, NewRole
  <2>5. <<node.source>> \o rel = <<node.source>>
    BY <2>1, <2>3, FirstSteps
  <2> QED
    BY <1>14, <2>2, <2>4, <2>5
<1>25. \A v \in ToSet(released) \cup ToSet(whole) :
         IsRecord(v) /\ Fits(g, v) /\ v.role # f.path \o <<node.source>>
  BY <1>14, <1>15, <1>17, <1>23, <1>24
<1>26. ~(node.none \/ node.failed) =>
         \E v \in ToSet(released) \cup ToSet(whole) :
           /\ ~Joins(g, v)
           /\ Bytes(f.nodes[node.source]) \subseteq Bytes(v)
           /\ \A a \in node.args \cap DOMAIN f.nodes :
                f.nodes[a].none => Bytes(f.nodes[a]) \subseteq Bytes(v)
  <2> SUFFICES ASSUME ~(node.none \/ node.failed)
               PROVE  /\ w \in ToSet(whole) /\ ~Joins(g, w)
                      /\ Bytes(f.nodes[node.source]) \subseteq Bytes(w)
                      /\ \A a \in node.args \cap DOMAIN f.nodes :
                           f.nodes[a].none => Bytes(f.nodes[a]) \subseteq Bytes(w)
    OBVIOUS
  <2>1. w \in ToSet(whole)
    BY <1>6, <1>15
  <2>2. \A a \in DOMAIN f.nodes : f.nodes[a].none => f.nodes[a].kind # "group"
    BY <1>4 DEF Accounts, Begun
  <2> QED
    BY <1>6, <1>11, <1>14, <1>23, <2>1, <2>2
<1>27. Accounts(g)
  <2>1. SpeaksFor(g, f, node, ToSet(released) \cup ToSet(whole))
    BY <1>25, <1>26 DEF SpeaksFor
  <2>2. whole \in Seq(Write)
    BY <1>15
  <2>3. node.kind = "transform" /\ node.source \in DOMAIN f.nodes /\ f.from <= node.from
    BY <1>6, <1>10
  <2> QED
    BY <1>4, <1>18, <1>19, <2>1, <2>2, <2>3, TransformAccounts
<1>28. g.kind = f.kind /\ g.head = f.head
  BY <1>4, <1>21, TookKeeps
<1>29. [taken EXCEPT !.writes = @ \o whole] = g
  <2>1. taken = Took(f, node, f.at, TakenOver(f, node, f.writes \o released))
    BY <1>2, <1>3, <1>16 DEF Transformed
  <2>2. IsFrame(f)
    BY <1>4 DEF FrameOK
  <2> QED
    BY <1>19, <2>1, <2>2 DEF Took, IsFrame
<1>30. Into(g)
  BY <1>2, <1>29
<1> QED
  BY <1>3, <1>27, <1>28, <1>30, IntoSpoken

LEMMA OpenOutputSpoken ==
  ASSUME Stacked(stack), Spoken(stack), stack # <<>>, OpenOutput
  PROVE  Spoken(stack')
<1>1. PICK t \in Transforms(Top), extent \in 0 .. OutExtent :
        stack' = Append(stack, Frame("output", 0, extent, NextPath(Top), [t EXCEPT !.typed = TRUE]))
  BY DEF OpenOutput
<1>2. PICK f : f = Top
  OBVIOUS
<1>3. FrameOK(f) /\ Accounts(f)
  BY <1>2, TopOf, TopSpoken DEF Top
<1>4. PICK head : head = [t EXCEPT !.typed = TRUE]
  OBVIOUS
<1>5. f.from <= t.from /\ IsNode(t)
  BY <1>2, <1>3, TransformBegun, TransformFields DEF HeadOK
<1>6. f.from <= head.from
  BY <1>4, <1>5 DEF IsNode
<1>7. PICK g : g = Frame("output", 0, extent, NextPath(f), head)
  OBVIOUS
<1>8. g.head = head
  BY <1>7 DEF Frame
<1>9. 0 \in Nat /\ Accounts(g)
  BY <1>7, BeginsSpoken
<1>10. Headed(Last(stack), g)
  BY <1>2, <1>6, <1>8 DEF Headed, Top
<1>11. stack' = Append(stack, g)
  BY <1>1, <1>2, <1>4, <1>7
<1> QED
  BY <1>9, <1>10, <1>11, PushSpoken

LEMMA EnterGroupSpoken ==
  ASSUME Stacked(stack), Spoken(stack), stack # <<>>, EnterGroup
  PROVE  Spoken(stack')
<1>1. stack' = Append(stack, Frame("group", Top.at, Top.extent, NextPath(Top), NoNode))
  BY DEF EnterGroup
<1>2. PICK at \in Nat : at = Top.at
  BY TopOf DEF Top, FrameOK
<1>3. PICK g : g = Frame("group", at, Top.extent, NextPath(Top), NoNode)
  OBVIOUS
<1>4. Accounts(g)
  BY <1>3, BeginsSpoken
<1>5. g.kind = "group"
  BY <1>3 DEF Frame
<1>6. Headed(Last(stack), g)
  BY <1>5 DEF Headed
<1> QED
  BY <1>1, <1>2, <1>3, <1>4, <1>6, PushSpoken

LEMMA RecordOrRegion ==
  ASSUME NEW ws \in Seq(Write), NEW w \in ToSet(ws)
  PROVE  IsRecord(w) \/ IsRegion(w)
<1>1. PICK k \in DOMAIN ws : w = ws[k]
  BY DEF ToSet
<1>2. ws[k] \in Write
  BY <1>1
<1> QED
  BY <1>1, <1>2 DEF Write, IsRecord, IsRegion

(* What an inner unit holds is of fields inside the field it becomes.      *)
LEMMA InnerRole ==
  ASSUME NEW u, FrameOK(u), NEW w \in ToSet(u.writes), IsRecord(w)
  PROVE  w.role \in Roles(u.writes)
BY DEF Roles, ToSet

LEMMA InnerRel ==
  ASSUME NEW f, FrameOK(f), NEW u, FrameOK(u), u.path = NextPath(f), NEW role \in Roles(u.writes)
  PROVE  \E rel \in Seq(Nat) : rel # <<>> /\ role = NextPath(f) \o rel
<1>1. PICK rel \in Seq(Nat) : role = u.path \o rel /\ Stands(u.nodes, rel)
  BY DEF FrameOK, RecordsStand
<1>2. rel # <<>>
  BY <1>1, StandsInside
<1> QED
  BY <1>1, <1>2

(* A record of a field inside the one just taken fits.                     *)
LEMMA FitsInside ==
  ASSUME NEW f, FrameOK(f), NEW node, node.kind # "chunks", node.kind # "concat",
         Reads(node, f.nodes), NEW g, Grown(f, g, node),
         NEW w, Bytes(w) \subseteq g.from .. g.at - 1,
         NEW rel \in Seq(Nat), rel # <<>>, w.role = NextPath(f) \o rel
  PROVE  Fits(g, w) /\ ~Joins(g, w)
BY FitsNew

LEMMA CloseOutputSpoken ==
  ASSUME Stacked(stack), Spoken(stack), CloseOutput, "silent_output" \notin Quirks
  PROVE  Spoken(stack')
<1>1. PICK node, hull, released :
        /\ node = [Top.head EXCEPT !.kids = Top.nodes]
        /\ hull = CompiledHull(Parent, node)
        /\ released = Released(Top, hull)
        /\ stack # <<>> /\ Top.kind = "output"
        /\ Top.head.none \/ \E w \in ToSet(Top.writes) : IsRecord(w)
        /\ BackInto(Transformed(Parent, node, released))
  BY DEF CloseOutput, Decoding
<1>2. PICK f : f = Parent
  OBVIOUS
<1>3. PICK u : u = Top
  OBVIOUS
<1>4. /\ FrameOK(u) /\ FrameOK(f) /\ Nested(f, u)
      /\ Accounts(u) /\ Accounts(f) /\ Headed(f, u)
  BY <1>1, <1>2, <1>3, InnerOf, InnerSpoken
<1>5. HeadOK(u.head, f) /\ u.path = NextPath(f) /\ f.from <= u.head.from
  BY <1>1, <1>3, <1>4 DEF Nested, Headed
<1>6. /\ node.kind = "transform" /\ node.source \in DOMAIN f.nodes /\ node.args \subseteq DOMAIN f.nodes
      /\ ~node.failed /\ node.none = u.head.none /\ f.from <= node.from
  BY <1>1, <1>3, <1>5 DEF HeadOK, IsNode, Within
<1>7. hull = CompiledHull(f, node)
  BY <1>1, <1>2
<1>8. /\ hull[1] \in Nat /\ hull[2] \in Nat /\ hull[1] .. hull[2] - 1 \subseteq f.from .. f.at - 1
      /\ \A n \in {node.source} \cup {a \in node.args : f.nodes[a].none} :
           n \in DOMAIN f.nodes /\ (n # node.source => f.nodes[n].kind # "group") =>
              Bytes(f.nodes[n]) \subseteq hull[1] .. hull[2] - 1
  BY <1>4, <1>6, <1>7, CompiledHullHolds
<1>9. u.writes \in Seq(Write) /\ Distinct(u.writes)
  BY <1>4 DEF FrameOK, RecordsStand
<1>10. /\ released \in Seq(Write) /\ Distinct(released) /\ Roles(released) \subseteq Roles(u.writes)
       /\ \A w \in ToSet(released) : IsRecord(w) /\ w.from = hull[1] /\ w.to = hull[2]
       /\ ~node.none => ToSet(released) # {}
  <2>1. CASE u.head.none
    <3>1. released = <<>>
      BY <1>1, <1>3, <2>1 DEF Released
    <3> QED
      BY <1>6, <2>1, <3>1, NoWrites, OneWrite
  <2>2. CASE ~u.head.none
    <3>1. released = Recited(u.writes, hull[1], hull[2])
      BY <1>1, <1>3, <2>2 DEF Released
    <3>2. /\ Thins(released, u.writes) /\ Roles(released) = Roles(u.writes)
          /\ \A w \in ToSet(released) : IsRecord(w) /\ w.from = hull[1] /\ w.to = hull[2]
      <4>1. PICK from \in Int : from = hull[1]
        BY <1>8
      <4>2. PICK to \in Int : to = hull[2]
        BY <1>8
      <4>3. released = Recited(u.writes, from, to)
        BY <3>1, <4>1, <4>2
      <4>4. /\ Thins(Recited(u.writes, from, to), u.writes)
            /\ Roles(Recited(u.writes, from, to)) = Roles(u.writes)
            /\ \A w \in ToSet(Recited(u.writes, from, to)) : IsRecord(w) /\ w.from = from /\ w.to = to
        BY <1>9, RecitedThins
      <4> QED
        BY <4>1, <4>2, <4>3, <4>4
    <3>3. PICK v \in ToSet(u.writes) : IsRecord(v)
      BY <1>1, <1>3, <2>2
    <3>4. v.role \in Roles(released)
      BY <1>4, <3>2, <3>3, InnerRole
    <3>5. ToSet(released) # {}
      BY <3>4 DEF Roles, ToSet
    <3> QED
      BY <1>9, <3>2, <3>5 DEF Thins
  <2> QED
    BY <2>1, <2>2
<1>11. Distinct(f.writes \o released)
  <2>1. f.writes \in Seq(Write) /\ Distinct(f.writes)
    BY <1>4 DEF FrameOK, RecordsStand
  <2>2. Roles(f.writes) \cap Roles(released) = {}
    <3> SUFFICES ASSUME NEW role \in Roles(f.writes), role \in Roles(released) PROVE FALSE
      OBVIOUS
    <3>1. PICK rel \in Seq(Nat) : role = NextPath(f) \o rel
      BY <1>4, <1>5, <1>10, InnerRel
    <3>2. role = f.path \o (<<Len(f.nodes) + 1>> \o rel)
      BY <1>4, <3>1, NextPaths
    <3> QED
      BY <1>4, <3>2, NewField
  <2> QED
    BY <1>10, <2>1, <2>2, JoinedWrites
<1>12. PICK whole \in Seq(Write) : whole = <<>>
  BY NoWrites
<1>13. ToSet(whole) = {}
  BY <1>12, OneWrite
<1>14. PICK ws : ws = TakenOver(f, node, f.writes \o released) \o whole
  OBVIOUS
<1>15. PICK g : g = Took(f, node, f.at, ws)
  OBVIOUS
<1>16. f.at \in Nat /\ Reads(node, f.nodes)
  BY <1>4, <1>6 DEF FrameOK, Reads
<1>17. Grown(f, g, node) /\ g.at = f.at /\ g.from = f.from
  BY <1>4, <1>15, <1>16, TookGrown
<1>18. ASSUME NEW w \in ToSet(released)
       PROVE  /\ IsRecord(w) /\ Fits(g, w) /\ ~Joins(g, w)
              /\ w.role # f.path \o <<node.source>> /\ Bytes(w) = hull[1] .. hull[2] - 1
  <2>1. Bytes(w) = hull[1] .. hull[2] - 1 /\ IsRecord(w)
    BY <1>10 DEF Bytes
  <2>2. Bytes(w) \subseteq g.from .. g.at - 1
    BY <1>8, <1>17, <2>1
  <2>3. w.role \in Roles(u.writes)
    <3>1. w.role \in Roles(released)
      BY <2>1 DEF Roles, ToSet
    <3> QED
      BY <1>10, <3>1
  <2>4. PICK rel \in Seq(Nat) : rel # <<>> /\ w.role = NextPath(f) \o rel
    BY <1>4, <1>5, <2>3, InnerRel
  <2>5. Fits(g, w) /\ ~Joins(g, w)
    <3>1. node.kind # "chunks" /\ node.kind # "concat"
      BY <1>6
    <3> QED
      BY <1>4, <1>16, <1>17, <2>2, <2>4, <3>1, FitsInside
  <2>6. w.role # f.path \o <<node.source>>
    <3>1. w.role = f.path \o (<<Len(f.nodes) + 1>> \o rel)
      BY <1>4, <2>4, NextPaths
    <3>2. node.source \in 1 .. Len(f.nodes) /\ node.source \in Nat
      BY <1>4, <1>6, SeqDomain DEF FrameOK
    <3>3. PICK rest \in Seq(Nat) : rest = <<>> /\ <<node.source>> \o rest = <<node.source>>
      BY <3>2, FirstSteps
    <3>4. f.path \o (<<Len(f.nodes) + 1>> \o rel) # f.path \o (<<node.source>> \o rest)
      BY <1>4, <3>2, NewRole
    <3> QED
      BY <3>1, <3>3, <3>4
  <2> QED
    BY <2>1, <2>5, <2>6
<1>19. SpeaksFor(g, f, node, ToSet(released) \cup ToSet(whole))
  <2>1. ASSUME ~(node.none \/ node.failed)
        PROVE  \E w \in ToSet(released) :
                 /\ ~Joins(g, w)
                 /\ Bytes(f.nodes[node.source]) \subseteq Bytes(w)
                 /\ \A a \in node.args \cap DOMAIN f.nodes :
                      f.nodes[a].none => Bytes(f.nodes[a]) \subseteq Bytes(w)
    <3>1. PICK w \in ToSet(released) : ~Joins(g, w) /\ Bytes(w) = hull[1] .. hull[2] - 1
      BY <1>10, <1>18, <2>1
    <3>2. \A a \in DOMAIN f.nodes : f.nodes[a].none => f.nodes[a].kind # "group"
      BY <1>4 DEF Accounts, Begun
    <3> QED
      BY <1>6, <1>8, <3>1, <3>2
  <2> QED
    BY <1>13, <1>18, <2>1 DEF SpeaksFor
<1>20. Accounts(g)
  BY <1>4, <1>6, <1>10, <1>11, <1>14, <1>15, <1>19, TransformAccounts
<1>21. g.kind = f.kind /\ g.head = f.head
  BY <1>4, <1>15, TookKeeps
<1>22. Transformed(f, node, released) = g
  <2>1. f.writes \o released \in Seq(Write)
    BY <1>4, <1>10, ConcatProperties DEF FrameOK
  <2>2. PICK after : after = TakenOver(f, node, f.writes \o released)
    OBVIOUS
  <2>3. after \in Seq(Write)
    BY <1>4, <1>6, <1>11, <2>1, <2>2, TakenOverThins
  <2>4. after \o whole = after
    BY <1>12, <2>3
  <2> QED
    BY <1>14, <1>15, <2>2, <2>4 DEF Transformed
<1>23. BackInto(g) /\ Top.kind # "message"
  BY <1>1, <1>2, <1>22
<1> QED
  BY <1>1, <1>2, <1>20, <1>21, <1>23, BackIntoSpoken

LEMMA FailOutputSpoken ==
  ASSUME Stacked(stack), Spoken(stack), FailOutput
  PROVE  Spoken(stack')
<1>1. PICK node :
        /\ node = [Top.head EXCEPT !.failed = TRUE]
        /\ stack # <<>> /\ Top.kind = "output"
        /\ BackInto(Transformed(Parent, node, <<>>))
  BY DEF FailOutput
<1>2. PICK f : f = Parent
  OBVIOUS
<1>3. FrameOK(f) /\ Nested(f, Top) /\ Accounts(f) /\ Headed(f, Top)
  BY <1>1, <1>2, InnerOf, InnerSpoken
<1>4. HeadOK(Top.head, f) /\ f.from <= Top.head.from
  BY <1>1, <1>3 DEF Nested, Headed
<1>5. node.kind = "transform" /\ node.source \in DOMAIN f.nodes /\ f.from <= node.from /\ node.failed
  BY <1>1, <1>4 DEF HeadOK, IsNode
<1>6. PICK empty \in Seq(Write) : empty = <<>>
  BY NoWrites
<1>7. ToSet(empty) = {}
  BY <1>6, OneWrite
<1>8. PICK ws : ws = TakenOver(f, node, f.writes \o empty) \o empty
  OBVIOUS
<1>9. PICK g : g = Took(f, node, f.at, ws)
  OBVIOUS
<1>10. f.writes \in Seq(Write) /\ Distinct(f.writes) /\ f.writes \o empty = f.writes
  BY <1>3, <1>6 DEF FrameOK, RecordsStand
<1>11. Accounts(g)
  <2>1. Distinct(f.writes \o empty)
    BY <1>10
  <2>2. SpeaksFor(g, f, node, ToSet(empty) \cup ToSet(empty))
    BY <1>5, <1>7 DEF SpeaksFor
  <2> QED
    BY <1>3, <1>5, <1>8, <1>9, <2>1, <2>2, TransformAccounts
<1>12. g.kind = f.kind /\ g.head = f.head
  BY <1>3, <1>9, TookKeeps
<1>13. Transformed(f, node, <<>>) = g
  <2>1. PICK after : after = TakenOver(f, node, f.writes)
    OBVIOUS
  <2>2. after \in Seq(Write)
    BY <1>3, <1>5, <1>10, <2>1, TakenOverThins
  <2>3. after \o empty = after
    BY <1>6, <2>2
  <2>4. Transformed(f, node, empty) = Took(f, node, f.at, after)
    BY <1>10, <2>1 DEF Transformed
  <2> QED
    BY <1>6, <1>8, <1>9, <1>10, <2>1, <2>3, <2>4
<1>14. BackInto(g) /\ Top.kind # "message"
  BY <1>1, <1>2, <1>13
<1> QED
  BY <1>1, <1>2, <1>11, <1>12, <1>14, BackIntoSpoken

(* What a unit's wrapper writes speaks for every byte of the unit.         *)
LEMMA WrappedSays ==
  ASSUME NEW u, FrameOK(u), Accounts(u), NEW node, NEW ws, Left(u, node, ws)
  PROVE  /\ Bytes(node) = u.from .. u.at - 1 /\ ws \in Seq(Write) /\ ~node.none
         /\ \A w \in ToSet(ws) :
              Bytes(w) \subseteq Bytes(node) /\ (IsRegion(w) \/ w \in ToSet(u.writes))
         /\ \A b \in Bytes(node) : \E w \in ToSet(ws) : b \in Bytes(w)
<1>1. PICK status \in {"ok", "undecodable", "truncated"}, refused \in BOOLEAN :
        node = Unit(u, status, refused) /\ ws = Wrapped(u, refused)
  BY DEF Left
<1>2. node.from = u.from /\ node.to = u.at /\ ~node.none
  BY <1>1 DEF Unit, Node
<1>3. Bytes(node) = u.from .. u.at - 1
  BY <1>2 DEF Bytes
<1>4. ws \in Seq(Write)
  BY WrappedRecords
<1>5. CASE refused
  <2>1. PICK whole : whole = Unit(u, "undecodable", TRUE)
    OBVIOUS
  <2>2. whole.from = u.from /\ whole.to = u.at
    BY <2>1 DEF Unit, Node
  <2>3. whole.from \in Int /\ whole.to \in Int /\ Bytes(whole) = Bytes(node)
    BY <1>3, <2>2 DEF FrameOK, Bytes
  <2>4. ws = Naming(whole, "undecodable")
    BY <1>1, <1>5, <2>1 DEF Wrapped
  <2>5. /\ \A w \in ToSet(ws) : IsRegion(w) /\ Bytes(w) = Bytes(whole)
        /\ \A b \in Bytes(whole) : \E w \in ToSet(ws) : b \in Bytes(w)
    BY <2>3, <2>4, NamingSays
  <2> QED
    BY <1>2, <1>3, <1>4, <2>3, <2>5
<1>6. CASE ~refused
  <2>1. ws = u.writes
    BY <1>1, <1>6 DEF Wrapped
  <2>2. \A w \in ToSet(ws) : Bytes(w) \subseteq Bytes(node)
    BY <1>3, <2>1 DEF Accounts, Fits
  <2>3. \A b \in Bytes(node) : \E w \in ToSet(ws) : b \in Bytes(w)
    BY <1>3, <2>1 DEF Accounts, Speaks
  <2> QED
    BY <1>2, <1>3, <1>4, <2>1, <2>2, <2>3
<1> QED
  BY <1>5, <1>6

LEMMA LeaveGroupSpoken ==
  ASSUME Stacked(stack), Spoken(stack), stop \in {"no", "undecodable", "truncated"}, LeaveGroup
  PROVE  Spoken(stack')
<1>1. PICK refused \in BOOLEAN :
        \E status, node, vs :
          /\ status = StatusOf(refused)
          /\ node = Unit(Top, status, refused)
          /\ vs = Wrapped(Top, refused)
          /\ stack # <<>> /\ Top.kind = "group"
          /\ BackInto(Took(Parent, node, Top.at, Parent.writes \o vs))
  BY DEF LeaveGroup
<1>2. PICK status, node, vs :
        /\ status = StatusOf(refused)
        /\ node = Unit(Top, status, refused)
        /\ vs = Wrapped(Top, refused)
        /\ stack # <<>> /\ Top.kind = "group"
        /\ BackInto(Took(Parent, node, Top.at, Parent.writes \o vs))
  BY <1>1
<1>3. PICK f : f = Parent
  OBVIOUS
<1>4. PICK u : u = Top
  OBVIOUS
<1>5. FrameOK(u) /\ FrameOK(f) /\ Nested(f, u) /\ Accounts(u) /\ Accounts(f)
  BY <1>2, <1>3, <1>4, InnerOf, InnerSpoken
<1>6. u.path = NextPath(f) /\ u.from = f.at
  BY <1>2, <1>4, <1>5 DEF Nested
<1>7. Left(u, node, vs)
  <2>1. status \in {"ok", "undecodable", "truncated"}
    BY <1>2 DEF StatusOf
  <2>2. node = Unit(u, status, refused) /\ vs = Wrapped(u, refused)
    BY <1>2, <1>4
  <2> QED
    BY <2>1, <2>2, Zenon DEF Left
<1>8. /\ Bytes(node) = u.from .. u.at - 1 /\ vs \in Seq(Write) /\ ~node.none
      /\ \A w \in ToSet(vs) : Bytes(w) \subseteq Bytes(node) /\ (IsRegion(w) \/ w \in ToSet(u.writes))
      /\ \A b \in Bytes(node) : \E w \in ToSet(vs) : b \in Bytes(w)
  BY <1>5, <1>7, WrappedSays
<1>9. node.kind = "group" /\ node.from = u.from
  BY <1>5, <1>7, WrappedRecords
<1>10. PICK at \in Nat : at = u.at
  BY <1>5 DEF FrameOK
<1>11. f.at <= at /\ f.from <= f.at /\ f.at \in Nat /\ f.from \in Nat
  BY <1>5, <1>6, <1>10 DEF FrameOK
<1>12. Reads(node, f.nodes) /\ Begun(f, node)
  BY <1>6, <1>8, <1>9, <1>11 DEF Reads, Begun
<1>13. PICK g : g = Took(f, node, at, f.writes \o vs)
  OBVIOUS
<1>14. Grown(f, g, node) /\ g.at = at /\ g.from = f.from
  BY <1>5, <1>11, <1>13, TookGrown
<1>15. ASSUME NEW w \in ToSet(vs) PROVE Fits(g, w) /\ ~Joins(g, w)
  <2>1. Bytes(w) \subseteq g.from .. g.at - 1
    BY <1>6, <1>8, <1>10, <1>11, <1>14
  <2>2. CASE IsRegion(w)
    BY <2>1, <2>2, RegionFits
  <2>3. CASE ~IsRegion(w)
    <3>1. w \in ToSet(u.writes)
      BY <1>8, <2>3
    <3>2. IsRecord(w)
      BY <1>5, <2>3, <3>1, RecordOrRegion DEF FrameOK
    <3>3. w.role \in Roles(u.writes)
      BY <1>5, <3>1, <3>2, InnerRole
    <3>4. PICK rel \in Seq(Nat) : rel # <<>> /\ w.role = NextPath(f) \o rel
      BY <1>5, <1>6, <3>3, InnerRel
    <3>5. node.kind # "chunks" /\ node.kind # "concat"
      BY <1>9
    <3> QED
      BY <1>5, <1>12, <1>14, <2>1, <3>4, <3>5, FitsInside
  <2> QED
    BY <2>2, <2>3
<1>16. ASSUME NEW b \in f.at .. at - 1 PROVE \E w \in ToSet(vs) : b \in Bytes(w) /\ ~Joins(g, w)
  <2>1. b \in Bytes(node)
    BY <1>6, <1>8, <1>10
  <2> QED
    BY <1>8, <1>15, <2>1
<1>17. Accounts(g)
  BY <1>5, <1>8, <1>11, <1>12, <1>13, <1>15, <1>16, FieldAccounts
<1>18. g.kind = f.kind /\ g.head = f.head
  BY <1>5, <1>13, TookKeeps
<1>19. BackInto(g) /\ Top.kind # "message"
  BY <1>2, <1>3, <1>4, <1>10, <1>13
<1> QED
  BY <1>2, <1>3, <1>17, <1>18, <1>19, BackIntoSpoken

(* What a generated module has written is of the bytes its message read,   *)
(* and of all of them.                                                     *)
OutSpeaks ==
  /\ \A w \in ToSet(out) : Bytes(w) \subseteq Bytes(tree)
  /\ \A b \in Bytes(tree) : \E w \in ToSet(out) : b \in Bytes(w)

LEMMA FinishSpoken ==
  ASSUME Stacked(stack), Spoken(stack), stop \in {"no", "undecodable", "truncated"}, Finish
  PROVE  Spoken(stack') /\ OutSpeaks'
<1>1. PICK refused \in BOOLEAN :
        \E status :
          /\ Len(stack) = 1
          /\ status = StatusOf(refused)
          /\ tree' = Unit(Top, status, refused)
          /\ out' = Wrapped(Top, refused)
          /\ stack' = <<>>
  BY DEF Finish
<1>2. PICK status :
        /\ Len(stack) = 1
        /\ status = StatusOf(refused)
        /\ tree' = Unit(Top, status, refused)
        /\ out' = Wrapped(Top, refused)
        /\ stack' = <<>>
  BY <1>1
<1>3. stack # <<>>
  BY <1>2
<1>4. PICK u : u = Top
  OBVIOUS
<1>5. FrameOK(u) /\ Accounts(u)
  BY <1>3, <1>4, TopOf, TopSpoken DEF Top
<1>6. PICK node : node = tree'
  OBVIOUS
<1>7. PICK ws : ws = out'
  OBVIOUS
<1>8. Left(u, node, ws)
  <2>1. status \in {"ok", "undecodable", "truncated"}
    BY <1>2 DEF StatusOf
  <2>2. node = Unit(u, status, refused) /\ ws = Wrapped(u, refused)
    BY <1>2, <1>4, <1>6, <1>7
  <2> QED
    BY <2>1, <2>2, Zenon DEF Left
<1>9. /\ \A w \in ToSet(ws) : Bytes(w) \subseteq Bytes(node)
      /\ \A b \in Bytes(node) : \E w \in ToSet(ws) : b \in Bytes(w)
  BY <1>5, <1>8, WrappedSays
<1>10. OutSpeaks'
  BY <1>6, <1>7, <1>9 DEF OutSpeaks
<1>11. Spoken(stack')
  BY <1>2, EmptyIsSeq DEF Spoken
<1> QED
  BY <1>10, <1>11

LEMMA ReadFieldSpoken ==
  ASSUME Stacked(stack), Spoken(stack), ReadField
  PROVE  Spoken(stack')
<1>1. stack # <<>>
  BY DEF ReadField, Decoding
<1>2. CASE ReadLeaf
  BY <1>1, <1>2, ReadLeafSpoken
<1>3. CASE ReadWrongConst
  BY <1>1, <1>3, ReadWrongConstSpoken
<1>4. CASE ReadTruncated
  BY <1>1, <1>4, ReadTruncatedSpoken
<1>5. CASE ReadChunks
  BY <1>1, <1>5, ReadChunksSpoken
<1>6. CASE ReadConcat
  BY <1>1, <1>6, ReadConcatSpoken
<1>7. CASE ReadTransform
  BY <1>1, <1>7, ReadTransformSpoken
<1>8. CASE OpenOutput
  BY <1>1, <1>8, OpenOutputSpoken
<1>9. CASE EnterGroup
  BY <1>1, <1>9, EnterGroupSpoken
<1> QED
  BY <1>2, <1>3, <1>4, <1>5, <1>6, <1>7, <1>8, <1>9 DEF ReadField

(* The invariant.                                                          *)
SpokenInv == Inv /\ Spoken(stack) /\ OutSpeaks

LEMMA InitSpoken == Init => SpokenInv
<1> SUFFICES ASSUME Init PROVE Spoken(stack) /\ OutSpeaks
  BY InitInv DEF SpokenInv
<1>1. PICK f : f = Frame("message", 0, Extent, <<>>, NoNode)
  OBVIOUS
<1>2. stack = <<f>>
  BY <1>1 DEF Init
<1>3. Accounts(f)
  <2>1. 0 \in Nat
    OBVIOUS
  <2> QED
    BY <1>1, <2>1, BeginsSpoken
<1>4. Len(stack) = 1 /\ stack[1] = f
  BY <1>2
<1>5. OutSpeaks
  <2>1. out = <<>> /\ tree.from = 0 /\ tree.to = 0
    BY DEF Init, NoNode, Node
  <2>2. ToSet(out) = {}
    BY <2>1, OneWrite
  <2>3. Bytes(tree) = {}
    BY <2>1 DEF Bytes
  <2> QED
    BY <2>2, <2>3 DEF OutSpeaks
<1> QED
  BY <1>3, <1>4, <1>5 DEF Spoken

LEMMA NextSpoken ==
  ASSUME "silent_output" \notin Quirks
  PROVE  SpokenInv /\ [Next]_vars => SpokenInv'
<1> SUFFICES ASSUME SpokenInv, [Next]_vars PROVE Spoken(stack') /\ OutSpeaks'
  BY NextInv DEF SpokenInv
<1>1. /\ Inv /\ Stacked(stack) /\ stop \in {"no", "undecodable", "truncated"}
      /\ Spoken(stack) /\ OutSpeaks
  BY DEF SpokenInv, Inv
<1>2. ASSUME tree' = tree, out' = out PROVE OutSpeaks'
  BY <1>1, <1>2 DEF OutSpeaks
<1>3. CASE ReadField
  BY <1>1, <1>2, <1>3, ReadFieldOK, ReadFieldSpoken
<1>4. CASE CloseOutput
  BY <1>1, <1>2, <1>4, CloseOutputOK, CloseOutputSpoken
<1>5. CASE FailOutput
  BY <1>1, <1>2, <1>5, FailOutputOK, FailOutputSpoken
<1>6. CASE LeaveGroup
  BY <1>1, <1>2, <1>6, LeaveGroupOK, LeaveGroupSpoken
<1>7. CASE Finish
  BY <1>1, <1>7, FinishSpoken
<1>8. CASE UNCHANGED vars
  BY <1>1, <1>2, <1>8 DEF vars
<1> QED
  BY <1>3, <1>4, <1>5, <1>6, <1>7, <1>8 DEF Next

LEMMA SpokenMeans == SpokenInv => AllSpokenFor
<1> SUFFICES ASSUME SpokenInv
             PROVE  Cited(out) \cup {n[1] : n \in Named(out)} = Bytes(tree)
  BY DEF AllSpokenFor
<1>1. out \in Seq(Write) /\ OutSpeaks
  BY DEF SpokenInv, Inv, OutOK
<1>2. Cited(out) = {b \in Bytes(tree) : \E w \in ToSet(out) : IsRecord(w) /\ b \in Bytes(w)}
  BY <1>1 DEF Cited, OutSpeaks
<1>3. {n[1] : n \in Named(out)} = {b \in Bytes(tree) : \E w \in ToSet(out) : IsRegion(w) /\ b \in Bytes(w)}
  <2>1. ASSUME NEW n \in Named(out)
        PROVE  n[1] \in Bytes(tree) /\ \E w \in ToSet(out) : IsRegion(w) /\ n[1] \in Bytes(w)
    <3>1. PICK w \in {v \in ToSet(out) : IsRegion(v)} : n \in Bytes(w) \X {w.reason}
      BY DEF Named
    <3>2. n[1] \in Bytes(w)
      BY <3>1
    <3> QED
      BY <1>1, <3>1, <3>2 DEF OutSpeaks
  <2>2. ASSUME NEW b \in Bytes(tree), \E w \in ToSet(out) : IsRegion(w) /\ b \in Bytes(w)
        PROVE  b \in {n[1] : n \in Named(out)}
    <3>1. PICK w \in ToSet(out) : IsRegion(w) /\ b \in Bytes(w)
      BY <2>2
    <3>2. PICK n : n = <<b, w.reason>>
      OBVIOUS
    <3>3. n \in Bytes(w) \X {w.reason} /\ n[1] = b
      BY <3>1, <3>2
    <3>4. n \in Named(out)
      BY <3>1, <3>3 DEF Named
    <3> QED
      BY <3>3, <3>4
  <2> QED
    BY <2>1, <2>2
<1>4. \A w \in ToSet(out) : IsRecord(w) \/ IsRegion(w)
  BY <1>1, RecordOrRegion
<1> QED
  BY <1>1, <1>2, <1>3, <1>4 DEF OutSpeaks

(* Every byte a message read is cited by a record or named by a region     *)
(* when a generated module is done with it, though it looks for no holes   *)
(* (account and take_over in kober.runtime): of any message, of which no   *)
(* output has only fields that write nothing.                              *)
THEOREM EveryByteSpokenFor ==
  ASSUME "silent_output" \notin Quirks
  PROVE  Spec => []AllSpokenFor
<1>1. Init => SpokenInv
  BY InitSpoken
<1>2. SpokenInv /\ [Next]_vars => SpokenInv'
  BY NextSpoken
<1>3. SpokenInv => AllSpokenFor
  BY SpokenMeans
<1> QED
  BY <1>1, <1>2, <1>3, PTL DEF Spec
=============================================================================
