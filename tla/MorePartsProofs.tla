-------------------------- MODULE MorePartsProofs --------------------------
(***************************************************************************)
(* Theorems about the rest of the parts that PartsSpec brings together,    *)
(* laid out as in PartsProofs.  The prover takes its time for every fact   *)
(* in scope: the module stands beside PartsProofs, not on it, and begins   *)
(* with the few lemmas about sequences that both need.                     *)
(*                                                                         *)
(*   protocols   ProtoIInv: each list has its permanent protocols at the   *)
(*               end, and before them the others, the newest first         *)
(*   start       StartIInv: what is done is what the labels take back      *)
(*   names       NamesIInv: a name is in the table with one device, and    *)
(*               sysfs and the links have what the task under way has left *)
(*   namespaces  ExitIInv: a device on its way out is on the list of one   *)
(*               actor, and a loopback device behind those of its namespace*)
(*   texts       TextsIInv: the rules are those of the clicked flows, and  *)
(*               a row has the columns of its packet                       *)
(***************************************************************************)
EXTENDS Parts, SeqOps, Integers, FiniteSetTheorems, SequenceTheorems, WellFoundedInduction,
        TLAPS
-----------------------------------------------------------------------------
(* Sequences, and what Only, a fold, keeps of them                         *)

LEMMA PartOfSeq ==
  ASSUME NEW S, NEW s \in Seq(S), NEW m \in 1 .. Len(s) + 1, NEW n \in 0 .. Len(s), m <= n + 1
  PROVE  /\ SubSeq(s, m, n) \in Seq(S) /\ Len(SubSeq(s, m, n)) = n - m + 1
         /\ \A k \in 1 .. n - m + 1 : SubSeq(s, m, n)[k] = s[m + k - 1]
<1>1. Len(s) \in Nat /\ \A k \in m .. n : s[k] \in S
  OBVIOUS
<1>2. /\ SubSeq(s, m, n) \in Seq(S)
      /\ Len(SubSeq(s, m, n)) = IF m <= n THEN n - m + 1 ELSE 0
      /\ \A i \in 1 .. n - m + 1 : SubSeq(s, m, n)[i] = s[m + i - 1]
  BY <1>1, SubSeqProperties
<1> QED
  BY <1>1, <1>2

LEMMA AtEnd ==
  ASSUME NEW S, NEW s \in Seq(S), NEW t \in Seq(S)
  PROVE  /\ s \o t \in Seq(S) /\ Len(s \o t) = Len(s) + Len(t)
         /\ \A k \in 1 .. Len(s) : (s \o t)[k] = s[k]
         /\ \A k \in Len(s) + 1 .. Len(s) + Len(t) : (s \o t)[k] = t[k - Len(s)]
  OBVIOUS

LEMMA OneMoreAtEnd ==
  ASSUME NEW S, NEW s \in Seq(S), NEW x \in S
  PROVE  /\ Append(s, x) \in Seq(S) /\ Len(Append(s, x)) = Len(s) + 1
         /\ Append(s, x)[Len(s) + 1] = x
         /\ Len(s) \in Nat /\ \A k \in 1 .. Len(s) : Append(s, x)[k] = s[k] /\ s[k] \in S
  OBVIOUS

\* A set of numbers that is not empty has a smallest one.
LEMMA Smallest == ASSUME NEW M \in SUBSET Nat, M # {}
                  PROVE  \E m \in M : \A k \in M : m <= k
<1> DEFINE R == OpToRel(<, Nat)
<1>1. PICK m \in M : \A k \in M : ~ (<<k, m>> \in R)
  BY NatLessThanWellFounded, WFMin, Zenon
<1>2. \A k, l \in Nat : k < l => <<k, l>> \in R
  BY DEF OpToRel
<1> HIDE DEF R
<1>3. \A k \in M : ~ (k < m)
  BY <1>1, <1>2
<1> QED
  BY <1>3

\* No element is there twice.
Distinct(s) == \A i, j \in 1 .. Len(s) : i # j => s[i] # s[j]

\* What the fold of Only computes over the first k elements
OnlyStep(kept, e, S) == IF e \in S THEN Append(kept, e) ELSE kept

KeepsTo(g, s, S, k) ==
    g = [m \in 0 .. k |-> IF m = 0 THEN <<>> ELSE OnlyStep(g[m - 1], s[m], S)]

LEMMA KeepsSome ==
  ASSUME NEW s, NEW S, NEW k \in Nat
  PROVE  \E g : KeepsTo(g, s, S, k)
<1> DEFINE Missing == {m \in Nat : ~ \E g : KeepsTo(g, s, S, m)}
<1>1. SUFFICES ASSUME Missing # {} PROVE FALSE
  OBVIOUS
<1>2. PICK m \in Missing : \A l \in Missing : m <= l
  BY <1>1, Smallest
<1>3. m \in Nat /\ ~ \E g : KeepsTo(g, s, S, m)
  OBVIOUS
<1>4. CASE m = 0
  <2> DEFINE g == [l \in 0 .. 0 |-> <<>>]
  <2>1. g = [l \in 0 .. 0 |-> IF l = 0 THEN <<>> ELSE OnlyStep(g[l - 1], s[l], S)]
    OBVIOUS
  <2> QED
    BY <1>3, <1>4, <2>1 DEF KeepsTo
<1>5. CASE m # 0
  <2>1. m - 1 \in Nat /\ m - 1 \notin Missing
    BY <1>2, <1>3, <1>5
  <2>2. PICK h : KeepsTo(h, s, S, m - 1)
    BY <2>1
  <2> DEFINE g == [l \in 0 .. m |-> IF l = m THEN OnlyStep(h[m - 1], s[m], S) ELSE h[l]]
  <2>3. ASSUME NEW l \in 0 .. m PROVE g[l] = IF l = 0 THEN <<>> ELSE OnlyStep(g[l - 1], s[l], S)
    <3>1. CASE l = m
      <4>1. m - 1 \in 0 .. m /\ m - 1 # m
        BY <1>3, <1>5
      <4>2. g[m - 1] = h[m - 1]
        BY <4>1
      <4> QED
        BY <1>5, <3>1, <4>2
    <3>2. CASE l # m /\ l # 0
      <4>1. l \in 0 .. m - 1 /\ l - 1 \in 0 .. m /\ l - 1 # m
        BY <1>3, <3>2
      <4>2. g[l - 1] = h[l - 1] /\ g[l] = h[l]
        BY <3>2, <4>1
      <4>3. h[l] = OnlyStep(h[l - 1], s[l], S)
        BY <2>2, <3>2, <4>1 DEF KeepsTo
      <4> QED
        BY <3>2, <4>2, <4>3
    <3>3. CASE l = 0
      <4>1. l \in 0 .. m - 1 /\ l # m
        BY <1>3, <1>5, <3>3
      <4>2. h[l] = <<>>
        BY <2>2, <3>3, <4>1 DEF KeepsTo
      <4> QED
        BY <3>3, <4>1, <4>2
    <3> QED
      BY <3>1, <3>2, <3>3
  <2>4. g = [l \in 0 .. m |-> IF l = 0 THEN <<>> ELSE OnlyStep(g[l - 1], s[l], S)]
    BY <2>3
  <2> QED
    BY <1>3, <2>4 DEF KeepsTo
<1> QED
  BY <1>4, <1>5

LEMMA OnlyIs ==
  ASSUME NEW T, NEW s \in Seq(T), NEW S
  PROVE  /\ Only(s, S) \in Seq(T) /\ ToSet(Only(s, S)) = ToSet(s) \cap S
         /\ \A i, j \in 1 .. Len(Only(s, S)) : i < j =>
                \E k, l \in 1 .. Len(s) : k < l /\ Only(s, S)[i] = s[k] /\ Only(s, S)[j] = s[l]
<1> DEFINE n == Len(s)
           Found(r, i, m) == \E k \in 1 .. m : r[i] = s[k]
           Ordered(r, m) == \A i, j \in 1 .. Len(r) : i < j =>
                                \E k, l \in 1 .. m : k < l /\ r[i] = s[k] /\ r[j] = s[l]
           Right(r, m) == /\ r \in Seq(T) /\ Ordered(r, m)
                          /\ \A i \in 1 .. Len(r) : r[i] \in S /\ Found(r, i, m)
                          /\ \A k \in 1 .. m : s[k] \in S => \E i \in 1 .. Len(r) : r[i] = s[k]
<1>1. n \in Nat /\ \A k \in 1 .. n : s[k] \in T
  OBVIOUS
<1>2. Only(s, S) = (CHOOSE g : KeepsTo(g, s, S, n))[n]
  BY DEF Only, FoldLeft, KeepsTo, OnlyStep
<1> HIDE DEF n
<1>3. PICK g : g = CHOOSE h : KeepsTo(h, s, S, n)
  OBVIOUS
<1>4. KeepsTo(g, s, S, n)
  BY <1>1, <1>3, KeepsSome
<1>5. g[0] = <<>> /\ \A m \in 1 .. n : g[m] = OnlyStep(g[m - 1], s[m], S)
  BY <1>1, <1>4 DEF KeepsTo
<1>6. Right(g[0], 0)
  <2>1. g[0] \in Seq(T) /\ Len(g[0]) = 0
    BY <1>5
  <2> QED
    BY <2>1
<1>7. ASSUME NEW m \in 1 .. n, Right(g[m - 1], m - 1) PROVE Right(g[m], m)
  <2> DEFINE r == g[m - 1]
             e == s[m]
  <2>1. r \in Seq(T) /\ e \in T /\ m \in Nat /\ Len(r) \in Nat
    BY <1>1, <1>7
  <2>2. g[m] = OnlyStep(r, e, S)
    BY <1>5
  <2>3. \A k \in 1 .. m : k \in 1 .. m - 1 \/ k = m
    BY <2>1
  <2>4. \A k \in 1 .. m - 1 : k \in 1 .. m
    BY <2>1
  <2>5. /\ Ordered(r, m - 1)
        /\ \A i \in 1 .. Len(r) : r[i] \in S /\ Found(r, i, m - 1)
        /\ \A k \in 1 .. m - 1 : s[k] \in S => \E i \in 1 .. Len(r) : r[i] = s[k]
    BY <1>7
  <2> HIDE DEF r
  <2>6. CASE e \notin S
    <3>1. g[m] = r
      BY <2>2, <2>6 DEF OnlyStep
    <3>2. Ordered(r, m)
      BY <2>4, <2>5
    <3>3. \A i \in 1 .. Len(r) : r[i] \in S /\ Found(r, i, m)
      BY <2>4, <2>5
    <3>4. \A k \in 1 .. m : s[k] \in S => \E i \in 1 .. Len(r) : r[i] = s[k]
      BY <2>3, <2>5, <2>6
    <3> QED
      BY <2>1, <3>1, <3>2, <3>3, <3>4
  <2>7. CASE e \in S
    <3> DEFINE q == Append(r, e)
    <3>1. g[m] = q
      BY <2>2, <2>7 DEF OnlyStep
    <3>2. /\ q \in Seq(T) /\ Len(q) = Len(r) + 1 /\ q[Len(r) + 1] = e
          /\ \A i \in 1 .. Len(r) : q[i] = r[i]
      BY <2>1, OneMoreAtEnd
    <3> HIDE DEF q, e
    <3>3. \A i \in 1 .. Len(q) : i \in 1 .. Len(r) \/ i = Len(r) + 1
      BY <2>1, <3>2
    <3>4. ASSUME NEW i \in 1 .. Len(q), NEW j \in 1 .. Len(q), i < j
          PROVE  \E k, l \in 1 .. m : k < l /\ q[i] = s[k] /\ q[j] = s[l]
      <4>1. i \in 1 .. Len(r) /\ q[i] = r[i]
        BY <2>1, <3>2, <3>3, <3>4
      <4>2. CASE j \in 1 .. Len(r)
        <5>1. PICK k \in 1 .. m - 1, l \in 1 .. m - 1 : k < l /\ r[i] = s[k] /\ r[j] = s[l]
          BY <2>5, <3>4, <4>1, <4>2
        <5> QED
          BY <2>4, <3>2, <4>1, <4>2, <5>1
      <4>3. CASE j = Len(r) + 1
        <5>1. PICK k \in 1 .. m - 1 : r[i] = s[k]
          BY <2>5, <4>1
        <5>2. k \in 1 .. m /\ m \in 1 .. m /\ k < m
          BY <2>1, <5>1
        <5>3. q[j] = s[m]
          BY <3>2, <4>3 DEF e
        <5> QED
          BY <4>1, <5>1, <5>2, <5>3
      <4> QED
        BY <3>3, <4>2, <4>3
    <3>5. \A i \in 1 .. Len(q) : q[i] \in S /\ Found(q, i, m)
      <4>1. ASSUME NEW i \in 1 .. Len(r) PROVE q[i] \in S /\ Found(q, i, m)
        <5>1. q[i] = r[i] /\ r[i] \in S /\ Found(r, i, m - 1)
          BY <2>5, <3>2, <4>1
        <5>2. PICK k \in 1 .. m - 1 : r[i] = s[k]
          BY <5>1
        <5>3. k \in 1 .. m
          BY <2>4, <5>2
        <5> QED
          BY <5>1, <5>2, <5>3
      <4>2. q[Len(r) + 1] \in S /\ Found(q, Len(r) + 1, m)
        <5>1. m \in 1 .. m
          BY <2>1
        <5> QED
          BY <2>7, <3>2, <5>1 DEF e
      <4> QED
        BY <3>3, <4>1, <4>2
    <3>6. \A k \in 1 .. m : s[k] \in S => \E i \in 1 .. Len(q) : q[i] = s[k]
      <4>1. \A i \in 1 .. Len(r) : i \in 1 .. Len(q)
        BY <2>1, <3>2
      <4>2. Len(r) + 1 \in 1 .. Len(q)
        BY <2>1, <3>2
      <4> QED
        BY <2>3, <2>5, <3>2, <4>1, <4>2 DEF e
    <3> QED
      BY <3>1, <3>2, <3>4, <3>5, <3>6
  <2> QED
    BY <2>6, <2>7
<1> DEFINE Wrong == {m \in Nat : m <= n /\ ~Right(g[m], m)}
<1> HIDE DEF Right
<1>8. Wrong = {}
  <2>1. SUFFICES ASSUME Wrong # {} PROVE FALSE
    OBVIOUS
  <2>2. PICK m \in Wrong : \A k \in Wrong : m <= k
    BY <2>1, Smallest
  <2>3. m \in Nat /\ m # 0 /\ m <= n
    BY <1>6, <2>2
  <2>4. m - 1 \in Nat /\ m - 1 <= n /\ m - 1 \notin Wrong /\ m \in 1 .. n
    BY <1>1, <2>2, <2>3
  <2> QED
    BY <1>7, <2>2, <2>4
<1>9. Right(Only(s, S), n)
  BY <1>1, <1>2, <1>3, <1>8
<1>10. ToSet(Only(s, S)) = ToSet(s) \cap S
  <2> DEFINE r == Only(s, S)
  <2>1. /\ \A i \in 1 .. Len(r) : r[i] \in S /\ \E k \in 1 .. Len(s) : r[i] = s[k]
        /\ \A k \in 1 .. Len(s) : s[k] \in S => \E i \in 1 .. Len(r) : r[i] = s[k]
    BY <1>9 DEF Right, n
  <2> HIDE DEF r
  <2>2. ToSet(r) \subseteq ToSet(s) \cap S
    BY <2>1 DEF ToSet
  <2>3. ToSet(s) \cap S \subseteq ToSet(r)
    BY <2>1 DEF ToSet
  <2> QED
    BY <2>2, <2>3 DEF r
<1> QED
  BY <1>9, <1>10 DEF Right, n

LEMMA OnlyDistinct ==
  ASSUME NEW T, NEW s \in Seq(T), NEW S, Distinct(s)
  PROVE  Distinct(Only(s, S))
<1> DEFINE r == Only(s, S)
<1>1. \A i, j \in 1 .. Len(r) : i < j =>
          \E k, l \in 1 .. Len(s) : k < l /\ r[i] = s[k] /\ r[j] = s[l]
  BY OnlyIs
<1>2. Len(s) \in Nat /\ Len(r) \in Nat
  BY OnlyIs
<1> HIDE DEF r
<1>3. ASSUME NEW i \in 1 .. Len(r), NEW j \in 1 .. Len(r), i < j PROVE r[i] # r[j]
  <2>1. PICK k \in 1 .. Len(s), l \in 1 .. Len(s) : k < l /\ r[i] = s[k] /\ r[j] = s[l]
    BY <1>1, <1>3
  <2>2. k # l
    BY <1>2, <2>1
  <2> QED
    BY <2>1, <2>2 DEF Distinct
<1>4. \A i, j \in 1 .. Len(r) : i # j => i < j \/ j < i
  BY <1>2
<1> QED
  BY <1>3, <1>4 DEF Distinct, r
-----------------------------------------------------------------------------
(* The registration of protocols                                         *)

\* e comes before f in s
Before(s, e, f) == \E k, l \in 1 .. Len(s) : k < l /\ s[k] = e /\ s[l] = f

LEMMA ProtoOnlyIs ==
  ASSUME NEW T, NEW s \in Seq(T), NEW S
  PROVE  /\ Protocols!Only(s, S) \in Seq(T)
         /\ Protocols!ToSet(Protocols!Only(s, S)) = Protocols!ToSet(s) \cap S
         /\ \A i, j \in 1 .. Len(Protocols!Only(s, S)) : i < j =>
                \E k, l \in 1 .. Len(s) :
                    k < l /\ Protocols!Only(s, S)[i] = s[k] /\ Protocols!Only(s, S)[j] = s[l]
<1>1. /\ Protocols!Only(s, S) = Only(s, S) /\ Protocols!ToSet(s) = ToSet(s)
      /\ Protocols!ToSet(Only(s, S)) = ToSet(Only(s, S))
  BY DEF Protocols!Only, Only, Protocols!FoldLeft, FoldLeft, Protocols!ToSet, ToSet
<1> QED
  BY <1>1, OnlyIs

LEMMA ProtoOnlyDistinct ==
  ASSUME NEW T, NEW s \in Seq(T), NEW S, Distinct(s)
  PROVE  Distinct(Protocols!Only(s, S))
<1>1. Protocols!Only(s, S) = Only(s, S)
  BY DEF Protocols!Only, Only, Protocols!FoldLeft, FoldLeft
<1> QED
  BY <1>1, OnlyDistinct

\* Permanent entries come first, in the order of registration, the others behind in the
\* reverse of it.
Precedes(s, e, f) == IF e.permanent THEN f.permanent => Before(s, e, f)
                     ELSE ~f.permanent /\ Before(s, f, e)

\* The list l of type t, when the entries of s are registered
Arranged(l, s, t) == /\ l \in Seq(Entry)
                     /\ Protocols!ToSet(l) = {e \in Protocols!ToSet(s) : e.type = t}
                     /\ \A i, j \in 1 .. Len(l) : i < j => Precedes(s, l[i], l[j])

ProtoIInv == /\ since \in Seq(Entry) /\ Distinct(since)
             /\ DOMAIN inetsw = Type
             /\ \A t \in Type : Arranged(inetsw[t], since, t)

LEMMA BeforeOnce ==
  ASSUME NEW s \in Seq(Entry), Distinct(s), NEW e, NEW f, Before(s, e, f)
  PROVE  e # f /\ ~Before(s, f, e)
<1>1. PICK k \in 1 .. Len(s), l \in 1 .. Len(s) : k < l /\ s[k] = e /\ s[l] = f
  BY DEF Before
<1>2. Len(s) \in Nat /\ \A i, j \in 1 .. Len(s) : s[i] = s[j] => i = j
  BY DEF Distinct
<1>3. e # f
  BY <1>1, <1>2
<1>4. ASSUME NEW m \in 1 .. Len(s), NEW n \in 1 .. Len(s), m < n, s[m] = f, s[n] = e PROVE FALSE
  <2>1. m = l /\ n = k
    BY <1>1, <1>2, <1>4
  <2> QED
    BY <1>1, <1>2, <1>4, <2>1
<1> QED
  BY <1>3, <1>4 DEF Before

LEMMA ListElement ==
  ASSUME NEW l, NEW s \in Seq(Entry), NEW t, Arranged(l, s, t), NEW i \in 1 .. Len(l)
  PROVE  l[i] \in Protocols!ToSet(s) /\ l[i] \in Entry /\ l[i].type = t
<1>1. l[i] \in Protocols!ToSet(l)
  BY DEF Protocols!ToSet
<1>2. l[i] \in Protocols!ToSet(s) /\ l[i].type = t
  BY <1>1 DEF Arranged
<1>3. \A k \in 1 .. Len(s) : s[k] \in Entry
  OBVIOUS
<1> QED
  BY <1>2, <1>3 DEF Protocols!ToSet

LEMMA LastPermanentIs ==
  ASSUME NEW l, NEW s \in Seq(Entry), NEW t, Arranged(l, s, t)
  PROVE  /\ Protocols!LastPermanent(l) \in 0 .. Len(l)
         /\ \A i \in 1 .. Protocols!LastPermanent(l) : l[i].permanent
         /\ \A i \in Protocols!LastPermanent(l) + 1 .. Len(l) : ~l[i].permanent
<1> DEFINE AllPermanent(n) == \A i \in 1 .. n : l[i].permanent
           F == {n \in 0 .. Len(l) : AllPermanent(n)}
           m == Protocols!LastPermanent(l)
<1>1. Len(l) \in Nat
  BY DEF Arranged
<1>2. \E n \in F : \A k \in F : k <= n
  <2> DEFINE M == {n \in Nat : \A k \in F : k <= n}
  <2>1. Len(l) \in M
    BY <1>1
  <2>2. PICK n \in M : \A k \in M : n <= k
    BY <2>1, Smallest
  <2>3. 0 \in F
    BY <1>1
  <2>4. n \in Nat /\ \A k \in F : k <= n
    OBVIOUS
  <2>5. n \in F
    <3>1. CASE n = 0
      BY <2>3, <3>1
    <3>2. CASE n # 0
      <4>1. n - 1 \notin M /\ n - 1 \in Nat
        BY <2>2, <2>4, <3>2
      <4>2. PICK k \in F : ~(k <= n - 1)
        BY <4>1
      <4>3. k \in Nat /\ k <= n
        BY <1>1, <2>4
      <4> HIDE DEF F, M
      <4>4. k = n
        BY <2>4, <4>2, <4>3
      <4> QED
        BY <4>4
    <3> QED
      BY <3>1, <3>2
  <2> HIDE DEF F, M
  <2> QED
    BY <2>4, <2>5
<1>3. m = CHOOSE n \in F : \A k \in F : k <= n
  BY DEF Protocols!LastPermanent
<1>4. m \in F /\ \A k \in F : k <= m
  <2> HIDE DEF m, F
  <2> QED
    BY <1>2, <1>3
<1> HIDE DEF m
<1>5. m \in 0 .. Len(l) /\ AllPermanent(m)
  BY <1>4
<1>6. ASSUME m < Len(l) PROVE ~l[m + 1].permanent
  <2>1. m + 1 \notin F /\ m + 1 \in 0 .. Len(l)
    <3> HIDE DEF F
    <3>1. m + 1 \in F => m + 1 <= m
      BY <1>4
    <3> QED
      BY <1>1, <1>5, <1>6, <3>1
  <2>2. PICK i \in 1 .. m + 1 : ~l[i].permanent
    BY <2>1
  <2>3. i = m + 1
    BY <1>5, <2>2
  <2> QED
    BY <2>2, <2>3
<1>7. ASSUME NEW i \in m + 1 .. Len(l) PROVE ~l[i].permanent
  <2>1. CASE i = m + 1
    BY <1>1, <1>5, <1>6, <2>1
  <2>2. CASE i # m + 1
    <3>1. m < Len(l) /\ m + 1 \in 1 .. Len(l) /\ i \in 1 .. Len(l) /\ m + 1 < i
      BY <1>1, <1>5, <2>2
    <3>2. Precedes(s, l[m + 1], l[i])
      BY <3>1 DEF Arranged
    <3>3. ~l[m + 1].permanent
      BY <1>6, <3>1
    <3> QED
      BY <3>2, <3>3 DEF Precedes
  <2> QED
    BY <2>1, <2>2
<1> QED
  BY <1>5, <1>7 DEF m

LEMMA BeforeAppend ==
  ASSUME NEW s \in Seq(Entry), NEW p \in Entry, NEW e, NEW f
  PROVE  /\ Before(s, e, f) => Before(Append(s, p), e, f)
         /\ e \in Protocols!ToSet(s) => Before(Append(s, p), e, p)
         /\ Protocols!ToSet(Append(s, p)) = Protocols!ToSet(s) \cup {p}
<1> DEFINE r == Append(s, p)
<1>1. /\ r \in Seq(Entry) /\ Len(r) = Len(s) + 1 /\ r[Len(s) + 1] = p
      /\ Len(s) \in Nat /\ \A k \in 1 .. Len(s) : r[k] = s[k]
  BY OneMoreAtEnd
<1> HIDE DEF r
<1>2. /\ \A k \in 1 .. Len(s) : k \in 1 .. Len(r) /\ k < Len(s) + 1
      /\ Len(s) + 1 \in 1 .. Len(r)
      /\ \A k \in 1 .. Len(r) : k \in 1 .. Len(s) \/ k = Len(s) + 1
  BY <1>1
<1>3. Before(s, e, f) => Before(r, e, f)
  BY <1>1, <1>2 DEF Before
<1>4. e \in Protocols!ToSet(s) => Before(r, e, p)
  BY <1>1, <1>2 DEF Before, Protocols!ToSet
<1>5. Protocols!ToSet(r) = Protocols!ToSet(s) \cup {p}
  <2>1. Protocols!ToSet(r) \subseteq Protocols!ToSet(s) \cup {p}
    BY <1>1, <1>2 DEF Protocols!ToSet
  <2>2. Protocols!ToSet(s) \subseteq Protocols!ToSet(r)
    BY <1>1, <1>2 DEF Protocols!ToSet
  <2>3. p \in Protocols!ToSet(r)
    BY <1>1, <1>2 DEF Protocols!ToSet
  <2> QED
    BY <2>1, <2>2, <2>3
<1> QED
  BY <1>3, <1>4, <1>5 DEF r

LEMMA Inserted ==
  ASSUME NEW l \in Seq(Entry), NEW m \in 0 .. Len(l), NEW p \in Entry
  PROVE  /\ Protocols!InsertAt(l, m + 1, p) \in Seq(Entry)
         /\ Len(Protocols!InsertAt(l, m + 1, p)) = Len(l) + 1
         /\ Protocols!InsertAt(l, m + 1, p)[m + 1] = p
         /\ \A i \in 1 .. m : Protocols!InsertAt(l, m + 1, p)[i] = l[i]
         /\ \A i \in m + 2 .. Len(l) + 1 : Protocols!InsertAt(l, m + 1, p)[i] = l[i - 1]
<1> DEFINE a == SubSeq(l, 1, m)
           b == SubSeq(l, m + 1, Len(l))
<1>1. Len(l) \in Nat /\ m \in Nat /\ 1 \in 1 .. Len(l) + 1 /\ 1 <= m + 1 /\ m + 1 - 1 = m
      /\ m + 1 \in 1 .. Len(l) + 1 /\ Len(l) \in 0 .. Len(l) /\ m + 1 <= Len(l) + 1
  OBVIOUS
<1>2. a \in Seq(Entry) /\ Len(a) = m /\ \A k \in 1 .. m : a[k] = l[k]
  <2>1. /\ SubSeq(l, 1, m) \in Seq(Entry) /\ Len(SubSeq(l, 1, m)) = m - 1 + 1
        /\ \A k \in 1 .. m - 1 + 1 : SubSeq(l, 1, m)[k] = l[1 + k - 1]
    BY <1>1, PartOfSeq
  <2> QED
    BY <1>1, <2>1
<1>3. b \in Seq(Entry) /\ Len(b) = Len(l) - m /\ \A k \in 1 .. Len(l) - m : b[k] = l[m + k]
  <2>1. /\ b \in Seq(Entry) /\ Len(b) = Len(l) - (m + 1) + 1
        /\ \A k \in 1 .. Len(l) - (m + 1) + 1 : b[k] = l[m + 1 + k - 1]
    BY <1>1, PartOfSeq
  <2> HIDE DEF b
  <2>2. Len(l) - (m + 1) + 1 = Len(l) - m /\ \A k \in 1 .. Len(l) - m : m + 1 + k - 1 = m + k
    BY <1>1
  <2>3. \A k \in 1 .. Len(l) - m : b[k] = l[m + 1 + k - 1]
    BY <2>1, <2>2
  <2> QED
    BY <2>1, <2>2, <2>3
<1> DEFINE d == a \o <<p>>
           e == d \o b
<1>4. Protocols!InsertAt(l, m + 1, p) = e
  <2>1. (m + 1) - 1 = m
    BY <1>1
  <2>2. Protocols!InsertAt(l, m + 1, p) = (SubSeq(l, 1, (m + 1) - 1) \o <<p>>) \o b
    BY Zenon DEF Protocols!InsertAt
  <2> QED
    BY <2>1, <2>2, Zenon
<1> HIDE DEF a, b
<1>5. /\ d \in Seq(Entry) /\ Len(d) = m + 1 /\ \A k \in 1 .. m : d[k] = l[k]
      /\ d[m + 1] = p
  <2>1. <<p>> \in Seq(Entry) /\ Len(<<p>>) = 1 /\ <<p>>[1] = p
    OBVIOUS
  <2>2. /\ a \o <<p>> \in Seq(Entry) /\ Len(a \o <<p>>) = Len(a) + 1
        /\ \A k \in 1 .. Len(a) : (a \o <<p>>)[k] = a[k]
        /\ \A k \in Len(a) + 1 .. Len(a) + 1 : (a \o <<p>>)[k] = <<p>>[k - Len(a)]
    BY <1>2, <2>1, AtEnd
  <2>3. m + 1 - m = 1 /\ m + 1 \in m + 1 .. m + 1
    BY <1>1
  <2> QED
    BY <1>1, <1>2, <2>1, <2>2, <2>3
<1> HIDE DEF d
<1>6. /\ e \in Seq(Entry) /\ Len(e) = Len(d) + Len(b)
      /\ \A k \in 1 .. Len(d) : e[k] = d[k]
      /\ \A k \in Len(d) + 1 .. Len(d) + Len(b) : e[k] = b[k - Len(d)]
  BY <1>3, <1>5, AtEnd
<1> HIDE DEF e
<1>7. e \in Seq(Entry) /\ Len(e) = Len(l) + 1 /\ e[m + 1] = p /\ \A i \in 1 .. m : e[i] = l[i]
  BY <1>1, <1>3, <1>5, <1>6
<1>8. ASSUME NEW i \in m + 2 .. Len(l) + 1 PROVE e[i] = l[i - 1]
  <2>1. i \in Len(d) + 1 .. Len(d) + Len(b) /\ i - Len(d) = i - 1 - m
        /\ i - 1 - m \in 1 .. Len(l) - m
        /\ m + (i - 1 - m) = i - 1
    BY <1>1, <1>3, <1>5
  <2> QED
    BY <1>3, <1>6, <2>1
<1> QED
  BY <1>4, <1>7, <1>8 DEF e, d

LEMMA RegisteredKeeps ==
  ASSUME NEW l, NEW s \in Seq(Entry), NEW p \in Entry, Arranged(l, s, p.type),
         ~Protocols!Refused(l, p)
  PROVE  Arranged(Protocols!Registered(l, p), Append(s, p), p.type)
<1> DEFINE m == Protocols!LastPermanent(l)
           q == Append(s, p)
<1>1. /\ m \in 0 .. Len(l) /\ \A i \in 1 .. m : l[i].permanent
      /\ \A i \in m + 1 .. Len(l) : ~l[i].permanent
  BY LastPermanentIs
<1>2. l \in Seq(Entry) /\ Len(l) \in Nat
  BY DEF Arranged
<1> HIDE DEF m
<1> DEFINE r == Protocols!InsertAt(l, m + 1, p)
<1>3. /\ r \in Seq(Entry) /\ Len(r) = Len(l) + 1 /\ r[m + 1] = p
      /\ \A i \in 1 .. m : r[i] = l[i]
      /\ \A i \in m + 2 .. Len(l) + 1 : r[i] = l[i - 1]
  <2>1. l \in Seq(Entry) /\ m \in 0 .. Len(l) /\ p \in Entry
    BY <1>1, <1>2
  <2> HIDE DEF q
  <2> QED
    BY <2>1, Inserted
<1>4. Protocols!Registered(l, p) = r
  BY DEF Protocols!Registered, m
<1> HIDE DEF r
<1>5. \A i \in 1 .. Len(r) : i \in 1 .. m \/ i = m + 1 \/ i \in m + 2 .. Len(l) + 1
  BY <1>1, <1>2, <1>3
<1>6. /\ \A i \in 1 .. m : i \in 1 .. Len(l) /\ i \in 1 .. Len(r)
      /\ \A i \in m + 2 .. Len(l) + 1 : i - 1 \in 1 .. Len(l) /\ i - 1 \in m + 1 .. Len(l)
            /\ i \in 1 .. Len(r)
      /\ \A i \in m + 1 .. Len(l) : i + 1 \in m + 2 .. Len(l) + 1 /\ i + 1 - 1 = i
      /\ \A i \in 1 .. Len(l) : i \in 1 .. m \/ i \in m + 1 .. Len(l)
      /\ m + 1 \in 1 .. Len(r)
  BY <1>1, <1>2, <1>3
<1>7. /\ Protocols!ToSet(q) = Protocols!ToSet(s) \cup {p}
      /\ \A e, f : Before(s, e, f) => Before(q, e, f)
      /\ \A e \in Protocols!ToSet(s) : Before(q, e, p)
  BY BeforeAppend
<1> HIDE DEF q
<1>8. Protocols!ToSet(r) = Protocols!ToSet(l) \cup {p}
  <2>1. \A i \in 1 .. Len(r) : r[i] \in Protocols!ToSet(l) \cup {p}
    BY <1>3, <1>5, <1>6 DEF Protocols!ToSet
  <2>2. \A i \in 1 .. Len(l) : l[i] \in Protocols!ToSet(r)
    <3>1. \A i \in 1 .. m : l[i] \in Protocols!ToSet(r)
      BY <1>3, <1>6 DEF Protocols!ToSet
    <3>2. ASSUME NEW i \in m + 1 .. Len(l) PROVE l[i] \in Protocols!ToSet(r)
      <4>1. r[i + 1] = l[i] /\ i + 1 \in 1 .. Len(r)
        BY <1>3, <1>6
      <4> QED
        BY <4>1 DEF Protocols!ToSet
    <3> QED
      BY <1>6, <3>1, <3>2
  <2>3. p \in Protocols!ToSet(r)
    BY <1>3, <1>6 DEF Protocols!ToSet
  <2>4. Protocols!ToSet(r) \subseteq Protocols!ToSet(l) \cup {p}
    BY <2>1 DEF Protocols!ToSet
  <2>5. Protocols!ToSet(l) \subseteq Protocols!ToSet(r)
    BY <2>2 DEF Protocols!ToSet
  <2> QED
    BY <2>3, <2>4, <2>5
<1>9. Protocols!ToSet(r) = {e \in Protocols!ToSet(q) : e.type = p.type}
  <2>1. Protocols!ToSet(l) = {e \in Protocols!ToSet(s) : e.type = p.type}
    BY DEF Arranged
  <2> QED
    BY <1>7, <1>8, <2>1
<1>10. ASSUME NEW i \in 1 .. Len(l), NEW j \in 1 .. Len(l), i < j PROVE Precedes(q, l[i], l[j])
  <2>1. Precedes(s, l[i], l[j])
    BY <1>10 DEF Arranged
  <2> QED
    BY <1>7, <2>1 DEF Precedes
<1>11. \A i \in 1 .. Len(l) : l[i] \in Protocols!ToSet(s)
  BY ListElement
<1>12. ASSUME NEW i \in 1 .. Len(r), NEW j \in 1 .. Len(r), i < j PROVE Precedes(q, r[i], r[j])
  <2>1. CASE i \in 1 .. m /\ j \in 1 .. m
    BY <1>3, <1>6, <1>10, <1>12, <2>1
  <2>2. CASE i \in 1 .. m /\ j = m + 1
    <3>1. r[i] = l[i] /\ r[j] = p /\ l[i].permanent /\ l[i] \in Protocols!ToSet(s)
      BY <1>1, <1>3, <1>6, <1>11, <2>2
    <3> QED
      BY <1>7, <3>1 DEF Precedes
  <2>3. CASE i \in 1 .. m /\ j \in m + 2 .. Len(l) + 1
    <3>1. r[i] = l[i] /\ r[j] = l[j - 1] /\ i < j - 1 /\ i \in 1 .. Len(l) /\ j - 1 \in 1 .. Len(l)
      BY <1>1, <1>3, <1>6, <2>3
    <3> QED
      BY <1>10, <3>1
  <2>4. CASE i = m + 1 /\ j \in m + 2 .. Len(l) + 1
    <3>1. r[i] = p /\ r[j] = l[j - 1] /\ ~l[j - 1].permanent /\ l[j - 1] \in Protocols!ToSet(s)
      BY <1>1, <1>3, <1>6, <1>11, <2>4
    <3> QED
      BY <1>7, <3>1 DEF Precedes
  <2>5. CASE i \in m + 2 .. Len(l) + 1 /\ j \in m + 2 .. Len(l) + 1
    <3>1. r[i] = l[i - 1] /\ r[j] = l[j - 1] /\ i - 1 < j - 1 /\ i - 1 \in 1 .. Len(l)
          /\ j - 1 \in 1 .. Len(l)
      BY <1>1, <1>3, <1>6, <1>12, <2>5
    <3> QED
      BY <1>10, <3>1
  <2>6. i \in m + 2 .. Len(l) + 1 => j \in m + 2 .. Len(l) + 1
    BY <1>1, <1>2, <1>3, <1>12
  <2>7. i = m + 1 => j \in m + 2 .. Len(l) + 1
    BY <1>1, <1>2, <1>3, <1>12
  <2> QED
    BY <1>5, <2>1, <2>2, <2>3, <2>4, <2>5, <2>6, <2>7
<1> QED
  BY <1>3, <1>4, <1>9, <1>12 DEF Arranged, q

\* Entries of another type do not touch the list.
LEMMA OthersKeep ==
  ASSUME NEW l, NEW s \in Seq(Entry), NEW p \in Entry, NEW t, Arranged(l, s, t), p.type # t
  PROVE  Arranged(l, Append(s, p), t)
<1> DEFINE q == Append(s, p)
<1>1. /\ Protocols!ToSet(q) = Protocols!ToSet(s) \cup {p}
      /\ \A e, f : Before(s, e, f) => Before(q, e, f)
  BY BeforeAppend
<1> HIDE DEF q
<1>2. Protocols!ToSet(l) = {e \in Protocols!ToSet(q) : e.type = t}
  BY <1>1 DEF Arranged
<1>3. \A i, j \in 1 .. Len(l) : i < j => Precedes(q, l[i], l[j])
  BY <1>1 DEF Arranged, Precedes
<1> QED
  BY <1>2, <1>3 DEF Arranged, q

\* An entry that leaves takes no other out of the order.
LEMMA RemoveKeepsOrder ==
  ASSUME NEW s \in Seq(Entry), Distinct(s), NEW p, NEW e, NEW f, Before(s, e, f), e # p, f # p
  PROVE  Before(Protocols!Remove(s, p), e, f)
<1> DEFINE S == Protocols!ToSet(s) \ {p}
           r == Protocols!Only(s, S)
<1>1. /\ Protocols!ToSet(r) = Protocols!ToSet(s) \cap S /\ r \in Seq(Entry)
      /\ \A i, j \in 1 .. Len(r) : i < j =>
             \E k, l \in 1 .. Len(s) : k < l /\ r[i] = s[k] /\ r[j] = s[l]
  <2> HIDE DEF S
  <2> QED
    BY ProtoOnlyIs
<1>2. Protocols!Remove(s, p) = r
  BY DEF Protocols!Remove
<1>3. e \in Protocols!ToSet(s) /\ f \in Protocols!ToSet(s)
  BY DEF Before, Protocols!ToSet
<1>4. e # f /\ ~Before(s, f, e)
  BY BeforeOnce
<1>5. e \in Protocols!ToSet(r) /\ f \in Protocols!ToSet(r)
  BY <1>1, <1>3
<1> HIDE DEF r, S
<1>6. PICK i \in 1 .. Len(r) : r[i] = e
  BY <1>5 DEF Protocols!ToSet
<1>7. PICK j \in 1 .. Len(r) : r[j] = f
  BY <1>5 DEF Protocols!ToSet
<1>8. ~ (j < i)
  <2>1. SUFFICES ASSUME j < i PROVE FALSE
    OBVIOUS
  <2>2. \E k, l \in 1 .. Len(s) : k < l /\ r[j] = s[k] /\ r[i] = s[l]
    BY <1>1, <2>1
  <2> QED
    BY <1>4, <1>6, <1>7, <2>2 DEF Before
<1>9. i < j
  <2>1. i # j /\ Len(r) \in Nat
    BY <1>1, <1>4, <1>6, <1>7
  <2> QED
    BY <1>8, <2>1
<1> QED
  BY <1>2, <1>6, <1>7, <1>9 DEF Before

LEMMA RemoveKeeps ==
  ASSUME NEW l, NEW s \in Seq(Entry), Distinct(s), NEW t, Arranged(l, s, t), NEW p
  PROVE  /\ Arranged(Protocols!Remove(l, p), Protocols!Remove(s, p), t)
         /\ (p \in Entry /\ p.type # t) => Arranged(l, Protocols!Remove(s, p), t)
<1> DEFINE q == Protocols!Remove(s, p)
           r == Protocols!Remove(l, p)
<1>1. l \in Seq(Entry)
  BY DEF Arranged
<1>2. /\ r \in Seq(Entry) /\ Protocols!ToSet(r) = Protocols!ToSet(l) \ {p}
      /\ \A i, j \in 1 .. Len(r) : i < j =>
             \E k, m \in 1 .. Len(l) : k < m /\ r[i] = l[k] /\ r[j] = l[m]
  <2> DEFINE S == Protocols!ToSet(l) \ {p}
  <2>1. /\ Protocols!Only(l, S) \in Seq(Entry)
        /\ Protocols!ToSet(Protocols!Only(l, S)) = Protocols!ToSet(l) \cap S
        /\ \A i, j \in 1 .. Len(Protocols!Only(l, S)) : i < j =>
               \E k, m \in 1 .. Len(l) : k < m /\ Protocols!Only(l, S)[i] = l[k]
                  /\ Protocols!Only(l, S)[j] = l[m]
    <3> HIDE DEF S
    <3> QED
      BY <1>1, ProtoOnlyIs
  <2> QED
    BY <2>1 DEF Protocols!Remove
<1>3. Protocols!ToSet(q) = Protocols!ToSet(s) \ {p}
  <2> DEFINE S == Protocols!ToSet(s) \ {p}
  <2>1. Protocols!ToSet(Protocols!Only(s, S)) = Protocols!ToSet(s) \cap S
    BY ProtoOnlyIs
  <2> QED
    BY <2>1 DEF Protocols!Remove
<1>4. \A e, f : Before(s, e, f) /\ e # p /\ f # p => Before(q, e, f)
  BY RemoveKeepsOrder
<1> HIDE DEF q, r
<1>5. Protocols!ToSet(l) = {e \in Protocols!ToSet(s) : e.type = t}
      /\ \A i, j \in 1 .. Len(l) : i < j => Precedes(s, l[i], l[j])
  BY DEF Arranged
<1>6. \A i, j \in 1 .. Len(l) : i < j /\ l[i] # p /\ l[j] # p => Precedes(q, l[i], l[j])
  BY <1>4, <1>5 DEF Precedes
<1>7. ASSUME NEW i \in 1 .. Len(r), NEW j \in 1 .. Len(r), i < j PROVE Precedes(q, r[i], r[j])
  <2>1. PICK k \in 1 .. Len(l), m \in 1 .. Len(l) : k < m /\ r[i] = l[k] /\ r[j] = l[m]
    BY <1>2, <1>7
  <2>2. r[i] # p /\ r[j] # p
    BY <1>2 DEF Protocols!ToSet
  <2> QED
    BY <1>6, <2>1, <2>2
<1>8. Protocols!ToSet(r) = {e \in Protocols!ToSet(q) : e.type = t}
  BY <1>2, <1>3, <1>5
<1>9. Arranged(r, q, t)
  BY <1>2, <1>7, <1>8 DEF Arranged
<1>10. ASSUME p \in Entry, p.type # t PROVE Arranged(l, q, t)
  <2>1. Protocols!ToSet(l) = {e \in Protocols!ToSet(q) : e.type = t}
    BY <1>3, <1>5, <1>10
  <2>2. \A i \in 1 .. Len(l) : l[i] # p
    BY <2>1, <1>3 DEF Protocols!ToSet
  <2> QED
    BY <1>1, <1>6, <2>1, <2>2 DEF Arranged
<1> QED
  BY <1>9, <1>10 DEF q, r

\* The lists inet_init makes: what the fold has after k entries of the array
BootStep(l, p, t) == IF p.type = t THEN Protocols!Registered(l, p) ELSE l

BootsTo(g, t, k) ==
    g = [m \in 0 .. k |-> IF m = 0 THEN <<>> ELSE BootStep(g[m - 1], Boot[m], t)]

LEMMA BootsSome ==
  ASSUME NEW t, NEW k \in Nat
  PROVE  \E g : BootsTo(g, t, k)
<1> DEFINE Missing == {m \in Nat : ~ \E g : BootsTo(g, t, m)}
<1>1. SUFFICES ASSUME Missing # {} PROVE FALSE
  OBVIOUS
<1>2. PICK m \in Missing : \A l \in Missing : m <= l
  BY <1>1, Smallest
<1>3. m \in Nat /\ ~ \E g : BootsTo(g, t, m)
  OBVIOUS
<1>4. CASE m = 0
  <2> DEFINE g == [l \in 0 .. 0 |-> <<>>]
  <2>1. g = [l \in 0 .. 0 |-> IF l = 0 THEN <<>> ELSE BootStep(g[l - 1], Boot[l], t)]
    OBVIOUS
  <2> QED
    BY <1>3, <1>4, <2>1 DEF BootsTo
<1>5. CASE m # 0
  <2>1. m - 1 \in Nat /\ m - 1 \notin Missing
    BY <1>2, <1>3, <1>5
  <2>2. PICK h : BootsTo(h, t, m - 1)
    BY <2>1
  <2> DEFINE g == [l \in 0 .. m |-> IF l = m THEN BootStep(h[m - 1], Boot[m], t) ELSE h[l]]
  <2>3. ASSUME NEW l \in 0 .. m PROVE g[l] = IF l = 0 THEN <<>> ELSE BootStep(g[l - 1], Boot[l], t)
    <3>1. CASE l = m
      <4>1. m - 1 \in 0 .. m /\ m - 1 # m
        BY <1>3, <1>5
      <4>2. g[m - 1] = h[m - 1]
        BY <4>1
      <4> QED
        BY <1>5, <3>1, <4>2
    <3>2. CASE l # m /\ l # 0
      <4>1. l \in 0 .. m - 1 /\ l - 1 \in 0 .. m /\ l - 1 # m
        BY <1>3, <3>2
      <4>2. g[l - 1] = h[l - 1] /\ g[l] = h[l]
        BY <3>2, <4>1
      <4>3. h[l] = BootStep(h[l - 1], Boot[l], t)
        BY <2>2, <3>2, <4>1 DEF BootsTo
      <4> QED
        BY <3>2, <4>2, <4>3
    <3>3. CASE l = 0
      <4>1. l \in 0 .. m - 1 /\ l # m
        BY <1>3, <1>5, <3>3
      <4>2. h[l] = <<>>
        BY <2>2, <3>3, <4>1 DEF BootsTo
      <4> QED
        BY <3>3, <4>1, <4>2
    <3> QED
      BY <3>1, <3>2, <3>3
  <2>4. g = [l \in 0 .. m |-> IF l = 0 THEN <<>> ELSE BootStep(g[l - 1], Boot[l], t)]
    BY <2>3
  <2> QED
    BY <1>3, <2>4 DEF BootsTo
<1> QED
  BY <1>4, <1>5

LEMMA OneMoreOfBoot ==
  ASSUME Protocols!ProtoSwitchAssumption, NEW m \in 1 .. Len(Boot)
  PROVE  /\ SubSeq(Boot, 1, m - 1) \in Seq(Entry) /\ Boot[m] \in Entry
         /\ SubSeq(Boot, 1, m) = Append(SubSeq(Boot, 1, m - 1), Boot[m])
         /\ \A e \in Protocols!ToSet(SubSeq(Boot, 1, m - 1)) : \E k \in 1 .. m - 1 : e = Boot[k]
<1> DEFINE a == SubSeq(Boot, 1, m - 1)
           b == SubSeq(Boot, 1, m)
           c == Append(a, Boot[m])
<1>1. Boot \in Seq(Entry) /\ Len(Boot) \in Nat /\ m \in Nat /\ Boot[m] \in Entry
      /\ m - 1 \in 0 .. Len(Boot)
      /\ 1 \in 1 .. Len(Boot) + 1 /\ m \in 0 .. Len(Boot)
  BY DEF Protocols!ProtoSwitchAssumption
<1>2. a \in Seq(Entry) /\ Len(a) = m - 1 /\ \A k \in 1 .. m - 1 : a[k] = Boot[k]
  <2>1. a \in Seq(Entry) /\ Len(a) = (m - 1) - 1 + 1
        /\ \A k \in 1 .. (m - 1) - 1 + 1 : a[k] = Boot[1 + k - 1]
    BY <1>1, PartOfSeq
  <2> QED
    BY <1>1, <2>1
<1>3. b \in Seq(Entry) /\ Len(b) = m /\ \A k \in 1 .. m : b[k] = Boot[k]
  <2>1. b \in Seq(Entry) /\ Len(b) = m - 1 + 1 /\ \A k \in 1 .. m - 1 + 1 : b[k] = Boot[1 + k - 1]
    BY <1>1, PartOfSeq
  <2> QED
    BY <1>1, <2>1
<1> HIDE DEF a, b
<1>4. /\ c \in Seq(Entry) /\ Len(c) = Len(a) + 1 /\ c[Len(a) + 1] = Boot[m]
      /\ \A k \in 1 .. Len(a) : c[k] = a[k]
  BY <1>1, <1>2, OneMoreAtEnd
<1> HIDE DEF c
<1>5. Len(c) = m /\ \A k \in 1 .. m : c[k] = Boot[k]
  <2>1. Len(c) = m /\ c[m] = Boot[m] /\ \A k \in 1 .. m - 1 : c[k] = Boot[k]
    BY <1>1, <1>2, <1>4
  <2>2. \A k \in 1 .. m : k = m \/ k \in 1 .. m - 1
    BY <1>1
  <2> QED
    BY <2>1, <2>2
<1>6. b = c
  <2>1. Len(b) = Len(c) /\ \A k \in 1 .. Len(b) : b[k] = c[k]
    BY <1>3, <1>5
  <2> QED
    BY <1>3, <1>4, <2>1, SeqEqual
<1>7. \A e \in Protocols!ToSet(a) : \E k \in 1 .. m - 1 : e = Boot[k]
  BY <1>2 DEF Protocols!ToSet
<1> QED
  BY <1>1, <1>2, <1>6, <1>7 DEF a, b, c

LEMMA BootDistinct ==
  ASSUME Protocols!ProtoSwitchAssumption
  PROVE  Boot \in Seq(Entry) /\ Distinct(Boot)
BY DEF Protocols!ProtoSwitchAssumption, Distinct

LEMMA BootArranged ==
  ASSUME Protocols!ProtoSwitchAssumption, NEW t \in Type
  PROVE  Arranged(Protocols!FoldLeft(LAMBDA l, p : IF p.type = t THEN Protocols!Registered(l, p) ELSE l, <<>>, Boot),
                  Boot, t)
<1> DEFINE n == Len(Boot)
           Right(l, m) == Arranged(l, SubSeq(Boot, 1, m), t)
<1>1. n \in Nat /\ Boot \in Seq(Entry)
  BY DEF Protocols!ProtoSwitchAssumption
<1>2. Protocols!FoldLeft(LAMBDA l, p : IF p.type = t THEN Protocols!Registered(l, p) ELSE l, <<>>, Boot)
        = (CHOOSE g : BootsTo(g, t, n))[n]
  BY DEF Protocols!FoldLeft, BootsTo, BootStep
<1>3. PICK g : g = CHOOSE h : BootsTo(h, t, n)
  OBVIOUS
<1>4. BootsTo(g, t, n)
  BY <1>1, <1>3, BootsSome
<1>5. g[0] = <<>> /\ \A m \in 1 .. n : g[m] = BootStep(g[m - 1], Boot[m], t)
  BY <1>1, <1>4 DEF BootsTo
<1>6. Right(<<>>, 0)
  <2>1. SubSeq(Boot, 1, 0) \in Seq(Entry) /\ Len(SubSeq(Boot, 1, 0)) = 0
    <3>1. 1 \in 1 .. Len(Boot) + 1 /\ 0 \in 0 .. Len(Boot) /\ 1 <= 0 + 1 /\ 0 - 1 + 1 = 0
      BY <1>1
    <3> QED
      BY <1>1, <3>1, PartOfSeq
  <2>2. <<>> \in Seq(Entry) /\ Len(<<>>) = 0
    OBVIOUS
  <2>3. Protocols!ToSet(SubSeq(Boot, 1, 0)) = {} /\ Protocols!ToSet(<<>>) = {}
    BY <2>1, <2>2 DEF Protocols!ToSet
  <2> QED
    BY <2>2, <2>3 DEF Arranged
<1>7. ASSUME NEW m \in 1 .. n, Right(g[m - 1], m - 1) PROVE Right(g[m], m)
  <2> DEFINE l == g[m - 1]
             s == SubSeq(Boot, 1, m - 1)
             p == Boot[m]
  <2>1. /\ s \in Seq(Entry) /\ p \in Entry /\ SubSeq(Boot, 1, m) = Append(s, p)
        /\ \A e \in Protocols!ToSet(s) : \E k \in 1 .. m - 1 : e = Boot[k]
    BY OneMoreOfBoot
  <2>2. g[m] = BootStep(l, p, t) /\ Arranged(l, s, t)
    BY <1>5, <1>7
  <2> HIDE DEF l, s
  <2>3. CASE p.type = t
    <3>1. ASSUME NEW i \in 1 .. Len(l) PROVE l[i].protocol # p.protocol
      <4>1. l[i] \in Protocols!ToSet(s) /\ l[i].type = t
        BY <2>1, <2>2, ListElement
      <4>2. PICK k \in 1 .. m - 1 : l[i] = Boot[k]
        BY <2>1, <4>1
      <4>3. k \in 1 .. n /\ k # m
        BY <1>1
      <4> QED
        BY <2>3, <4>1, <4>2, <4>3 DEF Protocols!ProtoSwitchAssumption
    <3>2. Protocols!LastPermanent(l) \in 0 .. Len(l) /\ Len(l) \in Nat
      <4>1. Protocols!LastPermanent(l) \in 0 .. Len(l)
        <5> HIDE DEF Right, n
        <5> QED
          BY <2>1, <2>2, LastPermanentIs
      <4>2. Len(l) \in Nat
        BY <2>2 DEF Arranged
      <4> QED
        BY <4>1, <4>2
    <3>3. ~Protocols!Refused(l, p)
      BY <3>1, <3>2 DEF Protocols!Refused
    <3>4. Arranged(Protocols!Registered(l, p), Append(s, p), p.type)
      BY <2>1, <2>2, <2>3, <3>3, RegisteredKeeps
    <3> QED
      BY <2>1, <2>2, <2>3, <3>4 DEF BootStep
  <2>4. CASE p.type # t
    <3>1. Arranged(l, Append(s, p), t)
      BY <2>1, <2>2, <2>4, OthersKeep
    <3> QED
      BY <2>1, <2>2, <2>4, <3>1 DEF BootStep
  <2> QED
    BY <2>3, <2>4
<1> DEFINE Wrong == {m \in Nat : m <= n /\ ~Right(g[m], m)}
<1> HIDE DEF Right, n
<1>8. Wrong = {}
  <2>1. SUFFICES ASSUME Wrong # {} PROVE FALSE
    OBVIOUS
  <2>2. PICK m \in Wrong : \A k \in Wrong : m <= k
    BY <2>1, Smallest
  <2>3. m \in Nat /\ m # 0 /\ m <= n
    BY <1>5, <1>6, <2>2
  <2>4. m - 1 \in Nat /\ m - 1 <= n /\ m - 1 \notin Wrong /\ m \in 1 .. n
    BY <1>1, <2>2, <2>3
  <2> QED
    BY <1>7, <2>2, <2>4
<1>9. Right(g[n], n)
  BY <1>1, <1>8
<1>10. SubSeq(Boot, 1, n) = Boot
  BY <1>1 DEF n
<1> QED
  BY <1>2, <1>3, <1>9, <1>10 DEF Right

LEMMA ProtoStarts ==
  ASSUME Protocols!ProtoSwitchAssumption, Protocols!Init
  PROVE  ProtoIInv
BY BootDistinct, BootArranged DEF Protocols!Init, ProtoIInv

LEMMA RegisterKeeps ==
  ASSUME ProtoIInv, Protocols!ProtoSwitchAssumption, NEW p \in Entry, Protocols!Register(p)
  PROVE  ProtoIInv'
<1>1. p.type \in Type /\ ~Protocols!Contains(since, p)
  BY DEF Protocols!ProtoSwitchAssumption, Protocols!Register
<1>2. since \in Seq(Entry) /\ Distinct(since) /\ DOMAIN inetsw = Type
      /\ \A t \in Type : Arranged(inetsw[t], since, t)
  BY DEF ProtoIInv
<1>3. /\ DOMAIN inetsw' = Type
      /\ inetsw'[p.type] = Protocols!Registered(inetsw[p.type], p)
      /\ \A t \in Type : t # p.type => inetsw'[t] = inetsw[t]
      /\ since' = IF Protocols!Refused(inetsw[p.type], p) THEN since ELSE Append(since, p)
  BY <1>1, <1>2 DEF Protocols!Register
<1>4. CASE Protocols!Refused(inetsw[p.type], p)
  <2>1. since' = since /\ \A t \in Type : inetsw'[t] = inetsw[t]
    BY <1>3, <1>4 DEF Protocols!Registered
  <2> QED
    BY <1>2, <1>3, <2>1 DEF ProtoIInv
<1>5. CASE ~Protocols!Refused(inetsw[p.type], p)
  <2> DEFINE q == Append(since, p)
  <2>1. since' = q
    BY <1>3, <1>5
  <2>2. q \in Seq(Entry) /\ Distinct(q)
    <3>1. /\ q \in Seq(Entry) /\ Len(q) = Len(since) + 1 /\ q[Len(since) + 1] = p
          /\ Len(since) \in Nat /\ \A k \in 1 .. Len(since) : q[k] = since[k]
      BY <1>2, OneMoreAtEnd
    <3>2. \A k \in 1 .. Len(since) : since[k] # p
      BY <1>1 DEF Protocols!Contains
    <3> HIDE DEF q
    <3>3. \A k \in 1 .. Len(q) : k \in 1 .. Len(since) \/ k = Len(since) + 1
      BY <3>1
    <3>4. Distinct(q)
      <4>1. \A i, j \in 1 .. Len(since) : i # j => since[i] # since[j]
        BY <1>2 DEF Distinct
      <4> QED
        BY <3>1, <3>2, <3>3, <4>1 DEF Distinct
    <3> QED
      BY <3>1, <3>4
  <2>3. Arranged(Protocols!Registered(inetsw[p.type], p), q, p.type)
    BY <1>1, <1>2, <1>5, RegisteredKeeps
  <2>4. \A t \in Type : t # p.type => Arranged(inetsw[t], q, t)
    BY <1>2, OthersKeep
  <2> HIDE DEF q
  <2>5. \A t \in Type : Arranged(inetsw'[t], q, t)
    BY <1>3, <2>3, <2>4
  <2>6. \A t \in Type : Arranged(inetsw[t], since, t)'
    BY <2>1, <2>5 DEF Arranged, Precedes, Before, Protocols!ToSet
  <2> QED
    BY <1>3, <2>1, <2>2, <2>6 DEF ProtoIInv, Distinct
<1> QED
  BY <1>4, <1>5

LEMMA UnregisterKeeps ==
  ASSUME ProtoIInv, Protocols!ProtoSwitchAssumption, NEW p \in Entry, Protocols!Unregister(p)
  PROVE  ProtoIInv'
<1> DEFINE q == Protocols!Remove(since, p)
<1>1. since \in Seq(Entry) /\ Distinct(since) /\ DOMAIN inetsw = Type
      /\ \A t \in Type : Arranged(inetsw[t], since, t)
  BY DEF ProtoIInv
<1>2. /\ DOMAIN inetsw' = Type /\ since' = q
      /\ \A t \in Type : inetsw'[t] = IF t = p.type THEN Protocols!Remove(inetsw[t], p) ELSE inetsw[t]
  BY <1>1 DEF Protocols!Unregister
<1>3. q \in Seq(Entry) /\ Distinct(q)
  <2> DEFINE S == Protocols!ToSet(since) \ {p}
  <2>1. Protocols!Only(since, S) \in Seq(Entry) /\ Distinct(Protocols!Only(since, S))
    BY <1>1, ProtoOnlyIs, ProtoOnlyDistinct
  <2> QED
    BY <2>1 DEF Protocols!Remove
<1>4. \A t \in Type : /\ Arranged(Protocols!Remove(inetsw[t], p), q, t)
                      /\ p.type # t => Arranged(inetsw[t], q, t)
  BY <1>1, RemoveKeeps
<1> HIDE DEF q
<1>5. \A t \in Type : Arranged(inetsw'[t], q, t)
  BY <1>2, <1>4
<1>6. ASSUME NEW t \in Type PROVE Arranged(inetsw[t], since, t)'
  <2>1. PICK l : l = inetsw'[t]
    OBVIOUS
  <2>2. Arranged(l, q, t) /\ since' = q
    BY <1>2, <1>5, <2>1
  <2> QED
    BY <2>1, <2>2, SMTT(60) DEF Arranged, Precedes, Before, Protocols!ToSet
<1> QED
  BY <1>2, <1>3, <1>6 DEF ProtoIInv, Distinct

LEMMA ProtoKept ==
  ASSUME ProtoIInv, Protocols!ProtoSwitchAssumption, Protocols!Next \/ UNCHANGED Protocols!protoVars
  PROVE  ProtoIInv'
<1>1. CASE inetsw' = inetsw /\ since' = since
  <2>1. /\ since \in Seq(Entry) /\ Distinct(since) /\ DOMAIN inetsw = Type
        /\ \A t \in Type : Arranged(inetsw[t], since, t)
    BY DEF ProtoIInv
  <2>2. since' \in Seq(Entry) /\ Distinct(since)' /\ DOMAIN inetsw' = Type
    BY <1>1, <2>1 DEF Distinct
  <2>3. ASSUME NEW t \in Type PROVE Arranged(inetsw[t], since, t)'
    <3>1. Arranged(inetsw[t], since, t)
      BY <2>1
    <3> QED
      BY <1>1, <3>1, SMTT(60) DEF Arranged, Precedes, Before, Protocols!ToSet
  <2> QED
    BY <2>2, <2>3 DEF ProtoIInv
<1>2. CASE UNCHANGED Protocols!protoVars
  BY <1>1, <1>2 DEF Protocols!protoVars
<1>3. CASE Protocols!Next
  BY <1>1, <1>3, RegisterKeeps, UnregisterKeeps DEF Protocols!Next, Protocols!Create,
     Protocols!LookUp, Protocols!Loaded, Protocols!Created
<1> QED
  BY <1>2, <1>3

LEMMA IndexOfIs ==
  ASSUME NEW s \in Seq(Entry), Distinct(s), NEW k \in 1 .. Len(s)
  PROVE  Protocols!IndexOf(s, s[k]) = k
<1>1. Len(s) \in Nat /\ \A i, j \in 1 .. Len(s) : s[i] = s[j] => i = j
  BY DEF Distinct
<1>2. \A j \in 1 .. k - 1 : s[j] # s[k]
  BY <1>1
<1>3. \A i \in 1 .. Len(s) : s[i] = s[k] => i = k
  BY <1>1
<1> QED
  BY <1>2, <1>3 DEF Protocols!IndexOf

LEMMA BeforeIndex ==
  ASSUME NEW s \in Seq(Entry), Distinct(s), NEW e, NEW f
  PROVE  /\ e \in Protocols!ToSet(s) => Protocols!IndexOf(s, e) \in Nat
         /\ Before(s, e, f) => Protocols!IndexOf(s, e) < Protocols!IndexOf(s, f)
<1>1. \A k \in 1 .. Len(s) : Protocols!IndexOf(s, s[k]) = k
  BY IndexOfIs
<1> QED
  BY <1>1 DEF Before, Protocols!ToSet

LEMMA SoundList ==
  ASSUME ProtoIInv, Protocols!ProtoSwitchAssumption, NEW t \in Type, NEW protocol \in Protocol
  PROVE  LET es == {e \in Protocols!ToSet(since) : e.type = t /\ Protocols!Matches(e, protocol)}
             perm == {e \in es : e.permanent}
         IN Protocols!Found(inetsw[t], protocol) = IF perm # {} THEN Protocols!Oldest(perm) ELSE Protocols!Newest(es)
<1> DEFINE l == inetsw[t]
           es == {e \in Protocols!ToSet(since) : e.type = t /\ Protocols!Matches(e, protocol)}
           perm == {e \in es : e.permanent}
           found == {i \in 1 .. Len(l) : Protocols!Matches(l[i], protocol)}
           I(e) == Protocols!IndexOf(since, e)
<1>1. since \in Seq(Entry) /\ Distinct(since) /\ Arranged(l, since, t)
  BY DEF ProtoIInv
<1>2. Protocols!Found(l, protocol) = IF found = {} THEN NoEntry ELSE l[CHOOSE i \in found : \A j \in found : i <= j]
  BY DEF Protocols!Found
<1> HIDE DEF l
<1>3. /\ Len(l) \in Nat /\ Protocols!ToSet(l) = {e \in Protocols!ToSet(since) : e.type = t}
      /\ \A i, j \in 1 .. Len(l) : i < j => Precedes(since, l[i], l[j])
  BY <1>1 DEF Arranged
<1>4. es = {e \in Protocols!ToSet(l) : Protocols!Matches(e, protocol)}
  BY <1>3
<1>5. /\ \A i \in found : l[i] \in es
      /\ \A e \in es : \E i \in found : e = l[i]
  BY <1>4 DEF Protocols!ToSet
<1>6. /\ \A e \in es : I(e) \in Nat
      /\ \A e, f : Before(since, e, f) => I(e) < I(f)
  <2>1. \A e \in es : e \in Protocols!ToSet(since)
    OBVIOUS
  <2> QED
    BY <1>1, <2>1, BeforeIndex
<1>7. CASE found = {}
  <2>1. es = {}
    BY <1>5, <1>7
  <2>2. perm = {}
    BY <2>1
  <2> QED
    BY <1>2, <1>7, <2>1, <2>2 DEF Protocols!Newest, l
<1>8. CASE found # {}
  <2>1. found \subseteq Nat
    BY <1>3
  <2>2. \E i \in found : \A j \in found : i <= j
    BY <1>8, <2>1, Smallest
  <2>3. PICK i : i = CHOOSE k \in found : \A j \in found : k <= j
    OBVIOUS
  <2>4. i \in found /\ \A j \in found : i <= j
    <3> HIDE DEF found
    <3> QED
      BY <2>2, <2>3
  <2>5. Protocols!Found(l, protocol) = l[i]
    BY <1>2, <1>8, <2>3
  <2> DEFINE e == l[i]
  <2>6. e \in es
    BY <1>5, <2>4
  <2>7. ASSUME NEW f \in es PROVE f = e \/ Precedes(since, e, f)
    <3>1. PICK j \in found : f = l[j]
      BY <1>5
    <3>2. i <= j /\ i \in 1 .. Len(l) /\ j \in 1 .. Len(l)
      BY <2>4
    <3>3. i = j \/ i < j
      BY <1>3, <3>2
    <3> QED
      BY <1>3, <3>1, <3>2, <3>3
  <2> HIDE DEF e
  <2>8. CASE e.permanent
    <3>1. e \in perm
      BY <2>6, <2>8
    <3>2. \A f \in perm : f = e \/ I(e) < I(f)
      BY <1>6, <2>7, <2>8 DEF Precedes
    <3>3. perm \subseteq es
      OBVIOUS
    <3> HIDE DEF perm, I, es
    <3>4. \A f \in perm : I(f) \in Nat
      BY <1>6, <3>3
    <3>5. \A f \in perm : I(e) <= I(f)
      BY <3>1, <3>2, <3>4
    <3>6. \A f \in perm : (\A g \in perm : I(f) <= I(g)) => f = e
      BY <3>1, <3>2, <3>4
    <3>7. Protocols!Oldest(perm) = CHOOSE x \in perm : \A f \in perm : I(x) <= I(f)
      BY <3>1 DEF Protocols!Oldest, I
    <3>8. Protocols!Oldest(perm) = e
      BY <3>1, <3>5, <3>6, <3>7
    <3>9. perm # {}
      BY <3>1
    <3> QED
      BY <2>5, <3>8, <3>9 DEF e, l, perm, es
  <2>9. CASE ~e.permanent
    <3>1. \A f \in es : f = e \/ (~f.permanent /\ I(f) < I(e))
      BY <1>6, <2>7, <2>9 DEF Precedes
    <3>2. perm = {}
      BY <2>9, <3>1
    <3> HIDE DEF I, es, perm
    <3>3. \A f \in es : I(f) <= I(e)
      BY <1>6, <2>6, <3>1
    <3>4. \A f \in es : (\A g \in es : I(g) <= I(f)) => f = e
      BY <1>6, <2>6, <3>1
    <3>5. Protocols!Newest(es) = CHOOSE x \in es : \A f \in es : I(f) <= I(x)
      BY <2>6 DEF Protocols!Newest, I
    <3>6. Protocols!Newest(es) = e
      BY <2>6, <3>3, <3>4, <3>5
    <3> QED
      BY <2>5, <3>2, <3>6 DEF e, l, perm, es
  <2> QED
    BY <2>8, <2>9
<1> QED
  BY <1>7, <1>8

LEMMA ProtoSound ==
  ASSUME ProtoIInv, Protocols!ProtoSwitchAssumption
  PROVE  Protocols!ProtocolsAreSound
BY SoundList DEF Protocols!ProtocolsAreSound
-----------------------------------------------------------------------------
(* The start of the network                                              *)

\* What the first n steps of part p set up
SetUp(p, n) == {Starts!Steps[p][i] : i \in 1 .. n}

StartIInv ==
    \/ part.of = "none" /\ done = {}
    \/ /\ part.of \in DOMAIN Starts!Steps
       /\ part.next \in 1 .. Len(Starts!Steps[part.of]) + 1
       /\ done = SetUp(part.of, part.next - 1)

\* Every goto of a part takes back exactly the steps before the one that fails.
LEMMA LabelsTakeBack ==
  ASSUME NEW p \in DOMAIN Starts!Steps, NEW n \in 1 .. Len(Starts!Steps[p])
  PROVE  SetUp(p, n - 1) \ {Starts!Labels[p][i] : i \in Starts!OnFail[p][n] .. Len(Starts!Labels[p])} = {}
<1>1. DOMAIN Starts!Steps = {"proto", "mib", "proc"}
  BY DEF Starts!Steps
<1>2. CASE p = "proto"
  <2>1. n \in 1 .. 4
    BY <1>2 DEF Starts!Steps
  <2> QED
    BY <1>2, <2>1 DEF Starts!Steps, Starts!Labels, Starts!OnFail, SetUp
<1>3. CASE p = "mib"
  <2>1. n \in 1 .. 7
    BY <1>3 DEF Starts!Steps
  <2> QED
    BY <1>3, <2>1 DEF Starts!Steps, Starts!Labels, Starts!OnFail, SetUp
<1>4. CASE p = "proc"
  <2>1. n \in 1 .. 5
    BY <1>4 DEF Starts!Steps
  <2> QED
    BY <1>4, <2>1 DEF Starts!Steps, Starts!Labels, Starts!OnFail, SetUp
<1> QED
  BY <1>1, <1>2, <1>3, <1>4

LEMMA StartKept ==
  ASSUME StartIInv, Starts!Next \/ UNCHANGED Starts!startVars
  PROVE  StartIInv'
<1>1. "none" \notin DOMAIN Starts!Steps
      /\ \A p \in DOMAIN Starts!Steps : Len(Starts!Steps[p]) \in Nat
  BY DEF Starts!Steps
<1>2. CASE UNCHANGED Starts!startVars
  BY <1>2 DEF StartIInv, Starts!startVars, SetUp
<1>3. ASSUME NEW p \in DOMAIN Starts!Steps, Starts!Start(p) PROVE StartIInv'
  <2>1. part'.of = p /\ part'.next = 1 /\ done' = {}
    BY <1>3 DEF Starts!Start
  <2>2. SetUp(p, 1 - 1) = {}
    BY DEF SetUp
  <2> QED
    BY <1>1, <2>1, <2>2 DEF StartIInv
<1>4. CASE Starts!StepDone
  BY <1>1, <1>4 DEF Starts!StepDone, Starts!Starting, StartIInv, SetUp
<1>5. CASE Starts!StepFails
  <2>1. part'.of = "none"
    BY <1>5 DEF Starts!StepFails
  <2>2. done' = {}
    BY <1>1, <1>5, LabelsTakeBack DEF Starts!StepFails, Starts!Starting, StartIInv
  <2> QED
    BY <2>1, <2>2 DEF StartIInv
<1>6. CASE Starts!Stop
  <2>1. part'.of = "none"
    BY <1>6 DEF Starts!Stop
  <2>2. done' = {}
    <3>1. \A i \in 1 .. Len(Starts!Steps.mib) : Starts!Steps.mib[i] \in Starts!Exit.mib
      BY DEF Starts!Exit, Starts!ToSet
    <3>2. done = SetUp("mib", Len(Starts!Steps["mib"]))
      BY <1>1, <1>6 DEF Starts!Stop, Starts!Starting, StartIInv
    <3>3. Starts!Steps["mib"] = Starts!Steps.mib
      OBVIOUS
    <3>4. done \subseteq Starts!Exit.mib
      BY <3>1, <3>2, <3>3 DEF SetUp
    <3> QED
      BY <1>6, <3>4 DEF Starts!Stop
  <2> QED
    BY <2>1, <2>2 DEF StartIInv
<1> QED
  BY <1>2, <1>3, <1>4, <1>5, <1>6 DEF Starts!Next

LEMMA StartSound ==
  ASSUME StartIInv
  PROVE  Starts!FailureTakesAllBack
BY DEF StartIInv, Starts!FailureTakesAllBack, Starts!Steps
-----------------------------------------------------------------------------
(* The names of devices                                                  *)

LEMMA NamesCardinality == /\ \A S : Names!Cardinality(S) = Cardinality(S)
                          /\ \A S : Names!IsFiniteSet(S) <=> IsFiniteSet(S)
<1>1. \A S : Names!Cardinality(S) = Cardinality(S)
  BY DEF Names!Cardinality, Cardinality
<1>2. \A S : Names!IsFiniteSet(S) <=> IsFiniteSet(S)
  BY DEF Names!IsFiniteSet, IsFiniteSet
<1> QED
  BY <1>1, <1>2

\* Where dev_change_name and dev_change_net_namespace are
Renaming == {"rename", "unhashed", "notify"}
Moving == {"unlist", "move"}

\* The types of the names part
NamesTypeOK ==
    /\ DOMAIN names = NamedDev /\ DOMAIN bucket = NamedDev /\ DOMAIN sysfs = NamedDev
    /\ net \in [NamedDev -> Ns] /\ index \in [NamedDev -> Nat]
    /\ lastIndex \in [Ns -> 0 .. MaxIndex]
    /\ listed \subseteq NamedDev /\ linked \subseteq NamedDev /\ reading \in NamedDev \cup {NoDev}
    /\ \A n \in DOMAIN links : links[n] \in NamedDev
    /\ DOMAIN task = {"pc", "dev", "old", "asked", "again", "net"}
    /\ task.pc \in {"idle"} \cup Renaming \cup Moving
    /\ task.dev \in NamedDev \cup {NoDev} /\ task.net \in Ns
    /\ task.pc = "idle" <=> task.dev = NoDev

\* A name that dev_get_valid_name gives is one the hash table does not have.
LEMMA ValidNameIsFree ==
  ASSUME NEW asked, NEW ns, Names!ValidName(asked, ns) # NoName
  PROVE  Names!ByName(Names!ValidName(asked, ns), ns) = {}
BY DEF Names!ValidName

\* The least of a set that has numbers is one of them.
LEMMA LeastIsOne ==
  ASSUME NEW M \in SUBSET Nat, M # {}
  PROVE  Names!Min(M) \in M /\ \A k \in M : Names!Min(M) <= k
<1>1. \E m \in M : \A k \in M : m <= k
  BY Smallest
<1> QED
  BY <1>1 DEF Names!Min

\* One or two digits
LEMMA OneOrTwo ==
  ASSUME NEW S, NEW T, T \subseteq S, NEW a \in T, NEW b \in T
  PROVE  /\ <<a>> \in Seq(S) /\ Len(<<a>>) \in 1 .. 2
         /\ \A k \in 1 .. Len(<<a>>) : <<a>>[k] \in T
         /\ <<a, b>> \in Seq(S) /\ Len(<<a, b>>) \in 1 .. 2
         /\ \A k \in 1 .. Len(<<a, b>>) : <<a, b>>[k] \in T
OBVIOUS

\* What a unit is printed as
LEMMA PrintedIs ==
  ASSUME Names!NamesAssumption, NEW u \in 0 .. 3
  PROVE  /\ Names!Printed(u) \in Seq(Piece) /\ Len(Names!Printed(u)) \in 1 .. 2
         /\ \A k \in 1 .. Len(Names!Printed(u)) : Names!Printed(u)[k] \in {"0", "1"}
<1>1. Names!Printed(0) = <<"0">> /\ Names!Printed(1) = <<"1">>
      /\ Names!Printed(2) = <<"1", "0">> /\ Names!Printed(3) = <<"1", "1">>
  BY DEF Names!Printed
<1>2. \A a, b \in {"0", "1"} :
          /\ <<a>> \in Seq(Piece) /\ Len(<<a>>) \in 1 .. 2
          /\ \A k \in 1 .. Len(<<a>>) : <<a>>[k] \in {"0", "1"}
          /\ <<a, b>> \in Seq(Piece) /\ Len(<<a, b>>) \in 1 .. 2
          /\ \A k \in 1 .. Len(<<a, b>>) : <<a, b>>[k] \in {"0", "1"}
  <2>1. {"0", "1"} \subseteq Piece
    BY DEF Names!NamesAssumption
  <2> QED
    BY <2>1, OneOrTwo, Zenon
<1>3. u = 0 \/ u = 1 \/ u = 2 \/ u = 3
  OBVIOUS
<1>4. "0" \in {"0", "1"} /\ "1" \in {"0", "1"}
  OBVIOUS
<1> QED
  BY <1>1, <1>2, <1>3, <1>4, Zenon

\* A format is not itself given as a name.
LEMMA ValidNameNoFormat ==
  ASSUME Names!NamesAssumption, NEW asked \in Request, NEW ns,
         Names!ValidName(asked, ns) # NoName
  PROVE  ~Names!Format(Names!ValidName(asked, ns))
<1>1. CASE ~Names!Format(asked)
  BY <1>1 DEF Names!ValidName
<1>2. CASE Names!Format(asked)
  <2> DEFINE M == {MaxUnits} \cup (Names!Units \ Names!InUse(asked, ns))
             u == Names!Min(M)
             P == Names!Printed(u)
             L == Len(asked) - 1
             W == Names!Whole(asked, u)
             K == {Len(W), Len(asked) - 1 + Room}
             k == Names!Min(K)
             N == SubSeq(W, 1, k)
  <2>1. Names!ValidName(asked, ns) = N
    BY <1>2 DEF Names!ValidName, Names!AllocName, Names!Named
  <2>2. u \in 0 .. 3
    <3>1. M \in SUBSET Nat /\ M \subseteq 0 .. 3 /\ M # {}
      BY DEF Names!NamesAssumption, Names!Units
    <3> HIDE DEF M
    <3> QED
      BY <3>1, LeastIsOne
  <2> HIDE DEF u
  <2>3. P \in Seq(Piece) /\ Len(P) \in 1 .. 2 /\ \A i \in 1 .. Len(P) : P[i] \in {"0", "1"}
    BY <2>2, PrintedIs
  <2>4. asked \in Seq(Piece) /\ Len(asked) \in Nat \ {0} /\ Room \in Nat \ {0}
    BY DEF Names!NamesAssumption
  <2>5. SubSeq(asked, 1, L) \in Seq(Piece) /\ Len(SubSeq(asked, 1, L)) = L /\ L \in Nat
    <3>1. L \in 0 .. Len(asked) /\ 1 \in 1 .. Len(asked) + 1 /\ 1 <= L + 1 /\ L \in Nat
      BY <2>4
    <3> HIDE DEF L
    <3>2. SubSeq(asked, 1, L) \in Seq(Piece) /\ Len(SubSeq(asked, 1, L)) = L - 1 + 1
      BY <2>4, <3>1, PartOfSeq
    <3> QED
      BY <3>1, <3>2
  <2>6. W = SubSeq(asked, 1, L) \o P
    BY DEF Names!Whole
  <2> HIDE DEF P, L, W
  <2>7. /\ W \in Seq(Piece) /\ Len(W) = L + Len(P)
        /\ \A i \in L + 1 .. L + Len(P) : W[i] = P[i - L]
    BY <2>3, <2>5, <2>6, AtEnd
  <2>8. k \in L + 1 .. L + Len(P)
    <3>1. K \in SUBSET Nat /\ K # {} /\ \A i \in K : i >= L + 1
      <4>1. Len(W) \in Nat /\ Len(W) >= L + 1
        <5>1. Len(W) = L + Len(P) /\ Len(P) \in 1 .. 2 /\ L \in Nat
          BY <2>3, <2>5, <2>7, Zenon
        <5> QED
          BY <5>1
      <4>2. Len(asked) - 1 + Room \in Nat /\ Len(asked) - 1 + Room >= L + 1
        BY <2>4 DEF L
      <4> QED
        BY <4>1, <4>2
    <3>2. k \in K /\ k <= Len(W)
      BY <3>1, LeastIsOne
    <3> HIDE DEF k, K
    <3> QED
      BY <2>3, <2>5, <2>7, <3>1, <3>2
  <2> HIDE DEF k
  <2>9. Len(N) = k /\ N[k] = W[k]
    <3>1. k \in 1 .. Len(W) /\ 1 \in 1 .. Len(W) + 1 /\ k \in 0 .. Len(W)
      BY <2>3, <2>5, <2>7, <2>8
    <3> QED
      BY <2>7, <3>1, PartOfSeq
  <2>10. N[k] \in {"0", "1"}
    <3>1. k - L \in 1 .. Len(P)
      BY <2>3, <2>5, <2>8
    <3> QED
      BY <2>3, <2>7, <2>8, <2>9, <3>1
  <2> HIDE DEF N
  <2>11. N[Len(N)] # "%d"
    BY <2>9, <2>10
  <2> QED
    BY <2>1, <2>11 DEF Names!Format
<1> QED
  BY <1>1, <1>2

LEMMA Remainders ==
  ASSUME NEW m \in Nat, NEW a \in Nat, a < m
  PROVE  a % m = a /\ (a + m) % m = a
<1>1. m > 0
  OBVIOUS
<1>2. a % m = a
  BY <1>1
<1>3. (a + m) % m = a
  BY <1>1
<1> QED
  BY <1>2, <1>3

LEMMA NewIndexIsFree ==
  ASSUME Names!NamesAssumption, NamesTypeOK, NEW ns \in Ns
  PROVE  Names!NewIndex(ns) \in 1 .. MaxIndex /\ Names!ByIndex(Names!NewIndex(ns), ns) = {}
<1> DEFINE L == lastIndex[ns]
           M == MaxIndex
           At(k) == ((L + k) % M) + 1
           K == {k \in 0 .. M - 1 : Names!ByIndex(At(k), ns) = {}}
           used == {index[d] : d \in listed}
<1>1. M \in Nat /\ L \in 0 .. M /\ M > Cardinality(NamedDev) /\ Cardinality(NamedDev) \in Nat
      /\ M > 0
  <2>1. Cardinality(NamedDev) \in Nat
    BY NamesCardinality, FS_CardinalityType DEF Names!NamesAssumption
  <2> QED
    BY <2>1, NamesCardinality DEF Names!NamesAssumption, NamesTypeOK
<1>2. \E i \in 1 .. M : i \notin used
  <2>1. SUFFICES ASSUME \A i \in 1 .. M : i \in used PROVE FALSE
    OBVIOUS
  <2>2. IsFiniteSet(listed) /\ Cardinality(listed) <= Cardinality(NamedDev)
    BY NamesCardinality, FS_Subset DEF NamesTypeOK, Names!NamesAssumption
  <2>3. IsFiniteSet(1 .. M) /\ Cardinality(1 .. M) = M
    BY <1>1, FS_Interval
  <2>4. Cardinality(listed) < Cardinality(1 .. M)
    <3>1. Cardinality(listed) \in Nat
      BY <2>2, FS_CardinalityType
    <3> QED
      BY <1>1, <2>2, <2>3, <3>1
  <2> DEFINE f == [i \in 1 .. M |-> CHOOSE d \in listed : index[d] = i]
  <2>5. \A i \in 1 .. M : f[i] \in listed /\ index[f[i]] = i
    BY <2>1
  <2>6. f \in [1 .. M -> listed]
    BY <2>5
  <2> HIDE DEF f
  <2>7. \E i, j \in 1 .. M : i # j /\ f[i] = f[j]
    BY <2>2, <2>3, <2>4, <2>6, FS_PigeonHole
  <2> QED
    BY <2>5, <2>7
<1>3. PICK i \in 1 .. M : i \notin used
  BY <1>2
<1>4. Names!ByIndex(i, ns) = {}
  BY <1>3 DEF Names!ByIndex
<1> HIDE DEF used, M, L
<1>5. \E k \in 0 .. M - 1 : At(k) = i
  <2>1. i - 1 \in Nat /\ i - 1 < M /\ (i - 1) % M = i - 1 /\ (i - 1 + M) % M = i - 1
    BY <1>1, Remainders
  <2>2. CASE i - 1 >= L
    <3>1. i - 1 - L \in 0 .. M - 1 /\ L + (i - 1 - L) = i - 1
      BY <1>1, <2>1, <2>2
    <3> QED
      BY <2>1, <3>1
  <2>3. CASE i - 1 < L
    <3>1. i - 1 - L + M \in 0 .. M - 1 /\ L + (i - 1 - L + M) = i - 1 + M
      BY <1>1, <2>1, <2>3
    <3> QED
      BY <2>1, <3>1
  <2> QED
    BY <1>1, <2>2, <2>3
<1>6. \A k \in 0 .. M - 1 : At(k) \in 1 .. M
  BY <1>1
<1> HIDE DEF At
<1>7. K # {} /\ K \in SUBSET Nat
  BY <1>1, <1>4, <1>5
<1>8. \E k \in K : \A l \in K : k <= l
  BY <1>7, Smallest
<1>9. Names!Min(K) \in K
  BY <1>8 DEF Names!Min
<1>10. Names!NewIndex(ns) = At(Names!Min(K))
  BY DEF Names!NewIndex, At, L, M
<1> HIDE DEF K
<1>11. Names!Min(K) \in 0 .. M - 1 /\ Names!ByIndex(At(Names!Min(K)), ns) = {}
  BY <1>9 DEF K
<1> QED
  BY <1>6, <1>10, <1>11 DEF M

\* The namespace the name of the task's device is for
Target == IF task.pc \in Moving THEN task.net ELSE net[task.dev]

\* The devices on the list that no operation is under way for
Others == listed \ {task.dev}

\* The device of the task under way is listed, or taken off the lists to be moved; a
\* rename that is not a format has written the name asked for.
NamesTaskOK ==
    /\ task.pc \in Renaming \cup {"unlist"} => task.dev \in listed
    /\ task.pc = "move" => task.dev \notin listed /\ index[task.dev] \in 1 .. MaxIndex
    /\ \A d \in linked : d \in listed \/ (task.pc = "move" /\ d = task.dev)
    /\ task.pc \in Renaming /\ ~task.again /\ ~Names!Format(task.asked)
       => names[task.dev] = task.asked

\* The name of a settled device is no other device's in its namespace, and neither the one
\* the task's device has nor the one it goes back to; and the same of the task's device.
NamesDiffer ==
    /\ \A d \in Names!Settled : \A e \in Others :
           d # e /\ net[d] = net[e] => names[d] # names[e]
    /\ task.pc # "idle" =>
           \A e \in Others : net[e] = Target /\ (e \notin lost \/ task.dev \notin lost)
                             => names[e] # names[task.dev]
    /\ task.pc \in Renaming =>
           \A e \in Others :
               /\ net[e] = net[task.dev]
               /\ e \notin lost \/ (task.dev \notin lost /\ ~Names!Format(task.old))
               => names[e] # task.old

\* Only a device left with a format for a name is not under its name in the hash table.
NamesHashed ==
    /\ \A d \in Others : bucket[d] = names[d] \/ Names!Format(names[d])
    /\ task.pc = "rename" => bucket[task.dev] = task.old \/ Names!Format(task.old)
    /\ task.pc = "notify" => bucket[task.dev] = names[task.dev]

\* Such a device is one left wrong.
NamesNoFormat ==
    /\ \A d \in Names!Settled : ~Names!Format(names[d])
    /\ task.pc # "idle" /\ task.dev \notin lost =>
           /\ ~Names!Format(names[task.dev])
           /\ task.pc \in Renaming /\ ~task.again => ~Names!Format(task.old)

\* The indices differ, too; they are those of __dev_get_by_index.
IndicesDiffer ==
    /\ \A d, e \in listed : d # e /\ net[d] = net[e] => index[d] # index[e]
    /\ \A d \in listed : index[d] \in 1 .. MaxIndex

\* sysfs has each device under its name, and the one that is renamed as far as that is
SysfsRight ==
    /\ \A d \in Names!Settled : sysfs[d] = names[d]
    /\ task.dev \notin lost =>
           /\ task.pc = "rename" /\ ~Names!Format(task.old) => sysfs[task.dev] = task.old
           /\ task.pc \in {"unhashed", "notify"} => sysfs[task.dev] = names[task.dev]

\* The name of the link to d, while it is renamed the one it had
LinkName(d) == IF task.pc = "rename" /\ d = task.dev THEN task.old ELSE names[d]

\* The links to devices that are not left wrong are to the linked ones in the home
\* namespace, and these have theirs.
LinksRight ==
    /\ \A n \in DOMAIN links :
           links[n] \notin lost => /\ links[n] \in linked /\ net[links[n]] = HomeNs
                                   /\ n = LinkName(links[n])
    /\ \A d \in linked : d \notin lost /\ net[d] = HomeNs =>
           LinkName(d) \in DOMAIN links /\ links[LinkName(d)] = d

\* What netdev_get_name copies is the name, which the semaphore keeps.
ReaderOK == /\ task.pc = "rename" => reading = NoDev
            /\ reading # NoDev /\ ~torn => names[reading] = copied

\* The inductive invariant of names and indices
NamesIInv == /\ NamesTypeOK /\ NamesTaskOK /\ NamesDiffer /\ NamesHashed /\ NamesNoFormat
             /\ IndicesDiffer /\ SysfsRight /\ LinksRight /\ ReaderOK

LEMMA RenamedLinks ==
  ASSUME Names!NamesAssumption, NamesIInv, Names!Renamed
  PROVE  LinksRight'
<1> DEFINE d == task.dev
           o == task.old
           m == names[d]
           ls == Names!WithoutLink(links, o)
<1>1. /\ task.pc = "rename" /\ links' = Names!RenameLinks(links, d, o)
      /\ lost' = IF Names!Blocked(ls, d, net[d]) THEN lost \cup {d} ELSE lost
      /\ task' = [task EXCEPT !.pc = "unhashed"]
      /\ names' = names /\ net' = net /\ linked' = linked
  BY DEF Names!Renamed
<1>2. LinkName(d) = o /\ \A e : e # d => LinkName(e) = names[e]
  BY <1>1 DEF LinkName
<1>3. \A e : LinkName(e)' = names[e]
  BY <1>1 DEF LinkName, NamesIInv, NamesTypeOK
<1>4. /\ \A n \in DOMAIN links : links[n] \notin lost =>
             links[n] \in linked /\ net[links[n]] = HomeNs /\ n = LinkName(links[n])
      /\ \A e \in linked : e \notin lost /\ net[e] = HomeNs =>
             LinkName(e) \in DOMAIN links /\ links[LinkName(e)] = e
  BY DEF NamesIInv, LinksRight
<1>5. \A e \in linked : e # d => e \in Others
  BY <1>1 DEF NamesIInv, NamesTaskOK, Others
<1>6. CASE ~(d \in linked /\ net[d] = HomeNs)
  <2>1. links' = links /\ lost' = lost
    BY <1>1, <1>6 DEF Names!RenameLinks, Names!Blocked
  <2>2. \A n \in DOMAIN links : links[n] \notin lost =>
           links[n] \in linked /\ net[links[n]] = HomeNs /\ n = names[links[n]]
    BY <1>2, <1>4, <1>6
  <2>3. \A e \in linked : e \notin lost /\ net[e] = HomeNs =>
           names[e] \in DOMAIN links /\ links[names[e]] = e
    BY <1>2, <1>4, <1>6
  <2> QED
    BY <1>1, <1>3, <2>1, <2>2, <2>3 DEF LinksRight
<1>7. CASE d \in linked /\ net[d] = HomeNs
  <2>1. DOMAIN ls = DOMAIN links \ {o} /\ \A n \in DOMAIN ls : ls[n] = links[n]
    BY DEF Names!WithoutLink
  <2>2. links' = Names!WithLink(ls, m, d)
    BY <1>1, <1>7 DEF Names!RenameLinks
  <2>3. Names!Blocked(ls, d, net[d]) <=> m \in DOMAIN ls /\ ls[m] \in lost
    BY <1>7 DEF Names!Blocked
  <2> HIDE DEF ls, m, o
  <2>4. ASSUME NEW n \in DOMAIN ls, ls[n] \notin lost
        PROVE  /\ ls[n] \in linked /\ ls[n] # d /\ net[ls[n]] = HomeNs
               /\ n = names[ls[n]] /\ n # m
    <3>1. n \in DOMAIN links /\ n # o /\ ls[n] = links[n]
      BY <2>1
    <3>2. links[n] \in linked /\ net[links[n]] = HomeNs /\ n = LinkName(links[n])
      BY <1>4, <2>4, <3>1
    <3>3. links[n] # d
      BY <1>2, <3>1, <3>2
    <3>4. links[n] \in Others /\ n = names[links[n]]
      BY <1>2, <1>5, <3>2, <3>3
    <3>5. names[links[n]] # m
      BY <1>1, <1>7, <2>4, <3>1, <3>2, <3>4 DEF NamesIInv, NamesDiffer, Target, Moving, m
    <3> QED
      BY <3>1, <3>2, <3>3, <3>4, <3>5
  <2>5. ASSUME NEW e \in linked, e # d, e \notin lost, net[e] = HomeNs
        PROVE  names[e] \in DOMAIN ls /\ ls[names[e]] = e
    <3>1. names[e] \in DOMAIN links /\ links[names[e]] = e
      BY <1>2, <1>4, <2>5
    <3>2. names[e] # o
      BY <1>1, <1>5, <1>7, <2>5 DEF NamesIInv, NamesDiffer, Renaming, o
    <3> QED
      BY <2>1, <3>1, <3>2
  <2>6. CASE m \in DOMAIN ls
    <3>1. ls[m] \in lost
      BY <2>4, <2>6
    <3>2. lost' = lost \cup {d} /\ links' = ls
      BY <1>1, <2>2, <2>3, <2>6, <3>1 DEF Names!WithLink
    <3> QED
      BY <1>1, <1>3, <2>4, <2>5, <3>2 DEF LinksRight
  <2>7. CASE m \notin DOMAIN ls
    <3>1. lost' = lost /\ links' = [n \in DOMAIN ls \cup {m} |-> IF n = m THEN d ELSE ls[n]]
      BY <1>1, <2>2, <2>3, <2>7 DEF Names!WithLink
    <3>2. DOMAIN links' = DOMAIN ls \cup {m} /\ links'[m] = d
          /\ \A n \in DOMAIN ls : links'[n] = ls[n]
      BY <2>7, <3>1
    <3>3. \A n \in DOMAIN links' : links'[n] \notin lost =>
             links'[n] \in linked /\ net[links'[n]] = HomeNs /\ n = names[links'[n]]
      BY <1>7, <2>4, <3>2 DEF m
    <3>4. \A e \in linked : e \notin lost /\ net[e] = HomeNs =>
             names[e] \in DOMAIN links' /\ links'[names[e]] = e
      BY <2>5, <3>2 DEF m
    <3> QED
      BY <1>1, <1>3, <3>1, <3>3, <3>4 DEF LinksRight
  <2> QED
    BY <2>6, <2>7
<1> QED
  BY <1>6, <1>7

LEMMA NamesRenamedOK ==
  ASSUME Names!NamesAssumption, NamesIInv, Names!Renamed
  PROVE  NamesIInv'
<1> DEFINE d == task.dev
<1>1. /\ task.pc = "rename" /\ links' = Names!RenameLinks(links, d, task.old)
      /\ sysfs' = [sysfs EXCEPT ![d] = names[d]] /\ bucket' = [bucket EXCEPT ![d] = NoName]
      /\ task' = [task EXCEPT !.pc = "unhashed"]
      /\ UNCHANGED <<names, net, listed, index, lastIndex, linked, ops, reading, copied, torn>>
  BY DEF Names!Renamed
<1>2. lost' = lost \/ lost' = lost \cup {d}
  BY DEF Names!Renamed
<1>3. /\ DOMAIN task' = {"pc", "dev", "old", "asked", "again", "net"} /\ task'.pc = "unhashed"
      /\ task'.dev = d /\ task'.old = task.old /\ task'.asked = task.asked
      /\ task'.net = task.net /\ d \in NamedDev
  BY <1>1 DEF NamesIInv, NamesTypeOK
<1>4. task'.again = task.again
  BY <1>1 DEF NamesIInv, NamesTypeOK
<1>5. \A n \in DOMAIN links' : links'[n] \in NamedDev
  BY <1>1, <1>3 DEF NamesIInv, NamesTypeOK, Names!RenameLinks, Names!WithLink, Names!WithoutLink
<1>6. NamesTypeOK'
  BY <1>1, <1>2, <1>3, <1>4, <1>5
     DEF NamesIInv, NamesTypeOK, NamesTaskOK, Names!NamesAssumption, Renaming, Moving
<1>7. NamesTaskOK'
  BY <1>1, <1>2, <1>3, <1>4, <1>5
     DEF NamesIInv, NamesTypeOK, NamesTaskOK, IndicesDiffer, Names!NamesAssumption, Renaming,
         Moving
<1>8. NamesDiffer'
  BY <1>1, <1>2, <1>3, <1>4, <1>5
     DEF NamesIInv, NamesTypeOK, NamesTaskOK, NamesDiffer, NamesNoFormat, Others, Names!Settled,
         Target, Names!NamesAssumption, Renaming, Moving
<1>9. NamesHashed'
  BY <1>1, <1>2, <1>3, <1>4, <1>5
     DEF NamesIInv, NamesTypeOK, NamesTaskOK, NamesHashed, Others, Names!NamesAssumption,
         Renaming, Moving
<1>10. NamesNoFormat'
  BY <1>1, <1>2, <1>3, <1>4, <1>5
     DEF NamesIInv, NamesTypeOK, NamesTaskOK, NamesNoFormat, Others, Names!Settled,
         Names!NamesAssumption, Renaming, Moving
<1>11. IndicesDiffer'
  BY <1>1, <1>2, <1>3, <1>4, <1>5
     DEF NamesIInv, NamesTypeOK, NamesTaskOK, IndicesDiffer, Names!NamesAssumption, Renaming,
         Moving
<1>12. SysfsRight'
  BY <1>1, <1>2, <1>3, <1>4, <1>5
     DEF NamesIInv, NamesTypeOK, NamesTaskOK, SysfsRight, NamesNoFormat, Others, Names!Settled,
         Names!NamesAssumption, Renaming, Moving
<1>13. LinksRight'
  BY RenamedLinks
<1>14. ReaderOK'
  BY <1>1, <1>2, <1>3, <1>4, <1>5
     DEF NamesIInv, NamesTypeOK, NamesTaskOK, ReaderOK, Names!NamesAssumption, Renaming, Moving
<1> QED
  BY <1>6, <1>7, <1>8, <1>9, <1>10, <1>11, <1>12, <1>13, <1>14 DEF NamesIInv

LEMMA NamesRenameFailsOK ==
  ASSUME Names!NamesAssumption, NamesIInv, Names!RenameFails
  PROVE  NamesIInv'
<1>11. NamesTypeOK'
  BY DEF NamesIInv, NamesTypeOK, NamesTaskOK, Names!NamesAssumption, Names!RenameFails,
     Names!Idle, Renaming, Moving
<1>12. NamesTaskOK'
  BY DEF NamesIInv, NamesTypeOK, NamesTaskOK, IndicesDiffer, Names!NamesAssumption,
     Names!RenameFails, Names!Idle, Renaming, Moving
<1>13. NamesDiffer'
  <2>1. /\ task.pc = "rename" /\ task' = Names!Idle /\ task'.pc = "idle" /\ task'.dev = NoDev
        /\ names' = [names EXCEPT ![task.dev] = task.old] /\ listed' = listed /\ net' = net
        /\ lost' = IF task.again /\ Names!Format(task.old) THEN lost \cup {task.dev} ELSE lost
    BY DEF Names!RenameFails, Names!Idle
  <2>2. /\ task.dev \in listed /\ names'[task.dev] = task.old
        /\ \A e \in listed : e # task.dev => names'[e] = names[e]
    BY <2>1 DEF NamesIInv, NamesTypeOK, NamesTaskOK, Renaming
  <2>3. ASSUME NEW d \in Names!Settled', NEW e \in listed, d # e, net[d] = net[e]
        PROVE  names'[d] # names'[e]
    <3>1. d \in listed /\ d \notin lost /\ d \notin lost'
      BY <2>1, <2>3 DEF Names!Settled
    <3>2. CASE d # task.dev /\ e # task.dev
      BY <2>1, <2>2, <2>3, <3>1, <3>2 DEF NamesIInv, NamesDiffer, Others, Names!Settled
    <3>3. CASE e = task.dev
      BY <2>1, <2>2, <2>3, <3>1, <3>3 DEF NamesIInv, NamesDiffer, Others, Renaming
    <3>4. CASE d = task.dev
      <4>1. ~Names!Format(task.old)
        BY <2>1, <3>1, <3>4 DEF NamesIInv, NamesNoFormat, Renaming
      <4> QED
        BY <2>1, <2>2, <2>3, <3>1, <3>4, <4>1 DEF NamesIInv, NamesDiffer, Others, Renaming
    <3> QED
      BY <3>2, <3>3, <3>4
  <2> QED
    BY <2>1, <2>3 DEF NamesDiffer, Others, Renaming
<1>14. NamesHashed'
  BY DEF NamesIInv, NamesTypeOK, NamesTaskOK, NamesHashed, Others, Names!NamesAssumption,
     Names!RenameFails, Names!Idle, Renaming, Moving
<1>15. NamesNoFormat'
  BY DEF NamesIInv, NamesTypeOK, NamesTaskOK, NamesNoFormat, Others, Names!Settled,
     Names!NamesAssumption, Names!RenameFails, Names!Idle, Renaming, Moving
<1>16. IndicesDiffer'
  BY DEF NamesIInv, NamesTypeOK, NamesTaskOK, IndicesDiffer, Names!NamesAssumption,
     Names!RenameFails, Names!Idle, Renaming, Moving
<1>17. SysfsRight'
  BY DEF NamesIInv, NamesTypeOK, NamesTaskOK, SysfsRight, NamesNoFormat, Others, Names!Settled,
     Names!NamesAssumption, Names!RenameFails, Names!Idle, Renaming, Moving
<1>18. LinksRight'
  BY DEF NamesIInv, NamesTypeOK, NamesTaskOK, LinksRight, LinkName, Names!NamesAssumption,
     Names!RenameFails, Names!Idle, Renaming, Moving
<1>19. ReaderOK'
  BY DEF NamesIInv, NamesTypeOK, NamesTaskOK, ReaderOK, Names!NamesAssumption,
     Names!RenameFails, Names!Idle, Renaming, Moving
<1> QED
  BY <1>11, <1>12, <1>13, <1>14, <1>15, <1>16, <1>17, <1>18, <1>19 DEF NamesIInv

LEMMA NamesHashedOK ==
  ASSUME Names!NamesAssumption, NamesIInv, Names!Hashed
  PROVE  NamesIInv'
<1>11. NamesTypeOK'
  BY DEF NamesIInv, NamesTypeOK, NamesTaskOK, Names!NamesAssumption, Names!Hashed, Renaming,
     Moving
<1>12. NamesTaskOK'
  BY DEF NamesIInv, NamesTypeOK, NamesTaskOK, IndicesDiffer, Names!NamesAssumption,
     Names!Hashed, Renaming, Moving
<1>13. NamesDiffer'
  BY DEF NamesIInv, NamesTypeOK, NamesTaskOK, NamesDiffer, Others, Names!Settled, Target,
     Names!NamesAssumption, Names!Hashed, Renaming, Moving
<1>14. NamesHashed'
  BY DEF NamesIInv, NamesTypeOK, NamesTaskOK, NamesHashed, Others, Names!NamesAssumption,
     Names!Hashed, Renaming, Moving
<1>15. NamesNoFormat'
  BY DEF NamesIInv, NamesTypeOK, NamesTaskOK, NamesNoFormat, Others, Names!Settled,
     Names!NamesAssumption, Names!Hashed, Renaming, Moving
<1>16. IndicesDiffer'
  BY DEF NamesIInv, NamesTypeOK, NamesTaskOK, IndicesDiffer, Names!NamesAssumption,
     Names!Hashed, Renaming, Moving
<1>17. SysfsRight'
  BY DEF NamesIInv, NamesTypeOK, NamesTaskOK, SysfsRight, NamesNoFormat, Others, Names!Settled,
     Names!NamesAssumption, Names!Hashed, Renaming, Moving
<1>18. LinksRight'
  BY DEF NamesIInv, NamesTypeOK, NamesTaskOK, LinksRight, LinkName, Names!NamesAssumption,
     Names!Hashed, Renaming, Moving
<1>19. ReaderOK'
  BY DEF NamesIInv, NamesTypeOK, NamesTaskOK, ReaderOK, Names!NamesAssumption, Names!Hashed,
     Renaming, Moving
<1> QED
  BY <1>11, <1>12, <1>13, <1>14, <1>15, <1>16, <1>17, <1>18, <1>19 DEF NamesIInv

LEMMA NamesNotifiedOK ==
  ASSUME Names!NamesAssumption, NamesIInv, Names!Notified
  PROVE  NamesIInv'
<1>11. NamesTypeOK'
  BY DEF NamesIInv, NamesTypeOK, NamesTaskOK, Names!NamesAssumption, Names!Notified, Names!Idle,
     Renaming, Moving
<1>12. NamesTaskOK'
  BY DEF NamesIInv, NamesTypeOK, NamesTaskOK, IndicesDiffer, Names!NamesAssumption,
     Names!Notified, Names!Idle, Renaming, Moving
<1>13. NamesDiffer'
  BY DEF NamesIInv, NamesTypeOK, NamesTaskOK, NamesDiffer, Others, Names!Settled, Target,
     Names!NamesAssumption, Names!Notified, Names!Idle, Renaming, Moving
<1>14. NamesHashed'
  BY DEF NamesIInv, NamesTypeOK, NamesTaskOK, NamesHashed, Others, Names!NamesAssumption,
     Names!Notified, Names!Idle, Renaming, Moving
<1>15. NamesNoFormat'
  BY DEF NamesIInv, NamesTypeOK, NamesTaskOK, NamesNoFormat, Others, Names!Settled,
     Names!NamesAssumption, Names!Notified, Names!Idle, Renaming, Moving
<1>16. IndicesDiffer'
  BY DEF NamesIInv, NamesTypeOK, NamesTaskOK, IndicesDiffer, Names!NamesAssumption,
     Names!Notified, Names!Idle, Renaming, Moving
<1>17. SysfsRight'
  BY DEF NamesIInv, NamesTypeOK, NamesTaskOK, SysfsRight, NamesNoFormat, Others, Names!Settled,
     Names!NamesAssumption, Names!Notified, Names!Idle, Renaming, Moving
<1>18. LinksRight'
  BY DEF NamesIInv, NamesTypeOK, NamesTaskOK, LinksRight, LinkName, Names!NamesAssumption,
     Names!Notified, Names!Idle, Renaming, Moving
<1>19. ReaderOK'
  BY DEF NamesIInv, NamesTypeOK, NamesTaskOK, ReaderOK, Names!NamesAssumption, Names!Notified,
     Names!Idle, Renaming, Moving
<1> QED
  BY <1>11, <1>12, <1>13, <1>14, <1>15, <1>16, <1>17, <1>18, <1>19 DEF NamesIInv

LEMMA NamesUnlistedOK ==
  ASSUME Names!NamesAssumption, NamesIInv, Names!Unlisted
  PROVE  NamesIInv'
<1>11. NamesTypeOK'
  BY DEF NamesIInv, NamesTypeOK, NamesTaskOK, Names!NamesAssumption, Names!Unlisted, Renaming,
     Moving
<1>12. NamesTaskOK'
  BY DEF NamesIInv, NamesTypeOK, NamesTaskOK, IndicesDiffer, Names!NamesAssumption,
     Names!Unlisted, Renaming, Moving
<1>13. NamesDiffer'
  BY DEF NamesIInv, NamesTypeOK, NamesTaskOK, NamesDiffer, Others, Names!Settled, Target,
     Names!NamesAssumption, Names!Unlisted, Renaming, Moving
<1>14. NamesHashed'
  BY DEF NamesIInv, NamesTypeOK, NamesTaskOK, NamesHashed, Others, Names!NamesAssumption,
     Names!Unlisted, Renaming, Moving
<1>15. NamesNoFormat'
  BY DEF NamesIInv, NamesTypeOK, NamesTaskOK, NamesNoFormat, Others, Names!Settled,
     Names!NamesAssumption, Names!Unlisted, Renaming, Moving
<1>16. IndicesDiffer'
  BY DEF NamesIInv, NamesTypeOK, NamesTaskOK, IndicesDiffer, Names!NamesAssumption,
     Names!Unlisted, Renaming, Moving
<1>17. SysfsRight'
  BY DEF NamesIInv, NamesTypeOK, NamesTaskOK, SysfsRight, NamesNoFormat, Others, Names!Settled,
     Names!NamesAssumption, Names!Unlisted, Renaming, Moving
<1>18. LinksRight'
  BY DEF NamesIInv, NamesTypeOK, NamesTaskOK, LinksRight, LinkName, Names!NamesAssumption,
     Names!Unlisted, Renaming, Moving
<1>19. ReaderOK'
  BY DEF NamesIInv, NamesTypeOK, NamesTaskOK, ReaderOK, Names!NamesAssumption, Names!Unlisted,
     Renaming, Moving
<1> QED
  BY <1>11, <1>12, <1>13, <1>14, <1>15, <1>16, <1>17, <1>18, <1>19 DEF NamesIInv

LEMMA NamesGetNameOK ==
  ASSUME Names!NamesAssumption, NamesIInv, NEW d \in NamedDev, Names!GetName(d)
  PROVE  NamesIInv'
<1>11. NamesTypeOK'
  BY DEF NamesIInv, NamesTypeOK, NamesTaskOK, Names!NamesAssumption, Names!GetName,
     Names!RenameSem, Renaming, Moving
<1>12. NamesTaskOK'
  BY DEF NamesIInv, NamesTypeOK, NamesTaskOK, IndicesDiffer, Names!NamesAssumption,
     Names!GetName, Names!RenameSem, Renaming, Moving
<1>13. NamesDiffer'
  BY DEF NamesIInv, NamesTypeOK, NamesTaskOK, NamesDiffer, Others, Names!Settled, Target,
     Names!NamesAssumption, Names!GetName, Names!RenameSem, Renaming, Moving
<1>14. NamesHashed'
  BY DEF NamesIInv, NamesTypeOK, NamesTaskOK, NamesHashed, Others, Names!NamesAssumption,
     Names!GetName, Names!RenameSem, Renaming, Moving
<1>15. NamesNoFormat'
  BY DEF NamesIInv, NamesTypeOK, NamesTaskOK, NamesNoFormat, Others, Names!Settled,
     Names!NamesAssumption, Names!GetName, Names!RenameSem, Renaming, Moving
<1>16. IndicesDiffer'
  BY DEF NamesIInv, NamesTypeOK, NamesTaskOK, IndicesDiffer, Names!NamesAssumption,
     Names!GetName, Names!RenameSem, Renaming, Moving
<1>17. SysfsRight'
  BY DEF NamesIInv, NamesTypeOK, NamesTaskOK, SysfsRight, NamesNoFormat, Others, Names!Settled,
     Names!NamesAssumption, Names!GetName, Names!RenameSem, Renaming, Moving
<1>18. LinksRight'
  BY DEF NamesIInv, NamesTypeOK, NamesTaskOK, LinksRight, LinkName, Names!NamesAssumption,
     Names!GetName, Names!RenameSem, Renaming, Moving
<1>19. ReaderOK'
  BY DEF NamesIInv, NamesTypeOK, NamesTaskOK, ReaderOK, Names!NamesAssumption, Names!GetName,
     Names!RenameSem, Renaming, Moving
<1> QED
  BY <1>11, <1>12, <1>13, <1>14, <1>15, <1>16, <1>17, <1>18, <1>19 DEF NamesIInv

LEMMA NamesGotNameOK ==
  ASSUME Names!NamesAssumption, NamesIInv, Names!GotName
  PROVE  NamesIInv'
<1>11. NamesTypeOK'
  BY DEF NamesIInv, NamesTypeOK, NamesTaskOK, Names!NamesAssumption, Names!GotName, Renaming,
     Moving
<1>12. NamesTaskOK'
  BY DEF NamesIInv, NamesTypeOK, NamesTaskOK, IndicesDiffer, Names!NamesAssumption,
     Names!GotName, Renaming, Moving
<1>13. NamesDiffer'
  BY DEF NamesIInv, NamesTypeOK, NamesTaskOK, NamesDiffer, Others, Names!Settled, Target,
     Names!NamesAssumption, Names!GotName, Renaming, Moving
<1>14. NamesHashed'
  BY DEF NamesIInv, NamesTypeOK, NamesTaskOK, NamesHashed, Others, Names!NamesAssumption,
     Names!GotName, Renaming, Moving
<1>15. NamesNoFormat'
  BY DEF NamesIInv, NamesTypeOK, NamesTaskOK, NamesNoFormat, Others, Names!Settled,
     Names!NamesAssumption, Names!GotName, Renaming, Moving
<1>16. IndicesDiffer'
  BY DEF NamesIInv, NamesTypeOK, NamesTaskOK, IndicesDiffer, Names!NamesAssumption,
     Names!GotName, Renaming, Moving
<1>17. SysfsRight'
  BY DEF NamesIInv, NamesTypeOK, NamesTaskOK, SysfsRight, NamesNoFormat, Others, Names!Settled,
     Names!NamesAssumption, Names!GotName, Renaming, Moving
<1>18. LinksRight'
  BY DEF NamesIInv, NamesTypeOK, NamesTaskOK, LinksRight, LinkName, Names!NamesAssumption,
     Names!GotName, Renaming, Moving
<1>19. ReaderOK'
  BY DEF NamesIInv, NamesTypeOK, NamesTaskOK, ReaderOK, Names!NamesAssumption, Names!GotName,
     Renaming, Moving
<1> QED
  BY <1>11, <1>12, <1>13, <1>14, <1>15, <1>16, <1>17, <1>18, <1>19 DEF NamesIInv

LEMMA NamesLinkOK ==
  ASSUME Names!NamesAssumption, NamesIInv, NEW d \in NamedDev, Names!Link(d)
  PROVE  NamesIInv'
<1>11. NamesTypeOK'
  BY DEF NamesIInv, NamesTypeOK, NamesTaskOK, Names!NamesAssumption, Names!Link, Names!Begin,
     Names!IsNeigh, Names!HasLink, Names!WithLink, Renaming, Moving
<1>12. NamesTaskOK'
  BY DEF NamesIInv, NamesTypeOK, NamesTaskOK, IndicesDiffer, Names!NamesAssumption, Names!Link,
     Names!Begin, Names!IsNeigh, Names!HasLink, Names!WithLink, Renaming, Moving
<1>13. NamesDiffer'
  BY DEF NamesIInv, NamesTypeOK, NamesTaskOK, NamesDiffer, Others, Names!Settled, Target,
     Names!NamesAssumption, Names!Link, Names!Begin, Names!IsNeigh, Names!HasLink,
     Names!WithLink, Renaming, Moving
<1>14. NamesHashed'
  BY DEF NamesIInv, NamesTypeOK, NamesTaskOK, NamesHashed, Others, Names!NamesAssumption,
     Names!Link, Names!Begin, Names!IsNeigh, Names!HasLink, Names!WithLink, Renaming, Moving
<1>15. NamesNoFormat'
  BY DEF NamesIInv, NamesTypeOK, NamesTaskOK, NamesNoFormat, Others, Names!Settled,
     Names!NamesAssumption, Names!Link, Names!Begin, Names!IsNeigh, Names!HasLink,
     Names!WithLink, Renaming, Moving
<1>16. IndicesDiffer'
  BY DEF NamesIInv, NamesTypeOK, NamesTaskOK, IndicesDiffer, Names!NamesAssumption, Names!Link,
     Names!Begin, Names!IsNeigh, Names!HasLink, Names!WithLink, Renaming, Moving
<1>17. SysfsRight'
  BY DEF NamesIInv, NamesTypeOK, NamesTaskOK, SysfsRight, NamesNoFormat, Others, Names!Settled,
     Names!NamesAssumption, Names!Link, Names!Begin, Names!IsNeigh, Names!HasLink,
     Names!WithLink, Renaming, Moving
<1>18. LinksRight'
  BY DEF NamesIInv, NamesTypeOK, NamesTaskOK, LinksRight, LinkName, Names!NamesAssumption,
     Names!Link, Names!Begin, Names!IsNeigh, Names!HasLink, Names!WithLink, Renaming, Moving
<1>19. ReaderOK'
  BY DEF NamesIInv, NamesTypeOK, NamesTaskOK, ReaderOK, Names!NamesAssumption, Names!Link,
     Names!Begin, Names!IsNeigh, Names!HasLink, Names!WithLink, Renaming, Moving
<1> QED
  BY <1>11, <1>12, <1>13, <1>14, <1>15, <1>16, <1>17, <1>18, <1>19 DEF NamesIInv

LEMMA NamesUnlinkOK ==
  ASSUME Names!NamesAssumption, NamesIInv, NEW d \in NamedDev, Names!Unlink(d)
  PROVE  NamesIInv'
<1>11. NamesTypeOK'
  BY DEF NamesIInv, NamesTypeOK, NamesTaskOK, Names!NamesAssumption, Names!Unlink, Names!Begin,
     Names!IsNeigh, Names!WithoutLink, Renaming, Moving
<1>12. NamesTaskOK'
  BY DEF NamesIInv, NamesTypeOK, NamesTaskOK, IndicesDiffer, Names!NamesAssumption,
     Names!Unlink, Names!Begin, Names!IsNeigh, Names!WithoutLink, Renaming, Moving
<1>13. NamesDiffer'
  BY DEF NamesIInv, NamesTypeOK, NamesTaskOK, NamesDiffer, Others, Names!Settled, Target,
     Names!NamesAssumption, Names!Unlink, Names!Begin, Names!IsNeigh, Names!WithoutLink,
     Renaming, Moving
<1>14. NamesHashed'
  BY DEF NamesIInv, NamesTypeOK, NamesTaskOK, NamesHashed, Others, Names!NamesAssumption,
     Names!Unlink, Names!Begin, Names!IsNeigh, Names!WithoutLink, Renaming, Moving
<1>15. NamesNoFormat'
  BY DEF NamesIInv, NamesTypeOK, NamesTaskOK, NamesNoFormat, Others, Names!Settled,
     Names!NamesAssumption, Names!Unlink, Names!Begin, Names!IsNeigh, Names!WithoutLink,
     Renaming, Moving
<1>16. IndicesDiffer'
  BY DEF NamesIInv, NamesTypeOK, NamesTaskOK, IndicesDiffer, Names!NamesAssumption,
     Names!Unlink, Names!Begin, Names!IsNeigh, Names!WithoutLink, Renaming, Moving
<1>17. SysfsRight'
  BY DEF NamesIInv, NamesTypeOK, NamesTaskOK, SysfsRight, NamesNoFormat, Others, Names!Settled,
     Names!NamesAssumption, Names!Unlink, Names!Begin, Names!IsNeigh, Names!WithoutLink,
     Renaming, Moving
<1>18. LinksRight'
  <2>1. /\ task.pc = "idle" /\ d \in linked /\ linked' = linked \ {d}
        /\ links' = IF net[d] = HomeNs THEN Names!WithoutLink(links, names[d]) ELSE links
        /\ names' = names /\ net' = net /\ lost' = lost /\ task' = task
    BY DEF Names!Unlink, Names!Begin, Names!IsNeigh
  <2>2. \A e : LinkName(e) = names[e] /\ LinkName(e)' = names[e]
    BY <2>1 DEF LinkName
  <2>3. task.dev = NoDev /\ \A e \in linked : e \in Others
    BY <2>1 DEF NamesIInv, NamesTypeOK, NamesTaskOK, Others, Names!NamesAssumption
  <2>4. /\ \A n \in DOMAIN links :
               links[n] \notin lost => /\ links[n] \in linked /\ net[links[n]] = HomeNs
                                       /\ n = names[links[n]]
        /\ \A e \in linked : e \notin lost /\ net[e] = HomeNs =>
               names[e] \in DOMAIN links /\ links[names[e]] = e
    BY <2>2 DEF NamesIInv, LinksRight
  <2>5. CASE net[d] # HomeNs
    BY <2>1, <2>2, <2>4, <2>5 DEF LinksRight
  <2>6. CASE net[d] = HomeNs
    <3>1. DOMAIN links' = DOMAIN links \ {names[d]} /\ \A n \in DOMAIN links' : links'[n] = links[n]
      BY <2>1, <2>6 DEF Names!WithoutLink
    <3>2. \A e \in linked \ {d} : e \notin lost /\ net[e] = HomeNs => names[e] # names[d]
      BY <2>1, <2>3, <2>6 DEF NamesIInv, NamesDiffer, Others, Names!Settled
    <3>3. \A n \in DOMAIN links' : links'[n] \notin lost =>
             links'[n] \in linked \ {d} /\ net[links'[n]] = HomeNs /\ n = names[links'[n]]
      BY <2>4, <3>1
    <3>4. \A e \in linked \ {d} : e \notin lost /\ net[e] = HomeNs =>
             names[e] \in DOMAIN links' /\ links'[names[e]] = e
      BY <2>4, <3>1, <3>2
    <3> QED
      BY <2>1, <2>2, <3>3, <3>4 DEF LinksRight
  <2> QED
    BY <2>5, <2>6
<1>19. ReaderOK'
  BY DEF NamesIInv, NamesTypeOK, NamesTaskOK, ReaderOK, Names!NamesAssumption, Names!Unlink,
     Names!Begin, Names!IsNeigh, Names!WithoutLink, Renaming, Moving
<1> QED
  BY <1>11, <1>12, <1>13, <1>14, <1>15, <1>16, <1>17, <1>18, <1>19 DEF NamesIInv

LEMMA NamesUnregisterOK ==
  ASSUME Names!NamesAssumption, NamesIInv, NEW d \in NamedDev, Names!Unregister(d)
  PROVE  NamesIInv'
<1>11. NamesTypeOK'
  BY DEF NamesIInv, NamesTypeOK, NamesTaskOK, Names!NamesAssumption, Names!Unregister,
     Names!Begin, Renaming, Moving
<1>12. NamesTaskOK'
  BY DEF NamesIInv, NamesTypeOK, NamesTaskOK, IndicesDiffer, Names!NamesAssumption,
     Names!Unregister, Names!Begin, Renaming, Moving
<1>13. NamesDiffer'
  BY DEF NamesIInv, NamesTypeOK, NamesTaskOK, NamesDiffer, Others, Names!Settled, Target,
     Names!NamesAssumption, Names!Unregister, Names!Begin, Renaming, Moving
<1>14. NamesHashed'
  BY DEF NamesIInv, NamesTypeOK, NamesTaskOK, NamesHashed, Others, Names!NamesAssumption,
     Names!Unregister, Names!Begin, Renaming, Moving
<1>15. NamesNoFormat'
  BY DEF NamesIInv, NamesTypeOK, NamesTaskOK, NamesNoFormat, Others, Names!Settled,
     Names!NamesAssumption, Names!Unregister, Names!Begin, Renaming, Moving
<1>16. IndicesDiffer'
  BY DEF NamesIInv, NamesTypeOK, NamesTaskOK, IndicesDiffer, Names!NamesAssumption,
     Names!Unregister, Names!Begin, Renaming, Moving
<1>17. SysfsRight'
  BY DEF NamesIInv, NamesTypeOK, NamesTaskOK, SysfsRight, NamesNoFormat, Others, Names!Settled,
     Names!NamesAssumption, Names!Unregister, Names!Begin, Renaming, Moving
<1>18. LinksRight'
  BY DEF NamesIInv, NamesTypeOK, NamesTaskOK, LinksRight, LinkName, Names!NamesAssumption,
     Names!Unregister, Names!Begin, Renaming, Moving
<1>19. ReaderOK'
  BY DEF NamesIInv, NamesTypeOK, NamesTaskOK, ReaderOK, Names!NamesAssumption, Names!Unregister,
     Names!Begin, Renaming, Moving
<1> QED
  BY <1>11, <1>12, <1>13, <1>14, <1>15, <1>16, <1>17, <1>18, <1>19 DEF NamesIInv

LEMMA NamesVetoedOK ==
  ASSUME Names!NamesAssumption, NamesIInv, Names!Vetoed
  PROVE  NamesIInv'
<1>1. /\ task.pc = "notify"
      /\ UNCHANGED <<net, listed, bucket, sysfs, index, lastIndex, linked, links, ops>>
      /\ UNCHANGED <<reading, copied, torn>>
  BY DEF Names!Vetoed
<1>2. CASE task.again
  <2>1. task' = Names!Idle /\ names' = names /\ lost' = lost
    BY <1>2 DEF Names!Vetoed
  <2>2. NamesTypeOK'
    BY <1>1, <2>1
       DEF NamesIInv, NamesTypeOK, NamesTaskOK, Names!NamesAssumption, Renaming, Moving,
           Names!Idle
  <2>3. NamesTaskOK'
    BY <1>1, <2>1
       DEF NamesIInv, NamesTypeOK, NamesTaskOK, IndicesDiffer, Names!NamesAssumption, Renaming,
           Moving, Names!Idle
  <2>4. NamesDiffer'
    <3>1. task'.pc = "idle" /\ task'.dev = NoDev
      BY <2>1 DEF Names!Idle
    <3>2. ASSUME NEW d \in Names!Settled', NEW e \in listed, d # e, net[d] = net[e]
          PROVE  names[d] # names[e]
      <4>1. d \in listed /\ d \notin lost
        BY <1>1, <2>1, <3>2 DEF Names!Settled
      <4>2. CASE d # task.dev /\ e # task.dev
        BY <3>2, <4>1, <4>2 DEF NamesIInv, NamesDiffer, Others, Names!Settled
      <4>3. CASE d = task.dev \/ e = task.dev
        BY <1>1, <3>2, <4>1, <4>3 DEF NamesIInv, NamesDiffer, Others, Target, Moving
      <4> QED
        BY <4>2, <4>3
    <3> QED
      BY <1>1, <2>1, <3>1, <3>2 DEF NamesDiffer, Others, Renaming
  <2>5. NamesHashed'
    BY <1>1, <2>1
       DEF NamesIInv, NamesTypeOK, NamesTaskOK, NamesHashed, Others, Names!NamesAssumption,
           Renaming, Moving, Names!Idle
  <2>6. NamesNoFormat'
    BY <1>1, <2>1
       DEF NamesIInv, NamesTypeOK, NamesTaskOK, NamesNoFormat, Others, Names!Settled,
           Names!NamesAssumption, Renaming, Moving, Names!Idle
  <2>7. IndicesDiffer'
    BY <1>1, <2>1
       DEF NamesIInv, NamesTypeOK, NamesTaskOK, IndicesDiffer, Names!NamesAssumption, Renaming,
           Moving, Names!Idle
  <2>8. SysfsRight'
    BY <1>1, <2>1
       DEF NamesIInv, NamesTypeOK, NamesTaskOK, SysfsRight, NamesNoFormat, Others,
           Names!Settled, Names!NamesAssumption, Renaming, Moving, Names!Idle
  <2>9. LinksRight'
    BY <1>1, <2>1
       DEF NamesIInv, NamesTypeOK, NamesTaskOK, LinksRight, LinkName, Names!NamesAssumption,
           Renaming, Moving, Names!Idle
  <2>10. ReaderOK'
    BY <1>1, <2>1
       DEF NamesIInv, NamesTypeOK, NamesTaskOK, ReaderOK, Names!NamesAssumption, Renaming,
           Moving, Names!Idle
  <2> QED
    BY <2>2, <2>3, <2>4, <2>5, <2>6, <2>7, <2>8, <2>9, <2>10 DEF NamesIInv
<1>3. CASE ~task.again
  <2>1. /\ Names!NoReader /\ names' = [names EXCEPT ![task.dev] = task.old]
        /\ task' = [task EXCEPT !.pc = "rename", !.old = task.asked, !.again = TRUE]
    BY <1>3 DEF Names!Vetoed
  <2>2. lost' = IF Names!Format(task.asked) /\ task.dev \in linked /\ net[task.dev] = HomeNs
                THEN lost \cup {task.dev} ELSE lost
    BY <1>3 DEF Names!Vetoed, Names!IsNeigh
  <2>3. /\ lost' = lost \/ lost' = lost \cup {task.dev}
        /\ task.dev \notin lost' => /\ lost' = lost
                                    /\ ~ (Names!Format(task.asked) /\ task.dev \in linked
                                          /\ net[task.dev] = HomeNs)
    BY <2>2
  <2>4. /\ DOMAIN task' = {"pc", "dev", "old", "asked", "again", "net"} /\ task'.pc = "rename"
        /\ task'.old = task.asked /\ task'.dev = task.dev /\ task'.asked = task.asked
        /\ task'.net = task.net
    BY <2>1 DEF NamesIInv, NamesTypeOK
  <2>5. task'.again
    BY <2>1 DEF NamesIInv, NamesTypeOK
  <2>6. reading = NoDev /\ task.dev \in NamedDev /\ names'[task.dev] = task.old
        /\ DOMAIN names' = NamedDev
        /\ \A d \in NamedDev : d # task.dev => names'[d] = names[d]
    BY <1>1, <2>1 DEF NamesIInv, NamesTypeOK, Names!NoReader
  <2>7. NamesTypeOK'
    BY <1>1, <1>3, <2>3, <2>4, <2>5, <2>6
       DEF NamesIInv, NamesTypeOK, NamesTaskOK, Names!NamesAssumption, Renaming, Moving
  <2>8. NamesTaskOK'
    BY <1>1, <1>3, <2>3, <2>4, <2>5, <2>6
       DEF NamesIInv, NamesTypeOK, NamesTaskOK, IndicesDiffer, Names!NamesAssumption, Renaming,
           Moving
  <2>9. NamesDiffer'
    BY <1>1, <1>3, <2>3, <2>4, <2>5, <2>6
       DEF NamesIInv, NamesTypeOK, NamesTaskOK, NamesDiffer, NamesNoFormat, Others,
           Names!Settled, Target, Names!NamesAssumption, Renaming, Moving
  <2>10. NamesHashed'
    BY <1>1, <1>3, <2>3, <2>4, <2>5, <2>6
       DEF NamesIInv, NamesTypeOK, NamesTaskOK, NamesHashed, Others, Names!NamesAssumption,
           Renaming, Moving
  <2>11. NamesNoFormat'
    BY <1>1, <1>3, <2>3, <2>4, <2>5, <2>6
       DEF NamesIInv, NamesTypeOK, NamesTaskOK, NamesNoFormat, Others, Names!Settled,
           Names!NamesAssumption, Renaming, Moving
  <2>12. IndicesDiffer'
    BY <1>1, <1>3, <2>3, <2>4, <2>5, <2>6
       DEF NamesIInv, NamesTypeOK, NamesTaskOK, IndicesDiffer, Names!NamesAssumption, Renaming,
           Moving
  <2>13. SysfsRight'
    BY <1>1, <1>3, <2>3, <2>4, <2>5, <2>6
       DEF NamesIInv, NamesTypeOK, NamesTaskOK, SysfsRight, NamesNoFormat, Others,
           Names!Settled, Names!NamesAssumption, Renaming, Moving
  <2>14. LinksRight'
    BY <1>1, <1>3, <2>3, <2>4, <2>5, <2>6
       DEF NamesIInv, NamesTypeOK, NamesTaskOK, LinksRight, LinkName, Names!NamesAssumption,
           Renaming, Moving
  <2>15. ReaderOK'
    BY <1>1, <1>3, <2>3, <2>4, <2>5, <2>6
       DEF NamesIInv, NamesTypeOK, NamesTaskOK, ReaderOK, Names!NamesAssumption, Renaming,
           Moving
  <2> QED
    BY <2>7, <2>8, <2>9, <2>10, <2>11, <2>12, <2>13, <2>14, <2>15 DEF NamesIInv
<1> QED
  BY <1>2, <1>3

LEMMA NamesRegisterOK ==
  ASSUME Names!NamesAssumption, NamesIInv, NEW d \in NamedDev, NEW asked \in Request,
         NEW preset \in Preset, Names!Register(d, asked, preset)
  PROVE  NamesIInv'
<1> DEFINE n == Names!ValidName(asked, net[d])
           i == IF preset = 0 THEN Names!NewIndex(net[d]) ELSE preset
<1>1. /\ task.pc = "idle" /\ d \notin listed /\ d # reading /\ n # NoName
      /\ names' = [names EXCEPT ![d] = n]
      /\ UNCHANGED <<net, linked, links, task, reading, copied, torn, lost>>
  BY DEF Names!Register, Names!Begin
<1>2. \/ /\ index' = [index EXCEPT ![d] = preset]
         /\ UNCHANGED <<lastIndex, listed, bucket, sysfs>>
      \/ /\ preset # 0 => Names!ByIndex(preset, net[d]) = {}
         /\ index' = [index EXCEPT ![d] = i]
         /\ lastIndex' = IF preset = 0 THEN [lastIndex EXCEPT ![net[d]] = i] ELSE lastIndex
         /\ \/ /\ listed' = listed \cup {d} /\ bucket' = [bucket EXCEPT ![d] = n]
               /\ sysfs' = [sysfs EXCEPT ![d] = n]
            \/ UNCHANGED <<listed, bucket, sysfs>>
  BY DEF Names!Register
<1>3. net[d] \in Ns /\ preset \in 0 .. MaxIndex /\ preset \in Nat /\ MaxIndex \in Nat
  <2>1. net[d] \in Ns
    BY DEF NamesIInv, NamesTypeOK
  <2>2. preset \in 0 .. MaxIndex /\ MaxIndex \in Nat
    BY DEF Names!NamesAssumption
  <2> QED
    BY <2>1, <2>2
<1>4. Names!ByName(n, net[d]) = {} /\ ~Names!Format(n)
  BY <1>1, ValidNameIsFree, ValidNameNoFormat
<1>5. /\ Names!NewIndex(net[d]) \in 1 .. MaxIndex
      /\ Names!ByIndex(Names!NewIndex(net[d]), net[d]) = {}
  BY <1>3, NewIndexIsFree DEF NamesIInv
<1>6. /\ i \in 1 .. MaxIndex /\ i \in 0 .. MaxIndex /\ i \in Nat
      /\ preset = 0 \/ Names!ByIndex(preset, net[d]) = {} => Names!ByIndex(i, net[d]) = {}
  BY <1>3, <1>5
<1> HIDE DEF n, i
<1>7. \A e \in listed : net[e] = net[d] => names[e] # n
  <2>1. Others = listed
    BY <1>1 DEF Others, NamesIInv, NamesTypeOK, Names!NamesAssumption
  <2> QED
    BY <1>4, <2>1 DEF NamesIInv, NamesHashed, Names!ByName
<1>8. /\ index' \in [NamedDev -> Nat] /\ lastIndex' \in [Ns -> 0 .. MaxIndex]
      /\ \A e \in NamedDev : e # d => index'[e] = index[e]
  BY <1>2, <1>3, <1>6 DEF NamesIInv, NamesTypeOK
<1>9. \/ UNCHANGED <<listed, bucket, sysfs>>
      \/ /\ listed' = listed \cup {d} /\ bucket' = [bucket EXCEPT ![d] = n]
         /\ sysfs' = [sysfs EXCEPT ![d] = n] /\ index'[d] \in 1 .. MaxIndex
         /\ \A e \in listed : net[e] = net[d] => index[e] # index'[d]
  <2>1. CASE UNCHANGED <<listed, bucket, sysfs>>
    BY <2>1
  <2>2. CASE listed' # listed
    <3>1. /\ preset = 0 \/ Names!ByIndex(preset, net[d]) = {}
          /\ index' = [index EXCEPT ![d] = i]
          /\ listed' = listed \cup {d} /\ bucket' = [bucket EXCEPT ![d] = n]
          /\ sysfs' = [sysfs EXCEPT ![d] = n]
      BY <1>2, <2>2
    <3>2. index'[d] = i
      BY <3>1 DEF NamesIInv, NamesTypeOK
    <3> QED
      BY <1>6, <3>1, <3>2 DEF Names!ByIndex
  <2> QED
    BY <1>1, <1>2, <2>1, <2>2
<1>10. d \notin linked
  BY <1>1 DEF NamesIInv, NamesTaskOK
<1>11. NamesTypeOK'
  BY <1>1, <1>3, <1>4, <1>7, <1>8, <1>9, <1>10
     DEF NamesIInv, NamesTypeOK, NamesTaskOK, Names!NamesAssumption, Renaming, Moving
<1>12. NamesTaskOK'
  BY <1>1, <1>3, <1>4, <1>7, <1>8, <1>9, <1>10
     DEF NamesIInv, NamesTypeOK, NamesTaskOK, IndicesDiffer, Names!NamesAssumption, Renaming,
         Moving
<1>13. NamesDiffer'
  BY <1>1, <1>3, <1>4, <1>7, <1>8, <1>9, <1>10
     DEF NamesIInv, NamesTypeOK, NamesTaskOK, NamesDiffer, NamesNoFormat, Others, Names!Settled,
         Target, Names!NamesAssumption, Renaming, Moving
<1>14. NamesHashed'
  BY <1>1, <1>3, <1>4, <1>7, <1>8, <1>9, <1>10
     DEF NamesIInv, NamesTypeOK, NamesTaskOK, NamesHashed, Others, Names!NamesAssumption,
         Renaming, Moving
<1>15. NamesNoFormat'
  BY <1>1, <1>3, <1>4, <1>7, <1>8, <1>9, <1>10
     DEF NamesIInv, NamesTypeOK, NamesTaskOK, NamesNoFormat, Others, Names!Settled,
         Names!NamesAssumption, Renaming, Moving
<1>16. IndicesDiffer'
  BY <1>1, <1>3, <1>4, <1>7, <1>8, <1>9, <1>10
     DEF NamesIInv, NamesTypeOK, NamesTaskOK, IndicesDiffer, Names!NamesAssumption, Renaming,
         Moving
<1>17. SysfsRight'
  BY <1>1, <1>3, <1>4, <1>7, <1>8, <1>9, <1>10
     DEF NamesIInv, NamesTypeOK, NamesTaskOK, SysfsRight, NamesNoFormat, Others, Names!Settled,
         Names!NamesAssumption, Renaming, Moving
<1>18. LinksRight'
  BY <1>1, <1>3, <1>4, <1>7, <1>8, <1>9, <1>10
     DEF NamesIInv, NamesTypeOK, NamesTaskOK, LinksRight, LinkName, Names!NamesAssumption,
         Renaming, Moving
<1>19. ReaderOK'
  BY <1>1, <1>3, <1>4, <1>7, <1>8, <1>9, <1>10
     DEF NamesIInv, NamesTypeOK, NamesTaskOK, ReaderOK, Names!NamesAssumption, Renaming, Moving
<1> QED
  BY <1>11, <1>12, <1>13, <1>14, <1>15, <1>16, <1>17, <1>18, <1>19 DEF NamesIInv

LEMMA NamesChangeNameOK ==
  ASSUME Names!NamesAssumption, NamesIInv, NEW d \in NamedDev, NEW asked \in Request,
         Names!ChangeName(d, asked)
  PROVE  NamesIInv'
<1> DEFINE n == Names!ValidName(asked, net[d])
<1>1. /\ task.pc = "idle" /\ d \in listed /\ asked # names[d] /\ reading = NoDev /\ n # NoName
      /\ names' = [names EXCEPT ![d] = n]
      /\ task' = [Names!Idle EXCEPT !.pc = "rename", !.dev = d, !.old = names[d], !.asked = asked]
      /\ UNCHANGED <<net, listed, bucket, sysfs, index, lastIndex, linked, links>>
      /\ UNCHANGED <<reading, copied, torn, lost>>
  BY DEF Names!ChangeName, Names!Begin, Names!NoReader
<1>2. Names!ByName(n, net[d]) = {} /\ ~Names!Format(n)
  BY <1>1, ValidNameIsFree, ValidNameNoFormat
<1>3. ~Names!Format(asked) => n = asked
  BY <1>1 DEF Names!ValidName
<1> HIDE DEF n
<1>4. Others = listed /\ \A e \in listed : net[e] = net[d] => names[e] # n
  <2>1. Others = listed
    BY <1>1 DEF Others, NamesIInv, NamesTypeOK, Names!NamesAssumption
  <2> QED
    BY <1>2, <2>1 DEF NamesIInv, NamesHashed, Names!ByName
<1>5. /\ DOMAIN task' = {"pc", "dev", "old", "asked", "again", "net"} /\ task'.pc = "rename"
      /\ task'.old = names[d] /\ task'.dev = d /\ task'.asked = asked /\ task'.net = HomeNs
      /\ task.dev = NoDev /\ d # NoDev
  BY <1>1 DEF Names!Idle, NamesIInv, NamesTypeOK, Names!NamesAssumption
<1>6. task'.again = FALSE
  BY <1>1 DEF Names!Idle
<1>7. NamesTypeOK'
  BY <1>1, <1>2, <1>3, <1>4, <1>5, <1>6
     DEF NamesIInv, NamesTypeOK, NamesTaskOK, Names!NamesAssumption, Renaming, Moving
<1>8. NamesTaskOK'
  BY <1>1, <1>2, <1>3, <1>4, <1>5, <1>6
     DEF NamesIInv, NamesTypeOK, NamesTaskOK, IndicesDiffer, Names!NamesAssumption, Renaming,
         Moving
<1>9. NamesDiffer'
  BY <1>1, <1>2, <1>3, <1>4, <1>5, <1>6
     DEF NamesIInv, NamesTypeOK, NamesTaskOK, NamesDiffer, NamesNoFormat, Others, Names!Settled,
         Target, Names!NamesAssumption, Renaming, Moving
<1>10. NamesHashed'
  BY <1>1, <1>2, <1>3, <1>4, <1>5, <1>6
     DEF NamesIInv, NamesTypeOK, NamesTaskOK, NamesHashed, Others, Names!NamesAssumption,
         Renaming, Moving
<1>11. NamesNoFormat'
  BY <1>1, <1>2, <1>3, <1>4, <1>5, <1>6
     DEF NamesIInv, NamesTypeOK, NamesTaskOK, NamesNoFormat, Others, Names!Settled,
         Names!NamesAssumption, Renaming, Moving
<1>12. IndicesDiffer'
  BY <1>1, <1>2, <1>3, <1>4, <1>5, <1>6
     DEF NamesIInv, NamesTypeOK, NamesTaskOK, IndicesDiffer, Names!NamesAssumption, Renaming,
         Moving
<1>13. SysfsRight'
  BY <1>1, <1>2, <1>3, <1>4, <1>5, <1>6
     DEF NamesIInv, NamesTypeOK, NamesTaskOK, SysfsRight, NamesNoFormat, Others, Names!Settled,
         Names!NamesAssumption, Renaming, Moving
<1>14. LinksRight'
  BY <1>1, <1>2, <1>3, <1>4, <1>5, <1>6
     DEF NamesIInv, NamesTypeOK, NamesTaskOK, LinksRight, LinkName, Names!NamesAssumption,
         Renaming, Moving
<1>15. ReaderOK'
  BY <1>1, <1>2, <1>3, <1>4, <1>5, <1>6
     DEF NamesIInv, NamesTypeOK, NamesTaskOK, ReaderOK, Names!NamesAssumption, Renaming, Moving
<1> QED
  BY <1>7, <1>8, <1>9, <1>10, <1>11, <1>12, <1>13, <1>14, <1>15 DEF NamesIInv

LEMMA NamesChangeNetOK ==
  ASSUME Names!NamesAssumption, NamesIInv, NEW d \in NamedDev, NEW ns \in Ns,
         NEW pat \in Request, Names!ChangeNet(d, ns, pat)
  PROVE  NamesIInv'
<1> DEFINE n == IF Names!ByName(names[d], ns) = {} THEN names[d] ELSE Names!ValidName(pat, ns)
<1>1. /\ task.pc = "idle" /\ d \in listed /\ net[d] # ns /\ n # NoName
      /\ names' = [names EXCEPT ![d] = n]
      /\ lost' = IF n # names[d] /\ d \in linked /\ net[d] = HomeNs THEN lost \cup {d} ELSE lost
      /\ torn' = (torn \/ (n # names[d] /\ reading = d))
      /\ task' = [Names!Idle EXCEPT !.pc = "unlist", !.dev = d, !.net = ns]
      /\ UNCHANGED <<net, listed, bucket, sysfs, index, lastIndex, linked, links, reading, copied>>
  BY DEF Names!ChangeNet, Names!Begin, Names!IsNeigh
<1>2. Names!ByName(n, ns) = {} /\ (n = names[d] \/ ~Names!Format(n))
  BY <1>1, ValidNameIsFree, ValidNameNoFormat
<1> HIDE DEF n
<1>3. task.dev = NoDev /\ Others = listed
  BY <1>1 DEF Others, NamesIInv, NamesTypeOK, Names!NamesAssumption
<1>4. /\ d \notin lost => ~Names!Format(n)
      /\ \A e \in listed : net[e] = ns /\ (e \notin lost \/ d \notin lost) => names[e] # n
  <2>1. d \notin lost => ~Names!Format(n)
    BY <1>1, <1>2, <1>3 DEF NamesIInv, NamesNoFormat, Others, Names!Settled
  <2>2. ASSUME NEW e \in listed, net[e] = ns, e \notin lost \/ d \notin lost PROVE names[e] # n
    <3>1. e \notin lost => ~Names!Format(names[e])
      BY <1>3 DEF NamesIInv, NamesNoFormat, Others, Names!Settled
    <3> QED
      BY <1>2, <1>3, <2>1, <2>2, <3>1 DEF NamesIInv, NamesHashed, Names!ByName
  <2> QED
    BY <2>1, <2>2
<1>5. /\ DOMAIN task' = {"pc", "dev", "old", "asked", "again", "net"} /\ task'.pc = "unlist"
      /\ task'.dev = d /\ task'.net = ns
      /\ task.dev = NoDev /\ d # NoDev
  BY <1>1, <1>3 DEF Names!Idle, Names!NamesAssumption
<1>6. NamesTypeOK'
  BY <1>1, <1>3, <1>4, <1>5
     DEF NamesIInv, NamesTypeOK, NamesTaskOK, Names!NamesAssumption, Renaming, Moving
<1>7. NamesTaskOK'
  BY <1>1, <1>3, <1>4, <1>5
     DEF NamesIInv, NamesTypeOK, NamesTaskOK, IndicesDiffer, Names!NamesAssumption, Renaming,
         Moving
<1>8. NamesDiffer'
  BY <1>1, <1>3, <1>4, <1>5
     DEF NamesIInv, NamesTypeOK, NamesTaskOK, NamesDiffer, NamesNoFormat, Others, Names!Settled,
         Target, Names!NamesAssumption, Renaming, Moving
<1>9. NamesHashed'
  BY <1>1, <1>3, <1>4, <1>5
     DEF NamesIInv, NamesTypeOK, NamesTaskOK, NamesHashed, Others, Names!NamesAssumption,
         Renaming, Moving
<1>10. NamesNoFormat'
  BY <1>1, <1>3, <1>4, <1>5
     DEF NamesIInv, NamesTypeOK, NamesTaskOK, NamesNoFormat, Others, Names!Settled,
         Names!NamesAssumption, Renaming, Moving
<1>11. IndicesDiffer'
  BY <1>1, <1>3, <1>4, <1>5
     DEF NamesIInv, NamesTypeOK, NamesTaskOK, IndicesDiffer, Names!NamesAssumption, Renaming,
         Moving
<1>12. SysfsRight'
  BY <1>1, <1>3, <1>4, <1>5
     DEF NamesIInv, NamesTypeOK, NamesTaskOK, SysfsRight, NamesNoFormat, Others, Names!Settled,
         Names!NamesAssumption, Renaming, Moving
<1>13. LinksRight'
  BY <1>1, <1>3, <1>4, <1>5
     DEF NamesIInv, NamesTypeOK, NamesTaskOK, LinksRight, LinkName, Names!NamesAssumption,
         Renaming, Moving
<1>14. ReaderOK'
  BY <1>1, <1>3, <1>4, <1>5
     DEF NamesIInv, NamesTypeOK, NamesTaskOK, ReaderOK, Names!NamesAssumption, Renaming, Moving
<1> QED
  BY <1>6, <1>7, <1>8, <1>9, <1>10, <1>11, <1>12, <1>13, <1>14 DEF NamesIInv

LEMMA MovedLinks ==
  ASSUME Names!NamesAssumption, NamesIInv, Names!Moved
  PROVE  LinksRight'
<1> DEFINE d == task.dev
           ns == task.net
           m == names[d]
           ls == Names!DelLinks(links, d)
           robbed == Names!Robbed(d)
<1>1. /\ task.pc = "move" /\ net' = [net EXCEPT ![d] = ns]
      /\ links' = Names!AddLinks(ls, d, ns) /\ task' = Names!Idle
      /\ names' = names /\ linked' = linked
  BY DEF Names!Moved
<1>2. /\ lost \subseteq lost' /\ robbed \subseteq lost'
      /\ Names!Blocked(ls, d, ns) => d \in lost'
  BY DEF Names!Moved
<1>3. /\ \A e : LinkName(e) = names[e] /\ LinkName(e)' = names[e]
      /\ d \in NamedDev /\ \A e \in linked : e # d => e \in Others /\ e \in NamedDev
  BY <1>1 DEF LinkName, Names!Idle, NamesIInv, NamesTypeOK, NamesTaskOK, Names!NamesAssumption,
     Others
<1>4. /\ \A n \in DOMAIN links : links[n] \notin lost =>
             links[n] \in linked /\ net[links[n]] = HomeNs /\ n = names[links[n]]
      /\ \A e \in linked : e \notin lost /\ net[e] = HomeNs =>
             names[e] \in DOMAIN links /\ links[names[e]] = e
  BY <1>3 DEF NamesIInv, LinksRight
<1>5. net'[d] = ns /\ \A e \in NamedDev : e # d => net'[e] = net[e]
  BY <1>1, <1>3 DEF NamesIInv, NamesTypeOK
<1>6. \/ /\ d \in linked /\ net[d] = HomeNs
         /\ DOMAIN ls = DOMAIN links \ {m} /\ \A n \in DOMAIN ls : ls[n] = links[n]
      \/ ~(d \in linked /\ net[d] = HomeNs) /\ ls = links
  BY DEF Names!DelLinks, Names!WithoutLink
<1>7. d \in lost /\ d \in linked /\ net[d] = HomeNs /\ m \in DOMAIN links
      => links[m] \in robbed
  BY DEF Names!Robbed, Names!IsNeigh, Names!HasLink
<1>8. /\ links' = IF d \in linked /\ ns = HomeNs THEN Names!WithLink(ls, m, d) ELSE ls
      /\ Names!Blocked(ls, d, ns) <=> /\ d \in linked /\ ns = HomeNs
                                      /\ m \in DOMAIN ls /\ ls[m] \in lost
  BY <1>1 DEF Names!AddLinks, Names!Blocked
<1> HIDE DEF ls, m, robbed
<1>9. ASSUME NEW n \in DOMAIN ls, ls[n] \notin lost
      PROVE  /\ ls[n] \in linked /\ ls[n] # d /\ net[ls[n]] = HomeNs /\ n = names[ls[n]]
  <2>1. n \in DOMAIN links /\ ls[n] = links[n]
    BY <1>6
  <2>2. links[n] \in linked /\ net[links[n]] = HomeNs /\ n = names[links[n]]
    BY <1>4, <1>9, <2>1
  <2>3. links[n] # d
    BY <1>6, <2>2 DEF m
  <2> QED
    BY <2>1, <2>2, <2>3
<1>10. ASSUME NEW e \in linked, e # d, e \notin lost', net[e] = HomeNs
       PROVE  names[e] \in DOMAIN ls /\ ls[names[e]] = e
  <2>1. names[e] \in DOMAIN links /\ links[names[e]] = e
    BY <1>2, <1>4, <1>10
  <2>2. CASE d \in linked /\ net[d] = HomeNs
    <3>1. SUFFICES ASSUME names[e] = m PROVE FALSE
      BY <1>6, <2>1, <2>2
    <3>2. links[m] = e /\ m \in DOMAIN links
      BY <2>1, <3>1
    <3>3. CASE d \in lost
      BY <1>2, <1>7, <1>10, <2>2, <3>2, <3>3
    <3>4. CASE d \notin lost
      BY <1>4, <1>10, <2>2, <3>2, <3>4 DEF m
    <3> QED
      BY <3>3, <3>4
  <2>3. CASE ~(d \in linked /\ net[d] = HomeNs)
    BY <1>6, <2>1, <2>3
  <2> QED
    BY <2>2, <2>3
<1>11. CASE ~(d \in linked /\ ns = HomeNs)
  <2>1. links' = ls
    BY <1>8, <1>11
  <2>2. \A n \in DOMAIN ls : ls[n] \notin lost' =>
           ls[n] \in linked /\ net'[ls[n]] = HomeNs /\ n = names[ls[n]]
    BY <1>2, <1>3, <1>5, <1>9
  <2>3. \A e \in linked : e \notin lost' /\ net'[e] = HomeNs =>
           names[e] \in DOMAIN ls /\ ls[names[e]] = e
    BY <1>3, <1>5, <1>10, <1>11
  <2> QED
    BY <1>1, <1>3, <2>1, <2>2, <2>3 DEF LinksRight
<1>12. CASE d \in linked /\ ns = HomeNs
  <2>1. ASSUME NEW n \in DOMAIN ls, ls[n] \notin lost PROVE n # m
    <3>1. ls[n] \in Others /\ net[ls[n]] = HomeNs /\ n = names[ls[n]]
      BY <1>3, <1>9, <2>1
    <3>2. names[ls[n]] # m
      BY <1>1, <1>12, <2>1, <3>1 DEF NamesIInv, NamesDiffer, Target, Moving, m
    <3> QED
      BY <3>1, <3>2
  <2>2. CASE m \in DOMAIN ls
    <3>1. d \in lost' /\ links' = ls
      BY <1>2, <1>8, <1>12, <2>1, <2>2 DEF Names!WithLink
    <3>2. \A n \in DOMAIN ls : ls[n] \notin lost' =>
             ls[n] \in linked /\ net'[ls[n]] = HomeNs /\ n = names[ls[n]]
      BY <1>2, <1>3, <1>5, <1>9
    <3>3. \A e \in linked : e \notin lost' /\ net'[e] = HomeNs =>
             names[e] \in DOMAIN ls /\ ls[names[e]] = e
      BY <1>3, <1>5, <1>10, <3>1
    <3> QED
      BY <1>1, <1>3, <3>1, <3>2, <3>3 DEF LinksRight
  <2>3. CASE m \notin DOMAIN ls
    <3>1. links' = [n \in DOMAIN ls \cup {m} |-> IF n = m THEN d ELSE ls[n]]
      BY <1>8, <1>12, <2>3 DEF Names!WithLink
    <3>2. DOMAIN links' = DOMAIN ls \cup {m} /\ links'[m] = d
          /\ \A n \in DOMAIN ls : links'[n] = ls[n]
      BY <2>3, <3>1
    <3>3. \A n \in DOMAIN links' : links'[n] \notin lost' =>
             links'[n] \in linked /\ net'[links'[n]] = HomeNs /\ n = names[links'[n]]
      BY <1>2, <1>3, <1>5, <1>9, <1>12, <3>2 DEF m
    <3>4. \A e \in linked : e \notin lost' /\ net'[e] = HomeNs =>
             names[e] \in DOMAIN links' /\ links'[names[e]] = e
      BY <1>3, <1>5, <1>10, <3>2 DEF m
    <3> QED
      BY <1>1, <1>3, <3>3, <3>4 DEF LinksRight
  <2> QED
    BY <2>2, <2>3
<1> QED
  BY <1>11, <1>12

LEMMA NamesMovedOK ==
  ASSUME Names!NamesAssumption, NamesIInv, Names!Moved
  PROVE  NamesIInv'
<1> DEFINE d == task.dev
           ns == task.net
           used == Names!ByIndex(index[d], ns) # {}
           i == Names!NewIndex(ns)
<1>1. /\ task.pc = "move" /\ net' = [net EXCEPT ![d] = ns]
      /\ links' = Names!AddLinks(Names!DelLinks(links, d), d, ns)
      /\ listed' = listed \cup {d} /\ bucket' = [bucket EXCEPT ![d] = names[d]]
      /\ task' = Names!Idle /\ UNCHANGED <<names, linked, ops, reading, copied, torn>>
  BY DEF Names!Moved
<1>2. /\ lost \subseteq lost'
      /\ sysfs' = [sysfs EXCEPT ![d] = names[d]] \/ (sysfs' = sysfs /\ d \in lost')
  BY DEF Names!Moved
<1>3. \/ used /\ index' = [index EXCEPT ![d] = i] /\ lastIndex' = [lastIndex EXCEPT ![ns] = i]
      \/ ~used /\ index' = index /\ lastIndex' = lastIndex
  BY DEF Names!Moved
<1>4. d \in NamedDev /\ ns \in Ns /\ d \notin listed /\ d # NoDev /\ index[d] \in 1 .. MaxIndex
  BY <1>1 DEF NamesIInv, NamesTypeOK, NamesTaskOK, Names!NamesAssumption, Moving, Renaming
<1>5. i \in 1 .. MaxIndex /\ i \in 0 .. MaxIndex /\ i \in Nat /\ Names!ByIndex(i, ns) = {}
  <2>1. i \in 1 .. MaxIndex /\ Names!ByIndex(i, ns) = {}
    BY <1>4, NewIndexIsFree DEF NamesIInv
  <2>2. MaxIndex \in Nat
    BY DEF Names!NamesAssumption
  <2> HIDE DEF i
  <2> QED
    BY <2>1, <2>2
<1> HIDE DEF i
<1>6. /\ index'[d] \in 1 .. MaxIndex /\ index'[d] \in Nat /\ DOMAIN index' = NamedDev
      /\ \A e \in NamedDev : e # d => index'[e] = index[e]
      /\ \A e \in listed : net[e] = ns => index[e] # index'[d]
  <2>1. CASE used
    BY <1>3, <1>4, <1>5, <2>1 DEF NamesIInv, NamesTypeOK, Names!ByIndex
  <2>2. CASE ~used
    BY <1>3, <1>4, <2>2 DEF NamesIInv, NamesTypeOK, Names!ByIndex
  <2> QED
    BY <2>1, <2>2
<1>7. index' \in [NamedDev -> Nat] /\ lastIndex' \in [Ns -> 0 .. MaxIndex]
  BY <1>3, <1>4, <1>5 DEF NamesIInv, NamesTypeOK
<1> HIDE DEF used
<1>8. task' = Names!Idle /\ DOMAIN task' = {"pc", "dev", "old", "asked", "again", "net"}
      /\ task'.pc = "idle" /\ task'.dev = NoDev /\ task'.net = HomeNs
  BY <1>1 DEF Names!Idle
<1>9. \A n \in DOMAIN links' : links'[n] \in NamedDev
  BY <1>1, <1>4 DEF NamesIInv, NamesTypeOK, Names!AddLinks, Names!DelLinks, Names!WithLink,
     Names!WithoutLink
<1>10. NamesTypeOK'
  BY <1>1, <1>2, <1>4, <1>6, <1>7, <1>8, <1>9
     DEF NamesIInv, NamesTypeOK, NamesTaskOK, Names!NamesAssumption, Renaming, Moving
<1>11. NamesTaskOK'
  BY <1>1, <1>2, <1>4, <1>6, <1>7, <1>8, <1>9
     DEF NamesIInv, NamesTypeOK, NamesTaskOK, IndicesDiffer, Names!NamesAssumption, Renaming,
         Moving
<1>12. NamesDiffer'
  <2>1. \A e \in listed : e \in Others /\ e \in NamedDev /\ e # d /\ net'[e] = net[e]
    BY <1>1, <1>4 DEF NamesIInv, NamesTypeOK, Others
  <2>2. net'[d] = ns
    BY <1>1, <1>4 DEF NamesIInv, NamesTypeOK
  <2>3. ASSUME NEW x \in listed', NEW y \in listed', x # y, net'[x] = net'[y], x \notin lost
        PROVE  names[x] # names[y]
    <3>1. CASE x # d /\ y # d
      BY <1>1, <2>1, <2>3, <3>1 DEF NamesIInv, NamesDiffer, Others, Names!Settled
    <3>2. CASE x = d \/ y = d
      BY <1>1, <2>1, <2>2, <2>3, <3>2 DEF NamesIInv, NamesDiffer, Target, Moving
    <3> QED
      BY <3>1, <3>2
  <2> QED
    BY <1>1, <1>2, <1>8, <2>3 DEF NamesDiffer, Others, Names!Settled, Renaming
<1>13. NamesHashed'
  BY <1>1, <1>2, <1>4, <1>6, <1>7, <1>8, <1>9
     DEF NamesIInv, NamesTypeOK, NamesTaskOK, NamesHashed, Others, Names!NamesAssumption,
         Renaming, Moving
<1>14. NamesNoFormat'
  <2>1. ASSUME NEW x \in listed', x \notin lost PROVE ~Names!Format(names[x])
    <3>1. CASE x = d
      BY <1>1, <2>1, <3>1 DEF NamesIInv, NamesNoFormat
    <3>2. CASE x # d
      BY <1>1, <2>1, <3>2 DEF NamesIInv, NamesNoFormat, Names!Settled
    <3> QED
      BY <3>1, <3>2
  <2> QED
    BY <1>1, <1>2, <1>8, <2>1 DEF NamesNoFormat, Names!Settled
<1>15. IndicesDiffer'
  <2>1. \A e \in listed : e \in NamedDev /\ e # d /\ net'[e] = net[e] /\ index'[e] = index[e]
    BY <1>1, <1>4, <1>6 DEF NamesIInv, NamesTypeOK
  <2>2. net'[d] = ns
    BY <1>1, <1>4 DEF NamesIInv, NamesTypeOK
  <2>3. ASSUME NEW x \in listed', NEW y \in listed', x # y, net'[x] = net'[y]
        PROVE  index'[x] # index'[y]
    <3>1. CASE x # d /\ y # d
      BY <1>1, <2>1, <2>3, <3>1 DEF NamesIInv, IndicesDiffer
    <3>2. CASE x = d \/ y = d
      BY <1>1, <1>6, <2>1, <2>2, <2>3, <3>2
    <3> QED
      BY <3>1, <3>2
  <2>4. \A x \in listed' : index'[x] \in 1 .. MaxIndex
    BY <1>1, <1>6, <2>1 DEF NamesIInv, IndicesDiffer
  <2> QED
    BY <2>3, <2>4 DEF IndicesDiffer
<1>16. SysfsRight'
  <2>1. ASSUME NEW x \in listed', x \notin lost' PROVE sysfs'[x] = names[x]
    <3>1. CASE x = d
      BY <1>2, <1>4, <2>1, <3>1 DEF NamesIInv, NamesTypeOK
    <3>2. CASE x # d
      BY <1>1, <1>2, <1>4, <2>1, <3>2 DEF NamesIInv, NamesTypeOK, SysfsRight, Names!Settled
    <3> QED
      BY <3>1, <3>2
  <2> QED
    BY <1>1, <1>8, <2>1 DEF SysfsRight, Names!Settled
<1>17. LinksRight'
  BY MovedLinks
<1>18. ReaderOK'
  BY <1>1, <1>2, <1>4, <1>6, <1>7, <1>8, <1>9
     DEF NamesIInv, NamesTypeOK, NamesTaskOK, ReaderOK, Names!NamesAssumption, Renaming, Moving
<1> QED
  BY <1>10, <1>11, <1>12, <1>13, <1>14, <1>15, <1>16, <1>17, <1>18 DEF NamesIInv

LEMMA NamesStart ==
  ASSUME Names!NamesAssumption, Names!Init
  PROVE  NamesIInv
BY DEF Names!Init, Names!Idle, Names!NamesAssumption, NamesIInv, NamesTypeOK, NamesTaskOK,
       NamesDiffer, NamesHashed, NamesNoFormat, IndicesDiffer, SysfsRight, LinksRight, LinkName,
       ReaderOK, Names!Settled, Others, Renaming, Moving

LEMMA NamesStay ==
  ASSUME NamesIInv, UNCHANGED Names!nameVars
  PROVE  NamesIInv'
BY DEF Names!nameVars, NamesIInv, NamesTypeOK, NamesTaskOK, NamesDiffer, NamesHashed,
       NamesNoFormat, IndicesDiffer, SysfsRight, LinksRight, LinkName, ReaderOK, Names!Settled,
       Others, Target, Renaming, Moving

LEMMA NamesKept ==
  ASSUME Names!NamesAssumption, NamesIInv, Names!Next
  PROVE  NamesIInv'
BY NamesRegisterOK, NamesChangeNameOK, NamesChangeNetOK, NamesLinkOK, NamesUnlinkOK,
   NamesUnregisterOK, NamesGetNameOK, NamesRenamedOK,
   NamesRenameFailsOK, NamesHashedOK, NamesNotifiedOK, NamesVetoedOK, NamesUnlistedOK,
   NamesMovedOK, NamesGotNameOK DEF Names!Next

LEMMA NamesSound ==
  ASSUME Names!NamesAssumption, NamesIInv
  PROVE  Names!NamesAreSound
<1>1. Names!NobodyIsTwice
  BY DEF Names!NobodyIsTwice, NamesIInv, NamesDiffer, IndicesDiffer, Others
<1>2. Names!NameHolds
  BY DEF Names!NameHolds, NamesIInv, ReaderOK
<1>3. ASSUME NEW d \in Names!Settled
      PROVE  /\ bucket[d] = names[d] /\ sysfs[d] = names[d]
             /\ {n \in DOMAIN links : links[n] = d}
                  = IF d \in linked /\ net[d] = HomeNs THEN {names[d]} ELSE {}
  <2>1. bucket[d] = names[d] /\ sysfs[d] = names[d]
    BY DEF NamesIInv, NamesHashed, NamesNoFormat, SysfsRight, Others, Names!Settled
  <2>2. LinkName(d) = names[d] /\ d \notin lost
    BY DEF LinkName, Names!Settled
  <2>3. \A n \in DOMAIN links : links[n] = d => d \in linked /\ net[d] = HomeNs /\ n = names[d]
    BY <2>2 DEF NamesIInv, LinksRight
  <2>4. d \in linked /\ net[d] = HomeNs => names[d] \in DOMAIN links /\ links[names[d]] = d
    BY <2>2 DEF NamesIInv, LinksRight
  <2> QED
    BY <2>1, <2>3, <2>4
<1> QED
  BY <1>1, <1>2, <1>3 DEF Names!NamesAreSound, Names!AllPlacesAgree
-----------------------------------------------------------------------------
(* The end of namespaces                                                 *)

LEMMA ExitCardinality == /\ \A S : Exits!Cardinality(S) = Cardinality(S)
                         /\ \A S : Exits!IsFiniteSet(S) <=> IsFiniteSet(S)
<1>1. \A S : Exits!Cardinality(S) = Cardinality(S)
  BY DEF Exits!Cardinality, Cardinality
<1>2. \A S : Exits!IsFiniteSet(S) <=> IsFiniteSet(S)
  BY DEF Exits!IsFiniteSet, IsFiniteSet
<1> QED
  BY <1>1, <1>2

LEMMA ExitOnlyIs ==
  ASSUME NEW T, NEW s \in Seq(T), NEW S
  PROVE  /\ Exits!Only(s, S) \in Seq(T) /\ Exits!ToSet(Exits!Only(s, S)) = Exits!ToSet(s) \cap S
         /\ \A i, j \in 1 .. Len(Exits!Only(s, S)) : i < j =>
                \E k, l \in 1 .. Len(s) :
                    k < l /\ Exits!Only(s, S)[i] = s[k] /\ Exits!Only(s, S)[j] = s[l]
<1>1. /\ Exits!Only(s, S) = Only(s, S) /\ Exits!ToSet(s) = ToSet(s)
      /\ Exits!ToSet(Only(s, S)) = ToSet(Only(s, S))
  BY DEF Exits!Only, Only, Exits!FoldLeft, FoldLeft, Exits!ToSet, ToSet
<1> QED
  BY <1>1, OnlyIs

LEMMA ExitOnlyDistinct ==
  ASSUME NEW T, NEW s \in Seq(T), NEW S, Distinct(s)
  PROVE  Distinct(Exits!Only(s, S))
<1>1. Exits!Only(s, S) = Only(s, S)
  BY DEF Exits!Only, Only, Exits!FoldLeft, FoldLeft
<1> QED
  BY <1>1, OnlyDistinct

\* What the move of d to the tail leaves
LEMMA MovedToTailIs ==
  ASSUME NEW q \in Seq(Exits!Dev), Distinct(q), NEW d \in Exits!Dev
  PROVE  /\ Exits!MovedToTail(q, d) \in Seq(Exits!Dev) /\ Distinct(Exits!MovedToTail(q, d))
         /\ Exits!ToSet(Exits!MovedToTail(q, d)) = Exits!ToSet(q) \cup {d}
         /\ \A i, j \in 1 .. Len(Exits!MovedToTail(q, d)) : i < j =>
                \/ Exits!MovedToTail(q, d)[j] = d /\ Exits!MovedToTail(q, d)[i] \in Exits!ToSet(q)
                \/ Before(q, Exits!MovedToTail(q, d)[i], Exits!MovedToTail(q, d)[j])
<1> DEFINE S == Exits!ToSet(q) \ {d}
           r == Exits!Only(q, S)
           m == Append(r, d)
<1>1. /\ r \in Seq(Exits!Dev) /\ Exits!ToSet(r) = S /\ Distinct(r)
      /\ \A i, j \in 1 .. Len(r) : i < j => Before(q, r[i], r[j])
  <2>1. /\ Exits!ToSet(r) = Exits!ToSet(q) \cap S /\ r \in Seq(Exits!Dev) /\ Distinct(r)
        /\ \A i, j \in 1 .. Len(r) : i < j =>
               \E k, l \in 1 .. Len(q) : k < l /\ r[i] = q[k] /\ r[j] = q[l]
    <3> HIDE DEF S
    <3> QED
      BY ExitOnlyIs, ExitOnlyDistinct
  <2> HIDE DEF r
  <2> QED
    BY <2>1 DEF Before
<1>2. Exits!MovedToTail(q, d) = m
  BY DEF Exits!MovedToTail, Exits!Remove
<1>3. \A i \in 1 .. Len(r) : r[i] \in Exits!ToSet(q) /\ r[i] # d
  <2>1. \A i \in 1 .. Len(r) : r[i] \in Exits!ToSet(r)
    BY DEF Exits!ToSet
  <2> HIDE DEF r
  <2> QED
    BY <1>1, <2>1
<1>4. /\ m \in Seq(Exits!Dev) /\ Len(m) = Len(r) + 1 /\ m[Len(r) + 1] = d
      /\ Len(r) \in Nat /\ \A k \in 1 .. Len(r) : m[k] = r[k]
  <2> HIDE DEF r
  <2> QED
    BY <1>1, OneMoreAtEnd
<1> HIDE DEF m, r
<1>5. \A k \in 1 .. Len(m) : k \in 1 .. Len(r) \/ k = Len(r) + 1
  BY <1>4
<1>6. \A k \in 1 .. Len(r) : k \in 1 .. Len(m) /\ k # Len(r) + 1
  BY <1>4
<1>7. Len(r) + 1 \in 1 .. Len(m)
  BY <1>4
<1>8. Distinct(m)
  <2>1. ASSUME NEW i \in 1 .. Len(m), NEW j \in 1 .. Len(m), i # j PROVE m[i] # m[j]
    <3>1. CASE i \in 1 .. Len(r) /\ j \in 1 .. Len(r)
      BY <1>1, <1>4, <2>1, <3>1 DEF Distinct
    <3>2. CASE i \in 1 .. Len(r) /\ j = Len(r) + 1
      BY <1>3, <1>4, <3>2
    <3>3. CASE i = Len(r) + 1 /\ j \in 1 .. Len(r)
      BY <1>3, <1>4, <3>3
    <3> QED
      BY <1>5, <2>1, <3>1, <3>2, <3>3
  <2> QED
    BY <2>1 DEF Distinct
<1>9. Exits!ToSet(m) = Exits!ToSet(q) \cup {d}
  <2>1. Exits!ToSet(m) \subseteq Exits!ToSet(q) \cup {d}
    BY <1>3, <1>4, <1>5 DEF Exits!ToSet
  <2>2. Exits!ToSet(r) \subseteq Exits!ToSet(m)
    BY <1>4, <1>6 DEF Exits!ToSet
  <2>3. d \in Exits!ToSet(m)
    BY <1>4, <1>7 DEF Exits!ToSet
  <2> QED
    BY <1>1, <2>1, <2>2, <2>3
<1>10. ASSUME NEW i \in 1 .. Len(m), NEW j \in 1 .. Len(m), i < j
       PROVE  (m[j] = d /\ m[i] \in Exits!ToSet(q)) \/ Before(q, m[i], m[j])
  <2>1. i \in 1 .. Len(r)
    BY <1>4, <1>5, <1>10
  <2>2. CASE j \in 1 .. Len(r)
    BY <1>1, <1>4, <1>10, <2>1, <2>2
  <2>3. CASE j = Len(r) + 1
    BY <1>3, <1>4, <2>1, <2>3
  <2> QED
    BY <1>5, <2>2, <2>3
<1> QED
  BY <1>2, <1>4, <1>8, <1>9, <1>10

\* A list of devices that may go: each with its peer
GoodQueue(q) == /\ q \in Seq(Exits!Dev) /\ Distinct(q)
                /\ \A d \in Exits!ToSet(q) : phase[d] = "registered" /\ Peer[d] \in Exits!ToSet(q)

\* No device of a namespace comes behind its loopback.
LoopbackLast(q) == \A i, j \in 1 .. Len(q) :
    i < j /\ Kind[q[i]] = "loopback" => netOf[q[j]] # netOf[q[i]]

\* The list once the namespaces N are through
Ready(q, N) ==
    /\ GoodQueue(q) /\ LoopbackLast(q)
    /\ \A d \in Exits!Dev : netOf[d] \in N /\ phase[d] = "registered" => d \in Exits!ToSet(q)
    /\ \A d \in Exits!ToSet(q) : Kind[d] = "loopback" => netOf[d] \in N

\* A pair goes together.
PeersOK == \A d \in Exits!Dev : phase[d] = "registered" => phase[Peer[d]] = "registered"

LEMMA QueuedIs ==
  ASSUME Exits!NetExitAssumption, PeersOK, NEW q, GoodQueue(q), NEW d \in Exits!Dev,
         phase[d] = "registered"
  PROVE  /\ GoodQueue(Exits!Queued(q, d))
         /\ Exits!ToSet(Exits!Queued(q, d)) = Exits!ToSet(q) \cup {d, Peer[d]}
         /\ \A i, j \in 1 .. Len(Exits!Queued(q, d)) : i < j =>
                \/ Exits!Queued(q, d)[j] = d /\ Exits!Queued(q, d)[i] \in Exits!ToSet(q)
                \/ /\ Exits!Queued(q, d)[j] = Peer[d] /\ Peer[d] \notin Exits!ToSet(q)
                   /\ Peer[d] # d
                   /\ Exits!Queued(q, d)[i] \in Exits!ToSet(q) \cup {d}
                \/ Before(q, Exits!Queued(q, d)[i], Exits!Queued(q, d)[j])
<1>1. /\ q \in Seq(Exits!Dev) /\ Distinct(q) /\ \A e \in Exits!ToSet(q) : phase[e] = "registered"
            /\ Peer[e] \in Exits!ToSet(q)
  BY DEF GoodQueue
<1>2. Peer[d] \in Exits!Dev /\ Peer[Peer[d]] = d /\ phase[Peer[d]] = "registered"
  BY DEF Exits!NetExitAssumption, PeersOK
<1> DEFINE m == Exits!MovedToTail(q, d)
           p == Peer[d]
           w == Exits!MovedToTail(m, p)
<1>3. /\ m \in Seq(Exits!Dev) /\ Distinct(m) /\ Exits!ToSet(m) = Exits!ToSet(q) \cup {d}
      /\ \A i, j \in 1 .. Len(m) : i < j =>
             \/ m[j] = d /\ m[i] \in Exits!ToSet(q)
             \/ Before(q, m[i], m[j])
  BY <1>1, MovedToTailIs
<1> HIDE DEF m
<1>4. CASE p = d \/ p \in Exits!ToSet(q)
  <2>1. Exits!Queued(q, d) = m
    BY <1>4 DEF Exits!Queued, m
  <2>2. Exits!ToSet(m) = Exits!ToSet(q) \cup {d, p}
    BY <1>3, <1>4
  <2>3. GoodQueue(m)
    BY <1>1, <1>2, <1>3, <1>4 DEF GoodQueue
  <2> QED
    BY <1>3, <2>1, <2>2, <2>3
<1>5. CASE p # d /\ p \notin Exits!ToSet(q)
  <2>1. Exits!Queued(q, d) = w
    BY <1>5 DEF Exits!Queued, m
  <2>2. /\ w \in Seq(Exits!Dev) /\ Distinct(w) /\ Exits!ToSet(w) = Exits!ToSet(m) \cup {p}
        /\ \A i, j \in 1 .. Len(w) : i < j =>
               \/ w[j] = p /\ w[i] \in Exits!ToSet(m)
               \/ Before(m, w[i], w[j])
    BY <1>2, <1>3, MovedToTailIs
  <2> HIDE DEF w
  <2>3. Exits!ToSet(w) = Exits!ToSet(q) \cup {d, p}
    BY <1>3, <2>2
  <2>4. GoodQueue(w)
    BY <1>1, <1>2, <2>2, <2>3 DEF GoodQueue
  <2>5. ASSUME NEW i \in 1 .. Len(w), NEW j \in 1 .. Len(w), i < j
        PROVE  \/ w[j] = d /\ w[i] \in Exits!ToSet(q)
               \/ w[j] = p /\ w[i] \in Exits!ToSet(q) \cup {d}
               \/ Before(q, w[i], w[j])
    <3>1. CASE w[j] = p /\ w[i] \in Exits!ToSet(m)
      BY <1>3, <3>1
    <3>2. CASE Before(m, w[i], w[j])
      BY <1>3, <3>2 DEF Before
    <3> QED
      BY <2>2, <2>5, <3>1, <3>2
  <2> QED
    BY <1>5, <2>1, <2>3, <2>4, <2>5
<1> QED
  BY <1>4, <1>5

\* A device of the namespace n joins the list: its loopback only when the others are there.
LEMMA QueuedReady ==
  ASSUME Exits!NetExitAssumption, PeersOK, NEW N, NEW q, NEW d \in Exits!Dev,
         phase[d] = "registered", netOf[d] \notin N,
         GoodQueue(q), LoopbackLast(q),
         \A e \in Exits!Dev : netOf[e] \in N /\ phase[e] = "registered" => e \in Exits!ToSet(q),
         \A e \in Exits!ToSet(q) : Kind[e] = "loopback" => netOf[e] \in N
  PROVE  /\ GoodQueue(Exits!Queued(q, d)) /\ LoopbackLast(Exits!Queued(q, d))
         /\ \A e \in Exits!ToSet(q) \cup {d} : e \in Exits!ToSet(Exits!Queued(q, d))
         /\ \A e \in Exits!ToSet(Exits!Queued(q, d)) : Kind[e] = "loopback" => netOf[e] \in N
               \/ e = d
<1> DEFINE r == Exits!Queued(q, d)
           p == Peer[d]
<1>1. /\ GoodQueue(r) /\ Exits!ToSet(r) = Exits!ToSet(q) \cup {d, p}
      /\ \A i, j \in 1 .. Len(r) : i < j =>
             \/ r[j] = d /\ r[i] \in Exits!ToSet(q)
             \/ r[j] = p /\ p \notin Exits!ToSet(q) /\ p # d /\ r[i] \in Exits!ToSet(q) \cup {d}
             \/ Before(q, r[i], r[j])
  BY QueuedIs
<1> HIDE DEF r
<1>2. p \in Exits!Dev /\ phase[p] = "registered" /\ (Kind[p] = "loopback" => p = d)
         /\ (Kind[d] = "loopback" => p = d)
  BY DEF Exits!NetExitAssumption, PeersOK
<1>3. ASSUME NEW i \in 1 .. Len(r), NEW j \in 1 .. Len(r), i < j, Kind[r[i]] = "loopback"
      PROVE  netOf[r[j]] # netOf[r[i]]
  <2>1. CASE r[j] = d /\ r[i] \in Exits!ToSet(q)
    BY <1>3, <2>1
  <2>2. CASE r[j] = p /\ p \notin Exits!ToSet(q) /\ p # d /\ r[i] \in Exits!ToSet(q) \cup {d}
    <3>1. r[i] # d
      BY <1>2, <1>3, <2>2
    <3>2. netOf[r[i]] \in N
      BY <1>3, <2>2, <3>1
    <3>3. netOf[p] \notin N
      BY <1>2, <2>2
    <3> QED
      BY <2>2, <3>2, <3>3
  <2>3. CASE Before(q, r[i], r[j])
    BY <1>3, <2>3 DEF Before, LoopbackLast
  <2> QED
    BY <1>1, <1>3, <2>1, <2>2, <2>3
<1>4. LoopbackLast(r)
  BY <1>3 DEF LoopbackLast
<1>5. \A e \in Exits!ToSet(r) : Kind[e] = "loopback" => netOf[e] \in N \/ e = d
  BY <1>1, <1>2
<1>6. \A e \in Exits!ToSet(q) \cup {d} : e \in Exits!ToSet(r)
  BY <1>1
<1> QED
  BY <1>1, <1>4, <1>5, <1>6 DEF r


LEMMA Reversed ==
  ASSUME NEW S, NEW s \in Seq(S)
  PROVE  /\ Exits!Reverse(s) \in Seq(S) /\ Len(Exits!Reverse(s)) = Len(s)
         /\ \A i \in 1 .. Len(s) : Exits!Reverse(s)[i] = s[Len(s) + 1 - i]
<1>1. Len(s) \in Nat /\ \A i \in 1 .. Len(s) : s[Len(s) + 1 - i] \in S
  OBVIOUS
<1>2. Exits!Reverse(s) = [i \in 1 .. Len(s) |-> s[Len(s) + 1 - i]]
  BY DEF Exits!Reverse
<1> QED
  BY <1>1, <1>2, SeqDef

\* What the fold over the devices of a namespace has put on the list after k of them
QueuesTo(g, base, s, k) ==
    g = [m \in 0 .. k |-> IF m = 0 THEN base ELSE Exits!Queued(g[m - 1], s[m])]

LEMMA QueuesSome ==
  ASSUME NEW base, NEW s, NEW k \in Nat
  PROVE  \E g : QueuesTo(g, base, s, k)
<1> DEFINE Missing == {m \in Nat : ~ \E g : QueuesTo(g, base, s, m)}
<1>1. SUFFICES ASSUME Missing # {} PROVE FALSE
  OBVIOUS
<1>2. PICK m \in Missing : \A l \in Missing : m <= l
  BY <1>1, Smallest
<1>3. m \in Nat /\ ~ \E g : QueuesTo(g, base, s, m)
  OBVIOUS
<1>4. CASE m = 0
  <2> DEFINE g == [l \in 0 .. 0 |-> base]
  <2>1. g = [l \in 0 .. 0 |-> IF l = 0 THEN base ELSE Exits!Queued(g[l - 1], s[l])]
    OBVIOUS
  <2> QED
    BY <1>3, <1>4, <2>1 DEF QueuesTo
<1>5. CASE m # 0
  <2>1. m - 1 \in Nat /\ m - 1 \notin Missing
    BY <1>2, <1>3, <1>5
  <2>2. PICK h : QueuesTo(h, base, s, m - 1)
    BY <2>1
  <2> DEFINE g == [l \in 0 .. m |-> IF l = m THEN Exits!Queued(h[m - 1], s[m]) ELSE h[l]]
  <2>3. ASSUME NEW l \in 0 .. m PROVE g[l] = IF l = 0 THEN base ELSE Exits!Queued(g[l - 1], s[l])
    <3>1. CASE l = m
      <4>1. m - 1 \in 0 .. m /\ m - 1 # m
        BY <1>3, <1>5
      <4>2. g[m - 1] = h[m - 1]
        BY <4>1
      <4> QED
        BY <1>5, <3>1, <4>2
    <3>2. CASE l # m /\ l # 0
      <4>1. l \in 0 .. m - 1 /\ l - 1 \in 0 .. m /\ l - 1 # m
        BY <1>3, <3>2
      <4>2. g[l - 1] = h[l - 1] /\ g[l] = h[l]
        BY <3>2, <4>1
      <4>3. h[l] = Exits!Queued(h[l - 1], s[l])
        BY <2>2, <3>2, <4>1 DEF QueuesTo
      <4> QED
        BY <3>2, <4>2, <4>3
    <3>3. CASE l = 0
      <4>1. l \in 0 .. m - 1 /\ l # m
        BY <1>3, <1>5, <3>3
      <4>2. h[l] = base
        BY <2>2, <3>3, <4>1 DEF QueuesTo
      <4> QED
        BY <3>3, <4>1, <4>2
    <3> QED
      BY <3>1, <3>2, <3>3
  <2>4. g = [l \in 0 .. m |-> IF l = 0 THEN base ELSE Exits!Queued(g[l - 1], s[l])]
    BY <2>3
  <2> QED
    BY <1>3, <2>4 DEF QueuesTo
<1> QED
  BY <1>4, <1>5

\* The devices of a namespace go on the list.
QueuedAll(q, n) == Exits!FoldLeft(Exits!Queued, q, Exits!Reverse(baseHead[n]))

\* The list of a namespace has its registered devices, the loopback device first.
ExitListOK(n) ==
    /\ baseHead[n] \in Seq(Exits!Dev) /\ Distinct(baseHead[n])
    /\ \A d \in Exits!Dev : d \in Exits!ToSet(baseHead[n]) <=>
                          netOf[d] = n /\ phase[d] = "registered"
    /\ \A i \in 1 .. Len(baseHead[n]) : Kind[baseHead[n][i]] = "loopback" => i = 1

LEMMA QueuedAllReady ==
  ASSUME Exits!NetExitAssumption, PeersOK, NEW n \in Exits!Net, ExitListOK(n), NEW N, n \notin N,
         NEW q, Ready(q, N)
  PROVE  Ready(QueuedAll(q, n), N \cup {n})
<1> DEFINE s == Exits!Reverse(baseHead[n])
           k == Len(s)
           Right(r, m) ==
             /\ GoodQueue(r) /\ LoopbackLast(r)
             /\ \A e \in Exits!Dev : netOf[e] \in N /\ phase[e] = "registered"
                   => e \in Exits!ToSet(r)
             /\ \A i \in 1 .. m : s[i] \in Exits!ToSet(r)
             /\ \A e \in Exits!ToSet(r) : Kind[e] = "loopback" => netOf[e] \in N
                   \/ (m = k /\ netOf[e] = n)
<1>1. /\ s \in Seq(Exits!Dev) /\ k = Len(baseHead[n]) /\ k \in Nat
      /\ \A i \in 1 .. k : s[i] = baseHead[n][k + 1 - i]
  <2>1. baseHead[n] \in Seq(Exits!Dev)
    BY DEF ExitListOK
  <2> QED
    BY <2>1, Reversed
<1>2. QueuedAll(q, n) = (CHOOSE g : QueuesTo(g, q, s, k))[k]
  BY DEF QueuedAll, Exits!FoldLeft, QueuesTo
<1> HIDE DEF s, k
<1>3. /\ \A i \in 1 .. k : s[i] \in Exits!Dev /\ netOf[s[i]] = n /\ phase[s[i]] = "registered"
      /\ \A i \in 1 .. k : Kind[s[i]] = "loopback" => i = k
      /\ \A d \in Exits!Dev : netOf[d] = n /\ phase[d] = "registered" => \E i \in 1 .. k : s[i] = d
  <2>1. /\ \A i \in 1 .. Len(baseHead[n]) : baseHead[n][i] \in Exits!Dev
              /\ baseHead[n][i] \in Exits!ToSet(baseHead[n])
        /\ \A i \in 1 .. k : k + 1 - i \in 1 .. Len(baseHead[n])
    BY <1>1 DEF ExitListOK, Exits!ToSet
  <2>2. \A i \in 1 .. k : s[i] \in Exits!Dev /\ netOf[s[i]] = n /\ phase[s[i]] = "registered"
    BY <1>1, <2>1 DEF ExitListOK
  <2>3. ASSUME NEW i \in 1 .. k, Kind[s[i]] = "loopback" PROVE i = k
    <3>1. k + 1 - i \in 1 .. Len(baseHead[n]) /\ s[i] = baseHead[n][k + 1 - i]
      BY <1>1, <2>1
    <3>2. PICK j \in 1 .. Len(baseHead[n]) : j = k + 1 - i
      BY <3>1
    <3>3. j = 1
      BY <2>3, <3>1, <3>2 DEF ExitListOK
    <3> QED
      BY <1>1, <3>2, <3>3
  <2>4. ASSUME NEW d \in Exits!Dev, netOf[d] = n, phase[d] = "registered"
        PROVE  \E i \in 1 .. k : s[i] = d
    <3>1. PICK j \in 1 .. k : baseHead[n][j] = d
      BY <1>1, <2>4 DEF ExitListOK, Exits!ToSet
    <3>2. k + 1 - j \in 1 .. k /\ k + 1 - (k + 1 - j) = j
      BY <1>1
    <3> QED
      BY <1>1, <3>1, <3>2
  <2> QED
    BY <2>2, <2>3, <2>4
<1>4. PICK g : g = CHOOSE h : QueuesTo(h, q, s, k)
  OBVIOUS
<1>5. QueuesTo(g, q, s, k)
  BY <1>1, <1>4, QueuesSome
<1>6. g[0] = q /\ \A m \in 1 .. k : g[m] = Exits!Queued(g[m - 1], s[m])
  <2>1. g = [m \in 0 .. k |-> IF m = 0 THEN q ELSE Exits!Queued(g[m - 1], s[m])]
    BY <1>5 DEF QueuesTo
  <2>2. \A m \in 0 .. k : g[m] = IF m = 0 THEN q ELSE Exits!Queued(g[m - 1], s[m])
    BY <2>1, Zenon
  <2>3. 0 \in 0 .. k /\ \A m \in 1 .. k : m \in 0 .. k /\ m # 0
    BY <1>1
  <2> QED
    BY <2>2, <2>3, Zenon
<1>7. Right(q, 0)
  BY DEF Ready
<1>8. ASSUME NEW m \in 1 .. k, Right(g[m - 1], m - 1) PROVE Right(g[m], m)
  <2> DEFINE r == g[m - 1]
             d == s[m]
  <2>1. d \in Exits!Dev /\ netOf[d] = n /\ phase[d] = "registered"
        /\ (Kind[d] = "loopback" => m = k)
    BY <1>3
  <2>2. g[m] = Exits!Queued(r, d)
    BY <1>6
  <2>3. m - 1 # k
    BY <1>1
  <2>4. /\ GoodQueue(r) /\ LoopbackLast(r)
        /\ \A e \in Exits!Dev : netOf[e] \in N /\ phase[e] = "registered" => e \in Exits!ToSet(r)
        /\ \A i \in 1 .. m - 1 : s[i] \in Exits!ToSet(r)
        /\ \A e \in Exits!ToSet(r) : Kind[e] = "loopback" => netOf[e] \in N
    BY <1>8, <2>3
  <2>5. d \notin {} /\ netOf[d] \notin N
    BY <2>1
  <2> HIDE DEF r, d
  <2>6. /\ GoodQueue(Exits!Queued(r, d)) /\ LoopbackLast(Exits!Queued(r, d))
        /\ \A e \in Exits!ToSet(r) \cup {d} : e \in Exits!ToSet(Exits!Queued(r, d))
        /\ \A e \in Exits!ToSet(Exits!Queued(r, d)) : Kind[e] = "loopback" => netOf[e] \in N
              \/ e = d
    BY <2>1, <2>4, <2>5, QueuedReady
  <2>7. \A i \in 1 .. m : i \in 1 .. m - 1 \/ s[i] = d
    BY <1>1 DEF d
  <2>8. \A e \in Exits!ToSet(g[m]) : Kind[e] = "loopback" => netOf[e] \in N
           \/ (m = k /\ netOf[e] = n)
    BY <2>1, <2>2, <2>6
  <2>9. \A i \in 1 .. m : s[i] \in Exits!ToSet(g[m])
    BY <2>2, <2>4, <2>6, <2>7
  <2> QED
    BY <2>2, <2>4, <2>6, <2>8, <2>9
<1> DEFINE Wrong == {m \in Nat : m <= k /\ ~Right(g[m], m)}
<1> HIDE DEF Right
<1>9. Wrong = {}
  <2>1. SUFFICES ASSUME Wrong # {} PROVE FALSE
    OBVIOUS
  <2>2. PICK m \in Wrong : \A l \in Wrong : m <= l
    BY <2>1, Smallest
  <2>3. m \in Nat /\ m # 0 /\ m <= k
    BY <1>6, <1>7, <2>2
  <2>4. m - 1 \in Nat /\ m - 1 <= k /\ m - 1 \notin Wrong /\ m \in 1 .. k
    BY <1>1, <2>2, <2>3
  <2> QED
    BY <1>8, <2>2, <2>4
<1>10. Right(g[k], k)
  BY <1>1, <1>9
<1>11. QueuedAll(q, n) = g[k]
  BY <1>2, <1>4
<1> QED
  BY <1>3, <1>10, <1>11 DEF Right, Ready

\* What the fold over the namespaces has put on the list after k of them
KillsTo(g, k) == g = [m \in 0 .. k |-> IF m = 0 THEN <<>> ELSE QueuedAll(g[m - 1], Ending[m])]

LEMMA KillsSome ==
  ASSUME NEW k \in Nat
  PROVE  \E g : KillsTo(g, k)
<1> DEFINE Missing == {m \in Nat : ~ \E g : KillsTo(g, m)}
<1>1. SUFFICES ASSUME Missing # {} PROVE FALSE
  OBVIOUS
<1>2. PICK m \in Missing : \A l \in Missing : m <= l
  BY <1>1, Smallest
<1>3. m \in Nat /\ ~ \E g : KillsTo(g, m)
  OBVIOUS
<1>4. CASE m = 0
  <2> DEFINE g == [l \in 0 .. 0 |-> <<>>]
  <2>1. g = [l \in 0 .. 0 |-> IF l = 0 THEN <<>> ELSE QueuedAll(g[l - 1], Ending[l])]
    OBVIOUS
  <2> QED
    BY <1>3, <1>4, <2>1 DEF KillsTo
<1>5. CASE m # 0
  <2>1. m - 1 \in Nat /\ m - 1 \notin Missing
    BY <1>2, <1>3, <1>5
  <2>2. PICK h : KillsTo(h, m - 1)
    BY <2>1
  <2> DEFINE g == [l \in 0 .. m |-> IF l = m THEN QueuedAll(h[m - 1], Ending[m]) ELSE h[l]]
  <2>3. ASSUME NEW l \in 0 .. m PROVE g[l] = IF l = 0 THEN <<>> ELSE QueuedAll(g[l - 1], Ending[l])
    <3>1. CASE l = m
      <4>1. m - 1 \in 0 .. m /\ m - 1 # m
        BY <1>3, <1>5
      <4>2. g[m - 1] = h[m - 1]
        BY <4>1
      <4> QED
        BY <1>5, <3>1, <4>2
    <3>2. CASE l # m /\ l # 0
      <4>1. l \in 0 .. m - 1 /\ l - 1 \in 0 .. m /\ l - 1 # m
        BY <1>3, <3>2
      <4>2. g[l - 1] = h[l - 1] /\ g[l] = h[l]
        BY <3>2, <4>1
      <4>3. h[l] = QueuedAll(h[l - 1], Ending[l])
        BY <2>2, <3>2, <4>1 DEF KillsTo
      <4> QED
        BY <3>2, <4>2, <4>3
    <3>3. CASE l = 0
      <4>1. l \in 0 .. m - 1 /\ l # m
        BY <1>3, <1>5, <3>3
      <4>2. h[l] = <<>>
        BY <2>2, <3>3, <4>1 DEF KillsTo
      <4> QED
        BY <3>3, <4>1, <4>2
    <3> QED
      BY <3>1, <3>2, <3>3
  <2>4. g = [l \in 0 .. m |-> IF l = 0 THEN <<>> ELSE QueuedAll(g[l - 1], Ending[l])]
    BY <2>3
  <2> QED
    BY <1>3, <2>4 DEF KillsTo
<1> QED
  BY <1>4, <1>5

LEMMA KillListReady ==
  ASSUME Exits!NetExitAssumption, PeersOK, \A n \in Exits!Net : ExitListOK(n)
  PROVE  Ready(Exits!KillList, Exits!ToSet(Ending))
<1> DEFINE k == Len(Ending)
           N(m) == {Ending[i] : i \in 1 .. m}
<1>1. k \in Nat /\ \A i \in 1 .. k : Ending[i] \in Exits!Net
  BY DEF Exits!NetExitAssumption
<1>2. Exits!KillList = (CHOOSE g : KillsTo(g, k))[k]
  BY DEF Exits!KillList, Exits!FoldLeft, KillsTo, QueuedAll
<1> HIDE DEF k
<1>3. PICK g : g = CHOOSE h : KillsTo(h, k)
  OBVIOUS
<1>4. KillsTo(g, k)
  BY <1>1, <1>3, KillsSome
<1>5. g[0] = <<>> /\ \A m \in 1 .. k : g[m] = QueuedAll(g[m - 1], Ending[m])
  BY <1>1, <1>4 DEF KillsTo
<1>6. Ready(<<>>, N(0))
  <2>1. <<>> \in Seq(Exits!Dev) /\ Len(<<>>) = 0 /\ Exits!ToSet(<<>>) = {} /\ N(0) = {}
    BY DEF Exits!ToSet
  <2> QED
    BY <2>1 DEF Ready, GoodQueue, LoopbackLast, Distinct
<1>7. ASSUME NEW m \in 1 .. k, Ready(g[m - 1], N(m - 1)) PROVE Ready(g[m], N(m))
  <2>1. Ending[m] \notin N(m - 1)
    <3>1. ASSUME NEW i \in 1 .. m - 1 PROVE Ending[i] # Ending[m]
      <4>1. i \in 1 .. k /\ i # m
        BY <1>1
      <4> QED
        BY <4>1 DEF Exits!NetExitAssumption, k
    <3> QED
      BY <3>1
  <2>2. N(m) = N(m - 1) \cup {Ending[m]}
    <3>1. \A i : i \in 1 .. m <=> i \in 1 .. m - 1 \/ i = m
      BY <1>1
    <3> QED
      BY <3>1
  <2> HIDE DEF N
  <2>3. Ready(QueuedAll(g[m - 1], Ending[m]), N(m - 1) \cup {Ending[m]})
    BY <1>1, <1>7, <2>1, QueuedAllReady
  <2> QED
    BY <1>5, <2>2, <2>3
<1> DEFINE Wrong == {m \in Nat : m <= k /\ ~Ready(g[m], N(m))}
<1>8. Wrong = {}
  <2> HIDE DEF N
  <2>1. SUFFICES ASSUME Wrong # {} PROVE FALSE
    OBVIOUS
  <2>2. PICK m \in Wrong : \A l \in Wrong : m <= l
    BY <2>1, Smallest
  <2>3. m \in Nat /\ m # 0 /\ m <= k
    BY <1>5, <1>6, <2>2
  <2>4. m - 1 \in Nat /\ m - 1 <= k /\ m - 1 \notin Wrong /\ m \in 1 .. k
    BY <1>1, <2>2, <2>3
  <2> QED
    BY <1>7, <2>2, <2>4
<1>9. Ready(g[k], N(k))
  <2> HIDE DEF N
  <2> QED
    BY <1>1, <1>8
<1>10. N(k) = Exits!ToSet(Ending)
  BY DEF k, Exits!ToSet
<1> QED
  BY <1>2, <1>3, <1>9, <1>10

\* The sum of the references of those who turn to a loopback
RefsStep(t, e, n) == IF Kind[e] # "loopback" /\ netOf[e] = n THEN t + refs[e] ELSE t
RefsTo(g, s, n, k) == g = [m \in 0 .. k |-> IF m = 0 THEN 0 ELSE RefsStep(g[m - 1], s[m], n)]

LEMMA RefsSome ==
  ASSUME NEW s, NEW n, NEW k \in Nat
  PROVE  \E g : RefsTo(g, s, n, k)
<1> DEFINE Missing == {m \in Nat : ~ \E g : RefsTo(g, s, n, m)}
<1>1. SUFFICES ASSUME Missing # {} PROVE FALSE
  OBVIOUS
<1>2. PICK m \in Missing : \A l \in Missing : m <= l
  BY <1>1, Smallest
<1>3. m \in Nat /\ ~ \E g : RefsTo(g, s, n, m)
  OBVIOUS
<1>4. CASE m = 0
  <2> DEFINE g == [l \in 0 .. 0 |-> 0]
  <2>1. g = [l \in 0 .. 0 |-> IF l = 0 THEN 0 ELSE RefsStep(g[l - 1], s[l], n)]
    OBVIOUS
  <2> QED
    BY <1>3, <1>4, <2>1 DEF RefsTo
<1>5. CASE m # 0
  <2>1. m - 1 \in Nat /\ m - 1 \notin Missing
    BY <1>2, <1>3, <1>5
  <2>2. PICK h : RefsTo(h, s, n, m - 1)
    BY <2>1
  <2> DEFINE g == [l \in 0 .. m |-> IF l = m THEN RefsStep(h[m - 1], s[m], n) ELSE h[l]]
  <2>3. ASSUME NEW l \in 0 .. m PROVE g[l] = IF l = 0 THEN 0 ELSE RefsStep(g[l - 1], s[l], n)
    <3>1. CASE l = m
      <4>1. m - 1 \in 0 .. m /\ m - 1 # m
        BY <1>3, <1>5
      <4>2. g[m - 1] = h[m - 1]
        BY <4>1
      <4> QED
        BY <1>5, <3>1, <4>2
    <3>2. CASE l # m /\ l # 0
      <4>1. l \in 0 .. m - 1 /\ l - 1 \in 0 .. m /\ l - 1 # m
        BY <1>3, <3>2
      <4>2. g[l - 1] = h[l - 1] /\ g[l] = h[l]
        BY <3>2, <4>1
      <4>3. h[l] = RefsStep(h[l - 1], s[l], n)
        BY <2>2, <3>2, <4>1 DEF RefsTo
      <4> QED
        BY <3>2, <4>2, <4>3
    <3>3. CASE l = 0
      <4>1. l \in 0 .. m - 1 /\ l # m
        BY <1>3, <1>5, <3>3
      <4>2. h[l] = 0
        BY <2>2, <3>3, <4>1 DEF RefsTo
      <4> QED
        BY <3>3, <4>1, <4>2
    <3> QED
      BY <3>1, <3>2, <3>3
  <2>4. g = [l \in 0 .. m |-> IF l = 0 THEN 0 ELSE RefsStep(g[l - 1], s[l], n)]
    BY <2>3
  <2> QED
    BY <1>3, <2>4 DEF RefsTo
<1> QED
  BY <1>4, <1>5

LEMMA RefsInIs ==
  ASSUME NEW s \in Seq(Exits!Dev), refs \in [Exits!Dev -> Nat], NEW n
  PROVE  /\ Exits!RefsIn(s, n) \in Nat
         /\ (\A i \in 1 .. Len(s) : netOf[s[i]] # n) => Exits!RefsIn(s, n) = 0
<1> DEFINE k == Len(s)
           Other(m) == \A i \in 1 .. m : netOf[s[i]] # n
           Right(t, m) == t \in Nat /\ (Other(m) => t = 0)
<1>1. k \in Nat /\ \A i \in 1 .. k : s[i] \in Exits!Dev
  OBVIOUS
<1>2. Exits!RefsIn(s, n) = (CHOOSE g : RefsTo(g, s, n, k))[k]
  BY DEF Exits!RefsIn, Exits!FoldLeft, RefsTo, RefsStep
<1> HIDE DEF k
<1>3. PICK g : g = CHOOSE h : RefsTo(h, s, n, k)
  OBVIOUS
<1>4. RefsTo(g, s, n, k)
  BY <1>1, <1>3, RefsSome
<1>5. g[0] = 0 /\ \A m \in 1 .. k : g[m] = RefsStep(g[m - 1], s[m], n)
  BY <1>1, <1>4 DEF RefsTo
<1>6. Right(g[0], 0)
  BY <1>5
<1>7. ASSUME NEW m \in 1 .. k, Right(g[m - 1], m - 1) PROVE Right(g[m], m)
  <2>1. g[m] = RefsStep(g[m - 1], s[m], n) /\ refs[s[m]] \in Nat
    BY <1>1, <1>5
  <2>2. Other(m) => Other(m - 1) /\ netOf[s[m]] # n
    BY <1>1
  <2>3. g[m - 1] \in Nat /\ (Other(m - 1) => g[m - 1] = 0)
    BY <1>7
  <2> HIDE DEF Other
  <2> QED
    BY <2>1, <2>2, <2>3 DEF RefsStep
<1> DEFINE Wrong == {m \in Nat : m <= k /\ ~Right(g[m], m)}
<1> HIDE DEF Right
<1>8. Wrong = {}
  <2>1. SUFFICES ASSUME Wrong # {} PROVE FALSE
    OBVIOUS
  <2>2. PICK m \in Wrong : \A l \in Wrong : m <= l
    BY <2>1, Smallest
  <2>3. m \in Nat /\ m # 0 /\ m <= k
    BY <1>6, <2>2
  <2>4. m - 1 \in Nat /\ m - 1 <= k /\ m - 1 \notin Wrong /\ m \in 1 .. k
    BY <1>1, <2>2, <2>3
  <2> QED
    BY <1>7, <2>2, <2>4
<1>9. Right(g[k], k)
  BY <1>1, <1>8
<1> QED
  BY <1>2, <1>3, <1>9 DEF Right, k


\* The stages of a device that is counted in dev_unreg_count, and of one that is not any
\* more; the stations of netdev_run_todo at a device, and where an actor has queued all it will
Unreported == {"unregistering", "unregistered", "destructed"}
Reported == {"reported", "freed"}
Busy == {"refs", "report", "wake", "put"}
Past == {"todo", "done"} \cup Busy

\* How far the first device on the list of an actor is
HeadPhase(place) == IF place = "todo" THEN "unregistering" ELSE IF place = "refs" THEN "unregistered"
                 ELSE IF place = "report" THEN "destructed" ELSE "reported"

\* The types of the part on namespaces
ExitTypeOK ==
    /\ DOMAIN baseHead = Exits!Net /\ turn \in Nat
    /\ netOf \in [Exits!Dev -> Exits!Net] /\ phase \in [Exits!Dev -> Exits!Phase]
    /\ refs \in [Exits!Dev -> Nat]
    /\ unregCount \in [Exits!Net -> Nat] /\ enqueued \in BOOLEAN /\ woken \in BOOLEAN
    /\ released \subseteq Exits!ToSet(Ending)
    /\ todo \in [Exits!Actor -> Seq(Exits!Dev)]
    /\ where \in [Exits!Actor -> {"start", "exit", "enqueue", "look", "wait"} \cup Past]

\* Each list of devices has those of its namespace, the loopback in front.
ExitListsOK == \A n \in Exits!Net : ExitListOK(n)

\* The worker is on the wait queue when it looks and waits, and frees the namespaces last.
ActorsOK ==
    /\ \A t \in Task : where[t] \in {"start", "todo"} \cup Busy
    /\ where[Worker] = "start" => turn = 1
    /\ where[Worker] = "exit" => turn \in 1 .. Len(Ending)
    /\ where[Worker] \in {"look", "wait"} => enqueued
    /\ released # {} => where[Worker] = "done"

\* A device on its way out is on the list of one actor; only the first of a list has come
\* farther than the list.
TodoOK ==
    /\ \A a \in Exits!Actor :
           /\ Distinct(todo[a])
           /\ where[a] \in Busy => todo[a] # <<>>
           /\ where[a] \notin Busy \cup {"todo"} => todo[a] = <<>>
           /\ \A i \in 1 .. Len(todo[a]) :
                  phase[todo[a][i]] = IF i = 1 THEN HeadPhase(where[a]) ELSE "unregistering"
    /\ \A a, b \in Exits!Actor : a # b => Exits!ToSet(todo[a]) \cap Exits!ToSet(todo[b]) = {}
    /\ \A d \in Exits!Dev : phase[d] \in Unreported
          => \E a \in Exits!Actor : d \in Exits!ToSet(todo[a])

\* A loopback device is unregistered by the worker alone, with all that is in its
\* namespace, and behind it.
LoopbacksOK ==
    /\ \A d \in Exits!Dev : Kind[d] = "loopback" /\ phase[d] # "registered" =>
           where[Worker] \in Past /\ netOf[d] \in Exits!ToSet(Ending)
    /\ \A t \in Task : \A d \in Exits!ToSet(todo[t]) : Kind[d] # "loopback"
    /\ where[Worker] \in Past => \A d \in Exits!Dev : netOf[d] \in Exits!ToSet(Ending) =>
                                  phase[d] \in Reported \/ d \in Exits!ToSet(todo[Worker])
    /\ LoopbackLast(todo[Worker])

\* The inductive invariant of the end of namespaces
ExitIInv == /\ ExitTypeOK /\ ExitListsOK /\ PeersOK /\ ActorsOK /\ TodoOK /\ LoopbacksOK
            /\ Exits!CountsUnreported /\ Exits!LoopbackOutlives /\ Exits!NoLostWakeUp

LEMMA ExitSound ==
  ASSUME Exits!NetExitAssumption, ExitIInv
  PROVE  Exits!ExitIsSound
<1>1. Exits!TypeOK
  BY DEF Exits!TypeOK, ExitIInv, ExitTypeOK
<1>2. Exits!NamespaceOutlives
  <2>1. ASSUME NEW n \in released, NEW d \in Exits!Dev, netOf[d] = n
        PROVE  phase[d] \in {"reported", "freed"}
    <3>1. where[Worker] = "done" /\ n \in Exits!ToSet(Ending)
      BY DEF ExitIInv, ActorsOK, ExitTypeOK
    <3>2. Worker \in Exits!Actor
      BY DEF Exits!Actor
    <3>3. todo[Worker] = <<>>
      BY <3>1, <3>2 DEF ExitIInv, TodoOK, Busy
    <3>4. Exits!ToSet(todo[Worker]) = {}
      BY <3>3 DEF Exits!ToSet
    <3> QED
      BY <2>1, <3>1, <3>4 DEF ExitIInv, LoopbacksOK, Past, Reported
  <2> QED
    BY <2>1 DEF Exits!NamespaceOutlives
<1> QED
  BY <1>1, <1>2 DEF Exits!ExitIsSound, ExitIInv

LEMMA ExitStarts ==
  ASSUME Exits!NetExitAssumption, Exits!Init
  PROVE  ExitIInv
<1>1. /\ \A n \in Exits!Net : BeginsWith[n] \in Seq(Exits!Dev)
            /\ \A i \in 1 .. Len(BeginsWith[n]) : Kind[BeginsWith[n][i]] = "loopback" <=> i = 1
      /\ \A d \in Exits!Dev : \E n \in Exits!Net : \E i \in 1 .. Len(BeginsWith[n]) : BeginsWith[n][i] = d
      /\ \A m, n \in Exits!Net : \A i \in 1 .. Len(BeginsWith[m]), j \in 1 .. Len(BeginsWith[n]) :
             BeginsWith[m][i] = BeginsWith[n][j] => m = n /\ i = j
      /\ \A d \in Exits!Dev : Peer[d] \in Exits!Dev
      /\ Ending \in Seq(Exits!Net) /\ Ending # <<>>
  BY DEF Exits!NetExitAssumption
<1>2. /\ baseHead = BeginsWith
      /\ netOf = [d \in Exits!Dev |-> CHOOSE n \in Exits!Net : d \in Exits!ToSet(BeginsWith[n])]
      /\ phase = [d \in Exits!Dev |-> "registered"] /\ unregCount = [n \in Exits!Net |-> 0]
      /\ todo = [a \in Exits!Actor |-> <<>>] /\ where = [a \in Exits!Actor |-> "start"] /\ turn = 1
      /\ enqueued = FALSE /\ woken = FALSE /\ released = {}
      /\ refs = [d \in Exits!Dev |-> IF Kind[d] = "loopback" THEN 0 ELSE 1]
  BY DEF Exits!Init
<1>3. \A d \in Exits!Dev : netOf[d] \in Exits!Net
         /\ \A n \in Exits!Net : d \in Exits!ToSet(BeginsWith[n]) <=> netOf[d] = n
  <2>1. SUFFICES ASSUME NEW d \in Exits!Dev PROVE netOf[d] \in Exits!Net /\ \A n \in Exits!Net : d \in Exits!ToSet(BeginsWith[n]) <=> netOf[d] = n
    OBVIOUS
  <2>2. \E n \in Exits!Net : d \in Exits!ToSet(BeginsWith[n])
    BY <1>1 DEF Exits!ToSet
  <2>3. \A m, n \in Exits!Net : d \in Exits!ToSet(BeginsWith[m])
           /\ d \in Exits!ToSet(BeginsWith[n]) => m = n
    BY <1>1 DEF Exits!ToSet
  <2>4. netOf[d] = CHOOSE n \in Exits!Net : d \in Exits!ToSet(BeginsWith[n])
    BY <1>2
  <2>5. netOf[d] \in Exits!Net /\ d \in Exits!ToSet(BeginsWith[netOf[d]])
    BY <2>2, <2>4
  <2> QED
    BY <2>3, <2>5
<1>4. ExitTypeOK
  <2>1. netOf \in [Exits!Dev -> Exits!Net]
    BY <1>2, <1>3
  <2>2. DOMAIN baseHead = Exits!Net
    BY <1>2 DEF Exits!Net
  <2>3. phase \in [Exits!Dev -> Exits!Phase] /\ refs \in [Exits!Dev -> Nat]
        /\ unregCount \in [Exits!Net -> Nat]
    BY <1>2 DEF Exits!Phase
  <2>4. todo \in [Exits!Actor -> Seq(Exits!Dev)] /\ turn \in Nat
        /\ released \subseteq Exits!ToSet(Ending)
    BY <1>2
  <2>5. where \in [Exits!Actor -> {"start", "exit", "enqueue", "look", "wait"} \cup Past]
    BY <1>2
  <2>6. enqueued \in BOOLEAN /\ woken \in BOOLEAN
    BY <1>2
  <2> QED
    BY <2>1, <2>2, <2>3, <2>4, <2>5, <2>6 DEF ExitTypeOK
<1>5. ExitListsOK
  <2>1. SUFFICES ASSUME NEW n \in Exits!Net PROVE ExitListOK(n)
    BY DEF ExitListsOK
  <2>2. Distinct(BeginsWith[n])
    BY <1>1 DEF Distinct
  <2>3. \A d \in Exits!Dev : phase[d] = "registered"
    BY <1>2
  <2> QED
    BY <1>1, <1>2, <1>3, <2>2, <2>3 DEF ExitListOK
<1>6. PeersOK
  BY <1>1, <1>2 DEF PeersOK
<1>7. ActorsOK
  <2>1. Worker \in Exits!Actor /\ \A t \in Task : t \in Exits!Actor
    BY DEF Exits!Actor
  <2> QED
    BY <1>2, <2>1 DEF ActorsOK
<1>8. TodoOK
  <2>1. \A a \in Exits!Actor : todo[a] = <<>> /\ where[a] = "start"
    BY <1>2
  <2>2. Len(<<>>) = 0 /\ Exits!ToSet(<<>>) = {} /\ Distinct(<<>>)
    BY DEF Exits!ToSet, Distinct
  <2>3. \A d \in Exits!Dev : phase[d] = "registered"
    BY <1>2
  <2> QED
    BY <2>1, <2>2, <2>3 DEF TodoOK, Busy, Unreported
<1>9. LoopbacksOK
  <2>1. \A a \in Exits!Actor : todo[a] = <<>> /\ where[a] = "start"
    BY <1>2
  <2>2. Len(<<>>) = 0 /\ Exits!ToSet(<<>>) = {} /\ LoopbackLast(<<>>)
    BY DEF Exits!ToSet, LoopbackLast
  <2>3. \A d \in Exits!Dev : phase[d] = "registered"
    BY <1>2
  <2>4. Worker \in Exits!Actor /\ \A t \in Task : t \in Exits!Actor
    BY DEF Exits!Actor
  <2> QED
    BY <2>1, <2>2, <2>3, <2>4 DEF LoopbacksOK, Past, Busy
<1>10. Exits!CountsUnreported
  <2>1. ASSUME NEW n \in Exits!Net
        PROVE  unregCount[n] = Cardinality({d \in Exits!Dev : netOf[d] = n /\ phase[d] \in {"unregistering", "unregistered", "destructed"}})
    <3>1. {d \in Exits!Dev : netOf[d] = n /\ phase[d] \in {"unregistering", "unregistered", "destructed"}} = {}
      BY <1>2
    <3> QED
      BY <1>2, <3>1, FS_EmptySet
  <2> QED
    BY <2>1, ExitCardinality DEF Exits!CountsUnreported
<1>11. Exits!LoopbackOutlives
  BY <1>2 DEF Exits!LoopbackOutlives
<1>12. Exits!NoLostWakeUp
  <2>1. where[Worker] = "start"
    BY <1>2 DEF Exits!Actor
  <2> QED
    BY <2>1 DEF Exits!NoLostWakeUp
<1> QED
  BY <1>4, <1>5, <1>6, <1>7, <1>8, <1>9, <1>10, <1>11, <1>12 DEF ExitIInv

\* The devices of q leave: what becomes of lists, phases and counts, whoever takes them.
LEMMA LeavingKeeps ==
  ASSUME Exits!NetExitAssumption, ExitIInv, NEW a \in Exits!Actor, NEW q, GoodQueue(q),
         Exits!Unregister(a, q), todo[a] = <<>>,
         UNCHANGED <<netOf, refs>>
  PROVE  /\ ExitListsOK' /\ PeersOK' /\ TodoOK' /\ Exits!CountsUnreported'
         /\ Exits!LoopbackOutlives'
         /\ phase' \in [Exits!Dev -> Exits!Phase] /\ unregCount' \in [Exits!Net -> Nat]
         /\ todo' \in [Exits!Actor -> Seq(Exits!Dev)]
         /\ DOMAIN baseHead' = Exits!Net
         /\ \A n \in Exits!Net : unregCount'[n] >= unregCount[n]
<1>1. /\ baseHead' = [n \in Exits!Net |-> Exits!Only(baseHead[n], Exits!Dev \ Exits!ToSet(q))]
      /\ phase' = [d \in Exits!Dev |-> IF d \in Exits!ToSet(q) THEN "unregistering" ELSE phase[d]]
      /\ unregCount' = [n \in Exits!Net |-> unregCount[n] + Cardinality({d \in Exits!ToSet(q) : netOf[d] = n})]
      /\ todo' = [todo EXCEPT ![a] = q] /\ where' = [where EXCEPT ![a] = "todo"]
      /\ netOf' = netOf /\ refs' = refs
  BY ExitCardinality DEF Exits!Unregister
<1>2. /\ q \in Seq(Exits!Dev) /\ Distinct(q) /\ Exits!ToSet(q) \subseteq Exits!Dev
      /\ \A d \in Exits!ToSet(q) : phase[d] = "registered" /\ Peer[d] \in Exits!ToSet(q)
  <2>1. q \in Seq(Exits!Dev) /\ Distinct(q) /\ \A d \in Exits!ToSet(q) : phase[d] = "registered"
           /\ Peer[d] \in Exits!ToSet(q)
    BY DEF GoodQueue
  <2>2. Exits!ToSet(q) \subseteq Exits!Dev
    BY <2>1 DEF Exits!ToSet
  <2> QED
    BY <2>1, <2>2
<1>3. /\ netOf \in [Exits!Dev -> Exits!Net] /\ phase \in [Exits!Dev -> Exits!Phase]
      /\ unregCount \in [Exits!Net -> Nat]
      /\ todo \in [Exits!Actor -> Seq(Exits!Dev)] /\ DOMAIN where = Exits!Actor
  BY DEF ExitIInv, ExitTypeOK
<1>4. phase' \in [Exits!Dev -> Exits!Phase] /\ todo' \in [Exits!Actor -> Seq(Exits!Dev)]
      /\ DOMAIN baseHead' = Exits!Net
  BY <1>1, <1>2, <1>3 DEF Exits!Phase
<1> DEFINE O(n) == {d \in Exits!Dev : netOf[d] = n /\ phase[d] \in {"unregistering", "unregistered", "destructed"}}
           Q(n) == {d \in Exits!ToSet(q) : netOf[d] = n}
<1>5. ASSUME NEW n \in Exits!Net
      PROVE  /\ unregCount[n] = Cardinality(O(n))
             /\ {d \in Exits!Dev : netOf[d] = n /\ phase'[d] \in {"unregistering", "unregistered", "destructed"}} = O(n) \cup Q(n)
             /\ Cardinality(O(n) \cup Q(n)) = Cardinality(O(n)) + Cardinality(Q(n))
             /\ Cardinality(Q(n)) \in Nat
  <2>1. unregCount[n] = Cardinality(O(n))
    BY ExitCardinality DEF ExitIInv, Exits!CountsUnreported
  <2>2. {d \in Exits!Dev : netOf[d] = n /\ phase'[d] \in {"unregistering", "unregistered", "destructed"}} = O(n) \cup Q(n)
    BY <1>1, <1>2
  <2>3. O(n) \cap Q(n) = {}
    BY <1>2
  <2>4. IsFiniteSet(O(n)) /\ IsFiniteSet(Q(n))
    <3>1. O(n) \subseteq Exits!Dev /\ Q(n) \subseteq Exits!Dev /\ IsFiniteSet(Exits!Dev)
      BY <1>2, ExitCardinality DEF Exits!NetExitAssumption
    <3> HIDE DEF O, Q
    <3> QED
      BY <3>1, FS_Subset
  <2> HIDE DEF O, Q
  <2>5. Cardinality(O(n)) \in Nat /\ Cardinality(Q(n)) \in Nat
    BY <2>4, FS_CardinalityType
  <2>6. Cardinality(O(n) \cup Q(n)) = Cardinality(O(n)) + Cardinality(Q(n)) - Cardinality(O(n) \cap Q(n))
    BY <2>4, FS_Union
  <2>7. Cardinality(O(n) \cap Q(n)) = 0
    BY <2>3, FS_EmptySet
  <2> QED
    BY <2>1, <2>2, <2>5, <2>6, <2>7 DEF O, Q
<1>6. Exits!CountsUnreported'
  <2>1. ASSUME NEW n \in Exits!Net
        PROVE  unregCount'[n] = Cardinality({d \in Exits!Dev : netOf[d] = n /\ phase'[d] \in {"unregistering", "unregistered", "destructed"}})
    <3>1. unregCount'[n] = unregCount[n] + Cardinality(Q(n))
      BY <1>1
    <3> HIDE DEF O, Q
    <3> QED
      BY <1>5, <3>1
  <2> QED
    BY <1>1, <2>1, ExitCardinality DEF Exits!CountsUnreported
<1>7. unregCount' \in [Exits!Net -> Nat] /\ \A n \in Exits!Net : unregCount'[n] >= unregCount[n]
  <2>1. \A n \in Exits!Net : unregCount'[n] = unregCount[n] + Cardinality(Q(n))
           /\ Cardinality(Q(n)) \in Nat
    BY <1>1, <1>5
  <2>2. DOMAIN unregCount' = Exits!Net /\ unregCount' = [n \in Exits!Net |-> unregCount'[n]]
    BY <1>1
  <2> HIDE DEF Q
  <2>3. \A n \in Exits!Net : unregCount'[n] \in Nat /\ unregCount'[n] >= unregCount[n]
    BY <1>3, <2>1
  <2> QED
    BY <2>2, <2>3
<1>8. ExitListsOK'
  <2>1. SUFFICES ASSUME NEW n \in Exits!Net PROVE ExitListOK(n)'
    BY DEF ExitListsOK
  <2> DEFINE s == baseHead[n]
             S == Exits!Dev \ Exits!ToSet(q)
             r == Exits!Only(s, S)
  <2>2. /\ s \in Seq(Exits!Dev) /\ Distinct(s)
        /\ \A d \in Exits!Dev : d \in Exits!ToSet(s) <=> netOf[d] = n /\ phase[d] = "registered"
        /\ \A i \in 1 .. Len(s) : Kind[s[i]] = "loopback" => i = 1
    BY DEF ExitIInv, ExitListsOK, ExitListOK
  <2>3. baseHead'[n] = r
    BY <1>1
  <2> HIDE DEF s
  <2>4. /\ r \in Seq(Exits!Dev) /\ Exits!ToSet(r) = Exits!ToSet(s) \cap S /\ Distinct(r)
        /\ \A i, j \in 1 .. Len(r) : i < j =>
               \E k, l \in 1 .. Len(s) : k < l /\ r[i] = s[k] /\ r[j] = s[l]
    <3> HIDE DEF S
    <3> QED
      BY <2>2, ExitOnlyIs, ExitOnlyDistinct
  <2> HIDE DEF r
  <2>5. \A d \in Exits!Dev : d \in Exits!ToSet(r) <=> netOf[d] = n /\ phase'[d] = "registered"
    BY <1>1, <2>2, <2>4
  <2>6. ASSUME NEW i \in 1 .. Len(r), Kind[r[i]] = "loopback" PROVE i = 1
    <3>1. SUFFICES ASSUME i # 1 PROVE FALSE
      OBVIOUS
    <3>2. 1 \in 1 .. Len(r) /\ 1 < i
      BY <2>4, <3>1
    <3>3. PICK k \in 1 .. Len(s), l \in 1 .. Len(s) : k < l /\ r[i] = s[l]
      BY <2>4, <3>2
    <3>4. l # 1
      BY <2>2, <3>3
    <3> QED
      BY <2>2, <2>6, <3>3, <3>4
  <2>7. DOMAIN <<>> = {} /\ baseHead'[n] = r /\ netOf' = netOf
    BY <1>1, <2>3
  <2> QED
    BY <2>4, <2>5, <2>6, <2>7 DEF ExitListOK, Distinct, Exits!ToSet
<1>9. PeersOK'
  <2>1. \A d \in Exits!Dev : Peer[d] \in Exits!Dev /\ Peer[Peer[d]] = d
    BY DEF Exits!NetExitAssumption
  <2>2. \A d \in Exits!Dev : d \notin Exits!ToSet(q) => Peer[d] \notin Exits!ToSet(q)
    BY <1>2, <2>1
  <2>3. \A d \in Exits!Dev : phase[d] = "registered" => phase[Peer[d]] = "registered"
    BY DEF ExitIInv, PeersOK
  <2> QED
    BY <1>1, <2>1, <2>2, <2>3 DEF PeersOK
<1>10. \A d \in Exits!Dev : phase'[d] \in Unreported => d \in Exits!ToSet(q)
          \/ phase[d] \in Unreported
  BY <1>1
<1>11. /\ todo'[a] = q /\ where'[a] = "todo"
       /\ \A b \in Exits!Actor : b # a => todo'[b] = todo[b] /\ where'[b] = where[b]
  BY <1>1, <1>3
<1>12. \A b \in Exits!Actor : \A i \in 1 .. Len(todo[b]) : todo[b][i] \in Exits!Dev
          /\ todo[b][i] \notin Exits!ToSet(q)
  <2>1. \A b \in Exits!Actor : \A i \in 1 .. Len(todo[b]) : todo[b][i] \in Exits!Dev
           /\ phase[todo[b][i]] # "registered"
    <3>1. \A place : HeadPhase(place) # "registered"
      BY DEF HeadPhase
    <3>2. \A b \in Exits!Actor : \A i \in 1 .. Len(todo[b]) :
              phase[todo[b][i]] = IF i = 1 THEN HeadPhase(where[b]) ELSE "unregistering"
      BY DEF ExitIInv, TodoOK
    <3>3. \A b \in Exits!Actor : todo[b] \in Seq(Exits!Dev)
      BY <1>3
    <3>4. \A b \in Exits!Actor : \A i \in 1 .. Len(todo[b]) : todo[b][i] \in Exits!Dev
      BY <3>3
    <3> QED
      BY <3>1, <3>2, <3>4
  <2> QED
    BY <1>2, <2>1
<1>13. TodoOK'
  <2>1. ASSUME NEW b \in Exits!Actor
        PROVE  /\ Distinct(todo'[b])
               /\ where'[b] \in Busy => todo'[b] # <<>>
               /\ where'[b] \notin Busy \cup {"todo"} => todo'[b] = <<>>
               /\ \A i \in 1 .. Len(todo'[b]) :
                      phase'[todo'[b][i]] = IF i = 1 THEN HeadPhase(where'[b]) ELSE "unregistering"
    <3>1. CASE b = a
      <4>1. \A i \in 1 .. Len(q) : phase'[q[i]] = "unregistering"
        BY <1>1, <1>2 DEF Exits!ToSet
      <4> QED
        BY <1>2, <1>11, <3>1, <4>1 DEF Busy, HeadPhase
    <3>2. CASE b # a
      <4>1. todo'[b] = todo[b] /\ where'[b] = where[b]
        BY <1>11, <3>2
      <4>2. \A i \in 1 .. Len(todo[b]) : phase'[todo[b][i]] = phase[todo[b][i]]
        BY <1>1, <1>12
      <4> QED
        BY <4>1, <4>2 DEF ExitIInv, TodoOK
    <3> QED
      BY <3>1, <3>2
  <2>2. \A b \in Exits!Actor : Exits!ToSet(q) \cap Exits!ToSet(todo[b]) = {}
    BY <1>12 DEF Exits!ToSet
  <2>3. \A b, c \in Exits!Actor : b # c => Exits!ToSet(todo[b]) \cap Exits!ToSet(todo[c]) = {}
    BY DEF ExitIInv, TodoOK
  <2>4. \A b, c \in Exits!Actor : b # c => Exits!ToSet(todo'[b]) \cap Exits!ToSet(todo'[c]) = {}
    BY <1>11, <2>2, <2>3
  <2>5. ASSUME NEW d \in Exits!Dev, phase'[d] \in Unreported
        PROVE  \E b \in Exits!Actor : d \in Exits!ToSet(todo'[b])
    <3>1. CASE d \in Exits!ToSet(q)
      BY <1>11, <3>1
    <3>2. CASE d \notin Exits!ToSet(q)
      <4>1. PICK b \in Exits!Actor : d \in Exits!ToSet(todo[b])
        BY <1>10, <2>5, <3>2 DEF ExitIInv, TodoOK
      <4>2. Exits!ToSet(todo[a]) = {}
        BY DEF Exits!ToSet
      <4>3. b # a
        BY <4>1, <4>2
      <4> QED
        BY <1>11, <4>1, <4>3
    <3> QED
      BY <3>1, <3>2
  <2> QED
    BY <2>1, <2>4, <2>5 DEF TodoOK, Distinct, Exits!ToSet
<1>14. Exits!LoopbackOutlives'
  BY <1>1, <1>2, <1>3 DEF ExitIInv, Exits!LoopbackOutlives
<1> QED
  BY <1>4, <1>6, <1>7, <1>8, <1>9, <1>13, <1>14


LEMMA HeadIs ==
  ASSUME ExitIInv, NEW a \in Exits!Actor, todo[a] # <<>>
  PROVE  /\ Head(todo[a]) = todo[a][1] /\ Head(todo[a]) \in Exits!Dev /\ 1 \in 1 .. Len(todo[a])
         /\ Head(todo[a]) \in Exits!ToSet(todo[a]) /\ Len(todo[a]) \in Nat
         /\ phase[Head(todo[a])] = HeadPhase(where[a])
         /\ \A i \in 2 .. Len(todo[a]) : todo[a][i] # Head(todo[a])
         /\ \A b \in Exits!Actor : b # a => \A i \in 1 .. Len(todo[b]) : todo[b][i] # Head(todo[a])
<1>1. todo[a] \in Seq(Exits!Dev)
  BY DEF ExitIInv, ExitTypeOK
<1>2. /\ Head(todo[a]) = todo[a][1] /\ Head(todo[a]) \in Exits!Dev /\ 1 \in 1 .. Len(todo[a])
      /\ Len(todo[a]) \in Nat
  BY <1>1
<1>3. Head(todo[a]) \in Exits!ToSet(todo[a])
  BY <1>2 DEF Exits!ToSet
<1>4. phase[Head(todo[a])] = HeadPhase(where[a])
  BY <1>2 DEF ExitIInv, TodoOK
<1>5. Distinct(todo[a]) /\ \A b \in Exits!Actor : b # a
         => Exits!ToSet(todo[b]) \cap Exits!ToSet(todo[a]) = {}
  BY DEF ExitIInv, TodoOK
<1>6. \A i \in 2 .. Len(todo[a]) : i \in 1 .. Len(todo[a]) /\ i # 1
  BY <1>2
<1>7. \A i \in 2 .. Len(todo[a]) : todo[a][i] # Head(todo[a])
  BY <1>2, <1>5, <1>6 DEF Distinct
<1>8. \A b \in Exits!Actor : b # a => \A i \in 1 .. Len(todo[b]) : todo[b][i] # Head(todo[a])
  BY <1>3, <1>5 DEF Exits!ToSet
<1> QED
  BY <1>2, <1>3, <1>4, <1>7, <1>8

\* The first device on the list of an actor gets on.
LEMMA HeadMoves ==
  ASSUME Exits!NetExitAssumption, ExitIInv, NEW a \in Exits!Actor, todo[a] # <<>>, NEW y \in Busy,
         phase[Head(todo[a])] \in Unreported, where[a] \in Past,
         phase' = [phase EXCEPT ![Head(todo[a])] = HeadPhase(y)],
         where' = [where EXCEPT ![a] = y], UNCHANGED <<baseHead, netOf, todo, Exits!workerVars>>
  PROVE  ExitListsOK' /\ PeersOK' /\ ActorsOK' /\ TodoOK' /\ LoopbacksOK'
         /\ phase' \in [Exits!Dev -> Exits!Phase]
         /\ where' \in [Exits!Actor -> {"start", "exit", "enqueue", "look", "wait"} \cup Past]
<1> DEFINE h == Head(todo[a])
<1>1. /\ h = todo[a][1] /\ h \in Exits!Dev /\ 1 \in 1 .. Len(todo[a])
      /\ h \in Exits!ToSet(todo[a]) /\ Len(todo[a]) \in Nat
      /\ \A i \in 2 .. Len(todo[a]) : todo[a][i] # h
      /\ \A b \in Exits!Actor : b # a => \A i \in 1 .. Len(todo[b]) : todo[b][i] # h
  BY HeadIs
<1>2. /\ phase[h] \in Unreported /\ phase' = [phase EXCEPT ![h] = HeadPhase(y)]
      /\ where' = [where EXCEPT ![a] = y] /\ y \in Busy /\ where[a] \in Past
      /\ UNCHANGED <<baseHead, netOf, todo, Exits!workerVars>>
  OBVIOUS
<1>3. /\ phase \in [Exits!Dev -> Exits!Phase]
      /\ where \in [Exits!Actor -> {"start", "exit", "enqueue", "look", "wait"} \cup Past]
  BY DEF ExitIInv, ExitTypeOK
<1> HIDE DEF h
<1>4. HeadPhase(y) \in Exits!Phase /\ HeadPhase(y) # "registered" /\ phase[h] # "registered"
  BY <1>2 DEF HeadPhase, Exits!Phase, Unreported
<1>5. phase' \in [Exits!Dev -> Exits!Phase]
      /\ where' \in [Exits!Actor -> {"start", "exit", "enqueue", "look", "wait"} \cup Past]
  BY <1>1, <1>2, <1>3, <1>4 DEF Past
<1>6. /\ phase'[h] = HeadPhase(y) /\ \A d \in Exits!Dev : d # h => phase'[d] = phase[d]
      /\ where'[a] = y /\ \A b \in Exits!Actor : b # a => where'[b] = where[b]
      /\ \A d \in Exits!Dev : phase'[d] = "registered" <=> phase[d] = "registered"
  BY <1>1, <1>2, <1>3, <1>4
<1>7. ExitListsOK'
  <2>1. SUFFICES ASSUME NEW n \in Exits!Net PROVE ExitListOK(n)'
    BY DEF ExitListsOK
  <2>2. ExitListOK(n)
    BY DEF ExitIInv, ExitListsOK
  <2> QED
    BY <1>2, <1>6, <2>2 DEF ExitListOK, Distinct, Exits!ToSet
<1>8. PeersOK'
  <2>1. \A d \in Exits!Dev : Peer[d] \in Exits!Dev
           /\ (phase[d] = "registered" => phase[Peer[d]] = "registered")
    BY DEF ExitIInv, PeersOK, Exits!NetExitAssumption
  <2> QED
    BY <1>6, <2>1 DEF PeersOK
<1>9. ActorsOK'
  <2>1. /\ \A t \in Task : t \in Exits!Actor /\ t # Worker
        /\ Worker \in Exits!Actor
    BY DEF Exits!Actor, Exits!NetExitAssumption
  <2>2. /\ turn' = turn /\ enqueued' = enqueued /\ released' = released
    BY <1>2 DEF Exits!workerVars
  <2>3. where'[Worker] = where[Worker] \/ (a = Worker /\ where'[Worker] \in Busy)
    BY <1>2, <1>6, <2>1
  <2>4. \A t \in Task : where'[t] \in {"start", "todo"} \cup Busy
    BY <1>2, <1>6, <2>1 DEF ExitIInv, ActorsOK
  <2>5. released # {} => a # Worker
    <3>1. SUFFICES ASSUME released # {}, a = Worker PROVE FALSE
      OBVIOUS
    <3>2. where[Worker] = "done"
      BY <3>1 DEF ExitIInv, ActorsOK
    <3>3. todo[a] = <<>>
      BY <3>1, <3>2 DEF ExitIInv, TodoOK, Busy
    <3> QED
      BY <3>3
  <2>6. /\ where'[Worker] = "start" => where[Worker] = "start"
        /\ where'[Worker] = "exit" => where[Worker] = "exit"
        /\ where'[Worker] \in {"look", "wait"} => where[Worker] \in {"look", "wait"}
    BY <2>3 DEF Busy
  <2>7. released # {} => where'[Worker] = "done"
    BY <1>6, <2>1, <2>5 DEF ExitIInv, ActorsOK
  <2>8. /\ where[Worker] = "start" => turn = 1
        /\ where[Worker] = "exit" => turn \in 1 .. Len(Ending)
        /\ where[Worker] \in {"look", "wait"} => enqueued
    BY DEF ExitIInv, ActorsOK
  <2> QED
    BY <2>2, <2>4, <2>6, <2>7, <2>8 DEF ActorsOK
<1>10. TodoOK'
  <2>1. todo' = todo
    BY <1>2
  <2>2. \A b \in Exits!Actor : todo[b] \in Seq(Exits!Dev)
           /\ \A i \in 1 .. Len(todo[b]) : todo[b][i] \in Exits!Dev
    BY DEF ExitIInv, ExitTypeOK
  <2>3. ASSUME NEW b \in Exits!Actor
        PROVE  /\ Distinct(todo[b])
               /\ where'[b] \in Busy => todo[b] # <<>>
               /\ where'[b] \notin Busy \cup {"todo"} => todo[b] = <<>>
               /\ \A i \in 1 .. Len(todo[b]) :
                      phase'[todo[b][i]] = IF i = 1 THEN HeadPhase(where'[b]) ELSE "unregistering"
    <3>1. CASE b = a
      <4>1. Distinct(todo[b]) /\ todo[b] # <<>>
        BY <3>1 DEF ExitIInv, TodoOK
      <4>2. ASSUME NEW i \in 1 .. Len(todo[a]), i # 1 PROVE phase'[todo[a][i]] = "unregistering"
        <5>1. i \in 2 .. Len(todo[a])
          BY <1>1, <4>2
        <5>2. phase[todo[a][i]] = "unregistering"
          BY <4>2 DEF ExitIInv, TodoOK
        <5> QED
          BY <1>1, <1>6, <2>2, <5>1, <5>2
      <4> QED
        BY <1>1, <1>2, <1>6, <3>1, <4>1, <4>2
    <3>2. CASE b # a
      <4>1. where'[b] = where[b] /\ \A i \in 1 .. Len(todo[b]) : phase'[todo[b][i]] = phase[todo[b][i]]
        BY <1>1, <1>6, <2>2, <3>2
      <4> QED
        BY <4>1 DEF ExitIInv, TodoOK
    <3> QED
      BY <3>1, <3>2
  <2>4. \A b, c \in Exits!Actor : b # c => Exits!ToSet(todo[b]) \cap Exits!ToSet(todo[c]) = {}
    BY DEF ExitIInv, TodoOK
  <2>5. ASSUME NEW d \in Exits!Dev, phase'[d] \in Unreported
        PROVE  \E b \in Exits!Actor : d \in Exits!ToSet(todo[b])
    <3>1. CASE d = h
      BY <1>1, <3>1
    <3>2. CASE d # h
      BY <1>6, <2>5, <3>2 DEF ExitIInv, TodoOK
    <3> QED
      BY <3>1, <3>2
  <2>6. ASSUME NEW b \in Exits!Actor
        PROVE  /\ Distinct(todo[b])'
               /\ where'[b] \in Busy => todo'[b] # <<>>
               /\ where'[b] \notin Busy \cup {"todo"} => todo'[b] = <<>>
               /\ \A i \in 1 .. Len(todo'[b]) :
                      phase'[todo'[b][i]] = IF i = 1 THEN HeadPhase(where'[b]) ELSE "unregistering"
    BY <2>1, <2>3 DEF Distinct
  <2>7. \A b, c \in Exits!Actor : b # c => Exits!ToSet(todo'[b]) \cap Exits!ToSet(todo'[c]) = {}
    BY <2>1, <2>4
  <2>8. \A d \in Exits!Dev : phase'[d] \in Unreported
           => \E b \in Exits!Actor : d \in Exits!ToSet(todo'[b])
    BY <2>1, <2>5
  <2> QED
    BY <2>6, <2>7, <2>8 DEF TodoOK, Distinct, Exits!ToSet
<1>11. LoopbacksOK'
  <2>1. todo' = todo /\ netOf' = netOf /\ Worker \in Exits!Actor
    BY <1>2 DEF Exits!Actor
  <2>2. where'[Worker] \in Past <=> where[Worker] \in Past
    BY <1>2, <1>6, <2>1 DEF Past
  <2>3. /\ \A d \in Exits!Dev : Kind[d] = "loopback" /\ phase[d] # "registered" =>
               where[Worker] \in Past /\ netOf[d] \in Exits!ToSet(Ending)
        /\ \A t \in Task : \A d \in Exits!ToSet(todo[t]) : Kind[d] # "loopback"
        /\ where[Worker] \in Past => \A d \in Exits!Dev : netOf[d] \in Exits!ToSet(Ending) =>
                                      phase[d] \in Reported \/ d \in Exits!ToSet(todo[Worker])
        /\ LoopbackLast(todo[Worker])
    BY DEF ExitIInv, LoopbacksOK
  <2>4. \A d \in Exits!Dev : phase[d] \in Reported => phase'[d] \in Reported
    BY <1>2, <1>6 DEF Reported, Unreported
  <2>5. \A d \in Exits!Dev : Kind[d] = "loopback" /\ phase'[d] # "registered" =>
               where'[Worker] \in Past /\ netOf[d] \in Exits!ToSet(Ending)
    BY <1>6, <2>2, <2>3
  <2>6. where'[Worker] \in Past => \A d \in Exits!Dev : netOf[d] \in Exits!ToSet(Ending) =>
                                      phase'[d] \in Reported \/ d \in Exits!ToSet(todo[Worker])
    BY <2>2, <2>3, <2>4
  <2> QED
    BY <2>1, <2>3, <2>5, <2>6 DEF LoopbacksOK, LoopbackLast, Exits!ToSet
<1> QED
  BY <1>5, <1>7, <1>8, <1>9, <1>10, <1>11

\* What the holders of devices turn to
LEMMA TurnIs ==
  ASSUME Exits!NetExitAssumption, ExitIInv, NEW s \in Seq(Exits!Dev), Exits!TurnToLoopback(s),
         \A i \in 1 .. Len(s) : phase[s[i]] \in {"registered", "unregistering"}
  PROVE  /\ refs' \in [Exits!Dev -> Nat]
         /\ \A d \in Exits!Dev : phase[d] \in {"destructed", "reported", "freed"} => refs'[d] = 0
<1>1. refs' = [d \in Exits!Dev |-> IF Kind[d] = "loopback" THEN refs[d] + Exits!RefsIn(s, netOf[d])
                            ELSE IF d \in Exits!ToSet(s) THEN 0 ELSE refs[d]]
  BY DEF Exits!TurnToLoopback
<1>2. refs \in [Exits!Dev -> Nat]
  BY DEF ExitIInv, ExitTypeOK
<1>3. \A n : Exits!RefsIn(s, n) \in Nat
         /\ ((\A i \in 1 .. Len(s) : netOf[s[i]] # n) => Exits!RefsIn(s, n) = 0)
  BY <1>2, RefsInIs
<1>4. refs' \in [Exits!Dev -> Nat]
  <2>1. \A d \in Exits!Dev : refs[d] \in Nat /\ refs[d] + Exits!RefsIn(s, netOf[d]) \in Nat
    BY <1>2, <1>3
  <2> QED
    BY <1>1, <2>1
<1>5. ASSUME NEW d \in Exits!Dev, phase[d] \in {"destructed", "reported", "freed"}
      PROVE  refs'[d] = 0
  <2>1. refs[d] = 0 /\ (Kind[d] = "loopback" => \A e \in Exits!Dev : netOf[e] = netOf[d] => phase[e] \notin {"registered", "unregistering"})
    BY <1>5 DEF ExitIInv, Exits!LoopbackOutlives
  <2>2. CASE Kind[d] = "loopback"
    <3>1. \A i \in 1 .. Len(s) : s[i] \in Exits!Dev
      OBVIOUS
    <3>2. \A i \in 1 .. Len(s) : netOf[s[i]] # netOf[d]
      BY <2>1, <2>2, <3>1
    <3>3. Exits!RefsIn(s, netOf[d]) = 0
      BY <1>3, <3>2
    <3> QED
      BY <1>1, <2>1, <2>2, <3>3
  <2>3. CASE Kind[d] # "loopback"
    BY <1>1, <2>1, <2>3
  <2> QED
    BY <2>2, <2>3
<1> QED
  BY <1>4, <1>5

LEMMA FinalOK ==
  ASSUME Exits!NetExitAssumption, ExitIInv, NEW a \in Exits!Actor, Exits!Final(a)
  PROVE  ExitIInv'
<1> DEFINE h == Head(todo[a])
<1>1. /\ where[a] = "todo" /\ todo[a] # <<>> /\ Exits!TurnToLoopback(<<h>>)
      /\ phase' = [phase EXCEPT ![h] = "unregistered"] /\ where' = [where EXCEPT ![a] = "refs"]
      /\ UNCHANGED <<baseHead, netOf, unregCount, todo, Exits!workerVars>>
  BY DEF Exits!Final
<1>2. h \in Exits!Dev /\ phase[h] = "unregistering"
  BY <1>1, HeadIs DEF HeadPhase
<1>3. HeadPhase("refs") = "unregistered" /\ "refs" \in Busy /\ "todo" \in Past
  BY DEF HeadPhase, Busy, Past
<1> HIDE DEF h
<1>4. <<h>> \in Seq(Exits!Dev) /\ \A i \in 1 .. Len(<<h>>) : phase[<<h>>[i]] \in {"registered", "unregistering"}
  BY <1>2
<1>5. /\ refs' \in [Exits!Dev -> Nat]
      /\ \A d \in Exits!Dev : phase[d] \in {"destructed", "reported", "freed"} => refs'[d] = 0
  BY <1>1, <1>4, TurnIs
<1>6. ExitListsOK' /\ PeersOK' /\ ActorsOK' /\ TodoOK' /\ LoopbacksOK'
      /\ phase' \in [Exits!Dev -> Exits!Phase]
      /\ where' \in [Exits!Actor -> {"start", "exit", "enqueue", "look", "wait"} \cup Past]
  BY <1>1, <1>2, <1>3, HeadMoves DEF Unreported, h
<1>7. ExitTypeOK'
  BY <1>1, <1>5, <1>6 DEF ExitIInv, ExitTypeOK, Exits!workerVars
<1>8. \A d \in Exits!Dev : IF d = h THEN phase'[d] = "unregistered" ELSE phase'[d] = phase[d]
  BY <1>1, <1>2 DEF ExitIInv, ExitTypeOK
<1>9. Exits!CountsUnreported'
  <2>1. ASSUME NEW n \in Exits!Net
        PROVE  {d \in Exits!Dev : netOf[d] = n /\ phase'[d] \in {"unregistering", "unregistered", "destructed"}}
                 = {d \in Exits!Dev : netOf[d] = n /\ phase[d] \in {"unregistering", "unregistered", "destructed"}}
    BY <1>2, <1>8
  <2> QED
    BY <1>1, <2>1 DEF ExitIInv, Exits!CountsUnreported
<1>10. Exits!LoopbackOutlives'
  <2>1. \A d \in Exits!Dev : phase'[d] \in {"destructed", "reported", "freed"}
           => phase[d] \in {"destructed", "reported", "freed"}
    BY <1>8
  <2>2. \A d \in Exits!Dev : phase[d] \notin {"registered", "unregistering"}
           => phase'[d] \notin {"registered", "unregistering"}
    BY <1>8
  <2> QED
    BY <1>1, <1>5, <2>1, <2>2 DEF ExitIInv, Exits!LoopbackOutlives
<1>11. Exits!NoLostWakeUp'
  <2>1. Worker \in Exits!Actor /\ \A t \in Task : t \in Exits!Actor
    BY DEF Exits!Actor
  <2>2. where'[Worker] = "wait" => where[Worker] = "wait"
    BY <1>1, <2>1 DEF ExitIInv, ExitTypeOK
  <2>3. \A t \in Task : where[t] = "wake" => where'[t] = "wake"
    BY <1>1, <2>1 DEF ExitIInv, ExitTypeOK
  <2> QED
    BY <1>1, <2>2, <2>3 DEF ExitIInv, Exits!NoLostWakeUp, Exits!Unregistering, Exits!workerVars
<1> QED
  BY <1>6, <1>7, <1>9, <1>10, <1>11 DEF ExitIInv

LEMMA AllRefsGoneOK ==
  ASSUME Exits!NetExitAssumption, ExitIInv, NEW a \in Exits!Actor, Exits!AllRefsGone(a)
  PROVE  ExitIInv'
<1> DEFINE h == Head(todo[a])
<1>1. /\ where[a] = "refs" /\ refs[h] = 0
      /\ phase' = [phase EXCEPT ![h] = "destructed"] /\ where' = [where EXCEPT ![a] = "report"]
      /\ UNCHANGED <<baseHead, netOf, refs, unregCount, todo, Exits!workerVars>>
  BY DEF Exits!AllRefsGone
<1>2. todo[a] # <<>>
  BY <1>1 DEF ExitIInv, TodoOK, Busy
<1>3. /\ h = todo[a][1] /\ h \in Exits!Dev /\ 1 \in 1 .. Len(todo[a])
      /\ h \in Exits!ToSet(todo[a]) /\ phase[h] = "unregistered"
      /\ Len(todo[a]) \in Nat
  BY <1>1, <1>2, HeadIs DEF HeadPhase
<1>4. HeadPhase("report") = "destructed" /\ "report" \in Busy /\ "refs" \in Past
  BY DEF HeadPhase, Busy, Past
<1>5. ExitListsOK' /\ PeersOK' /\ ActorsOK' /\ TodoOK' /\ LoopbacksOK'
      /\ phase' \in [Exits!Dev -> Exits!Phase]
      /\ where' \in [Exits!Actor -> {"start", "exit", "enqueue", "look", "wait"} \cup Past]
  BY <1>1, <1>2, <1>3, <1>4, HeadMoves DEF Unreported
<1> HIDE DEF h
<1>6. ExitTypeOK'
  BY <1>1, <1>5 DEF ExitIInv, ExitTypeOK, Exits!workerVars
<1>7. \A d \in Exits!Dev : IF d = h THEN phase'[d] = "destructed" ELSE phase'[d] = phase[d]
  BY <1>1, <1>3 DEF ExitIInv, ExitTypeOK
<1>8. Exits!CountsUnreported'
  <2>1. ASSUME NEW n \in Exits!Net
        PROVE  {d \in Exits!Dev : netOf[d] = n /\ phase'[d] \in {"unregistering", "unregistered", "destructed"}}
                 = {d \in Exits!Dev : netOf[d] = n /\ phase[d] \in {"unregistering", "unregistered", "destructed"}}
    BY <1>3, <1>7
  <2> QED
    BY <1>1, <2>1 DEF ExitIInv, Exits!CountsUnreported
<1>9. ASSUME Kind[h] = "loopback", NEW e \in Exits!Dev, netOf[e] = netOf[h]
      PROVE  phase'[e] \notin {"registered", "unregistering"}
  <2>1. where[Worker] \in Past /\ netOf[h] \in Exits!ToSet(Ending)
    BY <1>3, <1>9 DEF ExitIInv, LoopbacksOK
  <2>2. a = Worker
    <3>1. a \notin Task
      BY <1>3, <1>9 DEF ExitIInv, LoopbacksOK
    <3> QED
      BY <3>1 DEF Exits!Actor
  <2>3. phase[e] \in Reported \/ e \in Exits!ToSet(todo[a])
    BY <1>9, <2>1, <2>2 DEF ExitIInv, LoopbacksOK
  <2>4. CASE phase[e] \in Reported
    BY <1>7, <2>4 DEF Reported
  <2>5. CASE e \in Exits!ToSet(todo[a])
    <3>1. PICK i \in 1 .. Len(todo[a]) : todo[a][i] = e
      BY <2>5 DEF Exits!ToSet
    <3>2. i = 1
      <4>1. SUFFICES ASSUME i # 1 PROVE FALSE
        OBVIOUS
      <4>2. 1 < i
        BY <1>3, <4>1
      <4>3. LoopbackLast(todo[a])
        BY <2>2 DEF ExitIInv, LoopbacksOK
      <4> QED
        BY <1>3, <1>9, <3>1, <4>2, <4>3 DEF LoopbackLast
    <3>3. e = h
      BY <1>3, <3>1, <3>2
    <3> QED
      BY <1>7, <3>3
  <2> QED
    BY <2>3, <2>4, <2>5
<1>10. Exits!LoopbackOutlives'
  <2>1. \A d \in Exits!Dev : d # h /\ phase'[d] \in {"destructed", "reported", "freed"}
           => phase[d] \in {"destructed", "reported", "freed"}
    BY <1>7
  <2>2. \A d \in Exits!Dev : phase[d] \notin {"registered", "unregistering"}
           => phase'[d] \notin {"registered", "unregistering"}
    BY <1>7
  <2> QED
    BY <1>1, <1>9, <2>1, <2>2 DEF ExitIInv, Exits!LoopbackOutlives
<1>11. Exits!NoLostWakeUp'
  <2>1. Worker \in Exits!Actor /\ \A t \in Task : t \in Exits!Actor
    BY DEF Exits!Actor
  <2>2. where'[Worker] = "wait" => where[Worker] = "wait"
    BY <1>1, <2>1 DEF ExitIInv, ExitTypeOK
  <2>3. \A t \in Task : where[t] = "wake" => where'[t] = "wake"
    BY <1>1, <2>1 DEF ExitIInv, ExitTypeOK
  <2> QED
    BY <1>1, <2>2, <2>3 DEF ExitIInv, Exits!NoLostWakeUp, Exits!Unregistering, Exits!workerVars
<1> QED
  BY <1>5, <1>6, <1>8, <1>10, <1>11 DEF ExitIInv

LEMMA ReportOK ==
  ASSUME Exits!NetExitAssumption, ExitIInv, NEW a \in Exits!Actor, Exits!Report(a)
  PROVE  ExitIInv'
<1> DEFINE h == Head(todo[a])
           U == {"unregistering", "unregistered", "destructed"}
           O(n) == {d \in Exits!Dev : netOf[d] = n /\ phase[d] \in U}
<1>1. /\ where[a] = "report"
      /\ phase' = [phase EXCEPT ![h] = "reported"] /\ where' = [where EXCEPT ![a] = "wake"]
      /\ unregCount' = [unregCount EXCEPT ![netOf[h]] = @ - 1]
      /\ UNCHANGED <<baseHead, netOf, refs, todo, Exits!workerVars>>
  BY DEF Exits!Report
<1>2. todo[a] # <<>>
  BY <1>1 DEF ExitIInv, TodoOK, Busy
<1>3. h \in Exits!Dev /\ phase[h] = "destructed"
  BY <1>1, <1>2, HeadIs DEF HeadPhase
<1>4. HeadPhase("wake") = "reported" /\ "wake" \in Busy /\ "report" \in Past
  BY DEF HeadPhase, Busy, Past
<1>5. ExitListsOK' /\ PeersOK' /\ ActorsOK' /\ TodoOK' /\ LoopbacksOK'
      /\ phase' \in [Exits!Dev -> Exits!Phase]
      /\ where' \in [Exits!Actor -> {"start", "exit", "enqueue", "look", "wait"} \cup Past]
  BY <1>1, <1>2, <1>3, <1>4, HeadMoves DEF Unreported
<1> HIDE DEF h
<1>6. \A d \in Exits!Dev : IF d = h THEN phase'[d] = "reported" ELSE phase'[d] = phase[d]
  BY <1>1, <1>3 DEF ExitIInv, ExitTypeOK
<1>7. ASSUME NEW n \in Exits!Net
      PROVE  /\ unregCount'[n] \in Nat
             /\ unregCount'[n] = Cardinality({d \in Exits!Dev : netOf[d] = n /\ phase'[d] \in U})
  <2>1. unregCount[n] = Cardinality(O(n)) /\ unregCount[n] \in Nat
        /\ unregCount \in [Exits!Net -> Nat] /\ netOf[h] \in Exits!Net
    BY <1>3, ExitCardinality DEF ExitIInv, Exits!CountsUnreported, ExitTypeOK
  <2>2. IsFiniteSet(O(n))
    <3>1. O(n) \subseteq Exits!Dev /\ IsFiniteSet(Exits!Dev)
      BY ExitCardinality DEF Exits!NetExitAssumption
    <3> HIDE DEF O
    <3> QED
      BY <3>1, FS_Subset
  <2>3. CASE n = netOf[h]
    <3>1. h \in O(n)
      BY <1>3, <2>3
    <3>2. {d \in Exits!Dev : netOf[d] = n /\ phase'[d] \in U} = O(n) \ {h}
      BY <1>6
    <3> HIDE DEF O
    <3>3. Cardinality(O(n) \ {h}) = Cardinality(O(n)) - 1 /\ IsFiniteSet(O(n) \ {h})
      BY <2>2, <3>1, FS_RemoveElement
    <3>4. Cardinality(O(n) \ {h}) \in Nat
      BY <3>3, FS_CardinalityType
    <3>5. unregCount'[n] = unregCount[n] - 1
      BY <1>1, <2>1, <2>3
    <3> QED
      BY <2>1, <3>2, <3>3, <3>4, <3>5
  <2>4. CASE n # netOf[h]
    <3>1. {d \in Exits!Dev : netOf[d] = n /\ phase'[d] \in U} = O(n)
      BY <1>6, <2>4
    <3>2. unregCount'[n] = unregCount[n]
      BY <1>1, <2>1, <2>4
    <3> QED
      BY <2>1, <3>1, <3>2
  <2> QED
    BY <2>3, <2>4
<1>8. ExitTypeOK'
  <2>1. unregCount' \in [Exits!Net -> Nat]
    <3>1. DOMAIN unregCount' = Exits!Net /\ unregCount' = [n \in Exits!Net |-> unregCount'[n]]
      BY <1>1 DEF ExitIInv, ExitTypeOK
    <3> QED
      BY <1>7, <3>1
  <2> QED
    BY <1>1, <1>5, <2>1 DEF ExitIInv, ExitTypeOK, Exits!workerVars
<1>9. Exits!CountsUnreported'
  BY <1>1, <1>7, ExitCardinality DEF Exits!CountsUnreported
<1>10. Exits!LoopbackOutlives'
  <2>1. \A d \in Exits!Dev : phase'[d] \in {"destructed", "reported", "freed"}
           => phase[d] \in {"destructed", "reported", "freed"}
    BY <1>3, <1>6
  <2>2. \A d \in Exits!Dev : phase[d] \notin {"registered", "unregistering"}
           => phase'[d] \notin {"registered", "unregistering"}
    BY <1>6
  <2> QED
    BY <1>1, <2>1, <2>2 DEF ExitIInv, Exits!LoopbackOutlives
<1>11. Exits!NoLostWakeUp'
  <2>1. Worker \in Exits!Actor /\ \A t \in Task : t \in Exits!Actor
    BY DEF Exits!Actor
  <2>2. where'[a] = "wake" /\ (a # Worker => a \in Task)
           /\ (a # Worker => where'[Worker] = where[Worker])
    BY <1>1, <2>1 DEF ExitIInv, ExitTypeOK, Exits!Actor
  <2>3. where'[Worker] = "wait" => \E t \in Task : where'[t] = "wake"
    BY <2>2
  <2> QED
    BY <2>3 DEF Exits!NoLostWakeUp
<1> QED
  BY <1>5, <1>8, <1>9, <1>10, <1>11 DEF ExitIInv


LEMMA TailIs ==
  ASSUME NEW S, NEW s \in Seq(S), s # <<>>
  PROVE  /\ Tail(s) \in Seq(S) /\ Len(s) \in Nat /\ Len(Tail(s)) = Len(s) - 1
         /\ \A i \in 1 .. Len(Tail(s)) : Tail(s)[i] = s[i + 1] /\ i + 1 \in 2 .. Len(s)
               /\ i + 1 \in 1 .. Len(s)
<1>1. Len(s) \in Nat /\ Tail(s) \in Seq(S) /\ Len(Tail(s)) = Len(s) - 1
  OBVIOUS
<1>2. \A i \in 1 .. Len(Tail(s)) : i + 1 \in 2 .. Len(s) /\ i + 1 \in 1 .. Len(s)
  BY <1>1
<1>3. \A i \in 1 .. Len(Tail(s)) : Tail(s)[i] = s[i + 1]
  BY <1>1
<1> QED
  BY <1>1, <1>2, <1>3

\* An actor gets on, and no device does.
LEMMA ActorMoves ==
  ASSUME Exits!NetExitAssumption, ExitIInv, NEW a \in Exits!Actor,
         NEW y \in {"start", "exit", "enqueue", "look", "wait"} \cup Past,
         y \in Past <=> where[a] \in Past, y \in Busy => todo[a] # <<>>,
         y \notin Busy \cup {"todo"} => todo[a] = <<>>, HeadPhase(y) = HeadPhase(where[a])
            \/ todo[a] = <<>>,
         where' = [where EXCEPT ![a] = y], UNCHANGED <<Exits!devVars, todo>>
  PROVE  /\ ExitListsOK' /\ PeersOK' /\ TodoOK' /\ LoopbacksOK' /\ Exits!CountsUnreported'
         /\ Exits!LoopbackOutlives'
         /\ where' \in [Exits!Actor -> {"start", "exit", "enqueue", "look", "wait"} \cup Past]
         /\ where'[a] = y /\ \A b \in Exits!Actor : b # a => where'[b] = where[b]
         /\ netOf' = netOf /\ phase' = phase /\ refs' = refs /\ unregCount' = unregCount
         /\ baseHead' = baseHead /\ todo' = todo
<1>1. netOf' = netOf /\ phase' = phase /\ refs' = refs /\ unregCount' = unregCount
      /\ baseHead' = baseHead /\ todo' = todo
  BY DEF Exits!devVars
<1>2. where \in [Exits!Actor -> {"start", "exit", "enqueue", "look", "wait"} \cup Past]
  BY DEF ExitIInv, ExitTypeOK
<1>3. /\ where' \in [Exits!Actor -> {"start", "exit", "enqueue", "look", "wait"} \cup Past]
      /\ where'[a] = y /\ \A b \in Exits!Actor : b # a => where'[b] = where[b]
  BY <1>2
<1>4. ExitListsOK' /\ PeersOK' /\ Exits!CountsUnreported' /\ Exits!LoopbackOutlives'
  <2>1. ExitListsOK'
    <3>1. SUFFICES ASSUME NEW n \in Exits!Net PROVE ExitListOK(n)'
      BY DEF ExitListsOK
    <3>2. ExitListOK(n)
      BY DEF ExitIInv, ExitListsOK
    <3> QED
      BY <1>1, <3>2 DEF ExitListOK, Distinct, Exits!ToSet
  <2>2. PeersOK' /\ Exits!LoopbackOutlives'
    BY <1>1 DEF ExitIInv, PeersOK, Exits!LoopbackOutlives
  <2>3. Exits!CountsUnreported'
    BY <1>1 DEF ExitIInv, Exits!CountsUnreported
  <2> QED
    BY <2>1, <2>2, <2>3
<1>5. TodoOK'
  <2>1. ASSUME NEW b \in Exits!Actor
        PROVE  /\ Distinct(todo[b])
               /\ where'[b] \in Busy => todo[b] # <<>>
               /\ where'[b] \notin Busy \cup {"todo"} => todo[b] = <<>>
               /\ \A i \in 1 .. Len(todo[b]) :
                      phase[todo[b][i]] = IF i = 1 THEN HeadPhase(where'[b]) ELSE "unregistering"
    <3>1. /\ Distinct(todo[b])
          /\ where[b] \in Busy => todo[b] # <<>>
          /\ where[b] \notin Busy \cup {"todo"} => todo[b] = <<>>
          /\ \A i \in 1 .. Len(todo[b]) :
                 phase[todo[b][i]] = IF i = 1 THEN HeadPhase(where[b]) ELSE "unregistering"
      BY DEF ExitIInv, TodoOK
    <3>2. CASE b = a
      <4>1. CASE todo[a] = <<>>
        <5>1. 1 .. Len(todo[b]) = {}
          BY <3>2, <4>1
        <5> QED
          BY <1>3, <3>1, <3>2, <5>1
      <4>2. CASE HeadPhase(y) = HeadPhase(where[a])
        BY <1>3, <3>1, <3>2, <4>2
      <4> QED
        BY <4>1, <4>2
    <3>3. CASE b # a
      BY <1>3, <3>1, <3>3
    <3> QED
      BY <3>2, <3>3
  <2>2. /\ \A b, c \in Exits!Actor : b # c => Exits!ToSet(todo[b]) \cap Exits!ToSet(todo[c]) = {}
        /\ \A d \in Exits!Dev : phase[d] \in Unreported
              => \E b \in Exits!Actor : d \in Exits!ToSet(todo[b])
    BY DEF ExitIInv, TodoOK
  <2>3. ASSUME NEW b \in Exits!Actor
        PROVE  /\ Distinct(todo[b])'
               /\ where'[b] \in Busy => todo'[b] # <<>>
               /\ where'[b] \notin Busy \cup {"todo"} => todo'[b] = <<>>
               /\ \A i \in 1 .. Len(todo'[b]) :
                      phase'[todo'[b][i]] = IF i = 1 THEN HeadPhase(where'[b]) ELSE "unregistering"
    BY <1>1, <2>1 DEF Distinct
  <2>4. /\ \A b, c \in Exits!Actor : b # c => Exits!ToSet(todo'[b]) \cap Exits!ToSet(todo'[c]) = {}
        /\ \A d \in Exits!Dev : phase'[d] \in Unreported
              => \E b \in Exits!Actor : d \in Exits!ToSet(todo'[b])
    BY <1>1, <2>2
  <2> QED
    BY <2>3, <2>4 DEF TodoOK, Distinct, Exits!ToSet
<1>6. LoopbacksOK'
  <2>1. where'[Worker] \in Past <=> where[Worker] \in Past
    BY <1>3 DEF Exits!Actor
  <2>2. /\ \A d \in Exits!Dev : Kind[d] = "loopback" /\ phase[d] # "registered" =>
               where[Worker] \in Past /\ netOf[d] \in Exits!ToSet(Ending)
        /\ \A t \in Task : \A d \in Exits!ToSet(todo[t]) : Kind[d] # "loopback"
        /\ where[Worker] \in Past => \A d \in Exits!Dev : netOf[d] \in Exits!ToSet(Ending) =>
                                      phase[d] \in Reported \/ d \in Exits!ToSet(todo[Worker])
        /\ LoopbackLast(todo[Worker])
    BY DEF ExitIInv, LoopbacksOK
  <2> QED
    BY <1>1, <2>1, <2>2 DEF LoopbacksOK, LoopbackLast, Exits!ToSet
<1> QED
  BY <1>1, <1>3, <1>4, <1>5, <1>6

LEMMA WakeUpOK ==
  ASSUME Exits!NetExitAssumption, ExitIInv, NEW a \in Exits!Actor, Exits!WakeUp(a)
  PROVE  ExitIInv'
<1>1. /\ where[a] = "wake" /\ woken' = (woken \/ enqueued) /\ where' = [where EXCEPT ![a] = "put"]
      /\ UNCHANGED <<Exits!devVars, turn, todo, enqueued, released>>
  BY DEF Exits!WakeUp
<1>2. "put" \in Busy /\ "wake" \in Past /\ "put" \in Past /\ HeadPhase("put") = HeadPhase("wake")
      /\ "wake" \in Busy
  BY DEF Busy, Past, HeadPhase
<1>3. todo[a] # <<>>
  BY <1>1, <1>2 DEF ExitIInv, TodoOK
<1>4. /\ ExitListsOK' /\ PeersOK' /\ TodoOK' /\ LoopbacksOK' /\ Exits!CountsUnreported'
      /\ Exits!LoopbackOutlives'
      /\ where' \in [Exits!Actor -> {"start", "exit", "enqueue", "look", "wait"} \cup Past]
      /\ where'[a] = "put" /\ \A b \in Exits!Actor : b # a => where'[b] = where[b]
      /\ netOf' = netOf /\ phase' = phase /\ refs' = refs /\ unregCount' = unregCount
      /\ baseHead' = baseHead /\ todo' = todo
  BY <1>1, <1>2, <1>3, ActorMoves
<1>5. turn' = turn /\ enqueued' = enqueued /\ released' = released
  BY <1>1
<1>6. ExitTypeOK'
  <2>1. enqueued' \in BOOLEAN /\ woken' \in BOOLEAN
    BY <1>1 DEF ExitIInv, ExitTypeOK
  <2> QED
    BY <1>4, <1>5, <2>1 DEF ExitIInv, ExitTypeOK
<1>7. Worker \in Exits!Actor /\ \A t \in Task : t \in Exits!Actor
  BY DEF Exits!Actor
<1>8. ActorsOK'
  <2>1. \A t \in Task : where'[t] \in {"start", "todo"} \cup Busy
    BY <1>2, <1>4, <1>7 DEF ExitIInv, ActorsOK
  <2>2. released # {} => a # Worker
    BY <1>1 DEF ExitIInv, ActorsOK
  <2>3. /\ where'[Worker] = "start" => where[Worker] = "start"
        /\ where'[Worker] = "exit" => where[Worker] = "exit"
        /\ where'[Worker] \in {"look", "wait"} => where[Worker] \in {"look", "wait"}
    BY <1>4, <1>7
  <2>4. released # {} => where'[Worker] = "done"
    BY <1>4, <1>7, <2>2 DEF ExitIInv, ActorsOK
  <2>5. /\ where[Worker] = "start" => turn = 1
        /\ where[Worker] = "exit" => turn \in 1 .. Len(Ending)
        /\ where[Worker] \in {"look", "wait"} => enqueued
    BY DEF ExitIInv, ActorsOK
  <2> QED
    BY <1>5, <2>1, <2>3, <2>4, <2>5 DEF ActorsOK
<1>9. Exits!NoLostWakeUp'
  <2>1. where'[Worker] = "wait" => where[Worker] = "wait"
    BY <1>4, <1>7
  <2>2. where[Worker] = "wait" => woken'
    BY <1>1 DEF ExitIInv, ActorsOK
  <2> QED
    BY <2>1, <2>2 DEF Exits!NoLostWakeUp
<1> QED
  BY <1>4, <1>6, <1>8, <1>9 DEF ExitIInv

\* What the worker does before and after its list
LEMMA WorkerOK ==
  ASSUME Exits!NetExitAssumption, ExitIInv,
         Exits!CleanupBegins \/ Exits!Enqueue \/ Exits!MustWait \/ Exits!WaitWoken \/ Exits!Release
  PROVE  ExitIInv'
<1> DEFINE y == where'[Worker]
<1>1. PICK z \in {"exit", "look", "wait", "done"} :
          /\ where' = [where EXCEPT ![Worker] = z]
          /\ where[Worker] = (IF z = "exit" THEN "start" ELSE IF z = "wait" THEN "look" ELSE IF z = "done" THEN "todo" ELSE where[Worker])
          /\ z = "look" => where[Worker] \in {"enqueue", "wait"}
          /\ z = "done" => todo[Worker] = <<>>
          /\ UNCHANGED <<Exits!devVars, todo>> /\ turn' = turn
  BY DEF Exits!CleanupBegins, Exits!Enqueue, Exits!MustWait, Exits!WaitWoken, Exits!Release,
     Exits!workerVars
<1>2. Worker \in Exits!Actor /\ \A t \in Task : t \in Exits!Actor /\ t # Worker
  BY DEF Exits!Actor, Exits!NetExitAssumption
<1>3. "done" \in Past /\ "todo" \in Past
      /\ {"start", "exit", "enqueue", "look", "wait"} \cap Past = {}
      /\ {"exit", "enqueue", "look", "wait", "done", "todo", "start"} \cap Busy = {}
  BY DEF Past, Busy
<1>4. todo[Worker] = <<>>
  <2>1. z = "done" \/ where[Worker] \in {"start", "look", "enqueue", "wait"}
    BY <1>1
  <2> QED
    BY <1>1, <1>2, <1>3, <2>1 DEF ExitIInv, TodoOK
<1>5. z \in {"start", "exit", "enqueue", "look", "wait"} \cup Past
      /\ (z \in Past <=> where[Worker] \in Past) /\ z \notin Busy
  <2>1. CASE z = "done"
    BY <1>1, <1>3, <2>1
  <2>2. CASE z # "done"
    BY <1>1, <1>3, <2>2
  <2> QED
    BY <2>1, <2>2
<1>6. /\ ExitListsOK' /\ PeersOK' /\ TodoOK' /\ LoopbacksOK' /\ Exits!CountsUnreported'
      /\ Exits!LoopbackOutlives'
      /\ where' \in [Exits!Actor -> {"start", "exit", "enqueue", "look", "wait"} \cup Past]
      /\ where'[Worker] = z /\ \A b \in Exits!Actor : b # Worker => where'[b] = where[b]
      /\ netOf' = netOf /\ phase' = phase /\ refs' = refs /\ unregCount' = unregCount
      /\ baseHead' = baseHead /\ todo' = todo
  BY <1>1, <1>2, <1>4, <1>5, ActorMoves
<1>7. /\ enqueued' \in BOOLEAN /\ woken' \in BOOLEAN
      /\ released' = (IF z = "done" THEN Exits!ToSet(Ending) ELSE released)
      /\ (z \in {"look", "wait"} => enqueued')
      /\ (z = "exit" => turn = 1) /\ (z = "wait" => Exits!Unregistering)
  <2>1. CASE Exits!CleanupBegins
    <3>1. z = "exit"
      BY <1>2, <1>6, <2>1 DEF Exits!CleanupBegins, ExitIInv, ExitTypeOK
    <3> QED
      BY <2>1, <3>1 DEF Exits!CleanupBegins, Exits!workerVars, ExitIInv, ExitTypeOK, ActorsOK
  <2>2. CASE Exits!Enqueue
    <3>1. z = "look"
      BY <1>2, <1>6, <2>2 DEF Exits!Enqueue, ExitIInv, ExitTypeOK
    <3> QED
      BY <2>2, <3>1 DEF Exits!Enqueue, ExitIInv, ExitTypeOK
  <2>3. CASE Exits!MustWait
    <3>1. z = "wait"
      BY <1>2, <1>6, <2>3 DEF Exits!MustWait, ExitIInv, ExitTypeOK
    <3>2. enqueued
      BY <2>3 DEF Exits!MustWait, ExitIInv, ActorsOK
    <3> QED
      BY <2>3, <3>1, <3>2 DEF Exits!MustWait, Exits!workerVars, ExitIInv, ExitTypeOK
  <2>4. CASE Exits!WaitWoken
    <3>1. z = "look"
      BY <1>2, <1>6, <2>4 DEF Exits!WaitWoken, ExitIInv, ExitTypeOK
    <3>2. enqueued
      BY <2>4 DEF Exits!WaitWoken, ExitIInv, ActorsOK
    <3> QED
      BY <2>4, <3>1, <3>2 DEF Exits!WaitWoken, ExitIInv, ExitTypeOK
  <2>5. CASE Exits!Release
    <3>1. z = "done"
      BY <1>2, <1>6, <2>5 DEF Exits!Release, ExitIInv, ExitTypeOK
    <3> QED
      BY <2>5, <3>1 DEF Exits!Release, ExitIInv, ExitTypeOK
  <2> QED
    BY <2>1, <2>2, <2>3, <2>4, <2>5
<1>8. ExitTypeOK'
  <2>1. released' \subseteq Exits!ToSet(Ending) /\ turn' = turn
    BY <1>1, <1>7 DEF ExitIInv, ExitTypeOK
  <2> QED
    BY <1>6, <1>7, <2>1 DEF ExitIInv, ExitTypeOK, Exits!ToSet
<1>9. ActorsOK'
  <2>1. \A t \in Task : where'[t] \in {"start", "todo"} \cup Busy
    BY <1>2, <1>6 DEF ExitIInv, ActorsOK
  <2>2. 1 \in 1 .. Len(Ending)
    BY DEF Exits!NetExitAssumption
  <2>3. released # {} => where[Worker] = "done"
    BY DEF ExitIInv, ActorsOK
  <2>4. z # "done" => released = {}
    BY <1>1, <2>3
  <2> QED
    BY <1>1, <1>6, <1>7, <2>1, <2>2, <2>4 DEF ActorsOK
<1>10. Exits!NoLostWakeUp'
  <2>1. z = "wait" => Exits!Unregistering'
    BY <1>6, <1>7 DEF Exits!Unregistering, Exits!ToSet
  <2> QED
    BY <1>6, <2>1 DEF Exits!NoLostWakeUp
<1> QED
  BY <1>6, <1>8, <1>9, <1>10 DEF ExitIInv

LEMMA DropRefOK ==
  ASSUME Exits!NetExitAssumption, ExitIInv, NEW d \in Exits!Dev, Exits!DropRef(d)
  PROVE  ExitIInv'
<1>1. /\ refs[d] > 0 /\ refs' = [refs EXCEPT ![d] = @ - 1]
      /\ baseHead' = baseHead /\ netOf' = netOf /\ phase' = phase /\ unregCount' = unregCount
      /\ todo' = todo /\ where' = where
      /\ turn' = turn /\ enqueued' = enqueued /\ woken' = woken /\ released' = released
  BY DEF Exits!DropRef, Exits!workerVars
<1>2. refs \in [Exits!Dev -> Nat] /\ refs' \in [Exits!Dev -> Nat] /\ \A e \in Exits!Dev : e # d
         => refs'[e] = refs[e]
  BY <1>1 DEF ExitIInv, ExitTypeOK
<1>3. ExitTypeOK'
  BY <1>1, <1>2 DEF ExitIInv, ExitTypeOK, Exits!ToSet
<1>4. ExitListsOK'
  <2>1. SUFFICES ASSUME NEW n \in Exits!Net PROVE ExitListOK(n)'
    BY DEF ExitListsOK
  <2>2. ExitListOK(n)
    BY DEF ExitIInv, ExitListsOK
  <2> QED
    BY <1>1, <2>2 DEF ExitListOK, Distinct, Exits!ToSet
<1>5. Exits!LoopbackOutlives'
  <2>1. phase[d] \notin {"destructed", "reported", "freed"}
    BY <1>1 DEF ExitIInv, Exits!LoopbackOutlives
  <2>2. \A e \in Exits!Dev : phase[e] \in {"destructed", "reported", "freed"} =>
            /\ refs'[e] = 0
            /\ Kind[e] = "loopback" =>
                   \A f \in Exits!Dev : netOf[f] = netOf[e]
                      => phase[f] \notin {"registered", "unregistering"}
    BY <1>2, <2>1 DEF ExitIInv, Exits!LoopbackOutlives
  <2> QED
    BY <1>1, <2>2 DEF Exits!LoopbackOutlives
<1>6. PeersOK' /\ ActorsOK' /\ Exits!NoLostWakeUp'
  BY <1>1 DEF ExitIInv, PeersOK, ActorsOK, Exits!NoLostWakeUp, Exits!Unregistering, Exits!ToSet
<1>7. Exits!CountsUnreported'
  BY <1>1 DEF ExitIInv, Exits!CountsUnreported
<1>8. TodoOK'
  <2>1. /\ \A a \in Exits!Actor :
             /\ Distinct(todo[a])
             /\ where[a] \in Busy => todo[a] # <<>>
             /\ where[a] \notin Busy \cup {"todo"} => todo[a] = <<>>
             /\ \A i \in 1 .. Len(todo[a]) :
                    phase[todo[a][i]] = IF i = 1 THEN HeadPhase(where[a]) ELSE "unregistering"
        /\ \A a, b \in Exits!Actor : a # b => Exits!ToSet(todo[a]) \cap Exits!ToSet(todo[b]) = {}
        /\ \A e \in Exits!Dev : phase[e] \in Unreported
              => \E a \in Exits!Actor : e \in Exits!ToSet(todo[a])
    BY DEF ExitIInv, TodoOK
  <2>2. ASSUME NEW a \in Exits!Actor
        PROVE  /\ Distinct(todo[a])'
               /\ where'[a] \in Busy => todo'[a] # <<>>
               /\ where'[a] \notin Busy \cup {"todo"} => todo'[a] = <<>>
               /\ \A i \in 1 .. Len(todo'[a]) :
                      phase'[todo'[a][i]] = IF i = 1 THEN HeadPhase(where'[a]) ELSE "unregistering"
    BY <1>1, <2>1 DEF Distinct
  <2>3. /\ \A a, b \in Exits!Actor : a # b => Exits!ToSet(todo'[a]) \cap Exits!ToSet(todo'[b]) = {}
        /\ \A e \in Exits!Dev : phase'[e] \in Unreported
              => \E a \in Exits!Actor : e \in Exits!ToSet(todo'[a])
    BY <1>1, <2>1
  <2> QED
    BY <2>2, <2>3 DEF TodoOK, Distinct, Exits!ToSet
<1>9. LoopbacksOK'
  BY <1>1 DEF ExitIInv, LoopbacksOK, LoopbackLast, Exits!ToSet
<1> QED
  BY <1>3, <1>4, <1>5, <1>6, <1>7, <1>8, <1>9 DEF ExitIInv


LEMMA PutOK ==
  ASSUME Exits!NetExitAssumption, ExitIInv, NEW a \in Exits!Actor, Exits!Put(a)
  PROVE  ExitIInv'
<1> DEFINE h == Head(todo[a])
           r == Tail(todo[a])
<1>1. /\ where[a] = "put"
      /\ phase' = [phase EXCEPT ![h] = "freed"] /\ todo' = [todo EXCEPT ![a] = r]
      /\ where' = [where EXCEPT ![a] = "todo"]
      /\ baseHead' = baseHead /\ netOf' = netOf /\ refs' = refs /\ unregCount' = unregCount
      /\ turn' = turn /\ enqueued' = enqueued /\ woken' = woken /\ released' = released
  BY DEF Exits!Put, Exits!workerVars
<1>2. todo[a] # <<>>
  BY <1>1 DEF ExitIInv, TodoOK, Busy
<1>3. /\ h = todo[a][1] /\ h \in Exits!Dev /\ phase[h] = "reported" /\ 1 \in 1 .. Len(todo[a])
      /\ \A i \in 2 .. Len(todo[a]) : todo[a][i] # h
      /\ \A b \in Exits!Actor : b # a => \A i \in 1 .. Len(todo[b]) : todo[b][i] # h
  BY <1>1, <1>2, HeadIs DEF HeadPhase
<1>4. /\ phase \in [Exits!Dev -> Exits!Phase]
      /\ where \in [Exits!Actor -> {"start", "exit", "enqueue", "look", "wait"} \cup Past]
      /\ todo \in [Exits!Actor -> Seq(Exits!Dev)]
  BY DEF ExitIInv, ExitTypeOK
<1>5. /\ r \in Seq(Exits!Dev) /\ Len(todo[a]) \in Nat /\ Len(r) = Len(todo[a]) - 1
      /\ \A i \in 1 .. Len(r) : r[i] = todo[a][i + 1] /\ i + 1 \in 2 .. Len(todo[a])
            /\ i + 1 \in 1 .. Len(todo[a])
  <2>1. todo[a] \in Seq(Exits!Dev)
    BY <1>4
  <2> QED
    BY <1>2, <2>1, TailIs
<1> HIDE DEF h, r
<1>6. /\ phase'[h] = "freed" /\ \A d \in Exits!Dev : d # h => phase'[d] = phase[d]
      /\ where'[a] = "todo" /\ \A b \in Exits!Actor : b # a => where'[b] = where[b]
      /\ todo'[a] = r /\ \A b \in Exits!Actor : b # a => todo'[b] = todo[b]
      /\ \A d \in Exits!Dev : phase'[d] = "registered" <=> phase[d] = "registered"
      /\ "freed" \in Exits!Phase /\ "todo" \in Past
  BY <1>1, <1>3, <1>4 DEF Exits!Phase, Past
<1>7. /\ phase' \in [Exits!Dev -> Exits!Phase] /\ todo' \in [Exits!Actor -> Seq(Exits!Dev)]
      /\ where' \in [Exits!Actor -> {"start", "exit", "enqueue", "look", "wait"} \cup Past]
  BY <1>1, <1>3, <1>4, <1>5, <1>6
<1>8. ExitTypeOK'
  BY <1>1, <1>7 DEF ExitIInv, ExitTypeOK, Exits!ToSet
<1>9. ExitListsOK'
  <2>1. SUFFICES ASSUME NEW n \in Exits!Net PROVE ExitListOK(n)'
    BY DEF ExitListsOK
  <2>2. ExitListOK(n)
    BY DEF ExitIInv, ExitListsOK
  <2> QED
    BY <1>1, <1>6, <2>2 DEF ExitListOK, Distinct, Exits!ToSet
<1>10. PeersOK'
  <2>1. \A d \in Exits!Dev : Peer[d] \in Exits!Dev
           /\ (phase[d] = "registered" => phase[Peer[d]] = "registered")
    BY DEF ExitIInv, PeersOK, Exits!NetExitAssumption
  <2> QED
    BY <1>6, <2>1 DEF PeersOK
<1>11. Worker \in Exits!Actor /\ \A t \in Task : t \in Exits!Actor /\ t # Worker
  BY DEF Exits!Actor, Exits!NetExitAssumption
<1>12. where[Worker] # "done" \/ a # Worker
  BY <1>1
<1>13. ActorsOK'
  <2>1. /\ \A t \in Task : where[t] \in {"start", "todo"} \cup Busy
        /\ where[Worker] = "start" => turn = 1
        /\ where[Worker] = "exit" => turn \in 1 .. Len(Ending)
        /\ where[Worker] \in {"look", "wait"} => enqueued
        /\ released # {} => where[Worker] = "done"
    BY DEF ExitIInv, ActorsOK
  <2>2. \A t \in Task : where'[t] \in {"start", "todo"} \cup Busy
    BY <1>6, <1>11, <2>1
  <2>3. where'[Worker] = where[Worker] \/ (where'[Worker] = "todo" /\ where[Worker] = "put")
    BY <1>1, <1>6, <1>11
  <2> QED
    BY <1>1, <2>1, <2>2, <2>3 DEF ActorsOK
<1>14. \A b \in Exits!Actor : \A i \in 1 .. Len(todo[b]) : todo[b][i] \in Exits!Dev
  BY <1>4
<1>15. TodoOK'
  <2>1. /\ \A b \in Exits!Actor :
             /\ Distinct(todo[b])
             /\ where[b] \in Busy => todo[b] # <<>>
             /\ where[b] \notin Busy \cup {"todo"} => todo[b] = <<>>
             /\ \A i \in 1 .. Len(todo[b]) :
                    phase[todo[b][i]] = IF i = 1 THEN HeadPhase(where[b]) ELSE "unregistering"
        /\ \A b, c \in Exits!Actor : b # c => Exits!ToSet(todo[b]) \cap Exits!ToSet(todo[c]) = {}
        /\ \A e \in Exits!Dev : phase[e] \in Unreported
              => \E b \in Exits!Actor : e \in Exits!ToSet(todo[b])
    BY DEF ExitIInv, TodoOK
  <2>2. ASSUME NEW b \in Exits!Actor
        PROVE  /\ Distinct(todo'[b])
               /\ where'[b] \in Busy => todo'[b] # <<>>
               /\ where'[b] \notin Busy \cup {"todo"} => todo'[b] = <<>>
               /\ \A i \in 1 .. Len(todo'[b]) :
                      phase'[todo'[b][i]] = IF i = 1 THEN HeadPhase(where'[b]) ELSE "unregistering"
    <3>1. CASE b = a
      <4>1. Distinct(r)
        <5>1. Distinct(todo[a])
          BY <2>1
        <5>2. \A i, j \in 1 .. Len(r) : i # j => i + 1 # j + 1
          BY <1>5
        <5> QED
          BY <1>5, <5>1, <5>2 DEF Distinct
      <4>2. "todo" \notin Busy /\ HeadPhase("todo") = "unregistering"
        BY DEF Busy, HeadPhase
      <4>3. \A i \in 1 .. Len(r) : phase'[r[i]] = "unregistering"
        <5>1. SUFFICES ASSUME NEW i \in 1 .. Len(r) PROVE phase'[r[i]] = "unregistering"
          OBVIOUS
        <5>2. r[i] = todo[a][i + 1] /\ i + 1 \in 1 .. Len(todo[a]) /\ i + 1 \in 2 .. Len(todo[a])
              /\ i + 1 # 1
          BY <1>5
        <5>3. phase[todo[a][i + 1]] = "unregistering"
          BY <2>1, <5>2
        <5>4. todo[a][i + 1] # h /\ todo[a][i + 1] \in Exits!Dev
          BY <1>3, <1>14, <5>2
        <5> QED
          BY <1>6, <5>2, <5>3, <5>4
      <4> QED
        BY <1>6, <3>1, <4>1, <4>2, <4>3
    <3>2. CASE b # a
      <4>1. todo'[b] = todo[b] /\ where'[b] = where[b]
            /\ \A i \in 1 .. Len(todo[b]) : phase'[todo[b][i]] = phase[todo[b][i]]
        BY <1>3, <1>6, <1>14, <3>2
      <4> QED
        BY <2>1, <4>1
    <3> QED
      BY <3>1, <3>2
  <2>3. Exits!ToSet(r) \subseteq Exits!ToSet(todo[a])
    BY <1>5 DEF Exits!ToSet
  <2>4. \A b, c \in Exits!Actor : b # c => Exits!ToSet(todo'[b]) \cap Exits!ToSet(todo'[c]) = {}
    <3>1. \A b \in Exits!Actor : Exits!ToSet(todo'[b]) \subseteq Exits!ToSet(todo[b])
      BY <1>6, <2>3
    <3> QED
      BY <2>1, <3>1
  <2>5. ASSUME NEW e \in Exits!Dev, phase'[e] \in Unreported
        PROVE  \E b \in Exits!Actor : e \in Exits!ToSet(todo'[b])
    <3>1. e # h /\ phase[e] \in Unreported
      BY <1>6, <2>5 DEF Unreported
    <3>2. PICK b \in Exits!Actor : e \in Exits!ToSet(todo[b])
      BY <2>1, <3>1
    <3>3. CASE b = a
      <4>1. PICK i \in 1 .. Len(todo[a]) : todo[a][i] = e
        BY <3>2, <3>3 DEF Exits!ToSet
      <4>2. i # 1
        BY <1>3, <3>1, <4>1
      <4>3. i - 1 \in 1 .. Len(r) /\ (i - 1) + 1 = i
        BY <1>5, <4>2
      <4>4. r[i - 1] = e
        BY <1>5, <4>1, <4>3
      <4>5. e \in Exits!ToSet(r)
        BY <4>3, <4>4 DEF Exits!ToSet
      <4> QED
        BY <1>6, <4>5
    <3>4. CASE b # a
      BY <1>6, <3>2, <3>4
    <3> QED
      BY <3>3, <3>4
  <2> QED
    BY <2>2, <2>4, <2>5 DEF TodoOK, Distinct, Exits!ToSet
<1>16. LoopbacksOK'
  <2>1. /\ \A d \in Exits!Dev : Kind[d] = "loopback" /\ phase[d] # "registered" =>
               where[Worker] \in Past /\ netOf[d] \in Exits!ToSet(Ending)
        /\ \A t \in Task : \A d \in Exits!ToSet(todo[t]) : Kind[d] # "loopback"
        /\ where[Worker] \in Past => \A d \in Exits!Dev : netOf[d] \in Exits!ToSet(Ending) =>
                                      phase[d] \in Reported \/ d \in Exits!ToSet(todo[Worker])
        /\ LoopbackLast(todo[Worker])
    BY DEF ExitIInv, LoopbacksOK
  <2>2. where'[Worker] \in Past <=> where[Worker] \in Past
    <3>1. "put" \in Past /\ "todo" \in Past
      BY DEF Past, Busy
    <3> QED
      BY <1>1, <1>6, <1>11, <3>1
  <2>3. \A b \in Exits!Actor : \A d \in Exits!ToSet(todo'[b]) : d \in Exits!ToSet(todo[b])
    <3>1. Exits!ToSet(r) \subseteq Exits!ToSet(todo[a])
      BY <1>5 DEF Exits!ToSet
    <3> QED
      BY <1>6, <3>1
  <2>4. \A t \in Task : \A d \in Exits!ToSet(todo'[t]) : Kind[d] # "loopback"
    BY <1>11, <2>1, <2>3
  <2>5. \A d \in Exits!Dev : phase[d] \in Reported => phase'[d] \in Reported
    BY <1>6 DEF Reported
  <2>6. ASSUME NEW d \in Exits!ToSet(todo[Worker]), d \in Exits!Dev, phase'[d] \notin Reported
        PROVE  d \in Exits!ToSet(todo'[Worker])
    <3>1. CASE a = Worker
      <4>1. d # h
        BY <1>6, <2>6 DEF Reported
      <4>2. PICK i \in 1 .. Len(todo[a]) : todo[a][i] = d
        BY <3>1 DEF Exits!ToSet
      <4>3. i # 1
        BY <1>3, <4>1, <4>2
      <4>4. i - 1 \in 1 .. Len(r) /\ (i - 1) + 1 = i
        BY <1>5, <4>3
      <4>5. r[i - 1] = d
        BY <1>5, <4>2, <4>4
      <4> QED
        BY <1>6, <3>1, <4>4, <4>5 DEF Exits!ToSet
    <3>2. CASE a # Worker
      BY <1>6, <1>11, <3>2
    <3> QED
      BY <3>1, <3>2
  <2>7. LoopbackLast(todo'[Worker])
    <3>1. CASE a = Worker
      <4>1. LoopbackLast(todo[a]) /\ todo'[Worker] = r
        BY <1>6, <2>1, <3>1
      <4>2. ASSUME NEW i \in 1 .. Len(r), NEW j \in 1 .. Len(r), i < j, Kind[r[i]] = "loopback"
            PROVE  netOf[r[j]] # netOf[r[i]]
        <5>1. /\ i + 1 \in 1 .. Len(todo[a]) /\ j + 1 \in 1 .. Len(todo[a]) /\ i + 1 < j + 1
              /\ todo[a][i + 1] = r[i] /\ todo[a][j + 1] = r[j]
          BY <1>3, <1>5, <4>2
        <5> QED
          BY <4>1, <4>2, <5>1 DEF LoopbackLast
      <4>3. LoopbackLast(r)
        BY <4>2 DEF LoopbackLast
      <4> QED
        BY <4>1, <4>3
    <3>2. CASE a # Worker
      BY <1>6, <1>11, <2>1, <3>2
    <3> QED
      BY <3>1, <3>2
  <2>8. \A d \in Exits!Dev : Kind[d] = "loopback" /\ phase'[d] # "registered" =>
               where'[Worker] \in Past /\ netOf'[d] \in Exits!ToSet(Ending)
    BY <1>1, <1>6, <2>1, <2>2
  <2>9. where'[Worker] \in Past => \A d \in Exits!Dev : netOf'[d] \in Exits!ToSet(Ending) =>
                                      phase'[d] \in Reported \/ d \in Exits!ToSet(todo'[Worker])
    BY <1>1, <2>1, <2>2, <2>5, <2>6
  <2> QED
    BY <1>1, <2>4, <2>7, <2>8, <2>9 DEF LoopbacksOK, LoopbackLast, Exits!ToSet
<1>17. Exits!CountsUnreported'
  <2>1. ASSUME NEW n \in Exits!Net
        PROVE  {d \in Exits!Dev : netOf[d] = n /\ phase'[d] \in {"unregistering", "unregistered", "destructed"}}
                 = {d \in Exits!Dev : netOf[d] = n /\ phase[d] \in {"unregistering", "unregistered", "destructed"}}
    BY <1>3, <1>6
  <2> QED
    BY <1>1, <2>1 DEF ExitIInv, Exits!CountsUnreported
<1>18. Exits!LoopbackOutlives'
  <2>1. \A d \in Exits!Dev : phase'[d] \in {"destructed", "reported", "freed"}
           => phase[d] \in {"destructed", "reported", "freed"}
    BY <1>3, <1>6
  <2>2. \A d \in Exits!Dev : phase[d] \notin {"registered", "unregistering"}
           => phase'[d] \notin {"registered", "unregistering"}
    BY <1>6
  <2> QED
    BY <1>1, <2>1, <2>2 DEF ExitIInv, Exits!LoopbackOutlives
<1>19. Exits!NoLostWakeUp'
  <2>1. where'[Worker] = "wait" => where[Worker] = "wait"
    BY <1>6, <1>11
  <2>2. \A t \in Task : where[t] = "wake" => where'[t] = "wake"
    BY <1>1, <1>6, <1>11
  <2> QED
    BY <1>1, <2>1, <2>2 DEF ExitIInv, Exits!NoLostWakeUp, Exits!Unregistering, Exits!ToSet
<1> QED
  BY <1>8, <1>9, <1>10, <1>13, <1>15, <1>16, <1>17, <1>18, <1>19 DEF ExitIInv

LEMMA DeleteOK ==
  ASSUME Exits!NetExitAssumption, ExitIInv, NEW t \in Task, NEW d \in Exits!Dev, Exits!Delete(t, d)
  PROVE  ExitIInv'
<1> DEFINE q == Exits!Queued(<<>>, d)
<1>1. /\ where[t] = "start" /\ phase[d] = "registered" /\ Kind[d] # "loopback"
      /\ Exits!Unregister(t, q) /\ UNCHANGED <<netOf, refs, Exits!workerVars>>
  BY DEF Exits!Delete
<1>2. t \in Exits!Actor /\ Worker \in Exits!Actor /\ t # Worker
      /\ \A u \in Task : u \in Exits!Actor /\ u # Worker
  BY DEF Exits!Actor, Exits!NetExitAssumption
<1>3. todo[t] = <<>>
  BY <1>1, <1>2 DEF ExitIInv, TodoOK, Busy
<1>4. GoodQueue(q) /\ Exits!ToSet(q) = {d, Peer[d]}
  <2>1. GoodQueue(<<>>) /\ Exits!ToSet(<<>>) = {}
    BY DEF GoodQueue, Distinct, Exits!ToSet
  <2>2. PeersOK
    BY DEF ExitIInv
  <2>3. GoodQueue(q) /\ Exits!ToSet(q) = Exits!ToSet(<<>>) \cup {d, Peer[d]}
    BY <1>1, <2>1, <2>2, QueuedIs
  <2> QED
    BY <2>1, <2>3
<1> HIDE DEF q
<1>5. /\ ExitListsOK' /\ PeersOK' /\ TodoOK' /\ Exits!CountsUnreported' /\ Exits!LoopbackOutlives'
      /\ phase' \in [Exits!Dev -> Exits!Phase] /\ unregCount' \in [Exits!Net -> Nat]
      /\ todo' \in [Exits!Actor -> Seq(Exits!Dev)]
      /\ DOMAIN baseHead' = Exits!Net
      /\ \A n \in Exits!Net : unregCount'[n] >= unregCount[n]
  BY <1>1, <1>2, <1>3, <1>4, LeavingKeeps
<1>6. /\ phase' = [e \in Exits!Dev |-> IF e \in Exits!ToSet(q) THEN "unregistering" ELSE phase[e]]
      /\ todo' = [todo EXCEPT ![t] = q] /\ where' = [where EXCEPT ![t] = "todo"]
      /\ netOf' = netOf /\ refs' = refs
      /\ turn' = turn /\ enqueued' = enqueued /\ woken' = woken /\ released' = released
  BY <1>1 DEF Exits!Unregister, Exits!workerVars
<1>7. /\ todo \in [Exits!Actor -> Seq(Exits!Dev)]
      /\ where \in [Exits!Actor -> {"start", "exit", "enqueue", "look", "wait"} \cup Past]
  BY DEF ExitIInv, ExitTypeOK
<1>8. /\ todo'[t] = q /\ \A b \in Exits!Actor : b # t => todo'[b] = todo[b]
      /\ where'[t] = "todo" /\ \A b \in Exits!Actor : b # t => where'[b] = where[b]
      /\ where' \in [Exits!Actor -> {"start", "exit", "enqueue", "look", "wait"} \cup Past]
  BY <1>2, <1>6, <1>7 DEF Past
<1>9. ExitTypeOK'
  BY <1>5, <1>6, <1>8 DEF ExitIInv, ExitTypeOK, Exits!ToSet
<1>10. ActorsOK'
  BY <1>2, <1>6, <1>8 DEF ExitIInv, ActorsOK
<1>11. Kind[Peer[d]] # "loopback"
  <2>1. Peer[d] \in Exits!Dev /\ Peer[Peer[d]] = d
        /\ (Kind[Peer[d]] = "loopback" => Peer[Peer[d]] = Peer[d])
    BY DEF Exits!NetExitAssumption
  <2> QED
    BY <1>1, <2>1
<1>12. LoopbacksOK'
  <2>1. /\ \A e \in Exits!Dev : Kind[e] = "loopback" /\ phase[e] # "registered" =>
               where[Worker] \in Past /\ netOf[e] \in Exits!ToSet(Ending)
        /\ \A u \in Task : \A e \in Exits!ToSet(todo[u]) : Kind[e] # "loopback"
        /\ where[Worker] \in Past => \A e \in Exits!Dev : netOf[e] \in Exits!ToSet(Ending) =>
                                      phase[e] \in Reported \/ e \in Exits!ToSet(todo[Worker])
        /\ LoopbackLast(todo[Worker])
    BY DEF ExitIInv, LoopbacksOK
  <2>2. todo'[Worker] = todo[Worker] /\ where'[Worker] = where[Worker]
    BY <1>2, <1>8
  <2>3. \A e \in Exits!Dev : Kind[e] = "loopback" /\ phase'[e] # "registered" =>
               where'[Worker] \in Past /\ netOf'[e] \in Exits!ToSet(Ending)
    BY <1>1, <1>4, <1>6, <1>11, <2>1, <2>2
  <2>4. \A u \in Task : \A e \in Exits!ToSet(todo'[u]) : Kind[e] # "loopback"
    BY <1>1, <1>2, <1>4, <1>8, <1>11, <2>1
  <2>5. phase[d] \notin Reported /\ phase[Peer[d]] \notin Reported
    BY <1>1, <1>4 DEF GoodQueue, Reported
  <2>6. where'[Worker] \in Past => \A e \in Exits!Dev : netOf'[e] \in Exits!ToSet(Ending) =>
                                      phase'[e] \in Reported \/ e \in Exits!ToSet(todo'[Worker])
    BY <1>4, <1>6, <2>1, <2>2, <2>5
  <2> QED
    BY <1>6, <2>1, <2>2, <2>3, <2>4, <2>6 DEF LoopbacksOK, LoopbackLast, Exits!ToSet
<1>13. Exits!NoLostWakeUp'
  <2>1. where'[Worker] = "wait" => where[Worker] = "wait"
    BY <1>2, <1>8
  <2>2. \A u \in Task : where[u] = "wake" => where'[u] = "wake"
    BY <1>1, <1>2, <1>8
  <2>3. Exits!Unregistering => Exits!Unregistering'
    <3>1. SUFFICES ASSUME NEW n \in Exits!ToSet(Ending),
                          unregCount[n] > 0 PROVE \E m \in Exits!ToSet(Ending) : unregCount'[m] > 0
      BY DEF Exits!Unregistering, Exits!ToSet
    <3>2. n \in Exits!Net
      BY DEF Exits!ToSet, Exits!NetExitAssumption
    <3>3. unregCount[n] \in Nat /\ unregCount'[n] \in Nat /\ unregCount'[n] >= unregCount[n]
      BY <1>5, <3>2 DEF ExitIInv, ExitTypeOK
    <3>4. unregCount'[n] > 0
      BY <3>1, <3>3
    <3> QED
      BY <3>4
  <2> QED
    BY <1>6, <2>1, <2>2, <2>3 DEF ExitIInv, Exits!NoLostWakeUp
<1> QED
  BY <1>5, <1>9, <1>10, <1>12, <1>13 DEF ExitIInv


LEMMA BatchOK ==
  ASSUME Exits!NetExitAssumption, ExitIInv, Exits!DefaultDeviceExitBatch
  PROVE  ExitIInv'
<1> DEFINE q == Exits!KillList
<1>1. /\ where[Worker] = "look" /\ ~Exits!Unregistering /\ enqueued' = FALSE
      /\ Exits!Unregister(Worker, q) /\ netOf' = netOf /\ refs' = refs
      /\ turn' = turn /\ woken' = woken /\ released' = released
  BY DEF Exits!DefaultDeviceExitBatch
<1>2. Worker \in Exits!Actor /\ \A t \in Task : t \in Exits!Actor /\ t # Worker
  BY DEF Exits!Actor, Exits!NetExitAssumption
<1>3. todo[Worker] = <<>> /\ "look" \notin Past
  BY <1>1, <1>2 DEF ExitIInv, TodoOK, Busy, Past
<1>4. Ready(q, Exits!ToSet(Ending))
  BY KillListReady DEF ExitIInv, ExitListsOK
<1> HIDE DEF q
<1>5. /\ GoodQueue(q) /\ LoopbackLast(q)
      /\ \A d \in Exits!Dev : netOf[d] \in Exits!ToSet(Ending) /\ phase[d] = "registered"
            => d \in Exits!ToSet(q)
      /\ \A d \in Exits!ToSet(q) : Kind[d] = "loopback" => netOf[d] \in Exits!ToSet(Ending)
      /\ \A d \in Exits!ToSet(q) : phase[d] = "registered"
  BY <1>4 DEF Ready, GoodQueue
<1>6. /\ ExitListsOK' /\ PeersOK' /\ TodoOK' /\ Exits!CountsUnreported' /\ Exits!LoopbackOutlives'
      /\ phase' \in [Exits!Dev -> Exits!Phase] /\ unregCount' \in [Exits!Net -> Nat]
      /\ todo' \in [Exits!Actor -> Seq(Exits!Dev)]
      /\ DOMAIN baseHead' = Exits!Net
  BY <1>1, <1>2, <1>3, <1>5, LeavingKeeps
<1>7. /\ phase' = [e \in Exits!Dev |-> IF e \in Exits!ToSet(q) THEN "unregistering" ELSE phase[e]]
      /\ todo' = [todo EXCEPT ![Worker] = q] /\ where' = [where EXCEPT ![Worker] = "todo"]
  BY <1>1 DEF Exits!Unregister
<1>8. /\ todo \in [Exits!Actor -> Seq(Exits!Dev)]
      /\ where \in [Exits!Actor -> {"start", "exit", "enqueue", "look", "wait"} \cup Past]
  BY DEF ExitIInv, ExitTypeOK
<1>9. /\ todo'[Worker] = q /\ \A b \in Exits!Actor : b # Worker => todo'[b] = todo[b]
      /\ where'[Worker] = "todo" /\ \A b \in Exits!Actor : b # Worker => where'[b] = where[b]
      /\ where' \in [Exits!Actor -> {"start", "exit", "enqueue", "look", "wait"} \cup Past]
      /\ "todo" \in Past
  BY <1>2, <1>7, <1>8 DEF Past
<1>10. ExitTypeOK'
  <2>1. enqueued' \in BOOLEAN /\ woken' \in BOOLEAN
    BY <1>1 DEF ExitIInv, ExitTypeOK
  <2> QED
    BY <1>1, <1>6, <1>9, <2>1 DEF ExitIInv, ExitTypeOK, Exits!ToSet
<1>11. ActorsOK'
  <2>1. released = {}
    BY <1>1 DEF ExitIInv, ActorsOK
  <2>2. \A t \in Task : where'[t] \in {"start", "todo"} \cup Busy
    BY <1>2, <1>9 DEF ExitIInv, ActorsOK
  <2> QED
    BY <1>1, <1>9, <2>1, <2>2 DEF ActorsOK
<1>12. LoopbacksOK'
  <2>1. /\ \A e \in Exits!Dev : Kind[e] = "loopback" => phase[e] = "registered"
        /\ \A u \in Task : \A e \in Exits!ToSet(todo[u]) : Kind[e] # "loopback"
    BY <1>1, <1>3 DEF ExitIInv, LoopbacksOK
  <2>2. \A e \in Exits!Dev : Kind[e] = "loopback" /\ phase'[e] # "registered" =>
               where'[Worker] \in Past /\ netOf'[e] \in Exits!ToSet(Ending)
    BY <1>1, <1>5, <1>7, <1>9, <2>1
  <2>3. \A u \in Task : \A e \in Exits!ToSet(todo'[u]) : Kind[e] # "loopback"
    BY <1>2, <1>9, <2>1
  <2>4. ASSUME NEW e \in Exits!Dev, netOf[e] \in Exits!ToSet(Ending), phase[e] # "registered"
        PROVE  phase[e] \in Reported
    <3> DEFINE O == {d \in Exits!Dev : netOf[d] = netOf[e] /\ phase[d] \in {"unregistering", "unregistered", "destructed"}}
    <3>1. netOf[e] \in Exits!Net /\ phase[e] \in Exits!Phase /\ unregCount[netOf[e]] \in Nat
      BY DEF ExitIInv, ExitTypeOK
    <3>2. unregCount[netOf[e]] = Cardinality(O)
      BY <3>1, ExitCardinality DEF ExitIInv, Exits!CountsUnreported
    <3>3. ~ (unregCount[netOf[e]] > 0)
      BY <1>1, <2>4 DEF Exits!Unregistering
    <3>4. O \subseteq Exits!Dev /\ IsFiniteSet(Exits!Dev)
      BY ExitCardinality DEF Exits!NetExitAssumption
    <3>5. e \notin O
      <4> HIDE DEF O
      <4>1. IsFiniteSet(O) /\ Cardinality(O) = 0
        BY <3>1, <3>2, <3>3, <3>4, FS_Subset
      <4> QED
        BY <4>1, FS_EmptySet
    <3> QED
      BY <2>4, <3>1, <3>5 DEF Reported, Exits!Phase
  <2>5. ASSUME NEW e \in Exits!Dev, netOf[e] \in Exits!ToSet(Ending)
        PROVE  phase'[e] \in Reported \/ e \in Exits!ToSet(todo'[Worker])
    <3>1. CASE phase[e] = "registered"
      BY <1>5, <1>9, <2>5, <3>1
    <3>2. CASE phase[e] # "registered"
      BY <1>5, <1>7, <2>4, <2>5, <3>2
    <3> QED
      BY <3>1, <3>2
  <2> QED
    BY <1>1, <1>5, <1>9, <2>2, <2>3, <2>5 DEF LoopbacksOK, LoopbackLast, Exits!ToSet
<1>13. Exits!NoLostWakeUp'
  BY <1>9 DEF Exits!NoLostWakeUp
<1> QED
  BY <1>6, <1>10, <1>11, <1>12, <1>13 DEF ExitIInv

\* The list of a namespace after a step
LEMMA ListNext ==
  ASSUME NEW n, NEW b \in Seq(Exits!Dev), baseHead'[n] = b, Distinct(b),
         \A d \in Exits!Dev : d \in Exits!ToSet(b) <=> netOf'[d] = n /\ phase'[d] = "registered",
         \A i \in 1 .. Len(b) : Kind[b[i]] = "loopback" => i = 1
  PROVE  ExitListOK(n)'
BY DEF ExitListOK, Distinct, Exits!ToSet

LEMMA DeviceExitOK ==
  ASSUME Exits!NetExitAssumption, ExitIInv, Exits!DefaultDeviceExit
  PROVE  ExitIInv'
<1>n. PICK n : n = Ending[turn]
  OBVIOUS
<1> DEFINE K == {d \in Exits!Dev : Kind[d] = "real"}
           L == Exits!Dev \ K
           s == baseHead[n]
           p == Exits!Only(s, K)
           r == Exits!Only(s, L)
<1>1. /\ where[Worker] = "exit"
      /\ baseHead' = [baseHead EXCEPT ![n] = Exits!Only(@, L), ![HomeNet] = @ \o p]
      /\ netOf' = [d \in Exits!Dev |-> IF d \in Exits!ToSet(p) THEN HomeNet ELSE netOf[d]]
      /\ Exits!TurnToLoopback(p)
      /\ turn' = turn + 1
      /\ where' = [where EXCEPT ![Worker] = IF turn = Len(Ending) THEN "enqueue" ELSE @]
      /\ phase' = phase /\ unregCount' = unregCount /\ todo' = todo
      /\ enqueued' = enqueued /\ woken' = woken /\ released' = released
  BY <1>n DEF Exits!DefaultDeviceExit
<1>2. Worker \in Exits!Actor /\ \A t \in Task : t \in Exits!Actor /\ t # Worker
  BY DEF Exits!Actor, Exits!NetExitAssumption
<1>3. todo[Worker] = <<>> /\ "exit" \notin Past /\ "enqueue" \notin Past /\ released = {}
      /\ turn \in 1 .. Len(Ending) /\ Len(Ending) \in Nat
  BY <1>1, <1>2 DEF ExitIInv, TodoOK, ActorsOK, Busy, Past, Exits!NetExitAssumption
<1>4. n \in Exits!Net /\ HomeNet \in Exits!Net /\ n # HomeNet
  BY <1>n, <1>3 DEF Exits!NetExitAssumption, Exits!ToSet
<1>5. /\ s \in Seq(Exits!Dev) /\ Distinct(s)
      /\ \A d \in Exits!Dev : d \in Exits!ToSet(s) <=> netOf[d] = n /\ phase[d] = "registered"
      /\ \A i \in 1 .. Len(s) : Kind[s[i]] = "loopback" => i = 1
  BY <1>4 DEF ExitIInv, ExitListsOK, ExitListOK
<1>6. /\ baseHead[HomeNet] \in Seq(Exits!Dev) /\ Distinct(baseHead[HomeNet])
      /\ \A d \in Exits!Dev : d \in Exits!ToSet(baseHead[HomeNet]) <=> netOf[d] = HomeNet
            /\ phase[d] = "registered"
      /\ \A i \in 1 .. Len(baseHead[HomeNet]) : Kind[baseHead[HomeNet][i]] = "loopback" => i = 1
  BY <1>4 DEF ExitIInv, ExitListsOK, ExitListOK
<1>7. DOMAIN baseHead = Exits!Net
  BY DEF ExitIInv, ExitTypeOK
<1>8. /\ baseHead'[n] = r /\ baseHead'[HomeNet] = baseHead[HomeNet] \o p
      /\ DOMAIN baseHead' = Exits!Net
      /\ \A m \in Exits!Net : m # n /\ m # HomeNet => baseHead'[m] = baseHead[m]
  BY <1>1, <1>4, <1>7
<1> HIDE DEF s
<1>9. /\ p \in Seq(Exits!Dev) /\ Exits!ToSet(p) = Exits!ToSet(s) \cap K /\ Distinct(p)
  <2> HIDE DEF K
  <2> QED
    BY <1>5, ExitOnlyIs, ExitOnlyDistinct
<1>10. /\ r \in Seq(Exits!Dev) /\ Exits!ToSet(r) = Exits!ToSet(s) \cap L /\ Distinct(r)
       /\ \A i, j \in 1 .. Len(r) : i < j =>
              \E k, l \in 1 .. Len(s) : k < l /\ r[i] = s[k] /\ r[j] = s[l]
  <2> HIDE DEF L
  <2> QED
    BY <1>5, ExitOnlyIs, ExitOnlyDistinct
<1> HIDE DEF p, r
<1>11. \A d \in Exits!Dev : d \in Exits!ToSet(p) <=> netOf[d] = n /\ phase[d] = "registered"
          /\ Kind[d] = "real"
  BY <1>5, <1>9
<1>12. netOf \in [Exits!Dev -> Exits!Net] /\ netOf' \in [Exits!Dev -> Exits!Net]
  BY <1>1, <1>4 DEF ExitIInv, ExitTypeOK
<1>13. \A d \in Exits!Dev : netOf'[d] = IF d \in Exits!ToSet(p) THEN HomeNet ELSE netOf[d]
  BY <1>1
<1>14. \A d \in Exits!Dev : phase[d] # "registered" => netOf'[d] = netOf[d]
  BY <1>11, <1>13
<1>15. ExitListOK(n)'
  <2>1. \A d \in Exits!Dev : d \in Exits!ToSet(r) <=> netOf'[d] = n /\ phase[d] = "registered"
    BY <1>4, <1>5, <1>10, <1>11, <1>13
  <2>2. ASSUME NEW i \in 1 .. Len(r), Kind[r[i]] = "loopback" PROVE i = 1
    <3>1. SUFFICES ASSUME i # 1 PROVE FALSE
      OBVIOUS
    <3>2. 1 \in 1 .. Len(r) /\ 1 < i
      BY <1>10, <3>1
    <3>3. PICK k \in 1 .. Len(s), l \in 1 .. Len(s) : k < l /\ r[i] = s[l]
      BY <1>10, <3>2
    <3>4. l # 1
      BY <1>5, <3>3
    <3> QED
      BY <1>5, <2>2, <3>3, <3>4
  <2>3. \A d \in Exits!Dev : d \in Exits!ToSet(r) <=> netOf'[d] = n /\ phase'[d] = "registered"
    BY <1>1, <2>1
  <2> QED
    BY <1>8, <1>10, <2>2, <2>3, ListNext
<1>16. ExitListOK(HomeNet)'
  <2> DEFINE b == baseHead[HomeNet]
             c == b \o p
  <2>1. b \in Seq(Exits!Dev) /\ p \in Seq(Exits!Dev) /\ Len(b) \in Nat /\ Len(p) \in Nat
    BY <1>6, <1>9
  <2>2. Exits!ToSet(b) \cap Exits!ToSet(p) = {}
    <3>1. \A d \in Exits!ToSet(p) : d \in Exits!Dev
      BY <1>9 DEF Exits!ToSet
    <3> QED
      BY <1>4, <1>6, <1>11, <3>1
  <2> HIDE DEF b
  <2>3. c \in Seq(Exits!Dev) /\ Len(c) = Len(b) + Len(p)
        /\ \A i \in 1 .. Len(c) : c[i] = IF i <= Len(b) THEN b[i] ELSE p[i - Len(b)]
    BY <2>1
  <2>4. \A i \in 1 .. Len(c) : i > Len(b) => i - Len(b) \in 1 .. Len(p)
    BY <2>1, <2>3
  <2>5. \A i \in 1 .. Len(c) : i <= Len(b) => i \in 1 .. Len(b)
    BY <2>1, <2>3
  <2>6. \A i \in 1 .. Len(b) : i \in 1 .. Len(c) /\ c[i] = b[i]
    BY <2>1, <2>3
  <2>7. \A i \in 1 .. Len(p) : i + Len(b) \in 1 .. Len(c) /\ c[i + Len(b)] = p[i]
    <3>1. \A i \in 1 .. Len(p) : i + Len(b) \in 1 .. Len(c) /\ ~ (i + Len(b) <= Len(b))
             /\ (i + Len(b)) - Len(b) = i
      BY <2>1, <2>3
    <3> QED
      BY <2>3, <3>1
  <2> HIDE DEF c
  <2>8. Exits!ToSet(c) = Exits!ToSet(b) \cup Exits!ToSet(p)
    <3>1. Exits!ToSet(c) \subseteq Exits!ToSet(b) \cup Exits!ToSet(p)
      <4>1. SUFFICES ASSUME NEW i \in 1 .. Len(c) PROVE c[i] \in Exits!ToSet(b) \cup Exits!ToSet(p)
        BY DEF Exits!ToSet
      <4>2. CASE i <= Len(b)
        BY <2>3, <2>5, <4>2 DEF Exits!ToSet
      <4>3. CASE ~ (i <= Len(b))
        <5>1. i > Len(b)
          BY <2>1, <2>3, <4>3
        <5> QED
          BY <2>3, <2>4, <4>3, <5>1 DEF Exits!ToSet
      <4> QED
        BY <4>2, <4>3
    <3>2. Exits!ToSet(b) \subseteq Exits!ToSet(c)
      BY <2>6 DEF Exits!ToSet
    <3>3. Exits!ToSet(p) \subseteq Exits!ToSet(c)
      <4>1. SUFFICES ASSUME NEW i \in 1 .. Len(p) PROVE p[i] \in Exits!ToSet(c)
        BY DEF Exits!ToSet
      <4>2. i + Len(b) \in 1 .. Len(c) /\ c[i + Len(b)] = p[i]
        BY <2>7
      <4> QED
        BY <4>2 DEF Exits!ToSet
    <3> QED
      BY <3>1, <3>2, <3>3
  <2>9. Distinct(c)
    <3>1. SUFFICES ASSUME NEW i \in 1 .. Len(c), NEW j \in 1 .. Len(c), i # j PROVE c[i] # c[j]
      BY DEF Distinct
    <3>2. \A k \in 1 .. Len(b) : b[k] \in Exits!ToSet(b)
      BY DEF Exits!ToSet
    <3>3. \A k \in 1 .. Len(p) : p[k] \in Exits!ToSet(p)
      BY DEF Exits!ToSet
    <3>4. CASE i <= Len(b) /\ j <= Len(b)
      <4>1. i \in 1 .. Len(b) /\ j \in 1 .. Len(b) /\ c[i] = b[i] /\ c[j] = b[j]
        BY <2>5, <2>6, <3>4
      <4> QED
        BY <1>6, <3>1, <4>1 DEF Distinct, b
    <3>5. CASE i <= Len(b) /\ ~ (j <= Len(b))
      <4>1. i \in 1 .. Len(b) /\ j - Len(b) \in 1 .. Len(p)
        BY <2>1, <2>3, <2>4, <2>5, <3>5
      <4> QED
        BY <2>2, <2>3, <3>2, <3>3, <3>5, <4>1
    <3>6. CASE ~ (i <= Len(b)) /\ j <= Len(b)
      <4>1. j \in 1 .. Len(b) /\ i - Len(b) \in 1 .. Len(p)
        BY <2>1, <2>3, <2>4, <2>5, <3>6
      <4> QED
        BY <2>2, <2>3, <3>2, <3>3, <3>6, <4>1
    <3>7. CASE ~ (i <= Len(b)) /\ ~ (j <= Len(b))
      <4>1. i - Len(b) \in 1 .. Len(p) /\ j - Len(b) \in 1 .. Len(p) /\ i - Len(b) # j - Len(b)
        BY <2>1, <2>3, <2>4, <3>1, <3>7
      <4>2. p[i - Len(b)] # p[j - Len(b)]
        BY <1>9, <4>1 DEF Distinct
      <4> QED
        BY <2>3, <3>7, <4>2
    <3> QED
      BY <3>4, <3>5, <3>6, <3>7
  <2>10. \A d \in Exits!Dev : d \in Exits!ToSet(c) <=> netOf'[d] = HomeNet
            /\ phase'[d] = "registered"
    BY <1>1, <1>6, <1>11, <1>13, <2>8 DEF b
  <2>11. ASSUME NEW i \in 1 .. Len(c), Kind[c[i]] = "loopback" PROVE i = 1
    <3>1. CASE i <= Len(b)
      <4>1. i \in 1 .. Len(b) /\ c[i] = b[i]
        BY <2>5, <2>6, <3>1
      <4> QED
        BY <1>6, <2>11, <4>1 DEF b
    <3>2. CASE ~ (i <= Len(b))
      <4>1. i - Len(b) \in 1 .. Len(p) /\ c[i] = p[i - Len(b)]
        BY <2>1, <2>3, <2>4, <3>2
      <4>2. c[i] \in Exits!ToSet(p) /\ c[i] \in Exits!Dev
        BY <1>9, <4>1 DEF Exits!ToSet
      <4>3. Kind[c[i]] = "real"
        BY <1>11, <4>2
      <4> QED
        BY <2>11, <4>3
    <3> QED
      BY <3>1, <3>2
  <2>12. baseHead'[HomeNet] = c
    BY <1>8 DEF c, b
  <2> QED
    BY <2>3, <2>9, <2>10, <2>11, <2>12, ListNext
<1>17. ExitListsOK'
  <2>1. ASSUME NEW m \in Exits!Net, m # n, m # HomeNet PROVE ExitListOK(m)'
    <3>1. /\ baseHead[m] \in Seq(Exits!Dev) /\ Distinct(baseHead[m])
          /\ \A d \in Exits!Dev : d \in Exits!ToSet(baseHead[m]) <=> netOf[d] = m
                /\ phase[d] = "registered"
          /\ \A i \in 1 .. Len(baseHead[m]) : Kind[baseHead[m][i]] = "loopback" => i = 1
      BY DEF ExitIInv, ExitListsOK, ExitListOK
    <3>2. \A d \in Exits!Dev : netOf'[d] = m <=> netOf[d] = m
      BY <1>11, <1>13, <2>1
    <3>3. baseHead'[m] = baseHead[m]
      BY <1>8, <2>1
    <3> QED
      BY <1>1, <3>1, <3>2, <3>3, ListNext
  <2>2. \A m \in Exits!Net : ExitListOK(m)'
    BY <1>15, <1>16, <2>1
  <2> QED
    BY <2>2 DEF ExitListsOK
<1>18. /\ refs' \in [Exits!Dev -> Nat]
       /\ \A d \in Exits!Dev : phase[d] \in {"destructed", "reported", "freed"} => refs'[d] = 0
  <2>1. \A i \in 1 .. Len(p) : phase[p[i]] \in {"registered", "unregistering"}
    <3>1. \A i \in 1 .. Len(p) : p[i] \in Exits!Dev /\ p[i] \in Exits!ToSet(p)
      BY <1>9 DEF Exits!ToSet
    <3> QED
      BY <1>11, <3>1
  <2> QED
    BY <1>1, <1>9, <2>1, TurnIs
<1>19. /\ where'[Worker] = (IF turn = Len(Ending) THEN "enqueue" ELSE "exit")
       /\ \A b \in Exits!Actor : b # Worker => where'[b] = where[b]
       /\ where' \in [Exits!Actor -> {"start", "exit", "enqueue", "look", "wait"} \cup Past]
  BY <1>1, <1>2 DEF ExitIInv, ExitTypeOK
<1>20. ExitTypeOK'
  <2>1. turn' \in Nat
    BY <1>1, <1>3
  <2> QED
    BY <1>1, <1>8, <1>12, <1>18, <1>19, <2>1 DEF ExitIInv, ExitTypeOK, Exits!ToSet
<1>21. PeersOK'
  BY <1>1 DEF ExitIInv, PeersOK
<1>22. ActorsOK'
  <2>1. turn # Len(Ending) => turn' \in 1 .. Len(Ending)
    BY <1>1, <1>3
  <2>2. \A t \in Task : where'[t] \in {"start", "todo"} \cup Busy
    BY <1>2, <1>19 DEF ExitIInv, ActorsOK
  <2> QED
    BY <1>1, <1>3, <1>19, <2>1, <2>2 DEF ActorsOK
<1>23. TodoOK'
  <2>1. /\ \A a \in Exits!Actor :
             /\ Distinct(todo[a])
             /\ where[a] \in Busy => todo[a] # <<>>
             /\ where[a] \notin Busy \cup {"todo"} => todo[a] = <<>>
             /\ \A i \in 1 .. Len(todo[a]) :
                    phase[todo[a][i]] = IF i = 1 THEN HeadPhase(where[a]) ELSE "unregistering"
        /\ \A a, b \in Exits!Actor : a # b => Exits!ToSet(todo[a]) \cap Exits!ToSet(todo[b]) = {}
        /\ \A e \in Exits!Dev : phase[e] \in Unreported
              => \E a \in Exits!Actor : e \in Exits!ToSet(todo[a])
    BY DEF ExitIInv, TodoOK
  <2>2. ASSUME NEW a \in Exits!Actor
        PROVE  /\ Distinct(todo[a])
               /\ where'[a] \in Busy => todo[a] # <<>>
               /\ where'[a] \notin Busy \cup {"todo"} => todo[a] = <<>>
               /\ \A i \in 1 .. Len(todo[a]) :
                      phase[todo[a][i]] = IF i = 1 THEN HeadPhase(where'[a]) ELSE "unregistering"
    <3>1. CASE a = Worker
      <4>1. "enqueue" \notin Busy /\ "exit" \notin Busy /\ 1 .. Len(<<>>) = {} /\ Distinct(<<>>)
        BY DEF Busy, Distinct
      <4> QED
        BY <1>3, <1>19, <3>1, <4>1
    <3>2. CASE a # Worker
      BY <1>19, <2>1, <3>2
    <3> QED
      BY <3>1, <3>2
  <2>3. ASSUME NEW a \in Exits!Actor
        PROVE  /\ Distinct(todo[a])'
               /\ where'[a] \in Busy => todo'[a] # <<>>
               /\ where'[a] \notin Busy \cup {"todo"} => todo'[a] = <<>>
               /\ \A i \in 1 .. Len(todo'[a]) :
                      phase'[todo'[a][i]] = IF i = 1 THEN HeadPhase(where'[a]) ELSE "unregistering"
    BY <1>1, <2>2 DEF Distinct
  <2>4. /\ \A a, b \in Exits!Actor : a # b => Exits!ToSet(todo'[a]) \cap Exits!ToSet(todo'[b]) = {}
        /\ \A e \in Exits!Dev : phase'[e] \in Unreported
              => \E a \in Exits!Actor : e \in Exits!ToSet(todo'[a])
    BY <1>1, <2>1
  <2> QED
    BY <2>3, <2>4 DEF TodoOK, Distinct, Exits!ToSet
<1>24. LoopbacksOK'
  <2>1. /\ \A e \in Exits!Dev : Kind[e] = "loopback" => phase[e] = "registered"
        /\ \A u \in Task : \A e \in Exits!ToSet(todo[u]) : Kind[e] # "loopback"
    BY <1>1, <1>3 DEF ExitIInv, LoopbacksOK
  <2>2. LoopbackLast(todo[Worker])'
    BY <1>1, <1>3 DEF LoopbackLast
  <2>3. where'[Worker] \notin Past
    BY <1>3, <1>19
  <2> QED
    BY <1>1, <2>1, <2>2, <2>3 DEF LoopbacksOK, Exits!ToSet
<1>25. Exits!CountsUnreported'
  <2>1. ASSUME NEW m \in Exits!Net
        PROVE  {d \in Exits!Dev : netOf'[d] = m /\ phase[d] \in {"unregistering", "unregistered", "destructed"}}
                 = {d \in Exits!Dev : netOf[d] = m /\ phase[d] \in {"unregistering", "unregistered", "destructed"}}
    BY <1>14
  <2> QED
    BY <1>1, <2>1 DEF ExitIInv, Exits!CountsUnreported
<1>26. Exits!LoopbackOutlives'
  <2>1. \A e \in Exits!Dev : Kind[e] = "loopback" => phase[e] = "registered"
    BY <1>1, <1>3 DEF ExitIInv, LoopbacksOK
  <2> QED
    BY <1>1, <1>18, <2>1 DEF Exits!LoopbackOutlives
<1>27. Exits!NoLostWakeUp'
  BY <1>19 DEF Exits!NoLostWakeUp
<1> QED
  BY <1>17, <1>20, <1>21, <1>22, <1>23, <1>24, <1>25, <1>26, <1>27 DEF ExitIInv

LEMMA ExitKept ==
  ASSUME Exits!NetExitAssumption, ExitIInv, Exits!Next
  PROVE  ExitIInv'
<1>1. CASE \E t \in Task, d \in Exits!Dev : Exits!Delete(t, d)
  BY <1>1, DeleteOK
<1>2. CASE Exits!DefaultDeviceExit
  BY <1>2, DeviceExitOK
<1>3. CASE Exits!DefaultDeviceExitBatch
  BY <1>3, BatchOK
<1>4. CASE Exits!CleanupBegins \/ Exits!Enqueue \/ Exits!MustWait \/ Exits!WaitWoken
              \/ Exits!Release
  BY <1>4, WorkerOK
<1>5. ASSUME NEW a \in Exits!Actor,
             Exits!Final(a) \/ Exits!AllRefsGone(a) \/ Exits!Report(a) \/ Exits!WakeUp(a) \/ Exits!Put(a)
      PROVE  ExitIInv'
  <2>1. CASE Exits!Final(a)
    BY <2>1, FinalOK
  <2>2. CASE Exits!AllRefsGone(a)
    BY <2>2, AllRefsGoneOK
  <2>3. CASE Exits!Report(a)
    BY <2>3, ReportOK
  <2>4. CASE Exits!WakeUp(a)
    BY <2>4, WakeUpOK
  <2>5. CASE Exits!Put(a)
    BY <2>5, PutOK
  <2> QED
    BY <1>5, <2>1, <2>2, <2>3, <2>4, <2>5
<1>6. CASE \E d \in Exits!Dev : Exits!DropRef(d)
  BY <1>6, DropRefOK
<1> QED
  BY <1>1, <1>2, <1>3, <1>4, <1>5, <1>6 DEF Exits!Next

LEMMA ExitStay ==
  ASSUME Exits!NetExitAssumption, ExitIInv, UNCHANGED Exits!exitVars
  PROVE  ExitIInv'
<1>1. /\ baseHead' = baseHead /\ netOf' = netOf /\ phase' = phase /\ refs' = refs
      /\ unregCount' = unregCount
      /\ todo' = todo /\ where' = where /\ turn' = turn /\ enqueued' = enqueued
      /\ woken' = woken /\ released' = released
  BY DEF Exits!exitVars, Exits!devVars, Exits!workerVars
<1>2. /\ Worker \in Exits!Actor /\ todo[Worker] \in Seq(Exits!Dev)
      /\ where \in [Exits!Actor -> {"start", "exit", "enqueue", "look", "wait"} \cup Past]
  BY DEF Exits!Actor, ExitIInv, ExitTypeOK
<1>3. where' = [where EXCEPT ![Worker] = where[Worker]] /\ UNCHANGED <<Exits!devVars, todo>>
  BY <1>1, <1>2 DEF Exits!devVars
<1>4. /\ where[Worker] \in Busy => todo[Worker] # <<>>
      /\ where[Worker] \notin Busy \cup {"todo"} => todo[Worker] = <<>>
  BY <1>2 DEF ExitIInv, TodoOK
<1>5. where[Worker] \in {"start", "exit", "enqueue", "look", "wait"} \cup Past
  BY <1>2
<1>6. /\ ExitListsOK' /\ PeersOK' /\ TodoOK' /\ LoopbacksOK' /\ Exits!CountsUnreported'
      /\ Exits!LoopbackOutlives'
  BY <1>2, <1>3, <1>4, <1>5, ActorMoves
<1>7. ExitTypeOK' /\ ActorsOK'
  <2>1. ExitTypeOK'
    <3>1. enqueued' \in BOOLEAN /\ woken' \in BOOLEAN
      BY <1>1 DEF ExitIInv, ExitTypeOK
    <3> QED
      BY <1>1, <3>1 DEF ExitIInv, ExitTypeOK, Exits!ToSet
  <2>2. ActorsOK'
    BY <1>1 DEF ExitIInv, ActorsOK
  <2> QED
    BY <2>1, <2>2
<1>8. Exits!NoLostWakeUp'
  BY <1>1 DEF ExitIInv, Exits!NoLostWakeUp, Exits!Unregistering, Exits!ToSet
<1> QED
  BY <1>6, <1>7, <1>8 DEF ExitIInv
-----------------------------------------------------------------------------
(* The texts                                                               *)

LEMMA TextsCardinality == \A S : Texts!Cardinality(S) = Cardinality(S)
  BY DEF Texts!Cardinality, Cardinality

\* The SMT solver's input cannot hold these two literals: they have names here.
Comma == ","
Blank == " "

\* What texts are made of
Token == {Comma, Blank, ":", ".", "nmj", "pid", "TCP", "unknown", "0", "1"} \cup TextPort
             \cup UNION {Texts!ToSet(text) : text \in Addr \cup Device}

\* s goes on with t from m + 1 on.
Holds(s, m, t) == \A k \in 1 .. Len(t) : s[m + k] = t[k]

LEMMA HoldsBoth ==
  ASSUME NEW S, NEW s \in Seq(S), NEW t \in Seq(S)
  PROVE  /\ s \o t \in Seq(S) /\ Len(s \o t) = Len(s) + Len(t)
         /\ Holds(s \o t, 0, s) /\ Holds(s \o t, Len(s), t)
<1>1. /\ s \o t \in Seq(S) /\ Len(s \o t) = Len(s) + Len(t) /\ Len(s) \in Nat /\ Len(t) \in Nat
      /\ \A k \in 1 .. Len(s) : (s \o t)[k] = s[k]
      /\ \A k \in 1 .. Len(t) : (s \o t)[Len(s) + k] = t[k]
  OBVIOUS
<1>2. \A k \in 1 .. Len(s) : 0 + k = k
  BY <1>1
<1> QED
  BY <1>1, <1>2 DEF Holds

LEMMA HoldsMore ==
  ASSUME NEW S, NEW s \in Seq(S), NEW u \in Seq(S), NEW m \in Nat, NEW t, Len(t) \in Nat,
         m + Len(t) <= Len(s), Holds(s, m, t)
  PROVE  Holds(s \o u, m, t)
<1>1. Len(s) \in Nat /\ \A k \in 1 .. Len(s) : (s \o u)[k] = s[k]
  OBVIOUS
<1>2. \A k \in 1 .. Len(t) : m + k \in 1 .. Len(s)
  BY <1>1
<1> QED
  BY <1>1, <1>2 DEF Holds

LEMMA HoldsJoin ==
  ASSUME NEW S, NEW s, NEW m \in Nat, NEW t \in Seq(S), NEW u \in Seq(S),
         Holds(s, m, t), Holds(s, m + Len(t), u)
  PROVE  Holds(s, m, t \o u)
<1>1. /\ Len(t \o u) = Len(t) + Len(u) /\ Len(t) \in Nat /\ Len(u) \in Nat
      /\ \A k \in 1 .. Len(t) : (t \o u)[k] = t[k]
      /\ \A k \in 1 .. Len(u) : (t \o u)[Len(t) + k] = u[k]
  OBVIOUS
<1>2. ASSUME NEW k \in 1 .. Len(t \o u) PROVE s[m + k] = (t \o u)[k]
  <2>1. CASE k \in 1 .. Len(t)
    BY <1>1, <2>1 DEF Holds
  <2>2. CASE k \notin 1 .. Len(t)
    <3>1. k - Len(t) \in 1 .. Len(u) /\ Len(t) + (k - Len(t)) = k
          /\ (m + Len(t)) + (k - Len(t)) = m + k
      BY <1>1, <1>2, <2>2
    <3>2. s[(m + Len(t)) + (k - Len(t))] = u[k - Len(t)]
      BY <3>1 DEF Holds
    <3>3. (t \o u)[Len(t) + (k - Len(t))] = u[k - Len(t)]
      BY <1>1, <3>1
    <3> QED
      BY <3>1, <3>2, <3>3
  <2> QED
    BY <2>1, <2>2
<1> QED
  BY <1>2 DEF Holds

LEMMA HoldsIs ==
  ASSUME NEW S, NEW s \in Seq(S), NEW m \in Nat, NEW t \in Seq(S), m + Len(t) <= Len(s),
         Holds(s, m, t)
  PROVE  SubSeq(s, m + 1, m + Len(t)) = t
<1> DEFINE u == SubSeq(s, m + 1, m + Len(t))
<1>1. Len(s) \in Nat /\ Len(t) \in Nat
  OBVIOUS
<1>2. m + 1 \in 1 .. Len(s) + 1 /\ m + Len(t) \in 0 .. Len(s) /\ m + 1 <= m + Len(t) + 1
  BY <1>1
<1>3. /\ u \in Seq(S) /\ Len(u) = m + Len(t) - (m + 1) + 1
      /\ \A k \in 1 .. m + Len(t) - (m + 1) + 1 : u[k] = s[m + 1 + k - 1]
  BY <1>2, PartOfSeq
<1> HIDE DEF u
<1>4. m + Len(t) - (m + 1) + 1 = Len(t) /\ \A k \in 1 .. Len(t) : m + 1 + k - 1 = m + k
  BY <1>1
<1>5. Len(u) = Len(t) /\ \A k \in 1 .. Len(t) : u[k] = t[k]
  BY <1>3, <1>4 DEF Holds
<1>6. u = t
  <2>1. u \in Seq(S) /\ t \in Seq(S)
    BY <1>3
  <2> QED
    BY <1>5, <2>1
<1> QED
  BY <1>6 DEF u

\* The first place of t from i on
LEMMA FindIs ==
  ASSUME NEW s, Len(s) \in Nat, NEW i \in Nat, NEW t, NEW n \in i .. Len(s), s[n] = t,
         \A j \in i .. n - 1 : s[j] # t
  PROVE  Texts!Find(s, i, t) = n
<1> DEFINE hits == {j \in i .. Len(s) : s[j] = t}
<1>1. n \in hits /\ \A k \in hits : n <= k
  OBVIOUS
<1>2. Texts!Find(s, i, t) = CHOOSE j \in hits : \A k \in hits : j <= k
  BY <1>1 DEF Texts!Find
<1>3. \A j \in hits : (\A k \in hits : j <= k) => j = n
  BY <1>1
<1> HIDE DEF hits
<1>4. PICK m : m = CHOOSE j \in hits : \A k \in hits : j <= k
  OBVIOUS
<1>5. m \in hits /\ \A k \in hits : m <= k
  BY <1>1, <1>4
<1> QED
  BY <1>2, <1>3, <1>4, <1>5

\* An address: seven tokens, neither a comma nor a colon, the dots at even places
\* Addresses and names are made of tokens, and what is in an address is no separator but
\* the dots at its even places.
LEMMA AddrIs ==
  ASSUME Texts!AddrAssumption, NEW a \in Addr
  PROVE  /\ a \in Seq(Token) /\ Len(a) = 7
         /\ \A i \in 1 .. Len(a) : a[i] # Comma /\ a[i] # ":" /\ (a[i] = "." <=> i % 2 = 0)
<1>1. a \in Seq(Texts!ToSet(a)) /\ Texts!ToSet(a) \subseteq Token
  BY DEF Texts!AddrAssumption, Token
<1>2. a \in Seq(Token)
  BY <1>1
<1>3. Len(a) = 7
  BY DEF Texts!AddrAssumption
<1>4. \A i \in 1 .. 7 : IF i % 2 = 0 THEN a[i] = "." ELSE a[i] \notin {".", Comma, ":"}
  BY DEF Texts!AddrAssumption, Comma
<1>5. \A i \in 1 .. 7 : a[i] # Comma /\ a[i] # ":" /\ (a[i] = "." <=> i % 2 = 0)
  BY <1>4, Zenon DEF Comma
<1> QED
  BY <1>2, <1>3, <1>5

LEMMA DeviceIs ==
  ASSUME Texts!AddrAssumption, NEW p \in Texts!Packet
  PROVE  p.dev \in Seq(Token) /\ p.flow \in Texts!Flow /\ p.sport \in TextPort /\ p.dport \in TextPort
         /\ p.way \in {"in", "out"}
<1>1. CASE p.way = "in"
  <2>1. p.dev \in Device /\ p.flow \in Texts!Flow /\ p.sport \in TextPort /\ p.dport \in TextPort
    BY <1>1 DEF Texts!Packet
  <2>2. p.dev \in Seq(Texts!ToSet(p.dev)) /\ Texts!ToSet(p.dev) \subseteq Token
    BY <2>1 DEF Texts!AddrAssumption, Token
  <2> QED
    BY <1>1, <2>1, <2>2
<1>2. CASE p.way # "in"
  <2>1. /\ p.way = "out" /\ p.dev = <<"unknown">> /\ p.flow \in Texts!Flow
        /\ p.sport \in TextPort /\ p.dport \in TextPort
    BY <1>2 DEF Texts!Packet
  <2>2. <<"unknown">> \in Seq(Token)
    BY DEF Token
  <2> QED
    BY <2>1, <2>2
<1> QED
  BY <1>1, <1>2
LEMMA LiteralsDiffer == Comma # ":" /\ Comma # "."
  BY DEF Comma

\* A text of three, and of seven pieces
LEMMA ThreePieces ==
  ASSUME NEW S, NEW a \in Seq(S), NEW b \in Seq(S), NEW c \in Seq(S)
  PROVE  /\ a \o b \o c \in Seq(S) /\ Len(a \o b \o c) = Len(a) + Len(b) + Len(c)
         /\ Holds(a \o b \o c, 0, a) /\ Holds(a \o b \o c, Len(a), b)
         /\ Holds(a \o b \o c, Len(a) + Len(b), c)
<1> DEFINE h == a \o b
<1>1. Len(a) \in Nat /\ Len(b) \in Nat /\ Len(c) \in Nat
  OBVIOUS
<1>2. h \in Seq(S) /\ Len(h) = Len(a) + Len(b) /\ Holds(h, 0, a) /\ Holds(h, Len(a), b)
  BY HoldsBoth
<1> HIDE DEF h
<1>3. h \o c \in Seq(S) /\ Len(h \o c) = Len(h) + Len(c) /\ Holds(h \o c, Len(h), c)
  BY <1>2, HoldsBoth
<1>4. 0 \in Nat /\ 0 + Len(a) <= Len(h) /\ Len(a) + Len(b) <= Len(h)
  BY <1>1, <1>2
<1>5. Holds(h \o c, 0, a)
  BY <1>1, <1>2, <1>4, HoldsMore
<1>6. Holds(h \o c, Len(a), b)
  BY <1>1, <1>2, <1>4, HoldsMore
<1> QED
  BY <1>2, <1>3, <1>5, <1>6 DEF h

\* Seven pieces one behind the other, as sprintf writes them
SevenJoined(a, b, c, d, e, f, g) == a \o b \o c \o d \o e \o f \o g

PiecesOf(s, a, b, c, d, e, f, g) ==
    /\ Len(s) = Len(a) + Len(b) + Len(c) + Len(d) + Len(e) + Len(f) + Len(g)
    /\ Holds(s, 0, a) /\ Holds(s, Len(a), b) /\ Holds(s, Len(a) + Len(b), c)
    /\ Holds(s, Len(a) + Len(b) + Len(c), d)
    /\ Holds(s, Len(a) + Len(b) + Len(c) + Len(d), e)
    /\ Holds(s, Len(a) + Len(b) + Len(c) + Len(d) + Len(e), f)
    /\ Holds(s, Len(a) + Len(b) + Len(c) + Len(d) + Len(e) + Len(f), g)

LEMMA SevenPieces ==
  ASSUME NEW S, NEW a \in Seq(S), NEW b \in Seq(S), NEW c \in Seq(S), NEW d \in Seq(S),
         NEW e \in Seq(S), NEW f \in Seq(S), NEW g \in Seq(S)
  PROVE  /\ SevenJoined(a, b, c, d, e, f, g) \in Seq(S)
         /\ PiecesOf(SevenJoined(a, b, c, d, e, f, g), a, b, c, d, e, f, g)
<1>0. PICK s : s = SevenJoined(a, b, c, d, e, f, g)
  OBVIOUS
<1> DEFINE h == a \o b \o c
           i == h \o d \o e
<1>1. /\ Len(a) \in Nat /\ Len(b) \in Nat /\ Len(c) \in Nat /\ Len(d) \in Nat
      /\ Len(e) \in Nat /\ Len(f) \in Nat /\ Len(g) \in Nat
  OBVIOUS
<1>2. /\ h \in Seq(S) /\ Len(h) = Len(a) + Len(b) + Len(c)
      /\ Holds(h, 0, a) /\ Holds(h, Len(a), b) /\ Holds(h, Len(a) + Len(b), c)
  BY ThreePieces
<1>3. s = i \o f \o g
  BY <1>0 DEF SevenJoined
<1> HIDE DEF h
<1>4. /\ i \in Seq(S) /\ Len(i) = Len(h) + Len(d) + Len(e)
      /\ Holds(i, 0, h) /\ Holds(i, Len(h), d) /\ Holds(i, Len(h) + Len(d), e)
  BY <1>2, ThreePieces
<1> HIDE DEF i
<1>5. /\ s \in Seq(S) /\ Len(s) = Len(i) + Len(f) + Len(g)
      /\ Holds(s, 0, i) /\ Holds(s, Len(i), f) /\ Holds(s, Len(i) + Len(f), g)
  <2>1. /\ i \o f \o g \in Seq(S) /\ Len(i \o f \o g) = Len(i) + Len(f) + Len(g)
        /\ Holds(i \o f \o g, 0, i) /\ Holds(i \o f \o g, Len(i), f)
        /\ Holds(i \o f \o g, Len(i) + Len(f), g)
    BY <1>4, ThreePieces
  <2> QED
    BY <1>3, <2>1, Zenon
<1>6. Len(h) \in Nat /\ Len(i) \in Nat
  BY <1>2, <1>4
<1>7. ASSUME NEW u, NEW v, NEW m \in Nat, NEW t, Len(t) \in Nat, Len(v) \in Nat, Holds(u, 0, v),
             Holds(v, m, t), m + Len(t) <= Len(v)
      PROVE  Holds(u, m, t)
  <2>1. \A k \in 1 .. Len(t) : m + k \in 1 .. Len(v) /\ 0 + (m + k) = m + k
    BY <1>7
  <2> QED
    BY <1>7, <2>1 DEF Holds
<1>8. /\ 0 \in Nat /\ 0 + Len(a) <= Len(h) /\ Len(a) + Len(b) <= Len(h)
      /\ Len(a) + Len(b) + Len(c) <= Len(h) /\ Len(a) + Len(b) \in Nat
      /\ Len(h) + Len(d) <= Len(i) /\ Len(h) + Len(d) + Len(e) <= Len(i)
      /\ Len(h) + Len(d) \in Nat /\ 0 + Len(h) <= Len(i)
  BY <1>1, <1>2, <1>4, <1>6
<1>9. Holds(s, 0, h) /\ Holds(s, Len(h), d) /\ Holds(s, Len(h) + Len(d), e)
  BY <1>1, <1>4, <1>5, <1>6, <1>7, <1>8
<1>10. Holds(s, 0, a) /\ Holds(s, Len(a), b) /\ Holds(s, Len(a) + Len(b), c)
  BY <1>1, <1>2, <1>6, <1>7, <1>8, <1>9
<1> QED
  BY <1>0, <1>1, <1>2, <1>4, <1>5, <1>9, <1>10 DEF PiecesOf

\* The rule of a flow: both addresses with a comma between them
KeyOf(f) == f.src \o <<Comma>> \o f.dst

LEMMA KeyIs ==
  ASSUME Texts!AddrAssumption, NEW f \in Texts!Flow
  PROVE  /\ KeyOf(f) \in Seq(Token) /\ Len(KeyOf(f)) = 15 /\ f.src \in Addr /\ f.dst \in Addr
         /\ Holds(KeyOf(f), 0, f.src) /\ KeyOf(f)[8] = Comma /\ Holds(KeyOf(f), 8, f.dst)
<1>1. f.src \in Addr /\ f.dst \in Addr
  BY DEF Texts!Flow
<1>2. f.src \in Seq(Token) /\ f.dst \in Seq(Token)
  BY <1>1, AddrIs
<1> DEFINE comma == <<Comma>>
           k == KeyOf(f)
<1>3. comma \in Seq(Token)
  BY DEF Token
<1>4. Len(comma) = 1 /\ comma[1] = Comma
  OBVIOUS
<1>5. k = f.src \o comma \o f.dst
  BY DEF KeyOf
<1> HIDE DEF k, comma
<1>6. k \in Seq(Token)
  BY <1>2, <1>3, <1>5, ThreePieces
<1>7. /\ Len(k) = Len(f.src) + Len(comma) + Len(f.dst)
      /\ Holds(k, 0, f.src) /\ Holds(k, Len(f.src), comma)
      /\ Holds(k, Len(f.src) + Len(comma), f.dst)
  <2> DEFINE j == f.src \o comma \o f.dst
  <2>1. /\ j \in Seq(Token) /\ Len(j) = Len(f.src) + Len(comma) + Len(f.dst)
        /\ Holds(j, 0, f.src) /\ Holds(j, Len(f.src), comma)
        /\ Holds(j, Len(f.src) + Len(comma), f.dst)
    BY <1>2, <1>3, ThreePieces, Zenon
  <2> QED
    BY <1>5, <2>1, Zenon
<1>8. Len(f.src) = 7 /\ Len(f.dst) = 7
  BY <1>1, AddrIs
<1>9. Holds(k, 7, comma) /\ Holds(k, 8, f.dst) /\ Len(k) = 15
  BY <1>4, <1>7, <1>8
<1>10. k[8] = Comma
  <2>1. 1 \in 1 .. Len(comma) /\ 7 + 1 = 8
    BY <1>4
  <2>2. k[7 + 1] = comma[1]
    BY <1>9, <2>1 DEF Holds
  <2> QED
    BY <1>4, <2>1, <2>2
<1> QED
  BY <1>1, <1>6, <1>7, <1>9, <1>10 DEF k

\* Flows have rules of their own, and check_rule lets them through.
LEMMA KeysDiffer ==
  ASSUME Texts!AddrAssumption, NEW f \in Texts!Flow, NEW g \in Texts!Flow, KeyOf(f) = KeyOf(g)
  PROVE  f = g
<1>1. /\ f.src \in Addr /\ f.dst \in Addr /\ g.src \in Addr /\ g.dst \in Addr
      /\ KeyOf(f) \in Seq(Token) /\ Len(KeyOf(f)) = 15
      /\ Holds(KeyOf(f), 0, f.src) /\ Holds(KeyOf(f), 8, f.dst)
      /\ Holds(KeyOf(f), 0, g.src) /\ Holds(KeyOf(f), 8, g.dst)
  BY KeyIs
<1>2. ASSUME NEW m \in {0, 8}, NEW a \in Addr, NEW b \in Addr, Holds(KeyOf(f), m, a),
             Holds(KeyOf(f), m, b)
      PROVE  a = b
  <2>1. Len(a) = 7 /\ Len(b) = 7 /\ a \in Seq(Token) /\ b \in Seq(Token)
    BY AddrIs
  <2>2. Len(a) = Len(b) /\ \A k \in 1 .. Len(a) : a[k] = b[k]
    BY <1>2, <2>1 DEF Holds
  <2> QED
    BY <2>1, <2>2
<1>3. f.src = g.src /\ f.dst = g.dst
  BY <1>1, <1>2
<1> QED
  BY <1>3 DEF Texts!Flow

LEMMA KeyPasses ==
  ASSUME Texts!AddrAssumption, NEW f \in Texts!Flow
  PROVE  Texts!CheckRule(KeyOf(f))
<1> DEFINE s == KeyOf(f)
<1>1. /\ Len(s) = 15 /\ f.src \in Addr /\ f.dst \in Addr
      /\ Holds(s, 0, f.src) /\ Holds(s, 8, f.dst) /\ s[8] = Comma
  BY KeyIs
<1>2. ASSUME NEW a \in Addr
      PROVE  Len(a) = 7 /\ \A i \in 1 .. 7 : a[i] # Comma /\ (a[i] = "." <=> i \in {2, 4, 6})
  <2>1. Len(a) = 7 /\ \A i \in 1 .. Len(a) : a[i] # Comma /\ (a[i] = "." <=> i % 2 = 0)
    BY AddrIs
  <2>2. \A i \in 1 .. 7 : i % 2 = 0 <=> i \in {2, 4, 6}
    OBVIOUS
  <2> QED
    BY <2>1, <2>2
<1> HIDE DEF s
<1>3. \A i \in 1 .. 7 : s[i] # Comma /\ (s[i] = "." <=> i \in {2, 4, 6})
  <2>1. SUFFICES ASSUME NEW i \in 1 .. 7
                 PROVE  s[i] # Comma /\ (s[i] = "." <=> i \in {2, 4, 6})
    OBVIOUS
  <2>2. Len(f.src) = 7
    BY <1>1, <1>2
  <2>3. 0 + i = i /\ s[0 + i] = f.src[i]
    BY <1>1, <2>2 DEF Holds
  <2> QED
    BY <1>1, <1>2, <2>3
<1>4. \A i \in 1 .. 7 : s[8 + i] # Comma /\ (s[8 + i] = "." <=> i \in {2, 4, 6})
  <2>1. SUFFICES ASSUME NEW i \in 1 .. 7
                 PROVE  s[8 + i] # Comma /\ (s[8 + i] = "." <=> i \in {2, 4, 6})
    OBVIOUS
  <2>2. Len(f.dst) = 7
    BY <1>1, <1>2
  <2>3. s[8 + i] = f.dst[i]
    BY <1>1, <2>2 DEF Holds
  <2> QED
    BY <1>1, <1>2, <2>3
<1>5. \A i \in 9 .. 15 : s[i] # Comma /\ (s[i] = "." <=> i \in {10, 12, 14})
  <2>1. SUFFICES ASSUME NEW i \in 9 .. 15
                 PROVE  s[i] # Comma /\ (s[i] = "." <=> i \in {10, 12, 14})
    OBVIOUS
  <2>2. i - 8 \in 1 .. 7 /\ 8 + (i - 8) = i /\ (i - 8 \in {2, 4, 6} <=> i \in {10, 12, 14})
    OBVIOUS
  <2>3. s[8 + (i - 8)] # Comma /\ (s[8 + (i - 8)] = "." <=> i - 8 \in {2, 4, 6})
    BY <1>4, <2>2
  <2> QED
    BY <2>2, <2>3
<1>6. \A i \in 1 .. 15 : i \in 1 .. 7 \/ i = 8 \/ i \in 9 .. 15
  OBVIOUS
<1>7. {i \in 1 .. Len(s) : s[i] = Comma} = {8}
  BY <1>1, <1>3, <1>5, <1>6
<1>8. {i \in 1 .. Len(s) : s[i] = "."} = {2, 4, 6, 10, 12, 14}
  <2>1. s[8] # "."
    BY <1>1, LiteralsDiffer
  <2> QED
    BY <1>1, <1>3, <1>5, <1>6, <2>1
<1>9. Cardinality({8}) = 1
  BY FS_Singleton
<1>10. Cardinality({2, 4, 6, 10, 12, 14}) = 6
  <2>1. IsFiniteSet({2}) /\ Cardinality({2}) = 1
    BY FS_Singleton
  <2>2. IsFiniteSet({2, 4}) /\ Cardinality({2, 4}) = 2
    <3>1. {2, 4} = {2} \cup {4} /\ 4 \notin {2}
      OBVIOUS
    <3> QED
      BY <2>1, <3>1, FS_AddElement
  <2>3. IsFiniteSet({2, 4, 6}) /\ Cardinality({2, 4, 6}) = 3
    <3>1. {2, 4, 6} = {2, 4} \cup {6} /\ 6 \notin {2, 4}
      OBVIOUS
    <3> QED
      BY <2>2, <3>1, FS_AddElement
  <2>4. IsFiniteSet({2, 4, 6, 10}) /\ Cardinality({2, 4, 6, 10}) = 4
    <3>1. {2, 4, 6, 10} = {2, 4, 6} \cup {10} /\ 10 \notin {2, 4, 6}
      OBVIOUS
    <3> QED
      BY <2>3, <3>1, FS_AddElement
  <2>5. IsFiniteSet({2, 4, 6, 10, 12}) /\ Cardinality({2, 4, 6, 10, 12}) = 5
    <3>1. {2, 4, 6, 10, 12} = {2, 4, 6, 10} \cup {12} /\ 12 \notin {2, 4, 6, 10}
      OBVIOUS
    <3> QED
      BY <2>4, <3>1, FS_AddElement
  <2> QED
    <3>1. {2, 4, 6, 10, 12, 14} = {2, 4, 6, 10, 12} \cup {14} /\ 14 \notin {2, 4, 6, 10, 12}
      OBVIOUS
    <3> QED
      BY <2>5, <3>1, FS_AddElement
<1>11. Texts!Count(s, Comma) = 1 /\ Texts!Count(s, ".") = 6
  BY <1>7, <1>8, <1>9, <1>10, TextsCardinality DEF Texts!Count
<1> QED
  BY <1>11, Zenon DEF Texts!CheckRule, Comma, s

\* The text s is that of packet p, as far as the device
TextOf(s, p) ==
    /\ s \in Seq(Token) /\ Len(s) \in Nat /\ Len(p.dev) \in Nat /\ 24 + Len(p.dev) <= Len(s)
    /\ s[1] # Comma /\ s[2] = Comma /\ Holds(s, 2, p.flow.src)
    /\ s[10] = ":" /\ s[11] = p.sport /\ s[12] = Comma /\ Holds(s, 12, p.flow.dst)
    /\ s[20] = ":" /\ s[21] = p.dport /\ s[22] = Comma /\ Holds(s, 22, p.dev)
    /\ s[22 + Len(p.dev) + 1] = Comma /\ s[22 + Len(p.dev) + 2] = "TCP"

\* sprintf writes such a text, and str_split cuts the rule of the flow out of it.
LEMMA FormatIs ==
  ASSUME Texts!AddrAssumption, NEW p \in Texts!Packet
  PROVE  /\ TextOf(Texts!Format(p), p) /\ Len(Texts!Format(p)) = 24 + Len(p.dev)
         /\ Texts!Format(p)[1] # "nmj"
<1> DEFINE w == IF p.way = "in" THEN "0" ELSE "pid"
<1>1. PICK a : a = <<w, Comma>>
  OBVIOUS
<1>2. PICK c : c = <<":", p.sport, Comma>>
  OBVIOUS
<1>3. PICK e : e = <<":", p.dport, Comma>>
  OBVIOUS
<1>4. PICK g : g = <<Comma, "TCP">>
  OBVIOUS
<1>5. /\ p.dev \in Seq(Token) /\ p.flow.src \in Addr /\ p.flow.dst \in Addr
      /\ p.sport \in TextPort /\ p.dport \in TextPort
  BY DeviceIs, KeyIs
<1>6. a \in Seq(Token) /\ c \in Seq(Token) /\ e \in Seq(Token) /\ g \in Seq(Token)
  <2>1. w \in Token /\ Comma \in Token /\ ":" \in Token /\ "TCP" \in Token
        /\ p.sport \in Token /\ p.dport \in Token
    BY <1>5 DEF Token
  <2> HIDE DEF w
  <2>2. a \in Seq(Token)
    BY <1>1, <2>1
  <2>3. c \in Seq(Token)
    BY <1>2, <2>1
  <2>4. e \in Seq(Token)
    BY <1>3, <2>1
  <2>5. g \in Seq(Token)
    BY <1>4, <2>1
  <2> QED
    BY <2>2, <2>3, <2>4, <2>5
<1>7. p.flow.src \in Seq(Token) /\ p.flow.dst \in Seq(Token)
  BY <1>5, AddrIs
<1>8. Len(p.flow.src) = 7 /\ Len(p.flow.dst) = 7
  BY <1>5, AddrIs
<1>9. Len(a) = 2 /\ a[1] # Comma /\ a[1] # "nmj" /\ a[2] = Comma
  BY <1>1 DEF Comma
<1>10. Len(c) = 3 /\ c[1] = ":" /\ c[2] = p.sport /\ c[3] = Comma
  BY <1>2
<1>11. Len(e) = 3 /\ e[1] = ":" /\ e[2] = p.dport /\ e[3] = Comma
  BY <1>3
<1>12. Len(g) = 2 /\ g[1] = Comma /\ g[2] = "TCP"
  BY <1>4
<1>13. PICK s : s = SevenJoined(a, p.flow.src, c, p.flow.dst, e, p.dev, g)
  OBVIOUS
<1>14. Texts!Format(p) = s
  BY <1>1, <1>2, <1>3, <1>4, <1>13, Zenon DEF Texts!Format, Comma, SevenJoined, w
<1>15. /\ s \in Seq(Token)
       /\ Len(s) = Len(a) + Len(p.flow.src) + Len(c) + Len(p.flow.dst) + Len(e) + Len(p.dev) + Len(g)
       /\ Holds(s, 0, a) /\ Holds(s, Len(a), p.flow.src) /\ Holds(s, Len(a) + Len(p.flow.src), c)
       /\ Holds(s, Len(a) + Len(p.flow.src) + Len(c), p.flow.dst)
       /\ Holds(s, Len(a) + Len(p.flow.src) + Len(c) + Len(p.flow.dst), e)
       /\ Holds(s, Len(a) + Len(p.flow.src) + Len(c) + Len(p.flow.dst) + Len(e), p.dev)
       /\ Holds(s, Len(a) + Len(p.flow.src) + Len(c) + Len(p.flow.dst) + Len(e) + Len(p.dev), g)
  <2>1. s \in Seq(Token) /\ PiecesOf(s, a, p.flow.src, c, p.flow.dst, e, p.dev, g)
    BY <1>5, <1>6, <1>7, <1>13, SevenPieces
  <2> QED
    BY <2>1 DEF PiecesOf
<1>16. Len(p.dev) \in Nat
  BY <1>5
<1>17. /\ Len(s) = 24 + Len(p.dev)
       /\ Holds(s, 0, a) /\ Holds(s, 2, p.flow.src) /\ Holds(s, 9, c)
       /\ Holds(s, 12, p.flow.dst) /\ Holds(s, 19, e) /\ Holds(s, 22, p.dev)
       /\ Holds(s, 22 + Len(p.dev), g)
  BY <1>8, <1>9, <1>10, <1>11, <1>12, <1>15, <1>16
<1>18. s[1] = a[1] /\ s[2] = a[2]
  <2>1. \A k \in {1, 2} : k \in 1 .. 2 /\ 0 + k = k
    OBVIOUS
  <2> QED
    BY <1>9, <1>17, <2>1 DEF Holds
<1>19. s[10] = c[1] /\ s[11] = c[2] /\ s[12] = c[3]
  <2>1. s[9 + 1] = c[1] /\ s[9 + 2] = c[2] /\ s[9 + 3] = c[3]
    BY <1>10, <1>17 DEF Holds
  <2> QED
    BY <2>1
<1>20. s[20] = e[1] /\ s[21] = e[2] /\ s[22] = e[3]
  <2>1. s[19 + 1] = e[1] /\ s[19 + 2] = e[2] /\ s[19 + 3] = e[3]
    BY <1>11, <1>17 DEF Holds
  <2> QED
    BY <2>1
<1>21. s[22 + Len(p.dev) + 1] = g[1] /\ s[22 + Len(p.dev) + 2] = g[2]
  BY <1>12, <1>17 DEF Holds
<1>22. Len(s) \in Nat /\ 24 + Len(p.dev) <= Len(s)
  BY <1>16, <1>17
<1> QED
  BY <1>9, <1>10, <1>11, <1>12, <1>14, <1>15, <1>16, <1>17, <1>18, <1>19, <1>20, <1>21, <1>22, Zenon DEF TextOf

LEMMA TextSplit ==
  ASSUME Texts!AddrAssumption, NEW p \in Texts!Packet, NEW s, TextOf(s, p)
  PROVE  Texts!StrSplit(s) = KeyOf(p.flow)
<1>1. /\ p.flow.src \in Addr /\ p.flow.dst \in Addr /\ p.sport \in TextPort /\ p.flow \in Texts!Flow
  BY DeviceIs, KeyIs
<1>2. p.flow.src \in Seq(Token) /\ p.flow.dst \in Seq(Token) /\ s \in Seq(Token)
      /\ <<Comma>> \in Seq(Token)
  <2>1. p.flow.src \in Seq(Token) /\ p.flow.dst \in Seq(Token)
    BY <1>1, AddrIs
  <2>2. s \in Seq(Token)
    BY DEF TextOf
  <2>3. <<Comma>> \in Seq(Token)
    BY DEF Token
  <2> QED
    BY <2>1, <2>2, <2>3
<1>3. /\ Len(p.flow.src) = 7 /\ \A k \in 1 .. 7 : p.flow.src[k] # ":"
      /\ Len(p.flow.dst) = 7 /\ \A k \in 1 .. 7 : p.flow.dst[k] # ":"
  <2>1. ASSUME NEW a \in Addr PROVE Len(a) = 7 /\ \A k \in 1 .. Len(a) : a[k] # ":"
    BY AddrIs
  <2> QED
    BY <1>1, <2>1
<1>4. p.sport # Comma /\ Comma # ":"
  BY <1>1, Zenon DEF Texts!AddrAssumption, Comma
<1>5. /\ Len(s) \in Nat /\ 24 <= Len(s) /\ s[1] # Comma /\ s[2] = Comma
      /\ Holds(s, 2, p.flow.src) /\ Holds(s, 12, p.flow.dst)
      /\ s[10] = ":" /\ s[11] # Comma /\ s[12] = Comma /\ s[20] = ":"
  BY <1>4 DEF TextOf
<1>6. \A k \in 1 .. 7 : s[2 + k] # ":" /\ s[12 + k] # ":"
  BY <1>3, <1>5 DEF Holds
<1>7. \A j \in 3 .. 9 : s[j] # ":"
  <2>1. \A j \in 3 .. 9 : j - 2 \in 1 .. 7 /\ 2 + (j - 2) = j
    OBVIOUS
  <2> QED
    BY <1>6, <2>1
<1>8. \A j \in 13 .. 19 : s[j] # ":"
  <2>1. \A j \in 13 .. 19 : j - 12 \in 1 .. 7 /\ 12 + (j - 12) = j
    OBVIOUS
  <2> QED
    BY <1>6, <2>1
<1>9. Texts!Find(s, 1, Comma) = 2
  BY <1>5, FindIs
<1>10. Texts!Find(s, 3, ":") = 10
  <2>1. 3 \in Nat /\ 10 \in 3 .. Len(s) /\ \A j \in 3 .. 10 - 1 : s[j] # ":"
    BY <1>5, <1>7
  <2> QED
    BY <1>5, <2>1, FindIs, Zenon
<1>11. Texts!Find(s, 10, Comma) = 12
  <2>1. \A j \in 10 .. 12 - 1 : j = 10 \/ j = 11
    OBVIOUS
  <2>2. \A j \in 10 .. 12 - 1 : s[j] # Comma
    BY <1>4, <1>5, <2>1
  <2> QED
    BY <1>5, <2>2, FindIs
<1>12. Texts!Find(s, 12, ":") = 20
  <2>1. \A j \in 12 .. 20 - 1 : j = 12 \/ j \in 13 .. 19
    OBVIOUS
  <2>2. \A j \in 12 .. 20 - 1 : s[j] # ":"
    BY <1>4, <1>5, <1>8, <2>1
  <2>3. 12 \in Nat /\ 20 \in 12 .. Len(s)
    BY <1>5
  <2> QED
    BY <1>5, <2>2, <2>3, FindIs, Zenon
<1>13. Texts!StrSplit(s) = SubSeq(s, 3, 9) \o SubSeq(s, 12, 19)
  <2>1. 2 + 1 = 3 /\ 10 - 1 = 9 /\ 20 - 1 = 19
    OBVIOUS
  <2> QED
    BY <1>9, <1>10, <1>11, <1>12, <2>1, Zenon DEF Texts!StrSplit, Comma
<1>14. SubSeq(s, 3, 9) = p.flow.src
  <2>1. SubSeq(s, 2 + 1, 2 + Len(p.flow.src)) = p.flow.src
    <3>1. 2 \in Nat /\ 2 + Len(p.flow.src) <= Len(s)
      BY <1>3, <1>5
    <3> QED
      BY <1>2, <1>5, <3>1, HoldsIs
  <2> QED
    BY <1>3, <2>1
<1>15. PICK comma : comma = <<Comma>>
  OBVIOUS
<1>16. comma \in Seq(Token)
  BY <1>2, <1>15
<1>17. Len(comma) = 1 /\ comma[1] = Comma
  BY <1>15
<1>18. PICK t : t = comma \o p.flow.dst
  OBVIOUS
<1>19. SubSeq(s, 12, 19) = t
  <2>1. t \in Seq(Token) /\ Len(t) = Len(comma) + Len(p.flow.dst)
    BY <1>2, <1>16, <1>18, HoldsBoth, Zenon
  <2>2. Len(t) = 8
    BY <1>3, <1>17, <2>1
  <2>3. Holds(s, 11, comma)
    BY <1>5, <1>17 DEF Holds
  <2>4. Holds(s, 11 + Len(comma), p.flow.dst)
    BY <1>5, <1>17
  <2>5. 11 \in Nat /\ 11 + Len(t) <= Len(s)
    BY <1>5, <2>2
  <2>6. Holds(s, 11, t)
    BY <1>2, <1>16, <1>18, <2>3, <2>4, <2>5, HoldsJoin, Zenon
  <2>7. SubSeq(s, 11 + 1, 11 + Len(t)) = t
    BY <1>2, <2>1, <2>5, <2>6, HoldsIs, Zenon
  <2> QED
    BY <2>2, <2>7
<1>20. p.flow.src \o t = KeyOf(p.flow)
  <2>1. ASSUME NEW x \in Seq(Token), NEW y \in Seq(Token), NEW z \in Seq(Token)
        PROVE  (x \o y) \o z = x \o (y \o z)
    BY ConcatAssociative
  <2>2. (p.flow.src \o comma) \o p.flow.dst = p.flow.src \o (comma \o p.flow.dst)
    BY <1>2, <1>16, <2>1, Zenon
  <2> QED
    BY <1>15, <1>18, <2>2, Zenon DEF KeyOf
<1> QED
  BY <1>13, <1>14, <1>19, <1>20, Zenon

\* The report's payload is the packet's text with the verdict behind it.
\* What reaches skbInsert of a report is such a text, with the verdict behind it.
LEMMA ReportIs ==
  ASSUME Texts!AddrAssumption, NEW p \in Texts!Packet, NEW v \in {"0", "1"}
  PROVE  \E s : /\ s = Texts!Payload(Texts!Report(p, v)) /\ TextOf(s, p) /\ Len(s) = 26 + Len(p.dev)
                /\ s[24 + Len(p.dev) + 1] = Comma /\ s[24 + Len(p.dev) + 2] = v
<1> DEFINE n == Len(p.dev)
<1>1. PICK f : f = Texts!Format(p)
  OBVIOUS
<1>2. TextOf(f, p) /\ Len(f) = 24 + n /\ f[1] # "nmj"
  BY <1>1, FormatIs
<1>3. f \in Seq(Token) /\ n \in Nat
  BY <1>2 DEF TextOf
<1>4. PICK e : e = <<Comma, v>>
  OBVIOUS
<1>5. e \in Seq(Token)
  <2>1. Comma \in Token /\ v \in Token
    BY DEF Token
  <2> QED
    BY <1>4, <2>1
<1>6. Len(e) = 2 /\ e[1] = Comma /\ e[2] = v
  BY <1>4
<1>7. PICK s : s = f \o e
  OBVIOUS
<1>8. s \in Seq(Token) /\ Len(s) = Len(f) + Len(e) /\ Holds(s, 0, f) /\ Holds(s, Len(f), e)
  BY <1>3, <1>5, <1>7, HoldsBoth, Zenon
<1> HIDE DEF n
<1>9. Len(s) = 26 + n /\ Holds(s, 24 + n, e)
  BY <1>2, <1>3, <1>6, <1>8
<1>10. s[24 + n + 1] = Comma /\ s[24 + n + 2] = v
  BY <1>6, <1>9 DEF Holds
<1>11. \A k \in 1 .. 24 + n : s[k] = f[k]
  <2>1. \A k \in 1 .. 24 + n : 0 + k = k
    BY <1>3
  <2> QED
    BY <1>2, <1>8, <2>1 DEF Holds
<1>12. TextOf(s, p)
  <2>1. /\ f[1] # Comma /\ f[2] = Comma /\ Holds(f, 2, p.flow.src)
        /\ f[10] = ":" /\ f[11] = p.sport /\ f[12] = Comma /\ Holds(f, 12, p.flow.dst)
        /\ f[20] = ":" /\ f[21] = p.dport /\ f[22] = Comma /\ Holds(f, 22, p.dev)
        /\ f[22 + n + 1] = Comma /\ f[22 + n + 2] = "TCP"
    BY <1>2 DEF TextOf, n
  <2>2. /\ Len(p.flow.src) = 7 /\ Len(p.flow.dst) = 7 /\ Len(p.dev) = n
    BY DeviceIs, KeyIs, AddrIs DEF n
  <2>3. ASSUME NEW m \in Nat, NEW t, Len(t) \in Nat, m + Len(t) <= 24 + n, Holds(f, m, t)
        PROVE  Holds(s, m, t)
    <3>1. \A k \in 1 .. Len(t) : m + k \in 1 .. 24 + n
      BY <1>3, <2>3
    <3> QED
      BY <1>11, <2>3, <3>1 DEF Holds
  <2>4. Holds(s, 2, p.flow.src) /\ Holds(s, 12, p.flow.dst) /\ Holds(s, 22, p.dev)
    <3>1. /\ 2 \in Nat /\ 12 \in Nat /\ 22 \in Nat /\ 7 \in Nat
          /\ 2 + 7 <= 24 + n /\ 12 + 7 <= 24 + n /\ 22 + n <= 24 + n
      BY <1>3
    <3>2. Holds(s, 2, p.flow.src)
      BY <2>1, <2>2, <2>3, <3>1
    <3>3. Holds(s, 12, p.flow.dst)
      BY <2>1, <2>2, <2>3, <3>1
    <3>4. Holds(s, 22, p.dev)
      BY <1>3, <2>1, <2>2, <2>3, <3>1
    <3> QED
      BY <3>2, <3>3, <3>4
  <2>5. \A k \in {1, 2, 10, 11, 12, 20, 21, 22, 22 + n + 1, 22 + n + 2} : k \in 1 .. 24 + n
    BY <1>3
  <2>6. /\ s[1] # Comma /\ s[2] = Comma /\ s[10] = ":" /\ s[11] = p.sport /\ s[12] = Comma
        /\ s[20] = ":" /\ s[21] = p.dport /\ s[22] = Comma
        /\ s[22 + n + 1] = Comma /\ s[22 + n + 2] = "TCP"
    BY <1>11, <2>1, <2>5
  <2>7. Len(s) \in Nat /\ 24 + n <= Len(s)
    BY <1>3, <1>9
  <2> QED
    BY <1>3, <1>8, <2>4, <2>6, <2>7, Zenon DEF TextOf, n
<1>13. Texts!Payload(Texts!Report(p, v)) = s
  <2>1. CASE p.way = "in"
    <3>1. <<>> \o f = f
      BY <1>3, ConcatEmptySeq
    <3>2. Texts!Report(p, v) = s
      BY <1>1, <1>4, <1>7, <2>1, <3>1, Zenon DEF Texts!Report, Comma
    <3>3. s[1] # "nmj"
      <4>1. 1 \in 1 .. 24 + n
        BY <1>3
      <4> QED
        BY <1>2, <1>11, <4>1
    <3> QED
      BY <3>2, <3>3 DEF Texts!Payload
  <2>2. CASE p.way # "in"
    <3>1. PICK o : o = <<"nmj", Blank>>
      OBVIOUS
    <3>2. o \in Seq(Token)
      <4>1. "nmj" \in Token /\ Blank \in Token
        BY DEF Token
      <4> QED
        BY <3>1, <4>1
    <3>3. Len(o) = 2 /\ o[1] = "nmj"
      BY <3>1
    <3>4. PICK r : r = o \o f \o e
      OBVIOUS
    <3>5. Texts!Report(p, v) = r
      BY <1>1, <1>4, <2>2, <3>1, <3>4, Zenon DEF Texts!Report, Comma, Blank
    <3>6. /\ r \in Seq(Token) /\ Len(r) = Len(o) + Len(f) + Len(e) /\ Holds(r, 0, o)
          /\ Holds(r, Len(o), f) /\ Holds(r, Len(o) + Len(f), e)
      <4> DEFINE j == o \o f \o e
      <4>1. /\ j \in Seq(Token) /\ Len(j) = Len(o) + Len(f) + Len(e)
            /\ Holds(j, 0, o) /\ Holds(j, Len(o), f) /\ Holds(j, Len(o) + Len(f), e)
        BY <1>3, <1>5, <3>2, ThreePieces, Zenon
      <4> QED
        BY <3>4, <4>1, Zenon
    <3>7. Len(o) \in Nat
      BY <3>3
    <3>8. Holds(r, Len(o), s)
      BY <1>3, <1>5, <1>7, <3>6, <3>7, HoldsJoin, Zenon
    <3>9. Len(r) = 2 + Len(s) /\ 2 + Len(s) <= Len(r) /\ 2 \in Nat
      BY <1>2, <1>3, <1>6, <1>8, <3>3, <3>6
    <3>10. Holds(r, 2, s)
      BY <3>3, <3>8
    <3>11. SubSeq(r, 2 + 1, 2 + Len(s)) = s
      BY <1>8, <3>6, <3>9, <3>10, HoldsIs, Zenon
    <3>12. r[1] = "nmj"
      <4>1. 1 \in 1 .. Len(o) /\ 0 + 1 = 1
        BY <3>3
      <4> QED
        BY <3>3, <3>6, <4>1 DEF Holds
    <3> QED
      BY <3>5, <3>9, <3>11, <3>12 DEF Texts!Payload
  <2> QED
    BY <2>1, <2>2
<1> QED
  BY <1>9, <1>10, <1>12, <1>13 DEF n

\* What the fold of Split computes over the first n tokens
CutStep(pieces, t) == IF t = Comma THEN Append(pieces, <<>>)
                      ELSE Append(Texts!Front(pieces), Append(Texts!Last(pieces), t))

CutsTo(g, s, n) == g = [m \in 0 .. n |-> IF m = 0 THEN << <<>> >> ELSE CutStep(g[m - 1], s[m])]

LEMMA CutsSome ==
  ASSUME NEW s, NEW k \in Nat
  PROVE  \E g : CutsTo(g, s, k)
<1> DEFINE Missing == {m \in Nat : ~ \E g : CutsTo(g, s, m)}
<1>1. SUFFICES ASSUME Missing # {} PROVE FALSE
  OBVIOUS
<1>2. PICK m \in Missing : \A l \in Missing : m <= l
  BY <1>1, Smallest
<1>3. m \in Nat /\ ~ \E g : CutsTo(g, s, m)
  OBVIOUS
<1>4. CASE m = 0
  <2> DEFINE g == [l \in 0 .. 0 |-> << <<>> >>]
  <2>1. g = [l \in 0 .. 0 |-> IF l = 0 THEN << <<>> >> ELSE CutStep(g[l - 1], s[l])]
    OBVIOUS
  <2> QED
    BY <1>3, <1>4, <2>1 DEF CutsTo
<1>5. CASE m # 0
  <2>1. m - 1 \in Nat /\ m - 1 \notin Missing
    BY <1>2, <1>3, <1>5
  <2>2. PICK h : CutsTo(h, s, m - 1)
    BY <2>1
  <2> DEFINE g == [l \in 0 .. m |-> IF l = m THEN CutStep(h[m - 1], s[m]) ELSE h[l]]
  <2>3. ASSUME NEW l \in 0 .. m PROVE g[l] = IF l = 0 THEN << <<>> >> ELSE CutStep(g[l - 1], s[l])
    <3>1. CASE l = m
      <4>1. m - 1 \in 0 .. m /\ m - 1 # m
        BY <1>3, <1>5
      <4>2. g[m - 1] = h[m - 1]
        BY <4>1
      <4> QED
        BY <1>5, <3>1, <4>2
    <3>2. CASE l # m /\ l # 0
      <4>1. l \in 0 .. m - 1 /\ l - 1 \in 0 .. m /\ l - 1 # m
        BY <1>3, <3>2
      <4>2. g[l - 1] = h[l - 1] /\ g[l] = h[l]
        BY <3>2, <4>1
      <4>3. h[l] = CutStep(h[l - 1], s[l])
        BY <2>2, <3>2, <4>1 DEF CutsTo
      <4> QED
        BY <3>2, <4>2, <4>3
    <3>3. CASE l = 0
      <4>1. l \in 0 .. m - 1 /\ l # m
        BY <1>3, <1>5, <3>3
      <4>2. h[l] = << <<>> >>
        BY <2>2, <3>3, <4>1 DEF CutsTo
      <4> QED
        BY <3>3, <4>1, <4>2
    <3> QED
      BY <3>1, <3>2, <3>3
  <2>4. g = [l \in 0 .. m |-> IF l = 0 THEN << <<>> >> ELSE CutStep(g[l - 1], s[l])]
    BY <2>3
  <2> QED
    BY <1>3, <2>4 DEF CutsTo
<1> QED
  BY <1>4, <1>5

\* A fold of Split, as a function
Cuts(g, s) == /\ g[0] = << <<>> >>
              /\ \A m \in 1 .. Len(s) : g[m] = CutStep(g[m - 1], s[m])

LEMMA SplitIs ==
  ASSUME NEW s, Len(s) \in Nat
  PROVE  \E g : Cuts(g, s) /\ Texts!Split(s) = g[Len(s)]
<1>1. PICK n \in Nat : n = Len(s)
  OBVIOUS
<1>2. Texts!Split(s) = (CHOOSE g : CutsTo(g, s, n))[n]
  BY <1>1 DEF Texts!Split, Texts!FoldLeft, CutsTo, CutStep, Comma
<1>3. PICK g : g = CHOOSE h : CutsTo(h, s, n)
  OBVIOUS
<1>4. CutsTo(g, s, n)
  BY <1>3, CutsSome
<1>5. g[0] = << <<>> >> /\ \A m \in 1 .. n : g[m] = CutStep(g[m - 1], s[m])
  BY <1>4 DEF CutsTo
<1> QED
  BY <1>1, <1>2, <1>3, <1>5 DEF Cuts

\* One more token, in pieces of which the last is t
LEMMA CutGrows ==
  ASSUME NEW q \in Seq(Seq(Token)), NEW t \in Seq(Token), NEW x \in Token, x # Comma
  PROVE  CutStep(Append(q, t), x) = Append(q, Append(t, x))
<1> DEFINE p == Append(q, t)
<1>1. p \in Seq(Seq(Token)) /\ Len(p) = Len(q) + 1 /\ Len(q) \in Nat
  OBVIOUS
<1>2. p[Len(p)] = t /\ \A k \in 1 .. Len(q) : p[k] = q[k]
  OBVIOUS
<1>3. Texts!Last(p) = t
  BY <1>2 DEF Texts!Last
<1>4. Texts!Front(p) = q
  <2>1. Texts!Front(p) = SubSeq(p, 1, Len(q))
    BY <1>1 DEF Texts!Front
  <2>2. 1 \in 1 .. Len(p) + 1 /\ Len(q) \in 0 .. Len(p) /\ 1 <= Len(q) + 1
        /\ Len(q) - 1 + 1 = Len(q) /\ \A k \in 1 .. Len(q) : 1 + k - 1 = k
    BY <1>1
  <2> HIDE DEF p
  <2>3. /\ SubSeq(p, 1, Len(q)) \in Seq(Seq(Token)) /\ Len(SubSeq(p, 1, Len(q))) = Len(q) - 1 + 1
        /\ \A k \in 1 .. Len(q) - 1 + 1 : SubSeq(p, 1, Len(q))[k] = p[1 + k - 1]
    BY <1>1, <2>2, PartOfSeq
  <2>4. Len(SubSeq(p, 1, Len(q))) = Len(q) /\ \A k \in 1 .. Len(q) : SubSeq(p, 1, Len(q))[k] = q[k]
    BY <1>2, <2>2, <2>3
  <2>5. SubSeq(p, 1, Len(q)) = q
    BY <2>3, <2>4
  <2> QED
    BY <2>1, <2>5
<1> HIDE DEF p
<1>5. CutStep(p, x) = Append(q, Append(t, x))
  BY <1>3, <1>4 DEF CutStep
<1> QED
  BY <1>5 DEF p

\* The pieces cut off before m are q.
At(g, m, q) == q \in Seq(Seq(Token)) /\ g[m] = Append(q, <<>>)

\* A stretch without comma becomes the last piece.
LEMMA PieceIs ==
  ASSUME NEW s \in Seq(Token), NEW g, Cuts(g, s), NEW q, NEW m \in Nat, At(g, m, q),
         NEW t \in Seq(Token), m + Len(t) <= Len(s), Holds(s, m, t),
         \A k \in 1 .. Len(t) : t[k] # Comma
  PROVE  /\ g[m + Len(t)] = Append(q, t) /\ Append(q, t) \in Seq(Seq(Token))
         /\ m + Len(t) + 1 <= Len(s) /\ s[m + Len(t) + 1] = Comma
            => g[m + Len(t) + 1] = Append(Append(q, t), <<>>)
<1> DEFINE Right(k) == g[m + k] = Append(q, SubSeq(t, 1, k))
           Wrong == {k \in Nat : k <= Len(t) /\ ~Right(k)}
<1>0. q \in Seq(Seq(Token)) /\ g[m] = Append(q, <<>>)
  BY DEF At
<1>1. Len(s) \in Nat /\ Len(t) \in Nat
  OBVIOUS
<1>2. \A k \in 1 .. Len(s) : g[k] = CutStep(g[k - 1], s[k])
  BY DEF Cuts
<1>3. Right(0)
  <2>1. m + 0 = m
    OBVIOUS
  <2>2. SubSeq(t, 1, 0) = <<>>
    OBVIOUS
  <2> QED
    BY <1>0, <2>1, <2>2
<1>4. ASSUME NEW k \in 1 .. Len(t), Right(k - 1) PROVE Right(k)
  <2> DEFINE u == SubSeq(t, 1, k - 1)
  <2>1. /\ k - 1 \in 0 .. Len(t) /\ k \in 0 .. Len(t) /\ m + k \in 1 .. Len(s)
        /\ (m + k) - 1 = m + (k - 1)
    BY <1>1
  <2>2. g[m + k] = CutStep(g[m + (k - 1)], t[k])
    BY <1>2, <2>1 DEF Holds
  <2>3. g[m + (k - 1)] = Append(q, u)
    BY <1>4
  <2>4. u \in Seq(Token) /\ t[k] \in Token /\ t[k] # Comma
    OBVIOUS
  <2>5. Append(u, t[k]) = SubSeq(t, 1, k)
    <3>1. /\ u \in Seq(Token) /\ Len(u) = k - 1 /\ \A j \in 1 .. k - 1 : u[j] = t[j]
      OBVIOUS
    <3>2. /\ SubSeq(t, 1, k) \in Seq(Token) /\ Len(SubSeq(t, 1, k)) = k
          /\ \A j \in 1 .. k : SubSeq(t, 1, k)[j] = t[j]
      OBVIOUS
    <3> HIDE DEF u
    <3>3. /\ Append(u, t[k]) \in Seq(Token) /\ Len(Append(u, t[k])) = k
          /\ \A j \in 1 .. k - 1 : Append(u, t[k])[j] = t[j]
          /\ Append(u, t[k])[k] = t[k]
      BY <2>4, <3>1
    <3>4. \A j \in 1 .. k : j \in 1 .. k - 1 \/ j = k
      OBVIOUS
    <3>5. \A j \in 1 .. k : Append(u, t[k])[j] = SubSeq(t, 1, k)[j]
      BY <3>2, <3>3, <3>4
    <3> QED
      BY <3>2, <3>3, <3>5
  <2> HIDE DEF u
  <2>6. CutStep(Append(q, u), t[k]) = Append(q, Append(u, t[k]))
    BY <1>0, <2>4, CutGrows
  <2> QED
    BY <2>2, <2>3, <2>5, <2>6
<1> HIDE DEF Right
<1>5. Wrong = {}
  <2>1. SUFFICES ASSUME Wrong # {} PROVE FALSE
    OBVIOUS
  <2>2. PICK k \in Wrong : \A l \in Wrong : k <= l
    BY <2>1, Smallest
  <2>3. k \in Nat /\ k # 0 /\ k <= Len(t)
    BY <1>3, <2>2
  <2>4. k - 1 \in Nat /\ k - 1 <= Len(t) /\ k - 1 \notin Wrong /\ k \in 1 .. Len(t)
    BY <1>1, <2>2, <2>3
  <2> QED
    BY <1>4, <2>2, <2>4
<1>6. Right(Len(t))
  BY <1>1, <1>5
<1>7. SubSeq(t, 1, Len(t)) = t
  OBVIOUS
<1>8. g[m + Len(t)] = Append(q, t)
  BY <1>6, <1>7 DEF Right
<1>9. Append(q, t) \in Seq(Seq(Token))
  BY <1>0
<1>10. ASSUME m + Len(t) + 1 <= Len(s), s[m + Len(t) + 1] = Comma
       PROVE  g[m + Len(t) + 1] = Append(Append(q, t), <<>>)
  <2>1. m + Len(t) + 1 \in 1 .. Len(s) /\ (m + Len(t) + 1) - 1 = m + Len(t)
    BY <1>1, <1>10
  <2>2. g[m + Len(t) + 1] = CutStep(g[m + Len(t)], Comma)
    BY <1>2, <1>10, <2>1
  <2> QED
    BY <1>8, <2>2 DEF CutStep
<1> QED
  BY <1>8, <1>9, <1>10

\* Pieces do not get fewer, and each comma makes one more.
LEMMA PiecesGrow ==
  ASSUME NEW s \in Seq(Token), NEW g, Cuts(g, s), NEW a \in 0 .. Len(s), NEW b \in a .. Len(s)
  PROVE  /\ Len(g[a]) \in Nat /\ Len(g[b]) \in Nat /\ Len(g[a]) <= Len(g[b])
         /\ b > a /\ s[b] = Comma => Len(g[b]) = Len(g[b - 1]) + 1
<1> DEFINE Good(k) == g[k] \in Seq(Seq(Token)) /\ Len(g[k]) \in Nat /\ Len(g[k]) >= 1
           Bad == {k \in Nat : k <= Len(s) /\ ~Good(k)}
<1>1. Len(s) \in Nat
  OBVIOUS
<1>2. g[0] = << <<>> >> /\ \A k \in 1 .. Len(s) : g[k] = CutStep(g[k - 1], s[k])
  BY DEF Cuts
<1>3. Good(0)
  <2>1. << <<>> >> \in Seq(Seq(Token)) /\ Len(<< <<>> >>) = 1
    OBVIOUS
  <2> QED
    BY <1>2, <2>1
<1>4. ASSUME NEW p \in Seq(Seq(Token)), Len(p) \in Nat, Len(p) >= 1, NEW x \in Token
      PROVE  /\ CutStep(p, x) \in Seq(Seq(Token))
             /\ Len(CutStep(p, x)) = IF x = Comma THEN Len(p) + 1 ELSE Len(p)
  <2>1. CASE x = Comma
    <3>1. <<>> \in Seq(Token)
      OBVIOUS
    <3>2. Append(p, <<>>) \in Seq(Seq(Token)) /\ Len(Append(p, <<>>)) = Len(p) + 1
      BY <3>1
    <3> QED
      BY <2>1, <3>2 DEF CutStep
  <2>2. CASE x # Comma
    <3>1. Texts!Front(p) \in Seq(Seq(Token)) /\ Len(Texts!Front(p)) = Len(p) - 1
      <4>1. 1 \in 1 .. Len(p) + 1 /\ Len(p) - 1 \in 0 .. Len(p) /\ 1 <= Len(p) - 1 + 1
            /\ Len(p) - 1 - 1 + 1 = Len(p) - 1
        BY <1>4
      <4> QED
        BY <4>1, PartOfSeq DEF Texts!Front
    <3>2. Texts!Last(p) \in Seq(Token)
      <4>1. Len(p) \in 1 .. Len(p)
        BY <1>4
      <4> QED
        BY <4>1 DEF Texts!Last
    <3>3. PICK f, l : f = Texts!Front(p) /\ l = Append(Texts!Last(p), x)
      OBVIOUS
    <3>4. l \in Seq(Token)
      BY <3>2, <3>3
    <3>5. Append(f, l) \in Seq(Seq(Token)) /\ Len(Append(f, l)) = Len(f) + 1
      BY <3>1, <3>3, <3>4
    <3>6. CutStep(p, x) = Append(f, l)
      BY <2>2, <3>3 DEF CutStep
    <3> QED
      BY <1>4, <2>2, <3>1, <3>3, <3>5, <3>6
  <2> QED
    BY <2>1, <2>2
<1>5. \A k \in 1 .. Len(s) : s[k] \in Token
  OBVIOUS
<1>6. ASSUME NEW k \in 1 .. Len(s), Good(k - 1)
      PROVE  /\ Good(k) /\ Len(g[k - 1]) <= Len(g[k])
             /\ s[k] = Comma => Len(g[k]) = Len(g[k - 1]) + 1
  <2>1. g[k] = CutStep(g[k - 1], s[k])
    BY <1>2
  <2> QED
    <3>1. PICK p : p = g[k - 1]
      OBVIOUS
    <3>2. p \in Seq(Seq(Token)) /\ Len(p) \in Nat /\ Len(p) >= 1 /\ s[k] \in Token
      BY <1>5, <1>6, <3>1
    <3>3. PICK x \in Token : x = s[k]
      BY <3>2
    <3>4. PICK r : r = CutStep(p, x)
      OBVIOUS
    <3>5. r \in Seq(Seq(Token))
      BY <1>4, <3>2, <3>4, Zenon
    <3>6. Len(r) = IF x = Comma THEN Len(p) + 1 ELSE Len(p)
      BY <1>4, <3>2, <3>4, Zenon
    <3>7. Len(p) \in Nat /\ Len(p) >= 1
      BY <3>2
    <3>8. Len(r) \in Nat /\ Len(r) >= 1 /\ Len(p) <= Len(r) /\ (x = Comma => Len(r) = Len(p) + 1)
      BY <3>6, <3>7
    <3>9. g[k] = r
      BY <2>1, <3>1, <3>3, <3>4
    <3> QED
      BY <3>1, <3>3, <3>5, <3>8, <3>9, Zenon
<1> HIDE DEF Good
<1>7. Bad = {}
  <2>1. SUFFICES ASSUME Bad # {} PROVE FALSE
    OBVIOUS
  <2>2. PICK k \in Bad : \A l \in Bad : k <= l
    BY <2>1, Smallest
  <2>3. k \in Nat /\ k # 0 /\ k <= Len(s)
    BY <1>3, <2>2
  <2>4. k - 1 \in Nat /\ k - 1 <= Len(s) /\ k - 1 \notin Bad /\ k \in 1 .. Len(s)
    BY <1>1, <2>2, <2>3
  <2> QED
    BY <1>6, <2>2, <2>4
<1>8. \A k \in 0 .. Len(s) : Good(k)
  BY <1>1, <1>7
<1>9. ASSUME NEW k \in 1 .. Len(s)
      PROVE  /\ Len(g[k - 1]) <= Len(g[k]) /\ Len(g[k - 1]) \in Nat /\ Len(g[k]) \in Nat
             /\ s[k] = Comma => Len(g[k]) = Len(g[k - 1]) + 1
  <2>1. k - 1 \in 0 .. Len(s) /\ k \in 0 .. Len(s)
    BY <1>1
  <2>2. Good(k - 1) /\ Good(k)
    BY <1>8, <2>1
  <2> QED
    BY <1>6, <2>2 DEF Good
<1> DEFINE Less == {k \in Nat : a <= k /\ k <= Len(s) /\ ~(Len(g[a]) <= Len(g[k]))}
<1>10. \A k \in 0 .. Len(s) : Len(g[k]) \in Nat
  BY <1>8 DEF Good
<1>11. Less = {}
  <2>1. SUFFICES ASSUME Less # {} PROVE FALSE
    OBVIOUS
  <2>2. PICK k \in Less : \A l \in Less : k <= l
    BY <2>1, Smallest
  <2>3. k \in Nat /\ a <= k /\ k # a /\ k <= Len(s)
    BY <1>10, <2>2
  <2>4. /\ k - 1 \in Nat /\ a <= k - 1 /\ k - 1 <= Len(s) /\ k - 1 \notin Less
        /\ k \in 1 .. Len(s)
    BY <1>1, <2>2, <2>3
  <2>5. Len(g[a]) <= Len(g[k - 1]) /\ Len(g[k - 1]) <= Len(g[k])
    BY <1>9, <2>4
  <2> QED
    BY <1>9, <1>10, <2>2, <2>4, <2>5
<1>12. a \in 0 .. Len(s) /\ b \in 0 .. Len(s) /\ b \in Nat /\ a <= b /\ b <= Len(s)
  BY <1>1
<1>13. b > a => b \in 1 .. Len(s)
  BY <1>1
<1> QED
  BY <1>9, <1>10, <1>11, <1>12, <1>13

\* The columns of an address and its port
Column(a, port) == a \o <<":", port>>

LEMMA ColumnIs ==
  ASSUME Texts!AddrAssumption, NEW a \in Addr, NEW port \in TextPort
  PROVE  /\ Column(a, port) \in Seq(Token) /\ Len(Column(a, port)) = 9
         /\ Holds(Column(a, port), 0, a) /\ Column(a, port)[8] = ":"
         /\ \A k \in 1 .. 9 : Column(a, port)[k] # Comma
         /\ \A s : \A m \in Nat : Holds(s, m, a) /\ s[m + 8] = ":" /\ s[m + 9] = port
                => Holds(s, m, Column(a, port))
<1>1. PICK c : c = <<":", port>>
  OBVIOUS
<1>2. c \in Seq(Token)
  <2>1. ":" \in Token /\ port \in Token
    BY DEF Token
  <2> QED
    BY <1>1, <2>1
<1>3. Len(c) = 2 /\ c[1] = ":" /\ c[2] = port
  BY <1>1
<1>4. a \in Seq(Token)
  BY AddrIs
<1>5. Len(a) = 7 /\ \A k \in 1 .. 7 : a[k] # Comma
  <2>1. Len(a) = 7 /\ \A k \in 1 .. Len(a) : a[k] # Comma
    BY AddrIs
  <2> QED
    BY <2>1
<1>6. PICK t : t = a \o c
  OBVIOUS
<1>7. t \in Seq(Token) /\ Len(t) = Len(a) + Len(c) /\ Holds(t, 0, a) /\ Holds(t, Len(a), c)
  BY <1>2, <1>4, <1>6, HoldsBoth, Zenon
<1>8. Len(t) = 9
  BY <1>3, <1>5, <1>7
<1>9. Holds(t, 7, c)
  BY <1>5, <1>7
<1>10. t[8] = ":" /\ t[9] = port
  <2>1. t[7 + 1] = c[1] /\ t[7 + 2] = c[2]
    BY <1>3, <1>9 DEF Holds
  <2> QED
    BY <1>3, <2>1
<1>11. \A k \in 1 .. 7 : t[k] = a[k]
  <2>1. \A k \in 1 .. 7 : 0 + k = k
    OBVIOUS
  <2> QED
    BY <1>5, <1>7, <2>1 DEF Holds
<1>12. ":" # Comma /\ port # Comma
  BY Zenon DEF Texts!AddrAssumption, Comma
<1>13. \A k \in 1 .. 9 : k \in 1 .. 7 \/ k = 8 \/ k = 9
  OBVIOUS
<1>14. \A k \in 1 .. 9 : t[k] # Comma
  BY <1>5, <1>10, <1>11, <1>12, <1>13
<1>15. ASSUME NEW s, NEW m \in Nat, Holds(s, m, a), s[m + 8] = ":", s[m + 9] = port
       PROVE  Holds(s, m, t)
  <2>1. \A k \in 1 .. 7 : s[m + k] = a[k]
    BY <1>5, <1>15 DEF Holds
  <2>2. \A k \in 1 .. 9 : s[m + k] = t[k]
    BY <1>10, <1>11, <1>13, <1>15, <2>1
  <2> QED
    BY <1>8, <2>2 DEF Holds
<1>16. Column(a, port) = t
  BY <1>1, <1>6, Zenon DEF Column
<1> QED
  BY <1>7, <1>8, <1>10, <1>14, <1>15, <1>16, Zenon

\* The text from m + 1 to j is t and a comma; the text from m + 1 on is t; q has k
\* pieces.
Between(s, m, t, j) == /\ Holds(s, m, t) /\ \A k \in 1 .. Len(t) : t[k] # Comma
                       /\ m + Len(t) + 1 = j /\ j <= Len(s) /\ s[j] = Comma

Ends(s, m, t) == /\ Holds(s, m, t) /\ \A k \in 1 .. Len(t) : t[k] # Comma
                 /\ m + Len(t) = Len(s)

Sized(q, k) == q \in Seq(Seq(Token)) /\ Len(q) = k

LEMMA NextPiece ==
  ASSUME NEW s \in Seq(Token), NEW g, Cuts(g, s), NEW q, NEW m \in Nat, NEW j,
         NEW t \in Seq(Token), At(g, m, q), Between(s, m, t, j)
  PROVE  At(g, j, Append(q, t))
<1>1. /\ Holds(s, m, t) /\ \A k \in 1 .. Len(t) : t[k] # Comma
      /\ m + Len(t) + 1 = j /\ j <= Len(s) /\ s[j] = Comma
  BY DEF Between
<1>2. Len(s) \in Nat /\ Len(t) \in Nat
  OBVIOUS
<1>3. m + Len(t) <= Len(s)
  BY <1>1, <1>2
<1>4. /\ g[m + Len(t)] = Append(q, t) /\ Append(q, t) \in Seq(Seq(Token))
      /\ m + Len(t) + 1 <= Len(s) /\ s[m + Len(t) + 1] = Comma
         => g[m + Len(t) + 1] = Append(Append(q, t), <<>>)
  BY <1>1, <1>3, PieceIs
<1> QED
  BY <1>1, <1>4 DEF At

LEMMA LastPiece ==
  ASSUME NEW s \in Seq(Token), NEW g, Cuts(g, s), NEW q, NEW m \in Nat,
         NEW t \in Seq(Token), At(g, m, q), Ends(s, m, t)
  PROVE  g[Len(s)] = Append(q, t)
<1>1. /\ Holds(s, m, t) /\ \A k \in 1 .. Len(t) : t[k] # Comma
      /\ m + Len(t) = Len(s)
  BY DEF Ends
<1>2. Len(s) \in Nat
  OBVIOUS
<1>3. m + Len(t) <= Len(s)
  BY <1>1, <1>2
<1>4. /\ g[m + Len(t)] = Append(q, t) /\ Append(q, t) \in Seq(Seq(Token))
      /\ m + Len(t) + 1 <= Len(s) /\ s[m + Len(t) + 1] = Comma
         => g[m + Len(t) + 1] = Append(Append(q, t), <<>>)
  BY <1>1, <1>3, PieceIs
<1> QED
  BY <1>1, <1>4

LEMMA OneMorePiece ==
  ASSUME NEW q, NEW k \in Nat, Sized(q, k), NEW t \in Seq(Token)
  PROVE  /\ Sized(Append(q, t), k + 1) /\ Append(q, t)[k + 1] = t
         /\ \A i \in 1 .. k : Append(q, t)[i] = q[i]
<1>1. q \in Seq(Seq(Token)) /\ Len(q) = k
  BY DEF Sized
<1>2. /\ Append(q, t) \in Seq(Seq(Token)) /\ Len(Append(q, t)) = Len(q) + 1
      /\ Append(q, t)[Len(q) + 1] = t /\ \A i \in 1 .. Len(q) : Append(q, t)[i] = q[i]
  BY <1>1
<1> QED
  BY <1>1, <1>2 DEF Sized

\* f is how many pieces there are at each place.
Sizes(s, g, l, f) == /\ f \in [0 .. l -> Nat] /\ \A a \in 0 .. l : f[a] = Len(g[a])
                     /\ \A a, b \in 0 .. l : a <= b => f[a] <= f[b]
                     /\ \A b \in 1 .. l : s[b] = Comma => f[b] = f[b - 1] + 1

LEMMA SizesGrow ==
  ASSUME NEW s \in Seq(Token), NEW g, Cuts(g, s), NEW l \in Nat, l = Len(s)
  PROVE  \E f : Sizes(s, g, l, f)
<1> DEFINE f == [a \in 0 .. l |-> Len(g[a])]
<1>1. ASSUME NEW a \in 0 .. l, NEW b \in 0 .. l, a <= b
      PROVE  /\ Len(g[a]) \in Nat /\ Len(g[b]) \in Nat /\ Len(g[a]) <= Len(g[b])
             /\ b > a /\ s[b] = Comma => Len(g[b]) = Len(g[b - 1]) + 1
  <2>1. a \in 0 .. Len(s) /\ b \in a .. Len(s)
    BY <1>1
  <2> QED
    BY <2>1, PiecesGrow
<1>2. \A a \in 0 .. l : Len(g[a]) \in Nat
  <2>1. \A a \in 0 .. l : a <= a
    OBVIOUS
  <2> QED
    BY <1>1, <2>1
<1>3. f \in [0 .. l -> Nat] /\ \A a \in 0 .. l : f[a] = Len(g[a])
  BY <1>2
<1>4. \A a, b \in 0 .. l : a <= b => f[a] <= f[b]
  BY <1>1
<1>5. ASSUME NEW b \in 1 .. l, s[b] = Comma PROVE f[b] = f[b - 1] + 1
  <2>1. b - 1 \in 0 .. l /\ b \in 0 .. l /\ b - 1 <= b /\ b > b - 1
    OBVIOUS
  <2>2. Len(g[b]) = Len(g[b - 1]) + 1
    BY <1>1, <1>5, <2>1
  <2> QED
    BY <1>3, <2>1, <2>2
<1> HIDE DEF f
<1> QED
  BY <1>3, <1>4, <1>5 DEF Sizes

\* Without a comma in the device's name there are six columns, else more.
LEMMA RowIs ==
  ASSUME Texts!AddrAssumption, NEW p \in Texts!Packet, NEW v \in {"0", "1"}
  PROVE  /\ Texts!Count(p.dev, ",") = 0 =>
              Texts!Row(Texts!Report(p, v)) = {[saddr |-> Column(p.flow.src, p.sport),
                                    daddr |-> Column(p.flow.dst, p.dport), drop |-> <<v>>]}
         /\ Texts!Count(p.dev, ",") # 0 => Texts!Row(Texts!Report(p, v)) = {}
<1>1. PICK s : /\ s = Texts!Payload(Texts!Report(p, v)) /\ TextOf(s, p) /\ Len(s) = 26 + Len(p.dev)
               /\ s[24 + Len(p.dev) + 1] = Comma /\ s[24 + Len(p.dev) + 2] = v
  BY ReportIs
<1> DEFINE n == Len(p.dev)
           t1 == <<s[1]>>
           t2 == Column(p.flow.src, p.sport)
           t3 == Column(p.flow.dst, p.dport)
           t5 == <<"TCP">>
           t6 == <<v>>
           q1 == Append(<<>>, t1)
           q2 == Append(q1, t2)
           q3 == Append(q2, t3)
<1>2. /\ p.dev \in Seq(Token) /\ p.flow.src \in Addr /\ p.flow.dst \in Addr
      /\ p.sport \in TextPort /\ p.dport \in TextPort
  BY DeviceIs, KeyIs
<1>3. /\ s \in Seq(Token) /\ n \in Nat /\ s[1] # Comma /\ s[2] = Comma
      /\ Holds(s, 2, p.flow.src) /\ s[10] = ":" /\ s[11] = p.sport /\ s[12] = Comma
      /\ Holds(s, 12, p.flow.dst) /\ s[20] = ":" /\ s[21] = p.dport /\ s[22] = Comma
      /\ Holds(s, 22, p.dev) /\ s[22 + n + 1] = Comma /\ s[22 + n + 2] = "TCP"
      /\ Len(s) = 26 + n /\ s[24 + n + 1] = Comma /\ s[24 + n + 2] = v
  BY <1>1 DEF TextOf
<1>4. PICK g : Cuts(g, s) /\ Texts!Split(s) = g[26 + n]
  <2>1. Len(s) \in Nat
    BY <1>3
  <2> QED
    BY <1>3, <2>1, SplitIs
<1>5. s \in Seq(Token)
  BY <1>3
<1>6. /\ s[1] # Comma /\ s[2] = Comma /\ Holds(s, 2, p.flow.src) /\ s[10] = ":" /\ s[11] = p.sport
      /\ s[12] = Comma /\ Holds(s, 12, p.flow.dst) /\ s[20] = ":" /\ s[21] = p.dport /\ s[22] = Comma
  BY <1>3
<1>7. /\ Holds(s, 22, p.dev) /\ s[22 + n + 1] = Comma /\ s[22 + n + 2] = "TCP"
      /\ Len(s) = 26 + n /\ s[24 + n + 1] = Comma /\ s[24 + n + 2] = v /\ n \in Nat
  BY <1>3
<1>8. t2 \in Seq(Token) /\ t3 \in Seq(Token)
  BY <1>2, ColumnIs
<1>9. /\ Len(t2) = 9 /\ \A k \in 1 .. 9 : t2[k] # Comma
      /\ Len(t3) = 9 /\ \A k \in 1 .. 9 : t3[k] # Comma
  BY <1>2, ColumnIs
<1>10. Holds(s, 2, t2) /\ Holds(s, 12, t3)
  <2>1. 2 \in Nat /\ 12 \in Nat /\ 2 + 8 = 10 /\ 2 + 9 = 11 /\ 12 + 8 = 20 /\ 12 + 9 = 21
    OBVIOUS
  <2> QED
    BY <1>2, <1>6, <2>1, ColumnIs
<1>11. t1 \in Seq(Token) /\ t5 \in Seq(Token) /\ t6 \in Seq(Token)
  <2>1. s[1] \in Token
    <3>1. 1 \in 1 .. Len(s)
      BY <1>7
    <3> QED
      BY <1>5, <3>1
  <2>2. "TCP" \in Token /\ v \in Token
    BY DEF Token
  <2> QED
    BY <2>1, <2>2
<1>12. /\ Len(t1) = 1 /\ t1[1] = s[1] /\ Len(t5) = 1 /\ t5[1] = "TCP" /\ Len(t6) = 1 /\ t6[1] = v
  OBVIOUS
<1>13. "TCP" # Comma /\ v # Comma
  BY DEF Comma
<1> HIDE DEF n, t1, t2, t3, t5, t6
<1>14. Cuts(g, s) /\ \A k \in 1 .. Len(t2) : t2[k] # Comma
  BY <1>4, <1>9
<1>15. At(g, 2, q1) /\ Sized(q1, 1)
  <2> DEFINE e == <<>>
  <2>1. e \in Seq(Seq(Token)) /\ Len(e) = 0 /\ 0 \in Nat /\ 0 + 1 = 1
    OBVIOUS
  <2> HIDE DEF e
  <2>2. Sized(e, 0) /\ At(g, 0, e)
    BY <1>4, <2>1 DEF Cuts, At, Sized, e
  <2>3. Between(s, 0, t1, 2)
    <3>1. Len(t1) = 1 /\ 0 + 1 + 1 = 2 /\ 0 + 1 = 1
      BY <1>12
    <3>2. \A k \in 1 .. 1 : k = 1
      OBVIOUS
    <3>3. Holds(s, 0, t1) /\ \A k \in 1 .. Len(t1) : t1[k] # Comma
      BY <1>6, <1>12, <3>1, <3>2 DEF Holds
    <3>4. 2 <= Len(s)
      BY <1>7
    <3> QED
      BY <1>6, <3>1, <3>3, <3>4 DEF Between
  <2>4. At(g, 2, Append(e, t1))
    BY <1>5, <1>11, <1>14, <2>1, <2>2, <2>3, NextPiece
  <2>5. Sized(Append(e, t1), 0 + 1)
    BY <1>11, <2>1, <2>2, OneMorePiece
  <2> QED
    BY <2>1, <2>4, <2>5 DEF q1, e
<1>16. 2 \in Nat /\ 12 \in Nat /\ 22 \in Nat
  OBVIOUS
<1>17. 1 \in Nat /\ 3 \in Nat /\ 4 \in Nat /\ 5 \in Nat
  OBVIOUS
<1>18. 1 + 1 = 2 /\ 2 + 1 = 3 /\ 3 + 1 = 4 /\ 4 + 1 = 5 /\ 5 + 1 = 6
  OBVIOUS
<1>19. /\ 2 \in 1 .. 2 /\ 2 \in 1 .. 3 /\ 3 \in 1 .. 3 /\ 2 \in 1 .. 4 /\ 3 \in 1 .. 4
        /\ 2 \in 1 .. 5 /\ 3 \in 1 .. 5
  OBVIOUS
<1> HIDE DEF q1
<1>20. At(g, 12, q2) /\ Sized(q2, 2) /\ q2[2] = t2
  <2>1. Between(s, 2, t2, 12)
    <3>1. 2 + Len(t2) + 1 = 12 /\ 12 <= Len(s)
      BY <1>7, <1>9
    <3> QED
      BY <1>6, <1>10, <1>14, <3>1 DEF Between
  <2>2. At(g, 12, Append(q1, t2))
    BY <1>5, <1>8, <1>14, <1>15, <1>16, <2>1, NextPiece
  <2>3. Sized(Append(q1, t2), 1 + 1) /\ Append(q1, t2)[1 + 1] = t2
    BY <1>8, <1>15, <1>17, OneMorePiece, Zenon
  <2> QED
    BY <1>18, <2>2, <2>3 DEF q2
<1> HIDE DEF q2
<1>21. At(g, 22, q3) /\ Sized(q3, 3) /\ q3[2] = t2 /\ q3[3] = t3
  <2>1. Between(s, 12, t3, 22)
    <3>1. 12 + Len(t3) + 1 = 22 /\ 22 <= Len(s)
      BY <1>7, <1>9
    <3>2. \A k \in 1 .. Len(t3) : t3[k] # Comma
      BY <1>9
    <3> QED
      BY <1>6, <1>10, <3>1, <3>2 DEF Between
  <2>2. At(g, 22, Append(q2, t3))
    BY <1>5, <1>8, <1>14, <1>16, <1>20, <2>1, NextPiece
  <2>3. /\ Sized(Append(q2, t3), 2 + 1) /\ Append(q2, t3)[2 + 1] = t3
        /\ \A i \in 1 .. 2 : Append(q2, t3)[i] = q2[i]
    BY <1>8, <1>16, <1>20, OneMorePiece, Zenon
  <2>4. Append(q2, t3)[2] = q2[2]
    BY <1>19, <2>3, Zenon
  <2> QED
    BY <1>18, <1>20, <2>2, <2>3, <2>4, Zenon DEF q3
<1> HIDE DEF q3
<1>22. Texts!Count(p.dev, ",") = 0 <=> \A k \in 1 .. n : p.dev[k] # Comma
  <2> DEFINE K == {k \in 1 .. n : p.dev[k] = Comma}
  <2>1. IsFiniteSet(K)
    <3>1. IsFiniteSet(1 .. n)
      BY <1>7, FS_Interval
    <3> QED
      BY <3>1, FS_Subset
  <2>2. Cardinality(K) = 0 <=> K = {}
    BY <2>1, FS_EmptySet
  <2>3. Texts!Count(p.dev, ",") = Cardinality(K)
    BY TextsCardinality, Zenon DEF Texts!Count, Comma, n
  <2> QED
    BY <2>2, <2>3
<1>23. ASSUME \A k \in 1 .. n : p.dev[k] # Comma
       PROVE  Texts!Row(Texts!Report(p, v)) = {[saddr |-> t2, daddr |-> t3, drop |-> t6]}
  <2> DEFINE q4 == Append(q3, p.dev)
             q5 == Append(q4, t5)
             q6 == Append(q5, t6)
  <2>1. PICK j1, j2 \in Nat : j1 = 22 + n + 1 /\ j2 = 24 + n + 1
    BY <1>7
  <2>2. j1 + 1 = 22 + n + 2 /\ j1 + 1 + 1 = j2 /\ j2 + 1 = 26 + n /\ j1 <= Len(s) /\ j2 <= Len(s)
        /\ j2 + 1 = Len(s) /\ j2 + 1 = 24 + n + 2
    BY <1>7, <2>1
  <2>3. \A k \in 1 .. 1 : k = 1
    OBVIOUS
  <2>4. At(g, j1, q4) /\ Sized(q4, 4) /\ q4[2] = t2 /\ q4[3] = t3
    <3>1. Between(s, 22, p.dev, j1)
      BY <1>7, <1>23, <2>1, <2>2 DEF Between, n
    <3>2. At(g, j1, Append(q3, p.dev))
      BY <1>2, <1>5, <1>14, <1>16, <1>21, <3>1, NextPiece
    <3>3. /\ Sized(Append(q3, p.dev), 3 + 1)
          /\ \A i \in 1 .. 3 : Append(q3, p.dev)[i] = q3[i]
      BY <1>2, <1>17, <1>21, OneMorePiece, Zenon
    <3>4. Append(q3, p.dev)[2] = q3[2] /\ Append(q3, p.dev)[3] = q3[3]
      BY <1>19, <3>3, Zenon
    <3> QED
      BY <1>18, <1>21, <3>2, <3>3, <3>4, Zenon
  <2> HIDE DEF q4
  <2>5. At(g, j2, q5) /\ Sized(q5, 5) /\ q5[2] = t2 /\ q5[3] = t3
    <3>1. Holds(s, j1, t5) /\ \A k \in 1 .. Len(t5) : t5[k] # Comma
      BY <1>7, <1>12, <1>13, <2>2, <2>3 DEF Holds
    <3>2. Between(s, j1, t5, j2)
      BY <1>7, <1>12, <2>1, <2>2, <3>1 DEF Between
    <3>3. At(g, j2, Append(q4, t5))
      BY <1>5, <1>11, <1>14, <2>1, <2>4, <3>2, NextPiece
    <3>4. /\ Sized(Append(q4, t5), 4 + 1)
          /\ \A i \in 1 .. 4 : Append(q4, t5)[i] = q4[i]
      BY <1>11, <1>17, <2>4, OneMorePiece, Zenon
    <3>5. Append(q4, t5)[2] = q4[2] /\ Append(q4, t5)[3] = q4[3]
      BY <1>19, <3>4, Zenon
    <3> QED
      BY <1>18, <2>4, <3>3, <3>4, <3>5, Zenon
  <2> HIDE DEF q5
  <2>6. g[Len(s)] = q6 /\ Sized(q6, 6) /\ q6[2] = t2 /\ q6[3] = t3 /\ q6[6] = t6
    <3>1. Holds(s, j2, t6) /\ \A k \in 1 .. Len(t6) : t6[k] # Comma
      BY <1>7, <1>12, <1>13, <2>2, <2>3 DEF Holds
    <3>2. Ends(s, j2, t6)
      BY <1>12, <2>2, <3>1 DEF Ends
    <3>3. g[Len(s)] = Append(q5, t6)
      BY <1>5, <1>11, <1>14, <2>1, <2>5, <3>2, LastPiece
    <3>4. /\ Sized(Append(q5, t6), 5 + 1) /\ Append(q5, t6)[5 + 1] = t6
          /\ \A i \in 1 .. 5 : Append(q5, t6)[i] = q5[i]
      BY <1>11, <1>17, <2>5, OneMorePiece, Zenon
    <3>5. Append(q5, t6)[2] = q5[2] /\ Append(q5, t6)[3] = q5[3]
      BY <1>19, <3>4, Zenon
    <3> QED
      BY <1>18, <2>5, <3>3, <3>4, <3>5, Zenon
  <2> HIDE DEF q6
  <2>7. Texts!Split(Texts!Payload(Texts!Report(p, v))) = q6 /\ Len(q6) = 6
    BY <1>1, <1>4, <1>7, <2>6 DEF Sized
  <2> QED
    BY <2>6, <2>7 DEF Texts!Row, Texts!Columns
<1>24. ASSUME NEW k \in 1 .. n, p.dev[k] = Comma PROVE Texts!Row(Texts!Report(p, v)) = {}
  <2>1. s[22 + k] = Comma
    BY <1>7, <1>24 DEF Holds, n
  <2>2. PICK l \in Nat : l = Len(s) /\ l = 26 + n
    BY <1>7
  <2>3. PICK f \in [0 .. l -> Nat] :
           /\ \A a \in 0 .. l : f[a] = Len(g[a])
           /\ \A a, b \in 0 .. l : a <= b => f[a] <= f[b]
           /\ \A b \in 1 .. l : s[b] = Comma => f[b] = f[b - 1] + 1
    <3>1. Cuts(g, s) /\ s \in Seq(Token) /\ l \in Nat /\ l = Len(s)
      BY <1>5, <1>14, <2>2
    <3>2. \E f : Sizes(s, g, l, f)
      BY <3>1, SizesGrow
    <3> QED
      BY <3>2 DEF Sizes
  <2>4. f[22] = 4
    <3>1. Append(q3, <<>>) = g[22] /\ <<>> \in Seq(Token)
      BY <1>21 DEF At
    <3>2. Sized(Append(q3, <<>>), 3 + 1)
      BY <1>17, <1>21, <3>1, OneMorePiece, Zenon
    <3>3. 22 \in 0 .. l
      BY <1>7, <2>2
    <3> QED
      BY <1>18, <2>3, <3>1, <3>2, <3>3 DEF Sized
  <2>5. /\ 22 \in 0 .. l /\ 22 + k - 1 \in 0 .. l /\ 22 + k \in 1 .. l /\ 22 + k \in 0 .. l
        /\ 22 + n \in 0 .. l /\ 22 + n + 1 \in 1 .. l /\ 22 + n + 1 \in 0 .. l
        /\ 24 + n \in 0 .. l /\ 24 + n + 1 \in 1 .. l /\ 24 + n + 1 \in 0 .. l /\ 26 + n \in 0 .. l
        /\ 22 + n + 1 - 1 = 22 + n /\ 24 + n + 1 - 1 = 24 + n
        /\ 22 <= 22 + k - 1 /\ 22 + k <= 22 + n /\ 22 + n + 1 <= 24 + n /\ 24 + n + 1 <= 26 + n
    BY <1>7, <2>2
  <2>6. /\ f[22] <= f[22 + k - 1] /\ f[22 + k] = f[22 + k - 1] + 1 /\ f[22 + k] <= f[22 + n]
        /\ f[22 + n + 1] = f[22 + n] + 1 /\ f[22 + n + 1] <= f[24 + n]
        /\ f[24 + n + 1] = f[24 + n] + 1 /\ f[24 + n + 1] <= f[26 + n]
    BY <1>7, <2>1, <2>3, <2>5
  <2>7. PICK a, b, c, d, e, h, i \in Nat :
          /\ a = f[22 + k - 1] /\ b = f[22 + k] /\ c = f[22 + n] /\ d = f[22 + n + 1]
          /\ e = f[24 + n] /\ h = f[24 + n + 1] /\ i = f[26 + n]
    BY <2>3, <2>5
  <2>8. i # 6
    <3>1. 4 <= a /\ b = a + 1 /\ b <= c /\ d = c + 1 /\ d <= e /\ h = e + 1 /\ h <= i
      BY <2>4, <2>6, <2>7
    <3> QED
      BY <3>1
  <2>9. Len(g[26 + n]) # 6
    BY <2>3, <2>5, <2>7, <2>8
  <2> QED
    BY <1>1, <1>4, <2>9, Zenon DEF Texts!Row, Texts!Columns
<1> QED
  BY <1>22, <1>23, <1>24, Zenon DEF t2, t3, t6

LEMMA HostIs ==
  ASSUME Texts!AddrAssumption, NEW a \in Addr, NEW port \in TextPort
  PROVE  /\ Texts!Find(Column(a, port), 1, ":") - 1 = 7 /\ SubSeq(Column(a, port), 1, 7) = a
<1>1. PICK c : c = Column(a, port)
  OBVIOUS
<1>2. c \in Seq(Token) /\ Holds(c, 0, a) /\ c[8] = ":"
  BY <1>1, ColumnIs
<1>3. Len(c) = 9
  BY <1>1, ColumnIs
<1>4. a \in Seq(Token)
  BY AddrIs
<1>5. Len(a) = 7 /\ \A i \in 1 .. Len(a) : a[i] # ":"
  BY AddrIs
<1>6. \A j \in 1 .. 8 - 1 : c[j] # ":"
  <2>1. \A j \in 1 .. 8 - 1 : j \in 1 .. 7 /\ 0 + j = j
    OBVIOUS
  <2> QED
    BY <1>2, <1>5, <2>1 DEF Holds
<1>7. Texts!Find(c, 1, ":") = 8
  <2>1. Len(c) \in Nat /\ 1 \in Nat /\ 8 \in 1 .. Len(c)
    BY <1>3
  <2> QED
    BY <1>2, <1>6, <2>1, FindIs
<1>8. SubSeq(c, 1, 7) = a
  <2>1. 0 \in Nat /\ 0 + Len(a) <= Len(c) /\ 0 + 1 = 1 /\ 0 + Len(a) = 7
    BY <1>3, <1>5
  <2>2. SubSeq(c, 0 + 1, 0 + Len(a)) = a
    BY <1>2, <1>4, <2>1, HoldsIs
  <2> QED
    BY <2>1, <2>2
<1>9. 8 - 1 = 7
  OBVIOUS
<1> QED
  BY <1>1, <1>7, <1>8, <1>9

\* onSkbClick makes the rule of the flow of the row.
LEMMA RuleIs ==
  ASSUME Texts!AddrAssumption, NEW f \in Texts!Flow, NEW sport \in TextPort, NEW dport \in TextPort, NEW row,
         row.saddr = Column(f.src, sport), row.daddr = Column(f.dst, dport)
  PROVE  Texts!RuleOf(row) = KeyOf(f)
<1>1. f.src \in Addr /\ f.dst \in Addr
  BY KeyIs
<1>2. /\ SubSeq(row.saddr, 1, Texts!Find(row.saddr, 1, ":") - 1) = f.src
      /\ SubSeq(row.daddr, 1, Texts!Find(row.daddr, 1, ":") - 1) = f.dst
  BY <1>1, HostIs
<1> QED
  BY <1>2, Zenon DEF Texts!RuleOf, KeyOf, Comma

\* need_drop lets a packet through when its flow has been clicked.
LEMMA VerdictIs ==
  ASSUME Texts!AddrAssumption, clicked \subseteq Texts!Flow, table = {KeyOf(f) : f \in clicked},
         NEW p \in Texts!Packet
  PROVE  Texts!Verdict(p) = IF p.flow \in clicked THEN "0" ELSE "1"
<1>1. p.flow \in Texts!Flow
  BY DeviceIs
<1>2. Texts!StrSplit(Texts!Format(p)) = KeyOf(p.flow)
  BY FormatIs, TextSplit
<1>3. KeyOf(p.flow) \in table <=> p.flow \in clicked
  <2>1. ASSUME NEW f \in clicked, KeyOf(p.flow) = KeyOf(f) PROVE p.flow \in clicked
    BY <1>1, <2>1, KeysDiffer
  <2> QED
    BY <2>1
<1> QED
  BY <1>2, <1>3 DEF Texts!Verdict

\* A row shows the addresses, the ports and the verdict of the packet that met a hook
\* last.
TellsPacket(row) == /\ row.packet \in last
                    /\ row.cells.saddr = Column(row.packet.flow.src, row.packet.sport)
                    /\ row.cells.daddr = Column(row.packet.flow.dst, row.packet.dport)
                    /\ row.cells.drop \in {<<"0">>, <<"1">>}
                    /\ row.packet.flow \notin clicked => row.cells.drop = <<"1">>

TextsIInv == /\ last \subseteq Texts!Packet /\ clicked \subseteq Texts!Flow
             /\ table = {KeyOf(f) : f \in clicked}
             /\ \A row \in rows : TellsPacket(row)
             /\ Texts!EveryPacketIsShown

LEMMA TextsInit == Texts!Init => TextsIInv
<1> SUFFICES ASSUME Texts!Init PROVE TextsIInv
  OBVIOUS
<1>1. table = {} /\ last = {} /\ rows = {} /\ clicked = {}
  BY DEF Texts!Init
<1> QED
  BY <1>1 DEF TextsIInv, Texts!EveryPacketIsShown

LEMMA TextsPass ==
  ASSUME Texts!AddrAssumption, TextsIInv, NEW p \in Texts!Packet, Texts!Pass(p)
  PROVE  TextsIInv'
<1>1. /\ last' = {p} /\ table' = table /\ clicked' = clicked
      /\ rows' = {[packet |-> p, cells |-> r] : r \in Texts!Row(Texts!Report(p, Texts!Verdict(p)))}
  BY DEF Texts!Pass
<1>2. clicked \subseteq Texts!Flow /\ table = {KeyOf(f) : f \in clicked}
  BY DEF TextsIInv
<1>3. PICK v : v = Texts!Verdict(p)
  OBVIOUS
<1>4. v = IF p.flow \in clicked THEN "0" ELSE "1"
  BY <1>2, <1>3, VerdictIs
<1>5. v \in {"0", "1"}
  BY <1>4
<1> DEFINE cells == [saddr |-> Column(p.flow.src, p.sport),
                     daddr |-> Column(p.flow.dst, p.dport), drop |-> <<v>>]
<1>6. /\ Texts!Count(p.dev, ",") = 0 => Texts!Row(Texts!Report(p, v)) = {cells}
      /\ Texts!Count(p.dev, ",") # 0 => Texts!Row(Texts!Report(p, v)) = {}
  BY <1>5, RowIs
<1>7. /\ cells.saddr = Column(p.flow.src, p.sport) /\ cells.daddr = Column(p.flow.dst, p.dport)
      /\ cells.drop = <<v>>
  OBVIOUS
<1> HIDE DEF cells
<1>8. (\A row \in rows : TellsPacket(row))'
  <2>1. SUFFICES ASSUME NEW row \in rows' PROVE TellsPacket(row)'
    OBVIOUS
  <2>2. row = [packet |-> p, cells |-> cells]
    BY <1>1, <1>3, <1>6, <2>1
  <2>3. row.packet = p /\ row.cells = cells
    BY <2>2
  <2> QED
    BY <1>1, <1>4, <1>7, <2>3 DEF TellsPacket
<1>9. Texts!EveryPacketIsShown'
  <2>1. Texts!Count(p.dev, ",") = 0 => rows' # {}
    BY <1>1, <1>3, <1>6
  <2>2. \A q \in last' : q = p
    BY <1>1
  <2> QED
    BY <2>1, <2>2 DEF Texts!EveryPacketIsShown
<1>10. last' \subseteq Texts!Packet
  BY <1>1
<1> QED
  BY <1>1, <1>2, <1>8, <1>9, <1>10 DEF TextsIInv

LEMMA TextsClick ==
  ASSUME Texts!AddrAssumption, TextsIInv, NEW row \in rows, Texts!Click(row)
  PROVE  TextsIInv'
<1>1. PICK rule : rule = Texts!RuleOf(row.cells)
  OBVIOUS
<1>2. /\ table' = IF Texts!CheckRule(rule) THEN table \cup {rule} ELSE table
      /\ clicked' = clicked \cup {row.packet.flow} /\ last' = last /\ rows' = rows
  BY <1>1 DEF Texts!Click
<1>3. /\ last \subseteq Texts!Packet /\ clicked \subseteq Texts!Flow /\ table = {KeyOf(f) : f \in clicked}
      /\ \A r \in rows : TellsPacket(r)
  BY DEF TextsIInv
<1>4. PICK f : f = row.packet.flow
  OBVIOUS
<1>5. row.packet \in Texts!Packet
  BY <1>3 DEF TellsPacket
<1>6. f \in Texts!Flow /\ row.packet.sport \in TextPort /\ row.packet.dport \in TextPort
  BY <1>4, <1>5, DeviceIs
<1>7. /\ row.cells.saddr = Column(f.src, row.packet.sport)
      /\ row.cells.daddr = Column(f.dst, row.packet.dport)
  BY <1>3, <1>4 DEF TellsPacket
<1>8. rule = KeyOf(f)
  BY <1>1, <1>6, <1>7, RuleIs
<1>9. Texts!CheckRule(rule)
  BY <1>6, <1>8, KeyPasses
<1>10. table' = {KeyOf(g) : g \in clicked'}
  BY <1>2, <1>3, <1>4, <1>8, <1>9
<1>11. (\A r \in rows : TellsPacket(r))'
  BY <1>2, <1>3 DEF TellsPacket
<1>12. Texts!EveryPacketIsShown'
  BY <1>2 DEF TextsIInv, Texts!EveryPacketIsShown
<1>13. clicked' \subseteq Texts!Flow /\ last' \subseteq Texts!Packet
  BY <1>2, <1>3, <1>4, <1>6
<1> QED
  BY <1>10, <1>11, <1>12, <1>13 DEF TextsIInv

LEMMA TextsSafe ==
  ASSUME Texts!AddrAssumption, TextsIInv
  PROVE  Texts!TypeOK /\ Texts!ClickAdmitsFlow /\ Texts!OnlyClickedPass /\ Texts!RowTellsPacket /\ Texts!EveryPacketIsShown
<1>1. /\ last \subseteq Texts!Packet /\ clicked \subseteq Texts!Flow /\ table = {KeyOf(f) : f \in clicked}
      /\ \A row \in rows : TellsPacket(row)
  BY DEF TextsIInv
<1>2. \A p \in last : Texts!Verdict(p) = "0" <=> p.flow \in clicked
  <2>1. SUFFICES ASSUME NEW p \in last PROVE Texts!Verdict(p) = "0" <=> p.flow \in clicked
    OBVIOUS
  <2>2. Texts!Verdict(p) = IF p.flow \in clicked THEN "0" ELSE "1"
    BY <1>1, VerdictIs
  <2> QED
    BY <2>2
<1>3. Texts!ClickAdmitsFlow /\ Texts!OnlyClickedPass
  BY <1>2 DEF Texts!ClickAdmitsFlow, Texts!OnlyClickedPass
<1>4. Texts!TypeOK
  <2>1. \A f \in clicked : Len(KeyOf(f)) = 15
    BY <1>1, KeyIs
  <2> QED
    BY <1>1, <2>1 DEF Texts!TypeOK, TellsPacket
<1>5. Texts!RowTellsPacket
  <2>1. SUFFICES ASSUME NEW row \in rows
        PROVE  /\ SubSeq(row.cells.saddr, 1, 7) = row.packet.flow.src
               /\ SubSeq(row.cells.daddr, 1, 7) = row.packet.flow.dst
               /\ IF row.packet.flow \in clicked THEN row.cells.drop \in {<<"0">>, <<"1">>}
                  ELSE row.cells.drop = <<"1">>
    BY DEF Texts!RowTellsPacket
  <2>2. TellsPacket(row)
    BY <1>1
  <2>3. row.packet \in Texts!Packet
    BY <1>1, <2>2 DEF TellsPacket
  <2>4. row.packet.flow \in Texts!Flow /\ row.packet.sport \in TextPort /\ row.packet.dport \in TextPort
    BY <2>3, DeviceIs
  <2>5. row.packet.flow.src \in Addr /\ row.packet.flow.dst \in Addr
    BY <2>4, KeyIs
  <2>6. /\ SubSeq(row.cells.saddr, 1, 7) = row.packet.flow.src
        /\ SubSeq(row.cells.daddr, 1, 7) = row.packet.flow.dst
    BY <2>2, <2>4, <2>5, HostIs DEF TellsPacket
  <2> QED
    BY <2>2, <2>6 DEF TellsPacket
<1> QED
  BY <1>3, <1>4, <1>5 DEF TextsIInv
-----------------------------------------------------------------------------
\* A step of PartsNext is one of a part, or leaves that part as it was.
LEMMA ProtocolsMove == ASSUME [PartsNext]_partVars PROVE Protocols!Next \/ UNCHANGED protocolsState
  BY DEF PartsNext, partVars, SocketsNext, TextsNext, ReceiveNext, NamesNext, QueuesNext, FlagsNext,
         MergeNext, StackNext, ProtocolsNext, StartsNext, FlowsNext, BitsNext, ExitsNext, StampsNext

LEMMA StartsMove == ASSUME [PartsNext]_partVars PROVE Starts!Next \/ UNCHANGED startState
  BY DEF PartsNext, partVars, SocketsNext, TextsNext, ReceiveNext, NamesNext, QueuesNext, FlagsNext,
         MergeNext, StackNext, ProtocolsNext, StartsNext, FlowsNext, BitsNext, ExitsNext, StampsNext

\* Of the protocols that serve a socket, inet_create gives it the permanent one, else the
\* newest, which no protocol that came and went has displaced; and when a part of inet_init
\* fails, the labels have taken back all that was done (inet_register_protosw,
\* inet_unregister_protosw, inet_create, inet_init).
THEOREM ProtocolsSoundness == PartsSpec => []ProtocolsAreSound
<1> DEFINE IInv == ProtoIInv /\ StartIInv
<1>1. PartsInit => IInv
  BY PartsAssumption, ProtoStarts DEF PartsInit, StartIInv, Starts!Init
<1>2. ASSUME IInv, [PartsNext]_partVars PROVE IInv'
  <2>1. ProtoIInv'
    BY <1>2, PartsAssumption, ProtocolsMove, ProtoKept DEF protocolsState, Protocols!protoVars
  <2>2. StartIInv'
    BY <1>2, StartsMove, StartKept DEF startState, Starts!startVars
  <2> QED
    BY <2>1, <2>2
<1>3. IInv => ProtocolsAreSound
  BY PartsAssumption, ProtoSound, StartSound DEF ProtocolsAreSound
<1> HIDE DEF IInv
<1>4. IInv /\ [PartsNext]_partVars => IInv'
  BY <1>2
<1> QED
  BY <1>1, <1>3, <1>4, PTL DEF PartsSpec

LEMMA NamesMove == ASSUME [PartsNext]_partVars PROVE Names!Next \/ UNCHANGED namesState
  BY DEF PartsNext, partVars, SocketsNext, TextsNext, ReceiveNext, NamesNext, QueuesNext, FlagsNext,
         MergeNext, StackNext, ProtocolsNext, StartsNext, FlowsNext, BitsNext, ExitsNext, StampsNext

LEMMA ExitsMove == ASSUME [PartsNext]_partVars PROVE Exits!Next \/ UNCHANGED exitState
  BY DEF PartsNext, partVars, SocketsNext, TextsNext, ReceiveNext, NamesNext, QueuesNext, FlagsNext,
         MergeNext, StackNext, ProtocolsNext, StartsNext, FlowsNext, BitsNext, ExitsNext, StampsNext

\* Whatever fails on the way, names and indices stay unique, and the hash table, sysfs and
\* the links have a device under its name (dev_change_name, dev_change_net_namespace); and a
\* namespace that ends outlives its devices, with its loopback device behind the others, its
\* count right and nobody left asleep (rtnl_lock_unregistering, default_device_exit_batch,
\* netdev_run_todo).
THEOREM NamesSoundness == PartsSpec => []NamesAreSound
<1> DEFINE IInv == NamesIInv /\ ExitIInv
<1>1. PartsInit => IInv
  BY PartsAssumption, NamesStart, ExitStarts DEF PartsInit
<1>2. ASSUME IInv, [PartsNext]_partVars PROVE IInv'
  <2>1. NamesIInv'
    BY <1>2, PartsAssumption, NamesMove, NamesKept, NamesStay DEF namesState, Names!nameVars
  <2>2. ExitIInv'
    BY <1>2, PartsAssumption, ExitsMove, ExitKept, ExitStay
       DEF exitState, Exits!exitVars, Exits!devVars, Exits!workerVars
  <2> QED
    BY <2>1, <2>2
<1>3. IInv => NamesAreSound
  BY PartsAssumption, NamesSound, ExitSound DEF NamesAreSound
<1> HIDE DEF IInv
<1>4. IInv /\ [PartsNext]_partVars => IInv'
  BY <1>2
<1> QED
  BY <1>1, <1>3, <1>4, PTL DEF PartsSpec

LEMMA TextsMove == ASSUME [PartsNext]_partVars PROVE Texts!Next \/ UNCHANGED textsState
  BY DEF PartsNext, partVars, SocketsNext, TextsNext, ReceiveNext, NamesNext, QueuesNext, FlagsNext,
         MergeNext, StackNext, ProtocolsNext, StartsNext, FlowsNext, BitsNext, ExitsNext, StampsNext

\* A packet is let through when a row of its flow was clicked and only then, its row shows
\* its addresses and the verdict it met, and no packet is missing among the rows unless its
\* device's name has a comma (str_split, check_rule, need_drop, skbInsert, onSkbClick).
THEOREM TextsSoundness == PartsSpec => []TextsAgree
<1>1. PartsInit => TextsIInv
  BY TextsInit DEF PartsInit
<1>2. ASSUME TextsIInv, [PartsNext]_partVars PROVE TextsIInv'
  <2>1. CASE Texts!Next
    BY <1>2, <2>1, PartsAssumption, TextsPass, TextsClick DEF Texts!Next
  <2>2. CASE UNCHANGED textsState
    BY <1>2, <2>2 DEF textsState, Texts!vars, TextsIInv, TellsPacket, Texts!EveryPacketIsShown
  <2> QED
    BY <1>2, <2>1, <2>2, TextsMove
<1>3. TextsIInv => TextsAgree
  BY PartsAssumption, TextsSafe DEF TextsAgree
<1>4. TextsIInv /\ [PartsNext]_partVars => TextsIInv'
  BY <1>2
<1> QED
  BY <1>1, <1>3, <1>4, PTL DEF PartsSpec
=============================================================================
