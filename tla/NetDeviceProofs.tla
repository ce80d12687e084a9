-------------------------- MODULE NetDeviceProofs --------------------------
(***************************************************************************)
(* Theorems about the stacking of devices and about their life.            *)
(*                                                                         *)
(* Stacking, for any finite set of devices: a link that fails takes back   *)
(* exactly what it did, and the counts of all_adj_list are the numbers of  *)
(* paths, until a link or an unlink meets several of them.  RefsCountPaths *)
(* is not inductive: that a link makes no loop rests on the counts being   *)
(* transitive, and that an unlink takes away what is there on a device     *)
(* having as many paths to what is above b as to a, when b is right above  *)
(* a.  PathsIInv adds the first; the second follows from it, from the top  *)
(* of the stack down.  The sum of RefsCountPaths is a fold over a set: the *)
(* library has no fact about folds that the provers can use, so they are   *)
(* derived here from the definition of the fold.                           *)
(*                                                                         *)
(* Life, for any devices, notifiers, readers and CPUs: whenever RTNL is    *)
(* free every notifier's view of the devices is current, a device is freed *)
(* only when nobody has it any more, and what is shown of links holds      *)
(* whatever becomes of the devices meanwhile.                              *)
(***************************************************************************)
EXTENDS NetDevice, FiniteSetTheorems, WellFoundedInduction, TLAPS
-----------------------------------------------------------------------------
(* A link that fails.                                                      *)

\* The counts that a link or an unlink changes stay natural numbers.
LEMMA CountsAreNaturals ==
    ASSUME AdjTypeOK, NEW dev \in Dev, NEW up \in Dev,
           NEW r \in [Dev \X Dev -> Nat], NEW ps \in SUBSET Pairs(dev, up)
    PROVE  /\ Pairs(dev, up) \subseteq Dev \X Dev
           /\ \A p \in Pairs(dev, up) : Amount(dev, up, p) \in Nat
           /\ Inserted(r, dev, up, ps) \in [Dev \X Dev -> Nat]
           /\ Removed(r, dev, up, ps) \in [Dev \X Dev -> Nat]
<1>1. Pairs(dev, up) \subseteq Dev \X Dev
  BY DEF Pairs, Upper, Lower
<1>2. \A p \in Dev \X Dev : Amount(dev, up, p) \in Nat
  BY DEF AdjTypeOK, Amount
<1>3. Inserted(r, dev, up, ps) \in [Dev \X Dev -> Nat]
  BY <1>2 DEF Inserted
<1>4. \A p \in Dev \X Dev :
         r[p] > Amount(dev, up, p) => r[p] - Amount(dev, up, p) \in Nat
  BY <1>2
<1>5. Removed(r, dev, up, ps) \in [Dev \X Dev -> Nat]
  BY <1>2, <1>4 DEF Removed
<1> QED BY <1>1, <1>2, <1>3, <1>5

\* Taking back a set of pairs after it was inserted restores every count.
LEMMA RollBackRestores ==
    ASSUME AdjTypeOK, NEW dev \in Dev, NEW up \in Dev, NEW ps \in SUBSET Pairs(dev, up)
    PROVE  Removed(Inserted(ref, dev, up, ps), dev, up, ps) = ref
<1> DEFINE ins == Inserted(ref, dev, up, ps)
           back == Removed(ins, dev, up, ps)
<1>1. ref \in [Dev \X Dev -> Nat] /\ \A p \in Dev \X Dev : Amount(dev, up, p) \in Nat
  BY DEF AdjTypeOK, Amount
<1>2. \A p \in Dev \X Dev : ins[p] = IF p \in ps THEN ref[p] + Amount(dev, up, p) ELSE ref[p]
  BY DEF Inserted
<1>3. \A p \in Dev \X Dev :
         back[p] = IF p \notin ps THEN ins[p]
                   ELSE IF ins[p] > Amount(dev, up, p) THEN ins[p] - Amount(dev, up, p)
                   ELSE 0
  BY DEF Removed
<1>4. back = [p \in Dev \X Dev |-> back[p]]
  BY DEF Removed
<1> HIDE DEF ins, back
<1>5. \A p \in Dev \X Dev : back[p] = ref[p]
  BY <1>1, <1>2, <1>3
<1>6. back = ref
  BY <1>1, <1>4, <1>5
<1> QED BY <1>6 DEF ins, back

\* The types are kept by every step.
LEMMA AdjTypesKept == AdjTypeOK /\ [AdjNext]_adjVars => AdjTypeOK'
<1> SUFFICES ASSUME AdjTypeOK, [AdjNext]_adjVars PROVE AdjTypeOK'
  OBVIOUS
<1> USE DEF AdjTypeOK
<1>1. CASE UNCHANGED adjVars
  BY <1>1 DEF adjVars
<1>2. ASSUME NEW dev \in Dev, NEW up \in Dev, UpperDevLink(dev, up) PROVE AdjTypeOK'
  <2>1. ref' \in [Dev \X Dev -> Nat]
    BY <1>2, CountsAreNaturals DEF UpperDevLink
  <2>2. upper' \in [Dev -> SUBSET Dev]
    BY <1>2 DEF UpperDevLink
  <2>3. bug' \in BOOLEAN /\ skewed' \in BOOLEAN
    BY <1>2 DEF UpperDevLink, Skews
  <2> QED BY <2>1, <2>2, <2>3
<1>3. ASSUME NEW dev \in Dev, NEW up \in Dev, UpperDevLinkFails(dev, up) PROVE AdjTypeOK'
  <2>1. PICK done \in SUBSET Pairs(dev, up) :
             ref' = Removed(Inserted(ref, dev, up, done), dev, up, Undone(dev, up, done))
    BY <1>3 DEF UpperDevLinkFails
  <2>2. ref' = ref
    BY <2>1, RollBackRestores DEF Undone
  <2> QED BY <1>3, <2>2 DEF UpperDevLinkFails
<1>4. ASSUME NEW dev \in Dev, NEW up \in Dev, UpperDevUnlink(dev, up) PROVE AdjTypeOK'
  <2>1. ref' \in [Dev \X Dev -> Nat]
    BY <1>4, CountsAreNaturals DEF UpperDevUnlink
  <2>2. upper' \in [Dev -> SUBSET Dev]
    BY <1>4 DEF UpperDevUnlink
  <2>3. bug' \in BOOLEAN /\ skewed' \in BOOLEAN
    BY <1>4 DEF UpperDevUnlink, Skews
  <2> QED BY <2>1, <2>2, <2>3
<1> QED BY <1>1, <1>2, <1>3, <1>4 DEF AdjNext

\* Type correctness of the adjacency lists, for any devices.
THEOREM AdjTypeCorrect == AdjSpec => []AdjTypeOK
<1>1. ASSUME AdjInit PROVE AdjTypeOK
  <2>1. upper \in [Dev -> SUBSET Dev] /\ ref \in [Dev \X Dev -> Nat]
    BY <1>1 DEF AdjInit
  <2>2. bug \in BOOLEAN /\ skewed \in BOOLEAN
    BY <1>1 DEF AdjInit
  <2> QED BY <2>1, <2>2 DEF AdjTypeOK
<1> QED BY <1>1, AdjTypesKept, PTL DEF AdjSpec

\* __netdev_upper_dev_link that fails at any pair leaves every count as it was: counts
\* change only with the direct links.
THEOREM FailuresLeaveNoTrace == AdjSpec => FailedLinkLeavesNoTrace
<1>1. ASSUME AdjTypeOK, [AdjNext]_adjVars PROVE [upper' = upper => ref' = ref]_adjVars
  <2>1. CASE UNCHANGED adjVars
    BY <2>1
  <2>2. ASSUME NEW dev \in Dev, NEW up \in Dev, UpperDevLink(dev, up) PROVE upper' # upper
    <3>1. up \in upper'[dev] /\ up \notin upper[dev]
      BY <1>1, <2>2 DEF UpperDevLink, MayLink, AdjTypeOK
    <3> QED BY <3>1
  <2>3. ASSUME NEW dev \in Dev, NEW up \in Dev, UpperDevLinkFails(dev, up) PROVE ref' = ref
    <3>1. PICK done \in SUBSET Pairs(dev, up) :
               ref' = Removed(Inserted(ref, dev, up, done), dev, up, Undone(dev, up, done))
      BY <2>3 DEF UpperDevLinkFails
    <3> QED BY <1>1, <3>1, RollBackRestores DEF Undone
  <2>4. ASSUME NEW dev \in Dev, NEW up \in Dev, UpperDevUnlink(dev, up) PROVE upper' # upper
    <3>1. up \notin upper'[dev] /\ up \in upper[dev]
      BY <1>1, <2>4 DEF UpperDevUnlink, AdjTypeOK
    <3> QED BY <3>1
  <2> QED BY <1>1, <2>1, <2>2, <2>3, <2>4 DEF AdjNext
<1> QED BY <1>1, AdjTypeCorrect, PTL DEF AdjSpec, FailedLinkLeavesNoTrace
-----------------------------------------------------------------------------
(* Sets of numbers and of devices.                                         *)

\* A set of numbers that is not empty has a smallest one.
LEMMA Smallest == ASSUME NEW M \in SUBSET Nat, M # {}
                  PROVE  \E m \in M : \A k \in M : m <= k
<1> DEFINE R == OpToRel(<, Nat)
<1>1. PICK m \in M : \A k \in M : ~ (<<k, m>> \in R)
  BY NatLessThanWellFounded, WFMin, Zenon
<1>2. \A k, l \in Nat : k < l => <<k, l>> \in R
  BY DEF OpToRel
<1> HIDE DEF R
<1>3. \A k \in M : ~ (k < m)
  BY <1>1, <1>2
<1> QED BY <1>3

\* A family of finite sets, if not empty, has a set with none of the family right below it.
LEMMA SmallestSet ==
    ASSUME NEW D, IsFiniteSet(D), NEW F \in SUBSET SUBSET D, F # {}
    PROVE  \E S \in F : IsFiniteSet(S) /\ \A x \in S : S \ {x} \notin F
<1>1. \A S \in SUBSET D : IsFiniteSet(S) /\ Cardinality(S) \in Nat
  BY FS_Subset, FS_CardinalityType
<1> DEFINE M == {Cardinality(S) : S \in F}
<1>2. M \in SUBSET Nat /\ M # {}
  BY <1>1
<1> HIDE DEF M
<1>3. PICK m \in M : \A k \in M : m <= k
  BY <1>2, Smallest
<1>4. PICK S \in F : Cardinality(S) = m
  BY <1>3 DEF M
<1>5. ASSUME NEW x \in S, S \ {x} \in F PROVE FALSE
  <2>1. Cardinality(S \ {x}) = Cardinality(S) - 1
    BY <1>1, FS_RemoveElement
  <2>2. Cardinality(S \ {x}) \in M
    BY <1>5 DEF M
  <2> QED BY <1>1, <1>3, <1>4, <2>1, <2>2
<1> QED BY <1>1, <1>4, <1>5
-----------------------------------------------------------------------------
(* Sums over sets of devices.                                              *)

\* it is what the fold of MapThenSumSet computes over the subsets of S, for f.
IsFold(it, f, S) ==
    it = [s \in SUBSET S |-> IF s = {} THEN 0
                             ELSE f[CHOOSE x \in s : TRUE] + it[s \ {CHOOSE x \in s : TRUE}]]

\* it[S] is the sum of the numbers f over S, for each set S of devices.
Sums(it, f) == /\ f \in [Dev -> Nat] /\ it \in [SUBSET Dev -> Nat]
               /\ it[{}] = 0
               /\ \A S \in SUBSET Dev : \A x \in S : it[S] = f[x] + it[S \ {x}]

\* The values of r that lead to u, device by device.
To(r, u) == [m \in Dev |-> r[<<m, u>>]]

\* What RefsCountPaths adds up, and the fold it is computed by.
Paths(r, u, S) == MapThenSumSet(LAMBDA m : r[<<m, u>>], S)

IsPathsFold(it, r, u, S) ==
    it = [s \in SUBSET S |-> IF s = {} THEN 0
                             ELSE r[<<CHOOSE x \in s : TRUE, u>>] + it[s \ {CHOOSE x \in s : TRUE}]]

\* The fold exists.
LEMMA FoldExists == ASSUME NEW D, IsFiniteSet(D), NEW f
                    PROVE  \E it : IsFold(it, f, D)
<1> DEFINE Pick(s) == CHOOSE x \in s : TRUE
           Small(n) == {s \in SUBSET D : Cardinality(s) <= n}
           Upto(n, it) == it = [s \in Small(n) |-> IF s = {} THEN 0
                                                   ELSE f[Pick(s)] + it[s \ {Pick(s)}]]
           M == {n \in Nat : ~\E it : Upto(n, it)}
<1>1. \A s \in SUBSET D : /\ IsFiniteSet(s) /\ Cardinality(s) \in Nat
                          /\ Cardinality(s) <= Cardinality(D)
  BY FS_Subset, FS_CardinalityType
<1>2. \A s \in SUBSET D : s # {} => /\ Pick(s) \in s
                                    /\ Cardinality(s \ {Pick(s)}) = Cardinality(s) - 1
  BY <1>1, FS_RemoveElement
<1>3. \A s \in SUBSET D : Cardinality(s) = 0 => s = {}
  BY <1>1, FS_EmptySet
<1> HIDE DEF Pick
<1>4. M = {}
  <2>1. SUFFICES ASSUME M # {} PROVE FALSE
    OBVIOUS
  <2>2. M \in SUBSET Nat
    OBVIOUS
  <2>3. PICK n \in M : \A k \in M : n <= k
    <3> HIDE DEF M
    <3> QED BY <2>1, <2>2, Smallest
  <2>4. CASE n = 0
    <3>1. \A s \in Small(0) : s = {}
      BY <1>1, <1>3
    <3>2. Upto(0, [s \in Small(0) |-> 0])
      BY <3>1
    <3> QED BY <2>3, <2>4, <3>2
  <2>5. CASE n # 0
    <3>1. n - 1 \in Nat /\ n - 1 \notin M
      <4> HIDE DEF M
      <4> QED BY <2>2, <2>3, <2>5
    <3>2. PICK jt : Upto(n - 1, jt)
      BY <3>1
    <3> DEFINE it == [s \in Small(n) |-> IF s = {} THEN 0 ELSE f[Pick(s)] + jt[s \ {Pick(s)}]]
    <3>3. ASSUME NEW s \in Small(n - 1) PROVE s \in Small(n) /\ it[s] = jt[s]
      <4>1. s \in Small(n)
        BY <1>1, <2>3, <3>1
      <4>2. jt[s] = IF s = {} THEN 0 ELSE f[Pick(s)] + jt[s \ {Pick(s)}]
        BY <3>2
      <4> QED BY <4>1, <4>2
    <3>4. \A s \in Small(n) : s # {} => s \ {Pick(s)} \in Small(n - 1)
      BY <1>1, <1>2, <3>1
    <3>5. Upto(n, it)
      BY <3>3, <3>4
    <3> QED BY <2>3, <3>5
  <2> QED BY <2>4, <2>5
<1>5. Cardinality(D) \in Nat
  BY FS_CardinalityType
<1>6. PICK it : Upto(Cardinality(D), it)
  BY <1>4, <1>5
<1>7. Small(Cardinality(D)) = SUBSET D
  BY <1>1
<1>8. IsFold(it, f, D)
  BY <1>6, <1>7 DEF IsFold, Pick
<1> QED BY <1>8

\* A fold over a part of D is the fold over D, there.
LEMMA FoldOfPart ==
    ASSUME NEW D, IsFiniteSet(D), NEW f, NEW it, IsFold(it, f, D),
           NEW S \in SUBSET D, NEW jt, IsFold(jt, f, S)
    PROVE  \A T \in SUBSET S : jt[T] = it[T]
<1> DEFINE F == {T \in SUBSET S : jt[T] # it[T]}
           Pick(s) == CHOOSE x \in s : TRUE
<1>1. SUFFICES ASSUME F # {} PROVE FALSE
  OBVIOUS
<1>2. F \in SUBSET SUBSET S /\ IsFiniteSet(S)
  BY FS_Subset
<1>3. PICK T \in F : \A x \in T : T \ {x} \notin F
  <2> HIDE DEF F
  <2> QED BY <1>1, <1>2, SmallestSet
<1>4. /\ T \in SUBSET S /\ T \in SUBSET D
      /\ it[T] = IF T = {} THEN 0 ELSE f[Pick(T)] + it[T \ {Pick(T)}]
      /\ jt[T] = IF T = {} THEN 0 ELSE f[Pick(T)] + jt[T \ {Pick(T)}]
  BY DEF IsFold
<1>5. T # {} => Pick(T) \in T
  OBVIOUS
<1> HIDE DEF Pick
<1>6. T # {} => jt[T \ {Pick(T)}] = it[T \ {Pick(T)}]
  BY <1>3, <1>5
<1> QED BY <1>4, <1>6

\* The order in which a fold adds up does not matter.
LEMMA FoldSums ==
    ASSUME IsFiniteSet(Dev), NEW f \in [Dev -> Nat], NEW it, IsFold(it, f, Dev)
    PROVE  Sums(it, f)
<1> DEFINE Pick(s) == CHOOSE x \in s : TRUE
<1>1. \A T \in SUBSET Dev :
         it[T] = IF T = {} THEN 0 ELSE f[Pick(T)] + it[T \ {Pick(T)}]
  BY DEF IsFold
<1>2. \A T \in SUBSET Dev : T # {} => Pick(T) \in T
  OBVIOUS
<1> HIDE DEF Pick
<1>3. \A T \in SUBSET Dev : it[T] \in Nat
  <2> DEFINE F == {T \in SUBSET Dev : it[T] \notin Nat}
  <2>1. SUFFICES ASSUME F # {} PROVE FALSE
    OBVIOUS
  <2>2. F \in SUBSET SUBSET Dev
    OBVIOUS
  <2>3. PICK T \in F : \A x \in T : T \ {x} \notin F
    <3> HIDE DEF F
    <3> QED BY <2>1, <2>2, SmallestSet
  <2>4. T \in SUBSET Dev /\ it[T] \notin Nat
    BY <2>3
  <2>5. T # {} => it[T \ {Pick(T)}] \in Nat /\ f[Pick(T)] \in Nat
    BY <1>2, <2>3, <2>4
  <2>6. it[T] = IF T = {} THEN 0 ELSE f[Pick(T)] + it[T \ {Pick(T)}]
    BY <1>1, <2>4
  <2> HIDE DEF F
  <2> QED BY <2>4, <2>5, <2>6
<1>4. \A T \in SUBSET Dev : \A x \in T : it[T] = f[x] + it[T \ {x}]
  <2> DEFINE F == {T \in SUBSET Dev : \E x \in T : it[T] # f[x] + it[T \ {x}]}
  <2>1. SUFFICES ASSUME F # {} PROVE FALSE
    OBVIOUS
  <2>2. F \in SUBSET SUBSET Dev
    OBVIOUS
  <2>3. PICK T \in F : \A x \in T : T \ {x} \notin F
    <3> HIDE DEF F
    <3> QED BY <2>1, <2>2, SmallestSet
  <2>4. PICK x \in T : it[T] # f[x] + it[T \ {x}]
    BY <2>3
  <2>5. PICK y \in T : it[T] = f[y] + it[T \ {y}]
    BY <1>1, <1>2, <2>4
  <2>6. x # y
    BY <2>4, <2>5
  <2>7. it[T \ {y}] = f[x] + it[(T \ {y}) \ {x}]
    BY <2>3, <2>6
  <2>8. it[T \ {x}] = f[y] + it[(T \ {x}) \ {y}]
    BY <2>3, <2>6
  <2>9. (T \ {y}) \ {x} = (T \ {x}) \ {y}
    OBVIOUS
  <2>10. /\ f[x] \in Nat /\ f[y] \in Nat /\ it[(T \ {x}) \ {y}] \in Nat
         /\ (T \ {x}) \ {y} \in SUBSET Dev
    BY <1>3, <2>3
  <2> HIDE DEF F
  <2> QED BY <2>4, <2>5, <2>7, <2>8, <2>9, <2>10
<1>5. it \in [SUBSET Dev -> Nat]
  <2>1. it = [T \in SUBSET Dev |-> it[T]]
    BY DEF IsFold
  <2> QED BY <1>3, <2>1
<1>6. it[{}] = 0
  BY <1>1
<1> QED BY <1>4, <1>5, <1>6 DEF Sums

\* The sums of RefsCountPaths, for all sets of devices at once.
LEMMA PathsAreSums ==
    ASSUME IsFiniteSet(Dev), NEW r \in [Dev \X Dev -> Nat], NEW u \in Dev
    PROVE  \E it : Sums(it, To(r, u)) /\ \A S \in SUBSET Dev : Paths(r, u, S) = it[S]
<1>1. To(r, u) \in [Dev -> Nat]
  BY DEF To
<1>2. PICK it : IsFold(it, To(r, u), Dev)
  BY FoldExists
<1>3. Sums(it, To(r, u))
  BY <1>1, <1>2, FoldSums
<1>4. ASSUME NEW S \in SUBSET Dev PROVE Paths(r, u, S) = it[S]
  <2>1. Paths(r, u, S) = (CHOOSE jt : IsPathsFold(jt, r, u, S))[S]
    BY DEF Paths, IsPathsFold, MapThenSumSet, MapThenFoldSet
  <2>2. ASSUME NEW jt PROVE IsPathsFold(jt, r, u, S) <=> IsFold(jt, To(r, u), S)
    <3>1. \A s \in SUBSET S :
             s # {} => To(r, u)[CHOOSE x \in s : TRUE] = r[<<CHOOSE x \in s : TRUE, u>>]
      BY DEF To
    <3>2. [s \in SUBSET S |->
              IF s = {} THEN 0
              ELSE r[<<CHOOSE x \in s : TRUE, u>>] + jt[s \ {CHOOSE x \in s : TRUE}]]
          = [s \in SUBSET S |->
              IF s = {} THEN 0
              ELSE To(r, u)[CHOOSE x \in s : TRUE] + jt[s \ {CHOOSE x \in s : TRUE}]]
      BY <3>1
    <3> QED BY <3>2, Zenon DEF IsPathsFold, IsFold
  <2>3. IsFiniteSet(S)
    BY FS_Subset
  <2>4. \E jt : IsPathsFold(jt, r, u, S)
    BY <2>2, <2>3, FoldExists
  <2>5. PICK jt : jt = CHOOSE kt : IsPathsFold(kt, r, u, S)
    OBVIOUS
  <2>6. IsPathsFold(jt, r, u, S)
    BY <2>4, <2>5, Zenon
  <2>7. jt[S] = it[S]
    BY <1>2, <2>2, <2>6, FoldOfPart
  <2> QED BY <2>1, <2>5, <2>7
<1> QED BY <1>3, <1>4

\* What a sum is made of: nothing, or one device and the rest.
LEMMA SumsStep ==
    ASSUME NEW f, NEW it, Sums(it, f), NEW S \in SUBSET Dev, NEW x \in S
    PROVE  it[S] = f[x] + it[S \ {x}]
BY DEF Sums

LEMMA SumsTyped ==
    ASSUME NEW f, NEW it, Sums(it, f), NEW S \in SUBSET Dev, NEW x
    PROVE  it[S] \in Nat /\ it[S \ {x}] \in Nat
BY DEF Sums

\* Values that are 0 add up to 0.
LEMMA SumsPositive ==
    ASSUME IsFiniteSet(Dev), NEW f, NEW it, Sums(it, f),
           NEW S \in SUBSET Dev, it[S] > 0
    PROVE  \E m \in S : f[m] > 0
<1> SUFFICES ASSUME \A m \in S : ~(f[m] > 0) PROVE FALSE
  OBVIOUS
<1> DEFINE F == {T \in SUBSET S : it[T] > 0}
<1>1. F # {} /\ F \in SUBSET SUBSET S /\ IsFiniteSet(S)
  BY FS_Subset
<1>2. PICK T \in F : \A x \in T : T \ {x} \notin F
  <2> HIDE DEF F
  <2> QED BY <1>1, SmallestSet
<1>3. T \in SUBSET S /\ T \in SUBSET Dev /\ it[T] > 0
  BY <1>2
<1>4. ASSUME T = {} PROVE FALSE
  BY <1>3, <1>4 DEF Sums
<1>5. PICK x \in T : TRUE
  BY <1>4
<1>6. it[T \ {x}] \in Nat /\ ~(it[T \ {x}] > 0) /\ it[T] = f[x] + it[T \ {x}] /\ f[x] \in Nat
  BY <1>2, <1>3 DEF Sums
<1>7. ~(f[x] > 0)
  BY <1>3
<1> HIDE DEF F
<1> QED BY <1>3, <1>6, <1>7

\* Over S, h, of the sums hs, is f, of fs, and g, of gs, and one more at a.
AddsUp(hs, h, fs, f, gs, g, a, S) ==
    /\ Sums(hs, h) /\ Sums(fs, f) /\ Sums(gs, g) /\ S \in SUBSET Dev
    /\ \A m \in S : h[m] = f[m] + g[m] + (IF m = a THEN 1 ELSE 0)

\* Two sums and one more are a sum.
LEMMA SumsAdd ==
    ASSUME IsFiniteSet(Dev), NEW hs, NEW h, NEW fs, NEW f, NEW gs, NEW g, NEW a, NEW S,
           AddsUp(hs, h, fs, f, gs, g, a, S)
    PROVE  /\ a \in S => hs[S] = fs[S] + gs[S] + 1
           /\ a \notin S => hs[S] = fs[S] + gs[S]
<1>1. /\ Sums(hs, h) /\ Sums(fs, f) /\ Sums(gs, g) /\ S \in SUBSET Dev
      /\ \A m \in S : h[m] = f[m] + g[m] + (IF m = a THEN 1 ELSE 0)
  BY DEF AddsUp
<1> DEFINE Right(T) == /\ a \in T => hs[T] = fs[T] + gs[T] + 1
                       /\ a \notin T => hs[T] = fs[T] + gs[T]
           F == {T \in SUBSET S : ~Right(T)}
<1> SUFFICES ASSUME F # {} PROVE FALSE
  OBVIOUS
<1>2. F \in SUBSET SUBSET S /\ IsFiniteSet(S)
  BY <1>1, FS_Subset
<1>3. PICK T \in F : \A x \in T : T \ {x} \notin F
  <2> HIDE DEF F
  <2> QED BY <1>2, SmallestSet
<1>4. T \in SUBSET S /\ T \in SUBSET Dev /\ ~Right(T)
  BY <1>1, <1>3
<1>5. ASSUME T = {} PROVE FALSE
  BY <1>1, <1>4, <1>5 DEF Sums
<1>6. PICK x \in T : TRUE
  BY <1>5
<1>7. T \ {x} \in SUBSET S /\ Right(T \ {x})
  BY <1>3, <1>4
<1>8. h[x] = f[x] + g[x] + (IF x = a THEN 1 ELSE 0)
  BY <1>1, <1>4
<1>9. a \in T <=> a \in T \ {x} \/ x = a
  OBVIOUS
<1>10. a \in T \ {x} => x # a
  OBVIOUS
<1>11. /\ hs[T] = h[x] + hs[T \ {x}] /\ fs[T] = f[x] + fs[T \ {x}]
       /\ gs[T] = g[x] + gs[T \ {x}]
  BY <1>1, <1>4, SumsStep
<1>12. hs[T \ {x}] \in Nat /\ fs[T \ {x}] \in Nat /\ gs[T \ {x}] \in Nat
  BY <1>1, <1>4, SumsTyped
<1>13. f[x] \in Nat /\ g[x] \in Nat /\ h[x] \in Nat
  BY <1>1, <1>4 DEF Sums
<1> HIDE DEF F
<1> QED BY <1>4, <1>7, <1>8, <1>9, <1>10, <1>11, <1>12, <1>13

\* Over S, h is no less than g, and more at a.
NoLess(h, g, a, S) == \A m \in S : h[m] >= g[m] + (IF m = a THEN 1 ELSE 0)

\* A sum of values that are no less, of one of them more, is no less, or more.
LEMMA SumsGrow ==
    ASSUME IsFiniteSet(Dev), NEW g, NEW h,
           NEW gs, NEW hs, Sums(gs, g), Sums(hs, h), NEW S \in SUBSET Dev, NEW a, NoLess(h, g, a, S)
    PROVE  hs[S] >= gs[S] + (IF a \in S THEN 1 ELSE 0)
<1> DEFINE Right(T) == hs[T] >= gs[T] + (IF a \in T THEN 1 ELSE 0)
           F == {T \in SUBSET S : ~Right(T)}
<1> SUFFICES ASSUME F # {} PROVE FALSE
  OBVIOUS
<1>1. F \in SUBSET SUBSET S /\ IsFiniteSet(S)
  BY FS_Subset
<1>2. PICK T \in F : \A x \in T : T \ {x} \notin F
  <2> HIDE DEF F
  <2> QED BY <1>1, SmallestSet
<1>3. T \in SUBSET S /\ T \in SUBSET Dev /\ ~Right(T)
  BY <1>2
<1>4. ASSUME T = {} PROVE FALSE
  BY <1>3, <1>4 DEF Sums
<1>5. PICK x \in T : TRUE
  BY <1>4
<1>6. T \ {x} \in SUBSET S /\ Right(T \ {x})
  BY <1>2, <1>3
<1>7. h[x] >= g[x] + (IF x = a THEN 1 ELSE 0)
  BY <1>3 DEF NoLess
<1>8. a \in T <=> a \in T \ {x} \/ x = a
  OBVIOUS
<1>9. a \in T \ {x} => x # a
  OBVIOUS
<1>10. hs[T] = h[x] + hs[T \ {x}] /\ gs[T] = g[x] + gs[T \ {x}]
  BY <1>3, SumsStep
<1>11. hs[T \ {x}] \in Nat /\ gs[T \ {x}] \in Nat
  BY <1>3, SumsTyped
<1>12. g[x] \in Nat /\ h[x] \in Nat
  BY <1>3 DEF Sums
<1> HIDE DEF F
<1> QED BY <1>3, <1>6, <1>7, <1>8, <1>9, <1>10, <1>11, <1>12

\* Sums of the same values are the same.
LEMMA SumsSame ==
    ASSUME IsFiniteSet(Dev), NEW g, NEW h,
           NEW gs, NEW hs, Sums(gs, g), Sums(hs, h), NEW S \in SUBSET Dev,
           \A m \in S : h[m] = g[m]
    PROVE  hs[S] = gs[S]
<1>1. PICK a : a \notin S
  BY NoSetContainsEverything
<1>2. hs[S] \in Nat /\ gs[S] \in Nat
  BY DEF Sums
<1>3. NoLess(h, g, a, S) /\ NoLess(g, h, a, S)
  BY <1>1 DEF NoLess, Sums
<1>4. hs[S] >= gs[S] + (IF a \in S THEN 1 ELSE 0)
  BY <1>3, SumsGrow
<1>5. gs[S] >= hs[S] + (IF a \in S THEN 1 ELSE 0)
  BY <1>3, SumsGrow
<1> QED BY <1>1, <1>2, <1>4, <1>5
-----------------------------------------------------------------------------
(* The counts and the paths.                                               *)

\* The count of u above d is the number of paths from d to u.
Counted(r, up, d, u) ==
    r[<<d, u>>] = (IF u \in up[d] THEN 1 ELSE 0) + Paths(r, u, up[d])

AllCounted(r, up) == \A d, u \in Dev : Counted(r, up, d, u)

NoLoops(r) == \A d \in Dev : r[<<d, d>>] = 0

Transitive(r) ==
    \A d, e, f \in Dev : r[<<d, e>>] > 0 /\ r[<<e, f>>] > 0 => r[<<d, f>>] > 0

\* The devices whose counts a link of a below b changes, and for which devices above.
Under(r, a) == {i \in Dev : r[<<i, a>>] > 0} \cup {a}
Above(r, b) == {j \in Dev : r[<<b, j>>] > 0} \cup {b}

\* Amount, for a link of a below b.
Paid(r, a, b, i, j) == IF i = a /\ j = b THEN 1
                       ELSE IF i = a THEN r[<<b, j>>]
                       ELSE r[<<i, a>>]

\* more has the counts of less and those of the link.
Meshes(less, more, a, b) ==
    \A i, j \in Dev : more[<<i, j>>] = IF i \in Under(less, a) /\ j \in Above(less, b)
                                       THEN less[<<i, j>>] + Paid(less, a, b, i, j)
                                       ELSE less[<<i, j>>]

\* No device below a has several paths above b.
Straight(r, a, b) ==
    \A i, j \in Dev : r[<<i, a>>] > 0 /\ r[<<b, j>>] > 0 => r[<<b, j>>] = 1

\* The types of ref and upper.
Counts(r) == r \in [Dev \X Dev -> Nat]
Uppers(up) == up \in [Dev -> SUBSET Dev]

\* What a link of a below b finds: no count there would make a loop, or be a product.
Joins(r, up, a, b) ==
    /\ b \notin up[a] /\ Straight(r, a, b)
    /\ a \notin Above(r, b) /\ b \notin Under(r, a)
    /\ r[<<a, a>>] = 0 /\ r[<<b, b>>] = 0
    /\ \A m \in up[a] : m \notin Under(r, a)
    /\ \A d \in Dev \ Under(r, a) : \A m \in up[d] : m \notin Under(r, a)
    /\ \A d \in Under(r, a) \ {a} : Counted(r, up, d, a)

\* The direct links with that of a below b.
WithLink(up, a, b) == [up EXCEPT ![a] = @ \cup {b}]

\* What a device is directly below has a count, and passes its counts on.
LEMMA CountsPassOn ==
    ASSUME IsFiniteSet(Dev), NEW r, NEW up, Counts(r), Uppers(up),
           NEW d \in Dev, NEW u \in Dev, Counted(r, up, d, u)
    PROVE  /\ u \in up[d] => r[<<d, u>>] > 0
           /\ \A m \in up[d] : /\ m \in Dev /\ r[<<d, u>>] >= r[<<m, u>>]
                               /\ u \in up[d] => r[<<d, u>>] >= 1 + r[<<m, u>>]
           /\ r[<<d, u>>] > 0 /\ u \notin up[d] => \E m \in up[d] : r[<<m, u>>] > 0
<1>1. PICK it : Sums(it, To(r, u)) /\ \A S \in SUBSET Dev : Paths(r, u, S) = it[S]
  BY PathsAreSums DEF Counts
<1>2. PICK f, U : f = To(r, u) /\ U = up[d]
  OBVIOUS
<1>3. Sums(it, f) /\ \A S \in SUBSET Dev : Paths(r, u, S) = it[S]
  BY <1>1, <1>2
<1>4. /\ U \in SUBSET Dev /\ f \in [Dev -> Nat]
      /\ \A m \in Dev : f[m] = r[<<m, u>>] /\ r[<<m, u>>] \in Nat
  BY <1>2 DEF To, Counts, Uppers
<1>5. /\ r[<<d, u>>] = (IF u \in up[d] THEN 1 ELSE 0) + it[U]
      /\ it[U] \in Nat
  BY <1>2, <1>3, <1>4 DEF Counted, Sums
<1>6. ASSUME NEW m \in U PROVE m \in Dev /\ it[U] >= r[<<m, u>>]
  <2>1. Sums(it, f) /\ f \in [Dev -> Nat] /\ U \in SUBSET Dev /\ m \in U
    BY <1>3, <1>4, <1>6
  <2>2. it[U] = f[m] + it[U \ {m}]
    BY <2>1, SumsStep
  <2>3. it[U] \in Nat /\ it[U \ {m}] \in Nat
    BY <2>1, SumsTyped
  <2> QED BY <1>4, <2>1, <2>2, <2>3
<1>7. ASSUME it[U] > 0 PROVE \E m \in U : r[<<m, u>>] > 0
  <2>1. \E m \in U : f[m] > 0
    BY <1>3, <1>4, <1>7, SumsPositive
  <2> QED BY <1>4, <2>1
<1>8. (u \in up[d] => r[<<d, u>>] = 1 + it[U]) /\ (u \notin up[d] => r[<<d, u>>] = it[U])
  BY <1>5
<1>9. \A m \in up[d] : m \in Dev /\ it[U] >= r[<<m, u>>] /\ r[<<m, u>>] \in Nat
  BY <1>2, <1>4, <1>6
<1>10. it[U] > 0 => \E m \in up[d] : r[<<m, u>>] > 0
  BY <1>2, <1>7
<1> QED BY <1>5, <1>8, <1>9, <1>10

\* What is added on both sides.
LEMMA SameMore ==
    ASSUME NEW c \in Nat, NEW e \in Nat, NEW s \in Nat, NEW x \in Nat, NEW y \in Nat
    PROVE  /\ x = c + s <=> x + y + e = (c + e) + (y + s)
           /\ x = c + s <=> x + (e + y) = c + (s + y + e)
OBVIOUS

\* The counts more and the direct links upm are less and up with a link of a below b.
OneLink(less, up, more, upm, a, b) ==
    /\ Counts(less) /\ Counts(more) /\ Uppers(up) /\ Uppers(upm)
    /\ Joins(less, up, a, b) /\ Meshes(less, more, a, b) /\ upm = WithLink(up, a, b)

\* A link, or an unlink, leaves every count right or wrong.
LEMMA MeshKeepsCounted ==
    ASSUME IsFiniteSet(Dev), NEW less, NEW more, NEW up, NEW upm, NEW a \in Dev, NEW b \in Dev,
           OneLink(less, up, more, upm, a, b), NEW d \in Dev, NEW u \in Dev
    PROVE  Counted(less, up, d, u) <=> Counted(more, upm, d, u)
<1>1. /\ Counts(less) /\ Counts(more) /\ Uppers(up) /\ Uppers(upm)
      /\ Joins(less, up, a, b) /\ Meshes(less, more, a, b) /\ upm = WithLink(up, a, b)
  BY DEF OneLink
<1>2. PICK ls : Sums(ls, To(less, u)) /\ \A S \in SUBSET Dev : Paths(less, u, S) = ls[S]
  BY <1>1, PathsAreSums DEF Counts
<1>3. PICK ms : Sums(ms, To(more, u)) /\ \A S \in SUBSET Dev : Paths(more, u, S) = ms[S]
  BY <1>1, PathsAreSums DEF Counts
<1>4. PICK vs : Sums(vs, To(less, a)) /\ \A S \in SUBSET Dev : Paths(less, a, S) = vs[S]
  BY <1>1, PathsAreSums DEF Counts
<1>5. PICK lf, mf, af, U, V :
         /\ lf = To(less, u) /\ mf = To(more, u) /\ af = To(less, a)
         /\ U = up[d] /\ V = upm[d]
  OBVIOUS
<1>6. Sums(ls, lf) /\ \A S \in SUBSET Dev : Paths(less, u, S) = ls[S]
  BY <1>2, <1>5
<1>7. Sums(ms, mf) /\ \A S \in SUBSET Dev : Paths(more, u, S) = ms[S]
  BY <1>3, <1>5
<1>8. Sums(vs, af) /\ \A S \in SUBSET Dev : Paths(less, a, S) = vs[S]
  BY <1>4, <1>5
<1>9. Sums(ls, lf) /\ Sums(ms, mf) /\ Sums(vs, af)
  BY <1>6, <1>7, <1>8
<1>10. lf \in [Dev -> Nat] /\ mf \in [Dev -> Nat] /\ af \in [Dev -> Nat]
  BY <1>1, <1>5 DEF To, Counts
<1>11. \A m \in Dev : /\ lf[m] = less[<<m, u>>] /\ mf[m] = more[<<m, u>>]
                    /\ af[m] = less[<<m, a>>]
                    /\ less[<<m, u>>] \in Nat /\ more[<<m, u>>] \in Nat
                    /\ less[<<m, a>>] \in Nat
  BY <1>1, <1>5 DEF To, Counts
<1>12. U \in SUBSET Dev /\ V \in SUBSET Dev
  BY <1>1, <1>5 DEF Uppers
<1>13. ls[U] \in Nat /\ ms[V] \in Nat /\ ms[U] \in Nat /\ vs[U] \in Nat
  BY <1>1, <1>6, <1>7, <1>8, <1>12 DEF Sums
<1>14. /\ less[<<a, u>>] \in Nat /\ less[<<b, u>>] \in Nat /\ less[<<a, b>>] \in Nat
      /\ less[<<d, u>>] \in Nat /\ less[<<d, a>>] \in Nat
  BY <1>1 DEF Counts
<1>15. CASE d = a
  <2>1. V = U \cup {b} /\ V \ {b} = U /\ b \in V
    BY <1>1, <1>5, <1>15 DEF Joins, WithLink, Uppers
  <2>2. \A m \in Dev \ Under(less, a) : more[<<m, u>>] = less[<<m, u>>]
    BY <1>1 DEF Meshes, Joins, WithLink
  <2>3. \A m \in U : mf[m] = lf[m]
    <3>1. ASSUME NEW m \in U PROVE m \in Dev /\ m \notin Under(less, a)
      BY <1>1, <1>5, <1>12, <1>15 DEF Joins
    <3> QED BY <1>11, <2>2, <3>1
  <2>4. ms[U] = ls[U]
    BY <1>9, <1>10, <1>12, <2>3, SumsSame
  <2>5. ms[V] = mf[b] + ms[V \ {b}]
    BY <1>7, <1>12, <2>1, SumsStep
  <2>6. mf[b] = less[<<b, u>>]
    <3>1. b \in Dev /\ b \notin Under(less, a)
      BY <1>1 DEF Joins
    <3> QED BY <1>11, <2>2, <3>1
  <2>7. more[<<a, u>>] = less[<<a, u>>] + less[<<b, u>>] + (IF u = b THEN 1 ELSE 0)
    <3>1. CASE u = b
      <4>1. b \in Above(less, b) /\ a \in Under(less, a)
        BY <1>1 DEF Above, Under
      <4>2. more[<<a, b>>] = less[<<a, b>>] + 1
        BY <1>1, <4>1 DEF Meshes, Paid
      <4>3. less[<<b, b>>] = 0
        BY <1>1 DEF Joins
      <4> QED BY <1>14, <3>1, <4>2, <4>3
    <3>2. CASE u # b /\ u \in Above(less, b)
      <4>1. more[<<a, u>>] = less[<<a, u>>] + Paid(less, a, b, a, u)
        BY <1>1, <3>2 DEF Meshes, Under
      <4>2. Paid(less, a, b, a, u) = less[<<b, u>>]
        BY <1>1, <3>2 DEF Paid
      <4> QED BY <1>14, <3>2, <4>1, <4>2
    <3>3. CASE u \notin Above(less, b)
      <4>1. more[<<a, u>>] = less[<<a, u>>] /\ u # b /\ ~(less[<<b, u>>] > 0)
        BY <1>1, <3>3 DEF Meshes, Above
      <4>2. less[<<b, u>>] = 0
        BY <1>14, <4>1
      <4> QED BY <1>14, <4>1, <4>2
    <3> QED BY <3>1, <3>2, <3>3
  <2>8. Counted(less, up, a, u) <=>
             less[<<a, u>>] = (IF u \in U THEN 1 ELSE 0) + ls[U]
    BY <1>1, <1>5, <1>6, <1>12, <1>15 DEF Joins, Counted
  <2>9. Counted(more, upm, a, u) <=>
             more[<<a, u>>] = (IF u \in V THEN 1 ELSE 0) + ms[V]
    BY <1>1, <1>5, <1>7, <1>12, <1>15 DEF Joins, Counted
  <2>10. (IF u \in V THEN 1 ELSE 0) =
             (IF u \in U THEN 1 ELSE 0) + (IF u = b THEN 1 ELSE 0)
    BY <2>1
  <2>11. ms[V] = less[<<b, u>>] + ls[U]
    BY <2>1, <2>4, <2>5, <2>6
  <2>12. PICK c : c = (IF u \in U THEN 1 ELSE 0) /\ c \in Nat
    OBVIOUS
  <2>13. PICK e : e = (IF u = b THEN 1 ELSE 0) /\ e \in Nat
    OBVIOUS
  <2>14. less[<<a, u>>] \in Nat /\ less[<<b, u>>] \in Nat /\ ls[U] \in Nat
    BY <1>11, <1>13, <1>15
  <2>15. less[<<a, u>>] = c + ls[U]
             <=> less[<<a, u>>] + less[<<b, u>>] + e = (c + e) + (less[<<b, u>>] + ls[U])
    BY <2>12, <2>13, <2>14, SameMore
  <2> QED BY <1>15, <2>7, <2>8, <2>9, <2>10, <2>11, <2>12, <2>13, <2>15
<1>16. CASE d # a
  <2>1. U = V
    BY <1>1, <1>5, <1>16 DEF WithLink, Uppers
  <2>2. /\ Counted(less, up, d, u) <=> less[<<d, u>>] = (IF u \in U THEN 1 ELSE 0) + ls[U]
        /\ Counted(more, upm, d, u) <=> more[<<d, u>>] = (IF u \in U THEN 1 ELSE 0) + ms[U]
    BY <1>1, <1>5, <1>6, <1>7, <1>12, <2>1 DEF Joins, Counted
  <2>3. CASE d \notin Under(less, a) \/ u \notin Above(less, b)
    <3>1. more[<<d, u>>] = less[<<d, u>>]
      BY <1>1, <2>3 DEF Meshes, Joins, WithLink
    <3>2. \A m \in U : more[<<m, u>>] = less[<<m, u>>]
      BY <1>1, <1>5, <1>12, <2>3 DEF Meshes, Joins, WithLink
    <3>3. \A m \in U : mf[m] = lf[m]
      BY <1>11, <1>12, <3>2
    <3>4. ms[U] = ls[U]
      BY <1>9, <1>10, <1>12, <3>3, SumsSame
    <3> QED BY <2>2, <3>1, <3>4
  <2>4. CASE d \in Under(less, a) /\ u \in Above(less, b)
    <3>1. less[<<d, a>>] > 0
      BY <1>1, <1>16, <2>4 DEF Under
    <3>2. more[<<d, u>>] = less[<<d, u>>] + less[<<d, a>>]
      BY <1>1, <1>16, <2>4 DEF Meshes, Paid
    <3>3. less[<<d, a>>] = (IF a \in U THEN 1 ELSE 0) + vs[U]
      BY <1>1, <1>5, <1>8, <1>12, <1>16, <2>4 DEF Joins, Counted
    <3>4. ASSUME NEW m \in U
          PROVE  mf[m] = lf[m] + af[m] + (IF m = a THEN 1 ELSE 0)
      <4>1. m \in Dev
        BY <1>12
      <4>2. /\ less[<<m, u>>] \in Nat /\ less[<<m, a>>] \in Nat
            /\ mf[m] = more[<<m, u>>] /\ lf[m] = less[<<m, u>>] /\ af[m] = less[<<m, a>>]
        BY <1>11, <4>1
      <4>3. CASE m = a
        <5>1. Paid(less, a, b, a, u) = 1
          BY <1>1, <2>4, <3>1 DEF Paid, Above, Joins, Straight
        <5>2. a \in Under(less, a)
          BY <1>1 DEF Under
        <5>3. more[<<a, u>>] = less[<<a, u>>] + 1
          BY <1>1, <2>4, <5>1, <5>2 DEF Meshes, Joins, WithLink
        <5>4. less[<<a, a>>] = 0
          BY <1>1 DEF Joins
        <5> QED BY <4>2, <4>3, <5>3, <5>4
      <4>4. CASE m # a /\ less[<<m, a>>] > 0
        <5>1. m \in Under(less, a)
          BY <1>1, <4>1, <4>4 DEF Under
        <5>2. more[<<m, u>>] = less[<<m, u>>] + Paid(less, a, b, m, u)
          BY <1>1, <2>4, <4>1, <5>1 DEF Meshes, Joins, WithLink
        <5>3. Paid(less, a, b, m, u) = less[<<m, a>>]
          BY <1>1, <4>4 DEF Paid
        <5> QED BY <4>2, <4>4, <5>2, <5>3
      <4>5. CASE m # a /\ ~(less[<<m, a>>] > 0)
        <5>1. m \notin Under(less, a)
          BY <1>1, <4>5 DEF Under
        <5>2. more[<<m, u>>] = less[<<m, u>>]
          BY <1>1, <4>1, <5>1 DEF Meshes, Joins, WithLink
        <5> QED BY <4>2, <4>5, <5>2
      <4> QED BY <4>3, <4>4, <4>5
    <3>5. ms[U] = ls[U] + vs[U] + (IF a \in U THEN 1 ELSE 0)
      <4>1. AddsUp(ms, mf, ls, lf, vs, af, a, U)
        BY <1>1, <1>9, <1>12, <3>4 DEF AddsUp
      <4>2. ASSUME a \in U PROVE ms[U] = ls[U] + vs[U] + 1
        BY <4>1, <4>2, SumsAdd
      <4>3. ASSUME a \notin U PROVE ms[U] = ls[U] + vs[U]
        BY <4>1, <4>3, SumsAdd
      <4> QED BY <1>13, <4>2, <4>3
    <3>6. less[<<d, u>>] \in Nat /\ less[<<d, a>>] \in Nat
      BY <1>11
    <3>7. PICK c : c = (IF u \in U THEN 1 ELSE 0) /\ c \in Nat
      OBVIOUS
    <3>8. PICK e : e = (IF a \in U THEN 1 ELSE 0) /\ e \in Nat
      OBVIOUS
    <3>9. less[<<d, u>>] = c + ls[U]
              <=> less[<<d, u>>] + (e + vs[U]) = c + (ls[U] + vs[U] + e)
      <4>1. PICK x \in Nat, y \in Nat, s \in Nat : x = less[<<d, u>>] /\ y = vs[U] /\ s = ls[U]
        BY <1>13, <3>6
      <4>2. x = c + s <=> x + (e + y) = c + (s + y + e)
        BY <3>7, <3>8, SameMore
      <4> QED BY <4>1, <4>2
    <3>10. more[<<d, u>>] = less[<<d, u>>] + (e + vs[U])
      BY <3>2, <3>3, <3>8
    <3>11. ms[U] = ls[U] + vs[U] + e
      BY <3>5, <3>8
    <3> QED BY <2>2, <3>7, <3>9, <3>10, <3>11
  <2> QED BY <2>3, <2>4
<1> QED BY <1>15, <1>16

\* Sums over the same counts are the same.
LEMMA PathsSame ==
    ASSUME IsFiniteSet(Dev), NEW r, NEW s, Counts(r), Counts(s),
           NEW u \in Dev, NEW S \in SUBSET Dev,
           \A m \in S : s[<<m, u>>] = r[<<m, u>>]
    PROVE  Paths(s, u, S) = Paths(r, u, S)
<1>1. PICK rs : Sums(rs, To(r, u)) /\ \A T \in SUBSET Dev : Paths(r, u, T) = rs[T]
  BY PathsAreSums DEF Counts
<1>2. PICK ss : Sums(ss, To(s, u)) /\ \A T \in SUBSET Dev : Paths(s, u, T) = ss[T]
  BY PathsAreSums DEF Counts
<1>3. PICK f, g : f = To(r, u) /\ g = To(s, u)
  OBVIOUS
<1>4. \A m \in S : g[m] = f[m]
  BY <1>3 DEF To
<1>5. Sums(rs, f) /\ Sums(ss, g)
  BY <1>1, <1>2, <1>3
<1>6. ss[S] = rs[S]
  BY <1>4, <1>5, SumsSame
<1> QED BY <1>1, <1>2, <1>6

\* What holds of the counts and the direct links as long as no change was skewed.
CountsRight(r, up) ==
    /\ Counts(r) /\ Uppers(up)
    /\ AllCounted(r, up) /\ NoLoops(r) /\ Transitive(r)

\* There is a device of X with none of X above it.
LEMMA Topmost ==
    ASSUME IsFiniteSet(Dev), NEW r, Counts(r), NoLoops(r), Transitive(r),
           NEW X \in SUBSET Dev, X # {}
    PROVE  \E x \in X : \A m \in Dev : r[<<x, m>>] > 0 => m \notin X
<1> DEFINE Over(x) == {m \in Dev : r[<<x, m>>] > 0}
           M == {Cardinality(Over(x)) : x \in X}
<1>1. \A x \in Dev : IsFiniteSet(Over(x)) /\ Cardinality(Over(x)) \in Nat
  <2>1. \A x \in Dev : Over(x) \in SUBSET Dev
    OBVIOUS
  <2> HIDE DEF Over
  <2> QED BY <2>1, FS_Subset, FS_CardinalityType
<1>2. M \in SUBSET Nat /\ M # {}
  <2> HIDE DEF Over
  <2> QED BY <1>1
<1>3. PICK n \in M : \A k \in M : n <= k
  <2> HIDE DEF M
  <2> QED BY <1>2, Smallest
<1>4. PICK x \in X : n = Cardinality(Over(x))
  BY <1>3
<1>5. ASSUME NEW m \in Dev, r[<<x, m>>] > 0, m \in X PROVE FALSE
  <2>1. Over(m) \subseteq Over(x) /\ m \in Over(x) /\ m \notin Over(m)
    <3>1. ASSUME NEW k \in Over(m) PROVE k \in Over(x)
      BY <1>5 DEF Transitive
    <3>2. ~(r[<<m, m>>] > 0)
      BY DEF NoLoops
    <3> QED BY <1>5, <3>1, <3>2
  <2> HIDE DEF Over
  <2>2. Cardinality(Over(m)) <= Cardinality(Over(x))
    BY <1>1, <2>1, FS_Subset
  <2>3. Cardinality(Over(m)) # Cardinality(Over(x))
    BY <1>1, <2>1, FS_Subset
  <2>4. Cardinality(Over(m)) \in M
    BY <1>5
  <2>5. n <= Cardinality(Over(m))
    <3> HIDE DEF M
    <3> QED BY <1>3, <2>4
  <2>6. Cardinality(Over(m)) \in Nat /\ Cardinality(Over(x)) \in Nat
    BY <1>1
  <2> HIDE DEF M
  <2> QED BY <1>4, <2>2, <2>3, <2>5, <2>6
<1> QED BY <1>5

\* What leads to a does not leave what is below a for a device above it.
LEMMA NoneAboveIsUnder ==
    ASSUME IsFiniteSet(Dev), NEW r, NEW up, CountsRight(r, up), NEW a \in Dev
    PROVE  /\ \A m \in up[a] : m \notin Under(r, a)
           /\ \A d \in Dev \ Under(r, a) : \A m \in up[d] : m \notin Under(r, a)
<1>1. ASSUME NEW d \in Dev, r[<<d, a>>] = 0, NEW m \in up[d] PROVE m \notin Under(r, a)
  <2>1. Counted(r, up, d, a) /\ Counts(r) /\ Uppers(up)
    BY DEF CountsRight, AllCounted
  <2>2. /\ a \in up[d] => r[<<d, a>>] > 0
        /\ m \in Dev /\ r[<<d, a>>] >= r[<<m, a>>]
    BY <2>1, CountsPassOn
  <2>3. r[<<m, a>>] \in Nat
    BY <2>1, <2>2 DEF Counts
  <2> QED BY <1>1, <2>2, <2>3 DEF Under
<1>2. r[<<a, a>>] = 0
  BY DEF CountsRight, NoLoops
<1>3. \A d \in Dev \ Under(r, a) : r[<<d, a>>] = 0
  BY DEF CountsRight, Counts, Under
<1> QED BY <1>1, <1>2, <1>3

\* No device is below a and above b, or one of the two.
LEMMA NoneOnBothSides ==
    ASSUME NEW r, NEW up, CountsRight(r, up), NEW a \in Dev, NEW b \in Dev, a # b, r[<<b, a>>] = 0
    PROVE  \A d \in Dev : ~(d \in Under(r, a) /\ d \in Above(r, b))
<1> SUFFICES ASSUME NEW d \in Under(r, a), d \in Above(r, b) PROVE FALSE
  OBVIOUS
<1>1. (d = a \/ r[<<d, a>>] > 0) /\ (d = b \/ r[<<b, d>>] > 0) /\ d \in Dev
  BY DEF Under, Above
<1>2. ~(r[<<b, a>>] > 0)
  OBVIOUS
<1> QED BY <1>1, <1>2 DEF CountsRight, Transitive

\* A link keeps the counts right.
LEMMA LinkKeepsRight ==
    ASSUME IsFiniteSet(Dev), NEW r, NEW s, NEW up, NEW upm,
           CountsRight(r, up), Counts(s), Uppers(upm),
           NEW a \in Dev, NEW b \in Dev, a # b, r[<<b, a>>] = 0, b \notin up[a],
           Straight(r, a, b), Meshes(r, s, a, b), upm = WithLink(up, a, b)
    PROVE  CountsRight(s, upm)
<1>1. \A d \in Dev : ~(d \in Under(r, a) /\ d \in Above(r, b))
  BY NoneOnBothSides
<1>2. Counts(r) /\ Uppers(up) /\ AllCounted(r, up) /\ NoLoops(r) /\ Transitive(r)
  BY DEF CountsRight
<1>3. Joins(r, up, a, b)
  <2>1. a \in Under(r, a) /\ b \in Above(r, b)
    BY DEF Under, Above
  <2>2. /\ \A m \in up[a] : m \notin Under(r, a)
        /\ \A d \in Dev \ Under(r, a) : \A m \in up[d] : m \notin Under(r, a)
    BY NoneAboveIsUnder
  <2>3. \A d \in Under(r, a) \ {a} : Counted(r, up, d, a)
    BY <1>2 DEF AllCounted, Under
  <2>4. r[<<a, a>>] = 0 /\ r[<<b, b>>] = 0
    BY <1>2 DEF NoLoops
  <2> QED BY <1>1, <2>1, <2>2, <2>3, <2>4 DEF Joins
<1>4. AllCounted(s, upm)
  <2>1. ASSUME NEW d \in Dev, NEW u \in Dev PROVE Counted(s, upm, d, u)
    <3>1. Counted(r, up, d, u)
      BY <1>2 DEF AllCounted
    <3>2. OneLink(r, up, s, upm, a, b)
      BY <1>2, <1>3 DEF OneLink
    <3>3. Counted(r, up, d, u) <=> Counted(s, upm, d, u)
      BY <3>2, MeshKeepsCounted
    <3> QED BY <3>1, <3>3
  <2> QED BY <2>1 DEF AllCounted
<1>5. ASSUME NEW d \in Dev, NEW e \in Dev
      PROVE  /\ s[<<d, e>>] > 0 => r[<<d, e>>] > 0 \/ (d \in Under(r, a) /\ e \in Above(r, b))
             /\ r[<<d, e>>] > 0 => s[<<d, e>>] > 0
             /\ d \in Under(r, a) /\ e \in Above(r, b) => s[<<d, e>>] > 0
  <2>1. CASE d \in Under(r, a) /\ e \in Above(r, b)
    <3>1. s[<<d, e>>] = r[<<d, e>>] + Paid(r, a, b, d, e)
      BY <2>1 DEF Meshes
    <3>2. r[<<d, e>>] \in Nat /\ r[<<b, e>>] \in Nat /\ r[<<d, a>>] \in Nat
      BY <1>2 DEF Counts
    <3>3. (d = a \/ r[<<d, a>>] > 0) /\ (e = b \/ r[<<b, e>>] > 0)
      BY <2>1 DEF Under, Above
    <3>4. Paid(r, a, b, d, e) \in Nat /\ Paid(r, a, b, d, e) > 0
      BY <3>2, <3>3 DEF Paid
    <3>5. PICK p \in Nat : p = Paid(r, a, b, d, e) /\ p > 0
      BY <3>4
    <3> QED BY <2>1, <3>1, <3>2, <3>5
  <2>2. CASE ~(d \in Under(r, a) /\ e \in Above(r, b))
    <3>1. s[<<d, e>>] = r[<<d, e>>]
      BY <2>2 DEF Meshes
    <3> QED BY <2>2, <3>1
  <2> QED BY <2>1, <2>2
<1>6. NoLoops(s)
  <2> SUFFICES ASSUME NEW d \in Dev PROVE s[<<d, d>>] = 0
    BY DEF NoLoops
  <2>1. ~(r[<<d, d>>] > 0)
    BY <1>2 DEF NoLoops
  <2>2. s[<<d, d>>] \in Nat
    BY DEF Counts
  <2> QED BY <1>1, <1>5, <2>1, <2>2
<1>7. Transitive(s)
  <2> SUFFICES ASSUME NEW d \in Dev, NEW e \in Dev, NEW f \in Dev,
                      s[<<d, e>>] > 0, s[<<e, f>>] > 0
               PROVE  r[<<d, f>>] > 0 \/ (d \in Under(r, a) /\ f \in Above(r, b))
    BY <1>5 DEF Transitive
  <2>1. r[<<d, e>>] > 0 \/ (d \in Under(r, a) /\ e \in Above(r, b))
    BY <1>5, Zenon
  <2>2. r[<<e, f>>] > 0 \/ (e \in Under(r, a) /\ f \in Above(r, b))
    BY <1>5, Zenon
  <2>3. r[<<d, e>>] > 0 /\ e \in Under(r, a) => d \in Under(r, a)
    BY <1>2 DEF Transitive, Under
  <2>4. r[<<e, f>>] > 0 /\ e \in Above(r, b) => f \in Above(r, b)
    BY <1>2 DEF Transitive, Above
  <2>5. r[<<d, e>>] > 0 /\ r[<<e, f>>] > 0 => r[<<d, f>>] > 0
    BY <1>2 DEF Transitive
  <2> QED BY <2>1, <2>3, <2>4, <2>5, <2>2
<1> QED BY <1>4, <1>6, <1>7 DEF CountsRight

\* A device has at least as many paths to what is above b as to a, if b is right above a.
LEMMA CountsCoverMesh ==
    ASSUME IsFiniteSet(Dev), NEW r, NEW upm, CountsRight(r, upm), NEW a \in Dev, NEW b \in upm[a],
           NEW j \in Above(r, b)
    PROVE  \A i \in Dev : r[<<i, j>>] >= r[<<i, a>>]
<1>1. /\ r \in [Dev \X Dev -> Nat] /\ upm \in [Dev -> SUBSET Dev] /\ j \in Dev /\ b \in Dev
      /\ Counts(r) /\ Uppers(upm) /\ \A d, u \in Dev : Counted(r, upm, d, u)
  BY DEF CountsRight, Counts, Uppers, AllCounted, Above
<1>2. r[<<a, j>>] > 0
  <2>1. /\ b = j => r[<<a, j>>] > 0
        /\ r[<<a, j>>] >= r[<<b, j>>]
    BY <1>1, CountsPassOn
  <2> QED BY <1>1, <2>1 DEF Above
<1> DEFINE X == {i \in Dev : ~(r[<<i, j>>] >= r[<<i, a>>])}
<1>3. SUFFICES ASSUME X # {} PROVE FALSE
  OBVIOUS
<1>4. PICK i \in X : \A m \in Dev : r[<<i, m>>] > 0 => m \notin X
  <2>1. X \in SUBSET Dev
    OBVIOUS
  <2> HIDE DEF X
  <2> QED BY <1>3, <2>1, Topmost DEF CountsRight
<1>5. \A m \in upm[i] : m \in Dev /\ r[<<m, j>>] >= r[<<m, a>>]
  <2>1. ASSUME NEW m \in upm[i] PROVE m \in Dev /\ r[<<i, m>>] > 0
    BY <1>1, CountsPassOn
  <2> QED BY <1>4, <2>1
<1>6. PICK f, g, U : f = To(r, j) /\ g = To(r, a) /\ U = upm[i]
  OBVIOUS
<1>7. PICK fs : Sums(fs, To(r, j)) /\ \A S \in SUBSET Dev : Paths(r, j, S) = fs[S]
  BY <1>1, PathsAreSums
<1>8. PICK gs : Sums(gs, To(r, a)) /\ \A S \in SUBSET Dev : Paths(r, a, S) = gs[S]
  BY <1>1, PathsAreSums
<1>9. Sums(fs, f) /\ Sums(gs, g) /\ U \in SUBSET Dev
  BY <1>1, <1>6, <1>7, <1>8
<1>10. NoLess(f, g, a, U)
  <2>1. ASSUME NEW m \in U PROVE f[m] >= g[m] + (IF m = a THEN 1 ELSE 0)
    <3>1. f[m] = r[<<m, j>>] /\ g[m] = r[<<m, a>>] /\ f[m] >= g[m]
      BY <1>1, <1>5, <1>6 DEF To
    <3>2. f[m] \in Nat /\ g[m] \in Nat
      BY <1>9 DEF Sums
    <3>3. r[<<a, a>>] = 0
      BY DEF CountsRight, NoLoops
    <3> QED BY <1>2, <3>1, <3>2, <3>3
  <2> QED BY <2>1 DEF NoLess
<1>11. fs[U] >= gs[U] + (IF a \in U THEN 1 ELSE 0)
  BY <1>9, <1>10, SumsGrow
<1>12. /\ r[<<i, j>>] = (IF j \in U THEN 1 ELSE 0) + fs[U]
       /\ r[<<i, a>>] = (IF a \in U THEN 1 ELSE 0) + gs[U]
  BY <1>1, <1>6, <1>7, <1>8, <1>9 DEF Counted
<1>13. fs[U] \in Nat /\ gs[U] \in Nat /\ ~(r[<<i, j>>] >= r[<<i, a>>])
  BY <1>4, <1>9 DEF Sums
<1> HIDE DEF X
<1> QED BY <1>11, <1>12, <1>13

\* What an unlink leaves of the counts.
Unmeshes(r, s, a, b) ==
    \A i, j \in Dev : s[<<i, j>>] = IF i \in Under(r, a) /\ j \in Above(r, b)
                                    THEN IF r[<<i, j>>] > Paid(r, a, b, i, j)
                                         THEN r[<<i, j>>] - Paid(r, a, b, i, j) ELSE 0
                                    ELSE r[<<i, j>>]

\* An unlink finds what it takes away, and keeps the counts right.
LEMMA UnlinkKeepsRight ==
    ASSUME IsFiniteSet(Dev), NEW r, NEW s, NEW up, NEW upm,
           CountsRight(r, upm), Counts(s), Uppers(up),
           NEW a \in Dev, NEW b \in upm[a], Straight(r, a, b), Unmeshes(r, s, a, b),
           up = [upm EXCEPT ![a] = @ \ {b}]
    PROVE  /\ CountsRight(s, up)
           /\ \A i \in Under(r, a), j \in Above(r, b) : r[<<i, j>>] > 0
<1>1. /\ r \in [Dev \X Dev -> Nat] /\ upm \in [Dev -> SUBSET Dev] /\ b \in Dev
      /\ Counts(r) /\ Uppers(upm) /\ \A d, u \in Dev : Counted(r, upm, d, u)
      /\ NoLoops(r) /\ Transitive(r)
  BY DEF CountsRight, Counts, Uppers, AllCounted
<1>2. /\ r[<<a, b>>] > 0
      /\ \A j \in Dev : r[<<a, j>>] >= r[<<b, j>>]
  BY <1>1, CountsPassOn
<1>3. a # b /\ r[<<b, a>>] = 0
  <2>1. ~(r[<<a, a>>] > 0) /\ r[<<b, a>>] \in Nat
    BY <1>1 DEF NoLoops
  <2>2. r[<<a, b>>] > 0 /\ r[<<b, a>>] > 0 => r[<<a, a>>] > 0
    BY <1>1 DEF Transitive
  <2> QED BY <1>2, <2>1, <2>2
<1>4. \A d \in Dev : ~(d \in Under(r, a) /\ d \in Above(r, b))
  BY <1>1, <1>3, NoneOnBothSides
<1>5. a \in Under(r, a) /\ b \in Above(r, b)
  BY <1>1 DEF Under, Above
<1>6. ASSUME NEW i \in Under(r, a), NEW j \in Above(r, b)
      PROVE  /\ i \in Dev /\ j \in Dev /\ Paid(r, a, b, i, j) \in Nat
             /\ r[<<i, j>>] \in Nat /\ r[<<i, j>>] > 0
             /\ r[<<i, j>>] >= Paid(r, a, b, i, j)
  <2>1. i \in Dev /\ j \in Dev /\ r[<<i, j>>] \in Nat
    BY <1>1 DEF Under, Above
  <2>2. r[<<i, j>>] >= r[<<i, a>>]
    BY <1>1, <2>1, CountsCoverMesh
  <2>3. r[<<a, j>>] >= r[<<b, j>>] /\ (j = b => r[<<a, j>>] > 0)
    BY <1>2, <2>1
  <2>4. (i = a \/ r[<<i, a>>] > 0) /\ (j = b \/ r[<<b, j>>] > 0)
    BY DEF Under, Above
  <2>5. r[<<i, a>>] \in Nat /\ r[<<b, j>>] \in Nat
    BY <1>1, <2>1
  <2>6. r[<<i, j>>] > 0
    BY <2>1, <2>2, <2>3, <2>4, <2>5
  <2> QED BY <2>1, <2>2, <2>3, <2>4, <2>5, <2>6 DEF Paid
<1>7. ASSUME NEW i \in Dev, NEW j \in Dev
      PROVE  /\ s[<<i, j>>] = IF i \in Under(r, a) /\ j \in Above(r, b)
                              THEN r[<<i, j>>] - Paid(r, a, b, i, j) ELSE r[<<i, j>>]
             /\ s[<<i, j>>] <= r[<<i, j>>]
  <2>1. CASE i \in Under(r, a) /\ j \in Above(r, b)
    <3>1. /\ Paid(r, a, b, i, j) \in Nat /\ r[<<i, j>>] \in Nat
          /\ r[<<i, j>>] >= Paid(r, a, b, i, j)
      BY <1>6, <2>1
    <3>2. s[<<i, j>>] = IF r[<<i, j>>] > Paid(r, a, b, i, j)
                        THEN r[<<i, j>>] - Paid(r, a, b, i, j) ELSE 0
      BY <2>1 DEF Unmeshes
    <3>3. PICK p \in Nat, n \in Nat : p = Paid(r, a, b, i, j) /\ n = r[<<i, j>>]
      BY <3>1
    <3> QED BY <2>1, <3>1, <3>2, <3>3
  <2>2. CASE ~(i \in Under(r, a) /\ j \in Above(r, b))
    <3>1. s[<<i, j>>] = r[<<i, j>>] /\ r[<<i, j>>] \in Nat
      BY <1>1, <2>2 DEF Unmeshes
    <3> QED BY <2>2, <3>1
  <2> QED BY <2>1, <2>2
<1>8. ASSUME NEW d \in Dev
      PROVE  s[<<d, a>>] = r[<<d, a>>] /\ s[<<b, d>>] = r[<<b, d>>]
  <2>1. a \notin Above(r, b) /\ b \notin Under(r, a)
    BY <1>1, <1>4, <1>5
  <2> QED BY <1>1, <1>7, <2>1
<1>9. Under(s, a) = Under(r, a) /\ Above(s, b) = Above(r, b)
  BY <1>8 DEF Under, Above
<1>10. \A i, j \in Dev : Paid(s, a, b, i, j) = Paid(r, a, b, i, j)
  BY <1>1, <1>8 DEF Paid
<1>11. Meshes(s, r, a, b)
  <2> SUFFICES ASSUME NEW i \in Dev, NEW j \in Dev
               PROVE  r[<<i, j>>] = IF i \in Under(s, a) /\ j \in Above(s, b)
                                    THEN s[<<i, j>>] + Paid(s, a, b, i, j) ELSE s[<<i, j>>]
    BY DEF Meshes
  <2>1. CASE i \in Under(r, a) /\ j \in Above(r, b)
    <3>1. s[<<i, j>>] = r[<<i, j>>] - Paid(r, a, b, i, j)
      BY <1>7, <2>1
    <3>2. Paid(r, a, b, i, j) \in Nat /\ r[<<i, j>>] \in Nat
      BY <1>6, <2>1
    <3>3. PICK p \in Nat, n \in Nat : p = Paid(r, a, b, i, j) /\ n = r[<<i, j>>]
      BY <3>2
    <3>4. s[<<i, j>>] + Paid(s, a, b, i, j) = r[<<i, j>>]
      BY <1>10, <3>1, <3>3
    <3> QED BY <1>9, <2>1, <3>4
  <2>2. CASE ~(i \in Under(r, a) /\ j \in Above(r, b))
    BY <1>7, <1>9, <2>2
  <2> QED BY <2>1, <2>2
<1>12. up[a] = upm[a] \ {b} /\ \A d \in Dev \ {a} : up[d] = upm[d]
  BY <1>1
<1>13. Joins(s, up, a, b)
  <2>1. b \notin up[a] /\ Straight(s, a, b)
    BY <1>8, <1>12 DEF Straight
  <2>2. a \notin Above(s, b) /\ b \notin Under(s, a)
    BY <1>1, <1>4, <1>5, <1>9
  <2>3. s[<<a, a>>] = 0 /\ s[<<b, b>>] = 0
    BY <1>1, <1>8 DEF NoLoops
  <2>4. /\ \A m \in upm[a] : m \notin Under(r, a)
        /\ \A d \in Dev \ Under(r, a) : \A m \in upm[d] : m \notin Under(r, a)
    BY NoneAboveIsUnder
  <2>5. /\ \A m \in up[a] : m \notin Under(s, a)
        /\ \A d \in Dev \ Under(s, a) : \A m \in up[d] : m \notin Under(s, a)
    BY <1>5, <1>9, <1>12, <2>4
  <2>6. ASSUME NEW d \in Under(s, a) \ {a} PROVE Counted(s, up, d, a)
    <3>1. d \in Dev /\ up[d] = upm[d] /\ upm[d] \in SUBSET Dev
      BY <1>1, <1>12 DEF Under
    <3>2. \A m \in upm[d] : s[<<m, a>>] = r[<<m, a>>]
      BY <1>8, <3>1
    <3>3. Paths(s, a, upm[d]) = Paths(r, a, upm[d])
      BY <3>1, <3>2, PathsSame DEF CountsRight
    <3>4. Counted(r, upm, d, a) /\ s[<<d, a>>] = r[<<d, a>>]
      BY <1>1, <1>8, <3>1
    <3> QED BY <3>1, <3>3, <3>4 DEF Counted
  <2> QED BY <2>1, <2>2, <2>3, <2>5, <2>6 DEF Joins
<1>14. upm = WithLink(up, a, b)
  BY <1>1 DEF WithLink
<1>15. ASSUME NEW d \in Dev, NEW u \in Dev PROVE Counted(s, up, d, u)
  <2>1. Counts(r) /\ Uppers(upm) /\ Counted(r, upm, d, u)
    BY <1>1 DEF CountsRight
  <2>2. OneLink(s, up, r, upm, a, b)
    BY <1>11, <1>13, <1>14, <2>1 DEF OneLink
  <2>3. Counted(s, up, d, u) <=> Counted(r, upm, d, u)
    BY <1>1, <2>2, MeshKeepsCounted
  <2> QED BY <2>1, <2>3
<1>16. NoLoops(s)
  <2>1. ASSUME NEW d \in Dev PROVE s[<<d, d>>] = 0
    <3>1. r[<<d, d>>] = 0 /\ s[<<d, d>>] <= r[<<d, d>>] /\ s[<<d, d>>] \in Nat
      BY <1>1, <1>7 DEF NoLoops, Counts
    <3> QED BY <3>1
  <2> QED BY <2>1 DEF NoLoops
<1>17. Transitive(s)
  <2> DEFINE X == {d \in Dev : \E e, f \in Dev : /\ s[<<d, e>>] > 0 /\ s[<<e, f>>] > 0
                                                 /\ ~(s[<<d, f>>] > 0)}
  <2>1. SUFFICES ASSUME X # {} PROVE FALSE
    BY DEF Transitive
  <2>2. PICK d \in X : \A m \in Dev : r[<<d, m>>] > 0 => m \notin X
    <3>1. X \in SUBSET Dev
      OBVIOUS
    <3> HIDE DEF X
    <3> QED BY <2>1, <3>1, Topmost DEF CountsRight
  <2>3. PICK e \in Dev, f \in Dev : s[<<d, e>>] > 0 /\ s[<<e, f>>] > 0 /\ ~(s[<<d, f>>] > 0)
    BY <2>2
  <2>4. d \in Dev
    BY <2>2
  <2>5. /\ \A m \in up[d] : m \in Dev /\ s[<<d, f>>] >= s[<<m, f>>]
        /\ e \notin up[d] => \E m \in up[d] : s[<<m, e>>] > 0
    <3>1. Counted(s, up, d, f) /\ Counted(s, up, d, e)
      BY <1>15, <2>4
    <3>2. \A m \in up[d] : m \in Dev /\ s[<<d, f>>] >= s[<<m, f>>]
      BY <2>4, <3>1, CountsPassOn
    <3>3. e \notin up[d] => \E m \in up[d] : s[<<m, e>>] > 0
      BY <2>3, <2>4, <3>1, CountsPassOn
    <3> QED BY <3>2, <3>3
  <2>6. \A m \in up[d] : ~(s[<<m, f>>] > 0)
    <3>1. ASSUME NEW m \in up[d], s[<<m, f>>] > 0 PROVE FALSE
      <4>1. s[<<d, f>>] >= s[<<m, f>>] /\ s[<<d, f>>] \in Nat /\ s[<<m, f>>] \in Nat
        BY <2>4, <2>5 DEF Counts
      <4> QED BY <2>3, <3>1, <4>1
    <3> QED BY <3>1
  <2>7. PICK m \in up[d] : s[<<m, e>>] > 0
    BY <2>3, <2>5, <2>6
  <2>8. m \in X
    BY <2>3, <2>5, <2>6, <2>7
  <2>9. m \in upm[d] /\ r[<<d, m>>] > 0
    <3>1. m \in upm[d] /\ m \in Dev
      BY <1>1, <1>12, <2>4, <2>5
    <3>2. Counted(r, upm, d, m)
      BY <1>1, <2>4, <3>1
    <3> QED BY <1>1, <2>4, <3>1, <3>2, CountsPassOn
  <2> QED BY <2>2, <2>5, <2>8, <2>9
<1> QED BY <1>6, <1>15, <1>16, <1>17 DEF CountsRight, AllCounted

\* As long as no change was skewed, the counts are right and every entry removed was there.
PathsIInv == AdjTypeOK /\ (~skewed => CountsRight(ref, upper) /\ ~bug)

LEMMA InitPathsIInv == ASSUME IsFiniteSet(Dev), AdjInit PROVE PathsIInv
<1>1. AdjTypeOK /\ Counts(ref) /\ Uppers(upper) /\ ref \in [Dev \X Dev -> Nat]
  BY DEF AdjInit, AdjTypeOK, Counts, Uppers
<1>2. \A d, u \in Dev : ref[<<d, u>>] = 0 /\ upper[d] = {}
  BY DEF AdjInit
<1>3. ASSUME NEW d \in Dev, NEW u \in Dev PROVE Counted(ref, upper, d, u)
  <2>1. PICK r : r = ref
    OBVIOUS
  <2>2. PICK it : Sums(it, To(r, u)) /\ \A S \in SUBSET Dev : Paths(r, u, S) = it[S]
    <3>1. r \in [Dev \X Dev -> Nat]
      BY <1>1, <2>1
    <3> QED BY <3>1, PathsAreSums
  <2>3. Paths(r, u, {}) = 0
    BY <2>2 DEF Sums
  <2>4. r[<<d, u>>] = 0 /\ upper[d] = {}
    BY <1>2, <2>1
  <2>5. Counted(r, upper, d, u)
    BY <2>3, <2>4 DEF Counted
  <2> QED BY <2>1, <2>5
<1>4. AllCounted(ref, upper) /\ NoLoops(ref) /\ Transitive(ref)
  BY <1>2, <1>3 DEF AllCounted, NoLoops, Transitive
<1> QED BY <1>1, <1>4 DEF PathsIInv, CountsRight, AdjInit

\* The pairs whose counts a link changes, and by how much.
LEMMA PairsAndAmounts ==
    ASSUME NEW r, r = ref, Counts(r), NEW dev \in Dev, NEW up \in Dev, NEW i \in Dev, NEW j \in Dev
    PROVE  /\ <<i, j>> \in Pairs(dev, up) <=> i \in Under(r, dev) /\ j \in Above(r, up)
           /\ Amount(dev, up, <<i, j>>) = Paid(r, dev, up, i, j)
BY DEF Pairs, Lower, Upper, Under, Above, Amount, Paid

LEMMA NextPathsIInv ==
    ASSUME IsFiniteSet(Dev), PathsIInv, [AdjNext]_adjVars PROVE PathsIInv'
<1>1. AdjTypeOK /\ AdjTypeOK'
  BY AdjTypesKept DEF PathsIInv
<1>2. Counts(ref) /\ Counts(ref)' /\ Uppers(upper) /\ Uppers(upper)'
  BY <1>1 DEF AdjTypeOK, Counts, Uppers
<1>3. PICK r, s, up, upm : r = ref /\ s = ref' /\ up = upper /\ upm = upper'
  OBVIOUS
<1>4. Counts(r) /\ Counts(s) /\ Uppers(up) /\ Uppers(upm)
  BY <1>2, <1>3 DEF Counts, Uppers
<1>5. SUFFICES ASSUME ~skewed' PROVE CountsRight(s, upm) /\ ~bug'
  BY <1>1, <1>3 DEF PathsIInv
<1>6. ~skewed => CountsRight(r, up) /\ ~bug
  BY <1>3 DEF PathsIInv
<1>7. ASSUME NEW dev \in Dev, NEW u \in Dev, ~Skews(dev, u) PROVE Straight(r, dev, u)
  <2>1. \A i, j \in Dev : r[<<i, dev>>] > 0 /\ r[<<u, j>>] > 0 => ~(r[<<u, j>>] > 1)
    BY <1>3, <1>7 DEF Skews, Lower, Upper
  <2>2. \A j \in Dev : r[<<u, j>>] \in Nat
    BY <1>4 DEF Counts
  <2> QED BY <2>1, <2>2 DEF Straight
<1>8. ASSUME NEW dev \in Dev, NEW u \in Dev, UpperDevLink(dev, u) PROVE CountsRight(s, upm) /\ ~bug'
  <2>1. ~skewed /\ ~Skews(dev, u) /\ CountsRight(r, up) /\ ~bug /\ ~bug'
    BY <1>5, <1>6, <1>8 DEF UpperDevLink
  <2>2. dev # u /\ r[<<u, dev>>] = 0 /\ u \notin up[dev]
    BY <1>3, <1>4, <1>8 DEF UpperDevLink, MayLink, Upper, Counts
  <2>3. upm = WithLink(up, dev, u)
    BY <1>3, <1>8 DEF UpperDevLink, WithLink
  <2>4. Meshes(r, s, dev, u)
    <3> SUFFICES ASSUME NEW i \in Dev, NEW j \in Dev
                 PROVE  s[<<i, j>>] = IF i \in Under(r, dev) /\ j \in Above(r, u)
                                      THEN r[<<i, j>>] + Paid(r, dev, u, i, j) ELSE r[<<i, j>>]
      BY DEF Meshes
    <3>1. s[<<i, j>>] = IF <<i, j>> \in Pairs(dev, u)
                        THEN r[<<i, j>>] + Amount(dev, u, <<i, j>>) ELSE r[<<i, j>>]
      BY <1>3, <1>8 DEF UpperDevLink, Inserted
    <3> QED BY <1>3, <1>4, <3>1, PairsAndAmounts
  <2> QED BY <1>4, <1>7, <2>1, <2>2, <2>3, <2>4, LinkKeepsRight
<1>9. ASSUME NEW dev \in Dev, NEW u \in Dev, UpperDevLinkFails(dev, u)
      PROVE  CountsRight(s, upm) /\ ~bug'
  <2>1. s = r
    <3>1. PICK done \in SUBSET Pairs(dev, u) :
             ref' = Removed(Inserted(ref, dev, u, done), dev, u, Undone(dev, u, done))
      BY <1>9 DEF UpperDevLinkFails
    <3> QED BY <1>1, <1>3, <3>1, RollBackRestores DEF Undone
  <2>2. ~skewed /\ upm = up /\ bug' = bug
    BY <1>3, <1>5, <1>9 DEF UpperDevLinkFails
  <2> QED BY <1>6, <2>1, <2>2
<1>10. ASSUME NEW dev \in Dev, NEW u \in Dev, UpperDevUnlink(dev, u)
       PROVE  CountsRight(s, upm) /\ ~bug'
  <2>1. ~skewed /\ ~Skews(dev, u) /\ CountsRight(r, up) /\ u \in up[dev]
    BY <1>3, <1>5, <1>6, <1>10 DEF UpperDevUnlink
  <2>2. upm = [up EXCEPT ![dev] = @ \ {u}]
    BY <1>3, <1>10 DEF UpperDevUnlink
  <2>3. Unmeshes(r, s, dev, u)
    <3> SUFFICES ASSUME NEW i \in Dev, NEW j \in Dev
                 PROVE  s[<<i, j>>] = IF i \in Under(r, dev) /\ j \in Above(r, u)
                                      THEN IF r[<<i, j>>] > Paid(r, dev, u, i, j)
                                           THEN r[<<i, j>>] - Paid(r, dev, u, i, j) ELSE 0
                                      ELSE r[<<i, j>>]
      BY DEF Unmeshes
    <3>1. s[<<i, j>>] = IF <<i, j>> \notin Pairs(dev, u) THEN r[<<i, j>>]
                        ELSE IF r[<<i, j>>] > Amount(dev, u, <<i, j>>)
                             THEN r[<<i, j>>] - Amount(dev, u, <<i, j>>) ELSE 0
      BY <1>3, <1>10 DEF UpperDevUnlink, Removed
    <3> QED BY <1>3, <1>4, <3>1, PairsAndAmounts
  <2>4. CountsRight(s, upm) /\ \A i \in Under(r, dev), j \in Above(r, u) : r[<<i, j>>] > 0
    BY <1>4, <1>7, <2>1, <2>2, <2>3, UnlinkKeepsRight
  <2>5. ASSUME NEW p \in Pairs(dev, u), ref[p] = 0 PROVE FALSE
    <3>1. PICK i \in Dev, j \in Dev : p = <<i, j>>
      BY DEF Pairs, Lower, Upper
    <3>2. i \in Under(r, dev) /\ j \in Above(r, u)
      BY <1>3, <1>4, <3>1, PairsAndAmounts
    <3>3. r[<<i, j>>] > 0 /\ r[<<i, j>>] = 0
      BY <1>3, <2>4, <2>5, <3>1, <3>2
    <3> QED BY <3>3
  <2> QED BY <1>10, <2>4, <2>5 DEF UpperDevUnlink
<1>11. CASE UNCHANGED adjVars
  BY <1>3, <1>5, <1>6, <1>11 DEF adjVars
<1> QED BY <1>8, <1>9, <1>10, <1>11 DEF AdjNext

\* RefsCountPaths holds of any tree or mesh of any number of devices: a count of
\* all_adj_list is the number of paths, as long as no link or unlink met several of them.
THEOREM CountsArePaths == ASSUME IsFiniteSet(Dev) PROVE AdjSpec => []RefsCountPaths
<1>1. PathsIInv => RefsCountPaths
  <2> SUFFICES ASSUME PathsIInv, ~skewed PROVE RefsCountPaths
    BY DEF RefsCountPaths
  <2>1. CountsRight(ref, upper) /\ ~bug
    BY DEF PathsIInv
  <2>2. \A d, u \in Dev : Counted(ref, upper, d, u)
    BY <2>1 DEF CountsRight, AllCounted
  <2>3. ASSUME NEW d \in Dev, d \in Upper(d) PROVE FALSE
    <3>1. PICK r : r = ref
      OBVIOUS
    <3>2. CountsRight(r, upper)
      BY <2>1, <3>1
    <3>3. r[<<d, d>>] = 0
      BY <3>2 DEF CountsRight, NoLoops
    <3> QED BY <2>3, <3>1, <3>3 DEF Upper
  <2> QED BY <2>1, <2>2, <2>3 DEF RefsCountPaths, Counted, Paths
<1>2. AdjInit => PathsIInv
  BY InitPathsIInv
<1>3. PathsIInv /\ [AdjNext]_adjVars => PathsIInv'
  BY NextPathsIInv
<1> QED BY <1>1, <1>2, <1>3, PTL DEF AdjSpec
-----------------------------------------------------------------------------
(* The devices and their notifiers.                                        *)

\* Where a thread holds RTNL for the device it works on.
Busy == {"registering", "rollback", "unlisted", "detaching", "moving", "moved"}

\* Where a device is off the lists.
Off == {"unlisted", "detaching", "failed", "todo", "waiting", "moving", "moved"}

ViewTypeOK == /\ pc \in [Mortal -> Stage]
              /\ reg \in [Mortal -> RegState]
              /\ known \in [Notifiers -> SUBSET Dev]
              /\ open \in [Notifiers -> SUBSET Dev]
              /\ running \subseteq listed
              /\ listed \subseteq Dev
              /\ chain \subseteq Notifiers

\* The thread that works on d holds RTNL, and d is listed only while it is registered.
DeviceOK(d) ==
    /\ pc[d] \in Busy <=> rtnl = {d}
    /\ reg[d] \in {"UNINITIALIZED", "RELEASED"} => pc[d] = "idle"
    /\ pc[d] \in {"registering", "rollback", "moving", "moved"} => reg[d] = "REGISTERED"
    /\ reg[d] # "REGISTERED" \/ pc[d] \in Off => d \notin listed
    /\ pc[d] = "registering" => d \in listed

\* n knows of e exactly if e is listed; the device that RTNL is held for is an exception
\* until NETDEV_UNREGISTER was sent for it.
KnowsRightly(n, e) == IF rtnl = {e} THEN pc[e] = "detaching" => e \notin known[n]
                      ELSE e \in known[n] <=> e \in listed

\* A notifier that devices are being replayed to knows part of them; one outside the
\* chain knows nothing.
NotifierOK(n) ==
    /\ rtnl = {n} => /\ n \in chain
                     /\ known[n] \subseteq listed
                     /\ open[n] = known[n] \cap running
    /\ n \in chain /\ rtnl # {n} => /\ open[n] = running
                                    /\ \A e \in Dev : KnowsRightly(n, e)
    /\ n \notin chain => known[n] = {} /\ open[n] = {}

ViewIInv == /\ ViewTypeOK
            /\ \A d \in Mortal : DeviceOK(d)
            /\ \A n \in Notifiers : NotifierOK(n)

USE DeviceAssumption DEF lifeVars, viewVars
-----------------------------------------------------------------------------
\* A step that leaves the life of devices and the views alone keeps the invariant.
LEMMA ViewStable == ViewIInv /\ UNCHANGED <<rtnl, lifeVars, viewVars>> => ViewIInv'
BY DEF ViewIInv, ViewTypeOK, DeviceOK, NotifierOK, KnowsRightly

\* Closing a device, for which the notifiers of the chain are right about what is up.
LEMMA CloseKeepsOpen ==
    ASSUME ViewTypeOK, NEW d \in Dev, Close(d)
    PROVE  /\ running' = running \ {d}
           /\ \A n \in Notifiers \ chain : open'[n] = open[n]
           /\ \A n \in chain : open[n] = running => open'[n] = running'
           /\ open' \in [Notifiers -> SUBSET Dev]
<1>1. CASE d \in running
  <2>1. running' = running \ {d}
    BY <1>1 DEF Close
  <2>2. open' = [n \in Notifiers |-> IF n \in chain THEN open[n] \ {d} ELSE open[n]]
    BY <1>1 DEF Close, Dropped
  <2>3. open' \in [Notifiers -> SUBSET Dev]
    BY <2>2 DEF ViewTypeOK
  <2>4. \A n \in Notifiers \ chain : open'[n] = open[n]
    BY <2>2
  <2>5. \A n \in chain : n \in Notifiers
    BY DEF ViewTypeOK
  <2>6. \A n \in chain : open'[n] = open[n] \ {d}
    BY <2>2, <2>5
  <2>7. \A n \in chain : open[n] = running => open'[n] = running'
    BY <2>1, <2>6
  <2> QED BY <2>1, <2>3, <2>4, <2>7
<1>2. CASE d \notin running
  <2>1. running' = running /\ open' = open
    BY <1>2 DEF Close
  <2>2. running \ {d} = running
    BY <1>2
  <2> QED BY <2>1, <2>2 DEF ViewTypeOK
<1> QED BY <1>1, <1>2

\* Opening and closing a device.
LEMMA OpensKeepView ==
    ASSUME ViewIInv, NEW d \in Toggled,
           \/ DevOpen(d)
           \/ DevClose(d)
    PROVE  ViewIInv'
<1>1. ASSUME DevOpen(d) PROVE ViewIInv'
  <2>1. ViewTypeOK'
    BY <1>1 DEF ViewIInv, ViewTypeOK, Stage, RegState, DevOpen, RtnlFree, Added
  <2>2. ASSUME NEW x \in Mortal PROVE DeviceOK(x)'
    BY <1>1 DEF ViewIInv, ViewTypeOK, DeviceOK, Busy, Off, DevOpen, RtnlFree, Added
  <2>3. ASSUME NEW m \in Notifiers PROVE NotifierOK(m)'
    BY <1>1 DEF ViewIInv, ViewTypeOK, DeviceOK, NotifierOK, KnowsRightly, Busy, Off,
                DevOpen, RtnlFree, Added
  <2> QED BY <2>1, <2>2, <2>3 DEF ViewIInv
<1>2. ASSUME DevClose(d) PROVE ViewIInv'
  <2>1. ViewTypeOK'
    BY <1>2, CloseKeepsOpen DEF ViewIInv, ViewTypeOK, Stage, RegState, DevClose, RtnlFree
  <2>2. ASSUME NEW x \in Mortal PROVE DeviceOK(x)'
    BY <1>2, CloseKeepsOpen DEF ViewIInv, ViewTypeOK, DeviceOK, Busy, Off, DevClose,
                                RtnlFree
  <2>3. ASSUME NEW m \in Notifiers PROVE NotifierOK(m)'
    BY <1>2, CloseKeepsOpen DEF ViewIInv, ViewTypeOK, DeviceOK, NotifierOK, KnowsRightly,
                                Busy, Off, DevClose, RtnlFree
  <2> QED BY <2>1, <2>2, <2>3 DEF ViewIInv
<1> QED BY <1>1, <1>2

\* A notifier comes, is replayed to, and goes.
LEMMA NotifiersKeepView ==
    ASSUME ViewIInv, NEW n \in Notifiers,
           RegisterNotifier(n) \/ ReplayStep(n) \/ UnregisterNotifier(n)
    PROVE  ViewIInv'
<1>1. ASSUME RegisterNotifier(n) PROVE ViewIInv'
  <2>1. ViewTypeOK'
    BY <1>1 DEF ViewIInv, ViewTypeOK, Stage, RegState, RegisterNotifier, RtnlFree
  <2>2. ASSUME NEW x \in Mortal PROVE DeviceOK(x)'
    BY <1>1 DEF ViewIInv, ViewTypeOK, DeviceOK, Busy, Off, RegisterNotifier, RtnlFree
  <2>3. ASSUME NEW m \in Notifiers PROVE NotifierOK(m)'
    BY <1>1 DEF ViewIInv, ViewTypeOK, DeviceOK, NotifierOK, KnowsRightly, Busy, Off,
                RegisterNotifier, RtnlFree
  <2> QED BY <2>1, <2>2, <2>3 DEF ViewIInv
<1>2. ASSUME NEW d \in Dev, Replay(n, d) PROVE ViewIInv'
  <2>1. ViewTypeOK'
    BY <1>2 DEF ViewIInv, ViewTypeOK, Stage, RegState, Replay, Added, ReplayedUp
  <2>2. ASSUME NEW x \in Mortal PROVE DeviceOK(x)'
    BY <1>2 DEF ViewIInv, ViewTypeOK, DeviceOK, Busy, Off, Replay, Added, ReplayedUp
  <2>3. ASSUME NEW m \in Notifiers PROVE NotifierOK(m)'
    BY <1>2 DEF ViewIInv, ViewTypeOK, DeviceOK, NotifierOK, KnowsRightly, Busy, Off, Replay,
                Added, ReplayedUp
  <2> QED BY <2>1, <2>2, <2>3 DEF ViewIInv
<1>3. ASSUME ReplayEnds(n) PROVE ViewIInv'
  <2>1. ViewTypeOK'
    BY <1>3 DEF ViewIInv, ViewTypeOK, Stage, RegState, ReplayEnds
  <2>2. ASSUME NEW x \in Mortal PROVE DeviceOK(x)'
    BY <1>3 DEF ViewIInv, ViewTypeOK, DeviceOK, Busy, Off, ReplayEnds
  <2>3. ASSUME NEW m \in Notifiers PROVE NotifierOK(m)'
    <3>1. CASE m = n
      <4>1. /\ rtnl = {n} /\ rtnl' = {} /\ n \in chain
            /\ known[n] \subseteq listed /\ listed \subseteq known[n]
            /\ open[n] = known[n] \cap running /\ running \subseteq listed
        BY <1>3 DEF ViewIInv, ViewTypeOK, NotifierOK, ReplayEnds
      <4>2. known[n] = listed
        BY <4>1
      <4>3. open[n] = running
        BY <4>1
      <4>4. known' = known /\ open' = open /\ listed' = listed /\ running' = running
            /\ chain' = chain
        BY <1>3 DEF ReplayEnds
      <4>5. \A e \in Dev : KnowsRightly(n, e)'
        BY <4>1, <4>2, <4>4 DEF KnowsRightly
      <4>6. NotifierOK(n)'
        BY <4>1, <4>3, <4>4, <4>5 DEF NotifierOK
      <4> QED BY <3>1, <4>6
    <3>2. CASE m # n
      BY <1>3, <3>2 DEF ViewIInv, NotifierOK, KnowsRightly, ReplayEnds
    <3> QED BY <3>1, <3>2
  <2> QED BY <2>1, <2>2, <2>3 DEF ViewIInv
<1>4. ASSUME ReplayVetoed(n) PROVE ViewIInv'
  <2>1. ViewTypeOK'
    BY <1>4 DEF ViewIInv, ViewTypeOK, Stage, RegState, ReplayVetoed, Withdrawn
  <2>2. ASSUME NEW x \in Mortal PROVE DeviceOK(x)'
    BY <1>4 DEF ViewIInv, ViewTypeOK, DeviceOK, Busy, Off, ReplayVetoed, Withdrawn
  <2>3. ASSUME NEW m \in Notifiers PROVE NotifierOK(m)'
    BY <1>4 DEF ViewIInv, ViewTypeOK, DeviceOK, NotifierOK, KnowsRightly, Busy, Off,
                ReplayVetoed, Withdrawn
  <2> QED BY <2>1, <2>2, <2>3 DEF ViewIInv
<1>5. ASSUME UnregisterNotifier(n) PROVE ViewIInv'
  <2>1. ViewTypeOK'
    BY <1>5 DEF ViewIInv, ViewTypeOK, Stage, RegState, UnregisterNotifier, RtnlFree,
                Withdrawn
  <2>2. ASSUME NEW x \in Mortal PROVE DeviceOK(x)'
    BY <1>5 DEF ViewIInv, ViewTypeOK, DeviceOK, Busy, Off, UnregisterNotifier, RtnlFree,
                Withdrawn
  <2>3. ASSUME NEW m \in Notifiers PROVE NotifierOK(m)'
    BY <1>5 DEF ViewIInv, ViewTypeOK, DeviceOK, NotifierOK, KnowsRightly, Busy, Off,
                UnregisterNotifier, RtnlFree, Withdrawn
  <2> QED BY <2>1, <2>2, <2>3 DEF ViewIInv
<1> QED BY <1>1, <1>2, <1>3, <1>4, <1>5 DEF ReplayStep

\* A device is allocated and registered.
LEMMA RegistrationKeepsView ==
    ASSUME ViewIInv, NEW d \in Mortal,
           \/ AllocNetdev(d)
           \/ RegisterNetdevice(d)
           \/ RegisterAccepted(d)
           \/ RegisterVetoed(d)
    PROVE  ViewIInv'
<1>1. ASSUME AllocNetdev(d) PROVE ViewIInv'
  <2>1. ViewTypeOK'
    BY <1>1 DEF ViewIInv, ViewTypeOK, Stage, RegState, AllocNetdev
  <2>2. ASSUME NEW x \in Mortal PROVE DeviceOK(x)'
    BY <1>1 DEF ViewIInv, ViewTypeOK, DeviceOK, Busy, Off, AllocNetdev
  <2>3. ASSUME NEW m \in Notifiers PROVE NotifierOK(m)'
    BY <1>1 DEF ViewIInv, ViewTypeOK, DeviceOK, NotifierOK, KnowsRightly, Busy, Off,
                AllocNetdev
  <2> QED BY <2>1, <2>2, <2>3 DEF ViewIInv
<1>2. ASSUME RegisterNetdevice(d) PROVE ViewIInv'
  <2>1. ViewTypeOK'
    BY <1>2 DEF ViewIInv, ViewTypeOK, Stage, RegState, RegisterNetdevice, RtnlFree
  <2>2. ASSUME NEW x \in Mortal PROVE DeviceOK(x)'
    BY <1>2 DEF ViewIInv, ViewTypeOK, DeviceOK, Busy, Off, RegisterNetdevice, RtnlFree
  <2>3. ASSUME NEW m \in Notifiers PROVE NotifierOK(m)'
    BY <1>2 DEF ViewIInv, ViewTypeOK, DeviceOK, NotifierOK, KnowsRightly, Busy, Off,
                RegisterNetdevice, RtnlFree
  <2> QED BY <2>1, <2>2, <2>3 DEF ViewIInv
<1>3. ASSUME RegisterAccepted(d) PROVE ViewIInv'
  <2>1. ViewTypeOK'
    BY <1>3 DEF ViewIInv, ViewTypeOK, Stage, RegState, RegisterAccepted, Added
  <2>2. ASSUME NEW x \in Mortal PROVE DeviceOK(x)'
    BY <1>3 DEF ViewIInv, ViewTypeOK, DeviceOK, Busy, Off, RegisterAccepted, Added
  <2>3. ASSUME NEW m \in Notifiers PROVE NotifierOK(m)'
    BY <1>3 DEF ViewIInv, ViewTypeOK, DeviceOK, NotifierOK, KnowsRightly, Busy, Off,
                RegisterAccepted, Added
  <2> QED BY <2>1, <2>2, <2>3 DEF ViewIInv
<1>4. ASSUME RegisterVetoed(d) PROVE ViewIInv'
  <2>1. ViewTypeOK'
    BY <1>4 DEF ViewIInv, ViewTypeOK, Stage, RegState, RegisterVetoed, Added
  <2>2. ASSUME NEW x \in Mortal PROVE DeviceOK(x)'
    BY <1>4 DEF ViewIInv, ViewTypeOK, DeviceOK, Busy, Off, RegisterVetoed, Added
  <2>3. ASSUME NEW m \in Notifiers PROVE NotifierOK(m)'
    BY <1>4 DEF ViewIInv, ViewTypeOK, DeviceOK, NotifierOK, KnowsRightly, Busy, Off,
                RegisterVetoed, Added
  <2> QED BY <2>1, <2>2, <2>3 DEF ViewIInv
<1> QED BY <1>1, <1>2, <1>3, <1>4

\* A device goes.
LEMMA UnregistrationKeepsView ==
    ASSUME ViewIInv, NEW d \in Mortal,
           \/ UnregisterNetdevice(d)
           \/ Rollback(d)
           \/ NotifyUnregister(d)
           \/ RollbackDone(d)
           \/ FreeFailed(d)
           \/ RunTodo(d)
           \/ WaitAgain(d)
           \/ FreeNetdev(d)
    PROVE  ViewIInv'
<1>1. ASSUME UnregisterNetdevice(d) PROVE ViewIInv'
  <2>1. ViewTypeOK'
    BY <1>1 DEF ViewIInv, ViewTypeOK, Stage, RegState, UnregisterNetdevice, RtnlFree
  <2>2. ASSUME NEW x \in Mortal PROVE DeviceOK(x)'
    BY <1>1 DEF ViewIInv, ViewTypeOK, DeviceOK, Busy, Off, UnregisterNetdevice, RtnlFree
  <2>3. ASSUME NEW m \in Notifiers PROVE NotifierOK(m)'
    BY <1>1 DEF ViewIInv, ViewTypeOK, DeviceOK, NotifierOK, KnowsRightly, Busy, Off,
                UnregisterNetdevice, RtnlFree
  <2> QED BY <2>1, <2>2, <2>3 DEF ViewIInv
<1>2. ASSUME Rollback(d) PROVE ViewIInv'
  <2>1. ViewTypeOK'
    BY <1>2, CloseKeepsOpen DEF ViewIInv, ViewTypeOK, Stage, RegState, Rollback
  <2>2. ASSUME NEW x \in Mortal PROVE DeviceOK(x)'
    BY <1>2, CloseKeepsOpen DEF ViewIInv, ViewTypeOK, DeviceOK, Busy, Off, Rollback
  <2>3. ASSUME NEW m \in Notifiers PROVE NotifierOK(m)'
    BY <1>2, CloseKeepsOpen DEF ViewIInv, ViewTypeOK, DeviceOK, NotifierOK, KnowsRightly,
                                Busy, Off, Rollback
  <2> QED BY <2>1, <2>2, <2>3 DEF ViewIInv
<1>3. ASSUME NotifyUnregister(d) PROVE ViewIInv'
  <2>1. ViewTypeOK'
    BY <1>3 DEF ViewIInv, ViewTypeOK, Stage, RegState, NotifyUnregister, Dropped
  <2>2. ASSUME NEW x \in Mortal PROVE DeviceOK(x)'
    BY <1>3 DEF ViewIInv, ViewTypeOK, DeviceOK, Busy, Off, NotifyUnregister, Dropped
  <2>3. ASSUME NEW m \in Notifiers PROVE NotifierOK(m)'
    BY <1>3 DEF ViewIInv, ViewTypeOK, DeviceOK, NotifierOK, KnowsRightly, Busy, Off,
                NotifyUnregister, Dropped
  <2> QED BY <2>1, <2>2, <2>3 DEF ViewIInv
<1>4. ASSUME RollbackDone(d) PROVE ViewIInv'
  <2>1. ViewTypeOK'
    BY <1>4 DEF ViewIInv, ViewTypeOK, Stage, RegState, RollbackDone
  <2>2. ASSUME NEW x \in Mortal PROVE DeviceOK(x)'
    BY <1>4 DEF ViewIInv, ViewTypeOK, DeviceOK, Busy, Off, RollbackDone
  <2>3. ASSUME NEW m \in Notifiers PROVE NotifierOK(m)'
    BY <1>4 DEF ViewIInv, ViewTypeOK, DeviceOK, NotifierOK, KnowsRightly, Busy, Off,
                RollbackDone
  <2> QED BY <2>1, <2>2, <2>3 DEF ViewIInv
<1>5. ASSUME FreeFailed(d) PROVE ViewIInv'
  <2>1. ViewTypeOK'
    BY <1>5 DEF ViewIInv, ViewTypeOK, Stage, RegState, FreeFailed
  <2>2. ASSUME NEW x \in Mortal PROVE DeviceOK(x)'
    BY <1>5 DEF ViewIInv, ViewTypeOK, DeviceOK, Busy, Off, FreeFailed
  <2>3. ASSUME NEW m \in Notifiers PROVE NotifierOK(m)'
    BY <1>5 DEF ViewIInv, ViewTypeOK, DeviceOK, NotifierOK, KnowsRightly, Busy, Off,
                FreeFailed
  <2> QED BY <2>1, <2>2, <2>3 DEF ViewIInv
<1>6. ASSUME RunTodo(d) PROVE ViewIInv'
  <2>1. ViewTypeOK'
    BY <1>6 DEF ViewIInv, ViewTypeOK, Stage, RegState, RunTodo, RtnlFree
  <2>2. ASSUME NEW x \in Mortal PROVE DeviceOK(x)'
    BY <1>6 DEF ViewIInv, ViewTypeOK, DeviceOK, Busy, Off, RunTodo, RtnlFree
  <2>3. ASSUME NEW m \in Notifiers PROVE NotifierOK(m)'
    BY <1>6 DEF ViewIInv, ViewTypeOK, DeviceOK, NotifierOK, KnowsRightly, Busy, Off,
                RunTodo, RtnlFree
  <2> QED BY <2>1, <2>2, <2>3 DEF ViewIInv
<1>7. ASSUME WaitAgain(d) PROVE ViewIInv'
  <2>1. ViewTypeOK'
    BY <1>7 DEF ViewIInv, ViewTypeOK, Stage, RegState, WaitAgain, RtnlFree, Dropped
  <2>2. ASSUME NEW x \in Mortal PROVE DeviceOK(x)'
    BY <1>7 DEF ViewIInv, ViewTypeOK, DeviceOK, Busy, Off, WaitAgain, RtnlFree, Dropped
  <2>3. ASSUME NEW m \in Notifiers PROVE NotifierOK(m)'
    BY <1>7 DEF ViewIInv, ViewTypeOK, DeviceOK, NotifierOK, KnowsRightly, Busy, Off,
                WaitAgain, RtnlFree, Dropped
  <2> QED BY <2>1, <2>2, <2>3 DEF ViewIInv
<1>8. ASSUME FreeNetdev(d) PROVE ViewIInv'
  <2>1. ViewTypeOK'
    BY <1>8 DEF ViewIInv, ViewTypeOK, Stage, RegState, FreeNetdev
  <2>2. ASSUME NEW x \in Mortal PROVE DeviceOK(x)'
    BY <1>8 DEF ViewIInv, ViewTypeOK, DeviceOK, Busy, Off, FreeNetdev
  <2>3. ASSUME NEW m \in Notifiers PROVE NotifierOK(m)'
    BY <1>8 DEF ViewIInv, ViewTypeOK, DeviceOK, NotifierOK, KnowsRightly, Busy, Off,
                FreeNetdev
  <2> QED BY <2>1, <2>2, <2>3 DEF ViewIInv
<1> QED BY <1>1, <1>2, <1>3, <1>4, <1>5, <1>6, <1>7, <1>8

\* A device moves to another namespace.
LEMMA MovesKeepView ==
    ASSUME ViewIInv, NEW d \in Mortal,
           \/ MoveBegins(d)
           \/ MoveNotifies(d)
           \/ MoveEnds(d)
    PROVE  ViewIInv'
<1>1. ASSUME MoveBegins(d) PROVE ViewIInv'
  <2>1. ViewTypeOK'
    BY <1>1, CloseKeepsOpen DEF ViewIInv, ViewTypeOK, Stage, RegState, MoveBegins, RtnlFree
  <2>2. ASSUME NEW x \in Mortal PROVE DeviceOK(x)'
    BY <1>1, CloseKeepsOpen DEF ViewIInv, ViewTypeOK, DeviceOK, Busy, Off, MoveBegins,
                                RtnlFree
  <2>3. ASSUME NEW m \in Notifiers PROVE NotifierOK(m)'
    BY <1>1, CloseKeepsOpen DEF ViewIInv, ViewTypeOK, DeviceOK, NotifierOK, KnowsRightly,
                                Busy, Off, MoveBegins, RtnlFree
  <2> QED BY <2>1, <2>2, <2>3 DEF ViewIInv
<1>2. ASSUME MoveNotifies(d) PROVE ViewIInv'
  <2>1. ViewTypeOK'
    BY <1>2 DEF ViewIInv, ViewTypeOK, Stage, RegState, MoveNotifies, Dropped
  <2>2. ASSUME NEW x \in Mortal PROVE DeviceOK(x)'
    BY <1>2 DEF ViewIInv, ViewTypeOK, DeviceOK, Busy, Off, MoveNotifies, Dropped
  <2>3. ASSUME NEW m \in Notifiers PROVE NotifierOK(m)'
    BY <1>2 DEF ViewIInv, ViewTypeOK, DeviceOK, NotifierOK, KnowsRightly, Busy, Off,
                MoveNotifies, Dropped
  <2> QED BY <2>1, <2>2, <2>3 DEF ViewIInv
<1>3. ASSUME MoveEnds(d) PROVE ViewIInv'
  <2>1. ViewTypeOK'
    BY <1>3 DEF ViewIInv, ViewTypeOK, Stage, RegState, MoveEnds, Added
  <2>2. ASSUME NEW x \in Mortal PROVE DeviceOK(x)'
    BY <1>3 DEF ViewIInv, ViewTypeOK, DeviceOK, Busy, Off, MoveEnds, Added
  <2>3. ASSUME NEW m \in Notifiers PROVE NotifierOK(m)'
    BY <1>3 DEF ViewIInv, ViewTypeOK, DeviceOK, NotifierOK, KnowsRightly, Busy, Off,
                MoveEnds, Added
  <2> QED BY <2>1, <2>2, <2>3 DEF ViewIInv
<1> QED BY <1>1, <1>2, <1>3

\* The invariant is kept by every step.
LEMMA NextViewIInv == ViewIInv /\ [Next]_vars => ViewIInv'
<1> SUFFICES ASSUME ViewIInv, [Next]_vars PROVE ViewIInv'
  OBVIOUS
<1>1. CASE UNCHANGED vars
  BY <1>1, ViewStable DEF vars
<1>2. CASE Link
  BY <1>2, ViewStable DEF Link
<1>3. ASSUME NEW d \in Toggled, DevOpen(d) \/ DevClose(d) PROVE ViewIInv'
  BY <1>3, OpensKeepView
<1>4. ASSUME NEW n \in Notifiers,
             RegisterNotifier(n) \/ ReplayStep(n) \/ UnregisterNotifier(n)
      PROVE  ViewIInv'
  BY <1>4, NotifiersKeepView
<1>5. ASSUME NEW d \in Mortal, Begin(d) PROVE ViewIInv'
  BY <1>5, RegistrationKeepsView, UnregistrationKeepsView, MovesKeepView DEF Begin
<1>6. ASSUME NEW d \in Mortal, Underway(d) PROVE ViewIInv'
  <2>1. CASE Detach(d) \/ RefcntRead(d)
    BY <2>1, ViewStable DEF Detach, RefcntRead
  <2> QED BY <1>6, <2>1, RegistrationKeepsView, UnregistrationKeepsView, MovesKeepView
             DEF Underway
<1>7. ASSUME NEW r \in Readers, NEW d \in Mortal, Find(r, d) \/ Hold(r, d) \/ Put(r, d)
      PROVE  ViewIInv'
  BY <1>7, ViewStable DEF Find, Hold, Put
<1> QED BY <1>1, <1>2, <1>3, <1>4, <1>5, <1>6, <1>7 DEF Next

LEMMA InitViewIInv == Init => ViewIInv
<1> SUFFICES ASSUME Init PROVE ViewIInv
  OBVIOUS
<1> USE DEF Init
<1>1. ViewTypeOK
  BY DEF ViewTypeOK, Stage, RegState
<1>2. ASSUME NEW d \in Mortal PROVE DeviceOK(d)
  BY DEF DeviceOK, Busy, Off
<1>3. ASSUME NEW n \in Notifiers PROVE NotifierOK(n)
  BY DEF NotifierOK
<1> QED BY <1>1, <1>2, <1>3 DEF ViewIInv
-----------------------------------------------------------------------------
\* The inductive invariant behind NotifierViewIsCurrent holds.
THEOREM ViewInvariance == Spec => []ViewIInv
BY InitViewIInv, NextViewIInv, PTL DEF Spec

\* When RTNL is free every notifier of netdev_chain knows exactly the listed devices and
\* which of them are up; what register_netdevice_notifier rolled back, or was taken out,
\* knows nothing.
THEOREM ViewsAreCurrent == Spec => []NotifierViewIsCurrent
<1>1. ViewIInv => NotifierViewIsCurrent
  <2> SUFFICES ASSUME ViewIInv, rtnl = {}, NEW n \in Notifiers
               PROVE  IF n \in chain THEN known[n] = listed /\ open[n] = running
                      ELSE known[n] = {} /\ open[n] = {}
    BY DEF NotifierViewIsCurrent
  <2>1. NotifierOK(n) /\ known[n] \subseteq Dev /\ listed \subseteq Dev
    BY DEF ViewIInv, ViewTypeOK
  <2>2. CASE n \in chain
    <3>1. open[n] = running /\ \A e \in Dev : KnowsRightly(n, e)
      BY <2>1, <2>2 DEF NotifierOK
    <3>2. known[n] = listed
      BY <2>1, <3>1 DEF KnowsRightly
    <3> QED BY <2>2, <3>1, <3>2
  <2>3. CASE n \notin chain
    BY <2>1, <2>3 DEF NotifierOK
  <2> QED BY <2>2, <2>3
<1> QED BY <1>1, ViewInvariance, PTL

\* The steps that link devices, or unlink them.
LEMMA LinkSteps ==
    ASSUME [Next]_vars
    PROVE  UNCHANGED adjVars \/ Link \/ \E d \in Mortal : Detach(d)
<1>1. CASE UNCHANGED vars
  BY <1>1 DEF vars
<1>2. ASSUME NEW d \in Toggled, DevOpen(d) \/ DevClose(d) PROVE UNCHANGED adjVars
  BY <1>2 DEF DevOpen, DevClose
<1>3. ASSUME NEW n \in Notifiers, RegisterNotifier(n) \/ ReplayStep(n) \/ UnregisterNotifier(n)
      PROVE  UNCHANGED adjVars
  BY <1>3 DEF RegisterNotifier, ReplayStep, Replay, ReplayEnds, ReplayVetoed, UnregisterNotifier
<1>4. ASSUME NEW d \in Mortal, Begin(d) PROVE UNCHANGED adjVars
  BY <1>4 DEF Begin, AllocNetdev, RegisterNetdevice, UnregisterNetdevice, MoveBegins
<1>5. ASSUME NEW d \in Mortal, Underway(d), ~Detach(d) PROVE UNCHANGED adjVars
  BY <1>5 DEF Underway, RegisterAccepted, RegisterVetoed, Rollback, NotifyUnregister,
     RollbackDone, FreeFailed, RunTodo, RefcntRead, WaitAgain, FreeNetdev, MoveNotifies, MoveEnds
<1>6. ASSUME NEW r \in Readers, NEW d \in Mortal, Find(r, d) \/ Hold(r, d) \/ Put(r, d)
      PROVE  UNCHANGED adjVars
  BY <1>6 DEF Find, Hold, Put
<1> QED BY <1>1, <1>2, <1>3, <1>4, <1>5, <1>6 DEF Next

\* The life of devices uses links as Adjacency has them, so what is proved there holds here.
THEOREM DevicesUseAdjacency == Spec => AdjSpec
<1>1. Init => AdjInit
  BY DEF Init
<1>2. ASSUME ViewIInv, [Next]_vars PROVE [AdjNext]_adjVars
  <2>1. CASE Link
    <3>1. PICK dev \in listed, up \in listed : \/ UpperDevLink(dev, up)
                                            \/ UpperDevLinkFails(dev, up)
                                            \/ UpperDevUnlink(dev, up)
      BY <2>1 DEF Link
    <3>2. dev \in Dev /\ up \in Dev
      BY <1>2 DEF ViewIInv, ViewTypeOK
    <3> QED BY <3>1, <3>2 DEF AdjNext
  <2>2. ASSUME NEW d \in Mortal, Detach(d) PROVE AdjNext
    <3>1. PICK e \in Dev : UpperDevUnlink(d, e) \/ UpperDevUnlink(e, d)
      BY <2>2 DEF Detach
    <3> QED BY <3>1 DEF AdjNext
  <2> QED BY <1>2, <2>1, <2>2, LinkSteps
<1> QED BY <1>1, <1>2, ViewInvariance, PTL DEF Spec, AdjSpec

\* A link that fails leaves no trace, whatever becomes of the devices meanwhile.
THEOREM DeviceLinksLeaveNoTrace == Spec => FailedLinkLeavesNoTrace
BY DevicesUseAdjacency, FailuresLeaveNoTrace, PTL

\* Devices that come and go, with all their links, keep the counts of all_adj_list right.
THEOREM DeviceCountsArePaths == Spec => []RefsCountPaths
<1>1. AdjSpec => []RefsCountPaths
  BY CountsArePaths
<1> QED BY <1>1, DevicesUseAdjacency, PTL
-----------------------------------------------------------------------------
(* Sums over the CPUs.                                                     *)

\* e numbers the CPUs from 1 to n, each of them once.
Numbers(n, e) == /\ n \in Nat /\ e \in [1 .. n -> CPU]
                 /\ \A c \in CPU : \E i \in 1 .. n : e[i] = c
                 /\ \A i, j \in 1 .. n : e[i] = e[j] => i = j

\* p has the sums of the first values of f, in the order e.
Adds(n, e, p, f) == /\ p \in [0 .. n -> Int]
                    /\ p[0] = 0
                    /\ \A i \in 1 .. n : p[i] = p[i - 1] + f[e[i]]

\* The values of f, one for each CPU, add up to t.
Total(f, t) == \E n, e, p : Numbers(n, e) /\ Adds(n, e, p, f) /\ p[n] = t

\* The CPUs can be numbered, and zeros add up to 0.
LEMMA TotalOfZeros == Total([c \in CPU |-> 0], 0)
<1>1. PICK n \in Nat : ExistsBijection(1 .. n, CPU)
  BY DeviceAssumption, FS_NatBijection
<1>2. PICK e \in Bijection(1 .. n, CPU) : TRUE
  BY <1>1 DEF ExistsBijection
<1>3. Numbers(n, e)
  BY <1>2 DEF Bijection, Injection, Surjection, IsInjective, Numbers
<1>4. Adds(n, e, [i \in 0 .. n |-> 0], [c \in CPU |-> 0])
  BY <1>3 DEF Adds, Numbers
<1>5. [i \in 0 .. n |-> 0][n] = 0
  OBVIOUS
<1> QED BY <1>3, <1>4, <1>5 DEF Total

\* Only 0 is the sum of zeros.
LEMMA ZerosTotal == ASSUME NEW f, NEW t, Total(f, t), \A c \in CPU : f[c] = 0
                    PROVE  t = 0
<1>1. PICK n, e, p : Numbers(n, e) /\ Adds(n, e, p, f) /\ p[n] = t
  BY DEF Total
<1>0. n \in Nat /\ e \in [1 .. n -> CPU] /\ p \in [0 .. n -> Int]
  BY <1>1 DEF Numbers, Adds
<1> DEFINE M == {i \in 0 .. n : p[i] # 0}
<1>2. ASSUME M # {} PROVE FALSE
  <2>0. M \in SUBSET Nat
    BY <1>0
  <2>1. PICK m \in M : \A k \in M : m <= k
    <3> HIDE DEF M
    <3> QED BY <1>2, <2>0, Smallest
  <2>2. m # 0
    BY <1>1, <2>1 DEF Adds
  <2>3. m \in 1 .. n /\ m - 1 \in 0 .. n /\ m - 1 \notin M
    BY <1>0, <2>1, <2>2
  <2>4. p[m] = p[m - 1] + f[e[m]] /\ f[e[m]] = 0
    BY <1>0, <1>1, <2>3 DEF Adds
  <2> QED BY <2>1, <2>3, <2>4
<1> QED BY <1>0, <1>1, <1>2

\* One value changes, and the sum with it.
LEMMA TotalChanges ==
    ASSUME NEW f \in [CPU -> Int], NEW t, Total(f, t), NEW c \in CPU, NEW k \in Int,
           NEW g \in [CPU -> Int], g[c] = f[c] + k, \A b \in CPU \ {c} : g[b] = f[b]
    PROVE  t \in Int /\ Total(g, t + k)
<1>1. PICK n, e, p : Numbers(n, e) /\ Adds(n, e, p, f) /\ p[n] = t
  BY DEF Total
<1>0. n \in Nat /\ e \in [1 .. n -> CPU] /\ p \in [0 .. n -> Int]
  BY <1>1 DEF Numbers, Adds
<1>2. PICK j \in 1 .. n : e[j] = c
  BY <1>1 DEF Numbers
<1>3. \A i \in 1 .. n : e[i] = c <=> i = j
  BY <1>0, <1>1, <1>2 DEF Numbers
<1> DEFINE q == [i \in 0 .. n |-> IF i >= j THEN p[i] + k ELSE p[i]]
<1>4. q \in [0 .. n -> Int] /\ q[n] = t + k /\ q[0] = 0 /\ t \in Int
  BY <1>0, <1>1 DEF Adds
<1>5. ASSUME NEW i \in 1 .. n PROVE q[i] = q[i - 1] + g[e[i]]
  <2>1. p[i] = p[i - 1] + f[e[i]] /\ e[i] \in CPU /\ i - 1 \in 0 .. n
    BY <1>0, <1>1 DEF Adds
  <2>2. CASE i = j
    BY <1>0, <1>3, <2>1, <2>2
  <2>3. CASE i # j
    BY <1>0, <1>3, <2>1, <2>3
  <2> QED BY <2>2, <2>3
<1>6. Adds(n, e, q, g)
  BY <1>4, <1>5 DEF Adds
<1> HIDE DEF q
<1> QED BY <1>1, <1>4, <1>6 DEF Total
-----------------------------------------------------------------------------
(* The references to a device, and its release.                            *)

\* The stages that a device may be at in each of its states.
StagesOf(state) == CASE state = "UNINITIALIZED" -> {"idle"}
                     [] state = "REGISTERED" -> {"idle", "registering", "rollback", "moving",
                                                 "moved"}
                     [] state = "UNREGISTERING" -> {"unlisted", "detaching", "todo"}
                     [] state = "UNREGISTERED" -> {"waiting", "failed"}
                     [] state = "RELEASED" -> {"idle"}

\* Nobody looks d up any more, or not yet: the reference of its registration is not there.
Gone(d) == reg[d] \in {"UNINITIALIZED", "UNREGISTERED", "RELEASED"} \/ pc[d] = "todo"

HeldOf(d) == {r \in Readers : <<r, d>> \in held}

\* The references to d that are to be put back: those held, and that of the registration.
Refs(d) == Cardinality(HeldOf(d)) + (IF Gone(d) THEN 0 ELSE 1)

\* What netdev_refcnt_read has still to add to its sum.
ToRead(d) == [c \in CPU |-> IF c \in unread[d] THEN pcpu[d][c] ELSE 0]

\* How far the count of one CPU strays.
CountRange == -MaxCount .. MaxCount

HolderTypeOK == /\ rtnl = {} \/ \E h \in Mortal \cup Notifiers : rtnl = {h}
                /\ failing \subseteq Mortal
                /\ running \subseteq Toggled

CountTypeOK == /\ pcpu \in [Mortal -> [CPU -> CountRange]]
               /\ unread \in [Mortal -> SUBSET CPU]
               /\ sum \in [Mortal -> Int]

ReadTypeOK == /\ found \subseteq Readers \X Mortal
              /\ grace \subseteq found
              /\ held \subseteq Readers \X Mortal
              /\ found \cap held = {}

StageOK(d) == pc[d] \in StagesOf(reg[d]) /\ (pc[d] = "failed" => d \in failing)

\* Once the second synchronize_net has begun it waits for all who have found d, and nobody
\* finds d any more.
SoughtOK(d) == /\ pc[d] = "detaching" => \A r \in Readers : <<r, d>> \in found => <<r, d>> \in grace
               /\ Gone(d) => ~Sought(d)

\* While d has counters they add up to the references to it.  When d waits to be freed
\* references are only put back: what was read, and what is still to be read, is no less
\* than the references held.
CountsOK(d) ==
    /\ IsFiniteSet(HeldOf(d))
    /\ reg[d] # "RELEASED" => Total(pcpu[d], Refs(d))
    /\ pc[d] = "waiting" =>
          \E t \in Int : Total(ToRead(d), t) /\ sum[d] + t >= Cardinality(HeldOf(d))

\* Nobody holds a device that was freed after its wait, and it has no links.
ReleasedOK(d) == reg[d] = "RELEASED" /\ d \notin failing =>
                     HeldOf(d) = {} /\ Upper(d) \cup Lower(d) = {}

LifeIInv == /\ HolderTypeOK /\ CountTypeOK /\ ReadTypeOK
            /\ \A d \in Mortal : StageOK(d) /\ SoughtOK(d) /\ CountsOK(d) /\ ReleasedOK(d)

-----------------------------------------------------------------------------
(* Which steps change what.                                                *)

\* The steps that count, or add up counts.
LEMMA CountingSteps ==
    ASSUME [Next]_vars
    PROVE  \/ UNCHANGED countVars
           \/ \E d \in Mortal : \/ RegisterNetdevice(d) \/ RollbackDone(d) \/ RunTodo(d)
                                \/ RefcntRead(d) \/ WaitAgain(d) \/ AllocNetdev(d)
                                \/ \E r \in Readers : Hold(r, d) \/ Put(r, d)
<1>1. CASE UNCHANGED vars
  BY <1>1 DEF vars
<1>2. CASE Link
  BY <1>2 DEF Link
<1>3. ASSUME NEW d \in Toggled, DevOpen(d) \/ DevClose(d) PROVE UNCHANGED countVars
  BY <1>3 DEF DevOpen, DevClose
<1>4. ASSUME NEW n \in Notifiers, RegisterNotifier(n) \/ ReplayStep(n) \/ UnregisterNotifier(n)
      PROVE  UNCHANGED countVars
  BY <1>4 DEF RegisterNotifier, ReplayStep, Replay, ReplayEnds, ReplayVetoed, UnregisterNotifier
<1>5. ASSUME NEW d \in Mortal, UnregisterNetdevice(d) \/ MoveBegins(d)
      PROVE  UNCHANGED countVars
  BY <1>5 DEF UnregisterNetdevice, MoveBegins
<1>6. ASSUME NEW d \in Mortal,
             \/ RegisterAccepted(d) \/ RegisterVetoed(d)
             \/ Rollback(d) \/ NotifyUnregister(d) \/ Detach(d) \/ FreeFailed(d)
             \/ FreeNetdev(d) \/ MoveNotifies(d) \/ MoveEnds(d)
      PROVE  UNCHANGED countVars
  BY <1>6 DEF RegisterAccepted, RegisterVetoed, Rollback, NotifyUnregister, Detach, FreeFailed,
              FreeNetdev, MoveNotifies, MoveEnds
<1>7. ASSUME NEW r \in Readers, NEW d \in Mortal, Find(r, d) PROVE UNCHANGED countVars
  BY <1>7 DEF Find
<1> QED BY <1>1, <1>2, <1>3, <1>4, <1>5, <1>6, <1>7, Zenon DEF Next, Begin, Underway

\* The steps of readers, and those that begin to wait for them.
LEMMA ReadingSteps ==
    ASSUME [Next]_vars
    PROVE  \/ UNCHANGED readVars
           \/ \E d \in Mortal : \/ Rollback(d) \/ NotifyUnregister(d) \/ MoveBegins(d)
                                \/ \E r \in Readers : Find(r, d) \/ Hold(r, d) \/ Put(r, d)
<1>1. CASE UNCHANGED vars
  BY <1>1 DEF vars
<1>2. CASE Link
  BY <1>2 DEF Link
<1>3. ASSUME NEW d \in Toggled, DevOpen(d) \/ DevClose(d) PROVE UNCHANGED readVars
  BY <1>3 DEF DevOpen, DevClose
<1>4. ASSUME NEW n \in Notifiers, RegisterNotifier(n) \/ ReplayStep(n) \/ UnregisterNotifier(n)
      PROVE  UNCHANGED readVars
  BY <1>4 DEF RegisterNotifier, ReplayStep, Replay, ReplayEnds, ReplayVetoed, UnregisterNotifier
<1>5. ASSUME NEW d \in Mortal, RegisterNetdevice(d) \/ UnregisterNetdevice(d) \/ AllocNetdev(d)
      PROVE  UNCHANGED readVars
  BY <1>5 DEF UnregisterNetdevice, RegisterNetdevice, AllocNetdev
<1>6. ASSUME NEW d \in Mortal,
             \/ RegisterAccepted(d) \/ RegisterVetoed(d) \/ Detach(d) \/ RollbackDone(d)
             \/ FreeFailed(d) \/ RunTodo(d) \/ RefcntRead(d) \/ WaitAgain(d)
             \/ FreeNetdev(d) \/ MoveNotifies(d) \/ MoveEnds(d)
      PROVE  UNCHANGED readVars
  BY <1>6 DEF RegisterAccepted, RegisterVetoed, Detach, RollbackDone, FreeFailed, RunTodo,
              RefcntRead, WaitAgain, FreeNetdev, MoveNotifies, MoveEnds
<1> QED BY <1>1, <1>2, <1>3, <1>4, <1>5, <1>6, Zenon DEF Next, Begin, Underway

\* The steps that take a device from a stage or a state to another one.
LEMMA StageSteps ==
    ASSUME [Next]_vars
    PROVE  \/ UNCHANGED <<reg, pc, failing>>
           \/ \E d \in Mortal : \/ Begin(d)
                                \/ RegisterAccepted(d) \/ RegisterVetoed(d)
                                \/ Rollback(d) \/ NotifyUnregister(d) \/ RollbackDone(d)
                                \/ FreeFailed(d) \/ RunTodo(d) \/ FreeNetdev(d)
                                \/ MoveNotifies(d) \/ MoveEnds(d)
<1>1. CASE UNCHANGED vars
  BY <1>1 DEF vars
<1>2. CASE Link
  BY <1>2 DEF Link
<1>3. ASSUME NEW d \in Toggled, DevOpen(d) \/ DevClose(d) PROVE UNCHANGED <<reg, pc, failing>>
  BY <1>3 DEF DevOpen, DevClose
<1>4. ASSUME NEW n \in Notifiers, RegisterNotifier(n) \/ ReplayStep(n) \/ UnregisterNotifier(n)
      PROVE  UNCHANGED <<reg, pc, failing>>
  BY <1>4 DEF RegisterNotifier, ReplayStep, Replay, ReplayEnds, ReplayVetoed, UnregisterNotifier
<1>5. ASSUME NEW d \in Mortal, Detach(d) \/ RefcntRead(d) \/ WaitAgain(d)
      PROVE  UNCHANGED <<reg, pc, failing>>
  BY <1>5 DEF Detach, RefcntRead, WaitAgain
<1>6. ASSUME NEW r \in Readers, NEW d \in Mortal, Find(r, d) \/ Hold(r, d) \/ Put(r, d)
      PROVE  UNCHANGED <<reg, pc, failing>>
  BY <1>6 DEF Find, Hold, Put
<1> QED BY <1>1, <1>2, <1>3, <1>4, <1>5, <1>6, Zenon DEF Next, Underway
-----------------------------------------------------------------------------
\* The types are kept.
LEMMA HolderTypesKept == ViewTypeOK /\ HolderTypeOK /\ [Next]_vars => HolderTypeOK'
<1> SUFFICES ASSUME ViewTypeOK, HolderTypeOK, [Next]_vars PROVE HolderTypeOK'
  OBVIOUS
<1> USE DEF HolderTypeOK
<1>1. failing' \subseteq Mortal
  BY StageSteps DEF Begin, RegisterNetdevice, UnregisterNetdevice, MoveBegins, AllocNetdev,
     RegisterAccepted, RegisterVetoed, Rollback, NotifyUnregister, RollbackDone, FreeFailed,
     RunTodo, FreeNetdev, MoveNotifies, MoveEnds
<1>2. ASSUME NEW d \in Dev, Close(d) PROVE running' \subseteq Toggled
  BY <1>2 DEF Close
<1>3. CASE UNCHANGED <<rtnl, running>>
  BY <1>1, <1>3
<1>4. ASSUME NEW d \in Toggled, DevOpen(d) \/ DevClose(d) PROVE HolderTypeOK'
  BY <1>1, <1>2, <1>4 DEF DevOpen, DevClose
<1>5. ASSUME NEW n \in Notifiers, RegisterNotifier(n) \/ ReplayStep(n) \/ UnregisterNotifier(n)
      PROVE  HolderTypeOK'
  BY <1>1, <1>5 DEF RegisterNotifier, ReplayStep, Replay, ReplayEnds, ReplayVetoed,
     UnregisterNotifier
<1>6. ASSUME NEW d \in Mortal, Begin(d) PROVE HolderTypeOK'
  BY <1>1, <1>2, <1>6 DEF Begin, RegisterNetdevice, UnregisterNetdevice, MoveBegins, AllocNetdev
<1>7. ASSUME NEW d \in Mortal,
             \/ RegisterAccepted(d) \/ RegisterVetoed(d) \/ NotifyUnregister(d) \/ Detach(d)
             \/ RollbackDone(d) \/ FreeFailed(d) \/ RunTodo(d) \/ RefcntRead(d)
      PROVE  HolderTypeOK'
  BY <1>1, <1>7 DEF RegisterAccepted, RegisterVetoed, NotifyUnregister, Detach, RollbackDone,
     FreeFailed, RunTodo, RefcntRead
<1>8. ASSUME NEW d \in Mortal,
             WaitAgain(d) \/ FreeNetdev(d) \/ MoveNotifies(d) \/ MoveEnds(d)
      PROVE  HolderTypeOK'
  BY <1>1, <1>8 DEF WaitAgain, FreeNetdev, MoveNotifies, MoveEnds
<1>9. ASSUME NEW d \in Mortal, Rollback(d) PROVE HolderTypeOK'
  BY <1>1, <1>2, <1>9 DEF Rollback
<1>10. CASE UNCHANGED vars
  BY <1>3, <1>10 DEF vars
<1>11. CASE Link
  BY <1>3, <1>11 DEF Link
<1>12. ASSUME NEW r \in Readers, NEW d \in Mortal, Find(r, d) \/ Hold(r, d) \/ Put(r, d)
       PROVE  HolderTypeOK'
  BY <1>3, <1>12 DEF Find, Hold, Put
<1> QED BY <1>4, <1>5, <1>6, <1>7, <1>8, <1>9, <1>10, <1>11, <1>12 DEF Next, Underway

LEMMA CountTypesKept == CountTypeOK /\ [Next]_vars => CountTypeOK'
<1> SUFFICES ASSUME CountTypeOK, [Next]_vars PROVE CountTypeOK'
  OBVIOUS
<1> USE DEF CountTypeOK
<1>1. ASSUME NEW d \in Mortal, NEW n \in Int, \E c \in CPU : Count(d, c, n)
      PROVE  pcpu' \in [Mortal -> [CPU -> CountRange]]
  <2>1. PICK c \in CPU : Count(d, c, n)
    BY <1>1
  <2>2. pcpu[d][c] + n \in CountRange
    BY <2>1 DEF Count, CountRange
  <2> QED BY <2>1, <2>2 DEF Count
<1>2. CASE UNCHANGED countVars
  BY <1>2 DEF countVars
<1>3. ASSUME NEW d \in Mortal, RegisterNetdevice(d) PROVE CountTypeOK'
  BY <1>1, <1>3 DEF RegisterNetdevice
<1>4. ASSUME NEW d \in Mortal, RollbackDone(d) PROVE CountTypeOK'
  BY <1>1, <1>4 DEF RollbackDone
<1>5. ASSUME NEW d \in Mortal, RunTodo(d) \/ WaitAgain(d) PROVE CountTypeOK'
  BY <1>5 DEF RunTodo, WaitAgain, FreshSum
<1>6. ASSUME NEW d \in Mortal, RefcntRead(d) PROVE CountTypeOK'
  <2>1. PICK c \in unread[d] : /\ unread' = [unread EXCEPT ![d] = @ \ {c}]
                               /\ sum' = [sum EXCEPT ![d] = @ + pcpu[d][c]]
    BY <1>6 DEF RefcntRead
  <2>2. sum[d] + pcpu[d][c] \in Int
    BY DeviceAssumption DEF CountRange
  <2> QED BY <1>6, <2>1, <2>2 DEF RefcntRead
<1>7. ASSUME NEW d \in Mortal, AllocNetdev(d) PROVE CountTypeOK'
  <2>1. 0 \in CountRange
    BY DeviceAssumption DEF CountRange
  <2> QED BY <1>7, <2>1 DEF AllocNetdev
<1>8. ASSUME NEW r \in Readers, NEW d \in Mortal, Hold(r, d) \/ Put(r, d) PROVE CountTypeOK'
  BY <1>1, <1>8 DEF Hold, Put
<1> QED BY <1>2, <1>3, <1>4, <1>5, <1>6, <1>7, <1>8, CountingSteps

LEMMA ReadTypesKept == ReadTypeOK /\ [Next]_vars => ReadTypeOK'
<1> SUFFICES ASSUME ReadTypeOK, [Next]_vars PROVE ReadTypeOK'
  OBVIOUS
<1> USE DEF ReadTypeOK
<1>1. CASE UNCHANGED readVars
  BY <1>1 DEF readVars
<1>2. ASSUME NEW d \in Mortal, Rollback(d) \/ NotifyUnregister(d) \/ MoveBegins(d)
      PROVE  ReadTypeOK'
  BY <1>2 DEF Rollback, NotifyUnregister, MoveBegins, Synchronize
<1>3. ASSUME NEW r \in Readers, NEW d \in Mortal, Find(r, d) \/ Hold(r, d) \/ Put(r, d)
      PROVE  ReadTypeOK'
  BY <1>3 DEF Find, Hold, Put
<1> QED BY <1>1, <1>2, <1>3, ReadingSteps

\* The stages go with the states.
LEMMA StagesKept ==
    ASSUME ViewTypeOK, [Next]_vars, NEW x \in Mortal, StageOK(x)
    PROVE  StageOK(x)'
<1> USE DEF StageOK, ViewTypeOK
<1>1. CASE UNCHANGED <<reg, pc, failing>>
  BY <1>1
<1>2. ASSUME NEW d \in Mortal, Begin(d) PROVE StageOK(x)'
  BY <1>2 DEF Begin, RegisterNetdevice, UnregisterNetdevice, MoveBegins, AllocNetdev, StagesOf
<1>3. ASSUME NEW d \in Mortal, RegisterAccepted(d) \/ RegisterVetoed(d)
      PROVE  StageOK(x)'
  BY <1>3 DEF RegisterAccepted, RegisterVetoed, StagesOf, RegState
<1>4. ASSUME NEW d \in Mortal, Rollback(d) \/ NotifyUnregister(d) \/ RollbackDone(d)
      PROVE  StageOK(x)'
  BY <1>4 DEF Rollback, NotifyUnregister, RollbackDone, StagesOf, RegState
<1>5. ASSUME NEW d \in Mortal, FreeFailed(d) \/ RunTodo(d) \/ FreeNetdev(d) PROVE StageOK(x)'
  BY <1>5 DEF FreeFailed, RunTodo, FreeNetdev, StagesOf, RegState
<1>6. ASSUME NEW d \in Mortal, MoveNotifies(d) \/ MoveEnds(d) PROVE StageOK(x)'
  BY <1>6 DEF MoveNotifies, MoveEnds, StagesOf, RegState
<1> QED BY <1>1, <1>2, <1>3, <1>4, <1>5, <1>6, StageSteps

\* How a device gets to a stage, and from a state.
LEMMA StageEdges ==
    ASSUME ViewTypeOK, [Next]_vars, NEW x \in Mortal, StageOK(x)
    PROVE  /\ pc'[x] = "detaching" => pc[x] = "detaching" \/ NotifyUnregister(x)
           /\ pc'[x] = "waiting" => pc[x] = "waiting" \/ RunTodo(x)
           /\ Gone(x)' => Gone(x) \/ RollbackDone(x)
           /\ Gone(x) => Gone(x)' \/ RegisterNetdevice(x)
           /\ reg'[x] = "RELEASED" => reg[x] = "RELEASED" \/ FreeNetdev(x) \/ FreeFailed(x)
           /\ reg[x] = "RELEASED" => reg'[x] = "RELEASED" \/ AllocNetdev(x)
           /\ x \in failing => x \in failing' \/ AllocNetdev(x)
<1> USE DEF StageOK, ViewTypeOK, Gone
<1>1. CASE UNCHANGED <<reg, pc, failing>>
  BY <1>1
<1>2. ASSUME NEW d \in Mortal, d # x,
             \/ Begin(d)
             \/ RegisterAccepted(d) \/ RegisterVetoed(d)
             \/ Rollback(d) \/ NotifyUnregister(d) \/ RollbackDone(d)
             \/ FreeFailed(d) \/ RunTodo(d) \/ FreeNetdev(d)
             \/ MoveNotifies(d) \/ MoveEnds(d)
      PROVE  /\ pc'[x] = pc[x] /\ reg'[x] = reg[x]
             /\ x \in failing' <=> x \in failing
  BY <1>2 DEF Begin, RegisterNetdevice, UnregisterNetdevice, MoveBegins, AllocNetdev,
     RegisterAccepted, RegisterVetoed, Rollback, NotifyUnregister, RollbackDone, FreeFailed,
     RunTodo, FreeNetdev, MoveNotifies, MoveEnds
<1>3. ASSUME Begin(x), ~RegisterNetdevice(x), ~AllocNetdev(x)
      PROVE  /\ reg' = reg /\ failing' = failing
             /\ pc[x] = "idle" /\ pc'[x] \in {"rollback", "moving"}
  BY <1>3 DEF Begin, UnregisterNetdevice, MoveBegins
<1>4. CASE RegisterNetdevice(x)
  BY <1>4 DEF RegisterNetdevice, RegState
<1>5. CASE AllocNetdev(x)
  BY <1>5 DEF AllocNetdev, StagesOf
<1>6. CASE RegisterAccepted(x) \/ RegisterVetoed(x)
  BY <1>6 DEF RegisterAccepted, RegisterVetoed, StagesOf
<1>7. CASE Rollback(x) \/ NotifyUnregister(x) \/ RollbackDone(x)
  BY <1>7 DEF Rollback, NotifyUnregister, RollbackDone, StagesOf, RegState
<1>8. CASE FreeFailed(x) \/ FreeNetdev(x) \/ RunTodo(x)
  BY <1>8 DEF FreeFailed, FreeNetdev, RunTodo, StagesOf, RegState
<1>9. CASE MoveNotifies(x) \/ MoveEnds(x)
  BY <1>9 DEF MoveNotifies, MoveEnds, StagesOf, RegState
<1>10. CASE Begin(x)
  BY <1>3, <1>4, <1>5, <1>10
<1> QED BY <1>1, <1>2, <1>4, <1>6, <1>7, <1>8, <1>9, <1>10, StageSteps

\* How a device gets found, and held.
LEMMA ReadEdges ==
    ASSUME ReadTypeOK, [Next]_vars, NEW x \in Mortal, NEW r \in Readers
    PROVE  /\ <<r, x>> \in found' => <<r, x>> \in found \/ Find(r, x)
           /\ <<r, x>> \in found' /\ <<r, x>> \in grace => <<r, x>> \in grace'
           /\ <<r, x>> \in held' => <<r, x>> \in held \/ Hold(r, x)
           /\ <<r, x>> \in held => <<r, x>> \in held' \/ Put(r, x)
<1>1. CASE UNCHANGED readVars
  BY <1>1 DEF readVars
<1>2. ASSUME NEW d \in Mortal, Rollback(d) \/ NotifyUnregister(d) \/ MoveBegins(d)
      PROVE  found' = found /\ held' = held /\ grace \subseteq grace'
  BY <1>2 DEF Rollback, NotifyUnregister, MoveBegins, Synchronize
<1>3. ASSUME NEW s \in Readers, NEW d \in Mortal, Find(s, d) \/ Hold(s, d) \/ Put(s, d),
             s # r \/ d # x
      PROVE  /\ <<r, x>> \in found' => <<r, x>> \in found
             /\ <<r, x>> \in grace => <<r, x>> \in grace'
             /\ <<r, x>> \in held' <=> <<r, x>> \in held
  BY <1>3 DEF Find, Hold, Put
<1>4. CASE Find(r, x)
  BY <1>4 DEF Find
<1>5. CASE Hold(r, x)
  BY <1>5 DEF Hold
<1>6. CASE Put(r, x)
  BY <1>6 DEF Put
<1> QED BY <1>1, <1>2, <1>3, <1>4, <1>5, <1>6, ReadingSteps

\* A device that is gone, or known by no notifier any more, is not found.
LEMMA NotFound ==
    ASSUME ViewIInv, NEW x \in Mortal, StageOK(x), pc[x] = "detaching" \/ Gone(x), NEW r
    PROVE  ~Find(r, x)
<1>1. /\ DeviceOK(x) /\ x \in Dev /\ \A n \in chain : n \in Notifiers /\ NotifierOK(n)
      /\ pc[x] \in Stage /\ reg[x] \in RegState
  BY DEF ViewIInv, ViewTypeOK
<1>2. reg[x] # "REGISTERED"
  BY <1>1 DEF StageOK, StagesOf, Gone, RegState
<1>3. x \notin listed
  BY <1>1, <1>2 DEF DeviceOK
<1>4. rtnl = {x} => pc[x] = "detaching"
  BY <1>1 DEF DeviceOK, StageOK, StagesOf, Gone, Busy
<1>5. ASSUME NEW n \in chain PROVE x \notin known[n]
  BY <1>1, <1>3, <1>4 DEF NotifierOK, KnowsRightly
<1> QED BY <1>3, <1>5 DEF Find

\* Who has found a device that goes is waited for, and nobody has found one that is gone.
LEMMA SoughtKept ==
    ASSUME ViewIInv, ReadTypeOK, [Next]_vars, NEW x \in Mortal, StageOK(x), SoughtOK(x)
    PROVE  SoughtOK(x)'
<1>1. ViewTypeOK
  BY DEF ViewIInv
<1>2. ASSUME pc'[x] = "detaching", NEW r \in Readers, <<r, x>> \in found'
      PROVE  <<r, x>> \in grace'
  <2>1. CASE NotifyUnregister(x)
    BY <1>2, <2>1 DEF NotifyUnregister, Synchronize
  <2>2. CASE pc[x] = "detaching"
    BY <1>2, <2>2, ReadEdges, NotFound DEF SoughtOK
  <2> QED BY <1>1, <1>2, <2>1, <2>2, StageEdges
<1>3. ASSUME Gone(x)', NEW r \in Readers PROVE <<r, x>> \notin found'
  <2>1. CASE RollbackDone(x)
    BY <2>1 DEF RollbackDone, SynchronizedAgain, Synchronized, SoughtOK, readVars
  <2>2. CASE Gone(x)
    BY <2>2, ReadEdges, NotFound DEF SoughtOK, Sought
  <2> QED BY <1>1, <1>3, <2>1, <2>2, StageEdges
<1> QED BY <1>2, <1>3 DEF SoughtOK, Sought

\* A count of x changes, and the sum of its counts with it.
LEMMA CountChangesTotal ==
    ASSUME CountTypeOK, CountTypeOK', NEW x \in Mortal, NEW k \in Int, NEW t,
           Total(pcpu[x], t), \E c \in CPU : Count(x, c, k)
    PROVE  Total(pcpu'[x], t + k)
<1>1. PICK c \in CPU : Count(x, c, k)
  OBVIOUS
<1> DEFINE f == pcpu[x]
           g == pcpu'[x]
<1>2. f \in [CPU -> Int] /\ g \in [CPU -> Int]
  BY DEF CountTypeOK, CountRange
<1>3. g[c] = f[c] + k /\ \A b \in CPU \ {c} : g[b] = f[b]
  BY <1>1 DEF CountTypeOK, Count
<1> HIDE DEF f, g
<1>4. Total(f, t)
  BY DEF f
<1>5. Total(g, t + k)
  BY <1>2, <1>3, <1>4, TotalChanges
<1> QED BY <1>5 DEF g

\* What nobody counts, holds or puts for x stays as it is.
LEMMA CountEdges ==
    ASSUME ViewTypeOK, CountTypeOK, ReadTypeOK, [Next]_vars, NEW x \in Mortal, StageOK(x)
    PROVE  \/ /\ pcpu'[x] = pcpu[x] /\ unread'[x] = unread[x] /\ sum'[x] = sum[x]
              /\ HeldOf(x)' = HeldOf(x)
              /\ Gone(x)' <=> Gone(x)
              /\ pc'[x] = "waiting" => pc[x] = "waiting"
              /\ reg'[x] # "RELEASED" => reg[x] # "RELEASED"
           \/ RegisterNetdevice(x) \/ RollbackDone(x) \/ RunTodo(x)
           \/ RefcntRead(x) \/ WaitAgain(x) \/ AllocNetdev(x)
           \/ \E r \in Readers : Hold(r, x) \/ Put(r, x)
<1>1. ASSUME \A r \in Readers : ~Hold(r, x) /\ ~Put(r, x)
      PROVE  HeldOf(x)' = HeldOf(x)
  <2>1. \A r \in Readers : <<r, x>> \in held' <=> <<r, x>> \in held
    BY <1>1, ReadEdges
  <2> QED BY <2>1 DEF HeldOf
<1>2. ASSUME NEW d \in Mortal, d # x,
             \/ RegisterNetdevice(d) \/ RollbackDone(d) \/ RunTodo(d)
             \/ RefcntRead(d) \/ WaitAgain(d) \/ AllocNetdev(d)
             \/ \E r \in Readers : Hold(r, d) \/ Put(r, d)
      PROVE  pcpu'[x] = pcpu[x] /\ unread'[x] = unread[x] /\ sum'[x] = sum[x]
  BY <1>2 DEF RegisterNetdevice, RollbackDone, RunTodo, RefcntRead, WaitAgain, AllocNetdev,
     Hold, Put, Count, CountTypeOK
<1>3. CASE UNCHANGED countVars
  BY <1>1, <1>3, StageEdges DEF countVars
<1> QED BY <1>1, <1>2, <1>3, CountingSteps, StageEdges

\* A round of reads starts with all the counters.
LEMMA RoundBegins ==
    ASSUME CountTypeOK', NEW x \in Mortal, CountsOK(x), reg[x] # "RELEASED",
           Gone(x), HeldOf(x)' = HeldOf(x),
           pcpu'[x] = pcpu[x], unread'[x] = CPU, sum'[x] = 0
    PROVE  \E t \in Int : Total(ToRead(x)', t) /\ sum'[x] + t >= Cardinality(HeldOf(x)')
<1>1. Cardinality(HeldOf(x)) \in Nat
  BY FS_CardinalityType DEF CountsOK
<1>2. Total(pcpu[x], Cardinality(HeldOf(x)))
  BY <1>1 DEF CountsOK, Refs
<1>3. ToRead(x)' = pcpu'[x]
  BY DEF CountTypeOK, ToRead
<1> QED BY <1>1, <1>2, <1>3

\* Readers take references and put them back.
LEMMA HoldsKeepCounts ==
    ASSUME ViewTypeOK, CountTypeOK, CountTypeOK', ReadTypeOK, NEW x \in Mortal, StageOK(x),
           SoughtOK(x), CountsOK(x), NEW r \in Readers, Hold(r, x) \/ Put(r, x)
    PROVE  CountsOK(x)'
<1>1. /\ IsFiniteSet(HeldOf(x)) /\ Cardinality(HeldOf(x)) \in Nat
      /\ Refs(x) \in Int
  BY FS_CardinalityType DEF CountsOK, Refs
<1>2. CASE Hold(r, x)
  <2>1. /\ HeldOf(x)' = HeldOf(x) \cup {r} /\ r \notin HeldOf(x)
        /\ ~Gone(x) /\ reg' = reg /\ pc' = pc
        /\ \E c \in CPU : Count(x, c, 1)
    BY <1>2 DEF Hold, HeldOf, SoughtOK, Sought, ReadTypeOK
  <2>2. /\ IsFiniteSet(HeldOf(x)')
        /\ Cardinality(HeldOf(x)') = Cardinality(HeldOf(x)) + 1
    BY <1>1, <2>1, FS_AddElement
  <2>3. Refs(x)' = Refs(x) + 1
    BY <1>1, <2>1, <2>2 DEF Refs, Gone
  <2>4. pc[x] # "waiting" /\ reg[x] # "RELEASED"
    BY <2>1 DEF StageOK, StagesOf, Gone, ViewTypeOK, RegState
  <2>5. Total(pcpu'[x], Refs(x) + 1)
    BY <2>1, <2>4, CountChangesTotal DEF CountsOK
  <2> QED BY <2>1, <2>2, <2>3, <2>4, <2>5 DEF CountsOK
<1>3. CASE Put(r, x)
  <2>1. /\ HeldOf(x)' = HeldOf(x) \ {r} /\ r \in HeldOf(x)
        /\ reg' = reg /\ pc' = pc /\ unread' = unread /\ sum' = sum
        /\ reg[x] # "RELEASED" => \E c \in CPU : Count(x, c, -1)
    BY <1>3 DEF Put, HeldOf
  <2>2. /\ IsFiniteSet(HeldOf(x)')
        /\ Cardinality(HeldOf(x)') = Cardinality(HeldOf(x)) - 1
    BY <1>1, <2>1, FS_RemoveElement
  <2>3. Refs(x)' = Refs(x) + -1
    BY <1>1, <2>1, <2>2 DEF Refs, Gone
  <2>4. reg[x] # "RELEASED" => Total(pcpu'[x], Refs(x) + -1)
    BY <2>1, CountChangesTotal DEF CountsOK
  <2>5. ASSUME pc[x] = "waiting"
        PROVE  \E t \in Int : Total(ToRead(x)', t) /\ sum'[x] + t >= Cardinality(HeldOf(x)')
    <3>1. PICK t \in Int : Total(ToRead(x), t) /\ sum[x] + t >= Cardinality(HeldOf(x))
      BY <2>5 DEF CountsOK
    <3>2. PICK c \in CPU : Count(x, c, -1)
      BY <2>1, <2>5 DEF StageOK, StagesOf
    <3> DEFINE f == ToRead(x)
               g == ToRead(x)'
    <3>3. f \in [CPU -> Int] /\ g \in [CPU -> Int]
      BY DEF ToRead, CountTypeOK, CountRange
    <3>4. \A b \in CPU \ {c} : g[b] = f[b]
      BY <2>1, <3>2 DEF ToRead, Count, CountTypeOK
    <3>5. g[c] = f[c] + (IF c \in unread[x] THEN -1 ELSE 0)
      BY <2>1, <3>2 DEF ToRead, Count, CountTypeOK, CountRange
    <3> HIDE DEF f, g
    <3>6. Total(f, t) /\ sum[x] \in Int
      BY <3>1 DEF f, CountTypeOK
    <3>7. Total(g, t + (IF c \in unread[x] THEN -1 ELSE 0))
      BY <3>3, <3>4, <3>5, <3>6, TotalChanges
    <3>8. sum'[x] + (t + (IF c \in unread[x] THEN -1 ELSE 0)) >= Cardinality(HeldOf(x)')
      BY <1>1, <2>1, <2>2, <3>1, <3>6
    <3> QED BY <3>7, <3>8 DEF g
  <2> QED BY <2>1, <2>2, <2>3, <2>4, <2>5 DEF CountsOK
<1> QED BY <1>2, <1>3

\* netdev_refcnt_read goes on: what it has read is not to be read any more.
LEMMA ReadsKeepCounts ==
    ASSUME CountTypeOK, CountTypeOK', NEW x \in Mortal, StageOK(x), CountsOK(x), RefcntRead(x)
    PROVE  CountsOK(x)'
<1>1. /\ HeldOf(x)' = HeldOf(x) /\ reg' = reg /\ pc' = pc /\ pcpu' = pcpu
      /\ pc[x] = "waiting"
  BY DEF RefcntRead, HeldOf, readVars
<1>2. Refs(x)' = Refs(x)
  BY <1>1 DEF Refs, Gone
<1>3. PICK t \in Int : Total(ToRead(x), t) /\ sum[x] + t >= Cardinality(HeldOf(x))
  BY <1>1 DEF CountsOK
<1>4. PICK c \in unread[x] : /\ unread' = [unread EXCEPT ![x] = @ \ {c}]
                             /\ sum' = [sum EXCEPT ![x] = @ + pcpu[x][c]]
  BY DEF RefcntRead
<1> DEFINE f == ToRead(x)
           g == ToRead(x)'
           k == pcpu[x][c]
<1>5. f \in [CPU -> Int] /\ g \in [CPU -> Int] /\ c \in CPU /\ k \in Int
  BY DEF ToRead, CountTypeOK, CountRange
<1>6. g[c] = 0 /\ f[c] = k /\ \A b \in CPU \ {c} : g[b] = f[b]
  BY <1>1, <1>4 DEF ToRead, CountTypeOK
<1>7. sum'[x] = sum[x] + k /\ sum[x] \in Int
  BY <1>4 DEF CountTypeOK
<1> HIDE DEF f, g, k
<1>8. Total(f, t)
  BY <1>3 DEF f
<1>9. -k \in Int /\ g[c] = f[c] + -k
  BY <1>5, <1>6
<1>10. Total(g, t + -k)
  BY <1>5, <1>6, <1>8, <1>9, TotalChanges
<1>11. Cardinality(HeldOf(x)) \in Nat
  BY FS_CardinalityType DEF CountsOK
<1>12. sum'[x] + (t + -k) >= Cardinality(HeldOf(x)) /\ t + -k \in Int
  BY <1>3, <1>5, <1>7, <1>11
<1>13. \E s \in Int : Total(ToRead(x)', s) /\ sum'[x] + s >= Cardinality(HeldOf(x)')
  BY <1>1, <1>10, <1>12 DEF g
<1> QED BY <1>1, <1>2, <1>13 DEF CountsOK

\* The counts are the references, and what a round of reads finds is not too little.
LEMMA CountsKept ==
    ASSUME ViewIInv, CountTypeOK, CountTypeOK', ReadTypeOK, [Next]_vars,
           NEW x \in Mortal, StageOK(x), StageOK(x)', SoughtOK(x), CountsOK(x)
    PROVE  CountsOK(x)'
<1>1. ViewTypeOK /\ ViewTypeOK'
  BY NextViewIInv DEF ViewIInv
<1>2. IsFiniteSet(HeldOf(x)) /\ Cardinality(HeldOf(x)) \in Nat /\ Refs(x) \in Int
  BY FS_CardinalityType DEF CountsOK, Refs
<1>3. ASSUME pcpu'[x] = pcpu[x], unread'[x] = unread[x], sum'[x] = sum[x],
             HeldOf(x)' = HeldOf(x), Gone(x)' <=> Gone(x),
             pc'[x] = "waiting" => pc[x] = "waiting",
             reg'[x] # "RELEASED" => reg[x] # "RELEASED"
      PROVE  CountsOK(x)'
  <2>1. ToRead(x)' = ToRead(x) /\ Refs(x)' = Refs(x)
    BY <1>3 DEF ToRead, Refs
  <2> QED BY <1>3, <2>1 DEF CountsOK
<1>4. CASE RegisterNetdevice(x)
  <2>1. /\ HeldOf(x)' = HeldOf(x) /\ Gone(x) /\ ~Gone(x)' /\ reg[x] # "RELEASED"
        /\ pc'[x] # "waiting"
        /\ \E c \in CPU : Count(x, c, 1)
    BY <1>1, <1>4 DEF RegisterNetdevice, HeldOf, Gone, readVars, ViewTypeOK
  <2>2. Refs(x)' = Refs(x) + 1
    BY <1>2, <2>1 DEF Refs
  <2>3. Total(pcpu'[x], Refs(x) + 1)
    BY <2>1, CountChangesTotal DEF CountsOK
  <2> QED BY <1>2, <2>1, <2>2, <2>3 DEF CountsOK
<1>5. CASE RollbackDone(x)
  <2>1. /\ HeldOf(x)' = HeldOf(x) /\ ~Gone(x) /\ Gone(x)'
        /\ pc'[x] # "waiting"
        /\ \E c \in CPU : Count(x, c, -1)
    BY <1>1, <1>5 DEF RollbackDone, HeldOf, Gone, readVars, ViewTypeOK, StageOK, StagesOf, RegState
  <2>2. Refs(x)' = Refs(x) + -1
    BY <1>2, <2>1 DEF Refs
  <2>3. Total(pcpu'[x], Refs(x) + -1)
    BY <2>1, CountChangesTotal DEF CountsOK, Gone
  <2> QED BY <1>2, <2>1, <2>2, <2>3 DEF CountsOK
<1>6. CASE RunTodo(x) \/ WaitAgain(x)
  <2>1. /\ HeldOf(x)' = HeldOf(x) /\ Gone(x) /\ Gone(x)' /\ reg[x] # "RELEASED"
        /\ pcpu'[x] = pcpu[x] /\ unread'[x] = CPU /\ sum'[x] = 0
    BY <1>1, <1>6 DEF RunTodo, WaitAgain, FreshSum, HeldOf, Gone, readVars, ViewTypeOK, StageOK,
       StagesOf, RegState, CountTypeOK
  <2>2. Refs(x)' = Refs(x)
    BY <2>1 DEF Refs
  <2>3. \E t \in Int : Total(ToRead(x)', t) /\ sum'[x] + t >= Cardinality(HeldOf(x)')
    BY <2>1, RoundBegins
  <2> QED BY <1>2, <2>1, <2>2, <2>3 DEF CountsOK
<1>7. CASE RefcntRead(x)
  BY <1>7, ReadsKeepCounts
<1>8. CASE AllocNetdev(x)
  <2>1. /\ HeldOf(x)' = {} /\ Gone(x)' /\ pc'[x] # "waiting"
        /\ pcpu'[x] = [c \in CPU |-> 0]
    BY <1>1, <1>8 DEF AllocNetdev, Referenced, HeldOf, Gone, readVars, ViewTypeOK, StageOK,
       StagesOf, CountTypeOK
  <2>2. Refs(x)' = 0 /\ IsFiniteSet(HeldOf(x)')
    BY <2>1, FS_EmptySet DEF Refs
  <2> QED BY <2>1, <2>2, TotalOfZeros DEF CountsOK
<1>9. ASSUME NEW r \in Readers, Hold(r, x) \/ Put(r, x) PROVE CountsOK(x)'
  BY <1>1, <1>9, HoldsKeepCounts
<1> QED BY <1>1, <1>3, <1>4, <1>5, <1>6, <1>7, <1>8, <1>9, CountEdges

-----------------------------------------------------------------------------
\* Links of other devices leave a device alone that is not listed and has no links.
LEMMA LinksSpare ==
    ASSUME AdjTypeOK, ViewTypeOK, [Next]_vars, NEW x \in Dev, x \notin listed,
           Upper(x) \cup Lower(x) = {}
    PROVE  Upper(x)' \cup Lower(x)' = {}
<1>1. \A e \in Dev : ref[<<x, e>>] = 0 /\ ref[<<e, x>>] = 0
  BY DEF Upper, Lower, AdjTypeOK
<1>2. SUFFICES \A e \in Dev : ref'[<<x, e>>] = 0 /\ ref'[<<e, x>>] = 0
  BY DEF Upper, Lower
<1>3. ASSUME NEW dev \in Dev, NEW up \in Dev, UpperDevLink(dev, up), dev # x, up # x,
             NEW e \in Dev
      PROVE  ref'[<<x, e>>] = 0 /\ ref'[<<e, x>>] = 0
  <2>1. x \notin Lower(dev) \cup {dev} /\ x \notin Upper(up) \cup {up}
    BY <1>1, <1>3 DEF Upper, Lower
  <2>2. <<x, e>> \notin Pairs(dev, up) /\ <<e, x>> \notin Pairs(dev, up)
    BY <2>1 DEF Pairs
  <2> QED BY <1>1, <1>3, <2>2 DEF UpperDevLink, Inserted
<1>4. ASSUME NEW dev \in Dev, NEW up \in Dev, UpperDevLinkFails(dev, up) PROVE ref' = ref
  <2>1. PICK done \in SUBSET Pairs(dev, up) :
             ref' = Removed(Inserted(ref, dev, up, done), dev, up, Undone(dev, up, done))
    BY <1>4 DEF UpperDevLinkFails
  <2> QED BY <2>1, RollBackRestores DEF Undone
<1>5. ASSUME NEW dev \in Dev, NEW up \in Dev, UpperDevUnlink(dev, up), NEW e \in Dev
      PROVE  ref'[<<x, e>>] = 0 /\ ref'[<<e, x>>] = 0
  <2>1. \A p \in Dev \X Dev : Amount(dev, up, p) \in Nat
    BY DEF AdjTypeOK, Amount
  <2>2. \A p \in Dev \X Dev : ref[p] = 0 => ref'[p] = 0
    BY <1>5, <2>1 DEF UpperDevUnlink, Removed
  <2> QED BY <1>1, <2>2
<1>6. CASE Link
  BY <1>1, <1>3, <1>4, <1>5, <1>6 DEF Link, ViewTypeOK
<1>7. ASSUME NEW d \in Mortal, Detach(d)
      PROVE  \A e \in Dev : ref'[<<x, e>>] = 0 /\ ref'[<<e, x>>] = 0
  BY <1>5, <1>7 DEF Detach
<1>8. CASE UNCHANGED adjVars
  BY <1>1, <1>8 DEF adjVars
<1>9. UNCHANGED adjVars \/ Link \/ \E d \in Mortal : Detach(d)
  BY LinkSteps
<1> QED BY <1>6, <1>7, <1>8, <1>9

\* A device that was freed after its wait has been let go of by all.
LEMMA ReleasedKept ==
    ASSUME ViewIInv, ViewIInv', AdjTypeOK, CountTypeOK, ReadTypeOK, [Next]_vars,
           NEW x \in Mortal, StageOK(x), SoughtOK(x), CountsOK(x), ReleasedOK(x)
    PROVE  ReleasedOK(x)'
<1> SUFFICES ASSUME reg'[x] = "RELEASED", x \notin failing'
             PROVE  HeldOf(x)' = {} /\ Upper(x)' \cup Lower(x)' = {}
  BY DEF ReleasedOK
<1>1. ViewTypeOK /\ DeviceOK(x) /\ reg[x] \in RegState /\ x \in Dev
  BY DEF ViewIInv, ViewTypeOK
<1>2. ~AllocNetdev(x)
  BY <1>1 DEF AllocNetdev, ViewTypeOK
<1>3. x \notin failing
  BY <1>1, <1>2, StageEdges
<1>4. ~FreeFailed(x)
  BY <1>3 DEF FreeFailed, StageOK
<1>5. CASE FreeNetdev(x)
  <2>1. /\ pc[x] = "waiting" /\ unread[x] = {} /\ sum[x] = 0
        /\ Upper(x) \cup Lower(x) = {}
        /\ UNCHANGED <<adjVars, readVars>>
    BY <1>5 DEF FreeNetdev, NoRefs, Detached
  <2>2. PICK t \in Int : Total(ToRead(x), t) /\ sum[x] + t >= Cardinality(HeldOf(x))
    BY <2>1 DEF CountsOK
  <2>3. \A c \in CPU : ToRead(x)[c] = 0
    BY <2>1 DEF ToRead
  <2>4. t = 0
    BY <2>2, <2>3, ZerosTotal
  <2>5. IsFiniteSet(HeldOf(x)) /\ Cardinality(HeldOf(x)) \in Nat
    BY FS_CardinalityType DEF CountsOK
  <2>6. HeldOf(x) = {}
    BY <2>1, <2>2, <2>4, <2>5, FS_EmptySet
  <2> QED BY <2>1, <2>6 DEF HeldOf, Upper, Lower, adjVars, readVars
<1>6. CASE reg[x] = "RELEASED"
  <2>1. HeldOf(x) = {} /\ Upper(x) \cup Lower(x) = {}
    BY <1>3, <1>6 DEF ReleasedOK
  <2>2. Gone(x) /\ x \notin listed
    BY <1>1, <1>6 DEF Gone, DeviceOK
  <2>3. \A r \in Readers : ~Hold(r, x)
    BY <2>2 DEF SoughtOK, Sought, Hold
  <2>4. HeldOf(x)' = {}
    BY <2>1, <2>3, ReadEdges DEF HeldOf
  <2> QED BY <1>1, <2>1, <2>2, <2>4, LinksSpare
<1> QED BY <1>1, <1>4, <1>5, <1>6, StageEdges
-----------------------------------------------------------------------------
LEMMA InitLifeIInv == Init => LifeIInv
<1> SUFFICES ASSUME Init PROVE LifeIInv
  OBVIOUS
<1>1. HolderTypeOK
  BY DEF Init, HolderTypeOK
<1>2. CountTypeOK
  <2>1. 0 \in CountRange
    BY DEF CountRange
  <2> QED BY <2>1 DEF Init, CountTypeOK
<1>3. ReadTypeOK
  BY DEF Init, ReadTypeOK
<1>4. ASSUME NEW x \in Mortal PROVE StageOK(x) /\ SoughtOK(x) /\ ReleasedOK(x)
  BY DEF Init, StageOK, StagesOf, SoughtOK, Sought, ReleasedOK
<1>5. ASSUME NEW x \in Mortal PROVE CountsOK(x)
  <2>1. HeldOf(x) = {} /\ Gone(x) /\ pcpu[x] = [c \in CPU |-> 0] /\ pc[x] = "idle"
    BY DEF Init, HeldOf, Gone
  <2>2. IsFiniteSet(HeldOf(x)) /\ Refs(x) = 0
    BY <2>1, FS_EmptySet DEF Refs
  <2> QED BY <2>1, <2>2, TotalOfZeros DEF CountsOK
<1> QED BY <1>1, <1>2, <1>3, <1>4, <1>5 DEF LifeIInv

LEMMA NextLifeIInv == ViewIInv /\ AdjTypeOK /\ LifeIInv /\ [Next]_vars => LifeIInv'
<1> SUFFICES ASSUME ViewIInv, AdjTypeOK, LifeIInv, [Next]_vars PROVE LifeIInv'
  OBVIOUS
<1>1. HolderTypeOK /\ CountTypeOK /\ ReadTypeOK /\ ViewTypeOK /\ ViewIInv'
  BY NextViewIInv DEF LifeIInv, ViewIInv
<1>2. HolderTypeOK' /\ CountTypeOK' /\ ReadTypeOK'
  BY <1>1, HolderTypesKept, CountTypesKept, ReadTypesKept
<1>3. ASSUME NEW x \in Mortal PROVE (StageOK(x) /\ SoughtOK(x) /\ CountsOK(x) /\ ReleasedOK(x))'
  <2>1. StageOK(x) /\ SoughtOK(x) /\ CountsOK(x) /\ ReleasedOK(x)
    BY DEF LifeIInv
  <2>2. StageOK(x)'
    BY <1>1, <2>1, StagesKept
  <2>3. SoughtOK(x)'
    BY <1>1, <2>1, SoughtKept
  <2>4. CountsOK(x)'
    BY <1>1, <1>2, <2>1, <2>2, CountsKept
  <2>5. ReleasedOK(x)'
    BY <1>1, <2>1, ReleasedKept
  <2> QED BY <2>2, <2>3, <2>4, <2>5
<1> QED BY <1>2, <1>3 DEF LifeIInv

\* The inductive invariant behind FreedOnlyWhenUnreferenced holds.
THEOREM LifeInvariance == Spec => [](ViewIInv /\ AdjTypeOK /\ LifeIInv)
<1>1. Spec => [](ViewIInv /\ AdjTypeOK)
  BY ViewInvariance, DevicesUseAdjacency, AdjTypeCorrect, PTL
<1> QED BY <1>1, InitLifeIInv, NextLifeIInv, PTL DEF Spec

\* netdev_wait_allrefs: whatever CPUs references are taken and put back on, and in whatever
\* order the counters are read, a device that unregister_netdevice was called for is freed
\* only when no look-up, no notifier and no other device has it any more.
THEOREM FreedWhenUnreferenced == Spec => []FreedOnlyWhenUnreferenced
<1>1. ViewIInv /\ AdjTypeOK /\ LifeIInv => FreedOnlyWhenUnreferenced
  <2> SUFFICES ASSUME ViewIInv, AdjTypeOK, LifeIInv PROVE FreedOnlyWhenUnreferenced
    OBVIOUS
  <2>1. TypeOK
    <3>1. \A d \in Mortal :
             pc[d] \in {"registering", "rollback", "unlisted", "detaching", "moving", "moved"}
                 => rtnl = {d}
      BY DEF ViewIInv, DeviceOK, Busy
    <3>2. rtnl \in SUBSET (Mortal \cup Notifiers) /\ Cardinality(rtnl) <= 1
      <4>1. rtnl = {} \/ \E h \in Mortal \cup Notifiers : rtnl = {h}
        BY DEF LifeIInv, HolderTypeOK
      <4>2. CASE rtnl = {}
        <5>1. Cardinality(rtnl) = 0
          BY <4>2, FS_EmptySet
        <5> QED BY <4>2, <5>1
      <4>3. ASSUME NEW h \in Mortal \cup Notifiers, rtnl = {h}
            PROVE  rtnl \in SUBSET (Mortal \cup Notifiers) /\ Cardinality(rtnl) <= 1
        <5>1. Cardinality(rtnl) = 1
          BY <4>3, FS_Singleton
        <5> QED BY <4>3, <5>1
      <4> QED BY <4>1, <4>2, <4>3
    <3>3. pcpu \in [Mortal -> [CPU -> -MaxCount..MaxCount]]
      BY DEF LifeIInv, CountTypeOK, CountRange
    <3> QED BY <3>1, <3>2, <3>3 DEF TypeOK, ViewIInv, ViewTypeOK, LifeIInv, HolderTypeOK,
               CountTypeOK, ReadTypeOK
  <2>2. ASSUME NEW d \in Mortal, reg[d] = "RELEASED", d \notin failing PROVE ~Referenced(d)
    <3>1. /\ SoughtOK(d) /\ StageOK(d) /\ ReleasedOK(d) /\ DeviceOK(d) /\ d \in Dev
          /\ \A n \in Notifiers : NotifierOK(n)
      BY DEF LifeIInv, ViewIInv
    <3>2. HeldOf(d) = {} /\ Upper(d) \cup Lower(d) = {} /\ ~Sought(d)
      BY <2>2, <3>1 DEF ReleasedOK, SoughtOK, Gone
    <3>3. d \notin listed /\ rtnl # {d}
      BY <2>2, <3>1 DEF DeviceOK, Busy
    <3>4. \A n \in Notifiers : d \notin known[n]
      BY <3>1, <3>3 DEF NotifierOK, KnowsRightly
    <3> QED BY <3>2, <3>4 DEF Referenced, Detached, HeldOf
  <2> QED BY <2>1, <2>2 DEF FreedOnlyWhenUnreferenced
<1> QED BY <1>1, LifeInvariance, PTL
=============================================================================
