------------------------------ MODULE Counting -------------------------------
(***************************************************************************)
(* What the proofs of several components count with: least numbers, and    *)
(* sums over finite sets as the reports write them (MapThenSumSet), which  *)
(* depend neither on the order of the elements nor on how they are grouped *)
(***************************************************************************)
EXTENDS Integers, FiniteSetsExt, FiniteSetTheorems, WellFoundedInduction, TLAPS

\* A set of natural numbers has a least one.
LEMMA Least ==
  ASSUME NEW S \in SUBSET Nat, S # {}
  PROVE  \E m \in S : \A i \in S : m <= i
<1>1. IsWellFoundedOn(OpToRel(<, Nat), Nat)
  BY NatLessThanWellFounded
<1>2. PICK m \in S : \A i \in S : <<i, m>> \notin OpToRel(<, Nat)
  BY ONLY <1>1, S \subseteq Nat, S # {}, WFMin, Zenon
<1>3. \A i \in S : ~(i < m)
  BY <1>2 DEF OpToRel
<1> QED BY <1>3

-----------------------------------------------------------------------------
(* A sum as a function of the set summed over.                             *)

AnyOf(s) == CHOOSE x \in s : TRUE

\* F is the sum of g over each of the sets of C, taking any element first.
Adds(F, g, C) ==
    F = [s \in C |-> IF s = {} THEN 0 ELSE g[AnyOf(s)] + F[s \ {AnyOf(s)}]]

Small(D, n) == {s \in SUBSET D : Cardinality(s) <= n}

LEMMA OneLess ==
  ASSUME NEW D, IsFiniteSet(D), NEW s \in SUBSET D, s # {}
  PROVE  /\ AnyOf(s) \in s /\ s \ {AnyOf(s)} \in SUBSET D
         /\ Cardinality(s) \in Nat \ {0} /\ Cardinality(s \ {AnyOf(s)}) = Cardinality(s) - 1
<1>1. AnyOf(s) \in s
  BY DEF AnyOf
<1>2. IsFiniteSet(s)
  BY FS_Subset
<1>3. Cardinality(s) \in Nat /\ Cardinality(s) # 0
  BY <1>2, FS_CardinalityType, FS_EmptySet
<1>4. Cardinality(s \ {AnyOf(s)}) = Cardinality(s) - 1
  BY <1>1, <1>2, FS_RemoveElement
<1> QED BY <1>1, <1>3, <1>4

LEMMA SumExists ==
  ASSUME NEW D, IsFiniteSet(D), NEW g
  PROVE  \E F : Adds(F, g, SUBSET D)
<1> DEFINE Has(n) == \E F : Adds(F, g, Small(D, n))
           Bad == {n \in Nat : ~Has(n)}
<1>1. Bad = {}
  <2> SUFFICES ASSUME Bad # {} PROVE FALSE
    OBVIOUS
  <2>1. PICK m \in Bad : \A i \in Bad : m <= i
    BY Least
  <2>2. CASE m = 0
    <3> DEFINE F == [s \in Small(D, 0) |-> 0]
    <3>1. \A s \in Small(D, 0) : s = {}
      <4> SUFFICES ASSUME NEW s \in Small(D, 0), s # {} PROVE FALSE
        OBVIOUS
      <4>1. s \in SUBSET D /\ Cardinality(s) <= 0
        BY DEF Small
      <4>2. Cardinality(s) \in Nat \ {0}
        BY <4>1, OneLess
      <4> QED BY <4>1, <4>2
    <3>2. Adds(F, g, Small(D, 0))
      BY <3>1 DEF Adds
    <3> QED BY <2>1, <2>2, <3>2
  <2>3. CASE m # 0
    <3>1. m - 1 \in Nat /\ m - 1 \notin Bad
      BY <2>1, <2>3
    <3>2. PICK F : Adds(F, g, Small(D, m - 1))
      BY <3>1
    <3> DEFINE G == [s \in Small(D, m) |->
                       IF s = {} THEN 0 ELSE g[AnyOf(s)] + F[s \ {AnyOf(s)}]]
    <3>3. \A s \in Small(D, m) : s # {} => s \ {AnyOf(s)} \in Small(D, m - 1)
      BY <3>1, OneLess DEF Small
    <3>4. \A s \in Small(D, m - 1) : s \in Small(D, m) /\ F[s] = G[s]
      <4> TAKE s \in Small(D, m - 1)
      <4>1. IsFiniteSet(s)
        BY FS_Subset DEF Small
      <4>2. s \in Small(D, m)
        BY <3>1, <4>1, FS_CardinalityType DEF Small
      <4>3. F[s] = IF s = {} THEN 0 ELSE g[AnyOf(s)] + F[s \ {AnyOf(s)}]
        BY <3>2 DEF Adds
      <4> QED BY <4>2, <4>3
    <3>5. \A s \in Small(D, m) :
             G[s] = IF s = {} THEN 0 ELSE g[AnyOf(s)] + G[s \ {AnyOf(s)}]
      BY <3>3, <3>4
    <3> HIDE DEF G
    <3>6. Adds(G, g, Small(D, m))
      <4>1. G = [s \in Small(D, m) |-> G[s]]
        BY DEF G
      <4> QED BY <3>5, <4>1 DEF Adds
    <3> QED BY <2>1, <3>6
  <2> QED BY <2>2, <2>3
<1>2. Cardinality(D) \in Nat
  BY FS_CardinalityType
<1>3. SUBSET D = Small(D, Cardinality(D))
  BY FS_Subset DEF Small
<1>4. Has(Cardinality(D))
  BY <1>1, <1>2
<1> QED BY <1>3, <1>4

LEMMA SumUnique ==
  ASSUME NEW D, IsFiniteSet(D), NEW g, NEW F, NEW G,
         Adds(F, g, SUBSET D), Adds(G, g, SUBSET D)
  PROVE  F = G
<1> DEFINE Bad == {Cardinality(s) : s \in {x \in SUBSET D : F[x] # G[x]}}
<1>1. Bad = {}
  <2> SUFFICES ASSUME Bad # {} PROVE FALSE
    OBVIOUS
  <2>1. Bad \in SUBSET Nat
    BY FS_Subset, FS_CardinalityType
  <2>2. PICK m \in Bad : \A i \in Bad : m <= i
    BY <2>1, Least
  <2>3. PICK s \in SUBSET D : F[s] # G[s] /\ m = Cardinality(s)
    BY <2>2
  <2>4. /\ F[s] = IF s = {} THEN 0 ELSE g[AnyOf(s)] + F[s \ {AnyOf(s)}]
        /\ G[s] = IF s = {} THEN 0 ELSE g[AnyOf(s)] + G[s \ {AnyOf(s)}]
    BY <2>3 DEF Adds
  <2>5. s # {} /\ F[s \ {AnyOf(s)}] # G[s \ {AnyOf(s)}]
    BY <2>3, <2>4
  <2>6. /\ s \ {AnyOf(s)} \in SUBSET D /\ Cardinality(s) \in Nat
        /\ Cardinality(s \ {AnyOf(s)}) = Cardinality(s) - 1
    BY <2>5, OneLess
  <2>7. Cardinality(s \ {AnyOf(s)}) \in Bad
    BY <2>5, <2>6
  <2>8. m <= Cardinality(s \ {AnyOf(s)})
    BY <2>2, <2>7
  <2> QED BY <2>3, <2>6, <2>8
<1>2. \A s \in SUBSET D : F[s] = G[s]
  BY <1>1
<1>3. F = [s \in SUBSET D |-> F[s]] /\ G = [s \in SUBSET D |-> G[s]]
  BY DEF Adds
<1> QED BY <1>2, <1>3

\* The sum of g over a finite set.
Sum(g, S) == (CHOOSE F : Adds(F, g, SUBSET S))[S]

LEMMA SumWithin ==
  ASSUME NEW D, IsFiniteSet(D), NEW g, NEW F, Adds(F, g, SUBSET D), NEW S \in SUBSET D
  PROVE  Sum(g, S) = F[S]
<1> DEFINE G == [s \in SUBSET S |-> F[s]]
<1>1. \A s \in SUBSET S : F[s] = IF s = {} THEN 0 ELSE g[AnyOf(s)] + F[s \ {AnyOf(s)}]
  BY DEF Adds
<1>2. Adds(G, g, SUBSET S)
  BY <1>1 DEF Adds
<1>3. Adds(CHOOSE H : Adds(H, g, SUBSET S), g, SUBSET S)
  BY <1>2
<1>4. IsFiniteSet(S)
  BY FS_Subset
<1>5. (CHOOSE H : Adds(H, g, SUBSET S)) = G
  BY <1>2, <1>3, <1>4, SumUnique
<1> QED BY <1>5 DEF Sum

\* Its two equations: nothing, and any element with the sum of the others.
LEMMA SumFirst ==
  ASSUME NEW S, IsFiniteSet(S), NEW g
  PROVE  /\ S = {} => Sum(g, S) = 0
         /\ S # {} => Sum(g, S) = g[AnyOf(S)] + Sum(g, S \ {AnyOf(S)})
<1>1. PICK F : Adds(F, g, SUBSET S)
  BY SumExists
<1>2. F[S] = IF S = {} THEN 0 ELSE g[AnyOf(S)] + F[S \ {AnyOf(S)}]
  BY <1>1 DEF Adds
<1>3. Sum(g, S) = F[S] /\ Sum(g, S \ {AnyOf(S)}) = F[S \ {AnyOf(S)}]
  BY <1>1, SumWithin
<1> QED BY <1>2, <1>3

\* What the fold of the community modules computes.
LEMMA SumIsFold ==
  ASSUME NEW S, IsFiniteSet(S), NEW g
  PROVE  MapThenSumSet(LAMBDA x : g[x], S) = Sum(g, S)
<1>1. PICK F : Adds(F, g, SUBSET S)
  BY SumExists
<1>2. Adds(CHOOSE H : Adds(H, g, SUBSET S), g, SUBSET S)
  BY <1>1
<1> QED BY <1>2 DEF MapThenSumSet, MapThenFoldSet, Adds, AnyOf, Sum

\* Functions that agree on the set have the same sum.
LEMMA SumSame ==
  ASSUME NEW S, IsFiniteSet(S), NEW g, NEW h, \A x \in S : g[x] = h[x]
  PROVE  Sum(g, S) = Sum(h, S)
<1>1. PICK F : Adds(F, g, SUBSET S)
  BY SumExists
<1>2. \A s \in SUBSET S : s # {} => g[AnyOf(s)] = h[AnyOf(s)]
  BY OneLess
<1>3. Adds(F, h, SUBSET S)
  BY <1>1, <1>2 DEF Adds
<1> QED BY <1>1, <1>3, SumWithin

-----------------------------------------------------------------------------
(* Sums of natural numbers.                                                *)

LEMMA SumType ==
  ASSUME NEW S, IsFiniteSet(S), NEW g, \A x \in S : g[x] \in Nat
  PROVE  Sum(g, S) \in Nat
<1> DEFINE Bad == {Cardinality(s) : s \in {x \in SUBSET S : Sum(g, x) \notin Nat}}
<1>1. Bad = {}
  <2> SUFFICES ASSUME Bad # {} PROVE FALSE
    OBVIOUS
  <2>1. Bad \in SUBSET Nat
    BY FS_Subset, FS_CardinalityType
  <2>2. PICK m \in Bad : \A i \in Bad : m <= i
    BY <2>1, Least
  <2>3. PICK s \in SUBSET S : Sum(g, s) \notin Nat /\ m = Cardinality(s)
    BY <2>2
  <2>4. IsFiniteSet(s)
    BY FS_Subset
  <2>5. s # {} /\ Sum(g, s) = g[AnyOf(s)] + Sum(g, s \ {AnyOf(s)})
    <3>1. s # {}
      <4>1. Sum(g, s) # 0
        BY <2>3
      <4> QED BY <2>4, <4>1, SumFirst
    <3> QED BY <2>4, <3>1, SumFirst
  <2>6. /\ s \ {AnyOf(s)} \in SUBSET S /\ Cardinality(s) \in Nat /\ g[AnyOf(s)] \in Nat
        /\ Cardinality(s \ {AnyOf(s)}) = Cardinality(s) - 1
    BY <2>5, OneLess
  <2>7. Sum(g, s \ {AnyOf(s)}) \notin Nat
    BY <2>3, <2>5, <2>6
  <2>8. m <= Cardinality(s \ {AnyOf(s)})
    BY <2>2, <2>6, <2>7
  <2> QED BY <2>3, <2>6, <2>8
<1> QED BY <1>1

\* It does not matter which element is taken first.
LEMMA SumAdd ==
  ASSUME NEW D, IsFiniteSet(D), NEW g, \A x \in D : g[x] \in Nat,
         NEW S \in SUBSET D, NEW a \in D \ S
  PROVE  Sum(g, S \cup {a}) = Sum(g, S) + g[a]
<1> DEFINE Fits(s, x) == Sum(g, s \cup {x}) = Sum(g, s) + g[x]
           Bad == {Cardinality(s) : s \in {t \in SUBSET D : \E x \in D \ t : ~Fits(t, x)}}
<1>1. Bad = {}
  <2> SUFFICES ASSUME Bad # {} PROVE FALSE
    OBVIOUS
  <2>1. Bad \in SUBSET Nat
    BY FS_Subset, FS_CardinalityType
  <2>2. PICK m \in Bad : \A i \in Bad : m <= i
    BY <2>1, Least
  <2>3. PICK s \in SUBSET D : (\E x \in D \ s : ~Fits(s, x)) /\ m = Cardinality(s)
    BY <2>2
  <2>4. PICK x \in D \ s : ~Fits(s, x)
    BY <2>3
  <2> DEFINE b == AnyOf(s \cup {x})
             r == s \ {b}
  <2>5. IsFiniteSet(s) /\ IsFiniteSet(s \cup {x}) /\ s \cup {x} # {} /\ s \cup {x} \in SUBSET D
    BY FS_Subset
  <2>6. b \in s \cup {x} /\ Sum(g, s \cup {x}) = g[b] + Sum(g, (s \cup {x}) \ {b})
    <3>1. b \in s \cup {x}
      BY <2>5 DEF AnyOf
    <3>2. \A t : IsFiniteSet(t) /\ t # {} => Sum(g, t) = g[AnyOf(t)] + Sum(g, t \ {AnyOf(t)})
      BY SumFirst
    <3> QED BY <2>5, <3>1, <3>2
  <2>7. Sum(g, s) \in Nat /\ g[x] \in Nat /\ g[b] \in Nat
    BY <2>5, <2>6, SumType
  <2>8. CASE b = x
    <3>1. (s \cup {x}) \ {b} = s
      BY <2>4, <2>8
    <3> QED BY <2>4, <2>6, <2>7, <2>8, <3>1
  <2>9. CASE b # x
    <3> HIDE DEF b
    <3>1. b \in s /\ r \in SUBSET D /\ IsFiniteSet(r)
      BY <2>6, <2>9, FS_Subset
    <3>2. Cardinality(r) = Cardinality(s) - 1 /\ Cardinality(s) \in Nat
      BY <2>5, <3>1, FS_RemoveElement, FS_CardinalityType
    <3>3. ~(m <= Cardinality(r))
      BY <2>3, <3>2
    <3>4. \A y \in D \ r : Fits(r, y)
      BY <2>2, <3>1, <3>3
    <3>5. b \in D \ r /\ x \in D \ r
      BY <3>1
    <3>6. r \cup {b} = s /\ r \cup {x} = (s \cup {x}) \ {b}
      BY <2>4, <2>9, <3>1
    <3>7. Sum(g, s) = Sum(g, r) + g[b] /\ Sum(g, (s \cup {x}) \ {b}) = Sum(g, r) + g[x]
      BY <3>4, <3>5, <3>6
    <3>8. Sum(g, r) \in Nat
      BY <3>1, SumType
    <3> QED BY <2>4, <2>6, <2>7, <3>7, <3>8
  <2> QED BY <2>8, <2>9
<1> QED BY <1>1

LEMMA SumOne ==
  ASSUME NEW a, NEW g, g[a] \in Nat
  PROVE  Sum(g, {a}) = g[a]
<1>1. IsFiniteSet({a}) /\ IsFiniteSet({}) /\ {} \cup {a} = {a}
  BY FS_Singleton, FS_EmptySet
<1>2. Sum(g, {}) = 0
  BY <1>1, SumFirst
<1> QED BY <1>1, <1>2, SumAdd

\* Nor how the elements are grouped.
LEMMA SumUnion ==
  ASSUME NEW D, IsFiniteSet(D), NEW g, \A x \in D : g[x] \in Nat,
         NEW S \in SUBSET D, NEW T \in SUBSET D, S \cap T = {}
  PROVE  Sum(g, S \cup T) = Sum(g, S) + Sum(g, T)
<1> DEFINE Fits(t) == Sum(g, S \cup t) = Sum(g, S) + Sum(g, t)
           Bad == {Cardinality(t) : t \in {u \in SUBSET T : ~Fits(u)}}
<1>1. Bad = {}
  <2> SUFFICES ASSUME Bad # {} PROVE FALSE
    OBVIOUS
  <2>1. Bad \in SUBSET Nat
    <3> HIDE DEF Fits
    <3>1. \A t \in SUBSET T : IsFiniteSet(t)
      BY FS_Subset
    <3> QED BY <3>1, FS_CardinalityType
  <2>2. PICK m \in Bad : \A i \in Bad : m <= i
    BY <2>1, Least
  <2>3. PICK t \in SUBSET T : ~Fits(t) /\ m = Cardinality(t)
    BY <2>2
  <2>4. IsFiniteSet(S) /\ IsFiniteSet(t) /\ IsFiniteSet(T)
    BY FS_Subset
  <2>5. Sum(g, S) \in Nat
    BY <2>4, SumType
  <2>6. CASE t = {}
    <3>1. Sum(g, t) = 0 /\ S \cup t = S
      BY <2>4, <2>6, SumFirst
    <3> QED BY <2>3, <2>5, <3>1
  <2>7. CASE t # {}
    <3> DEFINE b == AnyOf(t)
               r == t \ {b}
    <3>1. /\ b \in t /\ r \in SUBSET T /\ Cardinality(t) \in Nat
          /\ Cardinality(r) = Cardinality(t) - 1
      BY <2>4, <2>7, OneLess
    <3> HIDE DEF b
    <3>2. ~(m <= Cardinality(r))
      BY <2>3, <3>1
    <3>3. Fits(r)
      BY <2>2, <3>1, <3>2
    <3>4. /\ r \cup {b} = t /\ (S \cup r) \cup {b} = S \cup t
          /\ b \in D \ r /\ b \in D \ (S \cup r)
          /\ r \in SUBSET D /\ S \cup r \in SUBSET D
      BY <3>1
    <3>5. Sum(g, t) = Sum(g, r) + g[b] /\ Sum(g, S \cup t) = Sum(g, S \cup r) + g[b]
      BY <3>4, SumAdd
    <3>6. Sum(g, r) \in Nat /\ g[b] \in Nat
      BY <3>4, FS_Subset, SumType
    <3> QED BY <2>3, <2>5, <3>3, <3>5, <3>6
  <2> QED BY <2>6, <2>7
<1>2. T \in SUBSET T
  OBVIOUS
<1> QED BY <1>1, <1>2

LEMMA SumMonotone ==
  ASSUME NEW D, IsFiniteSet(D), NEW g, \A x \in D : g[x] \in Nat, NEW S \in SUBSET D
  PROVE  Sum(g, S) <= Sum(g, D)
<1>1. Sum(g, S \cup (D \ S)) = Sum(g, S) + Sum(g, D \ S)
  BY SumUnion
<1>2. S \cup (D \ S) = D /\ IsFiniteSet(S) /\ IsFiniteSet(D \ S)
  BY FS_Subset
<1>3. Sum(g, S) \in Nat /\ Sum(g, D \ S) \in Nat
  BY <1>2, SumType
<1>4. Sum(g, D) = Sum(g, S) + Sum(g, D \ S)
  BY <1>1, <1>2
<1> QED BY <1>3, <1>4

\* The elements with a key.
Group(S, key, k) == {x \in S : key[x] = k}

\* What each group adds up to adds up to the sum of all.
LEMMA SumGroups ==
  ASSUME NEW S, IsFiniteSet(S), NEW g, \A x \in S : g[x] \in Nat,
         NEW K, IsFiniteSet(K), NEW key, \A x \in S : key[x] \in K,
         NEW h, \A k \in K : h[k] = Sum(g, Group(S, key, k))
  PROVE  Sum(h, K) = Sum(g, S)
<1> DEFINE Of(L) == {x \in S : key[x] \in L}
           Fits(L) == Sum(h, L) = Sum(g, Of(L))
           Bad == {Cardinality(L) : L \in {M \in SUBSET K : ~Fits(M)}}
<1>1. Bad = {}
  <2> SUFFICES ASSUME Bad # {} PROVE FALSE
    OBVIOUS
  <2>1. Bad \in SUBSET Nat
    BY FS_Subset, FS_CardinalityType
  <2>2. PICK m \in Bad : \A i \in Bad : m <= i
    BY <2>1, Least
  <2>3. PICK L \in SUBSET K : ~Fits(L) /\ m = Cardinality(L)
    BY <2>2
  <2>4. IsFiniteSet(L)
    BY FS_Subset
  <2>5. CASE L = {}
    <3>1. Of(L) = {} /\ IsFiniteSet({})
      BY <2>5, FS_EmptySet
    <3> QED BY <2>3, <2>4, <2>5, <3>1, SumFirst
  <2>6. CASE L # {}
    <3> DEFINE b == AnyOf(L)
               M == L \ {b}
    <3>1. /\ b \in L /\ M \in SUBSET K /\ Cardinality(L) \in Nat
          /\ Cardinality(M) = Cardinality(L) - 1
      BY <2>6, OneLess
    <3>2. Sum(h, L) = h[b] + Sum(h, M)
      BY <2>4, <2>6, SumFirst
    <3> HIDE DEF b
    <3>3. ~(m <= Cardinality(M))
      BY <2>3, <3>1
    <3>4. Fits(M)
      BY <2>2, <3>1, <3>3
    <3>5. /\ Of(L) = Of({b}) \cup Of(M) /\ Of({b}) \cap Of(M) = {}
          /\ Of({b}) = {x \in S : key[x] = b}
          /\ Of({b}) \in SUBSET S /\ Of(M) \in SUBSET S
      BY <3>1
    <3>6. Sum(g, Of(L)) = Sum(g, Of({b})) + Sum(g, Of(M))
      <4>1. \A A, B \in SUBSET S : A \cap B = {} => Sum(g, A \cup B) = Sum(g, A) + Sum(g, B)
        BY SumUnion
      <4> HIDE DEF Of
      <4> QED BY <3>5, <4>1
    <3>7. h[b] = Sum(g, Of({b}))
      BY <3>1, <3>5 DEF Group
    <3> QED BY <2>3, <3>2, <3>4, <3>6, <3>7
  <2> QED BY <2>5, <2>6
<1>2. Fits(K)
  <2> HIDE DEF Fits
  <2>1. K \in SUBSET K
    OBVIOUS
  <2> QED BY <1>1, <2>1
<1>3. Of(K) = S
  OBVIOUS
<1> QED BY <1>2, <1>3

\* Ones add up to the number of elements.
LEMMA SumOnes ==
  ASSUME NEW S, IsFiniteSet(S), NEW g, \A x \in S : g[x] = 1
  PROVE  Sum(g, S) = Cardinality(S)
<1> DEFINE Fits(s) == Sum(g, s) = Cardinality(s)
           Bad == {Cardinality(s) : s \in {t \in SUBSET S : ~Fits(t)}}
<1>1. Bad = {}
  <2> SUFFICES ASSUME Bad # {} PROVE FALSE
    OBVIOUS
  <2>1. Bad \in SUBSET Nat
    BY FS_Subset, FS_CardinalityType
  <2>2. PICK m \in Bad : \A i \in Bad : m <= i
    BY <2>1, Least
  <2>3. PICK s \in SUBSET S : ~Fits(s) /\ m = Cardinality(s)
    BY <2>2
  <2>4. IsFiniteSet(s)
    BY FS_Subset
  <2>5. CASE s = {}
    BY <2>3, <2>4, <2>5, SumFirst, FS_EmptySet
  <2>6. CASE s # {}
    <3> DEFINE b == AnyOf(s)
               r == s \ {b}
    <3>1. /\ b \in s /\ r \in SUBSET S /\ Cardinality(s) \in Nat
          /\ Cardinality(r) = Cardinality(s) - 1
      BY <2>6, OneLess
    <3>2. Sum(g, s) = 1 + Sum(g, r)
      BY <2>4, <2>6, <3>1, SumFirst
    <3> HIDE DEF b
    <3>3. ~(m <= Cardinality(r))
      BY <2>3, <3>1
    <3>4. Fits(r)
      BY <2>2, <3>1, <3>3
    <3> QED BY <2>3, <3>1, <3>2, <3>4
  <2> QED BY <2>5, <2>6
<1>2. Fits(S)
  BY <1>1
<1> QED BY <1>2

\* Counting by groups.
LEMMA CountGroups ==
  ASSUME NEW S, IsFiniteSet(S), NEW K, IsFiniteSet(K), NEW key, \A x \in S : key[x] \in K,
         NEW h, \A k \in K : h[k] = Cardinality(Group(S, key, k))
  PROVE  Sum(h, K) = Cardinality(S)
<1> DEFINE one == [x \in S |-> 1]
<1>1. \A x \in S : one[x] = 1
  OBVIOUS
<1> HIDE DEF one
<1>2. \A s \in SUBSET S : Sum(one, s) = Cardinality(s)
  BY <1>1, FS_Subset, SumOnes
<1>3. \A k \in K : Group(S, key, k) \in SUBSET S
  BY DEF Group
<1>4. \A k \in K : h[k] = Sum(one, Group(S, key, k))
  BY <1>2, <1>3
<1>5. Sum(h, K) = Sum(one, S)
  <2>1. \A x \in S : one[x] \in Nat
    BY <1>1
  <2> QED BY <1>4, <2>1, SumGroups
<1> QED BY <1>2, <1>5

\* A sum over other names of the same summands.
LEMMA SumRenamed ==
  ASSUME NEW S, IsFiniteSet(S), NEW g, \A x \in S : g[x] \in Nat,
         NEW K, IsFiniteSet(K), NEW key, \A x \in S : key[x] \in K,
         NEW h, \A k \in K : \E x \in S : Group(S, key, k) = {x} /\ h[k] = g[x]
  PROVE  Sum(h, K) = Sum(g, S)
<1>1. \A k \in K : h[k] = Sum(g, Group(S, key, k))
  BY SumOne
<1> QED BY <1>1, SumGroups

LEMMA ImageFinite ==
  ASSUME NEW S, IsFiniteSet(S), NEW g
  PROVE  IsFiniteSet({g[x] : x \in S})
<1> DEFINE f == [x \in S |-> g[x]]
           T == {g[x] : x \in S}
<1>1. f \in Surjection(S, T)
  BY DEF Surjection
<1> QED BY <1>1, FS_Surjection

\* Sets that cover another have at least as many elements, counted one by one.
LEMMA CountCover ==
  ASSUME NEW K, IsFiniteSet(K), NEW U, IsFiniteSet(U),
         NEW W, \A k \in K : W[k] \subseteq U,
         NEW h, \A k \in K : h[k] = Cardinality(W[k]),
         NEW P, \A x \in P : \E k \in K : x \in W[k]
  PROVE  Cardinality(P) <= Sum(h, K)
<1> DEFINE S == {x \in K \X U : x[2] \in W[x[1]]}
           key == [x \in S |-> x[1]]
           el == [x \in S |-> x[2]]
           T == {x[2] : x \in S}
<1>1. IsFiniteSet(S)
  <2>1. IsFiniteSet(K \X U) /\ S \subseteq K \X U
    BY FS_Product
  <2> HIDE DEF S
  <2> QED BY <2>1, FS_Subset
<1>2. ASSUME NEW k \in K PROVE Cardinality(Group(S, key, k)) = h[k]
  <2> DEFINE G == Group(S, key, k)
             f == [x \in G |-> x[2]]
  <2>1. \A x : x \in G <=> x \in K \X U /\ x[2] \in W[x[1]] /\ x[1] = k
    BY DEF Group
  <2>2. IsFiniteSet(G)
    <3>1. G \subseteq S
      BY DEF Group
    <3> HIDE DEF S, G
    <3> QED BY <1>1, <3>1, FS_Subset
  <2> HIDE DEF G
  <2>3. \A x \in G : f[x] \in W[k]
    BY <2>1
  <2>4. \A x, y \in G : f[x] = f[y] => x = y
    BY <2>1
  <2>5. \A w \in W[k] : <<k, w>> \in G /\ f[<<k, w>>] = w
    BY <2>1
  <2>6. f \in Bijection(G, W[k])
    BY <2>3, <2>4, <2>5 DEF Bijection, Injection, IsInjective, Surjection
  <2> QED BY <2>2, <2>6, FS_Bijection DEF ExistsBijection, G
<1>3. \A x \in S : key[x] \in K
  OBVIOUS
<1>4. IsFiniteSet(T) /\ Cardinality(T) <= Cardinality(S)
  <2>1. el \in Surjection(S, T)
    BY DEF Surjection
  <2> HIDE DEF S, T, el
  <2> QED BY <1>1, <2>1, FS_Surjection
<1>5. P \subseteq T
  <2> SUFFICES ASSUME NEW x \in P PROVE x \in T
    OBVIOUS
  <2>1. PICK k \in K : x \in W[k]
    OBVIOUS
  <2>2. <<k, x>> \in S
    BY <2>1
  <2> QED BY <2>2
<1> HIDE DEF S, key, T
<1>6. Sum(h, K) = Cardinality(S)
  BY <1>1, <1>2, <1>3, CountGroups
<1>7. /\ IsFiniteSet(P) /\ Cardinality(P) <= Cardinality(T)
      /\ Cardinality(P) \in Nat /\ Cardinality(T) \in Nat /\ Cardinality(S) \in Nat
  BY <1>1, <1>4, <1>5, FS_Subset, FS_CardinalityType
<1> QED BY <1>4, <1>6, <1>7
=============================================================================
