--------------------------- MODULE InductionLemmas ---------------------------
(***************************************************************************)
(* What a recursive function computes, for every argument: induction over  *)
(* sets of naturals, steps repeated along a sequence, and sums over sets.  *)
(* The least-number principle behind it is that of WellFoundedInduction.   *)
(***************************************************************************)
EXTENDS Integers, FiniteSetTheorems, WellFoundedInduction, TLAPS

(* Induction, over sets of naturals.                                       *)
LEMMA Least ==
  ASSUME NEW T, T \subseteq Nat, T # {}
  PROVE  \E x \in T : \A y \in T : x <= y
<1> DEFINE R == OpToRel(<, Nat)
<1>1. IsWellFoundedOn(R, Nat)
  BY NatLessThanWellFounded
<1>2. \A x, y \in Nat : x < y => <<x, y>> \in R
  BY DEF OpToRel
<1> HIDE DEF R
<1>3. PICK x \in T : \A y \in T : <<y, x>> \notin R
  BY <1>1, WFMin
<1>4. ASSUME NEW y \in T PROVE x <= y
  <2>1. x \in Nat /\ y \in Nat /\ ~(y < x)
    BY <1>2, <1>3
  <2> QED BY <2>1
<1> QED BY <1>4

LEMMA Induction ==
  ASSUME NEW S, 0 \in S, \A n \in Nat : n \in S => n + 1 \in S
  PROVE  Nat \subseteq S
<1> SUFFICES ASSUME Nat \ S # {} PROVE FALSE
  OBVIOUS
<1>1. PICK x \in Nat \ S : \A y \in Nat \ S : x <= y
  BY Least
<1>2. x # 0 /\ x - 1 \in Nat /\ ~(x <= x - 1) /\ x = (x - 1) + 1
  BY <1>1
<1>3. x - 1 \in S
  BY <1>1, <1>2
<1> QED BY <1>1, <1>2, <1>3

(* A step repeated along 1 .. len from start gives the values w.           *)
Run(w, S, start, len, step) ==
  /\ w \in [0 .. len -> S] /\ w[0] = start
  /\ \A i \in 1 .. len : w[i] = step[<<w[i - 1], i>>]

LEMMA Repeated ==
  ASSUME NEW S, NEW start \in S, NEW len \in Nat, NEW step \in [S \X (1 .. len) -> S]
  PROVE  \E w : Run(w, S, start, len, step)
<1> USE DEF Run
<1> DEFINE Until(w, k) == Run(w, S, start, k, step)
           Ks == {k \in Nat : k <= len => \E w : Until(w, k)}
<1>1. 0 \in Ks
  <2>1. Until([i \in 0 .. 0 |-> start], 0)
    OBVIOUS
  <2> QED BY <2>1
<1>2. ASSUME NEW k \in Nat, k \in Ks PROVE k + 1 \in Ks
  <2> SUFFICES ASSUME k + 1 <= len PROVE \E w : Until(w, k + 1)
    OBVIOUS
  <2>1. PICK w : Until(w, k)
    BY <1>2
  <2>2. <<w[k], k + 1>> \in S \X (1 .. len)
    BY <2>1
  <2> DEFINE v == [i \in 0 .. k + 1 |-> IF i = k + 1 THEN step[<<w[k], k + 1>>] ELSE w[i]]
  <2>3. v \in [0 .. k + 1 -> S] /\ v[0] = start
    BY <2>1, <2>2
  <2>4. ASSUME NEW i \in 1 .. k + 1 PROVE v[i] = step[<<v[i - 1], i>>]
    <3>1. CASE i = k + 1
      <4>1. v[i] = step[<<w[k], k + 1>>] /\ v[i - 1] = w[k]
        BY <3>1
      <4> QED BY <3>1, <4>1
    <3>2. CASE i # k + 1
      <4>1. i \in 1 .. k /\ v[i] = w[i] /\ v[i - 1] = w[i - 1]
        BY <3>2
      <4> QED BY <2>1, <4>1
    <3> QED BY <3>1, <3>2
  <2> HIDE DEF v
  <2> QED BY <2>3, <2>4
<1> HIDE DEF Ks
<1>3. len \in Ks
  BY <1>1, <1>2, Induction
<1> QED BY <1>3 DEF Ks

(* ... and a recursive function that applies it has these values.          *)
LEMMA RunOf ==
  ASSUME NEW S, NEW start \in S, NEW len \in Nat, NEW step \in [S \X (1 .. len) -> S],
         NEW w, w = [i \in 0 .. len |-> w[i]], w[0] = start,
         \A i \in 1 .. len : w[i - 1] \in S => w[i] = step[<<w[i - 1], i>>]
  PROVE  Run(w, S, start, len, step)
<1> DEFINE Ks == {k \in Nat : k <= len => w[k] \in S}
<1>1. \A k \in Nat : k \in Ks
  <2>1. 0 \in Ks
    OBVIOUS
  <2>2. ASSUME NEW k \in Nat, k \in Ks PROVE k + 1 \in Ks
    <3> SUFFICES ASSUME k + 1 <= len PROVE w[k + 1] \in S
      OBVIOUS
    <3>1. w[k] \in S /\ k + 1 \in 1 .. len /\ (k + 1) - 1 = k
      BY <2>2
    <3>2. w[k + 1] = step[<<w[k], k + 1>>]
      BY <3>1
    <3>3. <<w[k], k + 1>> \in S \X (1 .. len)
      BY <3>1
    <3> QED BY <3>2, <3>3
  <2> HIDE DEF Ks
  <2> QED BY <2>1, <2>2, Induction
<1>2. w \in [0 .. len -> S]
  BY <1>1
<1>3. \A i \in 1 .. len : w[i - 1] \in S
  BY <1>2
<1> QED BY <1>2, <1>3 DEF Run

-----------------------------------------------------------------------------
(* Sums: a finite set is emptied element by element.                       *)
Pick(s) == CHOOSE x \in s : TRUE
Rest(s) == s \ {Pick(s)}

LEMMA RestIsLess ==
  ASSUME NEW S, IsFiniteSet(S), NEW s \in SUBSET S, s # {}
  PROVE  /\ Pick(s) \in s /\ Pick(s) \in S /\ Rest(s) \in SUBSET S
         /\ Pick(s) \notin Rest(s) /\ s = Rest(s) \union {Pick(s)}
         /\ Cardinality(s) \in Nat /\ Cardinality(Rest(s)) = Cardinality(s) - 1
<1>1. Pick(s) \in s
  BY DEF Pick
<1>2. IsFiniteSet(s) /\ Cardinality(s) \in Nat
  BY FS_Subset, FS_CardinalityType
<1>3. Cardinality(Rest(s)) = Cardinality(s) - 1
  BY <1>1, <1>2, FS_RemoveElement DEF Rest
<1> QED BY <1>1, <1>2, <1>3 DEF Rest

LEMMA SubsetInduction ==
  ASSUME NEW S, IsFiniteSet(S), NEW T, {} \in T,
         \A s \in SUBSET S : s # {} /\ Rest(s) \in T => s \in T
  PROVE  SUBSET S \subseteq T
<1> DEFINE Ks == {n \in Nat : \A s \in SUBSET S : Cardinality(s) = n => s \in T}
<1>1. 0 \in Ks
  <2>1. ASSUME NEW s \in SUBSET S, Cardinality(s) = 0 PROVE s = {}
    <3>1. IsFiniteSet(s)
      BY FS_Subset
    <3> QED BY <2>1, <3>1, FS_EmptySet
  <2> QED BY <2>1
<1>2. ASSUME NEW n \in Nat, n \in Ks PROVE n + 1 \in Ks
  <2> SUFFICES ASSUME NEW s \in SUBSET S, Cardinality(s) = n + 1 PROVE s \in T
    OBVIOUS
  <2>1. s # {}
    BY FS_EmptySet
  <2>2. Rest(s) \in SUBSET S /\ Cardinality(Rest(s)) = n
    BY <2>1, RestIsLess
  <2> QED BY <1>2, <2>1, <2>2
<1> HIDE DEF Ks
<1>3. Nat \subseteq Ks
  BY <1>1, <1>2, Induction
<1>4. \A s \in SUBSET S : Cardinality(s) \in Nat
  BY FS_Subset, FS_CardinalityType
<1> QED BY <1>3, <1>4 DEF Ks

Sums(v, f, S) ==
  /\ v \in [SUBSET S -> Nat] /\ v[{}] = 0
  /\ \A s \in SUBSET S : s # {} => v[s] = f[Pick(s)] + v[Rest(s)]

LEMMA SumsExist ==
  ASSUME NEW S, IsFiniteSet(S), NEW f \in [S -> Nat]
  PROVE  \E v : Sums(v, f, S)
<1> DEFINE Until(v, n) ==
             /\ v \in [SUBSET S -> Nat] /\ v[{}] = 0
             /\ \A s \in SUBSET S : s # {} /\ Cardinality(s) <= n =>
                  v[s] = f[Pick(s)] + v[Rest(s)]
           Ks == {n \in Nat : \E v : Until(v, n)}
<1>1. \A s \in SUBSET S : /\ Cardinality(s) \in Nat
                          /\ s # {} => /\ f[Pick(s)] \in Nat /\ Rest(s) \in SUBSET S
                                       /\ Cardinality(Rest(s)) = Cardinality(s) - 1
                                       /\ Cardinality(s) # 0
  <2> TAKE s \in SUBSET S
  <2>1. IsFiniteSet(s) /\ Cardinality(s) \in Nat
    BY FS_Subset, FS_CardinalityType
  <2>2. s # {} => Cardinality(s) # 0
    BY <2>1, FS_EmptySet
  <2> QED BY <2>1, <2>2, RestIsLess
<1>2. 0 \in Ks
  <2>1. Until([s \in SUBSET S |-> 0], 0)
    BY <1>1
  <2> QED BY <2>1
<1>3. ASSUME NEW n \in Nat, n \in Ks PROVE n + 1 \in Ks
  <2>1. PICK v : Until(v, n)
    BY <1>3
  <2> DEFINE w == [s \in SUBSET S |-> IF Cardinality(s) = n + 1
                                      THEN f[Pick(s)] + v[Rest(s)] ELSE v[s]]
  <2>2. w \in [SUBSET S -> Nat]
    <3>1. ASSUME NEW s \in SUBSET S, Cardinality(s) = n + 1
          PROVE  f[Pick(s)] + v[Rest(s)] \in Nat
      <4>1. s # {}
        BY <3>1, FS_EmptySet
      <4>2. f[Pick(s)] \in Nat /\ v[Rest(s)] \in Nat
        BY <1>1, <2>1, <4>1
      <4> QED BY <4>2
    <3> QED BY <2>1, <3>1
  <2>3. w[{}] = 0
    <3>1. Cardinality({}) = 0 /\ {} \in SUBSET S
      BY FS_EmptySet
    <3> QED BY <2>1, <3>1
  <2>4. ASSUME NEW s \in SUBSET S, s # {}, Cardinality(s) <= n + 1
        PROVE  w[s] = f[Pick(s)] + w[Rest(s)]
    <3>1. /\ Rest(s) \in SUBSET S /\ Cardinality(Rest(s)) = Cardinality(s) - 1
          /\ Cardinality(s) \in Nat
      BY <1>1, <2>4
    <3>2. w[Rest(s)] = v[Rest(s)]
      BY <2>4, <3>1
    <3>3. CASE Cardinality(s) = n + 1
      BY <3>2, <3>3
    <3>4. CASE Cardinality(s) # n + 1
      <4>1. Cardinality(s) <= n /\ w[s] = v[s]
        BY <2>4, <3>1, <3>4
      <4> QED BY <2>1, <2>4, <3>2, <4>1
    <3> QED BY <3>3, <3>4
  <2> HIDE DEF w
  <2>5. Until(w, n + 1)
    BY <2>2, <2>3, <2>4
  <2> QED BY <2>5
<1> HIDE DEF Ks
<1>4. Cardinality(S) \in Ks
  BY <1>2, <1>3, Induction, FS_CardinalityType
<1>5. PICK v : Until(v, Cardinality(S))
  BY <1>4 DEF Ks
<1>6. \A s \in SUBSET S : Cardinality(s) <= Cardinality(S)
  BY FS_Subset
<1> QED BY <1>5, <1>6 DEF Sums

LEMMA SumsOf ==
  ASSUME NEW S, IsFiniteSet(S), NEW f \in [S -> Nat],
         NEW v, v = [s \in SUBSET S |-> v[s]], v[{}] = 0,
         \A s \in SUBSET S : s # {} => v[s] = f[Pick(s)] + v[Rest(s)]
  PROVE  Sums(v, f, S)
<1> DEFINE T == {s \in SUBSET S : v[s] \in Nat}
<1>1. {} \in T
  OBVIOUS
<1>2. ASSUME NEW s \in SUBSET S, s # {}, Rest(s) \in T PROVE s \in T
  <2>1. f[Pick(s)] \in Nat
    BY <1>2, RestIsLess
  <2>2. v[s] = f[Pick(s)] + v[Rest(s)] /\ v[Rest(s)] \in Nat
    BY <1>2
  <2> QED BY <2>1, <2>2
<1> HIDE DEF T
<1>3. SUBSET S \subseteq T
  BY <1>1, <1>2, SubsetInduction
<1>4. v \in [SUBSET S -> Nat]
  BY <1>3 DEF T
<1> QED BY <1>4 DEF Sums

(* One term more by d makes the sum more by d.                             *)
LEMMA SumsCompare ==
  ASSUME NEW S, IsFiniteSet(S), NEW f \in [S -> Nat], NEW g \in [S -> Nat],
         NEW y, NEW d \in Nat, \A x \in S : g[x] = IF x = y THEN f[x] + d ELSE f[x],
         NEW v, Sums(v, f, S), NEW w, Sums(w, g, S)
  PROVE  \A s \in SUBSET S : w[s] = IF y \in s THEN v[s] + d ELSE v[s]
<1> DEFINE T == {s \in SUBSET S : w[s] = IF y \in s THEN v[s] + d ELSE v[s]}
<1>1. {} \in T
  BY DEF Sums
<1>2. ASSUME NEW s \in SUBSET S, s # {}, Rest(s) \in T PROVE s \in T
  <2>1. /\ Pick(s) \in S /\ Pick(s) \in s /\ Pick(s) \notin Rest(s)
        /\ s = Rest(s) \union {Pick(s)} /\ Rest(s) \in SUBSET S
    BY <1>2, RestIsLess
  <2>2. v[s] = f[Pick(s)] + v[Rest(s)] /\ w[s] = g[Pick(s)] + w[Rest(s)]
    BY <1>2 DEF Sums
  <2>3. f[Pick(s)] \in Nat /\ v[Rest(s)] \in Nat /\ v[s] \in Nat
    BY <2>1 DEF Sums
  <2>4. w[Rest(s)] = IF y \in Rest(s) THEN v[Rest(s)] + d ELSE v[Rest(s)]
    BY <1>2
  <2>5. g[Pick(s)] = IF Pick(s) = y THEN f[Pick(s)] + d ELSE f[Pick(s)]
    BY <2>1
  <2>6. CASE Pick(s) = y
    BY <2>1, <2>2, <2>3, <2>4, <2>5, <2>6
  <2>7. CASE Pick(s) # y
    <3>1. y \in s <=> y \in Rest(s)
      BY <2>1, <2>7
    <3> QED BY <2>2, <2>3, <2>4, <2>5, <2>7, <3>1
  <2> QED BY <2>6, <2>7
<1> HIDE DEF T
<1>3. SUBSET S \subseteq T
  BY <1>1, <1>2, SubsetInduction
<1> QED BY <1>3 DEF T

Sum(f, S) == (CHOOSE v : Sums(v, f, S))[S]

LEMMA SumIs ==
  ASSUME NEW S, IsFiniteSet(S), NEW f \in [S -> Nat], NEW v, Sums(v, f, S)
  PROVE  Sum(f, S) = v[S]
<1>1. PICK w : w = CHOOSE u : Sums(u, f, S)
  OBVIOUS
<1>2. Sums(w, f, S)
  BY <1>1, Zenon
<1>3. \A x \in S : f[x] = IF x = 0 THEN f[x] + 0 ELSE f[x]
  OBVIOUS
<1>4. w[S] = IF 0 \in S THEN v[S] + 0 ELSE v[S]
  BY <1>2, <1>3, SumsCompare
<1>5. v[S] \in Nat
  BY DEF Sums
<1>6. Sum(f, S) = w[S]
  BY <1>1 DEF Sum
<1> QED BY <1>4, <1>5, <1>6

LEMMA SumMore ==
  ASSUME NEW S, IsFiniteSet(S), NEW f \in [S -> Nat], NEW g \in [S -> Nat],
         NEW y \in S, \A x \in S : g[x] = IF x = y THEN f[x] + 1 ELSE f[x]
  PROVE  Sum(g, S) = Sum(f, S) + 1
<1>1. PICK v : Sums(v, f, S)
  BY SumsExist
<1>2. PICK w : Sums(w, g, S)
  BY SumsExist
<1>3. PICK d \in Nat : d = 1
  OBVIOUS
<1>4. w[S] = v[S] + 1
  <2>1. \A x \in S : g[x] = IF x = y THEN f[x] + d ELSE f[x]
    BY <1>3
  <2>2. w[S] = IF y \in S THEN v[S] + d ELSE v[S]
    BY <1>1, <1>2, <2>1, SumsCompare
  <2> QED BY <1>3, <2>2
<1> QED BY <1>1, <1>2, <1>4, SumIs

LEMMA SumZero ==
  ASSUME NEW S, IsFiniteSet(S), NEW f \in [S -> Nat], \A x \in S : f[x] = 0
  PROVE  Sum(f, S) = 0
<1>1. Sums([s \in SUBSET S |-> 0], f, S)
  <2>1. \A s \in SUBSET S : s # {} => f[Pick(s)] = 0 /\ Rest(s) \in SUBSET S
    BY RestIsLess
  <2> QED BY <2>1 DEF Sums
<1> QED BY <1>1, SumIs

=============================================================================
