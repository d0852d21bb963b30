----------------------------- MODULE LedgerSums -----------------------------
(***************************************************************************)
(* Facts about the sum of the base prices of a finite set of orders        *)
(* (MapThenSumSet of FiniteSetsExt, which folds over the set in an order   *)
(* of its own). What it computes is shown by induction on subsets, stated  *)
(* for a set of subsets, so that no lemma takes an operator.               *)
(***************************************************************************)
EXTENDS Integers, FiniteSetsExt, FiniteSetTheorems, WellFoundedInduction, TLAPS
(* The least element of a set of naturals.                                  *)
LEMMA LeastNatural ==
    ASSUME NEW B, B \subseteq Nat, B # {}
    PROVE  \E n \in B : \A k \in B : ~(k < n)
<1>1. PICK R : R = OpToRel(<, Nat)
  OBVIOUS
<1>2. IsWellFoundedOn(R, Nat)
  BY <1>1, NatLessThanWellFounded, Zenon
<1>3. \E n \in B : \A k \in B : ~(<<k, n>> \in R)
  BY <1>2, WFMin, Zenon
<1>4. \A k, n \in Nat : k < n => <<k, n>> \in R
  BY <1>1 DEF OpToRel
<1>5. QED BY <1>3, <1>4

(* A set of subsets of S that holds every subset whose proper subsets it    *)
(* holds, holds them all.                                                   *)
LEMMA SubsetInduction ==
    ASSUME NEW S, IsFiniteSet(S), NEW G \in SUBSET (SUBSET S),
           \A s \in SUBSET S : (\A t \in SUBSET s : t # s => t \in G) => s \in G
    PROVE  G = SUBSET S
<1> DEFINE Bad == (SUBSET S) \ G
           Sizes == {n \in Nat : \E s \in Bad : n = Cardinality(s)}
<1>1. SUFFICES ASSUME NEW b \in Bad PROVE FALSE
  OBVIOUS
<1>2. \A s \in SUBSET S : IsFiniteSet(s) /\ Cardinality(s) \in Nat
  BY FS_Subset, FS_CardinalityType
<1>3. Sizes \subseteq Nat /\ Sizes # {}
  BY <1>1, <1>2
<1>4. PICK n \in Sizes : \A k \in Sizes : ~(k < n)
  <2> HIDE DEF Sizes
  <2>1. QED BY <1>3, LeastNatural
<1>5. PICK s \in Bad : n = Cardinality(s)
  BY <1>4
<1>6. ASSUME NEW t \in SUBSET s, t # s PROVE t \in G
  <2>1. t \in SUBSET S /\ Cardinality(t) \in Nat /\ Cardinality(s) \in Nat
    BY <1>2, <1>5
  <2>2. Cardinality(t) <= Cardinality(s) /\ Cardinality(t) # Cardinality(s)
    BY <1>2, <1>5, <1>6, FS_Subset
  <2>3. Cardinality(t) < n
    BY <1>5, <2>1, <2>2
  <2>4. QED BY <1>4, <2>1, <2>3
<1>7. QED BY <1>5, <1>6

(* The sum of the base prices that the rows m give the orders S.            *)
BaseSum(m, S) == MapThenSumSet(LAMBDA o : m[o].base, S)

(* The function the fold is the value of: g sums over every subset of S.    *)
Iterates(m, S, g) ==
    g = [s \in SUBSET S |->
           IF s = {} THEN 0
           ELSE LET x == CHOOSE x \in s : TRUE IN m[x].base + g[s \ {x}]]

(* The fold is the value at S of the function that iterates over S.         *)
LEMMA SumIsIterate == \A m, S : BaseSum(m, S) = (CHOOSE g : Iterates(m, S, g))[S]
  BY Zenon DEF BaseSum, MapThenSumSet, MapThenFoldSet, Iterates

(* The element the fold takes first.                                        *)
Pick(s) == CHOOSE x \in s : TRUE

(* It is an element.                                                        *)
LEMMA PickIn == \A s : s # {} => Pick(s) \in s
  BY DEF Pick

(* One step of the iteration.                                               *)
LEMMA IterateUnfolds ==
    ASSUME NEW m, NEW S, NEW g, Iterates(m, S, g), NEW s \in SUBSET S
    PROVE  g[s] = IF s = {} THEN 0 ELSE m[Pick(s)].base + g[s \ {Pick(s)}]
BY DEF Iterates, Pick

(* What is iterated up to S does not depend on the set it is defined on.    *)
LEMMA IteratesAgree ==
    ASSUME NEW S, IsFiniteSet(S), NEW m, NEW T, S \subseteq T, NEW U, S \subseteq U,
           NEW g, Iterates(m, T, g), NEW h, Iterates(m, U, h)
    PROVE  g[S] = h[S]
<1> DEFINE G == {s \in SUBSET S : g[s] = h[s]}
<1>1. ASSUME NEW s \in SUBSET S, \A t \in SUBSET s : t # s => t \in G PROVE s \in G
  <2>0. s \in SUBSET T /\ s \in SUBSET U
    OBVIOUS
  <2>1. CASE s = {}
    <3>1. g[s] = 0
      BY <2>0, <2>1, IterateUnfolds, Zenon
    <3>2. h[s] = 0
      BY <2>0, <2>1, IterateUnfolds, Zenon
    <3>3. QED BY <3>1, <3>2
  <2>2. CASE s # {}
    <3>1. g[s] = m[Pick(s)].base + g[s \ {Pick(s)}]
      BY <2>0, <2>2, IterateUnfolds, SMT
    <3>2. h[s] = m[Pick(s)].base + h[s \ {Pick(s)}]
      BY <2>0, <2>2, IterateUnfolds, SMT
    <3>3. g[s \ {Pick(s)}] = h[s \ {Pick(s)}]
      BY <1>1, <2>2, PickIn
    <3>4. QED BY <3>1, <3>2, <3>3
  <2>3. QED BY <2>1, <2>2
<1>2. G = SUBSET S
  <2> HIDE DEF G
  <2>1. G \in SUBSET (SUBSET S)
    BY DEF G
  <2>2. QED BY <1>1, <2>1, SubsetInduction
<1>3. QED BY <1>2

(* One step of the sum, provided that both functions exist.                 *)
LEMMA UnfoldsIfDefined ==
    ASSUME NEW m, NEW S, IsFiniteSet(S), S # {},
           \E g : Iterates(m, S, g), \E g : Iterates(m, S \ {Pick(S)}, g)
    PROVE  BaseSum(m, S) = m[Pick(S)].base + BaseSum(m, S \ {Pick(S)})
<1> DEFINE R == S \ {Pick(S)}
<1>1. PICK g : g = CHOOSE f : Iterates(m, S, f)
  OBVIOUS
<1>2. PICK h : h = CHOOSE f : Iterates(m, R, f)
  OBVIOUS
<1>3. Iterates(m, S, g) /\ Iterates(m, R, h)
  BY <1>1, <1>2, Zenon
<1>4. g[S] = m[Pick(S)].base + g[R]
  BY <1>3, IterateUnfolds
<1>5. IsFiniteSet(R)
  BY FS_RemoveElement
<1>6. g[R] = h[R]
  BY <1>3, <1>5, IteratesAgree
<1>7. BaseSum(m, S) = g[S] /\ BaseSum(m, R) = h[R]
  BY <1>1, <1>2, SumIsIterate, Zenon
<1>8. QED BY <1>4, <1>6, <1>7

(* The sum over no order, provided that the function exists.                *)
LEMMA EmptyIfDefined ==
    ASSUME NEW m, \E g : Iterates(m, {}, g)
    PROVE  BaseSum(m, {}) = 0
<1>1. PICK g : g = CHOOSE f : Iterates(m, {}, f)
  OBVIOUS
<1>2. Iterates(m, {}, g)
  BY <1>1, Zenon
<1>3. g[{}] = 0
  BY <1>2, IterateUnfolds
<1>4. QED BY <1>1, <1>3, SumIsIterate, Zenon

(* The function exists for every finite set: on each subset it is one step  *)
(* of the sum, which unfolds on the proper subsets.                         *)
LEMMA IterateExists ==
    ASSUME NEW S, IsFiniteSet(S), NEW m
    PROVE  \E g : Iterates(m, S, g)
<1> DEFINE G == {s \in SUBSET S : \E g : Iterates(m, s, g)}
<1>1. ASSUME NEW s \in SUBSET S, \A t \in SUBSET s : t # s => t \in G PROVE s \in G
  <2> DEFINE f == [t \in SUBSET s |->
                     IF t = {} THEN 0
                     ELSE m[Pick(t)].base + BaseSum(m, t \ {Pick(t)})]
  <2>1. ASSUME NEW t \in SUBSET s, t # s PROVE f[t] = BaseSum(m, t)
    <3>1. IsFiniteSet(t) /\ \E g : Iterates(m, t, g)
      BY <1>1, <2>1, FS_Subset
    <3>2. CASE t = {}
      BY <3>1, <3>2, EmptyIfDefined
    <3>3. CASE t # {}
      <4>1. t \ {Pick(t)} \in SUBSET s /\ t \ {Pick(t)} # s
        BY <3>3, PickIn
      <4>2. \E g : Iterates(m, t \ {Pick(t)}, g)
        BY <1>1, <4>1
      <4>3. f[t] = m[Pick(t)].base + BaseSum(m, t \ {Pick(t)})
        BY <3>3
      <4>4. BaseSum(m, t) = m[Pick(t)].base + BaseSum(m, t \ {Pick(t)})
        BY <3>1, <3>3, <4>2, UnfoldsIfDefined, Zenon
      <4>5. QED BY <4>3, <4>4
    <3>4. QED BY <3>2, <3>3
  <2>2. ASSUME NEW t \in SUBSET s, t # {}
        PROVE  f[t] = m[Pick(t)].base + f[t \ {Pick(t)}]
    <3>1. t \ {Pick(t)} \in SUBSET s /\ t \ {Pick(t)} # s
      BY <2>2, PickIn
    <3>2. f[t] = m[Pick(t)].base + BaseSum(m, t \ {Pick(t)})
      BY <2>2
    <3> HIDE DEF f
    <3>3. QED BY <2>1, <3>1, <3>2
  <2>3. f[{}] = 0
    OBVIOUS
  <2>4. f = [t \in SUBSET s |-> f[t]]
    OBVIOUS
  <2>5. Iterates(m, s, f)
    <3> HIDE DEF f
    <3>1. \A t \in SUBSET s :
             f[t] = IF t = {} THEN 0 ELSE m[Pick(t)].base + f[t \ {Pick(t)}]
      BY <2>2, <2>3
    <3>2. QED BY <2>4, <3>1 DEF Iterates, Pick
  <2>6. QED BY <2>5
<1>2. G = SUBSET S
  <2> HIDE DEF G
  <2>1. G \in SUBSET (SUBSET S)
    BY DEF G
  <2>2. QED BY <1>1, <2>1, SubsetInduction
<1>3. QED BY <1>2

(* No order, no money.                                                      *)
LEMMA SumEmpty == \A m : BaseSum(m, {}) = 0
  BY IterateExists, EmptyIfDefined, FS_EmptySet

(* The sum over a set that is not empty takes its first element.            *)
LEMMA SumUnfolds ==
    ASSUME NEW S, IsFiniteSet(S), S # {}, NEW m
    PROVE  Pick(S) \in S /\ BaseSum(m, S) = m[Pick(S)].base + BaseSum(m, S \ {Pick(S)})
<1>1. IsFiniteSet(S \ {Pick(S)})
  BY FS_RemoveElement
<1>2. (\E g : Iterates(m, S, g)) /\ (\E g : Iterates(m, S \ {Pick(S)}, g))
  BY <1>1, IterateExists
<1>3. QED BY <1>2, UnfoldsIfDefined, PickIn, Zenon

(* A sum of natural numbers is one.                                         *)
LEMMA SumNat ==
    ASSUME NEW S, IsFiniteSet(S), NEW m, \A x \in S : m[x].base \in Nat
    PROVE  BaseSum(m, S) \in Nat
<1> DEFINE G == {s \in SUBSET S : BaseSum(m, s) \in Nat}
<1>1. ASSUME NEW s \in SUBSET S, \A t \in SUBSET s : t # s => t \in G PROVE s \in G
  <2>1. CASE s = {}
    BY <2>1, SumEmpty
  <2>2. CASE s # {}
    <3>1. PICK x \in s : BaseSum(m, s) = m[x].base + BaseSum(m, s \ {x})
      BY <2>2, SumUnfolds, FS_Subset
    <3>2. s \ {x} \in G
      BY <1>1
    <3>3. BaseSum(m, s \ {x}) \in Nat /\ m[x].base \in Nat
      BY <3>2
    <3>4. QED BY <3>1, <3>3
  <2>3. QED BY <2>1, <2>2
<1>2. G = SUBSET S
  <2> HIDE DEF G
  <2>1. G \in SUBSET (SUBSET S)
    BY DEF G
  <2>2. QED BY <1>1, <2>1, SubsetInduction
<1>3. QED BY <1>2

(* Only the base prices of the orders in the set matter.                    *)
LEMMA SumSame ==
    ASSUME NEW S, IsFiniteSet(S), NEW m, NEW k, \A x \in S : m[x].base = k[x].base
    PROVE  BaseSum(m, S) = BaseSum(k, S)
<1> DEFINE G == {s \in SUBSET S : BaseSum(m, s) = BaseSum(k, s)}
<1>1. ASSUME NEW s \in SUBSET S, \A t \in SUBSET s : t # s => t \in G PROVE s \in G
  <2>1. CASE s = {}
    BY <2>1, SumEmpty
  <2>2. CASE s # {}
    <3>1. IsFiniteSet(s)
      BY FS_Subset
    <3>2. /\ Pick(s) \in s
          /\ BaseSum(m, s) = m[Pick(s)].base + BaseSum(m, s \ {Pick(s)})
          /\ BaseSum(k, s) = k[Pick(s)].base + BaseSum(k, s \ {Pick(s)})
      BY <2>2, <3>1, SumUnfolds
    <3>3. s \ {Pick(s)} \in G
      BY <1>1, <3>2
    <3>4. m[Pick(s)].base = k[Pick(s)].base
      BY <3>2
    <3>5. QED BY <3>2, <3>3, <3>4
  <2>3. QED BY <2>1, <2>2
<1>2. G = SUBSET S
  <2> HIDE DEF G
  <2>1. G \in SUBSET (SUBSET S)
    BY DEF G
  <2>2. QED BY <1>1, <2>1, SubsetInduction
<1>3. QED BY <1>2

(* The order of the summation does not matter: any element may be taken     *)
(* first.                                                                   *)
LEMMA SumRemove ==
    ASSUME NEW S, IsFiniteSet(S), NEW m, \A x \in S : m[x].base \in Nat, NEW z \in S
    PROVE  BaseSum(m, S) = m[z].base + BaseSum(m, S \ {z})
<1> DEFINE G == {s \in SUBSET S : \A x \in s : BaseSum(m, s) = m[x].base + BaseSum(m, s \ {x})}
<1>1. ASSUME NEW s \in SUBSET S, \A t \in SUBSET s : t # s => t \in G PROVE s \in G
  <2> SUFFICES ASSUME NEW x \in s PROVE BaseSum(m, s) = m[x].base + BaseSum(m, s \ {x})
    OBVIOUS
  <2>1. \A t \in SUBSET s : IsFiniteSet(t) /\ BaseSum(m, t) \in Nat
    BY SumNat, FS_Subset
  <2>2. PICK p \in s : BaseSum(m, s) = m[p].base + BaseSum(m, s \ {p})
    BY <2>1, SumUnfolds
  <2>3. CASE p = x
    BY <2>2, <2>3
  <2>4. CASE p # x
    <3>1. s \ {p} \in G /\ s \ {x} \in G
      BY <1>1
    <3>2. /\ BaseSum(m, s \ {p}) = m[x].base + BaseSum(m, (s \ {p}) \ {x})
          /\ BaseSum(m, s \ {x}) = m[p].base + BaseSum(m, (s \ {x}) \ {p})
      BY <2>4, <3>1
    <3>3. PICK q : q = BaseSum(m, (s \ {p}) \ {x})
      OBVIOUS
    <3>4. q \in Nat
      BY <2>1, <3>3
    <3>5. (s \ {x}) \ {p} = (s \ {p}) \ {x}
      OBVIOUS
    <3>6. BaseSum(m, s \ {p}) = m[x].base + q /\ BaseSum(m, s \ {x}) = m[p].base + q
      BY <3>2, <3>3, <3>5, Zenon
    <3>7. m[x].base \in Nat /\ m[p].base \in Nat
      OBVIOUS
    <3> HIDE DEF G
    <3>8. QED BY <2>2, <3>4, <3>6, <3>7
  <2>5. QED BY <2>3, <2>4
<1>2. G = SUBSET S
  <2> HIDE DEF G
  <2>1. G \in SUBSET (SUBSET S)
    BY DEF G
  <2>2. QED BY <1>1, <2>1, SubsetInduction
<1>3. QED BY <1>2
============================================================================
