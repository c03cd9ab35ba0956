------------------------------- MODULE Lemmas -------------------------------
(***************************************************************************)
(* Facts that the proofs of several components rest on: the least-number   *)
(* principle, induction over the subsets of a finite set (with the         *)
(* property as a set, since the provers cannot instantiate operators), and *)
(* the entries of a sorted list and the nearest of a set.                  *)
(***************************************************************************)
EXTENDS OrderStatistics, FiniteSetTheorems, WellFoundedInduction, TLAPS

\* A set of naturals that is not empty has a least element.
LEMMA LeastNat ==
  ASSUME NEW S \in SUBSET Nat, S # {}
  PROVE  \E t \in S : \A u \in S : t <= u
<1>1. PICK t \in S : \A u \in S : <<u, t>> \notin OpToRel(<, Nat)
  BY NatLessThanWellFounded, WFMin
<1>2. ASSUME NEW u \in S, u < t
      PROVE  <<u, t>> \in OpToRel(<, Nat)
  BY <1>2 DEF OpToRel
<1>3. ASSUME NEW u \in S
      PROVE  t <= u
  <2>1. ~(u < t)
    BY <1>1, <1>2
  <2> QED
    BY <2>1
<1> QED
  BY <1>3

\* A family of sets that holds every subset of D whose one-smaller subsets it
\* holds, holds all subsets of D.
LEMMA SubsetInduction ==
  ASSUME NEW D, IsFiniteSet(D), NEW G,
         \A s \in SUBSET D : (\A x \in s : s \ {x} \in G) => s \in G
  PROVE  SUBSET D \subseteq G
<1> DEFINE bad == {s \in SUBSET D : s \notin G}
           sizes == {Cardinality(s) : s \in bad}
<1> SUFFICES ASSUME bad # {} PROVE FALSE
  OBVIOUS
<1>1. \A s \in SUBSET D : IsFiniteSet(s) /\ Cardinality(s) \in Nat
  BY FS_Subset, FS_CardinalityType
<1>2. PICK k \in sizes : \A l \in sizes : k <= l
  <2>1. sizes \in SUBSET Nat /\ sizes # {}
    BY <1>1
  <2> HIDE DEF sizes
  <2> QED
    BY <2>1, LeastNat
<1>3. PICK s \in bad : k = Cardinality(s)
  BY <1>2
<1>4. ASSUME NEW x \in s
      PROVE  s \ {x} \in G
  <2>1. s \in SUBSET D /\ s \ {x} \in SUBSET D
    OBVIOUS
  <2>2. Cardinality(s \ {x}) = Cardinality(s) - 1
    BY <1>1, <2>1, FS_RemoveElement
  <2>3. Cardinality(s \ {x}) \notin sizes
    <3>1. ~(Cardinality(s) <= Cardinality(s \ {x}))
      BY <1>1, <2>1, <2>2
    <3> HIDE DEF sizes
    <3> QED
      BY <1>2, <1>3, <3>1
  <2> QED
    BY <2>1, <2>3
<1> QED
  BY <1>3, <1>4

\* A finite list has a largest entry: one with the fewest entries above it.
LEMMA LargestEntry ==
  ASSUME NEW S, IsFiniteSet(S), S # {}, NEW f, \A i \in S : f[i] \in Nat
  PROVE  \E m \in S : \A i \in S : f[i] <= f[m]
<1> DEFINE Above(i) == {j \in S : f[j] > f[i]}
           counts == {Cardinality(Above(i)) : i \in S}
<1>1. \A i \in S : IsFiniteSet(Above(i)) /\ Cardinality(Above(i)) \in Nat
  BY FS_Subset, FS_CardinalityType
<1>2. PICK c \in counts : \A d \in counts : c <= d
  <2>1. counts \in SUBSET Nat /\ counts # {}
    BY <1>1
  <2> QED
    BY <2>1, LeastNat
<1>3. PICK m \in S : c = Cardinality(Above(m))
  BY <1>2
<1>4. ASSUME NEW i \in S, f[i] > f[m]
      PROVE  FALSE
  <2>1. Above(i) \in SUBSET Above(m)
    BY <1>4
  <2>2. i \in Above(m) /\ i \notin Above(i)
    BY <1>4
  <2>3. Cardinality(Above(i)) # Cardinality(Above(m))
    BY <1>1, <2>1, <2>2, FS_Subset
  <2>4. Cardinality(Above(i)) <= Cardinality(Above(m))
    BY <1>1, <2>1, FS_Subset
  <2>5. Cardinality(Above(i)) \in counts
    OBVIOUS
  <2> HIDE DEF counts, Above
  <2> QED
    BY <1>1, <1>2, <1>3, <2>3, <2>4, <2>5
<1>5. ASSUME NEW i \in S
      PROVE  f[i] <= f[m]
  <2>1. ~(f[i] > f[m])
    BY <1>4
  <2> QED
    BY <2>1
<1> QED
  BY <1>5

\* An index within the list has an entry, which belongs to the list, has more
\* than k entries at or below it, and is the least such.
LEMMA SortedEntry ==
  ASSUME NEW S, IsFiniteSet(S), NEW f, \A i \in S : f[i] \in Nat,
         NEW k \in Nat, k < Cardinality(S)
  PROVE  /\ \E i \in S : f[i] = Sorted(S, f, k)
         /\ Cardinality(AtMost(S, f, Sorted(S, f, k))) > k
         /\ \A i \in S : Cardinality(AtMost(S, f, f[i])) > k => Sorted(S, f, k) <= f[i]
<1> DEFINE values == {f[i] : i \in S}
           reach == {v \in values : Cardinality(AtMost(S, f, v)) > k}
<1>1. S # {}
  BY FS_EmptySet
<1>2. PICK m \in S : \A i \in S : f[i] <= f[m]
  BY <1>1, LargestEntry
<1>3. AtMost(S, f, f[m]) = S
  BY <1>2 DEF AtMost
<1>4. f[m] \in reach
  <2>1. Cardinality(AtMost(S, f, f[m])) > k
    BY <1>3, FS_CardinalityType
  <2> QED
    BY <2>1
<1>5. reach \in SUBSET Nat
  OBVIOUS
<1>6. \E v \in reach : \A u \in reach : v <= u
  <2> HIDE DEF reach
  <2> QED
    BY <1>4, <1>5, LeastNat
<1>7. Sorted(S, f, k) = CHOOSE v \in reach : \A u \in reach : v <= u
  BY DEF Sorted
<1>8. Sorted(S, f, k) \in reach /\ \A u \in reach : Sorted(S, f, k) <= u
  <2> HIDE DEF reach
  <2> QED
    BY <1>6, <1>7
<1> QED
  BY <1>8

\* The sorted list of a set depends on the values of its members alone.
LEMMA SortedDepends ==
  ASSUME NEW S, NEW f, NEW g, \A i \in S : f[i] = g[i], NEW k
  PROVE  Sorted(S, f, k) = Sorted(S, g, k)
<1>1. {f[i] : i \in S} = {g[i] : i \in S} /\ \A v : AtMost(S, f, v) = AtMost(S, g, v)
  BY DEF AtMost
<1> QED
  BY <1>1 DEF Sorted

\* Sorting commutes with t |-> c * (t + 1).
LEMMA SortedScales ==
  ASSUME NEW S, IsFiniteSet(S), NEW f, \A i \in S : f[i] \in Nat,
         NEW c \in Nat, NEW g, \A i \in S : g[i] = c * (f[i] + 1),
         NEW k \in Nat, k < Cardinality(S)
  PROVE  Sorted(S, g, k) = c * (Sorted(S, f, k) + 1)
<1> DEFINE v == Sorted(S, f, k)
           w == Sorted(S, g, k)
<1>1. \A a, b \in Nat : /\ c * (a + 1) \in Nat
                        /\ a <= b => c * (a + 1) <= c * (b + 1)
                        /\ c * (a + 1) <= c * (b + 1) => a <= b \/ c = 0
  <2> TAKE a, b \in Nat
  <2>1. c * (a + 1) \in Nat
    OBVIOUS
  <2>2. ASSUME a <= b PROVE c * (a + 1) <= c * (b + 1)
    <3>1. PICK d \in Nat : b = a + d
      <4>1. b - a \in Nat /\ b = a + (b - a)
        BY <2>2
      <4> QED
        BY <4>1
    <3>2. c * (b + 1) = c * (a + 1) + c * d /\ c * d \in Nat
      BY <3>1
    <3> QED
      BY <2>1, <3>2
  <2>3. ASSUME c # 0, ~(a <= b) PROVE ~(c * (a + 1) <= c * (b + 1))
    <3>1. PICK d \in Nat : a = b + d + 1
      <4>1. a - b - 1 \in Nat /\ a = b + (a - b - 1) + 1
        BY <2>3
      <4> QED
        BY <4>1
    <3>2. c * (a + 1) = c * (b + 1) + c * d + c /\ c * d \in Nat /\ c * (b + 1) \in Nat
      BY <3>1
    <3> QED
      BY <2>3, <3>2
  <2> QED
    BY <2>1, <2>2, <2>3
<1>2. \A i \in S : g[i] \in Nat
  BY <1>1
<1>3. /\ \E i \in S : f[i] = v
      /\ Cardinality(AtMost(S, f, v)) > k
      /\ \A i \in S : Cardinality(AtMost(S, f, f[i])) > k => v <= f[i]
  BY SortedEntry
<1>4. /\ \E i \in S : g[i] = w
      /\ Cardinality(AtMost(S, g, w)) > k
      /\ \A i \in S : Cardinality(AtMost(S, g, g[i])) > k => w <= g[i]
  BY <1>2, SortedEntry
<1> HIDE DEF v, w
<1>5. PICK m \in S : f[m] = v
  BY <1>3
<1>6. PICK n \in S : g[n] = w
  BY <1>4
<1>7. \A T \in SUBSET S : IsFiniteSet(T) /\ Cardinality(T) \in Nat
  BY FS_Subset, FS_CardinalityType
<1>8. w <= g[m]
  <2>1. AtMost(S, f, v) \in SUBSET AtMost(S, g, g[m]) /\ AtMost(S, g, g[m]) \in SUBSET S
    BY <1>1, <1>5 DEF AtMost
  <2>2. Cardinality(AtMost(S, f, v)) <= Cardinality(AtMost(S, g, g[m]))
    BY <1>7, <2>1, FS_Subset
  <2>3. AtMost(S, f, v) \in SUBSET S
    BY <2>1
  <2> QED
    BY <1>3, <1>4, <1>7, <2>1, <2>2, <2>3
<1>9. g[m] <= w
  <2>1. CASE c = 0
    BY <1>2, <1>6, <2>1
  <2>2. CASE c # 0
    <3>1. AtMost(S, g, w) \in SUBSET AtMost(S, f, f[n]) /\ AtMost(S, f, f[n]) \in SUBSET S
      BY <1>1, <1>6, <2>2 DEF AtMost
    <3>2. Cardinality(AtMost(S, g, w)) <= Cardinality(AtMost(S, f, f[n]))
      BY <1>7, <3>1, FS_Subset
    <3>3. AtMost(S, g, w) \in SUBSET S
      BY <3>1
    <3>4. v <= f[n]
      BY <1>3, <1>4, <1>7, <3>1, <3>2, <3>3
    <3> QED
      BY <1>1, <1>5, <1>6, <3>4
  <2> QED
    BY <2>1, <2>2
<1>10. w = g[m]
  BY <1>2, <1>6, <1>8, <1>9
<1> QED
  BY <1>5, <1>10 DEF v, w

\* Of any number of members, some choice is the nearest by distance d.
LEMMA NearestExist ==
  ASSUME NEW C, IsFiniteSet(C), NEW d, \A i \in C : d[i] \in Nat,
         NEW k \in Nat, k <= Cardinality(C)
  PROVE  \E S \in SUBSET C : Cardinality(S) = k /\ \A i \in S, j \in C \ S : d[i] <= d[j]
<1> DEFINE Front(n, S) == Cardinality(S) = n /\ \A i \in S, j \in C \ S : d[i] <= d[j]
           bad == {n \in Nat : n <= Cardinality(C) /\ ~ \E S \in SUBSET C : Front(n, S)}
<1> SUFFICES ASSUME bad # {} PROVE FALSE
  OBVIOUS
<1>1. PICK n \in bad : \A l \in bad : n <= l
  <2>1. bad \in SUBSET Nat
    OBVIOUS
  <2> HIDE DEF bad
  <2> QED
    BY <2>1, LeastNat
<1>2. n # 0
  <2>1. Front(0, {})
    BY FS_EmptySet
  <2> QED
    BY <1>1, <2>1
<1>3. PICK S \in SUBSET C : Front(n - 1, S)
  <2>1. n - 1 \in Nat /\ n - 1 <= Cardinality(C) /\ ~(n <= n - 1)
    BY <1>1, <1>2, FS_CardinalityType
  <2> HIDE DEF Front
  <2> QED
    BY <1>1, <2>1
<1>4. IsFiniteSet(S) /\ C \ S # {}
  <2>1. IsFiniteSet(S)
    BY FS_Subset
  <2>2. S # C
    BY <1>1, <1>3, FS_CardinalityType
  <2> QED
    BY <2>1, <2>2
<1>5. PICK m \in C \ S : \A j \in C \ S : d[m] <= d[j]
  <2> DEFINE ds == {d[j] : j \in C \ S}
  <2>1. ds \in SUBSET Nat /\ ds # {}
    BY <1>4
  <2>2. \E t \in ds : \A u \in ds : t <= u
    <3> HIDE DEF ds
    <3> QED
      BY <2>1, LeastNat
  <2> QED
    BY <2>2
<1>6. Cardinality(S \cup {m}) = n
  BY <1>1, <1>3, <1>4, <1>5, FS_AddElement
<1>7. Front(n, S \cup {m})
  BY <1>3, <1>5, <1>6
<1> QED
  BY <1>1, <1>7
=============================================================================
