----------------------- MODULE PartitionTopologyProofs -----------------------
(***************************************************************************)
(* Proofs about NetworkTopology and PartitionTopology, for any graph,      *)
(* block sizes, pool and partitions.                                       *)
(*                                                                         *)
(* Once the reports are in, the graph does not change (Frozen) and has no  *)
(* cycle (Settled), so initTree, setBlockIDs and the output, which follow  *)
(* a queue, take up every vertex once.  What they wrote so far and what    *)
(* the queue still leads to make up the whole.                             *)
(***************************************************************************)
EXTENDS PartitionTopology, ThreeTierGraphProofs, FiniteSetTheorems, WellFoundedInduction

----------------------------------------------------------------------------
(* Sorting.                                                                 *)

NoRepeat(s) == \A j, k \in 1..Len(s) : s[j] = s[k] => j = k

\* A set of natural numbers has a least element.
LEMMA LeastNat ==
    ASSUME NEW S, S \subseteq Nat, S # {}
    PROVE  \E m \in S : \A n \in S : m <= n
<1>1. PICK m \in S : \A n \in S : ~(<<n, m>> \in OpToRel(<, Nat))
  BY NatLessThanWellFounded, WFMin, Zenon
<1>2. \A n \in S : ~(n < m)
  BY <1>1 DEF OpToRel
<1> QED  BY <1>2

\* The size of an interval.
LEMMA IntervalSize ==
    ASSUME NEW n \in Nat PROVE IsFiniteSet(1..n) /\ Cardinality(1..n) = n
BY FS_Interval

\* A function on a finite set has a greatest value.
LEMMA GreatestValue ==
    ASSUME NEW D, IsFiniteSet(D), D # {}, NEW f, \A x \in D : f[x] \in Nat
    PROVE  \E x \in D : \A y \in D : f[y] <= f[x]
<1> DEFINE Over(x) == {y \in D : f[x] < f[y]}
           N == {Cardinality(Over(x)) : x \in D}
<1>1. \A x \in D : IsFiniteSet(Over(x)) /\ Cardinality(Over(x)) \in Nat
  BY FS_Subset, FS_CardinalityType
<1>2. PICK x \in D : \A y \in D : Cardinality(Over(x)) <= Cardinality(Over(y))
  <2>1. N \subseteq Nat /\ N # {}
    BY <1>1
  <2>2. PICK m \in N : \A n \in N : m <= n
    BY <2>1, LeastNat
  <2> QED  BY <2>2
<1>3. ASSUME NEW y \in D, ~(f[y] <= f[x]) PROVE FALSE
  <2>1. f[x] < f[y]
    BY <1>3
  <2>2. Over(y) \subseteq Over(x) /\ y \in Over(x) /\ y \notin Over(y)
    BY <2>1
  <2>3. Cardinality(Over(y)) <= Cardinality(Over(x)) /\ Cardinality(Over(x)) # Cardinality(Over(y))
    BY <1>1, <2>2, FS_Subset
  <2>4. Cardinality(Over(x)) <= Cardinality(Over(y))
    BY <1>2
  <2> HIDE DEF Over
  <2> QED  BY <1>1, <2>3, <2>4
<1> QED  BY <1>3

\* The elements of D with smaller values than x, and those with no greater ones.
Smaller(D, f, x) == {y \in D : f[y] < f[x]}
NoGreater(D, f, x) == {y \in D : f[y] <= f[x]}

\* In a finite set they are finite.
LEMMA LevelsFinite ==
    ASSUME NEW D, IsFiniteSet(D), NEW f, NEW x
    PROVE  /\ IsFiniteSet(Smaller(D, f, x)) /\ Cardinality(Smaller(D, f, x)) \in Nat
           /\ IsFiniteSet(NoGreater(D, f, x)) /\ Cardinality(NoGreater(D, f, x)) \in Nat
           /\ Cardinality(NoGreater(D, f, x)) <= Cardinality(D)
           /\ Cardinality(D) \in Nat
<1>1. Smaller(D, f, x) \subseteq D /\ NoGreater(D, f, x) \subseteq D
  BY DEF Smaller, NoGreater
<1> QED  BY <1>1, FS_Subset, FS_CardinalityType

\* For every k there is a value that fewer than k are smaller than, and k or
\* more not greater than.
LEMMA LevelExists ==
    ASSUME NEW D, IsFiniteSet(D), NEW f, \A x \in D : f[x] \in Nat,
           NEW k \in Nat, 1 <= k, k <= Cardinality(D)
    PROVE  \E x \in D : /\ Cardinality(Smaller(D, f, x)) < k
                        /\ k <= Cardinality(NoGreater(D, f, x))
<1> DEFINE H == {x \in D : k <= Cardinality(NoGreater(D, f, x))}
<1>1. H # {}
  <2>1. D # {}
    BY FS_EmptySet
  <2>2. PICK x \in D : \A y \in D : f[y] <= f[x]
    BY <2>1, GreatestValue
  <2>3. NoGreater(D, f, x) = D
    BY <2>2 DEF NoGreater
  <2> QED  BY <2>3
<1>2. PICK x \in H : \A y \in H : f[x] <= f[y]
  <2>1. PICK m \in {f[x] : x \in H} : \A n \in {f[x] : x \in H} : m <= n
    <3>1. {f[x] : x \in H} \subseteq Nat /\ {f[x] : x \in H} # {}
      BY <1>1
    <3> QED  BY <3>1, LeastNat
  <2>2. PICK x \in H : m = f[x]
    BY <2>1
  <2>3. \A y \in H : f[y] \in {f[z] : z \in H}
    OBVIOUS
  <2>4. \A y \in H : m <= f[y]
    BY <2>1, <2>3
  <2> QED  BY <2>2, <2>4
<1>3. ASSUME ~(Cardinality(Smaller(D, f, x)) < k) PROVE FALSE
  <2>1. Smaller(D, f, x) # {} /\ Smaller(D, f, x) \subseteq D
    <3>1. Smaller(D, f, x) \subseteq D
      BY DEF Smaller
    <3> QED  BY <1>3, <3>1, FS_EmptySet
  <2>2. PICK z \in Smaller(D, f, x) : \A y \in Smaller(D, f, x) : f[y] <= f[z]
    BY <2>1, LevelsFinite, GreatestValue
  <2>3. z \in D /\ f[z] < f[x] /\ NoGreater(D, f, z) = Smaller(D, f, x)
    BY <2>2 DEF Smaller, NoGreater
  <2>4. z \in H
    BY <1>3, <2>3, LevelsFinite
  <2> QED  BY <1>2, <2>3, <2>4
<1> QED  BY <1>3

\* Smaller values end before greater ones begin, and a value that x alone has
\* takes one place.
LEMMA LevelsApart ==
    ASSUME NEW D, IsFiniteSet(D), NEW f, \A x \in D : f[x] \in Nat, NEW x \in D
    PROVE  /\ \A y \in D : f[x] < f[y] =>
                  Cardinality(NoGreater(D, f, x)) <= Cardinality(Smaller(D, f, y))
           /\ Cardinality(Smaller(D, f, x)) < Cardinality(NoGreater(D, f, x))
           /\ (\A y \in D : f[y] = f[x] => y = x) =>
                  Cardinality(NoGreater(D, f, x)) = Cardinality(Smaller(D, f, x)) + 1
<1>1. ASSUME NEW y \in D, f[x] < f[y]
      PROVE  Cardinality(NoGreater(D, f, x)) <= Cardinality(Smaller(D, f, y))
  <2>1. NoGreater(D, f, x) \subseteq Smaller(D, f, y)
    BY <1>1 DEF Smaller, NoGreater
  <2> QED  BY <2>1, LevelsFinite, FS_Subset
<1>2. Cardinality(Smaller(D, f, x)) < Cardinality(NoGreater(D, f, x))
  <2>1. /\ Smaller(D, f, x) \subseteq NoGreater(D, f, x)
        /\ x \in NoGreater(D, f, x) /\ x \notin Smaller(D, f, x)
    BY DEF Smaller, NoGreater
  <2>2. /\ Cardinality(Smaller(D, f, x)) <= Cardinality(NoGreater(D, f, x))
        /\ Cardinality(Smaller(D, f, x)) # Cardinality(NoGreater(D, f, x))
    BY <2>1, LevelsFinite, FS_Subset
  <2> QED  BY <2>2, LevelsFinite
<1>3. ASSUME \A y \in D : f[y] = f[x] => y = x
      PROVE  Cardinality(NoGreater(D, f, x)) = Cardinality(Smaller(D, f, x)) + 1
  <2>1. NoGreater(D, f, x) = Smaller(D, f, x) \cup {x} /\ x \notin Smaller(D, f, x)
    BY <1>3 DEF Smaller, NoGreater
  <2> QED  BY <2>1, LevelsFinite, FS_AddElement
<1> QED  BY <1>1, <1>2, <1>3

\* Sorting keeps the elements, and repeats none that was not repeated.
LEMMA SortedFacts ==
    ASSUME NEW V, NEW s \in Seq(V), NEW key, \A x \in V : key[x] \in Nat,
           \A x, y \in V : key[x] = key[y] => x = y
    PROVE  /\ Sorted(s, key) \in Seq(V) /\ Len(Sorted(s, key)) = Len(s)
           /\ ToSet(Sorted(s, key)) = ToSet(s)
           /\ NoRepeat(s) => NoRepeat(Sorted(s, key))
<1> DEFINE D == DOMAIN s
           t == Sorted(s, key)
           f == [j \in D |-> key[s[j]]]
           Fits(k, x) == /\ Cardinality({j \in D : key[s[j]] < key[x]}) < k
                         /\ k <= Cardinality({j \in D : key[s[j]] <= key[x]})
<1>1. D = 1..Len(s) /\ Len(s) \in Nat /\ \A j \in D : s[j] \in V /\ s[j] \in ToSet(s)
  BY DEF ToSet
<1>2. IsFiniteSet(D) /\ Cardinality(D) = Len(s)
  <2>1. IsFiniteSet(1..Len(s)) /\ Cardinality(1..Len(s)) = Len(s)
    BY <1>1, IntervalSize
  <2> QED  BY <1>1, <2>1
<1>3. \A j \in D : f[j] \in Nat /\ f[j] = key[s[j]]
  BY <1>1
<1>4. \A k \in D : \A j \in D :
          Fits(k, s[j]) <=> /\ Cardinality(Smaller(D, f, j)) < k
                            /\ k <= Cardinality(NoGreater(D, f, j))
  <2>1. ASSUME NEW j \in D
        PROVE  /\ {i \in D : key[s[i]] < key[s[j]]} = Smaller(D, f, j)
               /\ {i \in D : key[s[i]] <= key[s[j]]} = NoGreater(D, f, j)
    BY <1>3 DEF Smaller, NoGreater
  <2> QED  BY <2>1
<1> HIDE DEF f
<1>5. ASSUME NEW k \in D PROVE \E x \in ToSet(s) : Fits(k, x)
  <2>1. PICK j \in D : /\ Cardinality(Smaller(D, f, j)) < k
                       /\ k <= Cardinality(NoGreater(D, f, j))
    <3>1. k \in Nat /\ 1 <= k /\ k <= Cardinality(D)
      BY <1>1, <1>2
    <3> HIDE DEF D
    <3> QED  BY <1>2, <1>3, <3>1, LevelExists
  <2> QED  BY <1>1, <1>4, <2>1
<1> DEFINE nth(k) == CHOOSE x \in ToSet(s) : Fits(k, x)
<1>0. t = [k \in D |-> nth(k)]
  BY Zenon DEF Sorted
<1>6. \A k \in D : t[k] \in ToSet(s) /\ Fits(k, t[k])
  <2> SUFFICES ASSUME NEW k \in D PROVE nth(k) \in ToSet(s) /\ Fits(k, nth(k))
    <3> HIDE DEF nth, t, Fits
    <3> QED  BY <1>0
  <2> HIDE DEF Fits
  <2> QED  BY <1>5
<1> HIDE DEF nth
<1>7. t \in Seq(V) /\ DOMAIN t = D /\ Len(t) = Len(s)
  <2>1. t = [k \in D |-> t[k]]
    <3> HIDE DEF t
    <3> QED  BY <1>0
  <2>2. \A k \in D : t[k] \in V
    BY <1>1, <1>6 DEF ToSet
  <2> HIDE DEF t
  <2> QED  BY <1>1, <2>1, <2>2
<1> HIDE DEF Fits
<1>8. ASSUME NEW i \in D, NEW j \in D, NEW k \in D, Fits(k, s[i]), Fits(k, s[j])
      PROVE  s[i] = s[j]
  <2>1. /\ Cardinality(Smaller(D, f, i)) < k /\ k <= Cardinality(NoGreater(D, f, i))
        /\ Cardinality(Smaller(D, f, j)) < k /\ k <= Cardinality(NoGreater(D, f, j))
    BY <1>4, <1>8
  <2>2. /\ f[i] < f[j] => Cardinality(NoGreater(D, f, i)) <= Cardinality(Smaller(D, f, j))
        /\ f[j] < f[i] => Cardinality(NoGreater(D, f, j)) <= Cardinality(Smaller(D, f, i))
    BY <1>2, <1>3, LevelsApart
  <2>3. ~(f[i] < f[j]) /\ ~(f[j] < f[i])
    BY <1>1, <1>2, <2>1, <2>2, LevelsFinite
  <2> QED  BY <1>1, <1>3, <2>3
<1>9. ASSUME NEW j \in D PROVE \E k \in D : t[k] = s[j]
  <2> DEFINE k == Cardinality(Smaller(D, f, j)) + 1
  <2>1. k \in D /\ Fits(k, s[j])
    <3>1. /\ Cardinality(Smaller(D, f, j)) < Cardinality(NoGreater(D, f, j))
          /\ Cardinality(Smaller(D, f, j)) \in Nat
          /\ Cardinality(NoGreater(D, f, j)) \in Nat
          /\ Cardinality(NoGreater(D, f, j)) <= Len(s)
      <4> HIDE DEF D
      <4> QED  BY <1>2, <1>3, LevelsApart, LevelsFinite
    <3>2. /\ k \in D /\ Cardinality(Smaller(D, f, j)) < k
          /\ k <= Cardinality(NoGreater(D, f, j))
      BY <1>1, <3>1
    <3> HIDE DEF k
    <3> QED  BY <1>4, <3>2
  <2> HIDE DEF k, t
  <2>2. PICK i \in D : t[k] = s[i]
    BY <1>6, <2>1 DEF ToSet
  <2> QED  BY <1>6, <1>8, <2>1, <2>2
<1>10. ToSet(t) = ToSet(s)
  <2> HIDE DEF t
  <2> QED  BY <1>6, <1>7, <1>9 DEF ToSet
<1>11. ASSUME \A j, k \in D : s[j] = s[k] => j = k, NEW j \in D, NEW k \in D, t[j] = t[k]
       PROVE  j = k
  <2> HIDE DEF t
  <2>1. PICK i \in D : t[j] = s[i]
    BY <1>6 DEF ToSet
  <2>2. Fits(j, s[i]) /\ Fits(k, s[i])
    BY <1>6, <1>11, <2>1
  <2>3. /\ Cardinality(Smaller(D, f, i)) < j /\ j <= Cardinality(NoGreater(D, f, i))
        /\ Cardinality(Smaller(D, f, i)) < k /\ k <= Cardinality(NoGreater(D, f, i))
    BY <1>4, <2>2
  <2>4. \A m \in D : f[m] = f[i] => m = i
    BY <1>1, <1>3, <1>11
  <2>5. Cardinality(NoGreater(D, f, i)) = Cardinality(Smaller(D, f, i)) + 1
    BY <1>2, <1>3, <2>4, LevelsApart
  <2> QED  BY <1>1, <1>2, <2>3, <2>5, LevelsFinite
<1> QED  BY <1>1, <1>7, <1>10, <1>11 DEF NoRepeat

\* The keys of a map, sorted.
LEMMA SortedSetFacts ==
    ASSUME NEW S, IsFiniteSet(S), NEW key, \A x \in S : key[x] \in Nat,
           \A x, y \in S : key[x] = key[y] => x = y
    PROVE  /\ SortedSet(S, key) \in Seq(S) /\ Len(SortedSet(S, key)) = Cardinality(S)
           /\ Cardinality(S) \in Nat
           /\ ToSet(SortedSet(S, key)) = S
           /\ \A j, k \in 1..Cardinality(S) :
                  j < k => key[SortedSet(S, key)[j]] < key[SortedSet(S, key)[k]]
<1> DEFINE t == SortedSet(S, key)
           Fits(k, x) == Cardinality({y \in S : key[y] < key[x]}) = k - 1
           nth(k) == CHOOSE x \in S : Fits(k, x)
           D == 1..Cardinality(S)
<1>1. t = [k \in D |-> nth(k)]
  BY Zenon DEF SortedSet
<1>2. \A k \in D : \A x \in S : Fits(k, x) <=> Cardinality(Smaller(S, key, x)) = k - 1
  BY DEF Smaller
<1>3. Cardinality(S) \in Nat
  BY FS_CardinalityType
<1> HIDE DEF Fits
<1>4. ASSUME NEW x \in S
      PROVE  /\ Cardinality(NoGreater(S, key, x)) = Cardinality(Smaller(S, key, x)) + 1
             /\ Cardinality(Smaller(S, key, x)) \in Nat
             /\ Cardinality(Smaller(S, key, x)) + 1 <= Cardinality(S)
             /\ \A y \in S : key[x] < key[y] =>
                    Cardinality(Smaller(S, key, x)) + 1 <= Cardinality(Smaller(S, key, y))
  BY LevelsApart, LevelsFinite
<1>5. ASSUME NEW k \in D PROVE nth(k) \in S /\ Fits(k, nth(k))
  <2>1. k \in Nat /\ 1 <= k /\ k <= Cardinality(S)
    BY <1>3
  <2>2. PICK x \in S : /\ Cardinality(Smaller(S, key, x)) < k
                       /\ k <= Cardinality(NoGreater(S, key, x))
    BY <2>1, LevelExists
  <2>3. Cardinality(Smaller(S, key, x)) = k - 1
    BY <1>4, <2>1, <2>2
  <2>4. Fits(k, x)
    BY <1>2, <2>3
  <2> QED  BY <2>4
<1> HIDE DEF nth, t
<1>6. DOMAIN t = D /\ \A k \in D : t[k] \in S /\ Cardinality(Smaller(S, key, t[k])) = k - 1
  BY <1>1, <1>2, <1>5
<1>7. t \in Seq(S) /\ Len(t) = Cardinality(S)
  BY <1>1, <1>3, <1>5
<1>8. ASSUME NEW j \in D, NEW k \in D, j < k PROVE key[t[j]] < key[t[k]]
  <2>1. /\ t[j] \in S /\ t[k] \in S /\ key[t[j]] \in Nat /\ key[t[k]] \in Nat
        /\ Cardinality(Smaller(S, key, t[j])) = j - 1
        /\ Cardinality(Smaller(S, key, t[k])) = k - 1
    BY <1>6
  <2>2. t[j] # t[k]
    BY <1>8, <2>1
  <2>3. ~(key[t[k]] < key[t[j]])
    BY <1>3, <1>4, <1>8, <2>1
  <2> QED  BY <2>1, <2>2, <2>3
<1>9. ASSUME NEW x \in S PROVE \E k \in D : t[k] = x
  <2> DEFINE k == Cardinality(Smaller(S, key, x)) + 1
  <2>1. k \in D
    BY <1>3, <1>4
  <2>2. t[k] \in S /\ Cardinality(Smaller(S, key, t[k])) = Cardinality(Smaller(S, key, x))
    BY <1>4, <1>6, <2>1
  <2>3. ~(key[t[k]] < key[x]) /\ ~(key[x] < key[t[k]])
    <3> HIDE DEF k
    <3> QED  BY <1>4, <2>2
  <2>4. t[k] = x
    <3> HIDE DEF k
    <3> QED  BY <2>2, <2>3
  <2> QED  BY <2>1, <2>4
<1>10. ToSet(t) = S
  BY <1>6, <1>9 DEF ToSet
<1> QED  BY <1>3, <1>7, <1>8, <1>10 DEF t

\* An order in which a map is ranged over has all its keys once.
LEMMA SetToSeqsFacts ==
    ASSUME NEW S, IsFiniteSet(S), NEW s \in SetToSeqs(S)
    PROVE  /\ s \in Seq(S) /\ ToSet(s) = S
           /\ NoRepeat(s)
           /\ s = <<>> <=> S = {}
<1>1. Cardinality(S) \in Nat
  BY FS_CardinalityType
<1>2. /\ s \in [1..Cardinality(S) -> S]
      /\ \A i, j \in 1..Cardinality(S) : i # j => s[i] # s[j]
  BY DEF SetToSeqs
<1>3. s \in Seq(S) /\ Len(s) = Cardinality(S)
  BY <1>1, <1>2
<1>4. s \in Injection(1..Cardinality(S), S)
  BY <1>2 DEF Injection, IsInjective
<1>5. s \in Surjection(1..Cardinality(S), S)
  BY <1>1, <1>4, IntervalSize, FS_Injection
<1>6. ToSet(s) = S
  BY <1>2, <1>5 DEF ToSet, Surjection
<1> QED  BY <1>1, <1>2, <1>3, <1>6, FS_EmptySet DEF NoRepeat, ToSet

\* The pruned list of children: those that are kept, in their order.
LEMMA SubTreeFacts ==
    ASSUME NEW V, NEW v, tree[v] \in Seq(V), NEW required
    PROVE  /\ buildSubTree(required, v) \in Seq(V)
           /\ ToSet(buildSubTree(required, v)) =
                  IF v \in required THEN ToSet(tree[v]) \cap required ELSE {}
           /\ NoRepeat(tree[v]) => NoRepeat(buildSubTree(required, v))
<1> DEFINE D == DOMAIN tree[v]
           kept == {k \in D : v \in required /\ tree[v][k] \in required}
           key == [k \in D |-> k]
           pos == SortedSet(kept, key)
           b == buildSubTree(required, v)
<1>1. b = [n \in DOMAIN pos |-> tree[v][pos[n]]]
  BY DEF buildSubTree
<1>2. D = 1..Len(tree[v]) /\ Len(tree[v]) \in Nat /\ \A k \in D : tree[v][k] \in V
  OBVIOUS
<1>3. IsFiniteSet(kept) /\ kept \subseteq D /\ (\A k \in kept : key[k] = k /\ k \in Nat)
  <2>1. IsFiniteSet(D)
    BY <1>2, IntervalSize
  <2>2. kept \subseteq D
    OBVIOUS
  <2> QED  BY <1>2, <2>1, <2>2, FS_Subset
<1>4. /\ pos \in Seq(kept) /\ Len(pos) = Cardinality(kept) /\ Len(pos) \in Nat
      /\ ToSet(pos) = kept
      /\ \A j, k \in 1..Len(pos) : j < k => key[pos[j]] < key[pos[k]]
  <2> HIDE DEF kept, key
  <2> QED  BY <1>3, SortedSetFacts
<1>5. /\ \A n \in 1..Len(pos) : pos[n] \in kept /\ key[pos[n]] = pos[n]
      /\ \A k \in kept : \E n \in 1..Len(pos) : pos[n] = k
  <2> HIDE DEF kept, key, pos
  <2> QED  BY <1>3, <1>4 DEF ToSet
<1>6. b \in Seq(V) /\ Len(b) = Len(pos) /\ \A n \in 1..Len(pos) : b[n] = tree[v][pos[n]]
  <2>1. \A n \in 1..Len(pos) : tree[v][pos[n]] \in V
    BY <1>2, <1>3, <1>5
  <2> HIDE DEF pos, b, kept
  <2>2. DOMAIN pos = 1..Len(pos)
    BY <1>4
  <2>3. b = [n \in 1..Len(pos) |-> tree[v][pos[n]]]
    BY <1>1, <2>2
  <2> QED  BY <1>4, <2>1, <2>3
<1> HIDE DEF pos, b
<1>7. ToSet(b) = IF v \in required THEN ToSet(tree[v]) \cap required ELSE {}
  <2>1. ToSet(b) = {tree[v][pos[n]] : n \in 1..Len(pos)}
    <3>1. ToSet(b) = {b[n] : n \in 1..Len(pos)}
      BY <1>6 DEF ToSet
    <3> QED  BY <1>6, <3>1
  <2>2. ToSet(b) = {tree[v][k] : k \in kept}
    <3> HIDE DEF kept
    <3>1. ASSUME NEW x \in ToSet(b) PROVE x \in {tree[v][k] : k \in kept}
      BY <1>5, <2>1
    <3>2. ASSUME NEW k \in kept PROVE tree[v][k] \in ToSet(b)
      BY <1>5, <2>1
    <3> QED  BY <3>1, <3>2
  <2> QED  BY <2>2 DEF ToSet
<1>8. ASSUME \A j, k \in 1..Len(tree[v]) : tree[v][j] = tree[v][k] => j = k,
             NEW j \in 1..Len(b), NEW k \in 1..Len(b), b[j] = b[k]
      PROVE  j = k
  <2>0. j \in 1..Len(pos) /\ k \in 1..Len(pos)
    BY <1>6
  <2>1. pos[j] = pos[k]
    <3>1. pos[j] \in D /\ pos[k] \in D /\ tree[v][pos[j]] = tree[v][pos[k]]
      BY <1>3, <1>5, <1>6, <1>8, <2>0
    <3> QED  BY <1>2, <1>8, <3>1
  <2>2. /\ j < k => pos[j] < pos[k]
        /\ k < j => pos[k] < pos[j]
        /\ pos[j] \in Nat
    BY <1>3, <1>4, <1>5, <2>0
  <2> QED  BY <1>4, <2>0, <2>1, <2>2
<1> QED  BY <1>6, <1>7, <1>8 DEF b, NoRepeat

----------------------------------------------------------------------------
(* Queues.                                                                  *)

\* The elements of a sequence.
LEMMA ElementsOf ==
    ASSUME NEW V, NEW s \in Seq(V)
    PROVE  /\ ToSet(s) = {s[k] : k \in 1..Len(s)} /\ ToSet(s) \subseteq V
           /\ s = <<>> <=> ToSet(s) = {}
<1>1. DOMAIN s = 1..Len(s) /\ Len(s) \in Nat /\ \A k \in 1..Len(s) : s[k] \in V
  OBVIOUS
<1>2. ToSet(s) = {s[k] : k \in 1..Len(s)}
  BY <1>1 DEF ToSet
<1>3. s # <<>> => 1 \in 1..Len(s)
  OBVIOUS
<1> QED  BY <1>1, <1>2, <1>3

\* A queue without its first element.
LEMMA TailFacts ==
    ASSUME NEW V, NEW s \in Seq(V), s # <<>>
    PROVE  /\ Head(s) \in V /\ Head(s) = s[1] /\ Tail(s) \in Seq(V)
           /\ Len(s) \in Nat /\ Len(s) >= 1 /\ Len(Tail(s)) = Len(s) - 1
           /\ \A k \in 1..Len(Tail(s)) : Tail(s)[k] = s[k + 1]
           /\ ToSet(s) = {Head(s)} \cup ToSet(Tail(s))
           /\ NoRepeat(s) => NoRepeat(Tail(s)) /\ Head(s) \notin ToSet(Tail(s))
<1>1. /\ Head(s) \in V /\ Head(s) = s[1] /\ Tail(s) \in Seq(V)
      /\ Len(s) \in Nat /\ Len(s) >= 1 /\ Len(Tail(s)) = Len(s) - 1
      /\ \A k \in 1..Len(Tail(s)) : Tail(s)[k] = s[k + 1]
  OBVIOUS
<1>2. /\ ToSet(s) = {s[k] : k \in 1..Len(s)}
      /\ ToSet(Tail(s)) = {Tail(s)[k] : k \in 1..Len(Tail(s))}
  BY <1>1, ElementsOf
<1>3. ToSet(s) = {Head(s)} \cup ToSet(Tail(s))
  <2>1. ASSUME NEW x \in ToSet(s) PROVE x = Head(s) \/ x \in ToSet(Tail(s))
    <3>1. PICK k \in 1..Len(s) : x = s[k]
      BY <1>2
    <3>2. CASE k # 1
      <4>1. k - 1 \in 1..Len(Tail(s)) /\ Tail(s)[k - 1] = s[k]
        BY <1>1, <3>2
      <4> QED  BY <1>2, <3>1, <4>1
    <3> QED  BY <1>1, <3>1, <3>2
  <2>2. ASSUME NEW x \in ToSet(Tail(s)) PROVE x \in ToSet(s)
    <3>1. PICK k \in 1..Len(Tail(s)) : x = Tail(s)[k]
      BY <1>2
    <3>2. k + 1 \in 1..Len(s) /\ x = s[k + 1]
      BY <1>1, <3>1
    <3> QED  BY <1>2, <3>2
  <2>3. Head(s) \in ToSet(s)
    BY <1>1, <1>2
  <2> QED  BY <2>1, <2>2, <2>3
<1>4. ASSUME NoRepeat(s) PROVE NoRepeat(Tail(s)) /\ Head(s) \notin ToSet(Tail(s))
  <2>1. \A k \in 1..Len(Tail(s)) : k + 1 \in 1..Len(s) /\ Tail(s)[k] = s[k + 1]
    BY <1>1
  <2>2. NoRepeat(Tail(s))
    BY <1>1, <1>4, <2>1 DEF NoRepeat
  <2>3. ASSUME Head(s) \in ToSet(Tail(s)) PROVE FALSE
    <3>1. PICK k \in 1..Len(Tail(s)) : Tail(s)[k] = s[1]
      BY <1>1, <1>2, <2>3
    <3>2. k + 1 \in 1..Len(s) /\ s[k + 1] = s[1] /\ 1 \in 1..Len(s) /\ k + 1 # 1
      BY <1>1, <2>1, <3>1
    <3> QED  BY <1>4, <3>2 DEF NoRepeat
  <2> QED  BY <2>2, <2>3
<1> QED  BY <1>1, <1>3, <1>4

\* Two sequences, one after the other.
LEMMA ConcatFacts ==
    ASSUME NEW V, NEW s \in Seq(V), NEW t \in Seq(V)
    PROVE  /\ s \o t \in Seq(V) /\ Len(s \o t) = Len(s) + Len(t)
           /\ Len(s) \in Nat /\ Len(t) \in Nat
           /\ \A k \in 1..Len(s) : (s \o t)[k] = s[k]
           /\ \A k \in 1..Len(t) : (s \o t)[Len(s) + k] = t[k]
           /\ ToSet(s \o t) = ToSet(s) \cup ToSet(t)
           /\ NoRepeat(s) /\ NoRepeat(t) /\ ToSet(s) \cap ToSet(t) = {} => NoRepeat(s \o t)
<1> DEFINE u == s \o t
<1>1. /\ u \in Seq(V) /\ Len(u) = Len(s) + Len(t) /\ Len(s) \in Nat /\ Len(t) \in Nat
      /\ \A k \in 1..Len(s) : u[k] = s[k]
      /\ \A k \in 1..Len(t) : u[Len(s) + k] = t[k]
  OBVIOUS
<1> HIDE DEF u
<1>2. /\ ToSet(s) = {s[k] : k \in 1..Len(s)} /\ ToSet(t) = {t[k] : k \in 1..Len(t)}
      /\ ToSet(u) = {u[k] : k \in 1..Len(u)}
  BY <1>1 DEF ToSet
<1>3. \A k \in 1..Len(u) : k \in 1..Len(s) \/ (k - Len(s) \in 1..Len(t) /\ u[k] = t[k - Len(s)])
  <2> SUFFICES ASSUME NEW k \in 1..Len(u), k \notin 1..Len(s)
               PROVE  k - Len(s) \in 1..Len(t) /\ u[k] = t[k - Len(s)]
    OBVIOUS
  <2>1. k - Len(s) \in 1..Len(t) /\ Len(s) + (k - Len(s)) = k
    BY <1>1
  <2> QED  BY <1>1, <2>1
<1>4. ToSet(u) = ToSet(s) \cup ToSet(t)
  <2>1. ASSUME NEW x \in ToSet(u) PROVE x \in ToSet(s) \cup ToSet(t)
    <3>1. PICK k \in 1..Len(u) : x = u[k]
      BY <1>2
    <3> QED  BY <1>1, <1>2, <1>3, <3>1
  <2>2. ASSUME NEW x \in ToSet(s) PROVE x \in ToSet(u)
    <3>1. PICK k \in 1..Len(s) : x = s[k]
      BY <1>2
    <3>2. k \in 1..Len(u) /\ u[k] = x
      BY <1>1, <3>1
    <3> QED  BY <1>2, <3>2
  <2>3. ASSUME NEW x \in ToSet(t) PROVE x \in ToSet(u)
    <3>1. PICK k \in 1..Len(t) : x = t[k]
      BY <1>2
    <3>2. Len(s) + k \in 1..Len(u) /\ u[Len(s) + k] = x
      BY <1>1, <3>1
    <3> QED  BY <1>2, <3>2
  <2> QED  BY <2>1, <2>2, <2>3
<1>5. ASSUME NoRepeat(s), NoRepeat(t), ToSet(s) \cap ToSet(t) = {},
             NEW j \in 1..Len(u), NEW k \in 1..Len(u), u[j] = u[k]
      PROVE  j = k
  <2>1. \A m \in 1..Len(s) : u[m] = s[m] /\ u[m] \in ToSet(s)
    BY <1>1, <1>2
  <2>2. \A m \in 1..Len(u) : m \notin 1..Len(s) => u[m] \in ToSet(t)
    BY <1>2, <1>3
  <2>3. j \in 1..Len(s) <=> k \in 1..Len(s)
    BY <1>5, <2>1, <2>2
  <2>4. CASE j \in 1..Len(s)
    BY <1>5, <2>1, <2>3, <2>4 DEF NoRepeat
  <2>5. CASE j \notin 1..Len(s)
    <3>1. /\ j - Len(s) \in 1..Len(t) /\ k - Len(s) \in 1..Len(t)
          /\ t[j - Len(s)] = t[k - Len(s)]
      BY <1>3, <1>5, <2>3, <2>5
    <3>2. j - Len(s) = k - Len(s)
      BY <1>5, <3>1 DEF NoRepeat
    <3> QED  BY <1>1, <3>2
  <2> QED  BY <2>4, <2>5
<1> QED  BY <1>1, <1>4, <1>5 DEF u, NoRepeat

\* The first element leaves a queue, others join it.
LEMMA QueueFacts ==
    ASSUME NEW V, NEW w \in Seq(V), w # <<>>, NEW s \in Seq(V)
    PROVE  /\ Tail(w) \o s \in Seq(V)
           /\ ToSet(Tail(w) \o s) = ToSet(Tail(w)) \cup ToSet(s)
           /\ NoRepeat(w) /\ NoRepeat(s) /\ ToSet(Tail(w)) \cap ToSet(s) = {} =>
                  NoRepeat(Tail(w) \o s)
<1> DEFINE r == Tail(w)
<1>1. r \in Seq(V) /\ (NoRepeat(w) => NoRepeat(r))
  BY TailFacts
<1> HIDE DEF r
<1>2. /\ r \o s \in Seq(V)
      /\ ToSet(r \o s) = ToSet(r) \cup ToSet(s)
      /\ NoRepeat(r) /\ NoRepeat(s) /\ ToSet(r) \cap ToSet(s) = {} => NoRepeat(r \o s)
  BY <1>1, ConcatFacts
<1> QED  BY <1>1, <1>2 DEF r

----------------------------------------------------------------------------
(* Walks.  K gives the children of a vertex, w is what waits to be visited, *)
(* P has the vertices visited so far, those without children aside.         *)

KidsOf == [v \in All |-> Kids(v)]

IsGraph(K) == K \in [All -> SUBSET Vertices]

OneParent(K) == \A u, v \in All : K[u] \cap K[v] # {} => u = v

\* There is a path of at most four steps from v to x.
Leads(K, v, x) ==
    \/ v = x \/ x \in K[v]
    \/ \E a \in K[v] : \/ x \in K[a]
                       \/ \E b \in K[a] : x \in K[b] \/ \E c \in K[b] : x \in K[c]

\* The walk began with the root and forgets nothing.
Covers(K, w, P) ==
    /\ TreeRoot \in ToSet(w) \cup P \/ K[TreeRoot] = {}
    /\ \A p \in P : \A c \in K[p] : c \in ToSet(w) \cup P \/ K[c] = {}

\* It comes to every vertex once, from its parent.
Once(K, w, P) ==
    /\ NoRepeat(w)
    /\ ToSet(w) \cap P = {}
    /\ \A v \in ToSet(w) \cup P : v = TreeRoot \/ \E p \in P : v \in K[p]

\* P is Q and the vertex v, which must be there if it has children.
Visit(K, v, P, Q) == P \subseteq Q /\ Q \subseteq P \cup {v} /\ (K[v] # {} => v \in Q)

\* A visit of the first vertex of a queue.
LEMMA VisitCovers ==
    ASSUME NEW K, NEW w \in Seq(All), w # <<>>, NEW s \in Seq(All), ToSet(s) = K[Head(w)],
           NEW P, NEW Q, Visit(K, Head(w), P, Q), Covers(K, w, P)
    PROVE  Covers(K, Tail(w) \o s, Q)
<1> DEFINE u == Tail(w) \o s
           h == Head(w)
<1>1. ToSet(w) = {h} \cup ToSet(Tail(w)) /\ Tail(w) \in Seq(All)
  BY TailFacts
<1>2. ToSet(u) = ToSet(Tail(w)) \cup K[h]
  BY QueueFacts
<1> HIDE DEF u, h
<1>3. P \subseteq Q /\ Q \subseteq P \cup {h} /\ (K[h] # {} => h \in Q)
  BY DEF Visit, h
<1> QED  BY <1>1, <1>2, <1>3 DEF Covers, u

LEMMA VisitOnce ==
    ASSUME NEW K, IsGraph(K), OneParent(K),
           NEW w \in Seq(All), w # <<>>, NEW s \in Seq(All), ToSet(s) = K[Head(w)], NoRepeat(s),
           NEW P, P \subseteq All, NEW Q, Visit(K, Head(w), P, Q), Once(K, w, P)
    PROVE  Once(K, Tail(w) \o s, Q)
<1> DEFINE u == Tail(w) \o s
           h == Head(w)
<1>1. /\ ToSet(w) = {h} \cup ToSet(Tail(w)) /\ Tail(w) \in Seq(All) /\ h \in All
      /\ NoRepeat(Tail(w)) /\ h \notin ToSet(Tail(w)) /\ ToSet(w) \subseteq All
  BY TailFacts, ElementsOf DEF Once
<1>2. /\ ToSet(u) = ToSet(Tail(w)) \cup K[h]
      /\ ToSet(Tail(w)) \cap K[h] = {} => NoRepeat(u)
  BY QueueFacts DEF Once
<1> HIDE DEF u, h
<1>3. P \subseteq Q /\ Q \subseteq P \cup {h} /\ (K[h] # {} => h \in Q) /\ h \notin P
  BY <1>1 DEF Visit, h, Once
<1>4. K[h] \subseteq Vertices /\ TreeRoot \notin Vertices
  BY <1>1, GraphAssumption DEF IsGraph
<1>5. ASSUME NEW c \in K[h] PROVE c \notin ToSet(w) \cup P
  <2>1. c # TreeRoot
    BY <1>4
  <2>2. ~\E p \in P : c \in K[p]
    <3> SUFFICES ASSUME NEW p \in P, c \in K[p] PROVE FALSE
      OBVIOUS
    <3>1. p = h
      BY <1>1, <1>5 DEF OneParent
    <3> QED  BY <1>3, <3>1
  <2> QED  BY <2>1, <2>2 DEF Once
<1>6. NoRepeat(u)
  BY <1>1, <1>2, <1>5
<1>7. ToSet(u) \cap Q = {}
  <2>1. ASSUME NEW v \in ToSet(Tail(w)) PROVE v \notin Q
    BY <1>1, <1>3, <2>1 DEF Once
  <2>2. ASSUME NEW v \in K[h] PROVE v \notin Q
    BY <1>1, <1>3, <1>5, <2>2
  <2> QED  BY <1>2, <2>1, <2>2
<1>8. ASSUME NEW v \in ToSet(u) \cup Q PROVE v = TreeRoot \/ \E p \in Q : v \in K[p]
  <2>1. CASE v \in K[h]
    BY <1>3, <2>1
  <2>2. CASE v \in ToSet(w) \cup P
    BY <1>3, <2>2 DEF Once
  <2> QED  BY <1>1, <1>2, <1>3, <1>8, <2>1, <2>2
<1> QED  BY <1>6, <1>7, <1>8 DEF Once, u

\* The walk of the whole tree ends when all vertices were visited.
LEMMA WalkEnd ==
    ASSUME NEW K, NEW P, Covers(K, <<>>, P), NEW x, Leads(K, TreeRoot, x), K[x] # {}
    PROVE  x \in P
<1>1. ToSet(<<>>) = {}
  BY DEF ToSet
<1>2. \A p \in P : \A c \in K[p] : c \in P \/ K[c] = {}
  BY <1>1 DEF Covers
<1>3. TreeRoot \in P \/ K[TreeRoot] = {}
  BY <1>1 DEF Covers
<1> QED  BY <1>2, <1>3 DEF Leads

\* The walk begins.
LEMMA WalkBegin ==
    ASSUME NEW K PROVE Covers(K, <<TreeRoot>>, {}) /\ Once(K, <<TreeRoot>>, {})
                       /\ ToSet(<<TreeRoot>>) = {TreeRoot}
<1>1. ToSet(<<TreeRoot>>) = {TreeRoot} /\ NoRepeat(<<TreeRoot>>)
  BY DEF ToSet, NoRepeat
<1> QED  BY <1>1 DEF Covers, Once

----------------------------------------------------------------------------
(* The phases.                                                              *)

Early == {"built", "config", "topologies"}
Ended == {"rejected", "failed", "done", "endless"}
Written == {"tree", "block", "yaml", "subtree", "failed", "done", "endless"}

PhaseInv ==
    /\ phase \in {"reports", "initTree", "initBlocks"} \cup Early \cup Ended \cup Written
    /\ phase \in {"initTree", "initBlocks"} => plugin \in {"none", "tree", "block"}
    /\ phase = "tree" => plugin = "tree"
    /\ phase = "block" => plugin = "block"
    /\ phase \in {"yaml", "subtree"} => plugin = "none"

\* What can happen in each phase.
LEMMA StepReports ==
    ASSUME phase = "reports", [PartitionNext]_partitionVars
    PROVE  \/ UNCHANGED partitionVars
           \/ /\ (\E r \in Reports : AddReport(r)) \/ AddMissing
              /\ UNCHANGED <<configVars, work, tree, infoVars, outVars, yamlVars>>
<1> USE DEF PartitionNext, ClusterStep, TopoNext
<1>1. CASE Build /\ UNCHANGED yamlVars
  BY <1>1 DEF Build, GraphNext, FaithfulReports
<1> QED
  BY <1>1 DEF GetTranslateConfig, Validate, initTree, setBlockIDs, initBlocks, StartOutput,
     toTreeTopology, toBlockTopology, Finish, GetTopologies, ValidateTopologies, StartYaml, flatUnit,
     getBlockTopologyUnit, getTreeTopologyUnit, WriteSwitch, EndUnit, EndYaml

LEMMA StepEarly ==
    ASSUME phase \in Early, [PartitionNext]_partitionVars
    PROVE  \/ UNCHANGED partitionVars
           \/ GetTranslateConfig /\ UNCHANGED yamlVars
           \/ Validate /\ UNCHANGED yamlVars
           \/ GetTopologies \/ ValidateTopologies
BY DEF PartitionNext, ClusterStep, TopoNext, Early,
       Build, initTree, setBlockIDs, initBlocks, StartOutput,
       toTreeTopology, toBlockTopology, Finish, StartYaml, flatUnit,
       getBlockTopologyUnit, getTreeTopologyUnit, WriteSwitch, EndUnit, EndYaml

LEMMA StepInitTree ==
    ASSUME phase = "initTree", [PartitionNext]_partitionVars
    PROVE  \/ UNCHANGED partitionVars
           \/ initTree /\ UNCHANGED yamlVars
           \/ setBlockIDs /\ UNCHANGED yamlVars
BY DEF PartitionNext, ClusterStep, TopoNext,
       Build, GetTranslateConfig, Validate, initBlocks, StartOutput,
       toTreeTopology, toBlockTopology, Finish, GetTopologies, ValidateTopologies, StartYaml, flatUnit,
       getBlockTopologyUnit, getTreeTopologyUnit, WriteSwitch, EndUnit, EndYaml

LEMMA StepInitBlocks ==
    ASSUME phase = "initBlocks", [PartitionNext]_partitionVars
    PROVE  \/ UNCHANGED partitionVars
           \/ initBlocks /\ UNCHANGED yamlVars
           \/ StartOutput /\ UNCHANGED yamlVars
           \/ StartYaml
BY DEF PartitionNext, ClusterStep, TopoNext,
       Build, GetTranslateConfig, Validate, initTree, setBlockIDs,
       toTreeTopology, toBlockTopology, Finish, GetTopologies, ValidateTopologies, flatUnit,
       getBlockTopologyUnit, getTreeTopologyUnit, WriteSwitch, EndUnit, EndYaml

LEMMA StepTree ==
    ASSUME phase = "tree", [PartitionNext]_partitionVars
    PROVE  \/ UNCHANGED partitionVars
           \/ toTreeTopology /\ UNCHANGED yamlVars
           \/ Finish /\ UNCHANGED yamlVars
BY DEF PartitionNext, ClusterStep, TopoNext,
       Build, GetTranslateConfig, Validate, initTree, setBlockIDs, initBlocks, StartOutput,
       toBlockTopology, GetTopologies, ValidateTopologies, StartYaml, flatUnit,
       getBlockTopologyUnit, getTreeTopologyUnit, WriteSwitch, EndUnit, EndYaml

LEMMA StepBlock ==
    ASSUME phase = "block", [PartitionNext]_partitionVars
    PROVE  \/ UNCHANGED partitionVars
           \/ toBlockTopology /\ UNCHANGED yamlVars
           \/ Finish /\ UNCHANGED yamlVars
BY DEF PartitionNext, ClusterStep, TopoNext,
       Build, GetTranslateConfig, Validate, initTree, setBlockIDs, initBlocks, StartOutput,
       toTreeTopology, GetTopologies, ValidateTopologies, StartYaml, flatUnit,
       getBlockTopologyUnit, getTreeTopologyUnit, WriteSwitch, EndUnit, EndYaml

LEMMA StepYaml ==
    ASSUME phase = "yaml", [PartitionNext]_partitionVars
    PROVE  \/ UNCHANGED partitionVars
           \/ \E t \in todo : flatUnit(t) \/ getBlockTopologyUnit(t) \/ getTreeTopologyUnit(t)
           \/ EndYaml
BY DEF PartitionNext, ClusterStep, TopoNext,
       Build, GetTranslateConfig, Validate, initTree, setBlockIDs, initBlocks, StartOutput,
       toTreeTopology, toBlockTopology, Finish, GetTopologies, ValidateTopologies, StartYaml,
       WriteSwitch, EndUnit

LEMMA StepSubtree ==
    ASSUME phase = "subtree", [PartitionNext]_partitionVars
    PROVE  UNCHANGED partitionVars \/ WriteSwitch \/ EndUnit
BY DEF PartitionNext, ClusterStep, TopoNext,
       Build, GetTranslateConfig, Validate, initTree, setBlockIDs, initBlocks, StartOutput,
       toTreeTopology, toBlockTopology, Finish, GetTopologies, ValidateTopologies, StartYaml, flatUnit,
       getBlockTopologyUnit, getTreeTopologyUnit, EndYaml

LEMMA StepEnded ==
    ASSUME phase \in Ended, [PartitionNext]_partitionVars
    PROVE  UNCHANGED partitionVars
BY DEF PartitionNext, ClusterStep, TopoNext, Ended,
       Build, GetTranslateConfig, Validate, initTree, setBlockIDs, initBlocks, StartOutput,
       toTreeTopology, toBlockTopology, Finish, GetTopologies, ValidateTopologies, StartYaml, flatUnit,
       getBlockTopologyUnit, getTreeTopologyUnit, WriteSwitch, EndUnit, EndYaml

----------------------------------------------------------------------------
(* The graph that is translated.                                            *)

\* What the finished graph satisfies.
Settled ==
    /\ children \in [Parents -> SUBSET Vertices] /\ forest \subseteq Vertices
    /\ domains \in [Accelerators -> SUBSET Requested] /\ faithful \in BOOLEAN
    /\ NoNodeTwice /\ NoTopologyApart /\ FollowsUp /\ GrowInv /\ FilledInv
    /\ \A i \in Requested : ReachesRoot(i)

ConfigOK ==
    /\ order \in Orders /\ blockSizes \in Seq(Int) /\ pool \in Nat
    /\ \A t \in DOMAIN topologies : topologies[t].sizes \in Seq(Int)

BaseInv ==
    /\ PhaseInv /\ ConfigOK
    /\ phase = "reports" => GInv /\ GrowInv /\ FilledInv
    /\ phase # "reports" => Settled

\* It stays as it is.
LEMMA SettledStays ==
    ASSUME UNCHANGED inputVars
    PROVE  Settled => Settled'
BY DEF inputVars, Settled, NoNodeTwice, NoTopologyApart, FollowsUp, GrowInv, FilledInv,
       ReachesRoot, Below

\* After the reports nothing changes it.
LEMMA Frozen ==
    ASSUME PhaseInv, phase # "reports", [PartitionNext]_partitionVars
    PROVE  /\ UNCHANGED inputVars /\ order' = order /\ phase' # "reports"
           /\ phase \notin Early => UNCHANGED <<configVars, topologies>>
<1> USE DEF partitionVars, topoVars, graphVars, inputVars, configVars, yamlVars
<1>1. CASE phase \in Early
  BY <1>1, StepEarly DEF Early, GetTranslateConfig, Validate, GetTopologies, ValidateTopologies
<1>2. CASE phase = "initTree"
  BY <1>2, StepInitTree DEF initTree, setBlockIDs
<1>3. CASE phase = "initBlocks"
  BY <1>3, StepInitBlocks DEF PhaseInv, initBlocks, StartOutput, StartYaml
<1>4. CASE phase = "tree"
  BY <1>4, StepTree DEF toTreeTopology, Finish
<1>5. CASE phase = "block"
  BY <1>5, StepBlock DEF toBlockTopology, Finish
<1>6. CASE phase = "yaml"
  BY <1>6, StepYaml DEF flatUnit, getBlockTopologyUnit, getTreeTopologyUnit, EndYaml
<1>7. CASE phase = "subtree"
  BY <1>7, StepSubtree DEF WriteSwitch, EndUnit
<1>8. CASE phase \in Ended
  BY <1>8, StepEnded DEF Ended
<1> QED  BY <1>1, <1>2, <1>3, <1>4, <1>5, <1>6, <1>7, <1>8 DEF PhaseInv, Early, Ended, Written

LEMMA BaseInit == PartitionInit => BaseInv
<1> SUFFICES ASSUME PartitionInit PROVE BaseInv
  OBVIOUS
<1>1. GraphInit /\ order \in Orders /\ pool = 0 /\ blockSizes = <<>> /\ topologies = <<>>
  BY DEF PartitionInit, TopoInit
<1>2. phase = "reports"
  BY <1>1 DEF GraphInit
<1>3. GInv /\ GrowInv /\ FilledInv
  BY <1>1, GraphInitInv DEF GraphInit, GrowInv, FilledInv
<1> QED  BY <1>1, <1>2, <1>3 DEF BaseInv, PhaseInv, ConfigOK, Early, Ended, Written

\* The parameters have the types they are declared with.
LEMMA ConfigStep ==
    ASSUME ConfigOK, [PartitionNext]_partitionVars, PhaseInv
    PROVE  ConfigOK'
<1>1. CASE phase = "reports"
  BY <1>1, StepReports DEF ConfigOK, configVars, yamlVars, partitionVars, topoVars
<1>2. CASE phase \in Early
  <2>1. CASE GetTranslateConfig /\ UNCHANGED yamlVars
    <3>1. /\ order' = order /\ topologies' = topologies
          /\ blockSizes' \in SizeRequests \/ blockSizes' = <<>>
          /\ pool' \in PoolSizes \/ pool' = 0
      BY <2>1 DEF GetTranslateConfig, yamlVars
    <3>2. order' \in Orders /\ \A t \in DOMAIN topologies' : topologies'[t].sizes \in Seq(Int)
      BY <3>1 DEF ConfigOK
    <3>3. blockSizes' \in Seq(Int)
      <4>1. <<>> \in Seq(Int)
        OBVIOUS
      <4> QED  BY <3>1, <4>1, TopoAssumption, Zenon
    <3>4. pool' \in Nat
      <4>1. PoolSizes \subseteq Nat
        BY TopoAssumption, Zenon
      <4>2. 0 \in Nat
        OBVIOUS
      <4> QED  BY <3>1, <4>1, <4>2, Zenon
    <3> QED  BY <3>2, <3>3, <3>4 DEF ConfigOK
  <2>2. CASE GetTopologies
    <3>1. topologies' = topologies \/ \E sects \in Sections :
              topologies' = [t \in DOMAIN sects |->
                                   [plugin |-> sects[t].plugin, sizes |-> sects[t].sizes,
                                    nodes  |-> IF NeedsSlurm(sects[t])
                                               THEN Discovered[sects[t].partition]
                                               ELSE sects[t].nodes]]
      BY <2>2 DEF GetTopologies
    <3>2. \A t \in DOMAIN topologies' : topologies'[t].sizes \in Seq(Int)
      BY <3>1, SectionsAssumption DEF ConfigOK
    <3> QED  BY <2>2, <3>2 DEF ConfigOK, GetTopologies
  <2> QED
    BY <1>2, <2>1, <2>2, StepEarly
    DEF ConfigOK, Validate, ValidateTopologies, configVars, yamlVars, partitionVars, topoVars
<1>3. CASE phase \notin Early /\ phase # "reports"
  BY <1>3, Frozen DEF ConfigOK, configVars
<1> QED  BY <1>1, <1>2, <1>3

LEMMA PhaseStep ==
    ASSUME PhaseInv, [PartitionNext]_partitionVars, phase # "reports"
    PROVE  PhaseInv'
<1> USE DEF partitionVars, topoVars, graphVars, inputVars, configVars, yamlVars, PhaseInv,
            Early, Ended, Written
<1>1. CASE phase \in Early
  BY <1>1, StepEarly DEF GetTranslateConfig, Validate, GetTopologies, ValidateTopologies
<1>2. CASE phase = "initTree"
  BY <1>2, StepInitTree DEF initTree, setBlockIDs
<1>3. CASE phase = "initBlocks"
  BY <1>3, StepInitBlocks DEF initBlocks, StartOutput, StartYaml
<1>4. CASE phase = "tree"
  BY <1>4, StepTree DEF toTreeTopology, Finish
<1>5. CASE phase = "block"
  BY <1>5, StepBlock DEF toBlockTopology, Finish
<1>6. CASE phase = "yaml"
  BY <1>6, StepYaml DEF flatUnit, getBlockTopologyUnit, getTreeTopologyUnit, EndYaml
<1>7. CASE phase = "subtree"
  BY <1>7, StepSubtree DEF WriteSwitch, EndUnit
<1>8. CASE phase \in Ended
  BY <1>8, StepEnded
<1> QED  BY <1>1, <1>2, <1>3, <1>4, <1>5, <1>6, <1>7, <1>8

LEMMA BaseStep == BaseInv /\ [PartitionNext]_partitionVars => BaseInv'
<1> SUFFICES ASSUME BaseInv, [PartitionNext]_partitionVars PROVE BaseInv'
  OBVIOUS
<1>1. ConfigOK'
  BY ConfigStep DEF BaseInv
<1>2. CASE phase # "reports"
  BY <1>1, <1>2, Frozen, SettledStays, PhaseStep DEF BaseInv
<1>3. CASE phase = "reports" /\ UNCHANGED partitionVars
  BY <1>1, <1>3 DEF BaseInv, PhaseInv, partitionVars, topoVars, graphVars, configVars,
     GInv, GrowInv, FilledInv, GraphTypeOK, Progress, NoNodeTwice, NoTopologyApart, FollowsUp,
     ReachesRoot, Below
<1>4. CASE /\ phase = "reports" /\ ((\E r \in Reports : AddReport(r)) \/ AddMissing)
           /\ UNCHANGED <<configVars, work, tree, infoVars, outVars, yamlVars>>
  <2>1. GInv /\ GrowInv /\ FilledInv
    BY <1>4 DEF BaseInv
  <2>2. GInv' /\ GrowInv' /\ FilledInv'
    BY <1>4, <2>1, AddReportInv, AddMissingInv, AddReportGrow, AddMissingGrow, GraphStepFilled
  <2>3. PhaseInv'
    BY <1>4 DEF AddReport, AddMissing, PhaseInv, Early, Ended, Written
  <2>4. ASSUME phase' # "reports" PROVE Settled'
    <3>1. phase' = "built"
      BY <1>4, <2>4 DEF AddReport, AddMissing
    <3>2. \A i \in Requested : ReachesRoot(i)'
      BY <2>2, <3>1 DEF GInv, Progress
    <3> QED  BY <2>2, <3>2 DEF Settled, GInv, GraphTypeOK
  <2> QED  BY <1>1, <2>2, <2>3, <2>4 DEF BaseInv
<1> QED  BY <1>2, <1>3, <1>4, StepReports

LEMMA BaseInvariance == PartitionSpec => []BaseInv
BY BaseInit, BaseStep, PTL DEF PartitionSpec

\* The children of each kind of vertex.
LEMMA KidsFacts ==
    ASSUME Settled
    PROVE  /\ IsGraph(KidsOf)
           /\ KidsOf[TreeRoot] = forest
           /\ \A p \in Parents : KidsOf[p] = children[p]
           /\ \A i \in Instances : KidsOf[i] = {}
           /\ NoInstance \in Vertices /\ KidsOf[NoInstance] = {}
           /\ \A v \in All : KidsOf[v] = Kids(v)
           /\ \A v \in All : IsFiniteSet(KidsOf[v]) /\ KidsOf[v] \subseteq Vertices
           /\ \A v \in Vertices : v \in All /\ v # TreeRoot
           /\ TreeRoot \in All
<1>1. \A v \in All : Kids(v) \subseteq Vertices
  BY GraphAssumption DEF Settled, Kids, All, Vertices, Parents
<1>2. \A v \in All : IsFiniteSet(Kids(v))
  BY <1>1, TopoAssumption, FS_Subset
<1>3. /\ TreeRoot \notin Vertices /\ TreeRoot \in All /\ \A v \in Vertices : v \in All
      /\ \A p \in Parents : p \in Vertices /\ p \notin Instances
      /\ NoInstance \in Vertices /\ NoInstance \notin Parents
      /\ \A i \in Instances : i \in Vertices /\ i \notin Parents
  BY GraphAssumption DEF All, Vertices, Parents
<1>4. \A v \in All : KidsOf[v] = Kids(v)
  BY DEF KidsOf
<1>5. /\ Kids(TreeRoot) = forest /\ Kids(NoInstance) = {}
      /\ \A p \in Parents : Kids(p) = children[p]
      /\ \A i \in Instances : Kids(i) = {}
  BY <1>3 DEF Kids
<1>6. IsGraph(KidsOf)
  BY <1>1 DEF IsGraph, KidsOf
<1> QED  BY <1>1, <1>2, <1>3, <1>4, <1>5, <1>6

\* The way up is a way down.
LEMMA LeadsDown ==
    ASSUME Settled
    PROVE  /\ \A v \in Vertices : ReachesRoot(v) => Leads(KidsOf, TreeRoot, v)
           /\ \A v \in All : KidsOf[v] # {} => Leads(KidsOf, TreeRoot, v)
           /\ \A i \in Requested : Leads(KidsOf, TreeRoot, i)
<1>1. ASSUME NEW v \in Vertices, ReachesRoot(v) PROVE Leads(KidsOf, TreeRoot, v)
  BY <1>1, KidsFacts DEF ReachesRoot, Leads
<1>2. ASSUME NEW v \in All, KidsOf[v] # {} PROVE Leads(KidsOf, TreeRoot, v)
  <2>1. CASE v = TreeRoot
    BY <2>1 DEF Leads
  <2>2. CASE v \in Parents
    <3>1. children[v] # {} /\ v \in Vertices
      BY <1>2, <2>2, KidsFacts DEF Vertices
    <3> QED  BY <1>1, <2>2, <3>1 DEF Settled, GrowInv
  <2> QED  BY <1>2, <2>1, <2>2, KidsFacts DEF All, Vertices
<1> QED  BY <1>1, <1>2, GraphAssumption DEF Settled, Vertices

\* If the reports agree, no vertex has two parents.
LEMMA TreeShape ==
    ASSUME Settled, faithful
    PROVE  OneParent(KidsOf)
<1> SUFFICES ASSUME NEW u \in All, NEW v \in All, NEW x \in KidsOf[u], x \in KidsOf[v]
             PROVE  u = v
  BY DEF OneParent
<1>1. /\ u \in Parents \cup {TreeRoot} /\ v \in Parents \cup {TreeRoot} /\ x \in Vertices
      /\ Below(x, u) /\ Below(x, v)
  <2>1. /\ KidsOf[NoInstance] = {} /\ \A i \in Instances : KidsOf[i] = {}
        /\ KidsOf[u] \subseteq Vertices /\ KidsOf[TreeRoot] = forest
        /\ \A p \in Parents : KidsOf[p] = children[p] /\ p # TreeRoot
    BY KidsFacts DEF Vertices
  <2> QED  BY <2>1 DEF Below, All, Vertices
<1>2. CASE x \in Instances
  BY <1>1, <1>2 DEF Settled, NoNodeTwice
<1>3. CASE x = NoTopology
  BY <1>1, <1>3 DEF Settled, NoTopologyApart, Below
<1>4. CASE x \in Switches
  <2>1. x \notin Instances /\ x # NoTopology /\ None \notin Switches
    BY <1>4, GraphAssumption DEF Vertices, Parents
  <2>2. \A p \in Parents : x \in children[p] => p \in Switches /\ Up[x] = p
    <3>1. x # NoInstance
      BY <1>4, GraphAssumption DEF Parents
    <3> QED  BY <1>4, <2>1, <3>1 DEF Settled, FollowsUp, NoTopologyApart, Parents
  <2>3. x \in forest => Up[x] = None
    BY <2>1 DEF Settled, FollowsUp
  <2> QED  BY <1>1, <2>1, <2>2, <2>3, GraphAssumption DEF Below, Vertices, Parents
<1>5. CASE x = NoInstance
  BY <1>1, <1>5, GraphAssumption DEF Settled, NoTopologyApart, Below, Parents
<1> QED  BY <1>1, <1>2, <1>3, <1>4, <1>5 DEF Vertices, Parents

\* KidsOf does not change after the reports.
LEMMA KidsStay ==
    ASSUME UNCHANGED inputVars
    PROVE  KidsOf' = KidsOf /\ Domains' = Domains /\ (\A v \in All : Kids(v)' = Kids(v))
BY DEF inputVars, KidsOf, Kids, Domains

----------------------------------------------------------------------------
(* initTree.                                                                *)

\* The vertices with an entry in nt.tree.
Listed == {v \in All : tree[v] # <<>>}

TreeOK ==
    /\ tree \in [All -> Seq(Vertices)]
    /\ \A v \in All : ToSet(tree[v]) = KidsOf[v] /\ (faithful => NoRepeat(tree[v]))

TreeBegun ==
    /\ work \in Seq(All) /\ tree \in [All -> Seq(Vertices)]
    /\ \A v \in All : tree[v] = <<>> \/ ToSet(tree[v]) = KidsOf[v]
    /\ Covers(KidsOf, work, Listed)
    /\ faithful => Once(KidsOf, work, Listed) /\ \A v \in All : NoRepeat(tree[v])

TreeInv ==
    /\ phase \in {"reports"} \cup Early => tree = [v \in All |-> <<>>]
    /\ phase = "initTree" => TreeBegun
    /\ phase \in {"initBlocks"} \cup Written => TreeOK

LEMMA TreeStarts ==
    ASSUME tree' = [v \in All |-> <<>>], work' = <<TreeRoot>>, Settled
    PROVE  TreeBegun'
<1>1. TreeRoot \in All /\ work' \in Seq(All) /\ tree' \in [All -> Seq(Vertices)]
  BY KidsFacts
<1>2. Listed' = {}
  BY DEF Listed
<1>3. \A v \in All : NoRepeat(tree'[v])
  BY DEF NoRepeat
<1>4. Covers(KidsOf', work', {}) /\ Once(KidsOf', work', {})
  BY WalkBegin
<1> QED  BY <1>1, <1>2, <1>3, <1>4 DEF TreeBegun

LEMMA InitTreeStep ==
    ASSUME Settled, TreeBegun, initTree
    PROVE  TreeBegun'
<1> DEFINE h == Head(work)
           K == KidsOf
           P == Listed
<1>1. PICK s \in SetToSeqs(Kids(h)) :
          work' = Tail(work) \o s /\ tree' = [tree EXCEPT ![ID(h)] = @ \o s]
  BY DEF initTree
<1>2. /\ work \in Seq(All) /\ work # <<>> /\ h \in All /\ tree \in [All -> Seq(Vertices)]
      /\ h \in ToSet(work)
  BY TailFacts, ElementsOf DEF initTree, TreeBegun
<1>3. K' = K /\ faithful' = faithful
  BY KidsStay DEF initTree, graphVars, inputVars
<1>4. IsGraph(K) /\ Kids(h) = K[h] /\ IsFiniteSet(K[h]) /\ K[h] \subseteq Vertices
  BY <1>2, KidsFacts
<1>5. s \in Seq(Vertices) /\ s \in Seq(All) /\ ToSet(s) = K[h] /\ NoRepeat(s) /\ (s = <<>> <=> K[h] = {})
  <2>1. s \in Seq(K[h]) /\ ToSet(s) = K[h] /\ NoRepeat(s) /\ (s = <<>> <=> K[h] = {})
    BY <1>1, <1>4, SetToSeqsFacts
  <2>2. Vertices \subseteq All
    BY KidsFacts
  <2> HIDE DEF K
  <2> QED  BY <1>4, <2>1, <2>2
<1> HIDE DEF h, K
<1>6. /\ tree' \in [All -> Seq(Vertices)]
      /\ tree'[h] = tree[h] \o s
      /\ \A v \in All : v # h => tree'[v] = tree[v]
  <2>1. CASE h # NoInstance
    BY <1>1, <1>2, <1>5, <2>1 DEF ID
  <2>2. CASE h = NoInstance
    <3>1. s = <<>> /\ TreeRoot \in All
      BY <1>5, <2>2, KidsFacts DEF K
    <3>2. \A v \in All : tree[v] \o <<>> = tree[v]
      BY <1>2
    <3>3. tree' = tree
      BY <1>1, <1>2, <2>2, <3>1, <3>2 DEF ID
    <3> QED  BY <1>2, <3>1, <3>2, <3>3
  <2> QED  BY <2>1, <2>2
<1>7. /\ ToSet(tree'[h]) = ToSet(tree[h]) \cup K[h]
      /\ tree'[h] = <<>> <=> tree[h] = <<>> /\ K[h] = {}
      /\ tree[h] = <<>> => ToSet(tree[h]) = {}
  <2>1. tree[h] \in Seq(Vertices)
    BY <1>2
  <2>2. ToSet(tree[h] \o s) = ToSet(tree[h]) \cup ToSet(s) /\ tree[h] \o s \in Seq(Vertices)
    BY <1>5, <2>1, ConcatFacts
  <2> QED  BY <1>5, <1>6, <2>1, <2>2, ElementsOf
<1>8. \A v \in All : tree'[v] = <<>> \/ ToSet(tree'[v]) = K[v]
  <2>1. \A v \in All : tree[v] = <<>> \/ ToSet(tree[v]) = K[v]
    BY DEF TreeBegun, K
  <2> QED  BY <1>2, <1>6, <1>7, <2>1
<1>9. Visit(K, h, P, P')
  BY <1>2, <1>6, <1>7 DEF Visit, Listed
<1>10. work' \in Seq(All)
  BY <1>1, <1>2, <1>5, QueueFacts
<1>11. Covers(K, work', P')
  BY <1>1, <1>2, <1>5, <1>9, VisitCovers DEF h, TreeBegun, K
<1>12. ASSUME faithful PROVE Once(K, work', P') /\ \A v \in All : NoRepeat(tree'[v])
  <2>1. Once(K, work, P) /\ OneParent(K) /\ P \subseteq All
    BY <1>12, TreeShape DEF TreeBegun, K, Listed
  <2>2. Once(K, work', P')
    BY <1>1, <1>2, <1>4, <1>5, <1>9, <2>1, VisitOnce DEF h
  <2>3. tree[h] = <<>>
    BY <1>2, <2>1 DEF Once, Listed
  <2>4. tree'[h] = s
    BY <1>5, <1>6, <2>3
  <2>5. \A v \in All : NoRepeat(tree[v])
    BY <1>12 DEF TreeBegun
  <2> QED  BY <1>5, <1>6, <2>2, <2>4, <2>5
<1> QED  BY <1>3, <1>6, <1>8, <1>10, <1>11, <1>12 DEF TreeBegun, K

LEMMA SetBlockIDsTree ==
    ASSUME Settled, TreeBegun, ConfigOK, setBlockIDs
    PROVE  TreeOK'
<1>1. work = <<>> /\ KidsOf' = KidsOf /\ faithful' = faithful
  BY KidsStay DEF setBlockIDs, inputVars
<1>2. tree' = [v \in All |-> Sorted(tree[v], order)]
  BY DEF setBlockIDs
<1>3. /\ \A x \in Vertices : order[x] \in Nat
      /\ \A x, y \in Vertices : order[x] = order[y] => x = y
  BY TopoAssumption DEF ConfigOK
<1>4. ASSUME NEW v \in All
      PROVE  /\ tree'[v] \in Seq(Vertices) /\ ToSet(tree'[v]) = KidsOf[v]
             /\ faithful => NoRepeat(tree'[v])
  <2>1. tree[v] \in Seq(Vertices) /\ (tree[v] = <<>> \/ ToSet(tree[v]) = KidsOf[v])
        /\ (faithful => NoRepeat(tree[v]))
    BY DEF TreeBegun
  <2>2. /\ Sorted(tree[v], order) \in Seq(Vertices)
        /\ ToSet(Sorted(tree[v], order)) = ToSet(tree[v])
        /\ NoRepeat(tree[v]) => NoRepeat(Sorted(tree[v], order))
    BY <1>3, <2>1, SortedFacts
  <2>3. ToSet(tree[v]) = KidsOf[v]
    <3>1. KidsOf[v] # {} => v \in Listed
      BY <1>1, LeadsDown, WalkEnd DEF TreeBegun
    <3> QED  BY <2>1, <3>1, ElementsOf DEF Listed
  <2> QED  BY <1>2, <2>1, <2>2, <2>3
<1> QED  BY <1>1, <1>2, <1>4 DEF TreeOK

\* What comes later does not change nt.tree.
LEMMA TreeStays ==
    ASSUME PhaseInv, phase \in {"initBlocks"} \cup Written, [PartitionNext]_partitionVars
    PROVE  /\ tree' = tree /\ UNCHANGED inputVars /\ phase' \in {"initBlocks"} \cup Written
           /\ phase \in Written => phase' \in Written /\ UNCHANGED infoVars
<1>1. UNCHANGED inputVars
  BY Frozen DEF Written
<1> USE DEF partitionVars, topoVars, graphVars, infoVars, Written, PhaseInv
<1>2. CASE phase = "initBlocks"
  BY <1>1, <1>2, StepInitBlocks DEF initBlocks, StartOutput, StartYaml
<1>3. CASE phase = "tree"
  BY <1>1, <1>3, StepTree DEF toTreeTopology, Finish
<1>4. CASE phase = "block"
  BY <1>1, <1>4, StepBlock DEF toBlockTopology, Finish
<1>5. CASE phase = "yaml"
  BY <1>1, <1>5, StepYaml DEF flatUnit, getBlockTopologyUnit, getTreeTopologyUnit, EndYaml
<1>6. CASE phase = "subtree"
  BY <1>1, <1>6, StepSubtree DEF WriteSwitch, EndUnit
<1>7. CASE phase \in {"failed", "done", "endless"}
  BY <1>1, <1>7, StepEnded DEF Ended
<1> QED  BY <1>2, <1>3, <1>4, <1>5, <1>6, <1>7

LEMMA TreeStep ==
    ASSUME BaseInv, TreeInv, [PartitionNext]_partitionVars
    PROVE  TreeInv'
<1> USE DEF partitionVars, topoVars, graphVars
<1>1. CASE phase = "reports"
  <2>1. tree' = tree /\ phase' \in {"reports", "built"}
    BY <1>1, StepReports DEF AddReport, AddMissing
  <2> QED  BY <1>1, <2>1 DEF TreeInv, Early, Written
<1>2. CASE phase \in Early
  <2>1. Settled /\ UNCHANGED inputVars /\ Settled'
    BY <1>2, Frozen, SettledStays DEF BaseInv, Early
  <2>2. /\ tree' = tree /\ phase' \in Early \cup {"initTree", "rejected"}
        /\ phase' = "initTree" => work' = <<TreeRoot>>
    BY <1>2, StepEarly DEF Early, GetTranslateConfig, Validate, GetTopologies, ValidateTopologies
  <2>3. ASSUME phase' = "initTree" PROVE TreeBegun'
    <3>1. tree' = [v \in All |-> <<>>]
      BY <1>2, <2>2 DEF TreeInv
    <3> QED  BY <2>1, <2>2, <2>3, <3>1, TreeStarts
  <2> QED  BY <1>2, <2>2, <2>3 DEF TreeInv, Early, Written
<1>3. CASE phase = "initTree"
  <2>1. Settled /\ TreeBegun /\ ConfigOK
    BY <1>3 DEF BaseInv, TreeInv
  <2>2. CASE initTree /\ UNCHANGED yamlVars
    <3>1. TreeBegun' /\ phase' = phase
      BY <2>1, <2>2, InitTreeStep DEF initTree
    <3> QED  BY <1>3, <3>1 DEF TreeInv, Early, Written
  <2>3. CASE setBlockIDs /\ UNCHANGED yamlVars
    <3>1. TreeOK' /\ phase' = "initBlocks"
      BY <2>1, <2>3, SetBlockIDsTree DEF setBlockIDs
    <3> QED  BY <3>1 DEF TreeInv, Early, Written
  <2>4. CASE UNCHANGED partitionVars
    <3>1. KidsOf' = KidsOf /\ work' = work /\ tree' = tree /\ faithful' = faithful /\ phase' = phase
      BY <2>4, KidsStay DEF inputVars
    <3>2. Listed' = Listed
      BY <3>1 DEF Listed
    <3> QED  BY <1>3, <2>1, <3>1, <3>2 DEF TreeInv, TreeBegun, Early, Written
  <2> QED  BY <1>3, <2>2, <2>3, <2>4, StepInitTree
<1>4. CASE phase \in {"initBlocks"} \cup Written
  <2>1. TreeOK /\ KidsOf' = KidsOf /\ tree' = tree /\ faithful' = faithful
        /\ phase' \in {"initBlocks"} \cup Written
    BY <1>4, TreeStays, KidsStay DEF BaseInv, TreeInv, inputVars
  <2> QED  BY <2>1 DEF TreeInv, TreeOK, Early, Written
<1>5. CASE phase = "rejected"
  <2>1. phase' = phase
    BY <1>5, StepEnded DEF Ended
  <2> QED  BY <1>5, <2>1 DEF TreeInv, Early, Written
<1> QED  BY <1>1, <1>2, <1>3, <1>4, <1>5 DEF BaseInv, PhaseInv, Ended, Written

LEMMA TreeInvariance == PartitionSpec => []TreeInv
<1>1. PartitionInit => TreeInv
  BY DEF PartitionInit, TopoInit, GraphInit, TreeInv, Early, Written
<1>2. BaseInv /\ TreeInv /\ [PartitionNext]_partitionVars => TreeInv'
  BY TreeStep
<1> QED  BY <1>1, <1>2, BaseInvariance, PTL DEF PartitionSpec

----------------------------------------------------------------------------
(* toTreeTopology.                                                          *)

\* What writeVertex writes for v.
LinesOf(v) ==
    [switches |-> IF v # TreeRoot /\ SwitchesBelow(v) # {} THEN 1 ELSE 0,
     nodes    |-> IF v # TreeRoot /\ NodesBelow(v) # {} THEN 1 ELSE 0]

\* The vertices with lines, and the root when the walk has left it.
Visited == {v \in All : written[v] # NoLines} \cup ({TreeRoot} \ ToSet(work))

TreeWritten ==
    /\ work \in Seq(All) /\ written \in [All -> {NoLines} \cup {LinesOf(v) : v \in All}]
    /\ \A v \in All : written[v] \in {NoLines, LinesOf(v)}
    /\ Covers(KidsOf, work, Visited) /\ Once(KidsOf, work, Visited)

WrittenInv ==
    /\ phase \notin {"tree", "done", "endless"} => written = [v \in All |-> NoLines]
    /\ phase \in {"yaml", "done"} => work = <<>>
    /\ phase \in {"tree", "done"} /\ plugin = "tree" /\ faithful => TreeWritten

\* A vertex has lines if and only if it has children and an ID.
LEMMA LinesFacts ==
    ASSUME NEW v \in All
    PROVE  LinesOf(v) = NoLines <=> v = TreeRoot \/ KidsOf[v] = {}
<1>1. KidsOf[v] = Kids(v) /\ Kids(v) = SwitchesBelow(v) \cup NodesBelow(v)
  BY DEF KidsOf, SwitchesBelow, NodesBelow
<1>2. LinesOf(v).switches = 0 /\ LinesOf(v).nodes = 0 <=> v = TreeRoot \/ KidsOf[v] = {}
  BY <1>1 DEF LinesOf
<1> QED  BY <1>2 DEF LinesOf, NoLines

LEMMA WrittenStarts ==
    ASSUME Settled, written' = [v \in All |-> NoLines], work' = <<TreeRoot>>
    PROVE  TreeWritten'
<1>1. TreeRoot \in All /\ work' \in Seq(All)
  BY KidsFacts
<1>2. ToSet(work') = {TreeRoot}
  BY DEF ToSet
<1>3. Visited' = {}
  BY <1>2 DEF Visited
<1>4. Covers(KidsOf', work', {}) /\ Once(KidsOf', work', {})
  BY WalkBegin
<1> QED  BY <1>1, <1>3, <1>4 DEF TreeWritten

LEMMA ToTreeTopologyStep ==
    ASSUME Settled, TreeOK, TreeWritten, faithful, toTreeTopology, phase' # "endless"
    PROVE  TreeWritten'
<1> DEFINE h == Head(work)
           K == KidsOf
           s == tree[h]
           P == Visited
           L(v) == LinesOf(v)
<1>1. work' = Tail(work) \o s /\ work # <<>> /\ writeVertex(h)
  BY DEF toTreeTopology
<1>2. work \in Seq(All) /\ h \in All /\ h \in ToSet(work)
      /\ ToSet(work) = {h} \cup ToSet(Tail(work))
  BY <1>1, TailFacts, ElementsOf DEF TreeWritten
<1>3. K' = K /\ \A v \in All : L(v)' = L(v)
  <2>1. K' = K /\ \A v \in All : Kids(v)' = Kids(v)
    BY KidsStay DEF toTreeTopology
  <2>2. \A v \in All : Kids(v) \subseteq All
    BY KidsFacts
  <2>3. \A v \in All : SwitchesBelow(v)' = SwitchesBelow(v) /\ NodesBelow(v)' = NodesBelow(v)
    BY <2>1, <2>2 DEF SwitchesBelow, NodesBelow
  <2> QED  BY <2>1, <2>3 DEF LinesOf
<1>4. IsGraph(K) /\ OneParent(K) /\ Covers(K, work, P) /\ Once(K, work, P) /\ P \subseteq All
  BY KidsFacts, TreeShape DEF TreeWritten, Visited
<1>5. s \in Seq(Vertices) /\ s \in Seq(All) /\ ToSet(s) = K[h] /\ NoRepeat(s)
      /\ TreeRoot \notin ToSet(s)
  <2>1. s \in Seq(Vertices) /\ ToSet(s) = K[h] /\ NoRepeat(s) /\ Vertices \subseteq All
        /\ TreeRoot \notin K[h]
    BY <1>2, KidsFacts DEF TreeOK
  <2> HIDE DEF s
  <2> QED  BY <2>1
<1>6. ToSet(work') = ToSet(Tail(work)) \cup ToSet(s)
  BY <1>1, <1>2, <1>5, QueueFacts
<1>7. h \notin P /\ h \notin ToSet(Tail(work))
  <2>1. NoRepeat(work) /\ ToSet(work) \cap P = {}
    BY <1>4 DEF Once
  <2> QED  BY <1>1, <1>2, <2>1, TailFacts
<1>8. /\ written'[h] = L(h)
      /\ written' = [written EXCEPT ![h] = L(h)]
  <2>1. written[h] = NoLines
    BY <1>2, <1>7 DEF Visited
  <2> QED  BY <1>1, <1>2, <2>1 DEF writeVertex, NoLines, LinesOf, TreeWritten
<1>9. L(h) = NoLines <=> h = TreeRoot \/ K[h] = {}
  BY <1>2, LinesFacts
<1>10. /\ written' \in [All -> {NoLines} \cup {L(v) : v \in All}]
       /\ \A v \in All : written'[v] \in {NoLines, L(v)}
       /\ \A v \in All : v # h => written'[v] = written[v]
  <2> HIDE DEF L, h
  <2> QED  BY <1>2, <1>8 DEF TreeWritten, L
<1> HIDE DEF h, K, s, L
<1>11. P \subseteq P' /\ P' \subseteq P \cup {h} /\ (K[h] # {} => h \in P')
  BY <1>2, <1>5, <1>6, <1>7, <1>8, <1>9, <1>10 DEF Visited
<1>12. Visit(K, h, P, P')
  BY <1>11 DEF Visit
<1>13. work' \in Seq(All)
  BY <1>1, <1>2, <1>5, QueueFacts
<1>14. Covers(K, work', P')
  BY <1>1, <1>2, <1>4, <1>5, <1>12, VisitCovers DEF h
<1>15. Once(K, work', P')
  BY <1>1, <1>2, <1>4, <1>5, <1>12, VisitOnce DEF h
<1> QED  BY <1>3, <1>10, <1>13, <1>14, <1>15 DEF TreeWritten, K, L

LEMMA WrittenStays ==
    ASSUME Settled, UNCHANGED <<inputVars, work, written>>
    PROVE  TreeWritten => TreeWritten'
<1>1. KidsOf' = KidsOf /\ \A v \in All : Kids(v)' = Kids(v)
  BY KidsStay
<1>2. \A v \in All : Kids(v) \subseteq All
  BY KidsFacts
<1>3. \A v \in All : SwitchesBelow(v)' = SwitchesBelow(v) /\ NodesBelow(v)' = NodesBelow(v)
  BY <1>1, <1>2 DEF SwitchesBelow, NodesBelow
<1>4. \A v \in All : LinesOf(v)' = LinesOf(v)
  BY <1>3 DEF LinesOf
<1>5. Visited' = Visited
  BY DEF Visited
<1> QED  BY <1>1, <1>4, <1>5 DEF TreeWritten

LEMMA WrittenStep ==
    ASSUME BaseInv, TreeInv, WrittenInv, [PartitionNext]_partitionVars
    PROVE  WrittenInv'
<1> USE DEF partitionVars, topoVars, graphVars, outVars
<1>0. phase # "reports" =>
          /\ Settled /\ KidsOf' = KidsOf /\ faithful' = faithful /\ UNCHANGED inputVars
          /\ phase \notin Early => plugin' = plugin
  BY Frozen, KidsStay DEF BaseInv, inputVars, configVars
<1>1. CASE phase = "reports"
  <2>1. written' = written /\ phase' \in {"reports", "built"}
    BY <1>1, StepReports DEF AddReport, AddMissing
  <2> QED  BY <1>1, <2>1 DEF WrittenInv
<1>2. CASE phase \in Early
  <2>1. written' = written /\ phase' \notin {"tree", "done", "endless", "yaml"}
    BY <1>2, StepEarly DEF Early, GetTranslateConfig, Validate, GetTopologies, ValidateTopologies
  <2> QED  BY <1>2, <2>1 DEF WrittenInv, Early
<1>3. CASE phase = "initTree"
  <2>1. written' = written /\ phase' \notin {"tree", "done", "endless", "yaml"}
    BY <1>3, StepInitTree DEF initTree, setBlockIDs
  <2> QED  BY <1>3, <2>1 DEF WrittenInv
<1>4. CASE phase = "initBlocks"
  <2>1. /\ written' = written /\ phase' # "done" /\ (phase' = "tree" => work' = <<TreeRoot>>)
        /\ phase' = "yaml" => work' = <<>>
    BY <1>4, StepInitBlocks DEF initBlocks, StartOutput, StartYaml, BaseInv, PhaseInv
  <2>2. phase' = "tree" => TreeWritten'
    BY <1>0, <1>4, <2>1, WrittenStarts DEF WrittenInv
  <2> QED  BY <1>4, <2>1, <2>2 DEF WrittenInv
<1>5. CASE phase = "tree"
  <2>0. plugin' = "tree" /\ plugin = "tree"
    BY <1>0, <1>5 DEF BaseInv, PhaseInv, Early
  <2>1. phase' \in {"tree", "done", "endless"} /\ (phase' = "done" => work' = <<>>)
    BY <1>5, StepTree DEF toTreeTopology, Finish
  <2>2. ASSUME faithful, phase' # "endless" PROVE TreeWritten'
    <3>1. TreeWritten /\ TreeOK
      BY <1>5, <2>0, <2>2 DEF WrittenInv, TreeInv, Written
    <3>2. CASE toTreeTopology
      BY <1>0, <1>5, <2>2, <3>1, <3>2, ToTreeTopologyStep
    <3>3. CASE work' = work /\ written' = written
      <4>1. Settled /\ UNCHANGED <<inputVars, work, written>>
        BY <1>0, <1>5, <3>3
      <4>2. TreeWritten => TreeWritten'
        BY <4>1, WrittenStays
      <4> QED  BY <3>1, <4>2
    <3> QED  BY <1>5, <3>2, <3>3, StepTree DEF Finish
  <2> QED  BY <1>0, <1>5, <2>1, <2>2 DEF WrittenInv
<1>6. CASE phase \in {"block", "yaml", "subtree"}
  <2>1. written' = written /\ phase' # "tree"
    BY <1>6, StepBlock, StepYaml, StepSubtree
    DEF toBlockTopology, Finish, flatUnit, getBlockTopologyUnit, getTreeTopologyUnit, EndYaml,
        WriteSwitch, EndUnit
  <2>2. plugin' # "tree"
    BY <1>0, <1>6 DEF BaseInv, PhaseInv, Early
  <2>3. phase' \in {"yaml", "done"} => work' = <<>>
    BY <1>6, StepBlock, StepYaml, StepSubtree
    DEF toBlockTopology, Finish, flatUnit, getBlockTopologyUnit, getTreeTopologyUnit, EndYaml,
        WriteSwitch, EndUnit, WrittenInv
  <2> QED  BY <1>6, <2>1, <2>2, <2>3 DEF WrittenInv
<1>7. CASE phase \in Ended
  <2>1. work' = work /\ written' = written /\ phase' = phase /\ plugin' = plugin
    BY <1>7, StepEnded DEF configVars
  <2>2. Settled /\ UNCHANGED <<inputVars, work, written>>
    BY <1>0, <1>7, <2>1 DEF Ended
  <2>3. TreeWritten => TreeWritten'
    BY <2>2, WrittenStays
  <2> QED  BY <1>0, <1>7, <2>1, <2>3 DEF WrittenInv, Ended
<1> QED  BY <1>1, <1>2, <1>3, <1>4, <1>5, <1>6, <1>7 DEF BaseInv, PhaseInv, Ended, Written

LEMMA WrittenInvariance == PartitionSpec => []WrittenInv
<1>1. PartitionInit => WrittenInv
  BY DEF PartitionInit, TopoInit, GraphInit, WrittenInv
<1>2. BaseInv /\ TreeInv /\ WrittenInv /\ [PartitionNext]_partitionVars => WrittenInv'
  BY WrittenStep
<1> QED  BY <1>1, <1>2, BaseInvariance, TreeInvariance, PTL DEF PartitionSpec

\* If the reports agree, the tree output has every connection of the graph in
\* one line, a switch with both kinds of children having one line for each, and
\* has no line for anything else, whatever the fabric (initTree, toTreeTopology,
\* writeVertex).
THEOREM EachConnectionWrittenOnce == PartitionSpec => []ConnectionsWrittenOnce
<1>1. ASSUME BaseInv, WrittenInv PROVE ConnectionsWrittenOnce
  <2> SUFFICES ASSUME phase = "done", plugin = "tree", faithful, NEW s \in Parents
               PROVE  /\ written[s].switches = IF SwitchesBelow(s) = {} THEN 0 ELSE 1
                      /\ written[s].nodes = IF NodesBelow(s) = {} THEN 0 ELSE 1
    BY DEF ConnectionsWrittenOnce, DoneWith
  <2>1. /\ Settled /\ \A v \in All : written[v] \in {NoLines, LinesOf(v)}
        /\ Covers(KidsOf, <<>>, Visited)
    BY <1>1 DEF BaseInv, WrittenInv, TreeWritten
  <2>2. s \in All /\ s # TreeRoot
    BY <2>1, KidsFacts DEF Vertices
  <2>3. KidsOf[s] # {} => s \in Visited
    BY <2>1, <2>2, LeadsDown, WalkEnd
  <2>4. written[s] = LinesOf(s)
    BY <2>1, <2>2, <2>3, LinesFacts DEF Visited
  <2> QED  BY <2>2, <2>4 DEF LinesOf
<1> QED  BY <1>1, BaseInvariance, WrittenInvariance, PTL

----------------------------------------------------------------------------
(* initBlocks.                                                              *)

\* A sequence in reverse.
LEMMA ReverseFacts ==
    ASSUME NEW V, NEW s \in Seq(V)
    PROVE  /\ Reverse(s) \in Seq(V) /\ Len(Reverse(s)) = Len(s) /\ Len(s) \in Nat
           /\ \A k \in 1..Len(s) : Reverse(s)[k] = s[Len(s) - k + 1]
           /\ ToSet(Reverse(s)) = ToSet(s)
           /\ NoRepeat(s) => NoRepeat(Reverse(s))
<1> DEFINE r == Reverse(s)
           n == Len(s)
<1>1. n \in Nat /\ \A k \in 1..n : n - k + 1 \in 1..n /\ n - (n - k + 1) + 1 = k /\ s[k] \in V
  OBVIOUS
<1>2. r = [k \in 1..n |-> s[(n - k) + 1]]
  BY DEF Reverse
<1>3. r \in Seq(V) /\ Len(r) = n /\ \A k \in 1..n : r[k] = s[n - k + 1]
  BY <1>1, <1>2
<1> HIDE DEF r
<1>4. ToSet(r) = {r[k] : k \in 1..n} /\ ToSet(s) = {s[k] : k \in 1..n}
  BY <1>3, ElementsOf
<1>5. ToSet(r) = ToSet(s)
  <2>1. ASSUME NEW k \in 1..n PROVE r[k] \in ToSet(s)
    BY <1>1, <1>3, <1>4
  <2>2. ASSUME NEW k \in 1..n PROVE s[k] \in ToSet(r)
    <3>1. r[n - k + 1] = s[k] /\ n - k + 1 \in 1..n
      BY <1>1, <1>3
    <3> QED  BY <1>4, <3>1
  <2> QED  BY <1>4, <2>1, <2>2
<1>6. ASSUME NoRepeat(s), NEW j \in 1..n, NEW k \in 1..n, r[j] = r[k] PROVE j = k
  <2>1. n - j + 1 = n - k + 1
    BY <1>1, <1>3, <1>6 DEF NoRepeat
  <2> QED  BY <1>1, <2>1
<1> QED  BY <1>1, <1>3, <1>5, <1>6 DEF r, NoRepeat

\* The stack after the children of its first vertex were put in front.
LEMMA PushFacts ==
    ASSUME NEW V, NEW w \in Seq(V), w # <<>>, NEW s \in Seq(V)
    PROVE  /\ Reverse(s) \o Tail(w) \in Seq(V)
           /\ Len(Reverse(s) \o Tail(w)) = Len(s) + Len(w) - 1
           /\ ToSet(Reverse(s) \o Tail(w)) = ToSet(s) \cup ToSet(Tail(w))
           /\ \A k \in 1..Len(s) : (Reverse(s) \o Tail(w))[k] \in ToSet(s)
           /\ \A k \in 2..Len(w) : (Reverse(s) \o Tail(w))[Len(s) + k - 1] = w[k]
<1> DEFINE r == Reverse(s)
           t == Tail(w)
           u == r \o t
<1>1. r \in Seq(V) /\ Len(r) = Len(s) /\ Len(s) \in Nat /\ ToSet(r) = ToSet(s)
  BY ReverseFacts
<1>2. t \in Seq(V) /\ Len(t) = Len(w) - 1 /\ Len(w) \in Nat /\ \A k \in 1..Len(t) : t[k] = w[k + 1]
  BY TailFacts
<1> HIDE DEF r, t
<1>3. /\ u \in Seq(V) /\ Len(u) = Len(r) + Len(t) /\ ToSet(u) = ToSet(r) \cup ToSet(t)
      /\ \A k \in 1..Len(r) : u[k] = r[k]
      /\ \A k \in 1..Len(t) : u[Len(r) + k] = t[k]
  BY <1>1, <1>2, ConcatFacts
<1>4. \A k \in 1..Len(s) : u[k] \in ToSet(s)
  BY <1>1, <1>3, ElementsOf
<1>5. ASSUME NEW k \in 2..Len(w) PROVE u[Len(s) + k - 1] = w[k]
  <2>1. k - 1 \in 1..Len(t) /\ Len(r) + (k - 1) = Len(s) + k - 1 /\ (k - 1) + 1 = k
    BY <1>1, <1>2
  <2> QED  BY <1>2, <1>3, <2>1
<1> QED  BY <1>1, <1>2, <1>3, <1>4, <1>5 DEF r, t

\* The blocks of nodes.
IDsOK ==
    /\ \A i \in Instances : blockID[i] # None => blockID[i] \in Domains /\ i \in domains[blockID[i]]
    /\ \A a \in Domains : \A i \in domains[a] : blockID[i] = a

\* Blocks found so far, each with its index at all its nodes and at no other.
BlocksOK ==
    /\ blocks \in Seq(Domains) /\ NoRepeat(blocks)
    /\ blockIndx \in [Instances -> Nat]
    /\ \A k \in 1..Len(blocks) : \A i \in domains[blocks[k]] : blockIndx[i] = k
    /\ \A i \in Instances : blockIndx[i] # 0 =>
           blockIndx[i] \in 1..Len(blocks) /\ i \in domains[blocks[blockIndx[i]]]

\* Nodes without an index are still to come.
Pending ==
    \A a \in Domains : \A i \in domains[a] :
        blockIndx[i] = 0 => \E w \in ToSet(work) : Leads(KidsOf, w, i)

\* All blocks are found.
Found == \A a \in Domains : \A i \in domains[a] : blockIndx[i] # 0

BlocksInv ==
    /\ phase \in {"reports", "initTree"} \cup Early =>
           blocks = <<>> /\ blockIndx = [i \in Instances |-> 0]
    /\ phase = "initBlocks" => work \in Seq(All) /\ IDsOK /\ BlocksOK /\ Pending
    /\ phase \in Written => BlocksOK /\ Found

\* No node is in two domains.
LEMMA DomainsApart ==
    ASSUME Settled
    PROVE  /\ \A a \in Domains : a \in Accelerators /\ domains[a] # {} /\ domains[a] \subseteq Instances
                                 /\ domains[a] \subseteq Requested /\ a # None
           /\ \A a, b \in Domains : \A i \in domains[a] : i \in domains[b] => a = b
<1>1. \A a \in Accelerators : domains[a] \subseteq Requested
  BY DEF Settled
<1> QED  BY <1>1, GraphAssumption DEF Settled, NoNodeTwice, Domains

LEMMA BlocksStart ==
    ASSUME Settled, blocks = <<>>, blockIndx = [i \in Instances |-> 0], setBlockIDs
    PROVE  work' \in Seq(All) /\ IDsOK' /\ BlocksOK' /\ Pending'
<1>0. /\ KidsOf' = KidsOf /\ Domains' = Domains /\ domains' = domains
      /\ blocks' = blocks /\ blockIndx' = blockIndx
  BY KidsStay DEF setBlockIDs, inputVars
<1> DEFINE one(i) == CHOOSE a \in Domains : i \in domains[a]
<1>1. blockID' = [i \in Instances |-> IF \E a \in Domains : i \in domains[a] THEN one(i) ELSE None]
  BY DEF setBlockIDs
<1>2. \A i \in Instances : (\E a \in Domains : i \in domains[a]) =>
          one(i) \in Domains /\ i \in domains[one(i)]
  OBVIOUS
<1> HIDE DEF one
<1>3. IDsOK'
  BY <1>0, <1>1, <1>2, DomainsApart DEF IDsOK
<1>4. BlocksOK'
  BY <1>0 DEF BlocksOK, NoRepeat
<1>5. CASE Domains = {}
  <2>1. work' = <<>>
    BY <1>5 DEF setBlockIDs
  <2> QED  BY <1>0, <1>3, <1>4, <1>5, <2>1 DEF Pending
<1>6. CASE Domains # {}
  <2>1. work' = <<TreeRoot>> /\ TreeRoot \in ToSet(work')
    BY <1>6, WalkBegin DEF setBlockIDs
  <2>2. \A a \in Domains : \A i \in domains[a] : Leads(KidsOf, TreeRoot, i)
    BY DomainsApart, LeadsDown
  <2>3. work' \in Seq(All)
    BY <2>1, KidsFacts
  <2> QED  BY <1>0, <1>3, <1>4, <2>1, <2>2, <2>3 DEF Pending
<1> QED  BY <1>5, <1>6

\* The block of the vertex is added, or nothing.
LEMMA MarkStep ==
    ASSUME Settled, IDsOK, BlocksOK, NEW v \in Instances, blockID[v] # None, blockIndx[v] = 0,
           UNCHANGED inputVars, markBlockNodes(v)
    PROVE  /\ BlocksOK' /\ blockIndx'[v] # 0
           /\ \A i \in Instances : blockIndx[i] # 0 => blockIndx'[i] # 0
<1> DEFINE a == blockID[v]
           n == Len(blocks) + 1
<1>1. a \in Domains /\ v \in domains[a] /\ Domains' = Domains /\ domains' = domains
  BY KidsStay DEF IDsOK, inputVars
<1>2. /\ blocks \in Seq(Domains) /\ NoRepeat(blocks) /\ blockIndx \in [Instances -> Nat]
      /\ n \in Nat /\ n # 0
  BY DEF BlocksOK
<1>3. blocks' = Append(blocks, a) /\ blockIndx' = [i \in Instances |-> IF i \in domains[a] THEN n ELSE blockIndx[i]]
  BY DEF markBlockNodes
<1> HIDE DEF a
<1>4. /\ blocks' \in Seq(Domains) /\ Len(blocks') = n /\ blocks'[n] = a
      /\ \A k \in 1..Len(blocks) : blocks'[k] = blocks[k] /\ blocks[k] \in Domains
      /\ \A k \in 1..n : k = n \/ k \in 1..Len(blocks)
      /\ \A k \in 1..Len(blocks) : k \in 1..n /\ k # n
      /\ n \in 1..n
  BY <1>1, <1>2, <1>3
<1>5. \A k \in 1..Len(blocks) : blocks[k] # a
  <2> SUFFICES ASSUME NEW k \in 1..Len(blocks), blocks[k] = a PROVE FALSE
    OBVIOUS
  <2>1. blockIndx[v] = k
    BY <1>1 DEF BlocksOK
  <2> QED  BY <2>1
<1>6. NoRepeat(blocks')
  BY <1>2, <1>4, <1>5 DEF NoRepeat
<1>7. \A k \in 1..Len(blocks) : domains[blocks[k]] \cap domains[a] = {}
  BY <1>1, <1>4, <1>5, DomainsApart
<1>8. blockIndx' \in [Instances -> Nat]
  BY <1>2, <1>3
<1> HIDE DEF n
<1>9. \A k \in 1..Len(blocks') : \A i \in domains[blocks'[k]] : blockIndx'[i] = k
  <2>1. \A b \in Domains : domains[b] \subseteq Instances
    BY DomainsApart
  <2>2. ASSUME NEW k \in 1..Len(blocks), NEW i \in domains[blocks'[k]] PROVE blockIndx'[i] = k
    BY <1>3, <1>4, <1>7, <2>1, <2>2 DEF BlocksOK
  <2>3. ASSUME NEW i \in domains[a] PROVE blockIndx'[i] = n
    BY <1>1, <1>3, <2>1
  <2> QED  BY <1>4, <2>2, <2>3
<1>10. \A i \in Instances : blockIndx'[i] # 0 =>
           blockIndx'[i] \in 1..Len(blocks') /\ i \in domains[blocks'[blockIndx'[i]]]
  BY <1>2, <1>3, <1>4 DEF BlocksOK
<1> QED  BY <1>1, <1>2, <1>3, <1>4, <1>6, <1>8, <1>9, <1>10 DEF BlocksOK

\* What the stack is after a step.
LEMMA StackStep ==
    ASSUME Settled, ConfigOK, work \in Seq(All), initBlocks
    PROVE  \E s \in Seq(All) :
              /\ work' = Reverse(s) \o Tail(work) /\ work # <<>>
              /\ ToSet(s) = KidsOf[Head(work)] /\ NoRepeat(s)
<1> DEFINE h == Head(work)
           s == SortedSet(Kids(h), order)
<1>1. work # <<>> /\ work' = Reverse(s) \o Tail(work)
  BY DEF initBlocks, push
<1>2. h \in All
  BY <1>1, TailFacts
<1>3. Kids(h) = KidsOf[h] /\ IsFiniteSet(Kids(h)) /\ Kids(h) \subseteq Vertices /\ Kids(h) \subseteq All
  BY <1>2, KidsFacts
<1>4. /\ \A x \in Vertices : order[x] \in Nat
      /\ \A x, y \in Vertices : order[x] = order[y] => x = y
  BY TopoAssumption DEF ConfigOK
<1> HIDE DEF h
<1>5. /\ s \in Seq(Kids(h)) /\ Len(s) = Cardinality(Kids(h)) /\ ToSet(s) = Kids(h)
      /\ Len(s) \in Nat
      /\ \A j, k \in 1..Len(s) : j < k => order[s[j]] < order[s[k]]
  BY <1>3, <1>4, SortedSetFacts
<1> HIDE DEF s
<1>6. s \in Seq(All)
  BY <1>3, <1>5
<1>7. ASSUME NEW j \in 1..Len(s), NEW k \in 1..Len(s), s[j] = s[k] PROVE j = k
  <2>1. order[s[j]] \in Nat
    BY <1>3, <1>4, <1>5
  <2>2. ~(j < k) /\ ~(k < j)
    BY <1>5, <1>7, <2>1
  <2> QED  BY <1>5, <2>2
<1> QED  BY <1>1, <1>3, <1>5, <1>6, <1>7 DEF NoRepeat, h

LEMMA InitBlocksStep ==
    ASSUME Settled, ConfigOK, work \in Seq(All), IDsOK, BlocksOK, Pending, initBlocks
    PROVE  work' \in Seq(All) /\ IDsOK' /\ BlocksOK' /\ Pending'
<1> DEFINE h == Head(work)
           Mark == h \in Instances /\ blockID[h] # None /\ blockIndx[h] = 0
<1>0. /\ UNCHANGED inputVars /\ KidsOf' = KidsOf /\ Domains' = Domains /\ domains' = domains
      /\ blockID' = blockID
  BY KidsStay DEF initBlocks, graphVars, inputVars
<1>1. PICK s \in Seq(All) :
              /\ work' = Reverse(s) \o Tail(work) /\ work # <<>>
              /\ ToSet(s) = KidsOf[h] /\ NoRepeat(s)
  BY StackStep
<1>2. /\ work' \in Seq(All) /\ ToSet(work') = KidsOf[h] \cup ToSet(Tail(work))
      /\ ToSet(work) = {h} \cup ToSet(Tail(work)) /\ h \in All
  BY <1>1, PushFacts, TailFacts
<1>3. IDsOK'
  BY <1>0 DEF IDsOK
<1>4. /\ BlocksOK' /\ \A i \in Instances : blockIndx[i] # 0 => blockIndx'[i] # 0
      /\ h \in Instances /\ blockID[h] # None => blockIndx'[h] # 0
  <2>1. CASE Mark
    BY <1>0, <2>1, MarkStep DEF initBlocks
  <2>2. CASE ~Mark
    <3>1. blocks' = blocks /\ blockIndx' = blockIndx
      BY <2>2 DEF initBlocks
    <3> QED  BY <1>0, <2>2, <3>1 DEF BlocksOK
  <2> QED  BY <2>1, <2>2
<1> HIDE DEF h
<1>5. Pending'
  <2> SUFFICES ASSUME NEW a \in Domains, NEW i \in domains[a], blockIndx'[i] = 0
               PROVE  \E w \in ToSet(work') : Leads(KidsOf, w, i)
    BY <1>0 DEF Pending
  <2>1. i \in Instances /\ blockID[i] = a /\ a # None
    BY DomainsApart DEF IDsOK
  <2>2. i # h
    BY <1>4, <2>1
  <2>3. PICK w \in ToSet(work) : Leads(KidsOf, w, i)
    BY <1>4, <2>1 DEF Pending
  <2>4. CASE w \in ToSet(Tail(work))
    BY <1>2, <2>3, <2>4
  <2>5. CASE w = h
    <3>1. PICK c \in KidsOf[h] : Leads(KidsOf, c, i)
      BY <2>2, <2>3, <2>5 DEF Leads
    <3> QED  BY <1>2, <3>1
  <2> QED  BY <1>2, <2>4, <2>5
<1> QED  BY <1>2, <1>3, <1>4, <1>5

LEMMA BlocksStep ==
    ASSUME BaseInv, BlocksInv, [PartitionNext]_partitionVars
    PROVE  BlocksInv'
<1> USE DEF partitionVars, topoVars, graphVars, infoVars
<1>0. phase # "reports" =>
          /\ Settled /\ ConfigOK /\ KidsOf' = KidsOf /\ Domains' = Domains /\ domains' = domains
  BY Frozen, KidsStay DEF BaseInv, inputVars
<1>1. CASE phase = "reports"
  <2>1. blocks' = blocks /\ blockIndx' = blockIndx /\ phase' \in {"reports", "built"}
    BY <1>1, StepReports DEF AddReport, AddMissing
  <2> QED  BY <1>1, <2>1 DEF BlocksInv, Early, Written
<1>2. CASE phase \in Early
  <2>1. blocks' = blocks /\ blockIndx' = blockIndx /\ phase' \in Early \cup {"initTree", "rejected"}
    BY <1>2, StepEarly DEF Early, GetTranslateConfig, Validate, GetTopologies, ValidateTopologies
  <2> QED  BY <1>2, <2>1 DEF BlocksInv, Early, Written
<1>3. CASE phase = "initTree"
  <2>0. blocks = <<>> /\ blockIndx = [i \in Instances |-> 0]
    BY <1>3 DEF BlocksInv
  <2>1. CASE setBlockIDs
    <3>1. work' \in Seq(All) /\ IDsOK' /\ BlocksOK' /\ Pending' /\ phase' = "initBlocks"
      BY <1>0, <1>3, <2>0, <2>1, BlocksStart DEF setBlockIDs
    <3> QED  BY <3>1 DEF BlocksInv, Early, Written
  <2>2. CASE blocks' = blocks /\ blockIndx' = blockIndx /\ phase' = phase
    BY <1>3, <2>0, <2>2 DEF BlocksInv, Written
  <2> QED  BY <1>3, <2>1, <2>2, StepInitTree DEF initTree
<1>4. CASE phase = "initBlocks"
  <2>0. work \in Seq(All) /\ IDsOK /\ BlocksOK /\ Pending
    BY <1>4 DEF BlocksInv
  <2>1. CASE initBlocks
    <3>1. work' \in Seq(All) /\ IDsOK' /\ BlocksOK' /\ Pending' /\ phase' = "initBlocks"
      BY <1>0, <1>4, <2>0, <2>1, InitBlocksStep DEF initBlocks
    <3> QED  BY <3>1 DEF BlocksInv, Early, Written
  <2>2. CASE UNCHANGED partitionVars
    BY <1>0, <1>4, <2>0, <2>2 DEF BlocksInv, IDsOK, BlocksOK, Pending, Early, Written
  <2>3. CASE /\ work = <<>> /\ phase' \in Written /\ UNCHANGED infoVars
    <3>1. ToSet(work) = {}
      BY <2>3 DEF ToSet
    <3>2. Found
      BY <2>0, <3>1 DEF Pending, Found
    <3>3. Found' /\ BlocksOK'
      BY <1>0, <1>4, <2>0, <2>3, <3>2 DEF Found, BlocksOK
    <3> QED  BY <2>3, <3>3 DEF BlocksInv, Early, Written
  <2>4. plugin \in {"none", "tree", "block"}
    BY <1>4 DEF BaseInv, PhaseInv
  <2> QED  BY <1>4, <2>1, <2>2, <2>3, <2>4, StepInitBlocks DEF StartOutput, StartYaml, Written
<1>5. CASE phase \in Written
  <2>1. UNCHANGED infoVars /\ phase' \in Written
    BY <1>5, TreeStays DEF BaseInv
  <2>2. Found' /\ BlocksOK'
    BY <1>0, <1>5, <2>1 DEF BlocksInv, Found, BlocksOK, Written
  <2> QED  BY <2>1, <2>2 DEF BlocksInv, Early, Written
<1>6. CASE phase = "rejected"
  <2>1. phase' = phase
    BY <1>6, StepEnded DEF Ended
  <2> QED  BY <1>6, <2>1 DEF BlocksInv, Early, Written
<1> QED  BY <1>1, <1>2, <1>3, <1>4, <1>5, <1>6 DEF BaseInv, PhaseInv, Ended, Written

LEMMA BlocksInvariance == PartitionSpec => []BlocksInv
<1>1. PartitionInit => BlocksInv
  BY DEF PartitionInit, TopoInit, GraphInit, BlocksInv, Early, Written
<1>2. BaseInv /\ BlocksInv /\ [PartitionNext]_partitionVars => BlocksInv'
  BY BlocksStep
<1> QED  BY <1>1, <1>2, BaseInvariance, PTL DEF PartitionSpec

\* When all blocks are found, they are the accelerator domains, each once.
LEMMA AllBlocks ==
    ASSUME Settled, BlocksOK, Found
    PROVE  /\ \A a \in Domains : \E k \in 1..Len(blocks) : blocks[k] = a
           /\ ToSet(blocks) = Domains
           /\ IsFiniteSet(Domains) /\ Cardinality(Domains) = Len(blocks)
           /\ Len(blocks) \in Nat /\ DOMAIN blocks = 1..Len(blocks)
<1>1. blocks \in Seq(Domains) /\ NoRepeat(blocks) /\ Len(blocks) \in Nat /\ DOMAIN blocks = 1..Len(blocks)
  BY DEF BlocksOK
<1>2. ASSUME NEW a \in Domains PROVE \E k \in 1..Len(blocks) : blocks[k] = a
  <2>1. PICK i \in domains[a] : i \in Instances
    BY DomainsApart
  <2>2. blockIndx[i] \in 1..Len(blocks) /\ i \in domains[blocks[blockIndx[i]]]
    BY <2>1 DEF Found, BlocksOK
  <2>3. blocks[blockIndx[i]] = a
    BY <1>1, <2>1, <2>2, DomainsApart
  <2> QED  BY <2>2, <2>3
<1>3. ToSet(blocks) = Domains
  <2>1. ToSet(blocks) = {blocks[k] : k \in 1..Len(blocks)} /\ ToSet(blocks) \subseteq Domains
    BY <1>1, ElementsOf
  <2> QED  BY <1>2, <2>1
<1>4. blocks \in Bijection(1..Len(blocks), Domains)
  <2>1. blocks \in [1..Len(blocks) -> Domains]
    BY <1>1
  <2> QED  BY <1>1, <1>2, <2>1 DEF NoRepeat, Bijection, Injection, Surjection, IsInjective
<1>5. IsFiniteSet(1..Len(blocks)) /\ Cardinality(1..Len(blocks)) = Len(blocks)
  BY <1>1, IntervalSize
<1>6. ExistsBijection(1..Len(blocks), Domains)
  BY <1>4 DEF ExistsBijection
<1> QED  BY <1>1, <1>2, <1>3, <1>5, <1>6, FS_Bijection

----------------------------------------------------------------------------
(* Block sizes.                                                             *)

\* The first of the sizes is the request's, or the base they are measured by.
LEMMA FirstSize ==
    ASSUME NEW sizes \in Seq(Nat), NEW requested, NEW useFake
    PROVE  getBlockSize(sizes, requested, useFake)[1] =
               IF Accepted(sizes, requested, useFake) THEN requested[1]
               ELSE minDomainSize(sizes, requested, useFake)
<1> DEFINE n == Log2(Len(sizes))
           base == minDomainSize(sizes, requested, useFake)
           f == [l \in 1..n |-> 2 ^ l * base]
<1>1. getBlockSize(sizes, requested, useFake) =
          IF Accepted(sizes, requested, useFake) THEN requested ELSE <<base>> \o f
  BY DEF getBlockSize
<1>2. n \in Nat \/ n = -1
  <2>1. Len(sizes) \in Nat
    OBVIOUS
  <2> DEFINE S == {k \in 1..Len(sizes) : 2 ^ k <= Len(sizes)}
  <2>2. S \subseteq 1..Len(sizes)
    OBVIOUS
  <2>3. n = IF Len(sizes) = 0 THEN -1 ELSE Cardinality(S)
    BY DEF Log2
  <2> HIDE DEF S
  <2>4. Cardinality(S) \in Nat
    BY <2>1, <2>2, IntervalSize, FS_Subset, FS_CardinalityType
  <2> QED  BY <2>3, <2>4
<1>3. DOMAIN f = 1..n /\ f = [l \in 1..n |-> f[l]]
  OBVIOUS
<1> HIDE DEF n, base, f
<1> DEFINE V == {f[l] : l \in 1..n} \cup {base}
<1>4. f \in Seq(V) /\ base \in V
  <2>0. base \in V /\ \A l \in 1..n : f[l] \in V
    OBVIOUS
  <2> HIDE DEF V
  <2>1. CASE n \in Nat
    BY <1>3, <2>0, <2>1
  <2>2. CASE n = -1
    <3>1. f = <<>>
      BY <1>3, <2>2
    <3> QED  BY <2>0, <3>1
  <2> QED  BY <1>2, <2>0, <2>1, <2>2
<1> HIDE DEF V
<1>5. (<<base>> \o f)[1] = base
  BY <1>4
<1> QED  BY <1>1, <1>5 DEF base

\* The smallest domain is a domain.
LEMMA MinSize ==
    ASSUME NEW sizes \in Seq(Nat), sizes # <<>>
    PROVE  /\ findMinDomainSize(sizes) \in ToSet(sizes)
           /\ \A x \in ToSet(sizes) : findMinDomainSize(sizes) <= x
<1>1. ToSet(sizes) \subseteq Nat /\ ToSet(sizes) # {}
  BY ElementsOf
<1>2. \E m \in ToSet(sizes) : \A n \in ToSet(sizes) : m <= n
  BY <1>1, LeastNat
<1>3. findMinDomainSize(sizes) = CHOOSE x \in ToSet(sizes) : \A y \in ToSet(sizes) : x <= y
  BY DEF findMinDomainSize, Min
<1> QED  BY <1>2, <1>3

\* The base size is a number; without fake nodes, no block is smaller, and it
\* is not zero if no block is empty.
LEMMA BaseSize ==
    ASSUME NEW sizes \in Seq(Nat), NEW requested \in Seq(Int), NEW useFake \in BOOLEAN
    PROVE  /\ getBlockSize(sizes, requested, useFake)[1] \in Int
           /\ sizes # <<>> /\ ~useFake =>
                  /\ \A k \in 1..Len(sizes) : getBlockSize(sizes, requested, useFake)[1] <= sizes[k]
                  /\ (\A k \in 1..Len(sizes) : 0 < sizes[k]) =>
                         0 < getBlockSize(sizes, requested, useFake)[1]
<1> DEFINE b == getBlockSize(sizes, requested, useFake)[1]
           m == findMinDomainSize(sizes)
           d == minDomainSize(sizes, requested, useFake)
<1>1. b = IF Accepted(sizes, requested, useFake) THEN requested[1] ELSE d
  BY FirstSize
<1>2. Accepted(sizes, requested, useFake) => requested # <<>> /\ requested[1] > 0 /\ requested[1] <= d
  BY DEF Accepted
<1>3. requested # <<>> => requested[1] \in Int
  OBVIOUS
<1>4. d = IF useFake /\ requested # <<>> THEN requested[1] ELSE m
  BY DEF minDomainSize
<1>5. m \in Int
  <2>1. ToSet(sizes) \subseteq Nat
    BY ElementsOf
  <2> QED  BY <2>1, MinSize DEF findMinDomainSize
<1>6. sizes # <<>> => m \in ToSet(sizes) /\ \A k \in 1..Len(sizes) : m <= sizes[k]
  <2>1. \A k \in 1..Len(sizes) : sizes[k] \in ToSet(sizes)
    BY ElementsOf
  <2> QED  BY <2>1, MinSize
<1>7. sizes # <<>> => \E k \in 1..Len(sizes) : m = sizes[k]
  <2>1. ToSet(sizes) = {sizes[k] : k \in 1..Len(sizes)}
    BY ElementsOf
  <2> QED  BY <1>6, <2>1
<1> HIDE DEF b, m, d
<1>8. b \in Int /\ (sizes # <<>> /\ ~useFake => b <= m /\ (m > 0 => b > 0))
  BY <1>1, <1>2, <1>3, <1>4, <1>5
<1>9. \A k \in 1..Len(sizes) : sizes[k] \in Nat
  OBVIOUS
<1> QED  BY <1>5, <1>6, <1>7, <1>8, <1>9 DEF b

----------------------------------------------------------------------------
(* toBlockTopology.                                                         *)

\* The lines written so far, and what is left of the blocks.
LinesOK ==
    /\ index \in Nat
    /\ lines \in Seq([block : Domains, from : Nat, to : Nat])
    /\ \A k \in 1..Len(lines) :
           /\ lines[k].block = blocks[k]
           /\ lines[k].to = lines[k].from + Lacking(blocks[k])
           /\ lines[k].to <= index
    /\ \A k, l \in 1..Len(lines) : k < l => lines[k].to <= lines[l].from
    /\ work \in Seq(Domains) /\ Len(lines) + Len(work) = Len(blocks)
    /\ \A k \in 1..Len(work) : work[k] = blocks[Len(lines) + k]

LinesInv ==
    /\ phase \notin {"block", "done", "failed"} => lines = <<>> /\ index = 0
    /\ phase \in {"block", "done"} /\ plugin = "block" => LinesOK

\* The sizes of blocks.
LEMMA SizeFacts ==
    ASSUME Settled, BlocksOK, ConfigOK
    PROVE  /\ \A a \in Domains : Size(a) \in Nat /\ Size(a) > 0
           /\ baseBlockSize \in Int
           /\ \A a \in Domains : Lacking(a) \in Nat
           /\ pool = 0 => \A k \in 1..Len(blocks) : Size(blocks[k]) >= baseBlockSize
<1>1. \A a \in Domains : Size(a) \in Nat /\ Size(a) > 0
  <2> SUFFICES ASSUME NEW a \in Domains PROVE Size(a) \in Nat /\ Size(a) > 0
    OBVIOUS
  <2>1. domains[a] # {} /\ IsFiniteSet(domains[a])
    BY DomainsApart, TopoAssumption, FS_Subset DEF Vertices
  <2> QED  BY <2>1, FS_CardinalityType, FS_EmptySet DEF Size
<1>2. blocks \in Seq(Domains) /\ blockSizes \in Seq(Int) /\ pool \in Nat
  BY DEF BlocksOK, ConfigOK
<1> DEFINE sz == [k \in DOMAIN blocks |-> Size(blocks[k])]
<1>3. sz \in Seq(Nat) /\ Len(sz) = Len(blocks) /\ \A k \in 1..Len(blocks) : sz[k] = Size(blocks[k])
  <2>1. DOMAIN blocks = 1..Len(blocks) /\ Len(blocks) \in Nat /\ \A k \in 1..Len(blocks) : Size(blocks[k]) \in Nat
    BY <1>1, <1>2
  <2> QED  BY <2>1
<1>4. baseBlockSize = getBlockSize(sz, blockSizes, pool > 0)[1]
  BY DEF baseBlockSize
<1> HIDE DEF sz
<1>5. (pool > 0) \in BOOLEAN
  OBVIOUS
<1>6. /\ baseBlockSize \in Int
      /\ sz # <<>> /\ ~(pool > 0) => \A k \in 1..Len(sz) : baseBlockSize <= sz[k]
  BY <1>2, <1>3, <1>4, <1>5, BaseSize
<1>7. \A k \in 1..Len(blocks) : sz # <<>>
  BY <1>2, <1>3
<1>8. \A k \in 1..Len(blocks) : blocks[k] \in Domains
  BY <1>2
<1>9. \A a \in Domains : Lacking(a) \in Nat
  BY <1>1, <1>6 DEF Lacking
<1>10. ASSUME pool = 0, NEW k \in 1..Len(blocks) PROVE Size(blocks[k]) >= baseBlockSize
  BY <1>1, <1>3, <1>6, <1>7, <1>8, <1>10
<1> QED  BY <1>1, <1>6, <1>9, <1>10

\* They do not change.
LEMMA LackingStays ==
    ASSUME domains' = domains, blocks' = blocks, blockSizes' = blockSizes, pool' = pool
    PROVE  \A k \in 1..Len(blocks) : Lacking(blocks[k])' = Lacking(blocks[k])
<1>1. baseBlockSize' = baseBlockSize
  BY DEF baseBlockSize, Size
<1> QED  BY <1>1 DEF Lacking, Size

LEMMA ToBlockTopologyStep ==
    ASSUME Settled, BlocksOK, ConfigOK, LinesOK, work # <<>>,
           domains' = domains, blocks' = blocks, blockSizes' = blockSizes, pool' = pool,
           work' = Tail(work), getFreeFakeNodes(Lacking(Head(work)))
    PROVE  LinesOK'
<1> DEFINE n == Len(lines) + 1
           c == Lacking(Head(work))
           line == [block |-> Head(work), from |-> index, to |-> index + c]
<1>1. /\ work \in Seq(Domains) /\ Len(work) \in Nat /\ Len(work) >= 1 /\ Head(work) = work[1]
      /\ Head(work) \in Domains /\ Tail(work) \in Seq(Domains) /\ Len(Tail(work)) = Len(work) - 1
      /\ \A k \in 1..Len(Tail(work)) : Tail(work)[k] = work[k + 1]
  BY TailFacts DEF LinesOK
<1>2. /\ lines \in Seq([block : Domains, from : Nat, to : Nat]) /\ Len(lines) \in Nat /\ index \in Nat
      /\ blocks \in Seq(Domains) /\ Len(blocks) \in Nat
  BY DEF LinesOK, BlocksOK
<1>3. c \in Nat /\ index' = index + c /\ lines' = Append(lines, line)
  BY <1>1, SizeFacts DEF getFreeFakeNodes
<1>4. Domains' = Domains /\ \A k \in 1..Len(blocks) : Lacking(blocks[k])' = Lacking(blocks[k])
  BY LackingStays DEF Domains
<1>5. Head(work) = blocks[n]
  BY <1>1, <1>2 DEF LinesOK
<1> HIDE DEF c
<1>6. line \in [block : Domains, from : Nat, to : Nat]
  BY <1>1, <1>2, <1>3
<1>7. /\ line.block = Head(work) /\ line.from = index /\ line.to = index + c
  OBVIOUS
<1> HIDE DEF line
<1>8. /\ lines' \in Seq([block : Domains, from : Nat, to : Nat]) /\ Len(lines') = n
      /\ lines'[n] = line /\ \A k \in 1..Len(lines) : lines'[k] = lines[k]
      /\ \A k \in 1..n : k = n \/ k \in 1..Len(lines)
      /\ n \in Nat
  BY <1>2, <1>3, <1>6
<1>9. /\ \A k \in 1..n : k \in 1..Len(blocks) /\ blocks[k] \in Domains
      /\ \A k \in 1..Len(lines) : lines[k].to \in Nat /\ lines[k].from \in Nat
  <2>1. \A k \in 1..n : k \in 1..Len(blocks)
    BY <1>1, <1>2 DEF LinesOK
  <2>2. \A k \in 1..Len(lines) : lines[k] \in [block : Domains, from : Nat, to : Nat]
    <3> DEFINE R == [block : Domains, from : Nat, to : Nat]
    <3>1. lines \in Seq(R)
      BY <1>2
    <3> HIDE DEF R
    <3>2. \A k \in 1..Len(lines) : lines[k] \in R
      BY <3>1
    <3> QED  BY <3>2 DEF R
  <2> QED  BY <1>2, <2>1, <2>2
<1>10. \A k \in 1..Len(lines') :
           /\ lines'[k].block = blocks'[k]
           /\ lines'[k].to = lines'[k].from + Lacking(blocks[k])
           /\ lines'[k].to <= index'
  <2>1. ASSUME NEW k \in 1..Len(lines)
        PROVE  /\ lines'[k].block = blocks'[k]
               /\ lines'[k].to = lines'[k].from + Lacking(blocks[k])
               /\ lines'[k].to <= index'
    <3>1. /\ lines[k].block = blocks[k] /\ lines[k].to = lines[k].from + Lacking(blocks[k])
          /\ lines[k].to <= index
      BY DEF LinesOK
    <3>2. lines[k].to <= index'
      BY <1>2, <1>3, <1>9, <3>1
    <3> QED  BY <1>4, <1>8, <1>9, <3>1, <3>2
  <2>2. /\ lines'[n].block = blocks'[n]
        /\ lines'[n].to = lines'[n].from + Lacking(blocks[n])
        /\ lines'[n].to <= index'
    <3>1. Lacking(blocks[n]) = c
      BY <1>5 DEF c
    <3> QED  BY <1>2, <1>3, <1>5, <1>7, <1>8, <3>1
  <2> QED  BY <1>8, <2>1, <2>2
<1>11. \A k, l \in 1..Len(lines') : k < l => lines'[k].to <= lines'[l].from
  <2> SUFFICES ASSUME NEW k \in 1..n, NEW l \in 1..n, k < l PROVE lines'[k].to <= lines'[l].from
    BY <1>8
  <2>1. k \in 1..Len(lines)
    BY <1>2
  <2>2. CASE l = n
    BY <1>7, <1>8, <2>1, <2>2 DEF LinesOK
  <2>3. CASE l \in 1..Len(lines)
    BY <1>8, <2>1, <2>3 DEF LinesOK
  <2> QED  BY <1>8, <2>2, <2>3
<1>12. Len(lines') + Len(work') = Len(blocks') /\ index' \in Nat
  BY <1>1, <1>2, <1>3, <1>8 DEF LinesOK
<1>13. \A k \in 1..Len(work') : work'[k] = blocks'[Len(lines') + k]
  <2> SUFFICES ASSUME NEW k \in 1..Len(work') PROVE work'[k] = blocks[Len(lines') + k]
    OBVIOUS
  <2>1. k + 1 \in 1..Len(work) /\ Len(lines) + (k + 1) = Len(lines') + k
    BY <1>1, <1>2, <1>8
  <2>2. work[k + 1] = blocks[Len(lines) + (k + 1)]
    BY <2>1 DEF LinesOK
  <2> QED  BY <1>1, <2>1, <2>2
<1>14. \A k \in 1..Len(lines') : Lacking(blocks[k])' = Lacking(blocks[k])
  BY <1>4, <1>8, <1>9
<1> QED  BY <1>1, <1>4, <1>8, <1>10, <1>11, <1>12, <1>13, <1>14 DEF LinesOK

LEMMA LinesStep ==
    ASSUME BaseInv, BlocksInv, LinesInv, [PartitionNext]_partitionVars
    PROVE  LinesInv'
<1> USE DEF partitionVars, topoVars, graphVars, outVars
<1>0. phase # "reports" =>
          /\ Settled /\ ConfigOK /\ Domains' = Domains /\ domains' = domains
          /\ phase \notin Early => plugin' = plugin /\ blockSizes' = blockSizes /\ pool' = pool
  BY Frozen, KidsStay DEF BaseInv, inputVars, configVars
<1>1. CASE phase = "reports"
  <2>1. lines' = lines /\ index' = index /\ phase' \in {"reports", "built"}
    BY <1>1, StepReports DEF AddReport, AddMissing
  <2> QED  BY <1>1, <2>1 DEF LinesInv
<1>2. CASE phase \in Early
  <2>1. lines' = lines /\ index' = index /\ phase' \notin {"block", "done", "failed"}
    BY <1>2, StepEarly DEF Early, GetTranslateConfig, Validate, GetTopologies, ValidateTopologies
  <2> QED  BY <1>2, <2>1 DEF LinesInv, Early
<1>3. CASE phase = "initTree"
  <2>1. lines' = lines /\ index' = index /\ phase' \notin {"block", "done", "failed"}
    BY <1>3, StepInitTree DEF initTree, setBlockIDs
  <2> QED  BY <1>3, <2>1 DEF LinesInv
<1>4. CASE phase = "initBlocks"
  <2>1. /\ lines' = lines /\ index' = index /\ phase' \notin {"done", "failed"}
        /\ phase' = "block" => work' = blocks /\ blocks' = blocks
    BY <1>4, StepInitBlocks DEF initBlocks, StartOutput, StartYaml, BaseInv, PhaseInv, infoVars
  <2>2. ASSUME phase' = "block" PROVE LinesOK'
    <3>1. blocks \in Seq(Domains)
      BY <1>4 DEF BlocksInv, BlocksOK
    <3>2. lines' = <<>> /\ index' = 0
      BY <1>4, <2>1 DEF LinesInv
    <3> QED  BY <1>0, <1>4, <2>1, <2>2, <3>1, <3>2 DEF LinesOK
  <2> QED  BY <1>4, <2>1, <2>2 DEF LinesInv
<1>5. CASE phase = "block"
  <2>0. plugin = "block" /\ LinesOK /\ BlocksOK
    BY <1>5 DEF BaseInv, PhaseInv, LinesInv, BlocksInv, Written
  <2>1. phase' \in {"block", "done", "failed"} /\ blocks' = blocks
    BY <1>5, StepBlock DEF toBlockTopology, Finish, infoVars
  <2>2. CASE work' = work /\ lines' = lines /\ index' = index
    <3>1. \A k \in 1..Len(blocks) : Lacking(blocks[k])' = Lacking(blocks[k])
      BY <1>0, <1>5, <2>1, LackingStays DEF Early
    <3>2. Len(lines) \in Nat /\ Len(blocks) \in Nat /\ Len(work) \in Nat
      BY <2>0 DEF LinesOK, BlocksOK
    <3>3. \A k \in 1..Len(lines) : k \in 1..Len(blocks)
      BY <2>0, <3>2 DEF LinesOK
    <3>4. LinesOK'
      BY <1>0, <1>5, <2>0, <2>1, <2>2, <3>1, <3>3 DEF LinesOK
    <3> QED  BY <2>1, <3>4 DEF LinesInv
  <2>3. CASE work # <<>> /\ work' = Tail(work) /\ getFreeFakeNodes(Lacking(Head(work)))
    <3>1. LinesOK'
      BY <1>0, <1>5, <2>0, <2>1, <2>3, ToBlockTopologyStep DEF Early
    <3> QED  BY <2>1, <3>1 DEF LinesInv
  <2> QED  BY <1>5, <2>2, <2>3, StepBlock DEF toBlockTopology, Finish
<1>6. CASE phase \in {"tree", "yaml", "subtree"}
  <2>1. lines' = lines /\ index' = index /\ phase' # "block"
    BY <1>6, StepTree, StepYaml, StepSubtree
    DEF toTreeTopology, Finish, flatUnit, getBlockTopologyUnit, getTreeTopologyUnit, EndYaml,
        WriteSwitch, EndUnit
  <2>2. plugin' # "block"
    BY <1>0, <1>6 DEF BaseInv, PhaseInv, Early
  <2> QED  BY <1>6, <2>1, <2>2 DEF LinesInv
<1>7. CASE phase \in Ended
  <2>1. /\ work' = work /\ lines' = lines /\ index' = index /\ phase' = phase /\ plugin' = plugin
        /\ blocks' = blocks
    BY <1>7, StepEnded DEF configVars, infoVars
  <2>2. ASSUME phase = "done", plugin = "block" PROVE LinesOK'
    <3>0. LinesOK /\ BlocksOK
      BY <2>2 DEF LinesInv, BlocksInv, Written
    <3>1. \A k \in 1..Len(blocks) : Lacking(blocks[k])' = Lacking(blocks[k])
      BY <1>0, <2>1, <2>2, LackingStays DEF Early
    <3>2. Len(lines) \in Nat /\ Len(blocks) \in Nat /\ Len(work) \in Nat
      BY <3>0 DEF LinesOK, BlocksOK
    <3>3. \A k \in 1..Len(lines) : k \in 1..Len(blocks)
      BY <3>0, <3>2 DEF LinesOK
    <3> QED  BY <1>0, <2>1, <2>2, <3>0, <3>1, <3>3 DEF LinesOK
  <2> QED  BY <1>7, <2>1, <2>2 DEF LinesInv, Ended
<1> QED  BY <1>1, <1>2, <1>3, <1>4, <1>5, <1>6, <1>7 DEF BaseInv, PhaseInv, Ended, Written

LEMMA LinesInvariance == PartitionSpec => []LinesInv
<1>1. PartitionInit => LinesInv
  BY DEF PartitionInit, TopoInit, GraphInit, LinesInv
<1>2. BaseInv /\ BlocksInv /\ LinesInv /\ [PartitionNext]_partitionVars => LinesInv'
  BY LinesStep
<1> QED  BY <1>1, <1>2, BaseInvariance, BlocksInvariance, PTL DEF PartitionSpec

\* The finished block output.
LEMMA LinesDone ==
    ASSUME BaseInv, BlocksInv, WrittenInv, LinesInv, DoneWith("block")
    PROVE  /\ Settled /\ ConfigOK /\ BlocksOK /\ Found /\ LinesOK
           /\ Len(lines) = Len(blocks) /\ DOMAIN lines = 1..Len(lines) /\ Len(lines) \in Nat
<1>1. Settled /\ ConfigOK /\ BlocksOK /\ Found /\ LinesOK /\ work = <<>>
  BY DEF BaseInv, BlocksInv, WrittenInv, LinesInv, DoneWith, Written
<1>2. Len(lines) \in Nat /\ DOMAIN lines = 1..Len(lines)
  BY <1>1 DEF LinesOK
<1>3. Len(lines) = Len(blocks)
  BY <1>1, <1>2 DEF LinesOK
<1> QED  BY <1>1, <1>2, <1>3

\* The block output has a line for every accelerator domain, one, at the
\* position that its nodes have as their index, whatever the reports say
\* (initBlocks, markBlockNodes, toBlockTopology).
THEOREM EachDomainOneLine == PartitionSpec => []OneLinePerDomain
<1>1. ASSUME BaseInv, BlocksInv, WrittenInv, LinesInv PROVE OneLinePerDomain
  <2> SUFFICES ASSUME DoneWith("block")
               PROVE  /\ {lines[k].block : k \in DOMAIN lines} = Domains
                      /\ Len(lines) = Cardinality(Domains)
                      /\ \A k \in DOMAIN lines : \A i \in domains[lines[k].block] : blockIndx[i] = k
    BY DEF OneLinePerDomain
  <2>1. /\ Settled /\ BlocksOK /\ Found /\ LinesOK
        /\ Len(lines) = Len(blocks) /\ DOMAIN lines = 1..Len(blocks)
    BY <1>1, LinesDone
  <2>2. /\ \A a \in Domains : \E k \in 1..Len(blocks) : blocks[k] = a
        /\ Cardinality(Domains) = Len(blocks)
    BY <2>1, AllBlocks
  <2>3. \A k \in 1..Len(blocks) : lines[k].block = blocks[k] /\ blocks[k] \in Domains
    BY <2>1 DEF LinesOK, BlocksOK
  <2>4. {lines[k].block : k \in DOMAIN lines} = Domains
    BY <2>1, <2>2, <2>3
  <2> QED  BY <2>1, <2>2, <2>3, <2>4 DEF BlocksOK
<1> QED  BY <1>1, BaseInvariance, BlocksInvariance, WrittenInvariance, LinesInvariance, PTL

\* Every line has the nodes of the base size, with fake nodes that no other
\* line has, for all block sizes and pools (toBlockTopology, getFreeFakeNodes).
THEOREM EachBlockFilled == PartitionSpec => []BlocksFilled
<1>1. ASSUME BaseInv, BlocksInv, WrittenInv, LinesInv PROVE BlocksFilled
  <2> SUFFICES ASSUME DoneWith("block"), baseBlockSize > 0
               PROVE  /\ \A k \in DOMAIN lines :
                             Size(lines[k].block) + lines[k].to - lines[k].from >= baseBlockSize
                      /\ \A k, l \in DOMAIN lines : k < l => lines[k].to <= lines[l].from
    BY DEF BlocksFilled
  <2>1. /\ Settled /\ ConfigOK /\ BlocksOK /\ LinesOK
        /\ Len(lines) = Len(blocks) /\ DOMAIN lines = 1..Len(blocks)
    BY <1>1, LinesDone
  <2>2. ASSUME NEW k \in DOMAIN lines
        PROVE  Size(lines[k].block) + lines[k].to - lines[k].from >= baseBlockSize
    <3> DEFINE a == blocks[k]
    <3>0. k \in 1..Len(lines) /\ k \in 1..Len(blocks)
      BY <2>1
    <3>1. /\ lines[k].block = a /\ lines[k].to = lines[k].from + Lacking(a) /\ a \in Domains
          /\ k \in 1..Len(lines)
      <4>1. lines[k].block = a /\ lines[k].to = lines[k].from + Lacking(a)
        BY <2>1, <3>0 DEF LinesOK
      <4>2. blocks \in Seq(Domains)
        BY <2>1 DEF BlocksOK
      <4>3. a \in Domains
        BY <3>0, <4>2
      <4> QED  BY <3>0, <4>1, <4>3
    <3>2. lines[k].from \in Nat
      <4> DEFINE R == [block : Domains, from : Nat, to : Nat]
      <4>1. lines \in Seq(R)
        BY <2>1 DEF LinesOK
      <4> HIDE DEF R
      <4>2. lines[k] \in R
        BY <3>1, <4>1
      <4> QED  BY <4>2 DEF R
    <3>3. /\ Size(a) \in Nat /\ baseBlockSize \in Int /\ Lacking(a) \in Nat /\ pool \in Nat
          /\ pool = 0 => Size(a) >= baseBlockSize
      BY <2>1, <3>1, SizeFacts DEF ConfigOK
    <3>4. Size(a) + Lacking(a) >= baseBlockSize
      BY <3>3 DEF Lacking
    <3> HIDE DEF a
    <3> QED  BY <3>1, <3>2, <3>3, <3>4
  <2> QED  BY <2>1, <2>2 DEF LinesOK
<1> QED  BY <1>1, BaseInvariance, BlocksInvariance, WrittenInvariance, LinesInvariance, PTL

----------------------------------------------------------------------------
(* getBlockTopologyUnit.                                                    *)

\* Every requested node is in nt.nodeInfo.
LEMMA NodesKnown ==
    ASSUME Settled, TreeOK
    PROVE  /\ nodeInfo = {i \in Instances : \E v \in All : i \in KidsOf[v]}
           /\ Requested \subseteq nodeInfo
<1>1. nodeInfo = {i \in Instances : \E v \in All : i \in KidsOf[v]}
  BY DEF nodeInfo, TreeOK
<1>2. ASSUME NEW i \in Requested PROVE \E v \in All : i \in KidsOf[v]
  <2>1. ReachesRoot(i)
    BY DEF Settled
  <2>2. i \in forest \/ \E p \in Parents : i \in children[p]
    BY <2>1 DEF ReachesRoot
  <2> QED  BY <2>2, KidsFacts DEF Vertices
<1> QED  BY <1>1, <1>2, GraphAssumption

\* What is said of the rows of a unit of the block plugin, for a partition with
\* these nodes and a cluster with the accelerator domains D in the order bs.
GoodRows(rows, sizes, nodes, D, doms, bs) ==
    /\ {rows[k] : k \in DOMAIN rows} = {doms[a] \cap nodes : a \in D} \ {{}}
    /\ \A k, l \in DOMAIN rows : k < l =>
           \E b, c \in DOMAIN bs :
               b < c /\ rows[k] \subseteq doms[bs[b]] /\ rows[l] \subseteq doms[bs[c]]
    /\ \A k \in DOMAIN rows : 0 < sizes[1] /\ sizes[1] <= Cardinality(rows[k])

BlockUnit(t) ==
    GoodRows(units[t].lines, units[t].sizes, topologies[t].nodes, Domains, domains, blocks)

\* The nodes of a partition in a block, and the blocks with such nodes.
LEMMA PartitionBlocks ==
    ASSUME Settled, TreeOK, BlocksOK, Found, NEW spec
    PROVE  /\ \A m \in 1..Len(blocks) : nodesOfBlock(spec, m) = domains[blocks[m]] \cap spec.nodes
           /\ blockMap(spec) = {m \in 1..Len(blocks) : domains[blocks[m]] \cap spec.nodes # {}}
<1>1. \A m \in 1..Len(blocks) : blocks[m] \in Domains
  BY DEF BlocksOK
<1>2. \A i \in nodeInfo : i \in Instances
  BY NodesKnown
<1>3. ASSUME NEW m \in 1..Len(blocks)
      PROVE  nodesOfBlock(spec, m) = domains[blocks[m]] \cap spec.nodes
  <2>1. ASSUME NEW i \in nodesOfBlock(spec, m) PROVE i \in domains[blocks[m]] \cap spec.nodes
    <3>1. i \in spec.nodes /\ i \in Instances /\ blockIndx[i] = m /\ m # 0
      BY <1>2, <2>1 DEF nodesOfBlock
    <3> QED  BY <3>1 DEF BlocksOK
  <2>2. ASSUME NEW i \in domains[blocks[m]], i \in spec.nodes PROVE i \in nodesOfBlock(spec, m)
    <3>1. blockIndx[i] = m
      BY DEF BlocksOK
    <3>2. i \in nodeInfo
      BY <1>1, DomainsApart, NodesKnown
    <3> QED  BY <2>2, <3>1, <3>2 DEF nodesOfBlock
  <2> QED  BY <2>1, <2>2
<1>4. ASSUME NEW m \in blockMap(spec)
      PROVE  m \in 1..Len(blocks) /\ domains[blocks[m]] \cap spec.nodes # {}
  <2>1. PICK i \in spec.nodes \cap nodeInfo : blockIndx[i] = m /\ m # 0
    BY <1>4 DEF blockMap
  <2>2. m \in 1..Len(blocks) /\ i \in domains[blocks[m]]
    BY <1>2, <2>1 DEF BlocksOK
  <2> QED  BY <2>1, <2>2
<1>5. ASSUME NEW m \in 1..Len(blocks), NEW i \in domains[blocks[m]], i \in spec.nodes
      PROVE  m \in blockMap(spec)
  <2>1. blockIndx[i] = m /\ m # 0
    BY DEF BlocksOK
  <2>2. i \in nodeInfo
    BY <1>1, DomainsApart, NodesKnown
  <2> QED  BY <1>5, <2>1, <2>2 DEF blockMap
<1> QED  BY <1>3, <1>4, <1>5

LEMMA BlockUnitStep ==
    ASSUME Settled, TreeOK, ConfigOK, BlocksOK, Found, NEW t \in todo, todo \subseteq DOMAIN units,
           DOMAIN units = DOMAIN topologies, getBlockTopologyUnit(t)
    PROVE  BlockUnit(t)' /\ units'[t].plugin = "block"
<1> DEFINE spec == topologies[t]
           nodes == spec.nodes
           M == blockMap(spec)
           key == [k \in DOMAIN blocks |-> k]
           indx == SortedSet(M, key)
           rows == [k \in DOMAIN indx |-> nodesOfBlock(spec, indx[k])]
           sizes == [k \in DOMAIN indx |-> Cardinality(rows[k])]
           final == getBlockSize(sizes, spec.sizes, FALSE)
           In(m) == domains[blocks[m]] \cap nodes
<1>1. units' = [units EXCEPT ![t] = [plugin |-> "block", lines |-> rows, sizes |-> final]]
  BY DEF getBlockTopologyUnit
<1>2. /\ UNCHANGED inputVars /\ Domains' = Domains /\ domains' = domains /\ blocks' = blocks
      /\ topologies' = topologies
  BY KidsStay DEF getBlockTopologyUnit, topoVars, graphVars, infoVars, inputVars
<1>3. /\ blocks \in Seq(Domains) /\ DOMAIN blocks = 1..Len(blocks) /\ Len(blocks) \in Nat
      /\ spec.sizes \in Seq(Int)
  BY DEF BlocksOK, ConfigOK
<1>4. /\ \A m \in 1..Len(blocks) : nodesOfBlock(spec, m) = In(m)
      /\ M = {m \in 1..Len(blocks) : In(m) # {}}
  <2> HIDE DEF spec
  <2> QED  BY PartitionBlocks
<1>5. units'[t].plugin = "block" /\ units'[t].lines = rows /\ units'[t].sizes = final
  <2> HIDE DEF rows, final
  <2> QED  BY <1>1
<1> HIDE DEF M, In, spec, nodes
<1>6. M \subseteq 1..Len(blocks) /\ IsFiniteSet(M) /\ \A m \in M : key[m] = m /\ m \in Nat
  <2>1. M \subseteq 1..Len(blocks)
    BY <1>4
  <2> QED  BY <1>3, <2>1, IntervalSize, FS_Subset
<1> HIDE DEF key
<1>7. /\ indx \in Seq(M) /\ DOMAIN indx = 1..Len(indx) /\ Len(indx) \in Nat /\ ToSet(indx) = M
      /\ \A j, k \in 1..Len(indx) : j < k => key[indx[j]] < key[indx[k]]
  <2>1. (\A m \in M : key[m] \in Nat) /\ \A m, n \in M : key[m] = key[n] => m = n
    BY <1>6
  <2>2. /\ indx \in Seq(M) /\ Len(indx) = Cardinality(M) /\ ToSet(indx) = M
        /\ \A j, k \in 1..Cardinality(M) : j < k => key[indx[j]] < key[indx[k]]
    BY <1>6, <2>1, SortedSetFacts
  <2> HIDE DEF indx
  <2> QED  BY <2>2
<1> HIDE DEF indx
<1>8. /\ \A k \in 1..Len(indx) : indx[k] \in M /\ indx[k] \in 1..Len(blocks)
      /\ \A m \in M : \E k \in 1..Len(indx) : indx[k] = m
      /\ \A j, k \in 1..Len(indx) : j < k => indx[j] < indx[k]
  <2>1. ToSet(indx) = {indx[k] : k \in 1..Len(indx)}
    BY <1>7, ElementsOf
  <2>2. \A k \in 1..Len(indx) : indx[k] \in M /\ indx[k] \in 1..Len(blocks)
    BY <1>6, <1>7
  <2> QED  BY <1>6, <1>7, <2>1, <2>2
<1>9. DOMAIN rows = 1..Len(indx) /\ \A k \in 1..Len(indx) : rows[k] = In(indx[k]) /\ rows[k] # {}
  BY <1>4, <1>7, <1>8
<1> HIDE DEF rows
<1>10. {rows[k] : k \in DOMAIN rows} = {domains[a] \cap nodes : a \in Domains} \ {{}}
  <2>1. ASSUME NEW k \in 1..Len(indx) PROVE \E a \in Domains : rows[k] = domains[a] \cap nodes
    <3>1. blocks[indx[k]] \in Domains
      BY <1>3, <1>8
    <3> QED  BY <1>9, <3>1 DEF In
  <2>2. ASSUME NEW a \in Domains, domains[a] \cap nodes # {}
        PROVE  \E k \in 1..Len(indx) : rows[k] = domains[a] \cap nodes
    <3>1. PICK m \in 1..Len(blocks) : blocks[m] = a
      BY AllBlocks
    <3>2. m \in M
      BY <1>4, <2>2, <3>1 DEF In
    <3>3. PICK k \in 1..Len(indx) : indx[k] = m
      BY <1>8, <3>2
    <3> QED  BY <1>9, <3>1, <3>3 DEF In
  <2>3. ASSUME NEW x \in {rows[k] : k \in DOMAIN rows}
        PROVE  x \in {domains[a] \cap nodes : a \in Domains} \ {{}}
    BY <1>9, <2>1
  <2>4. ASSUME NEW x \in {domains[a] \cap nodes : a \in Domains} \ {{}}
        PROVE  x \in {rows[k] : k \in DOMAIN rows}
    BY <1>9, <2>2
  <2> QED  BY <2>3, <2>4
<1>11. \A k, l \in DOMAIN rows : k < l =>
           \E b, c \in DOMAIN blocks :
               b < c /\ rows[k] \subseteq domains[blocks[b]] /\ rows[l] \subseteq domains[blocks[c]]
  <2> SUFFICES ASSUME NEW k \in 1..Len(indx), NEW l \in 1..Len(indx), k < l
               PROVE  /\ indx[k] < indx[l] /\ rows[k] \subseteq domains[blocks[indx[k]]]
                      /\ rows[l] \subseteq domains[blocks[indx[l]]]
    <3>1. \A k, l \in 1..Len(indx) : k < l =>
              /\ indx[k] < indx[l] /\ rows[k] \subseteq domains[blocks[indx[k]]]
              /\ rows[l] \subseteq domains[blocks[indx[l]]]
      OBVIOUS
    <3>2. \A k \in 1..Len(indx) : indx[k] \in DOMAIN blocks
      BY <1>3, <1>8
    <3>3. DOMAIN rows = 1..Len(indx)
      BY <1>9
    <3> QED  BY <3>1, <3>2, <3>3
  <2> QED  BY <1>8, <1>9 DEF In
<1>12. ASSUME NEW k \in DOMAIN rows PROVE 0 < final[1] /\ final[1] <= Cardinality(rows[k])
  <2>1. \A j \in 1..Len(indx) : Cardinality(rows[j]) \in Nat /\ Cardinality(rows[j]) > 0
    <3> SUFFICES ASSUME NEW j \in 1..Len(indx)
                 PROVE  Cardinality(rows[j]) \in Nat /\ Cardinality(rows[j]) > 0
      OBVIOUS
    <3>1. blocks[indx[j]] \in Domains
      BY <1>3, <1>8
    <3>2. rows[j] \subseteq Instances /\ rows[j] # {}
      BY <1>9, <3>1, DomainsApart DEF In
    <3>3. IsFiniteSet(rows[j])
      BY <3>2, TopoAssumption, FS_Subset DEF Vertices
    <3> QED  BY <3>2, <3>3, FS_CardinalityType, FS_EmptySet
  <2>2. /\ sizes \in Seq(Nat) /\ Len(sizes) = Len(indx)
        /\ \A j \in 1..Len(indx) : sizes[j] = Cardinality(rows[j]) /\ 0 < sizes[j]
    BY <1>7, <2>1
  <2> HIDE DEF sizes
  <2>3. sizes # <<>> /\ k \in 1..Len(sizes)
    BY <1>9, <2>2, <1>12
  <2>4. /\ \A j \in 1..Len(sizes) : final[1] <= sizes[j]
        /\ (\A j \in 1..Len(sizes) : 0 < sizes[j]) => 0 < final[1]
    BY <1>3, <2>2, <2>3, BaseSize
  <2> HIDE DEF final
  <2> QED  BY <2>2, <2>3, <2>4
<1> HIDE DEF final
<1>13. topologies'[t].nodes = nodes
  BY <1>2 DEF nodes, spec
<1>14. GoodRows(rows, final, nodes, Domains, domains, blocks)
  BY <1>10, <1>11, <1>12 DEF GoodRows
<1> QED  BY <1>2, <1>5, <1>13, <1>14 DEF BlockUnit

----------------------------------------------------------------------------
(* The part of the tree that leads to some nodes.                           *)

\* The vertices on a path to one of the nodes, the switches among them, and
\* the tree without the others.
Req(K, nodes) == {v \in All : \E x \in nodes : Leads(K, v, x)}
Wants(K, nodes) == Req(K, nodes) \cap Parents
Pruned(K, nodes) == [v \in All |-> K[v] \cap Req(K, nodes)]

\* Below a vertex other than the root are at most three steps.
Shallow(K) == \A x \in Vertices : \A a \in K[x] : \A b \in K[a] : \A c \in K[b] : K[c] = {}

LEMMA ShallowTree ==
    ASSUME Settled, faithful
    PROVE  Shallow(KidsOf)
<1> SUFFICES ASSUME NEW x \in Vertices, NEW a \in KidsOf[x], NEW b \in KidsOf[a],
                    NEW c \in KidsOf[b], KidsOf[c] # {}
             PROVE  FALSE
  BY DEF Shallow
<1>1. /\ a \in Vertices /\ b \in Vertices /\ c \in Vertices
      /\ \A v \in Vertices : v \in Instances \/ v = NoInstance \/ v \in Parents
      /\ KidsOf[NoInstance] = {} /\ \A v \in Instances : KidsOf[v] = {}
      /\ \A p \in Parents : KidsOf[p] = children[p]
  <2>1. \A v \in Vertices : KidsOf[v] \subseteq Vertices
    BY KidsFacts
  <2> QED  BY <2>1, KidsFacts DEF Vertices
<1>2. x \in Parents /\ a \in Parents /\ b \in Parents /\ c \in Parents
  BY <1>1
<1>3. a \in children[x] /\ b \in children[a] /\ c \in children[b]
  BY <1>1, <1>2
<1>4. \A p, q \in Parents : p \in children[q] => p \in Switches /\ q \in Switches
  BY GraphAssumption DEF Settled, NoTopologyApart, Parents
<1>5. \A p, q \in Switches : p \in children[q] => Tier[p] < Tier[q]
  BY FabricAssumption, GraphAssumption DEF Settled, FollowsUp, Vertices, Parents
<1>6. \A p \in Switches : Tier[p] \in 1..3
  BY FabricAssumption
<1> QED  BY <1>2, <1>3, <1>4, <1>5, <1>6

\* The parent of a required vertex is required.
LEMMA RequiredUp ==
    ASSUME NEW K, IsGraph(K), Shallow(K), NEW nodes,
           NEW v \in All, NEW c \in K[v], c \in Req(K, nodes)
    PROVE  v \in Req(K, nodes)
<1>1. c \in Vertices
  BY DEF IsGraph
<1>2. PICK x \in nodes : Leads(K, c, x)
  BY DEF Req
<1>3. Leads(K, v, x)
  BY <1>1, <1>2 DEF Leads, Shallow
<1> QED  BY <1>3 DEF Req

\* A required vertex that is not one of the nodes has a required child.
LEMMA RequiredDown ==
    ASSUME NEW K, IsGraph(K), NEW nodes, NEW v \in Req(K, nodes), v \notin nodes
    PROVE  \E c \in K[v] : c \in Req(K, nodes)
<1>1. PICK x \in nodes : Leads(K, v, x) /\ v # x /\ v \in All
  BY DEF Req
<1>2. PICK c \in K[v] : Leads(K, c, x)
  BY <1>1 DEF Leads
<1>3. c \in All
  BY <1>1 DEF IsGraph, All
<1> QED  BY <1>2, <1>3 DEF Req

\* Pruning does not cut the way to a required vertex.
LEMMA PrunedLeads ==
    ASSUME NEW K, IsGraph(K), Shallow(K), NEW nodes, NEW s \in Req(K, nodes),
           Leads(K, TreeRoot, s)
    PROVE  Leads(Pruned(K, nodes), TreeRoot, s)
<1> DEFINE T == Pruned(K, nodes)
           Q == Req(K, nodes)
<1>1. \A v \in All : T[v] = K[v] \cap Q
  BY DEF Pruned
<1>2. \A v \in All : \A c \in K[v] : c \in All /\ (c \in Q => v \in Q /\ c \in T[v])
  BY <1>1, RequiredUp DEF IsGraph, All
<1>3. TreeRoot \in All /\ s \in Q
  BY DEF All
<1> HIDE DEF T, Q
<1>4. Leads(T, TreeRoot, s)
  <2>1. CASE TreeRoot = s \/ s \in K[TreeRoot]
    BY <1>2, <1>3, <2>1 DEF Leads
  <2>2. CASE \E a \in K[TreeRoot] : s \in K[a]
    BY <1>2, <1>3, <2>2 DEF Leads
  <2>3. CASE \E a \in K[TreeRoot] : \E b \in K[a] : s \in K[b]
    <3>0. PICK a \in K[TreeRoot] : \E b \in K[a] : s \in K[b]
      BY <2>3
    <3>1. PICK b \in K[a] : s \in K[b]
      BY <3>0
    <3>2. s \in T[b] /\ b \in T[a] /\ a \in T[TreeRoot]
      BY <1>2, <1>3, <3>1
    <3> QED  BY <3>2 DEF Leads
  <2>4. CASE \E a \in K[TreeRoot] : \E b \in K[a] : \E c \in K[b] : s \in K[c]
    <3>0. PICK a \in K[TreeRoot] : \E b \in K[a] : \E c \in K[b] : s \in K[c]
      BY <2>4
    <3>a. PICK b \in K[a] : \E c \in K[b] : s \in K[c]
      BY <3>0
    <3>1. PICK c \in K[b] : s \in K[c]
      BY <3>a
    <3>2. a \in All /\ b \in All /\ c \in All
      BY <1>2, <1>3, <3>1
    <3>3. s \in T[c] /\ c \in Q
      BY <1>2, <1>3, <3>1, <3>2
    <3>4. c \in T[b] /\ b \in Q
      BY <1>2, <3>2, <3>3
    <3>5. b \in T[a] /\ a \in T[TreeRoot]
      BY <1>2, <1>3, <3>2, <3>4
    <3> QED  BY <3>3, <3>4, <3>5 DEF Leads
  <2> QED  BY <2>1, <2>2, <2>3, <2>4 DEF Leads
<1> QED  BY <1>4 DEF T

\* findRequiredNodes finds them.
LEMMA RequiredFound ==
    ASSUME Settled, TreeOK, NEW nodes
    PROVE  findRequiredNodes(nodes) = Req(KidsOf, nodes)
<1> DEFINE K == KidsOf
           down(S) == S \cup UNION {ToSet(tree[w]) : w \in S}
<1>1. \A v \in All : K[v] \subseteq All /\ ToSet(tree[v]) = K[v]
  BY KidsFacts DEF TreeOK
<1>2. \A S \in SUBSET All : down(S) \subseteq All /\ \A x : x \in down(S) <=> x \in S \/ \E w \in S : x \in K[w]
  BY <1>1
<1>3. ASSUME NEW v \in All, NEW x
      PROVE  x \in down(down(down(down({v})))) <=> Leads(K, v, x)
  <2> HIDE DEF down, K
  <2>1. down({v}) \in SUBSET All /\ \A y : y \in down({v}) <=> y = v \/ y \in K[v]
    BY <1>2
  <2> DEFINE A == down({v})
  <2> HIDE DEF A
  <2>2. down(A) \in SUBSET All /\ \A y : y \in down(A) <=> y \in A \/ \E w \in A : y \in K[w]
    BY <1>2, <2>1 DEF A
  <2> DEFINE B == down(A)
  <2> HIDE DEF B
  <2>3. down(B) \in SUBSET All /\ \A y : y \in down(B) <=> y \in B \/ \E w \in B : y \in K[w]
    BY <1>2, <2>2 DEF B
  <2> DEFINE C == down(B)
  <2> HIDE DEF C
  <2>4. x \in down(C) <=> x \in C \/ \E w \in C : x \in K[w]
    BY <1>2, <2>3 DEF C
  <2>5. \A y : y \in A <=> y = v \/ y \in K[v]
    BY <2>1 DEF A
  <2>6. \A y : y \in B <=> y \in A \/ \E w \in A : y \in K[w]
    BY <2>2 DEF B
  <2>7. \A y : y \in C <=> y \in B \/ \E w \in B : y \in K[w]
    BY <2>3 DEF C
  <2>8. x \in down(C) <=> Leads(K, v, x)
    BY <2>4, <2>5, <2>6, <2>7 DEF Leads
  <2> QED  BY <2>8 DEF A, B, C
<1> HIDE DEF K
<1>4. findRequiredNodes(nodes) = {v \in All : down(down(down(down({v})))) \cap nodes # {}}
  BY DEF findRequiredNodes
<1> HIDE DEF down
<1>5. \A v \in All : down(down(down(down({v})))) \cap nodes # {} <=> \E x \in nodes : Leads(K, v, x)
  BY <1>3
<1> QED  BY <1>4, <1>5 DEF Req, K

----------------------------------------------------------------------------
(* getTreeTopologyUnit: the walk over the pruned tree.                      *)

\* A line of the output.
Row == [switch : Parents, children : SUBSET Vertices, nodes : SUBSET Vertices]

\* Lines say what is in the tree, each of another switch.
GoodLines(rows, K, nodes) ==
    /\ rows \in Seq(Row)
    /\ \A k \in 1..Len(rows) :
           /\ rows[k].switch \in Wants(K, nodes)
           /\ rows[k].children = K[rows[k].switch] \cap Wants(K, nodes)
           /\ rows[k].nodes = K[rows[k].switch] \cap nodes
    /\ \A j, k \in 1..Len(rows) : rows[j].switch = rows[k].switch => j = k

\* The vertices visited so far.
Seen(rows, w) == {rows[k].switch : k \in 1..Len(rows)} \cup ({TreeRoot} \ ToSet(w))

SubWalk(K, nodes, rows, w, sub) ==
    /\ w \in Seq(All) /\ nodes \subseteq Instances
    /\ sub \in [All -> Seq(Vertices)]
    /\ \A v \in All : ToSet(sub[v]) = Pruned(K, nodes)[v] /\ NoRepeat(sub[v])
    /\ GoodLines(rows, K, nodes)
    /\ Covers(Pruned(K, nodes), w, Seen(rows, w))
    /\ Once(Pruned(K, nodes), w, Seen(rows, w))

\* Nodes have no children, switches in the tree have some.
Filled(K) ==
    /\ \A i \in Instances \cup {NoInstance} : K[i] = {}
    /\ \A v \in All : \A p \in K[v] : p \in Parents => K[p] # {}

\* A sequence of lines with one more.
LEMMA AppendLine ==
    ASSUME NEW V, NEW s \in Seq(V), NEW x \in V
    PROVE  /\ Append(s, x) \in Seq(V) /\ Len(Append(s, x)) = Len(s) + 1 /\ Len(s) \in Nat
           /\ Append(s, x)[Len(s) + 1] = x
           /\ \A k \in 1..Len(s) : Append(s, x)[k] = s[k]
           /\ \A k \in 1..(Len(s) + 1) : k = Len(s) + 1 \/ k \in 1..Len(s)
           /\ \A k \in 1..Len(s) : k \in 1..(Len(s) + 1)
           /\ Len(s) + 1 \in 1..(Len(s) + 1)
OBVIOUS

\* What WriteSwitch finds below a vertex.
LineOf(K, nodes, v, leaves, switches) ==
    /\ \A x : x \in leaves <=> x \in K[v] /\ K[x] = {} /\ x \in nodes
    /\ \A x : x \in switches <=> x \in K[v] /\ K[x] # {} /\ x \in Pruned(K, nodes)[v]

\* What the line of a switch says.
LEMMA LineFacts ==
    ASSUME NEW K, IsGraph(K), Filled(K), NEW nodes, nodes \subseteq Instances,
           NEW v \in Req(K, nodes), v # TreeRoot, Pruned(K, nodes)[v] # {},
           NEW leaves, NEW switches, LineOf(K, nodes, v, leaves, switches)
    PROVE  /\ v \in Wants(K, nodes) /\ leaves \cup switches # {}
           /\ switches = K[v] \cap Wants(K, nodes)
           /\ leaves = K[v] \cap nodes
           /\ v \in Parents /\ switches \in SUBSET Vertices /\ leaves \in SUBSET Vertices
<1>1. v \in All /\ Pruned(K, nodes)[v] = K[v] \cap Req(K, nodes) /\ K[v] \subseteq Vertices
  BY DEF Req, Pruned, IsGraph
<1>2. PICK c \in K[v] : c \in Req(K, nodes) /\ c \in All
  BY <1>1 DEF Req
<1>3. v \in Parents
  BY <1>1, <1>2 DEF Filled, All, Vertices
<1>4. \A x \in K[v] : K[x] # {} <=> x \in Parents
  BY <1>1, GraphAssumption DEF Filled, Vertices, Parents
<1>5. leaves \cup switches # {}
  <2>1. CASE K[c] = {}
    <3>1. c \in nodes
      BY <1>2, <2>1, RequiredDown
    <3> QED  BY <1>2, <2>1, <3>1 DEF LineOf
  <2> QED  BY <1>1, <1>2, <2>1 DEF LineOf
<1>6. switches = K[v] \cap Wants(K, nodes)
  BY <1>1, <1>4 DEF Wants, LineOf
<1>7. leaves = K[v] \cap nodes
  BY DEF Filled, LineOf
<1> QED  BY <1>1, <1>3, <1>5, <1>6, <1>7 DEF Wants

LEMMA SubWalkStep ==
    ASSUME NEW K, IsGraph(K), OneParent(K), Filled(K),
           NEW nodes, NEW rows, NEW w, NEW sub, SubWalk(K, nodes, rows, w, sub), w # <<>>,
           NEW leaves, NEW switches, LineOf(K, nodes, Head(w), leaves, switches), NEW new,
           IF Head(w) # TreeRoot /\ sub[Head(w)] # <<>> /\ leaves \cup switches # {}
           THEN new = Append(rows, [switch |-> Head(w), children |-> switches, nodes |-> leaves])
           ELSE new = rows
    PROVE  SubWalk(K, nodes, new, Tail(w) \o sub[Head(w)], sub)
<1> DEFINE v == Head(w)
           s == sub[v]
           u == Tail(w) \o s
           T == Pruned(K, nodes)
           P == Seen(rows, w)
           Q == Seen(new, u)
           line == [switch |-> v, children |-> switches, nodes |-> leaves]
<1>1. /\ w \in Seq(All) /\ nodes \subseteq Instances /\ v \in All /\ v \in ToSet(w)
      /\ sub \in [All -> Seq(Vertices)] /\ s \in Seq(Vertices) /\ ToSet(s) = T[v] /\ NoRepeat(s)
      /\ GoodLines(rows, K, nodes) /\ Covers(T, w, P) /\ Once(T, w, P)
      /\ Vertices \subseteq All /\ TreeRoot \notin Vertices /\ TreeRoot \in All
  <2>1. w \in Seq(All) /\ v \in All /\ v \in ToSet(w)
    BY TailFacts, ElementsOf DEF SubWalk
  <2>2. /\ Vertices \subseteq All /\ TreeRoot \notin Vertices /\ TreeRoot \in All
    BY GraphAssumption DEF All
  <2> HIDE DEF v
  <2> QED  BY <2>1, <2>2 DEF SubWalk
<1>2. T \in [All -> SUBSET Vertices] /\ IsGraph(T) /\ OneParent(T) /\ \A x \in All : T[x] = K[x] \cap Req(K, nodes)
  BY DEF Pruned, IsGraph, OneParent
<1>3. s \in Seq(All) /\ (s = <<>> <=> T[v] = {}) /\ T[v] \subseteq Vertices
  <2>1. s = <<>> <=> ToSet(s) = {}
    BY <1>1, ElementsOf
  <2> HIDE DEF s, v
  <2> QED  BY <1>1, <1>2, <2>1
<1>4. /\ u \in Seq(All) /\ ToSet(u) = ToSet(Tail(w)) \cup T[v]
      /\ ToSet(w) = {v} \cup ToSet(Tail(w)) /\ v \notin ToSet(Tail(w))
  <2>1. NoRepeat(w)
    BY <1>1 DEF Once
  <2>2. ToSet(w) = {v} \cup ToSet(Tail(w)) /\ v \notin ToSet(Tail(w))
    BY <1>1, <2>1, TailFacts
  <2> HIDE DEF s
  <2>3. u \in Seq(All) /\ ToSet(u) = ToSet(Tail(w)) \cup ToSet(s)
    BY <1>1, <1>3, QueueFacts
  <2> QED  BY <1>1, <2>2, <2>3
<1>5. P \subseteq All
  <2>1. \A k \in 1..Len(rows) : rows[k].switch \in All
    BY <1>1 DEF GoodLines, Wants, Req
  <2> QED  BY <1>1, <2>1 DEF Seen
<1> HIDE DEF v, s, u, T, P, Q
<1>6. Visit(T, v, P, Q) /\ GoodLines(new, K, nodes)
  <2>1. CASE v = TreeRoot
    <3>1. new = rows /\ TreeRoot \in ToSet(w) /\ TreeRoot \notin ToSet(u)
      BY <1>1, <1>3, <1>4, <2>1 DEF v
    <3>2. Q = P \cup {v}
      BY <2>1, <3>1 DEF P, Q, Seen
    <3> QED  BY <1>1, <3>1, <3>2 DEF Visit
  <2>2. CASE v # TreeRoot /\ T[v] = {}
    <3>1. new = rows /\ (TreeRoot \in ToSet(w) <=> TreeRoot \in ToSet(u))
      BY <1>3, <1>4, <2>2 DEF v, s
    <3>2. Q = P
      BY <3>1 DEF P, Q, Seen
    <3> QED  BY <1>1, <2>2, <3>1, <3>2 DEF Visit
  <2>3. CASE v # TreeRoot /\ T[v] # {}
    <3>1. v \in Req(K, nodes)
      <4>1. PICK p \in P : v \in T[p]
        BY <1>1, <2>3 DEF Once
      <4> QED  BY <1>2, <1>5, <4>1
    <3>2. /\ v \in Wants(K, nodes) /\ leaves \cup switches # {}
          /\ switches = K[v] \cap Wants(K, nodes)
          /\ leaves = K[v] \cap nodes
          /\ line \in Row
      <4>1. LineOf(K, nodes, v, leaves, switches)
        BY DEF v
      <4>2. Pruned(K, nodes)[v] # {} /\ v # TreeRoot
        BY <2>3 DEF T
      <4> HIDE DEF line
      <4>3. /\ v \in Wants(K, nodes) /\ leaves \cup switches # {}
            /\ switches = K[v] \cap Wants(K, nodes)
            /\ leaves = K[v] \cap nodes
            /\ v \in Parents /\ switches \in SUBSET Vertices /\ leaves \in SUBSET Vertices
        BY <1>1, <3>1, <4>1, <4>2, LineFacts
      <4>4. line \in Row
        BY <4>3 DEF line, Row
      <4> QED  BY <4>3, <4>4
    <3>3. new = Append(rows, line)
      BY <1>3, <2>3, <3>2 DEF v, s
    <3>4. line.switch = v /\ line.children = switches /\ line.nodes = leaves
      OBVIOUS
    <3>5. rows \in Seq(Row)
      BY <1>1 DEF GoodLines
    <3> HIDE DEF line
    <3> DEFINE n == Len(rows) + 1
    <3>6. /\ new \in Seq(Row) /\ Len(new) = n /\ new[n] = line
          /\ \A k \in 1..Len(rows) : new[k] = rows[k]
          /\ \A k \in 1..n : k = n \/ k \in 1..Len(rows)
          /\ \A k \in 1..Len(rows) : k \in 1..n
          /\ n \in 1..n
      BY <3>2, <3>3, <3>5, AppendLine
    <3> HIDE DEF n
    <3>7. \A k \in 1..Len(rows) : rows[k].switch # v
      BY <1>1 DEF Once, P, Seen
    <3>8. GoodLines(new, K, nodes)
      <4>1. \A k \in 1..n :
               /\ new[k].switch \in Wants(K, nodes)
               /\ new[k].children = K[new[k].switch] \cap Wants(K, nodes)
               /\ new[k].nodes = K[new[k].switch] \cap nodes
        <5>1. ASSUME NEW k \in 1..Len(rows)
              PROVE  /\ new[k].switch \in Wants(K, nodes)
                     /\ new[k].children = K[new[k].switch] \cap Wants(K, nodes)
                     /\ new[k].nodes = K[new[k].switch] \cap nodes
          BY <1>1, <3>6 DEF GoodLines
        <5>2. /\ new[n].switch \in Wants(K, nodes)
              /\ new[n].children = K[new[n].switch] \cap Wants(K, nodes)
              /\ new[n].nodes = K[new[n].switch] \cap nodes
          BY <3>2, <3>4, <3>6
        <5> QED  BY <3>6, <5>1, <5>2
      <4>2. ASSUME NEW j \in 1..n, NEW k \in 1..n, new[j].switch = new[k].switch PROVE j = k
        <5>1. \A m \in 1..n : m \in 1..Len(rows) => new[m].switch = rows[m].switch /\ new[m].switch # v
          BY <3>6, <3>7
        <5>2. new[n].switch = v
          BY <3>4, <3>6
        <5>3. CASE j \in 1..Len(rows) /\ k \in 1..Len(rows)
          BY <1>1, <4>2, <5>1, <5>3 DEF GoodLines
        <5> QED  BY <3>6, <4>2, <5>1, <5>2, <5>3
      <4> QED  BY <3>6, <4>1, <4>2 DEF GoodLines
    <3>9. {new[k].switch : k \in 1..Len(new)} = {rows[k].switch : k \in 1..Len(rows)} \cup {v}
      BY <3>4, <3>6
    <3>10. TreeRoot \in ToSet(w) <=> TreeRoot \in ToSet(u)
      BY <1>1, <1>3, <1>4, <2>3
    <3>11. Q = P \cup {v}
      BY <3>9, <3>10 DEF P, Q, Seen
    <3> QED  BY <3>8, <3>11 DEF Visit
  <2> QED  BY <2>1, <2>2, <2>3
<1>7. Covers(T, u, Q)
  BY <1>1, <1>3, <1>6, VisitCovers DEF v, u, s
<1>8. Once(T, u, Q)
  BY <1>1, <1>2, <1>3, <1>5, <1>6, VisitOnce DEF v, u, s
<1>9. SubWalk(K, nodes, new, u, sub)
  BY <1>1, <1>4, <1>6, <1>7, <1>8 DEF SubWalk, T, Q
<1> QED  BY <1>9 DEF u, s, v

LEMMA FilledKids ==
    ASSUME Settled
    PROVE  Filled(KidsOf)
BY KidsFacts DEF Settled, FilledInv, Filled, All, Vertices

\* The walk begins.
LEMMA SubWalkStart ==
    ASSUME Settled, TreeOK, faithful, NEW nodes, nodes \subseteq nodeInfo,
           NEW sub, sub = [v \in All |-> buildSubTree(findRequiredNodes(nodes), v)]
    PROVE  SubWalk(KidsOf, nodes, <<>>, <<TreeRoot>>, sub)
<1> DEFINE K == KidsOf
           T == Pruned(K, nodes)
           Q == Req(K, nodes)
<1>1. nodes \subseteq Instances /\ IsGraph(K) /\ Shallow(K)
  BY NodesKnown, KidsFacts, ShallowTree
<1>2. findRequiredNodes(nodes) = Q
  BY RequiredFound
<1>3. ASSUME NEW v \in All
      PROVE  sub[v] \in Seq(Vertices) /\ ToSet(sub[v]) = T[v] /\ NoRepeat(sub[v])
  <2>1. tree[v] \in Seq(Vertices) /\ ToSet(tree[v]) = K[v] /\ NoRepeat(tree[v])
    BY DEF TreeOK
  <2>2. sub[v] = buildSubTree(Q, v)
    BY <1>2
  <2>3. T[v] = K[v] \cap Q
    BY DEF Pruned
  <2>4. v \notin Q => K[v] \cap Q = {}
    BY <1>1, RequiredUp
  <2> HIDE DEF K, Q, T
  <2>5. /\ buildSubTree(Q, v) \in Seq(Vertices)
        /\ ToSet(buildSubTree(Q, v)) = IF v \in Q THEN ToSet(tree[v]) \cap Q ELSE {}
        /\ NoRepeat(tree[v]) => NoRepeat(buildSubTree(Q, v))
    BY <2>1, SubTreeFacts
  <2> QED  BY <2>1, <2>2, <2>3, <2>4, <2>5
<1>4. GoodLines(<<>>, K, nodes)
  BY DEF GoodLines
<1>5. Seen(<<>>, <<TreeRoot>>) = {}
  BY WalkBegin DEF Seen
<1>6. Covers(T, <<TreeRoot>>, {}) /\ Once(T, <<TreeRoot>>, {})
  BY WalkBegin
<1>7. <<TreeRoot>> \in Seq(All)
  BY DEF All
<1>8. sub \in [All -> Seq(Vertices)]
  BY <1>3
<1> QED  BY <1>1, <1>3, <1>4, <1>5, <1>6, <1>7, <1>8 DEF SubWalk

\* It ends with all lines.
TreeRows(rows, K, nodes) ==
    /\ nodes \subseteq Instances
    /\ GoodLines(rows, K, nodes)
    /\ \A s \in Wants(K, nodes) : \E k \in 1..Len(rows) : rows[k].switch = s

LEMMA SubWalkEnd ==
    ASSUME Settled, faithful, NEW nodes, NEW rows, NEW sub, SubWalk(KidsOf, nodes, rows, <<>>, sub)
    PROVE  TreeRows(rows, KidsOf, nodes)
<1> DEFINE K == KidsOf
           T == Pruned(K, nodes)
<1>1. /\ IsGraph(K) /\ Shallow(K) /\ nodes \subseteq Instances /\ GoodLines(rows, K, nodes)
      /\ Covers(T, <<>>, Seen(rows, <<>>))
  BY KidsFacts, ShallowTree DEF SubWalk
<1>2. ASSUME NEW s \in Wants(K, nodes) PROVE \E k \in 1..Len(rows) : rows[k].switch = s
  <2>1. s \in Req(K, nodes) /\ s \in Parents /\ s \notin nodes /\ s # TreeRoot /\ s \in All
    BY <1>1, GraphAssumption DEF Wants, Parents, Vertices, Req
  <2>2. PICK c \in K[s] : c \in Req(K, nodes)
    BY <1>1, <2>1, RequiredDown
  <2>3. T[s] # {} /\ K[s] # {}
    BY <2>1, <2>2 DEF Pruned
  <2>4. Leads(K, TreeRoot, s)
    BY <2>1, <2>3, LeadsDown
  <2>5. Leads(T, TreeRoot, s)
    BY <1>1, <2>1, <2>4, PrunedLeads
  <2> HIDE DEF T
  <2>6. s \in Seen(rows, <<>>)
    BY <1>1, <2>3, <2>5, WalkEnd
  <2> QED  BY <2>1, <2>6 DEF Seen
<1> QED  BY <1>1, <1>2 DEF TreeRows

\* The units written so far.
UnitsInv ==
    /\ phase \notin {"yaml", "subtree", "done", "failed", "endless"} => units = <<>> /\ todo = {}
    /\ phase = "done" => todo = {}
    /\ phase \in {"yaml", "subtree"} => todo \subseteq DOMAIN units /\ DOMAIN units = DOMAIN topologies
    /\ phase = "yaml" => \A t \in todo : units[t] = NoUnit
    /\ phase = "subtree" =>
           /\ unit \in todo /\ \A t \in todo \ {unit} : units[t] = NoUnit
           /\ units[unit] = [plugin |-> "tree", lines |-> units[unit].lines, sizes |-> <<>>]
           /\ faithful =>
                  SubWalk(KidsOf, topologies[unit].nodes, units[unit].lines, work, subtree)
    /\ \A t \in DOMAIN units : units[t].plugin = "block" => BlockUnit(t)
    /\ faithful => \A t \in DOMAIN units \ todo :
           units[t].plugin = "tree" => TreeRows(units[t].lines, KidsOf, topologies[t].nodes)

LEMMA WriteSwitchStep ==
    ASSUME Settled, faithful, WriteSwitch, unit \in DOMAIN units,
           units[unit] = [plugin |-> "tree", lines |-> units[unit].lines, sizes |-> <<>>],
           SubWalk(KidsOf, topologies[unit].nodes, units[unit].lines, work, subtree)
    PROVE  SubWalk(KidsOf, topologies[unit].nodes, units'[unit].lines, work', subtree)
<1> DEFINE v == Head(work)
           nodes == topologies[unit].nodes
           K == KidsOf
           rows == units[unit].lines
           leaves == {w \in Kids(v) : Kids(w) = {} /\ w \in nodes}
           switches == {w \in Kids(v) : Kids(w) # {} /\ w \in ToSet(subtree[v])}
           line == [switch |-> v, children |-> switches, nodes |-> leaves]
<1>1. work # <<>> /\ work' = Tail(work) \o subtree[v]
  BY DEF WriteSwitch
<1>2. IF v # TreeRoot /\ subtree[v] # <<>> /\ leaves \cup switches # {}
      THEN units' = [units EXCEPT ![unit].lines = Append(@, line)]
      ELSE units' = units
  BY DEF WriteSwitch
<1>3. IsGraph(K) /\ OneParent(K) /\ Filled(K)
  BY KidsFacts, TreeShape, FilledKids
<1>4. v \in All
  BY <1>1, TailFacts DEF SubWalk
<1>5. /\ Kids(v) = K[v] /\ \A x \in K[v] : Kids(x) = K[x]
      /\ ToSet(subtree[v]) = Pruned(K, nodes)[v]
  BY <1>4, KidsFacts DEF SubWalk
<1>6. LineOf(K, nodes, v, leaves, switches)
  <2>1. \A x : x \in leaves <=> x \in Kids(v) /\ Kids(x) = {} /\ x \in nodes
    OBVIOUS
  <2>2. \A x : x \in switches <=> x \in Kids(v) /\ Kids(x) # {} /\ x \in ToSet(subtree[v])
    OBVIOUS
  <2> HIDE DEF leaves, switches, v, nodes
  <2> QED  BY <1>5, <2>1, <2>2 DEF LineOf
<1> HIDE DEF leaves, switches
<1>7. IF v # TreeRoot /\ subtree[v] # <<>> /\ leaves \cup switches # {}
      THEN units'[unit].lines = Append(rows, line)
      ELSE units'[unit].lines = rows
  BY <1>2
<1> DEFINE new == units'[unit].lines
<1> HIDE DEF new
<1>8. IF v # TreeRoot /\ subtree[v] # <<>> /\ leaves \cup switches # {}
      THEN new = Append(rows, [switch |-> v, children |-> switches, nodes |-> leaves])
      ELSE new = rows
  BY <1>7 DEF new
<1> HIDE DEF rows, nodes
<1>9. SubWalk(K, nodes, rows, work, subtree)
  BY DEF rows, nodes
<1>10. SubWalk(K, nodes, new, Tail(work) \o subtree[v], subtree)
  BY <1>1, <1>3, <1>6, <1>8, <1>9, SubWalkStep
<1> QED  BY <1>1, <1>10 DEF new, nodes

\* A step of the phase "yaml".
LEMMA UnitsYaml ==
    ASSUME BaseInv, TreeInv, BlocksInv, UnitsInv, phase = "yaml", [PartitionNext]_partitionVars
    PROVE  UnitsInv'
<1> USE DEF partitionVars, topoVars, graphVars
<1>0. /\ Settled /\ ConfigOK /\ TreeOK /\ BlocksOK /\ Found
      /\ KidsOf' = KidsOf /\ Domains' = Domains /\ domains' = domains /\ blocks' = blocks
      /\ faithful' = faithful /\ topologies' = topologies
  BY Frozen, KidsStay, TreeStays
  DEF BaseInv, TreeInv, BlocksInv, inputVars, infoVars, Early, Written
<1>1. /\ todo \subseteq DOMAIN units /\ DOMAIN units = DOMAIN topologies
      /\ \A t \in todo : units[t] = NoUnit
  BY DEF UnitsInv
<1>2. \A t : units'[t] = units[t] /\ BlockUnit(t) => BlockUnit(t)'
  BY <1>0 DEF BlockUnit
<1>3. ASSUME NEW t \in todo, flatUnit(t) PROVE UnitsInv'
  <2>1. /\ units' = [units EXCEPT ![t].plugin = "flat"] /\ todo' = todo \ {t} /\ phase' = phase
    BY <1>3 DEF flatUnit
  <2>2. /\ DOMAIN units' = DOMAIN units /\ units'[t].plugin = "flat"
        /\ \A u \in DOMAIN units : u # t => units'[u] = units[u]
    BY <1>1, <2>1 DEF NoUnit
  <2>3. \A u \in DOMAIN units' : units'[u].plugin = "block" => BlockUnit(u)'
    BY <1>2, <2>2 DEF UnitsInv
  <2>4. faithful => \A u \in DOMAIN units' \ todo' :
            units'[u].plugin = "tree" => TreeRows(units'[u].lines, KidsOf, topologies[u].nodes)
    BY <2>1, <2>2 DEF UnitsInv
  <2> QED  BY <1>0, <1>1, <2>1, <2>2, <2>3, <2>4 DEF UnitsInv
<1>4. ASSUME NEW t \in todo, getBlockTopologyUnit(t) PROVE UnitsInv'
  <2>1. BlockUnit(t)' /\ units'[t].plugin = "block"
    BY <1>0, <1>1, <1>4, BlockUnitStep
  <2>2. todo' = todo \ {t} /\ phase' = phase
    BY <1>4 DEF getBlockTopologyUnit
  <2>3. DOMAIN units' = DOMAIN units /\ \A u \in DOMAIN units : u # t => units'[u] = units[u]
    BY <1>4 DEF getBlockTopologyUnit
  <2>4. \A u \in DOMAIN units' : units'[u].plugin = "block" => BlockUnit(u)'
    <3> SUFFICES ASSUME NEW u \in DOMAIN units, u # t, units'[u].plugin = "block" PROVE BlockUnit(u)'
      BY <2>1, <2>3
    <3> QED  BY <1>2, <2>3 DEF UnitsInv
  <2>5. faithful => \A u \in DOMAIN units' \ todo' :
            units'[u].plugin = "tree" => TreeRows(units'[u].lines, KidsOf, topologies[u].nodes)
    BY <2>1, <2>2, <2>3 DEF UnitsInv
  <2> QED  BY <1>0, <1>1, <2>2, <2>3, <2>4, <2>5 DEF UnitsInv
<1>5. ASSUME NEW t \in todo, getTreeTopologyUnit(t), phase' = "subtree"
      PROVE  UnitsInv'
  <2>0. topologies[t].nodes \subseteq nodeInfo
    BY <1>5 DEF getTreeTopologyUnit
  <2>1. /\ work' = <<TreeRoot>> /\ unit' = t /\ todo' = todo
        /\ units' = [units EXCEPT ![t].plugin = "tree"]
        /\ subtree' = [v \in All |-> buildSubTree(findRequiredNodes(topologies[t].nodes), v)]
    BY <1>5 DEF getTreeTopologyUnit
  <2>2. /\ DOMAIN units' = DOMAIN units
        /\ units'[t] = [plugin |-> "tree", lines |-> <<>>, sizes |-> <<>>]
        /\ units'[t].lines = <<>> /\ units'[t].plugin = "tree"
        /\ \A u \in DOMAIN units : u # t => units'[u] = units[u]
    BY <1>1, <2>1 DEF NoUnit
  <2>3. faithful => SubWalk(KidsOf, topologies[t].nodes, <<>>, <<TreeRoot>>, subtree')
    BY <1>0, <2>0, <2>1, SubWalkStart
  <2>4. \A u \in DOMAIN units' : units'[u].plugin = "block" => BlockUnit(u)'
    <3> SUFFICES ASSUME NEW u \in DOMAIN units, u # t, units'[u].plugin = "block" PROVE BlockUnit(u)'
      BY <2>2
    <3> QED  BY <1>2, <2>2 DEF UnitsInv
  <2>5. faithful => \A u \in DOMAIN units' \ todo' :
            units'[u].plugin = "tree" => TreeRows(units'[u].lines, KidsOf, topologies[u].nodes)
    BY <2>1, <2>2 DEF UnitsInv
  <2>6. /\ unit' \in todo' /\ \A u \in todo' \ {unit'} : units'[u] = NoUnit
        /\ units'[unit'] = [plugin |-> "tree", lines |-> units'[unit'].lines, sizes |-> <<>>]
        /\ faithful => SubWalk(KidsOf, topologies[t].nodes, units'[unit'].lines, work', subtree')
    BY <1>1, <2>1, <2>2, <2>3
  <2> QED  BY <1>0, <1>1, <1>5, <2>1, <2>2, <2>4, <2>5, <2>6 DEF UnitsInv
<1>6. CASE units' = units /\ todo' = todo /\ phase' \in {"yaml", "failed", "endless", "done"} /\ (phase' = "done" => todo = {})
  <2>1. \A u \in DOMAIN units' : units'[u].plugin = "block" => BlockUnit(u)'
    BY <1>2, <1>6 DEF UnitsInv
  <2> QED  BY <1>0, <1>1, <1>6, <2>1 DEF UnitsInv
<1>7. ASSUME NEW t \in todo, getTreeTopologyUnit(t), phase' # "subtree"
      PROVE  units' = units /\ todo' = todo /\ phase' \in {"failed", "endless"}
  BY <1>7 DEF getTreeTopologyUnit
<1> QED  BY <1>3, <1>4, <1>5, <1>6, <1>7, StepYaml DEF EndYaml, yamlVars

\* A step of the phase "subtree".
LEMMA UnitsSubtree ==
    ASSUME BaseInv, UnitsInv, phase = "subtree", [PartitionNext]_partitionVars
    PROVE  UnitsInv'
<1> USE DEF partitionVars, topoVars, graphVars
<1>0. /\ Settled /\ KidsOf' = KidsOf /\ Domains' = Domains /\ domains' = domains /\ blocks' = blocks
      /\ faithful' = faithful /\ topologies' = topologies
  BY Frozen, KidsStay, TreeStays DEF BaseInv, inputVars, infoVars, Early, Written
<1>1. /\ todo \subseteq DOMAIN units /\ DOMAIN units = DOMAIN topologies
      /\ unit \in todo /\ \A t \in todo \ {unit} : units[t] = NoUnit
      /\ units[unit] = [plugin |-> "tree", lines |-> units[unit].lines, sizes |-> <<>>]
      /\ faithful => SubWalk(KidsOf, topologies[unit].nodes, units[unit].lines, work, subtree)
      /\ units[unit].plugin = "tree"
  BY DEF UnitsInv
<1>2. \A t : units'[t] = units[t] /\ BlockUnit(t) => BlockUnit(t)'
  BY <1>0 DEF BlockUnit
<1>3. CASE WriteSwitch
  <2>1. unit' = unit /\ todo' = todo /\ phase' = phase /\ subtree' = subtree
    BY <1>3 DEF WriteSwitch
  <2>2. faithful => SubWalk(KidsOf, topologies[unit].nodes, units'[unit].lines, work', subtree)
    BY <1>0, <1>1, <1>3, WriteSwitchStep
  <2>3. /\ DOMAIN units' = DOMAIN units
        /\ units'[unit] = [plugin |-> "tree", lines |-> units'[unit].lines, sizes |-> <<>>]
        /\ units'[unit].plugin = "tree"
        /\ \A u \in DOMAIN units : u # unit => units'[u] = units[u]
    <3>1. units' = units \/ \E x : units' = [units EXCEPT ![unit].lines = Append(@, x)]
      BY <1>3 DEF WriteSwitch
    <3> QED  BY <1>1, <3>1
  <2>4. \A u \in DOMAIN units' : units'[u].plugin = "block" => BlockUnit(u)'
    <3> SUFFICES ASSUME NEW u \in DOMAIN units, u # unit, units'[u].plugin = "block" PROVE BlockUnit(u)'
      BY <2>3
    <3> QED  BY <1>2, <2>3 DEF UnitsInv
  <2>5. faithful => \A u \in DOMAIN units' \ todo' :
            units'[u].plugin = "tree" => TreeRows(units'[u].lines, KidsOf, topologies[u].nodes)
    BY <1>1, <2>1, <2>3 DEF UnitsInv
  <2> QED  BY <1>0, <1>1, <2>1, <2>2, <2>3, <2>4, <2>5 DEF UnitsInv
<1>4. CASE EndUnit
  <2>1. phase' = "yaml" /\ todo' = todo \ {unit} /\ units' = units /\ work = <<>>
    BY <1>4 DEF EndUnit
  <2>2. faithful => TreeRows(units[unit].lines, KidsOf, topologies[unit].nodes)
    BY <1>0, <1>1, <2>1, SubWalkEnd
  <2>3. \A u \in DOMAIN units' : units'[u].plugin = "block" => BlockUnit(u)'
    BY <1>2, <2>1 DEF UnitsInv
  <2>4. faithful => \A u \in DOMAIN units' \ todo' :
            units'[u].plugin = "tree" => TreeRows(units'[u].lines, KidsOf, topologies[u].nodes)
    BY <2>1, <2>2 DEF UnitsInv
  <2> QED  BY <1>0, <1>1, <2>1, <2>3, <2>4 DEF UnitsInv
<1>5. CASE UNCHANGED partitionVars
  <2>1. units' = units /\ todo' = todo /\ phase' = phase /\ unit' = unit /\ work' = work /\ subtree' = subtree
    BY <1>5 DEF yamlVars
  <2>2. \A u \in DOMAIN units' : units'[u].plugin = "block" => BlockUnit(u)'
    BY <1>2, <2>1 DEF UnitsInv
  <2> QED  BY <1>0, <1>1, <2>1, <2>2 DEF UnitsInv
<1> QED  BY <1>3, <1>4, <1>5, StepSubtree

LEMMA UnitsStep ==
    ASSUME BaseInv, TreeInv, BlocksInv, UnitsInv, [PartitionNext]_partitionVars
    PROVE  UnitsInv'
<1> USE DEF partitionVars, topoVars, graphVars, yamlVars
<1>1. CASE phase = "reports"
  <2>1. units' = units /\ todo' = todo /\ phase' \in {"reports", "built"}
    BY <1>1, StepReports DEF AddReport, AddMissing
  <2> QED  BY <1>1, <2>1 DEF UnitsInv
<1>2. CASE phase \in Early
  <2>1. units' = units /\ todo' = todo /\ phase' \notin {"yaml", "subtree", "done", "failed", "endless"}
    BY <1>2, StepEarly DEF Early, GetTranslateConfig, Validate, GetTopologies, ValidateTopologies
  <2> QED  BY <1>2, <2>1 DEF UnitsInv, Early
<1>3. CASE phase = "initTree"
  <2>1. units' = units /\ todo' = todo /\ phase' \notin {"yaml", "subtree", "done", "failed", "endless"}
    BY <1>3, StepInitTree DEF initTree, setBlockIDs
  <2> QED  BY <1>3, <2>1 DEF UnitsInv
<1>4. CASE phase = "initBlocks"
  <2>0. units = <<>> /\ todo = {}
    BY <1>4 DEF UnitsInv
  <2>1. CASE StartYaml
    <3>1. /\ phase' = "yaml" /\ todo' = DOMAIN topologies /\ topologies' = topologies
          /\ units' = [t \in DOMAIN topologies |-> NoUnit]
      BY <2>1 DEF StartYaml
    <3>2. \A t \in DOMAIN units' : units'[t] = NoUnit /\ units'[t].plugin = "none"
      BY <3>1 DEF NoUnit
    <3> QED  BY <3>1, <3>2 DEF UnitsInv
  <2>2. CASE units' = units /\ todo' = todo /\ phase' \in {"initBlocks", "tree", "block"}
    BY <2>0, <2>2 DEF UnitsInv
  <2>3. plugin \in {"none", "tree", "block"}
    BY <1>4 DEF BaseInv, PhaseInv
  <2> QED  BY <1>4, <2>1, <2>2, <2>3, StepInitBlocks DEF initBlocks, StartOutput
<1>5. CASE phase \in {"tree", "block"}
  <2>0. units = <<>> /\ todo = {}
    BY <1>5 DEF UnitsInv
  <2>1. units' = units /\ todo' = todo /\ phase' \in {"tree", "block", "done", "failed", "endless"}
    BY <1>5, StepTree, StepBlock DEF toTreeTopology, toBlockTopology, Finish
  <2> QED  BY <2>0, <2>1 DEF UnitsInv
<1>6. CASE phase = "yaml"
  BY <1>6, UnitsYaml
<1>7. CASE phase = "subtree"
  BY <1>7, UnitsSubtree
<1>8. CASE phase \in Ended
  <2>1. UNCHANGED partitionVars
    BY <1>8, StepEnded
  <2>2. KidsOf' = KidsOf /\ Domains' = Domains
    BY <2>1, KidsStay DEF inputVars
  <2>3. \A t : BlockUnit(t) => BlockUnit(t)'
    BY <2>1, <2>2 DEF BlockUnit, infoVars
  <2> QED  BY <1>8, <2>1, <2>2, <2>3 DEF UnitsInv, Ended
<1> QED  BY <1>1, <1>2, <1>3, <1>4, <1>5, <1>6, <1>7, <1>8 DEF BaseInv, PhaseInv, Ended, Written

LEMMA UnitsInvariance == PartitionSpec => []UnitsInv
<1>1. PartitionInit => UnitsInv
  BY DEF PartitionInit, TopoInit, GraphInit, UnitsInv
<1>2. BaseInv /\ TreeInv /\ BlocksInv /\ UnitsInv /\ [PartitionNext]_partitionVars => UnitsInv'
  BY UnitsStep
<1> QED  BY <1>1, <1>2, BaseInvariance, TreeInvariance, BlocksInvariance, PTL DEF PartitionSpec

\* The block output for a partition has the accelerator domains its nodes are
\* in, in the cluster's order, with those nodes and no others, whatever the
\* reports and the sizes asked for (getBlockTopologyUnit).
THEOREM PartitionGetsItsBlocks == PartitionSpec => []PartitionBlocksExact
<1>1. ASSUME UnitsInv PROVE PartitionBlocksExact
  <2>1. \A t \in Units("block") : BlockUnit(t)
    BY <1>1 DEF Units, UnitsInv
  <2> QED  BY <2>1 DEF PartitionBlocksExact, BlockUnit, GoodRows
<1> QED  BY <1>1, UnitsInvariance, PTL

\* Instances below a vertex are three steps away, or nearer.
LEMMA UnderFacts ==
    ASSUME Settled, NEW v \in All
    PROVE  \A x : x \in Under(v) <=>
               /\ x \in Instances
               /\ \/ x \in KidsOf[v]
                  \/ \E a \in KidsOf[v] : x \in KidsOf[a] \/ \E b \in KidsOf[a] : x \in KidsOf[b]
<1> DEFINE K == KidsOf
           below(S) == UNION {Kids(w) : w \in S}
           one == Kids(v)
           two == below(one)
           three == below(two)
<1>1. Under(v) = (one \cup two \cup three) \cap Instances
  BY DEF Under
<1>2. \A w \in All : Kids(w) = K[w] /\ K[w] \subseteq All
  BY KidsFacts
<1>3. \A x : x \in one <=> x \in K[v]
  BY <1>2
<1>4. \A x : x \in two <=> \E a \in one : x \in Kids(a)
  OBVIOUS
<1>5. \A x : x \in three <=> \E b \in two : x \in Kids(b)
  <2> HIDE DEF two
  <2> QED  OBVIOUS
<1> HIDE DEF one, two, three, K
<1>6. one \subseteq All
  BY <1>2, <1>3
<1>7. \A x : x \in two <=> \E a \in K[v] : x \in K[a]
  BY <1>2, <1>3, <1>4, <1>6
<1>8. two \subseteq All
  BY <1>2, <1>3, <1>6, <1>7
<1>9. \A x : x \in three <=> \E b \in two : x \in K[b]
  BY <1>2, <1>5, <1>8
<1>10. \A x : x \in three <=> \E a \in K[v] : \E b \in K[a] : x \in K[b]
  BY <1>7, <1>9
<1> QED  BY <1>1, <1>3, <1>7, <1>10 DEF K

\* If the reports agree, the switches above the nodes of a partition are the
\* required ones.
LEMMA WantedSwitches ==
    ASSUME Settled, faithful, NEW nodes, nodes \subseteq Instances
    PROVE  {s \in Parents : Under(s) \cap nodes # {}} = Wants(KidsOf, nodes)
<1> DEFINE K == KidsOf
<1>1. ASSUME NEW s \in Parents PROVE Under(s) \cap nodes # {} <=> s \in Req(K, nodes)
  <2>1. s \in All /\ s \in Vertices /\ s \notin nodes
    BY GraphAssumption DEF All, Vertices, Parents
  <2>2. \A x \in nodes : x \in Under(s) <=>
            \/ x \in K[s]
            \/ \E a \in K[s] : x \in K[a] \/ \E b \in K[a] : x \in K[b]
    BY <2>1, UnderFacts
  <2>3. Shallow(K)
    BY ShallowTree
  <2> HIDE DEF K
  <2>4. \A x \in nodes : x \in Under(s) <=> Leads(K, s, x)
    BY <2>1, <2>2, <2>3 DEF Leads, Shallow
  <2> QED  BY <2>1, <2>4 DEF Req
<1> HIDE DEF K
<1> QED  BY <1>1 DEF Wants, K

\* If the reports agree, the tree output for a partition has one line for each
\* switch above one of its nodes, and no other, with the switches and the nodes
\* of the partition below it, whatever the fabric (getTreeTopologyUnit,
\* findRequiredNodes, buildSubTree).
THEOREM PartitionGetsItsTree == PartitionSpec => []PartitionTreeExact
<1>1. ASSUME BaseInv, UnitsInv PROVE PartitionTreeExact
  <2> SUFFICES ASSUME faithful, NEW t \in Units("tree")
               PROVE  LET rows   == units[t].lines
                          nodes  == topologies[t].nodes
                          wanted == {s \in Parents : Under(s) \cap nodes # {}}
                      IN  /\ Len(rows) = Cardinality(wanted)
                          /\ {rows[k].switch : k \in DOMAIN rows} = wanted
                          /\ \A k \in DOMAIN rows :
                                 /\ rows[k].children = children[rows[k].switch] \cap wanted
                                 /\ rows[k].nodes = children[rows[k].switch] \cap nodes
    BY DEF PartitionTreeExact
  <2> DEFINE rows == units[t].lines
             nodes == topologies[t].nodes
             W == Wants(KidsOf, nodes)
             f == [k \in 1..Len(rows) |-> rows[k].switch]
  <2>1. phase = "done" /\ Settled /\ TreeRows(rows, KidsOf, nodes)
    BY <1>1 DEF Units, UnitsInv, BaseInv
  <2>2. {s \in Parents : Under(s) \cap nodes # {}} = W
    BY <2>1, WantedSwitches DEF TreeRows
  <2>3. rows \in Seq(Row) /\ Len(rows) \in Nat /\ DOMAIN rows = 1..Len(rows)
    BY <2>1 DEF TreeRows, GoodLines
  <2> HIDE DEF rows, nodes, W
  <2>4. /\ \A k \in 1..Len(rows) :
               /\ rows[k].switch \in W
               /\ rows[k].children = KidsOf[rows[k].switch] \cap W
               /\ rows[k].nodes = KidsOf[rows[k].switch] \cap nodes
        /\ \A j, k \in 1..Len(rows) : rows[j].switch = rows[k].switch => j = k
        /\ \A s \in W : \E k \in 1..Len(rows) : rows[k].switch = s
    BY <2>1 DEF TreeRows, GoodLines, W
  <2>5. \A s \in W : KidsOf[s] = children[s]
    BY <2>1, KidsFacts DEF W, Wants
  <2>6. {rows[k].switch : k \in DOMAIN rows} = W
    BY <2>3, <2>4
  <2>7. Len(rows) = Cardinality(W)
    <3>1. f \in Bijection(1..Len(rows), W)
      BY <2>4 DEF Bijection, Injection, Surjection, IsInjective
    <3>2. ExistsBijection(1..Len(rows), W)
      BY <3>1 DEF ExistsBijection
    <3>3. IsFiniteSet(1..Len(rows)) /\ Cardinality(1..Len(rows)) = Len(rows)
      BY <2>3, IntervalSize
    <3> QED  BY <3>2, <3>3, FS_Bijection
  <2>8. \A k \in DOMAIN rows :
            /\ rows[k].children = children[rows[k].switch] \cap W
            /\ rows[k].nodes = children[rows[k].switch] \cap nodes
    BY <2>3, <2>4, <2>5
  <2> DEFINE wanted == {s \in Parents : Under(s) \cap nodes # {}}
  <2>9. wanted = W
    BY <2>2 DEF nodes
  <2> HIDE DEF wanted
  <2>10. /\ Len(rows) = Cardinality(wanted)
         /\ {rows[k].switch : k \in DOMAIN rows} = wanted
         /\ \A k \in DOMAIN rows :
                /\ rows[k].children = children[rows[k].switch] \cap wanted
                /\ rows[k].nodes = children[rows[k].switch] \cap nodes
    BY <2>6, <2>7, <2>8, <2>9
  <2> QED  BY <2>10 DEF rows, nodes, wanted
<1> QED  BY <1>1, BaseInvariance, UnitsInvariance, PTL

----------------------------------------------------------------------------
(* The order of blocks.  In a tree, what is below a vertex is on top of the *)
(* stack from the visit of the vertex until all of it was visited.          *)

IsTree(K) == IsGraph(K) /\ OneParent(K) /\ Shallow(K)

\* One step more at the beginning or at the end of a path, one step less at its
\* end, and no cycles.
LEMMA Paths ==
    ASSUME NEW K, IsTree(K), NEW h \in All, NEW c \in K[h]
    PROVE  /\ c \in Vertices /\ c \in All
           /\ \A x : Leads(K, c, x) => Leads(K, h, x)
           /\ \A s \in Vertices : Leads(K, s, h) => Leads(K, s, c)
           /\ \A u \in All : Leads(K, u, c) /\ u # c => Leads(K, u, h)
           /\ ~Leads(K, c, h)
<1>1. /\ c \in Vertices /\ c \in All /\ \A v \in All : K[v] \subseteq Vertices /\ K[v] \subseteq All
      /\ Vertices \subseteq All
  BY DEF IsTree, IsGraph, All
<1>2. Shallow(K) /\ OneParent(K)
  BY DEF IsTree
<1>3. ASSUME NEW x, Leads(K, c, x) PROVE Leads(K, h, x)
  BY <1>1, <1>2, <1>3 DEF Leads, Shallow
<1>4. ASSUME NEW s \in Vertices, Leads(K, s, h) PROVE Leads(K, s, c)
  BY <1>1, <1>2, <1>4 DEF Leads, Shallow
<1>5. \A p \in All : c \in K[p] => p = h
  BY <1>2 DEF OneParent
<1>6. ASSUME NEW u \in All, Leads(K, u, c), u # c PROVE Leads(K, u, h)
  <2>1. CASE c \in K[u]
    BY <1>5, <2>1 DEF Leads
  <2>2. CASE \E a \in K[u] : c \in K[a]
    BY <1>1, <1>5, <2>2 DEF Leads
  <2>3. CASE \E a \in K[u] : \E b \in K[a] : c \in K[b]
    BY <1>1, <1>5, <2>3 DEF Leads
  <2>4. CASE \E a \in K[u] : \E b \in K[a] : \E d \in K[b] : c \in K[d]
    BY <1>1, <1>5, <2>4 DEF Leads
  <2> QED  BY <1>6, <2>1, <2>2, <2>3, <2>4 DEF Leads
<1>7. ASSUME Leads(K, c, h) PROVE FALSE
  <2>1. CASE c = h \/ h \in K[c]
    BY <1>1, <1>2, <2>1 DEF Shallow
  <2>2. CASE \E a \in K[c] : h \in K[a]
    BY <1>1, <1>2, <2>2 DEF Shallow
  <2>3. CASE \E a \in K[c] : \E b \in K[a] : h \in K[b]
    BY <1>1, <1>2, <2>3 DEF Shallow
  <2>4. CASE \E a \in K[c] : \E b \in K[a] : \E d \in K[b] : h \in K[d]
    BY <1>1, <1>2, <2>4 DEF Shallow
  <2> QED  BY <1>7, <2>1, <2>2, <2>3, <2>4 DEF Leads
<1> QED  BY <1>1, <1>3, <1>4, <1>6, <1>7

\* A step of the stack: what was below the first vertex moves by n - 1 places,
\* for the n children in front of it.
Pushed(K, w, u, n) ==
    /\ n \in Nat /\ Len(w) \in Nat /\ Len(w) >= 1 /\ Len(u) = n + Len(w) - 1
    /\ w \in Seq(All) /\ u \in Seq(All)
    /\ \A k \in 1..n : u[k] \in K[w[1]]
    /\ \A c \in K[w[1]] : \E k \in 1..n : u[k] = c
    /\ \A j, k \in 1..n : u[j] = u[k] => j = k
    /\ \A k \in 2..Len(w) : u[n + k - 1] = w[k]

LEMMA PushedFacts ==
    ASSUME NEW K, NEW w \in Seq(All), w # <<>>, NEW s \in Seq(All), ToSet(s) = K[Head(w)], NoRepeat(s)
    PROVE  Pushed(K, w, Reverse(s) \o Tail(w), Len(s))
<1> DEFINE u == Reverse(s) \o Tail(w)
           n == Len(s)
<1>1. Head(w) = w[1] /\ Len(w) \in Nat /\ Len(w) >= 1 /\ Tail(w) \in Seq(All)
  BY TailFacts
<1>2. /\ u \in Seq(All) /\ Len(u) = n + Len(w) - 1
      /\ \A k \in 1..n : u[k] \in ToSet(s)
      /\ \A k \in 2..Len(w) : u[n + k - 1] = w[k]
  BY PushFacts
<1>3. /\ Reverse(s) \in Seq(All) /\ Len(Reverse(s)) = n /\ n \in Nat /\ ToSet(Reverse(s)) = ToSet(s)
      /\ NoRepeat(Reverse(s))
  BY ReverseFacts
<1>4. \A k \in 1..n : u[k] = Reverse(s)[k]
  BY <1>1, <1>3, ConcatFacts
<1>5. ToSet(Reverse(s)) = {Reverse(s)[k] : k \in 1..n}
  BY <1>3, ElementsOf
<1> HIDE DEF u, n
<1>6. \A c \in K[w[1]] : \E k \in 1..n : u[k] = c
  <2> DEFINE r == Reverse(s)
  <2>1. K[w[1]] = {r[k] : k \in 1..n} /\ \A k \in 1..n : u[k] = r[k]
    BY <1>1, <1>3, <1>4, <1>5
  <2> HIDE DEF r
  <2> QED  BY <2>1
<1>7. \A j, k \in 1..n : u[j] = u[k] => j = k
  BY <1>3, <1>4 DEF NoRepeat
<1> QED  BY <1>1, <1>2, <1>3, <1>6, <1>7 DEF Pushed, u, n

\* Where the elements of the new stack come from.
LEMMA PushedFrom ==
    ASSUME NEW K, NEW w, NEW u, NEW n, Pushed(K, w, u, n), NEW k \in 1..Len(u)
    PROVE  \/ k \in 1..n /\ u[k] \in K[w[1]]
           \/ /\ k > n /\ k - n + 1 \in 2..Len(w) /\ k - n + 1 \in 1..Len(w) /\ k - n + 1 # 1
              /\ u[k] = w[k - n + 1]
<1> USE DEF Pushed
<1>1. CASE k <= n
  BY <1>1
<1>2. CASE k > n
  <2>1. k - n + 1 \in 2..Len(w) /\ n + (k - n + 1) - 1 = k
    BY <1>2
  <2>2. u[n + (k - n + 1) - 1] = w[k - n + 1]
    BY <2>1
  <2> QED  BY <1>2, <2>1, <2>2
<1> QED  BY <1>1, <1>2

\* No vertex of the stack is below another.
Antichain(K, w) == \A j, k \in 1..Len(w) : j # k => ~Leads(K, w[j], w[k])

LEMMA AntichainStep ==
    ASSUME NEW K, IsTree(K), NEW w, NEW u, NEW n, Pushed(K, w, u, n), Antichain(K, w)
    PROVE  Antichain(K, u)
<1> SUFFICES ASSUME NEW j \in 1..Len(u), NEW k \in 1..Len(u), j # k, Leads(K, u[j], u[k]) PROVE FALSE
  BY DEF Antichain
<1> DEFINE h == w[1]
<1>1. h \in All /\ 1 \in 1..Len(w) /\ u[j] \in All /\ u[k] \in All /\ n \in Nat
  BY DEF Pushed
<1>2. CASE j \in 1..n /\ k \in 1..n
  <2>1. u[j] # u[k] /\ u[j] \in K[h] /\ u[k] \in K[h]
    BY <1>2 DEF Pushed
  <2>2. Leads(K, u[j], h)
    BY <1>1, <2>1, Paths
  <2> QED  BY <1>1, <2>1, <2>2, Paths
<1>3. CASE j \in 1..n /\ k > n
  <2>1. u[j] \in K[h] /\ k - n + 1 \in 1..Len(w) /\ k - n + 1 # 1 /\ u[k] = w[k - n + 1]
    BY <1>1, <1>3, PushedFrom
  <2>2. Leads(K, h, u[k])
    BY <1>1, <2>1, Paths
  <2> QED  BY <1>1, <2>1, <2>2 DEF Antichain
<1>4. CASE j > n /\ k \in 1..n
  <2>1. u[k] \in K[h] /\ j - n + 1 \in 1..Len(w) /\ j - n + 1 # 1 /\ u[j] = w[j - n + 1]
    BY <1>1, <1>4, PushedFrom
  <2>2. CASE u[j] = u[k]
    <3>1. Leads(K, h, u[j])
      BY <2>1, <2>2 DEF Leads
    <3> QED  BY <1>1, <2>1, <3>1 DEF Antichain
  <2>3. CASE u[j] # u[k]
    <3>1. Leads(K, u[j], h)
      BY <1>1, <2>1, <2>3, Paths
    <3> QED  BY <1>1, <2>1, <3>1 DEF Antichain
  <2> QED  BY <2>2, <2>3
<1>5. CASE j > n /\ k > n
  <2>0. j \notin 1..n /\ k \notin 1..n
    BY <1>1, <1>5
  <2>1. j - n + 1 \in 1..Len(w) /\ u[j] = w[j - n + 1]
    BY <2>0, PushedFrom
  <2>2. k - n + 1 \in 1..Len(w) /\ u[k] = w[k - n + 1]
    BY <2>0, PushedFrom
  <2>3. j - n + 1 # k - n + 1
    BY <1>1
  <2> QED  BY <2>1, <2>2, <2>3 DEF Antichain
<1> QED  BY <1>1, <1>2, <1>3, <1>4, <1>5

LEMMA FirstStep ==
    ASSUME NEW K, NEW x, NEW s, Leads(K, x, s), x # s
    PROVE  \E a \in K[x] : Leads(K, a, s)
BY DEF Leads

LEMMA PathsJoin ==
    ASSUME NEW K, IsTree(K), NEW x \in All, NEW s \in Vertices, Leads(K, x, s), NEW h, Leads(K, s, h)
    PROVE  Leads(K, x, h)
<1>1. /\ \A v \in All : K[v] \subseteq Vertices /\ K[v] \subseteq All
      /\ Vertices \subseteq All
  BY DEF IsTree, IsGraph, All
<1>2. \A y \in Vertices : \A v \in All : \A c \in K[v] : Leads(K, y, v) => Leads(K, y, c)
  BY Paths
<1>3. ASSUME NEW y \in Vertices, Leads(K, y, s) PROVE Leads(K, y, h)
  <2>1. CASE s = h \/ h \in K[s]
    BY <1>1, <1>2, <1>3, <2>1
  <2>2. CASE \E a \in K[s] : h \in K[a]
    BY <1>1, <1>2, <1>3, <2>2
  <2>3. CASE \E a \in K[s] : \E b \in K[a] : h \in K[b]
    BY <1>1, <1>2, <1>3, <2>3
  <2>4. CASE \E a \in K[s] : \E b \in K[a] : \E d \in K[b] : h \in K[d]
    BY <1>1, <1>2, <1>3, <2>4
  <2> QED  BY <2>1, <2>2, <2>3, <2>4 DEF Leads
<1>4. CASE x = s
  BY <1>4
<1>5. CASE x # s
  <2>1. PICK a \in K[x] : Leads(K, a, s)
    BY <1>5, FirstStep
  <2>2. Leads(K, a, h)
    BY <1>1, <1>3, <2>1
  <2> QED  BY <2>2, Paths
<1> QED  BY <1>4, <1>5

\* The blocks of a set X among all of them: consecutive, at the end, none.
Convex(X, bs) == \A j, k, l \in 1..Len(bs) : j < k /\ k < l /\ bs[j] \in X /\ bs[l] \in X => bs[k] \in X
AtEnd(X, bs) == \A j, k \in 1..Len(bs) : j < k /\ bs[j] \in X => bs[k] \in X
Free(X, bs) == \A k \in 1..Len(bs) : bs[k] \notin X

LEMMA OneMore ==
    ASSUME NEW V, NEW bs \in Seq(V), NEW a \in V, NEW X
    PROVE  /\ a \notin X /\ Convex(X, bs) => Convex(X, Append(bs, a))
           /\ a \in X /\ AtEnd(X, bs) => Convex(X, Append(bs, a)) /\ AtEnd(X, Append(bs, a))
           /\ a \notin X /\ Free(X, bs) => Free(X, Append(bs, a))
<1> DEFINE cs == Append(bs, a)
<1>1. /\ Len(bs) \in Nat /\ Len(cs) = Len(bs) + 1 /\ cs[Len(bs) + 1] = a
      /\ \A k \in 1..Len(bs) : cs[k] = bs[k]
  OBVIOUS
<1>2. \A k \in 1..Len(cs) : k \in 1..Len(bs) \/ k = Len(bs) + 1
  BY <1>1
<1> HIDE DEF cs
<1>3. ASSUME a \notin X, Convex(X, bs) PROVE Convex(X, cs)
  <2> SUFFICES ASSUME NEW j \in 1..Len(cs), NEW k \in 1..Len(cs), NEW l \in 1..Len(cs),
                      j < k, k < l, cs[j] \in X, cs[l] \in X
               PROVE  cs[k] \in X
    BY DEF Convex
  <2>1. l \in 1..Len(bs)
    BY <1>1, <1>2, <1>3
  <2>2. j \in 1..Len(bs) /\ k \in 1..Len(bs)
    BY <1>1, <2>1
  <2> QED  BY <1>1, <1>3, <2>1, <2>2 DEF Convex
<1>4. ASSUME a \in X, AtEnd(X, bs) PROVE AtEnd(X, cs)
  <2> SUFFICES ASSUME NEW j \in 1..Len(cs), NEW k \in 1..Len(cs), j < k, cs[j] \in X
               PROVE  cs[k] \in X
    BY DEF AtEnd
  <2>1. CASE k = Len(bs) + 1
    BY <1>1, <1>4, <2>1
  <2>2. CASE k \in 1..Len(bs)
    <3>1. j \in 1..Len(bs)
      BY <1>1, <2>2
    <3> QED  BY <1>1, <1>4, <2>2, <3>1 DEF AtEnd
  <2> QED  BY <1>2, <2>1, <2>2
<1>5. AtEnd(X, cs) => Convex(X, cs)
  BY DEF AtEnd, Convex
<1>6. ASSUME a \notin X, Free(X, bs) PROVE Free(X, cs)
  BY <1>1, <1>2, <1>6 DEF Free
<1> QED  BY <1>3, <1>4, <1>5, <1>6 DEF cs

\* A vertex s to be visited has nothing of what is below it in the output.
\* Once it is visited, the rest of what is below it is on top of the stack, and
\* as long as there is a rest, what is in the output is at its end.
Above(K, s, w) == \E k \in 1..Len(w) : Leads(K, w[k], s)
OnTop(K, s, w) == \A j, k \in 1..Len(w) : j < k /\ Leads(K, s, w[k]) => Leads(K, s, w[j])

Near(K, s, w, X, bs) ==
    /\ Convex(X, bs)
    /\ Above(K, s, w) => Free(X, bs)
    /\ ~Above(K, s, w) => OnTop(K, s, w)
    /\ ~Above(K, s, w) /\ Len(w) >= 1 /\ Leads(K, s, w[1]) => AtEnd(X, bs)

LEMMA FreeEnds ==
    ASSUME NEW X, NEW bs, Free(X, bs) PROVE Convex(X, bs) /\ AtEnd(X, bs)
BY DEF Free, Convex, AtEnd

\* What a visit may add: nothing, or a block that is in X exactly if the visited
\* vertex, which has no children, is below s.
Adds(K, s, h, X, bs, cs) ==
    \/ cs = bs
    \/ \E a \in Accelerators : /\ cs = Append(bs, a) /\ K[h] = {} /\ h # s
                               /\ a \in X <=> Leads(K, s, h)

LEMMA NearStep ==
    ASSUME NEW K, IsTree(K), NEW s \in Vertices, NEW w, NEW u, NEW n, Pushed(K, w, u, n),
           Antichain(K, w), NEW X, NEW bs \in Seq(Accelerators), NEW cs,
           Adds(K, s, w[1], X, bs, cs), Near(K, s, w, X, bs)
    PROVE  Near(K, s, u, X, cs)
<1> DEFINE h == w[1]
<1>1. /\ h \in All /\ 1 \in 1..Len(w) /\ n \in Nat /\ s \in All
      /\ \A k \in 1..Len(w) : w[k] \in All
      /\ \A k \in 1..n : u[k] \in K[h]
      /\ \A c \in K[h] : \E k \in 1..n : u[k] = c
      /\ 1..n \subseteq 1..Len(u)
  BY DEF Pushed, All
<1>2. \A c \in K[h] : /\ Leads(K, c, s) => Leads(K, h, s)
                      /\ Leads(K, s, h) => Leads(K, s, c)
                      /\ Leads(K, s, c) => s = c \/ Leads(K, s, h)
                      /\ Leads(K, h, c)
                      /\ ~Leads(K, c, h)
  <2>1. \A c \in K[h] : Leads(K, h, c)
    BY DEF Leads
  <2> QED  BY <1>1, <2>1, Paths
<1>3. ASSUME NEW k \in 1..Len(u)
      PROVE  \/ k \in 1..n /\ u[k] \in K[h]
             \/ /\ k > n /\ k - n + 1 \in 2..Len(w) /\ k - n + 1 \in 1..Len(w)
                /\ u[k] = w[k - n + 1]
  BY PushedFrom
<1>4. \A k \in 2..Len(w) : ~Leads(K, h, w[k]) /\ ~Leads(K, w[k], h)
  BY <1>1 DEF Antichain
<1>5. CASE \E k \in 2..Len(w) : Leads(K, w[k], s)
  <2>1. PICK k \in 2..Len(w) : Leads(K, w[k], s)
    BY <1>5
  <2>2. k \in 1..Len(w) /\ w[k] \in All
    BY <1>1, <2>1
  <2>3. n + k - 1 \in 1..Len(u) /\ u[n + k - 1] = w[k]
    BY <2>1 DEF Pushed
  <2>4. Above(K, s, u)
    BY <2>1, <2>3 DEF Above
  <2>5. Above(K, s, w)
    BY <2>1, <2>2 DEF Above
  <2>6. ~Leads(K, s, h)
    <3> SUFFICES ASSUME Leads(K, s, h) PROVE FALSE
      OBVIOUS
    <3>1. Leads(K, w[k], h)
      BY <2>1, <2>2, PathsJoin
    <3> QED  BY <1>4, <3>1
  <2>7. Free(X, bs)
    BY <2>5 DEF Near
  <2>8. Free(X, cs)
    BY <2>6, <2>7, OneMore DEF Adds
  <2> QED  BY <2>4, <2>8, FreeEnds DEF Near
<1>6. CASE Leads(K, h, s) /\ ~(\E k \in 2..Len(w) : Leads(K, w[k], s))
  <2>1. Above(K, s, w)
    BY <1>1, <1>6 DEF Above
  <2>2. Free(X, bs)
    BY <2>1 DEF Near
  <2>3. cs = bs
    BY <1>6, FirstStep DEF Adds
  <2>4. CASE h = s
    <3> SUFFICES ASSUME NEW j \in 1..Len(u), NEW k \in 1..Len(u), j < k, Leads(K, s, u[k])
                 PROVE  Leads(K, s, u[j])
      BY <2>2, <2>3, FreeEnds DEF Near, OnTop
    <3>1. k \in 1..n
      BY <1>3, <1>4, <2>4
    <3>2. j \in 1..n
      BY <1>1, <3>1
    <3> QED  BY <1>1, <1>2, <2>4, <3>2
  <2>5. CASE h # s
    <3>1. PICK c \in K[h] : Leads(K, c, s)
      BY <1>6, <2>5, FirstStep
    <3>2. PICK k \in 1..n : u[k] = c
      BY <1>1
    <3>3. Above(K, s, u)
      BY <1>1, <3>1, <3>2 DEF Above
    <3> QED  BY <2>2, <2>3, <3>3, FreeEnds DEF Near
  <2> QED  BY <2>4, <2>5
<1>7. CASE \A k \in 1..Len(w) : ~Leads(K, w[k], s)
  <2>0. ~Leads(K, h, s)
    BY <1>1, <1>7
  <2>1. ~Above(K, s, w)
    BY <1>7 DEF Above
  <2>2. ~Above(K, s, u)
    <3> SUFFICES ASSUME NEW k \in 1..Len(u), Leads(K, u[k], s) PROVE FALSE
      BY DEF Above
    <3>1. CASE u[k] \in K[h]
      BY <1>2, <2>0, <3>1
    <3>2. CASE k - n + 1 \in 1..Len(w) /\ u[k] = w[k - n + 1]
      BY <1>7, <3>2
    <3> QED  BY <1>3, <3>1, <3>2
  <2>3. OnTop(K, s, w) /\ Convex(X, bs)
    BY <2>1 DEF Near
  <2>4. CASE Leads(K, s, h)
    <3>1. AtEnd(X, bs)
      BY <2>1, <2>4 DEF Near, Pushed
    <3>2. Convex(X, cs) /\ AtEnd(X, cs)
      BY <2>3, <2>4, <3>1, OneMore DEF Adds
    <3>3. OnTop(K, s, u)
      <4> SUFFICES ASSUME NEW j \in 1..Len(u), NEW k \in 1..Len(u), j < k, Leads(K, s, u[k])
                   PROVE  Leads(K, s, u[j])
        BY DEF OnTop
      <4>1. CASE j \in 1..n
        BY <1>1, <1>2, <2>4, <4>1
      <4>2. CASE j \notin 1..n
        <5>1. j > n /\ j - n + 1 \in 1..Len(w) /\ u[j] = w[j - n + 1]
          BY <1>3, <4>2
        <5>2. k \notin 1..n
          BY <1>1, <5>1
        <5>3. k - n + 1 \in 1..Len(w) /\ u[k] = w[k - n + 1]
          BY <1>3, <5>2
        <5>4. j - n + 1 < k - n + 1
          BY <1>1
        <5> QED  BY <2>3, <5>1, <5>3, <5>4 DEF OnTop
      <4> QED  BY <4>1, <4>2
    <3> QED  BY <2>2, <3>2, <3>3 DEF Near
  <2>5. CASE ~Leads(K, s, h)
    <3>1. Convex(X, cs)
      BY <2>3, <2>5, OneMore DEF Adds
    <3>2. \A k \in 2..Len(w) : ~Leads(K, s, w[k])
      BY <1>1, <2>3, <2>5 DEF OnTop
    <3>3. ASSUME NEW k \in 1..Len(u), Leads(K, s, u[k]) PROVE FALSE
      <4>1. CASE u[k] \in K[h]
        BY <1>2, <2>0, <2>5, <3>3, <4>1
      <4>2. CASE k - n + 1 \in 2..Len(w) /\ u[k] = w[k - n + 1]
        BY <3>2, <3>3, <4>2
      <4> QED  BY <1>3, <4>1, <4>2
    <3>4. Len(u) >= 1 => 1 \in 1..Len(u)
      <4>1. Len(u) \in Nat
        BY DEF Pushed
      <4> QED  BY <4>1
    <3>5. OnTop(K, s, u) /\ ~(Len(u) >= 1 /\ Leads(K, s, u[1]))
      BY <3>3, <3>4 DEF OnTop
    <3> QED  BY <2>2, <3>1, <3>5 DEF Near
  <2> QED  BY <2>4, <2>5
<1>8. \A k \in 1..Len(w) : k = 1 \/ k \in 2..Len(w)
  <2>1. Len(w) \in Nat
    BY DEF Pushed
  <2> QED  BY <2>1
<1> QED  BY <1>5, <1>6, <1>7, <1>8

\* The domains below s, and that no domain is split between s and the rest.
Inside(s) == {a \in Domains : domains[a] \subseteq Under(s)}
Closed(s) == \A a \in Domains : domains[a] \subseteq Under(s) \/ domains[a] \cap Under(s) = {}

NearInv ==
    /\ phase = "initBlocks" /\ faithful =>
           /\ Antichain(KidsOf, work)
           /\ \A s \in Parents : Closed(s) => Near(KidsOf, s, work, Inside(s), blocks)
    /\ phase \in Written /\ faithful =>
           \A s \in Parents : Closed(s) => Convex(Inside(s), blocks)

LEMMA InsideStays ==
    ASSUME UNCHANGED inputVars, NEW s \in All
    PROVE  Inside(s)' = Inside(s) /\ Closed(s)' = Closed(s)
<1>1. Under(s)' = Under(s)
  BY DEF inputVars, Under, Kids
<1>2. Domains' = Domains /\ domains' = domains
  BY DEF inputVars, Domains
<1> QED  BY <1>1, <1>2 DEF Inside, Closed

\* A block that is found at a node of the tree below s is one of the blocks of s.
LEMMA FoundBelow ==
    ASSUME Settled, faithful, NEW s \in Parents, Closed(s),
           NEW v \in Instances, NEW a \in Domains, v \in domains[a]
    PROVE  a \in Inside(s) <=> Leads(KidsOf, s, v)
<1>1. s \in Vertices /\ s \in All /\ s # v
  BY GraphAssumption DEF Vertices, Parents, All
<1>2. KidsOf \in [All -> SUBSET Vertices] /\ Vertices \subseteq All /\ Shallow(KidsOf)
  BY KidsFacts, ShallowTree DEF IsGraph, All
<1>3. v \in Under(s) <=> Leads(KidsOf, s, v)
  BY <1>1, <1>2, UnderFacts DEF Leads, Shallow
<1>4. a \in Inside(s) <=> v \in Under(s)
  BY DEF Inside, Closed
<1> QED  BY <1>3, <1>4

LEMMA InitBlocksNear ==
    ASSUME Settled, ConfigOK, faithful, work \in Seq(All), IDsOK, BlocksOK, initBlocks,
           Antichain(KidsOf, work)
    PROVE  /\ Antichain(KidsOf, work')
           /\ \A s \in Parents :
                  Closed(s) /\ Near(KidsOf, s, work, Inside(s), blocks) =>
                      Near(KidsOf, s, work', Inside(s), blocks')
<1> DEFINE K == KidsOf
           h == Head(work)
<1>1. PICK t \in Seq(All) :
          /\ work' = Reverse(t) \o Tail(work) /\ work # <<>>
          /\ ToSet(t) = K[h] /\ NoRepeat(t)
  BY StackStep
<1>2. Pushed(K, work, work', Len(t))
  BY <1>1, PushedFacts
<1>3. h = work[1] /\ h \in All
  BY <1>1, TailFacts
<1>4. IsTree(K)
  BY KidsFacts, TreeShape, ShallowTree DEF IsTree
<1>5. /\ blocks \in Seq(Accelerators) /\ Parents \subseteq Vertices
      /\ \A s \in Parents : s \notin Instances
      /\ \A a \in Domains : a \in Accelerators
  <2>1. blocks \in Seq(Domains) /\ \A a \in Domains : a \in Accelerators
    BY DEF BlocksOK, Domains
  <2> HIDE DEF K, h
  <2> QED  BY <2>1, GraphAssumption DEF Vertices, Parents
<1>6. ASSUME NEW s \in Parents, Closed(s)
      PROVE  Adds(K, s, h, Inside(s), blocks, blocks')
  <2>1. CASE h \in Instances /\ blockID[h] # None /\ blockIndx[h] = 0
    <3>1. blocks' = Append(blocks, blockID[h])
      BY <2>1 DEF initBlocks, markBlockNodes
    <3>2. blockID[h] \in Domains /\ h \in domains[blockID[h]]
      BY <2>1 DEF IDsOK
    <3>3. K[h] = {} /\ h # s /\ blockID[h] \in Accelerators
      BY <1>5, <2>1, <3>2, KidsFacts
    <3>4. blockID[h] \in Inside(s) <=> Leads(K, s, h)
      BY <1>6, <2>1, <3>2, FoundBelow
    <3> HIDE DEF K, h
    <3> QED  BY <3>1, <3>3, <3>4 DEF Adds
  <2>2. CASE ~(h \in Instances /\ blockID[h] # None /\ blockIndx[h] = 0)
    <3>1. blocks' = blocks
      BY <2>2 DEF initBlocks
    <3> QED  BY <3>1 DEF Adds
  <2> QED  BY <2>1, <2>2
<1> HIDE DEF K, h
<1>7. Antichain(K, work)
  BY DEF K
<1>8. Antichain(K, work')
  BY <1>2, <1>4, <1>7, AntichainStep
<1>9. ASSUME NEW s \in Parents, Closed(s), Near(K, s, work, Inside(s), blocks)
      PROVE  Near(K, s, work', Inside(s), blocks')
  <2>1. Adds(K, s, work[1], Inside(s), blocks, blocks')
    BY <1>3, <1>6, <1>9
  <2>2. s \in Vertices
    BY <1>5
  <2> QED  BY <1>2, <1>4, <1>5, <1>7, <1>9, <2>1, <2>2, NearStep
<1> QED  BY <1>8, <1>9 DEF K

LEMMA NearInvStep ==
    ASSUME BaseInv, BlocksInv, NearInv, [PartitionNext]_partitionVars
    PROVE  NearInv'
<1> USE DEF partitionVars, topoVars, graphVars, infoVars
<1>0. phase # "reports" =>
          /\ Settled /\ ConfigOK /\ KidsOf' = KidsOf /\ faithful' = faithful
          /\ \A s \in Parents : Inside(s)' = Inside(s) /\ Closed(s)' = Closed(s)
  <2> SUFFICES ASSUME phase # "reports"
               PROVE  /\ Settled /\ ConfigOK /\ KidsOf' = KidsOf /\ faithful' = faithful
                      /\ \A s \in Parents : Inside(s)' = Inside(s) /\ Closed(s)' = Closed(s)
    OBVIOUS
  <2>1. UNCHANGED inputVars /\ Settled /\ ConfigOK
    BY Frozen DEF BaseInv
  <2>2. Parents \subseteq All
    BY DEF Parents, Vertices, All
  <2>3. KidsOf' = KidsOf /\ faithful' = faithful
    BY <2>1, KidsStay DEF inputVars
  <2> QED  BY <2>1, <2>2, <2>3, InsideStays
<1>1. CASE phase \in {"reports"} \cup Early
  <2>1. phase' \in {"reports", "built", "initTree", "rejected"} \cup Early
    BY <1>1, StepReports, StepEarly
       DEF AddReport, AddMissing, Early, GetTranslateConfig, Validate, GetTopologies, ValidateTopologies
  <2> QED  BY <2>1 DEF NearInv, Early, Written
<1>2. CASE phase = "initTree"
  <2>0. blocks = <<>>
    BY <1>2 DEF BlocksInv
  <2>1. CASE setBlockIDs
    <3>1. blocks' = <<>> /\ phase' = "initBlocks" /\ (work' = <<>> \/ work' = <<TreeRoot>>)
      BY <2>0, <2>1 DEF setBlockIDs
    <3>2. Len(work') \in {0, 1} /\ Len(blocks') = 0
      BY <3>1
    <3>3. Antichain(KidsOf, work')
      BY <3>2 DEF Antichain
    <3>4. \A s \in Parents : OnTop(KidsOf, s, work')
      BY <3>2 DEF OnTop
    <3>5. \A s \in Parents : Free(Inside(s), blocks')
      BY <3>2 DEF Free
    <3>6. \A s \in Parents : Near(KidsOf, s, work', Inside(s), blocks')
      BY <3>4, <3>5, FreeEnds DEF Near
    <3> QED  BY <1>0, <1>2, <3>1, <3>3, <3>6 DEF NearInv, Written
  <2>2. CASE phase' = phase
    BY <1>2, <2>2 DEF NearInv, Written
  <2> QED  BY <1>2, <2>1, <2>2, StepInitTree DEF initTree
<1>3. CASE phase = "initBlocks"
  <2>0. work \in Seq(All) /\ IDsOK /\ BlocksOK
    BY <1>3 DEF BlocksInv
  <2>1. CASE initBlocks /\ faithful
    <3>1. /\ Antichain(KidsOf, work')
          /\ \A s \in Parents :
                 Closed(s) /\ Near(KidsOf, s, work, Inside(s), blocks) =>
                     Near(KidsOf, s, work', Inside(s), blocks')
      BY <1>0, <1>3, <2>0, <2>1, InitBlocksNear DEF NearInv
    <3>2. phase' = "initBlocks"
      BY <2>1 DEF initBlocks
    <3> QED  BY <1>0, <1>3, <2>1, <3>1, <3>2 DEF NearInv, Written
  <2>2. CASE ~faithful
    BY <1>0, <1>3, <2>2 DEF NearInv
  <2>3. CASE UNCHANGED partitionVars
    BY <1>0, <1>3, <2>3 DEF NearInv, Written
  <2>4. CASE blocks' = blocks /\ phase' \in Written
    <3>1. faithful => \A s \in Parents : Closed(s) => Convex(Inside(s), blocks)
      BY <1>3 DEF NearInv, Near
    <3> QED  BY <1>0, <1>3, <2>4, <3>1 DEF NearInv, Written
  <2>5. plugin \in {"none", "tree", "block"}
    BY <1>3 DEF BaseInv, PhaseInv
  <2> QED  BY <1>0, <1>3, <2>1, <2>2, <2>3, <2>4, <2>5, StepInitBlocks DEF StartOutput, StartYaml, Written
<1>4. CASE phase \in Written
  <2>1. blocks' = blocks /\ phase' \in Written
    BY <1>4, TreeStays DEF BaseInv
  <2> QED  BY <1>0, <1>4, <2>1 DEF NearInv, Written
<1>5. CASE phase = "rejected"
  <2>1. phase' = phase
    BY <1>5, StepEnded DEF Ended
  <2> QED  BY <1>5, <2>1 DEF NearInv, Written
<1> QED  BY <1>1, <1>2, <1>3, <1>4, <1>5 DEF BaseInv, PhaseInv, Ended, Written

\* The blocks below a switch are written one after the other, however the
\* children of the vertices are ordered (initBlocks).
THEOREM NeighboursStayTogether == PartitionSpec => []NeighboursAdjacent
<1>1. PartitionInit => NearInv
  BY DEF PartitionInit, TopoInit, GraphInit, NearInv, Written
<1>2. BaseInv /\ BlocksInv /\ NearInv /\ [PartitionNext]_partitionVars => NearInv'
  BY NearInvStep
<1>3. ASSUME BlocksInv, NearInv PROVE NeighboursAdjacent
  <2> SUFFICES ASSUME phase = "done", faithful, NEW s \in Parents, Closed(s),
                      NEW j \in DOMAIN blocks, NEW k \in DOMAIN blocks, NEW l \in DOMAIN blocks,
                      j < k, k < l, domains[blocks[j]] \subseteq Under(s),
                      domains[blocks[l]] \subseteq Under(s)
               PROVE  domains[blocks[k]] \subseteq Under(s)
    BY DEF NeighboursAdjacent, DoneWith, Closed
  <2>1. blocks \in Seq(Domains) /\ Convex(Inside(s), blocks)
    BY <1>3 DEF BlocksInv, BlocksOK, NearInv, Written
  <2>2. blocks[j] \in Domains /\ blocks[l] \in Domains /\ DOMAIN blocks = 1..Len(blocks)
    BY <2>1
  <2>3. blocks[j] \in Inside(s) /\ blocks[l] \in Inside(s)
    BY <2>2 DEF Inside
  <2>4. blocks[k] \in Inside(s)
    BY <2>1, <2>2, <2>3 DEF Convex
  <2> QED  BY <2>4 DEF Inside
<1> QED  BY <1>1, <1>2, <1>3, BaseInvariance, BlocksInvariance, PTL DEF PartitionSpec
==============================================================================
