-------------------------- MODULE OptimizerProofs --------------------------
(***************************************************************************)
(* Proofs about Optimizer, for any schema, workload and threshold: what a  *)
(* solver returns covers the schema within the threshold it was given, and *)
(* splitting a pair of partitions that was merged restores them.           *)
(***************************************************************************)
EXTENDS Optimizer, ListLemmas

-----------------------------------------------------------------------------
(* Sums over finite sets *)

\* The element that a fold takes next.
Picked(s) == CHOOSE x \in s : TRUE

\* A step of the fold, when f has the sums of the smaller sets.
SumStep(w, f, s) == IF s = {} THEN 0 ELSE w[Picked(s)] + f[s \ {Picked(s)}]

\* The sums of w over the subsets of S.
Sums(w, S) == CHOOSE f : f = [s \in SUBSET S |-> SumStep(w, f, s)]

\* SumFunctionOnSet takes one element after the other.
LEMMA SumIs ==
    ASSUME NEW w, NEW S
    PROVE  SumFunctionOnSet(w, S) = Sums(w, S)[S]
  BY Zenon DEF SumFunctionOnSet, FoldFunctionOnSet, MapThenFoldSet, Sums,
               SumStep, Picked

\* The subsets with at most n elements.
Small(S, n) == {s \in SUBSET S : Cardinality(s) <= n}

\* Taking an element away leaves a smaller set.
LEMMA PickedSmaller ==
    ASSUME NEW S, IsFiniteSet(S), NEW s \in SUBSET S, s # {}
    PROVE  /\ Picked(s) \in s
           /\ s \ {Picked(s)} \in SUBSET S
           /\ Cardinality(s) \in Nat \ {0}
           /\ Cardinality(s \ {Picked(s)}) = Cardinality(s) - 1
<1>1. Picked(s) \in s
  BY DEF Picked
<1>2. IsFiniteSet(s)
  BY FS_Subset
<1>3. Cardinality(s) \in Nat
  BY <1>2, FS_CardinalityType
<1>4. Cardinality(s) # 0
  BY <1>2, FS_EmptySet
<1>5. Cardinality(s \ {Picked(s)}) = Cardinality(s) - 1
  BY <1>1, <1>2, FS_RemoveElement
<1> QED
  BY <1>1, <1>3, <1>4, <1>5

\* f has the sums of the sets with at most n elements.
SumsTo(w, S, n, f) == f = [s \in Small(S, n) |-> SumStep(w, f, s)]

\* Sums exist for sets of any size.
LEMMA SumsExist ==
    ASSUME NEW w, NEW S, IsFiniteSet(S), NEW n \in Nat
    PROVE  \E f : SumsTo(w, S, n, f)
<1> DEFINE T == {k \in Nat : ~\E f : SumsTo(w, S, k, f)}
<1>1. SUFFICES ASSUME T # {} PROVE FALSE
  OBVIOUS
<1>2. PICK k \in T : \A l \in T : k <= l
  BY <1>1, LeastNatural
<1>3. CASE k = 0
  <2> DEFINE f == [s \in Small(S, 0) |-> 0]
  <2>1. \A s \in Small(S, 0) : s = {}
    <3> SUFFICES ASSUME NEW s \in Small(S, 0), s # {} PROVE FALSE
      OBVIOUS
    <3>1. s \in SUBSET S /\ Cardinality(s) <= 0
      BY DEF Small
    <3>2. Cardinality(s) \in Nat \ {0}
      BY <3>1, PickedSmaller
    <3> QED
      BY <3>1, <3>2
  <2>2. \A s \in Small(S, 0) : SumStep(w, f, s) = 0
    BY <2>1 DEF SumStep
  <2>3. f = [s \in Small(S, 0) |-> SumStep(w, f, s)]
    BY <2>2
  <2> QED
    BY <1>3, <2>3 DEF SumsTo
<1>4. CASE k # 0
  <2>1. k \in Nat /\ k - 1 \in Nat /\ ~(k <= k - 1)
    BY <1>4
  <2>2. k - 1 \notin T
    BY <1>2, <2>1
  <2>3. PICK g : SumsTo(w, S, k - 1, g)
    BY <2>1, <2>2
  <2> DEFINE f == [s \in Small(S, k) |-> SumStep(w, g, s)]
  <2>4. ASSUME NEW s \in Small(S, k), s # {}
        PROVE  f[s \ {Picked(s)}] = g[s \ {Picked(s)}]
    <3>1. s \in SUBSET S /\ Cardinality(s) <= k
      BY DEF Small
    <3> DEFINE r == s \ {Picked(s)}
    <3>2. /\ r \in SUBSET S /\ Cardinality(s) \in Nat
          /\ Cardinality(r) = Cardinality(s) - 1
      BY <2>4, <3>1, PickedSmaller
    <3> HIDE DEF r
    <3>3. r \in Small(S, k) /\ r \in Small(S, k - 1)
      BY <2>1, <3>1, <3>2 DEF Small
    <3>4. g[r] = SumStep(w, g, r)
      BY <2>3, <3>3, Zenon DEF SumsTo
    <3>5. f[r] = SumStep(w, g, r)
      BY <3>3
    <3> QED
      BY <3>4, <3>5 DEF r
  <2>5. \A s \in Small(S, k) : SumStep(w, f, s) = SumStep(w, g, s)
    <3> TAKE s \in Small(S, k)
    <3> HIDE DEF f
    <3> QED
      BY <2>4 DEF SumStep
  <2>6. f = [s \in Small(S, k) |-> SumStep(w, f, s)]
    <3>1. \A h : (\A s \in Small(S, k) : SumStep(w, h, s) = SumStep(w, g, s))
                   => [s \in Small(S, k) |-> SumStep(w, h, s)] = f
      OBVIOUS
    <3> HIDE DEF f
    <3> QED
      BY <2>5, <3>1
  <2>7. SumsTo(w, S, k, f)
    BY <2>6 DEF SumsTo
  <2> QED
    BY <1>2, <2>7
<1> QED
  BY <1>3, <1>4

\* The sums of all subsets of a finite set.
LEMMA SumsAre ==
    ASSUME NEW w, NEW S, IsFiniteSet(S), NEW s \in SUBSET S
    PROVE  Sums(w, S)[s] = SumStep(w, Sums(w, S), s)
<1>1. Cardinality(S) \in Nat
  BY FS_CardinalityType
<1>2. Small(S, Cardinality(S)) = SUBSET S
  <2>1. \A r \in SUBSET S : Cardinality(r) <= Cardinality(S)
    BY FS_Subset
  <2> QED
    BY <2>1 DEF Small
<1>3. PICK f : SumsTo(w, S, Cardinality(S), f)
  BY <1>1, SumsExist
<1>4. f = [r \in SUBSET S |-> SumStep(w, f, r)]
  BY <1>2, <1>3 DEF SumsTo
<1>5. Sums(w, S) = [r \in SUBSET S |-> SumStep(w, Sums(w, S), r)]
  BY <1>4, Zenon DEF Sums
<1> QED
  BY <1>5, Zenon

\* Sums of natural numbers are natural numbers.
LEMMA SumIsNat ==
    ASSUME NEW w, NEW S, IsFiniteSet(S), \A x \in S : w[x] \in Nat
    PROVE  SumFunctionOnSet(w, S) \in Nat
<1> DEFINE T == {k \in Nat : \E s \in SUBSET S :
                    Cardinality(s) = k /\ Sums(w, S)[s] \notin Nat}
<1>1. ASSUME T # {} PROVE FALSE
  <2>1. PICK k \in T : \A l \in T : k <= l
    BY <1>1, LeastNatural
  <2>2. PICK s \in SUBSET S : Cardinality(s) = k /\ Sums(w, S)[s] \notin Nat
    OBVIOUS
  <2>3. Sums(w, S)[s] = SumStep(w, Sums(w, S), s)
    BY SumsAre
  <2>4. s # {}
    BY <2>2, <2>3 DEF SumStep
  <2> DEFINE r == s \ {Picked(s)}
  <2>5. /\ Picked(s) \in S /\ r \in SUBSET S /\ k \in Nat \ {0}
        /\ Cardinality(r) = k - 1
    BY <2>2, <2>4, PickedSmaller
  <2>6. Sums(w, S)[s] = w[Picked(s)] + Sums(w, S)[r]
    BY <2>3, <2>4 DEF SumStep
  <2> HIDE DEF r
  <2>7. Sums(w, S)[r] \notin Nat
    BY <2>2, <2>5, <2>6
  <2>8. k - 1 \in T /\ ~(k <= k - 1)
    BY <2>5, <2>7
  <2> QED
    BY <2>1, <2>8
<1>2. Cardinality(S) \in Nat /\ S \in SUBSET S
  BY FS_CardinalityType
<1>3. Sums(w, S)[S] \in Nat
  BY <1>1, <1>2
<1> QED
  BY <1>3, SumIs

\* The sum over one element.
LEMMA SumOfOne ==
    ASSUME NEW w, NEW x, w[x] \in Nat
    PROVE  SumFunctionOnSet(w, {x}) = w[x]
<1>1. IsFiniteSet({x}) /\ {x} \in SUBSET {x} /\ {} \in SUBSET {x}
  BY FS_Singleton
<1>2. Picked({x}) = x /\ {x} \ {x} = {} /\ {x} # {}
  BY DEF Picked
<1>3. Sums(w, {x})[{}] = 0
  BY <1>1, SumsAre DEF SumStep
<1>4. Sums(w, {x})[{x}] = w[x] + 0
  <2>1. Sums(w, {x})[{x}] = SumStep(w, Sums(w, {x}), {x})
    BY <1>1, SumsAre
  <2> QED
    BY <1>2, <1>3, <2>1 DEF SumStep
<1>5. Sums(w, {x})[{x}] = w[x]
  BY <1>4
<1> QED
  BY <1>5, SumIs

-----------------------------------------------------------------------------
(* Sizes *)

\* A sequence of attribute sets, as a solver has it.
PartSeq == Seq(SUBSET Attributes)

\* Cost::getPartitionSize is a natural number.
LEMMA SizeIsNat ==
    ASSUME NEW attrs \in SUBSET Attributes
    PROVE  PartitionSize[attrs] \in Nat
<1>1. IsFiniteSet(attrs) /\ \A x \in attrs : AvgSize[x] \in Nat
  BY OptimizerAssumption, FS_Subset
<1>2. AttributesSize[attrs] \in Nat
  BY <1>1, SumIsNat DEF AttributesSize
<1>3. PartitionSize[attrs] = 24 * (16 + AttributesSize[attrs]) + 8 * 12
  BY DEF PartitionSize
<1> QED
  BY <1>2, <1>3

\* So is what Cost::getStorageOverhead adds up.
LEMMA TotalIsNat ==
    ASSUME NEW ps \in PartSeq
    PROVE  TotalSize(ps) \in Nat
<1>1. DOMAIN ps = 1..Len(ps) /\ Len(ps) \in Nat
      /\ \A i \in DOMAIN ps : ps[i] \in SUBSET Attributes
  BY DEF PartSeq
<1>2. DOMAIN Sizes(ps) = DOMAIN ps /\ \A i \in DOMAIN ps : Sizes(ps)[i] \in Nat
  BY <1>1, SizeIsNat DEF Sizes
<1>3. IsFiniteSet(DOMAIN ps)
  BY <1>1, FS_Interval
<1> QED
  BY <1>2, <1>3, SumIsNat DEF TotalSize, SumFunction

\* The overhead of the single partition is zero.
LEMMA TotalOfOne == TotalSize(<<Attributes>>) = PartitionSize[Attributes]
<1> DEFINE w == Sizes(<<Attributes>>)
<1>1. DOMAIN w = {1} /\ w[1] = PartitionSize[Attributes]
  BY DEF Sizes
<1>2. w[1] \in Nat
  BY <1>1, SizeIsNat
<1>3. TotalSize(<<Attributes>>) = SumFunctionOnSet(w, {1})
  BY <1>1 DEF TotalSize, SumFunction
<1> HIDE DEF w
<1> QED
  BY <1>1, <1>2, <1>3, SumOfOne

\* The overhead of ps is within the limit.
Within(ps, limit) ==
    (TotalSize(ps) - PartitionSize[Attributes]) * 100
       <= limit * PartitionSize[Attributes]

\* The comparison with the threshold, either way round.
LEMMA ThresholdIs ==
    ASSUME NEW ps \in PartSeq, threshold \in Nat
    PROVE  ~OverThreshold(ps) <=> Within(ps, threshold)
<1>1. PICK n \in Nat : n = TotalSize(ps)
  BY TotalIsNat
<1>2. PICK p \in Nat : p = PartitionSize[Attributes]
  BY SizeIsNat
<1>3. PICK x \in Int : x = threshold * p
  OBVIOUS
<1>4. ~((n - p) * 100 > x) <=> (n - p) * 100 <= x
  OBVIOUS
<1> QED
  BY <1>1, <1>2, <1>3, <1>4 DEF OverThreshold, Within

\* The single partition is within any threshold.
LEMMA OneWithin ==
    ASSUME NEW limit \in Nat
    PROVE  Within(<<Attributes>>, limit)
<1>1. PICK p \in Nat : p = PartitionSize[Attributes]
  BY SizeIsNat
<1>2. (p - p) * 100 <= limit * p
  <2>1. limit * p \in Nat
    OBVIOUS
  <2> QED
    BY <2>1
<1> QED
  BY <1>1, <1>2, TotalOfOne DEF Within

-----------------------------------------------------------------------------
(* Partitionings *)

\* The attributes that are in some partition.
Covered(ps) == UNION Range(ps)

\* No attribute is in two partitions.
Disjoint(ps) ==
    \A i, j \in DOMAIN ps : ps[i] \cap ps[j] # {} => i = j

\* An attribute is covered if a partition has it.
LEMMA CoveredIs ==
    ASSUME NEW ps, NEW x
    PROVE  x \in Covered(ps) <=> \E i \in DOMAIN ps : x \in ps[i]
  BY Zenon DEF Covered, Range

\* Two sequences that cover each other's attributes.
LEMMA SameCovered ==
    ASSUME NEW ps, NEW qs,
           \A i \in DOMAIN ps : \A x \in ps[i] :
              \E j \in DOMAIN qs : x \in qs[j],
           \A j \in DOMAIN qs : \A x \in qs[j] :
              \E i \in DOMAIN ps : x \in ps[i]
    PROVE  Covered(ps) = Covered(qs)
<1>1. \A x : x \in Covered(ps) <=> x \in Covered(qs)
  BY CoveredIs, Zenon
<1> QED
  BY <1>1

\* What mergePartitions returns: partition j is in i, and the last one in the
\* place of j.
Merged(ps, i, j, qs) ==
    /\ qs \in PartSeq /\ Len(qs) = Len(ps) - 1
    /\ \A k \in 1 .. Len(ps) - 1 :
          qs[k] = IF k = j THEN ps[Len(ps)]
                  ELSE IF k = i THEN ps[i] \cup ps[j] ELSE ps[k]

\* Partitioning::mergePartitions
LEMMA MergeIs ==
    ASSUME NEW ps \in PartSeq, NEW i \in DOMAIN ps, NEW j \in DOMAIN ps, i < j
    PROVE  Merged(ps, i, j, MergePartitions(ps, i, j))
<1> DEFINE n == Len(ps)
           new == [ps EXCEPT ![i] = @ \cup ps[j], ![j] = ps[Len(ps)]]
           qs == SubSeq(new, 1, n - 1)
<1>1. /\ n \in Nat /\ DOMAIN ps = 1..n /\ i \in 1..n /\ j \in 1..n
      /\ n \in 1..n
      /\ \A k \in 1..n : ps[k] \in SUBSET Attributes
  BY DEF PartSeq
<1>2. /\ DOMAIN new = 1..n
      /\ \A k \in 1..n : new[k] = IF k = j THEN ps[n]
                                  ELSE IF k = i THEN ps[i] \cup ps[j] ELSE ps[k]
  <2>1. DOMAIN new = 1..n
    BY <1>1
  <2>2. i # j
    BY <1>1
  <2> QED
    BY <1>1, <2>1, <2>2
<1>3. \A k \in 1..n : new[k] \in SUBSET Attributes
  BY <1>1, <1>2
<1>4. MergePartitions(ps, i, j) = qs
  BY DEF MergePartitions
<1> HIDE DEF new
<1>5. new \in Seq(SUBSET Attributes) /\ Len(new) = n
  <2>1. new = [k \in 1..n |-> new[k]]
    <3>1. new = [k \in DOMAIN new |-> new[k]]
      BY Zenon DEF new
    <3> QED
      BY <1>2, <3>1
  <2>2. new \in [1..n -> SUBSET Attributes]
    BY <1>3, <2>1
  <2> QED
    BY <1>1, <2>2
<1>6. /\ qs \in Seq(SUBSET Attributes) /\ Len(qs) = n - 1
      /\ \A k \in 1 .. n - 1 : qs[k] = new[k]
  <2>1. n - 1 \in Nat
    BY <1>1
  <2> QED
    BY <1>1, <1>5, <2>1
<1> HIDE DEF qs
<1>7. \A k \in 1 .. n - 1 : k \in 1..n
  BY <1>1
<1>8. Merged(ps, i, j, qs)
  BY <1>2, <1>6, <1>7 DEF Merged, PartSeq
<1> QED
  BY <1>4, <1>8

\* Merging loses no attribute and adds none.
LEMMA MergeCovers ==
    ASSUME NEW ps \in PartSeq, NEW i \in DOMAIN ps, NEW j \in DOMAIN ps, i < j,
           NEW qs, Merged(ps, i, j, qs)
    PROVE  Covered(qs) = Covered(ps)
<1> DEFINE n == Len(ps)
<1>1. n \in Nat /\ DOMAIN ps = 1..n /\ i \in 1 .. n - 1 /\ j \in 1..n
  BY DEF PartSeq
<1>2. DOMAIN qs = 1 .. n - 1
  BY <1>1 DEF Merged, PartSeq
<1>3. ASSUME NEW k \in DOMAIN ps, NEW x \in ps[k]
      PROVE  \E l \in DOMAIN qs : x \in qs[l]
  <2>1. CASE k = i \/ k = j
    <3>1. qs[i] = ps[i] \cup ps[j]
      BY <1>1 DEF Merged
    <3> QED
      BY <1>1, <1>2, <1>3, <2>1, <3>1
  <2>2. CASE k # j /\ k = n
    <3>1. j \in 1 .. n - 1
      BY <1>1, <2>2
    <3>2. qs[j] = ps[n]
      BY <3>1 DEF Merged
    <3> QED
      BY <1>2, <1>3, <2>2, <3>1, <3>2
  <2>3. CASE k # i /\ k # j /\ k # n
    <3>1. k \in 1 .. n - 1
      BY <1>1, <2>3
    <3>2. qs[k] = ps[k]
      BY <2>3, <3>1 DEF Merged
    <3> QED
      BY <1>2, <1>3, <3>1, <3>2
  <2> QED
    BY <2>1, <2>2, <2>3
<1>4. ASSUME NEW k \in DOMAIN qs, NEW x \in qs[k]
      PROVE  \E l \in DOMAIN ps : x \in ps[l]
  <2>1. qs[k] = IF k = j THEN ps[n]
                ELSE IF k = i THEN ps[i] \cup ps[j] ELSE ps[k]
    BY <1>2 DEF Merged
  <2>2. k \in DOMAIN ps /\ n \in DOMAIN ps
    BY <1>1, <1>2
  <2> QED
    BY <1>4, <2>1, <2>2
<1> QED
  BY <1>3, <1>4, SameCovered

\* Partitioning::splitPartition after mergePartitions
LEMMA SplitAfterMerge ==
    ASSUME NEW ps \in PartSeq, NEW i \in DOMAIN ps, NEW j \in DOMAIN ps, i < j
    PROVE  SplitPartition(MergePartitions(ps, i, j), i, j, ps[i], ps[j]) = ps
<1> DEFINE n == Len(ps)
<1>1. n \in Nat /\ DOMAIN ps = 1..n /\ i \in 1 .. n - 1 /\ j \in 1..n /\ i # j
  BY DEF PartSeq
<1>2. PICK qs : qs = MergePartitions(ps, i, j)
  OBVIOUS
<1>3. Merged(ps, i, j, qs)
  BY <1>2, MergeIs
<1> DEFINE lhs == [qs EXCEPT ![i] = ps[i]]
           grown == Append(lhs, ps[j])
           split == [grown EXCEPT ![j] = ps[j], ![n] = grown[j]]
<1>4. DOMAIN qs = 1 .. n - 1 /\ qs \in Seq(SUBSET Attributes)
  BY <1>1, <1>3 DEF Merged, PartSeq
<1>5. /\ lhs \in Seq(SUBSET Attributes) /\ Len(lhs) = n - 1
      /\ \A k \in 1 .. n - 1 : lhs[k] = IF k = i THEN ps[i] ELSE qs[k]
  <2>1. ps[i] \in SUBSET Attributes
    BY DEF PartSeq
  <2> DEFINE m == n - 1
  <2>2. m \in Nat
    BY <1>1
  <2>3. qs \in [1..m -> SUBSET Attributes]
    BY <1>4
  <2> HIDE DEF m
  <2>4. /\ lhs \in [1..m -> SUBSET Attributes]
        /\ \A k \in 1..m : lhs[k] = IF k = i THEN ps[i] ELSE qs[k]
    BY <2>1, <2>3
  <2> HIDE DEF lhs
  <2>5. lhs \in Seq(SUBSET Attributes) /\ Len(lhs) = m
    BY <2>2, <2>4
  <2> QED
    BY <2>4, <2>5 DEF m
<1> HIDE DEF lhs
<1>6. /\ Len(grown) = n /\ DOMAIN grown = 1..n
      /\ \A k \in 1 .. n - 1 : grown[k] = lhs[k]
      /\ grown[n] = ps[j]
  <2>1. ps[j] \in SUBSET Attributes
    BY DEF PartSeq
  <2> DEFINE m == n - 1
  <2>2. m \in Nat /\ n = m + 1
    BY <1>1
  <2>a. Len(lhs) = m
    BY <1>5
  <2> HIDE DEF m
  <2>3. /\ Len(grown) = m + 1 /\ DOMAIN grown = 1 .. m + 1
        /\ \A k \in 1..m : grown[k] = lhs[k]
        /\ grown[m + 1] = ps[j]
    BY <1>5, <2>1, <2>2, <2>a
  <2> QED
    BY <2>2, <2>3 DEF m
<1>7. SplitPartition(qs, i, j, ps[i], ps[j]) = split
  BY <1>6 DEF SplitPartition, lhs
<1> HIDE DEF grown
<1>8. /\ DOMAIN split = 1..n /\ split = [k \in DOMAIN split |-> split[k]]
      /\ \A k \in 1..n : split[k] = IF k = n THEN grown[j]
                                    ELSE IF k = j THEN ps[j] ELSE grown[k]
  BY <1>1, <1>6
<1> HIDE DEF split
<1>9. ASSUME NEW k \in 1..n PROVE split[k] = ps[k]
  <2>1. CASE k = n
    <3>1. CASE j = n
      BY <1>6, <1>8, <2>1, <3>1
    <3>2. CASE j # n
      <4>1. j \in 1 .. n - 1
        BY <1>1, <3>2
      <4>2. grown[j] = ps[n]
        BY <1>1, <1>3, <1>5, <1>6, <4>1 DEF Merged
      <4> QED
        BY <1>8, <2>1, <4>2
    <3> QED
      BY <3>1, <3>2
  <2>2. CASE k # n /\ k = j
    BY <1>8, <2>2
  <2>3. CASE k # n /\ k # j
    <3>1. k \in 1 .. n - 1
      <4>1. n \in Nat /\ k \in 1..n /\ k # n
        BY <1>1, <2>3
      <4> HIDE DEF n
      <4> QED
        BY <4>1
    <3>2. grown[k] = lhs[k]
      BY <1>6, <3>1
    <3>3. split[k] = grown[k]
      BY <1>8, <2>3, Zenon
    <3> QED
      <4>1. lhs[k] = IF k = i THEN ps[i] ELSE qs[k]
        BY <1>5, <3>1
      <4>2. qs[k] = IF k = i THEN ps[i] \cup ps[j] ELSE ps[k]
        BY <1>3, <2>3, <3>1 DEF Merged
      <4> QED
        BY <3>2, <3>3, <4>1, <4>2
  <2> QED
    BY <2>1, <2>2, <2>3
<1>10. ps = [k \in 1..n |-> ps[k]]
  BY <1>1 DEF PartSeq
<1> QED
  BY <1>2, <1>7, <1>8, <1>9, <1>10

\* HeuristicNonOverlapping leaves out the empty partitions of a round.
LEMMA NonEmptyKeeps ==
    ASSUME NEW ps \in PartSeq
    PROVE  /\ NonEmpty(ps) \in PartSeq
           /\ Covered(NonEmpty(ps)) = Covered(ps)
           /\ \A i \in DOMAIN NonEmpty(ps) : NonEmpty(ps)[i] # {}
           /\ Disjoint(ps) => Disjoint(NonEmpty(ps))
<1> DEFINE S == {i \in DOMAIN ps : ps[i] # {}}
           kept == Sorted(S)
           qs == NonEmpty(ps)
<1>1. /\ Len(ps) \in Nat /\ DOMAIN ps = 1..Len(ps)
      /\ \A i \in DOMAIN ps : ps[i] \in SUBSET Attributes
  BY DEF PartSeq
<1>2. S \in SUBSET (1..Len(ps))
  BY <1>1
<1>3. kept \in Seq(S) /\ Increasing(kept) /\ Range(kept) = S
  <2> HIDE DEF S
  <2> QED
    BY <1>1, <1>2, SortedLists
<1>4. qs = [i \in DOMAIN kept |-> ps[kept[i]]]
  BY DEF NonEmpty
<1>5. \A i \in S : i \in DOMAIN ps /\ ps[i] # {}
  OBVIOUS
<1>6. \A i \in DOMAIN ps : ps[i] # {} => i \in S
  OBVIOUS
<1> HIDE DEF kept, S, qs
<1>7. /\ Len(kept) \in Nat /\ DOMAIN kept = 1..Len(kept)
      /\ \A i \in 1..Len(kept) : kept[i] \in S
  BY <1>3
<1>8. DOMAIN qs = DOMAIN kept /\ \A i \in DOMAIN qs : qs[i] = ps[kept[i]]
  BY <1>4
<1>9. qs \in PartSeq
  <2>1. \A i \in 1..Len(kept) : ps[kept[i]] \in SUBSET Attributes
    BY <1>1, <1>5, <1>7
  <2>2. [i \in 1..Len(kept) |-> ps[kept[i]]] \in Seq(SUBSET Attributes)
    BY <1>7, <2>1
  <2> QED
    BY <1>4, <1>7, <2>2 DEF PartSeq
<1>10. \A i \in DOMAIN qs : qs[i] # {}
  BY <1>5, <1>7, <1>8
<1>11. Covered(qs) = Covered(ps)
  <2>1. \A i \in DOMAIN qs : \A x \in qs[i] : \E j \in DOMAIN ps : x \in ps[j]
    BY <1>5, <1>7, <1>8
  <2>2. ASSUME NEW i \in DOMAIN ps, NEW x \in ps[i]
        PROVE  \E j \in DOMAIN qs : x \in qs[j]
    <3>1. i \in Range(kept)
      BY <1>3, <1>6, <2>2
    <3>2. PICK j \in DOMAIN kept : kept[j] = i
      BY <3>1 DEF Range
    <3> QED
      BY <1>8, <2>2, <3>2
  <2> QED
    BY <2>1, <2>2, SameCovered
<1>12. ASSUME Disjoint(ps) PROVE Disjoint(qs)
  <2> SUFFICES ASSUME NEW i \in DOMAIN qs, NEW j \in DOMAIN qs,
                      qs[i] \cap qs[j] # {}
               PROVE  i = j
    BY DEF Disjoint
  <2>1. kept[i] \in DOMAIN ps /\ kept[j] \in DOMAIN ps
    BY <1>5, <1>7, <1>8
  <2>2. kept[i] = kept[j]
    BY <1>8, <1>12, <2>1 DEF Disjoint
  <2>3. i \in 1..Len(kept) /\ j \in 1..Len(kept)
    BY <1>7, <1>8
  <2>4. kept[i] \in 1..Len(ps)
    BY <1>1, <2>1
  <2>5. ~(i < j) /\ ~(j < i)
    BY <1>1, <1>3, <2>2, <2>3, <2>4 DEF Increasing
  <2> QED
    BY <1>7, <2>3, <2>5
<1> QED
  BY <1>9, <1>10, <1>11, <1>12 DEF qs

\* HeuristicNonOverlapping puts an attribute into one partition.
LEMMA AddToKeeps ==
    ASSUME NEW ps \in PartSeq, NEW i \in DOMAIN ps, NEW x \in Attributes,
           x \notin Covered(ps), Disjoint(ps)
    PROVE  /\ AddTo(ps, i, x) \in PartSeq
           /\ Covered(AddTo(ps, i, x)) = Covered(ps) \cup {x}
           /\ Disjoint(AddTo(ps, i, x))
<1> DEFINE qs == AddTo(ps, i, x)
<1>1. /\ Len(ps) \in Nat /\ DOMAIN ps = 1..Len(ps)
      /\ ps \in [1..Len(ps) -> SUBSET Attributes]
  BY DEF PartSeq
<1>2. /\ qs \in [1..Len(ps) -> SUBSET Attributes]
      /\ DOMAIN qs = DOMAIN ps
      /\ qs[i] = ps[i] \cup {x}
      /\ \A k \in DOMAIN ps : k # i => qs[k] = ps[k]
  <2>1. qs = [ps EXCEPT ![i] = ps[i] \cup {x}]
    BY DEF AddTo
  <2>2. ps[i] \cup {x} \in SUBSET Attributes
    BY <1>1
  <2> HIDE DEF qs
  <2> QED
    BY <1>1, <2>1, <2>2
<1> HIDE DEF qs
<1>3. qs \in PartSeq
  BY <1>1, <1>2 DEF PartSeq
<1>4. \A y : y \in Covered(qs) <=> y \in Covered(ps) \/ y = x
  <2> TAKE y
  <2>1. ASSUME y \in Covered(qs) PROVE y \in Covered(ps) \/ y = x
    <3>1. PICK k \in DOMAIN qs : y \in qs[k]
      BY <2>1, CoveredIs
    <3> QED
      BY <1>2, <3>1, CoveredIs
  <2>2. ASSUME y \in Covered(ps) PROVE y \in Covered(qs)
    <3>1. PICK k \in DOMAIN ps : y \in ps[k]
      BY <2>2, CoveredIs
    <3>2. k \in DOMAIN qs /\ y \in qs[k]
      BY <1>2, <3>1
    <3> QED
      BY <3>2, CoveredIs
  <2>3. x \in Covered(qs)
    BY <1>2, CoveredIs
  <2> QED
    BY <2>1, <2>2, <2>3
<1>5. Covered(qs) = Covered(ps) \cup {x}
  BY <1>4
<1>6. \A k \in DOMAIN ps : x \notin ps[k]
  BY CoveredIs
<1>7. Disjoint(qs)
  <2> SUFFICES ASSUME NEW k \in DOMAIN ps, NEW l \in DOMAIN ps, k # l
               PROVE  qs[k] \cap qs[l] = {}
    BY <1>2 DEF Disjoint
  <2>1. ps[k] \cap ps[l] = {}
    BY DEF Disjoint
  <2> QED
    BY <1>2, <1>6, <2>1
<1> QED
  BY <1>3, <1>5, <1>7 DEF qs

\* HeuristicOverlapping starts with all attributes.
LEMMA QueryPartitionsCover ==
    ASSUME NEW qs \in PartSeq
    PROVE  /\ QueryPartitions(qs) \in PartSeq
           /\ Covered(QueryPartitions(qs)) = Attributes
<1> DEFINE missing == Attributes \ Covered(qs)
<1>1. QueryPartitions(qs) = IF missing = {} THEN qs ELSE Append(qs, missing)
  BY DEF QueryPartitions, Covered
<1>2. Covered(qs) \subseteq Attributes
  <2> SUFFICES ASSUME NEW x \in Covered(qs) PROVE x \in Attributes
    OBVIOUS
  <2>1. PICK i \in DOMAIN qs : x \in qs[i]
    BY CoveredIs
  <2> QED
    BY <2>1 DEF PartSeq
<1>3. CASE missing = {}
  BY <1>1, <1>2, <1>3
<1>4. CASE missing # {}
  <2> DEFINE rs == Append(qs, missing)
  <2>0. missing \in SUBSET Attributes /\ Attributes = Covered(qs) \cup missing
    BY <1>2
  <2> HIDE DEF missing
  <2>1. /\ rs \in PartSeq /\ DOMAIN rs = DOMAIN qs \cup {Len(qs) + 1}
        /\ \A i \in DOMAIN qs : rs[i] = qs[i]
        /\ rs[Len(qs) + 1] = missing
    BY <2>0 DEF PartSeq
  <2> HIDE DEF rs
  <2>2. \A x : x \in Covered(rs) <=> x \in Covered(qs) \/ x \in missing
    BY <2>1, CoveredIs, Zenon
  <2>3. Covered(rs) = Attributes
    BY <2>0, <2>2
  <2> QED
    BY <1>1, <1>4, <2>1, <2>3 DEF rs
<1> QED
  BY <1>3, <1>4

\* A function on the first positions is a sequence.
LEMMA IsPartSeq ==
    ASSUME NEW n \in Nat, NEW ps \in [1..n -> SUBSET Attributes]
    PROVE  ps \in PartSeq
  BY DEF PartSeq

\* PartitionPerAttribute has all attributes.
LEMMA PerAttributeCovers ==
    ASSUME NEW ps,
           ps = CHOOSE qs \in Bijection(1..Cardinality({{x} : x \in Attributes}),
                                        {{x} : x \in Attributes}) : TRUE
    PROVE  ps \in PartSeq /\ Covered(ps) = Attributes
<1> DEFINE single == {{x} : x \in Attributes}
           n == Cardinality(single)
<1>1. IsFiniteSet(single)
  <2> DEFINE f == [x \in Attributes |-> {x}]
  <2>1. f \in Surjection(Attributes, single)
    BY DEF Surjection
  <2> HIDE DEF f, single
  <2> QED
    BY <2>1, OptimizerAssumption, FS_Surjection
<1>2. n \in Nat /\ Bijection(1..n, single) # {}
  <2> HIDE DEF single
  <2> QED
    BY <1>1, FS_CardinalityType, Zenon DEF ExistsBijection
<1>3. ps \in Bijection(1..n, single)
  BY <1>2, Zenon
<1>4. /\ ps \in [1..n -> single]
      /\ \A s \in single : \E i \in 1..n : ps[i] = s
  <2> HIDE DEF single, n
  <2> QED
    BY <1>3, Zenon DEF Bijection, Surjection
<1>5. single \subseteq SUBSET Attributes
  OBVIOUS
<1> HIDE DEF n
<1>6. ps \in PartSeq
  <2>1. ps \in [1..n -> SUBSET Attributes]
    BY <1>4, <1>5
  <2>2. n \in Nat
    BY <1>2, Zenon
  <2> HIDE DEF single
  <2> QED
    BY <2>1, <2>2, IsPartSeq, Zenon
<1>7. \A x : x \in Covered(ps) <=> x \in Attributes
  <2> TAKE x
  <2>1. ASSUME x \in Covered(ps) PROVE x \in Attributes
    <3>1. PICK i \in DOMAIN ps : x \in ps[i]
      BY <2>1, CoveredIs
    <3> QED
      BY <1>4, <1>5, <3>1
  <2>2. ASSUME x \in Attributes PROVE x \in Covered(ps)
    <3>1. {x} \in single
      BY <2>2
    <3>2. PICK i \in 1..n : ps[i] = {x}
      BY <1>4, <3>1
    <3>3. i \in DOMAIN ps /\ x \in ps[i]
      BY <1>4, <3>2
    <3> QED
      BY <3>3, CoveredIs
  <2> QED
    BY <2>1, <2>2
<1>8. Covered(ps) = Attributes
  BY <1>7
<1> QED
  BY <1>6, <1>8

-----------------------------------------------------------------------------
(* The invariant of the solvers *)

\* A partitioning that HeuristicNonOverlapping may return.
Good(ps, limit) ==
    /\ ps \in PartSeq /\ Covered(ps) = Attributes
    /\ \A i \in DOMAIN ps : ps[i] # {}
    /\ Disjoint(ps)
    /\ Within(ps, limit)

\* A solution of a solver.
Solved(by, ps, limit) ==
    /\ ps \in PartSeq /\ Covered(ps) = Attributes
    /\ by # "perattribute" => Within(ps, limit)
    /\ by = "nonoverlapping" => Good(ps, limit)

\* The local variables of a solver: HeuristicNonOverlapping has placed each
\* attribute of usedAttributes once.
Working(name, ps, used, choice, limit) ==
    /\ name \in {"overlapping", "perattribute"} => Covered(ps) = Attributes
    /\ name = "single" => ps = <<Attributes>>
    /\ name = "nonoverlapping" =>
          /\ Covered(ps) = used /\ Disjoint(ps)
          /\ choice # None => Good(choice.parts, limit)

\* The inductive invariant: what has been collected, the solver that is
\* running, and what the last one returned.
SolverInv ==
    /\ queries \in PartSeq
    /\ threshold \in Nat
    /\ parts \in PartSeq
    /\ Working(solver, parts, placed, best, threshold)
    /\ solution # None => Solved(solution.by, solution.parts, threshold)

\* No solver is running.
LEMMA Idle ==
    ASSUME NEW ps, NEW used, NEW choice, NEW limit
    PROVE  Working(None, ps, used, choice, limit)
  BY OptimizerAssumption DEF Working

\* QueryCollector records the queries it is given.
LEMMA CollectKeeps ==
    ASSUME SolverInv, NEW q \in Queries, CollectQuery(q)
    PROVE  SolverInv'
<1>1. queries' \in PartSeq
  <2>1. q \in SUBSET Attributes
    BY OptimizerAssumption
  <2>2. queries' = queries \/ queries' = Append(queries, q)
    BY DEF CollectQuery, AddQuery
  <2> QED
    BY <2>1, <2>2 DEF SolverInv, PartSeq
<1> QED
  BY <1>1, Zenon DEF SolverInv, CollectQuery

\* Resetting the workloads leaves no query and no solution.
LEMMA ResetKeeps ==
    ASSUME SolverInv, ResetWorkloads
    PROVE  SolverInv'
<1>1. queries' \in PartSeq
  BY DEF ResetWorkloads, PartSeq
<1> QED
  BY <1>1, Zenon DEF SolverInv, ResetWorkloads

\* A solver starts with partitions that fit it.
LEMMA CallKeeps ==
    ASSUME SolverInv, NEW name, NEW limit \in Thresholds, NEW ps \in PartSeq,
           Working(name, ps, {}, None, limit), Call(name, limit, ps)
    PROVE  SolverInv'
<1>1. threshold' \in Nat
  BY OptimizerAssumption DEF Call
<1> QED
  BY <1>1, Zenon DEF SolverInv, Call, workloadVars

\* What a solver returns becomes the solution.
LEMMA ReturnKeeps ==
    ASSUME SolverInv, NEW ps, Solved(solver, ps, threshold), Return(ps)
    PROVE  SolverInv'
<1>1. solution'.by = solver /\ solution'.parts = ps
  BY DEF Return
<1>2. parts' \in PartSeq
  BY DEF Return, PartSeq
<1>3. Working(solver', parts', placed', best', threshold')
  BY Idle, Zenon DEF Return
<1>4. queries' = queries /\ threshold' = threshold
  BY DEF Return, workloadVars
<1> QED
  BY <1>1, <1>2, <1>3, <1>4, Zenon DEF SolverInv

\* HeuristicOverlapping starts with a partition per query.
LEMMA CallOverlappingKeeps ==
    ASSUME SolverInv, NEW limit \in Thresholds, CallOverlapping(limit)
    PROVE  SolverInv'
<1>1. PICK ps : ps = QueryPartitions(queries)
  OBVIOUS
<1>2. ps \in PartSeq /\ Covered(ps) = Attributes
  BY <1>1, QueryPartitionsCover DEF SolverInv
<1>3. Working("overlapping", ps, {}, None, limit)
  BY <1>2 DEF Working
<1> QED
  BY <1>1, <1>2, <1>3, CallKeeps DEF CallOverlapping

\* Nothing is covered by empty partitions.
LEMMA EmptyPartitions ==
    ASSUME NEW n \in Nat
    PROVE  /\ [i \in 1..n |-> {}] \in PartSeq
           /\ Covered([i \in 1..n |-> {}]) = {}
           /\ Disjoint([i \in 1..n |-> {}])
<1> DEFINE ps == [i \in 1..n |-> {}]
<1>1. ps \in [1..n -> SUBSET Attributes] /\ \A i \in DOMAIN ps : ps[i] = {}
  OBVIOUS
<1> HIDE DEF ps
<1>2. ps \in PartSeq
  BY <1>1, IsPartSeq
<1>3. \A x : x \notin Covered(ps)
  BY <1>1, CoveredIs
<1>4. Disjoint(ps)
  BY <1>1 DEF Disjoint
<1> QED
  BY <1>2, <1>3, <1>4 DEF ps

\* HeuristicNonOverlapping starts with one empty partition.
LEMMA CallNonOverlappingKeeps ==
    ASSUME SolverInv, NEW limit \in Thresholds, CallNonOverlapping(limit)
    PROVE  SolverInv'
<1>0. <<{}>> = [i \in 1..1 |-> {}]
  OBVIOUS
<1>1. PICK n \in Nat : n = 1
  OBVIOUS
<1>2. PICK ps : ps = <<{}>> /\ ps = [i \in 1..n |-> {}]
  BY <1>0, <1>1, Zenon
<1>3. ps \in PartSeq /\ Covered(ps) = {} /\ Disjoint(ps)
  BY <1>2, EmptyPartitions, Zenon
<1>4. Working("nonoverlapping", ps, {}, None, limit)
  BY <1>3 DEF Working
<1> QED
  BY <1>2, <1>3, <1>4, CallKeeps DEF CallNonOverlapping

\* The single partition.
LEMMA CallSingleKeeps ==
    ASSUME SolverInv, NEW limit \in Thresholds, SolveSinglePartition(limit)
    PROVE  SolverInv'
<1>1. <<Attributes>> \in PartSeq
  BY DEF PartSeq
<1>2. Working("single", <<Attributes>>, {}, None, limit)
  BY DEF Working
<1> QED
  BY <1>1, <1>2, CallKeeps DEF SolveSinglePartition

\* A partition per attribute.
LEMMA CallPerAttributeKeeps ==
    ASSUME SolverInv, NEW limit \in Thresholds,
           SolvePartitionPerAttribute(limit)
    PROVE  SolverInv'
<1>1. PICK ps : ps = CHOOSE qs \in
                    Bijection(1..Cardinality({{x} : x \in Attributes}),
                              {{x} : x \in Attributes}) : TRUE
  OBVIOUS
<1>2. ps \in PartSeq /\ Covered(ps) = Attributes
  BY <1>1, PerAttributeCovers
<1>3. Working("perattribute", ps, {}, None, limit)
  BY <1>2 DEF Working
<1>4. Call("perattribute", limit, ps)
  BY <1>1, Zenon DEF SolvePartitionPerAttribute
<1> QED
  BY <1>2, <1>3, <1>4, CallKeeps

\* HeuristicOverlapping: merging keeps all attributes.
LEMMA MergeKeeps ==
    ASSUME SolverInv, MergeBest
    PROVE  SolverInv'
<1>1. PICK p \in BestPairs(parts) :
         parts' = MergePartitions(parts, p[1], p[2])
  BY Zenon DEF MergeBest
<1>2. p \in Pairs(parts)
  BY <1>1, Zenon DEF BestPairs
<1>3. p[1] \in DOMAIN parts /\ p[2] \in DOMAIN parts /\ p[1] < p[2]
  BY <1>2 DEF Pairs
<1>4. parts \in PartSeq /\ solver = "overlapping"
  BY DEF SolverInv, MergeBest
<1>5. Merged(parts, p[1], p[2], parts')
  BY <1>1, <1>3, <1>4, MergeIs
<1>6. Covered(parts') = Covered(parts)
  BY <1>3, <1>4, <1>5, MergeCovers
<1>7. Covered(parts) = Attributes
  BY <1>4 DEF SolverInv, Working
<1>8. solver' = "overlapping" /\ UNCHANGED <<queries, threshold, solution>>
  BY <1>4 DEF MergeBest, workloadVars
<1>9. Working(solver', parts', placed', best', threshold')
  BY <1>6, <1>7, <1>8 DEF Working
<1>10. parts' \in PartSeq
  BY <1>5 DEF Merged
<1> QED
  BY <1>8, <1>9, <1>10, Zenon DEF SolverInv

\* HeuristicOverlapping returns partitions within the threshold.
LEMMA ReturnOverlappingKeeps ==
    ASSUME SolverInv, ReturnOverlapping
    PROVE  SolverInv'
<1>1. /\ solver = "overlapping" /\ ~OverThreshold(parts) /\ Return(parts)
  BY DEF ReturnOverlapping
<1>2. parts \in PartSeq /\ threshold \in Nat
  BY DEF SolverInv
<1>3. Covered(parts) = Attributes
  BY <1>1 DEF SolverInv, Working
<1>4. Within(parts, threshold)
  BY <1>1, <1>2, ThresholdIs
<1>5. Solved(solver, parts, threshold)
  BY <1>1, <1>2, <1>3, <1>4 DEF Solved
<1> QED
  BY <1>1, <1>5, ReturnKeeps

\* HeuristicNonOverlapping places an attribute that it has not placed yet.
LEMMA PlaceKeeps ==
    ASSUME SolverInv, NEW x \in Attributes, PlaceAttribute(x)
    PROVE  SolverInv'
<1>1. solver = "nonoverlapping" /\ x \notin placed
  BY DEF PlaceAttribute, NextAttributes
<1>2. PICK i \in BestPartitions(parts, x, placed \cup {x}) :
         parts' = AddTo(parts, i, x)
  BY Zenon DEF PlaceAttribute
<1>3. i \in DOMAIN parts
  BY <1>2, Zenon DEF BestPartitions
<1>4. /\ parts \in PartSeq /\ Covered(parts) = placed /\ Disjoint(parts)
      /\ best # None => Good(best.parts, threshold)
  BY <1>1, Zenon DEF SolverInv, Working
<1>5. /\ parts' \in PartSeq /\ Covered(parts') = placed \cup {x}
      /\ Disjoint(parts')
  BY <1>1, <1>2, <1>3, <1>4, AddToKeeps
<1>6. /\ solver' = "nonoverlapping" /\ placed' = placed \cup {x}
      /\ UNCHANGED <<queries, threshold, best, solution>>
  BY <1>1 DEF PlaceAttribute, workloadVars
<1>7. Working(solver', parts', placed', best', threshold')
  BY <1>4, <1>5, <1>6 DEF Working
<1> QED
  BY <1>5, <1>6, <1>7, Zenon DEF SolverInv

\* MinCostSolution keeps one of the partitionings it is given.
LEMMA EndRoundKeeps ==
    ASSUME SolverInv, EndRound
    PROVE  SolverInv'
<1>1. /\ solver = "nonoverlapping" /\ placed = Attributes
      /\ ~OverThreshold(NonEmpty(parts))
  BY DEF EndRound
<1>2. /\ parts \in PartSeq /\ Covered(parts) = placed /\ Disjoint(parts)
      /\ best # None => Good(best.parts, threshold)
      /\ threshold \in Nat
  BY <1>1, Zenon DEF SolverInv, Working
<1>3. PICK ps : ps = NonEmpty(parts)
  OBVIOUS
<1>4. Good(ps, threshold)
  <2>1. /\ ps \in PartSeq /\ Covered(ps) = Covered(parts)
        /\ \A i \in DOMAIN ps : ps[i] # {}
        /\ Disjoint(ps)
    BY <1>2, <1>3, NonEmptyKeeps, Zenon
  <2>2. Within(ps, threshold)
    BY <1>1, <1>2, <1>3, <2>1, ThresholdIs, Zenon
  <2> QED
    BY <1>1, <1>2, <2>1, <2>2 DEF Good
<1>5. PICK cost : best' = Push(ps, cost)
  BY <1>3, Zenon DEF EndRound
<1>6. best' = [parts |-> ps, cost |-> cost] \/ (best # None /\ best' = best)
  BY <1>5 DEF Push
<1>7. best' # None => Good(best'.parts, threshold)
  <2>1. [parts |-> ps, cost |-> cost].parts = ps
    OBVIOUS
  <2> QED
    BY <1>2, <1>4, <1>6, <2>1, Zenon
<1>8. /\ solver' = "nonoverlapping" /\ placed' = {}
      /\ UNCHANGED <<queries, threshold, solution>>
  BY <1>1 DEF EndRound, workloadVars
<1>9. /\ parts' \in PartSeq /\ Covered(parts') = {} /\ Disjoint(parts')
  <2>1. PICK n \in Nat : n = Len(parts) + 1
    BY <1>2 DEF PartSeq
  <2>2. parts' = [i \in 1..n |-> {}]
    BY <2>1, Zenon DEF EndRound, MorePartitions
  <2> QED
    BY <2>2, EmptyPartitions, Zenon
<1>10. Working(solver', parts', placed', best', threshold')
  BY <1>7, <1>8, <1>9 DEF Working
<1> QED
  BY <1>8, <1>9, <1>10, Zenon DEF SolverInv

\* HeuristicNonOverlapping returns what MinCostSolution kept.
LEMMA ReturnNonOverlappingKeeps ==
    ASSUME SolverInv, ReturnNonOverlapping
    PROVE  SolverInv'
<1>1. solver = "nonoverlapping" /\ best # None /\ Return(best.parts)
  BY Zenon DEF ReturnNonOverlapping
<1>2. Good(best.parts, threshold)
  BY <1>1, Zenon DEF SolverInv, Working
<1>3. Solved(solver, best.parts, threshold)
  BY <1>1, <1>2 DEF Solved, Good
<1> QED
  BY <1>1, <1>3, ReturnKeeps

\* The solvers without a loop return the partitions they made.
LEMMA ReturnPartsKeeps ==
    ASSUME SolverInv, ReturnParts
    PROVE  SolverInv'
<1>1. solver \in {"single", "perattribute"} /\ Return(parts)
  BY DEF ReturnParts
<1>2. parts \in PartSeq /\ threshold \in Nat
  BY DEF SolverInv
<1>3. CASE solver = "single"
  <2>1. parts = <<Attributes>>
    BY <1>3 DEF SolverInv, Working
  <2>2. Within(parts, threshold)
    BY <1>2, <2>1, OneWithin
  <2>3. Covered(parts) = Attributes
    <3>1. DOMAIN parts = {1} /\ parts[1] = Attributes
      BY <2>1
    <3>2. \A x : x \in Covered(parts) <=> x \in Attributes
      BY <3>1, CoveredIs
    <3> QED
      BY <3>2
  <2>4. Solved(solver, parts, threshold)
    BY <1>2, <1>3, <2>2, <2>3 DEF Solved
  <2> QED
    BY <1>1, <2>4, ReturnKeeps
<1>4. CASE solver = "perattribute"
  <2>1. Covered(parts) = Attributes
    BY <1>4 DEF SolverInv, Working
  <2>2. Solved(solver, parts, threshold)
    BY <1>2, <1>4, <2>1 DEF Solved
  <2> QED
    BY <1>1, <2>2, ReturnKeeps
<1> QED
  BY <1>1, <1>3, <1>4

\* Nothing has been collected and no solver has run.
LEMMA SolverInit == Init => SolverInv
<1> SUFFICES ASSUME Init PROVE SolverInv
  OBVIOUS
<1>1. queries \in PartSeq /\ parts \in PartSeq
  BY DEF Init, PartSeq
<1>2. threshold \in Nat
  BY DEF Init
<1>3. Working(solver, parts, placed, best, threshold)
  BY Idle, Zenon DEF Init
<1> QED
  BY <1>1, <1>2, <1>3, Zenon DEF SolverInv, Init

\* Every action of the collector and of a solver keeps the invariant.
LEMMA SolverKeeps == SolverInv /\ [Next]_vars => SolverInv'
<1> SUFFICES ASSUME SolverInv, [Next]_vars PROVE SolverInv'
  OBVIOUS
<1>1. ASSUME NEW q \in Queries, CollectQuery(q) PROVE SolverInv'
  BY <1>1, CollectKeeps
<1>2. CASE ResetWorkloads
  BY <1>2, ResetKeeps
<1>3. ASSUME NEW limit \in Thresholds,
             \/ CallOverlapping(limit)
             \/ CallNonOverlapping(limit)
             \/ SolveSinglePartition(limit)
             \/ SolvePartitionPerAttribute(limit)
      PROVE  SolverInv'
  BY <1>3, CallOverlappingKeeps, CallNonOverlappingKeeps, CallSingleKeeps,
     CallPerAttributeKeeps
<1>4. CASE SolverStep
  <2>1. ASSUME NEW x \in Attributes, PlaceAttribute(x) PROVE SolverInv'
    BY <2>1, PlaceKeeps
  <2> QED
    BY <1>4, <2>1, MergeKeeps, ReturnOverlappingKeeps, EndRoundKeeps,
       ReturnNonOverlappingKeeps, ReturnPartsKeeps DEF SolverStep
<1>5. CASE UNCHANGED vars
  BY <1>5, Zenon DEF SolverInv, vars
<1> QED
  BY <1>1, <1>2, <1>3, <1>4, <1>5 DEF Next

\* The invariant holds in every state.
LEMMA SolverHolds == Spec => []SolverInv
<1>1. Init => SolverInv
  BY SolverInit
<1>2. SolverInv /\ [Next]_vars => SolverInv'
  BY SolverKeeps
<1> QED
  BY <1>1, <1>2, PTL DEF Spec

-----------------------------------------------------------------------------
(* The theorems *)

(* For any schema, workload and threshold, each solver returns partitions    *)
(* that cover the schema and nothing else, and HeuristicNonOverlapping ones  *)
(* that are not empty and share no attribute.                                *)
THEOREM SolutionsCover == Spec => []SolutionCovers
<1>1. SolverInv => SolutionCovers
  <2> SUFFICES ASSUME SolverInv, solution # None PROVE SolutionCovers
    BY DEF SolutionCovers
  <2>1. Solved(solution.by, solution.parts, threshold)
    BY Zenon DEF SolverInv
  <2>2. PICK ps : ps = solution.parts
    OBVIOUS
  <2>3. UNION Range(ps) = Attributes
    BY <2>1, <2>2, Zenon DEF Solved, Covered
  <2>4. ASSUME solution.by = "nonoverlapping"
        PROVE  \A i, j \in DOMAIN ps :
                  ps[i] # {} /\ (ps[i] \cap ps[j] # {} => i = j)
    BY <2>1, <2>2, <2>4, Zenon DEF Solved, Good, Disjoint
  <2> QED
    BY <2>2, <2>3, <2>4, Zenon DEF SolutionCovers
<1> QED
  BY <1>1, SolverHolds, PTL

(* For any schema, workload and threshold, the heuristics and the single     *)
(* partition return partitions whose overhead is within the threshold.       *)
THEOREM SolutionsWithinThreshold == Spec => []WithinThreshold
<1>1. SolverInv => WithinThreshold
  BY Zenon DEF SolverInv, WithinThreshold, Solved, Within
<1> QED
  BY <1>1, SolverHolds, PTL

(* Whatever pair HeuristicOverlapping merges to see what it would cost,      *)
(* splitting it restores the partitioning, the order of it included.         *)
THEOREM SplitRestoresMerge == Spec => []SplitUndoesMerge
<1>1. SolverInv => SplitUndoesMerge
  <2> SUFFICES ASSUME SolverInv, NEW p \in Pairs(parts)
               PROVE  SplitPartition(MergePartitions(parts, p[1], p[2]),
                                     p[1], p[2], parts[p[1]], parts[p[2]])
                        = parts
    BY Zenon DEF SplitUndoesMerge
  <2>1. p[1] \in DOMAIN parts /\ p[2] \in DOMAIN parts /\ p[1] < p[2]
    BY DEF Pairs
  <2>2. parts \in PartSeq
    BY DEF SolverInv
  <2> QED
    BY <2>1, <2>2, SplitAfterMerge
<1> QED
  BY <1>1, SolverHolds, PTL
=============================================================================
