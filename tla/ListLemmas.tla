----------------------------- MODULE ListLemmas -----------------------------
(***************************************************************************)
(* Facts that the proofs about several components rest on: the lists of    *)
(* ids that the caches keep in order of use, least elements, which take    *)
(* the place of induction, and lists in increasing order.                  *)
(***************************************************************************)
EXTENDS LruList, SortedList, Functions, FiniteSetTheorems, SequenceTheorems,
        WellFoundedInduction, TLAPS

\* list::erase of a listed id leaves the other ids, each still once.
LEMMA EraseListed ==
    ASSUME NEW S, NEW list \in Seq(S), Distinct(list),
           NEW id, Listed(list, id)
    PROVE  /\ Erase(list, id) \in Seq(S)
           /\ Len(list) > 0
           /\ Len(Erase(list, id)) = Len(list) - 1
           /\ Distinct(Erase(list, id))
           /\ \A x : Listed(Erase(list, id), x)
                       <=> x # id /\ Listed(list, x)
<1> DEFINE k == CHOOSE i \in 1..Len(list) : list[i] = id
           rest == Erase(list, id)
           n == Len(list)
<1>0. n \in Nat
  OBVIOUS
<1>1. \E i \in 1..n : list[i] = id
  BY DEF Listed
<1>2. k \in 1..n /\ list[k] = id
  BY <1>1
<1>3. rest = [i \in 1 .. n - 1 |-> IF i < k THEN list[i] ELSE list[i + 1]]
  BY DEF Erase
<1>u. \A i, j \in 1..n : list[i] = list[j] => i = j
  BY DEF Distinct
<1>e. \A i \in 1..n : list[i] \in S
  OBVIOUS
<1> HIDE DEF k, rest
<1>4. n > 0 /\ n - 1 \in Nat
  BY <1>0, <1>2
<1>5. \A i \in 1 .. n - 1 : rest[i] = IF i < k THEN list[i] ELSE list[i + 1]
  BY <1>3
<1>6. rest \in Seq(S) /\ Len(rest) = n - 1
  <2>1. \A i \in 1 .. n - 1 : rest[i] \in S
    BY <1>0, <1>4, <1>5, <1>e
  <2>2. rest \in [1 .. n - 1 -> S]
    BY <1>3, <2>1
  <2> QED
    BY <2>2, <1>4
<1>7. \A i, j \in 1 .. n - 1 : rest[i] = rest[j] => i = j
  BY <1>0, <1>5, <1>u, <1>2
<1>8. ASSUME NEW x
      PROVE  (\E i \in 1 .. n - 1 : rest[i] = x)
             <=> (x # id /\ \E i \in 1..n : list[i] = x)
  <2>1. ASSUME NEW i \in 1 .. n - 1, rest[i] = x
        PROVE  x # id /\ \E m \in 1..n : list[m] = x
    <3>1. CASE i < k
      BY <3>1, <2>1, <1>0, <1>2, <1>5, <1>u
    <3>2. CASE ~(i < k)
      <4>1. i + 1 \in 1..n /\ list[i + 1] = x /\ i + 1 # k
        BY <3>2, <2>1, <1>0, <1>2, <1>5
      <4> QED
        BY <4>1, <1>2, <1>u
    <3> QED
      BY <3>1, <3>2
  <2>2. ASSUME NEW m \in 1..n, list[m] = x, x # id
        PROVE  \E i \in 1 .. n - 1 : rest[i] = x
    <3>1. CASE m < k
      <4>1. m \in 1 .. n - 1 /\ rest[m] = x
        BY <3>1, <2>2, <1>0, <1>2, <1>5
      <4> QED
        BY <4>1
    <3>2. CASE ~(m < k)
      <4>1. m - 1 \in 1 .. n - 1 /\ ~(m - 1 < k) /\ (m - 1) + 1 = m
        BY <3>2, <2>2, <1>0, <1>2
      <4>2. rest[m - 1] = x
        BY <4>1, <2>2, <1>5
      <4> QED
        BY <4>1, <4>2
    <3> QED
      BY <3>1, <3>2
  <2> QED
    BY <2>1, <2>2
<1>9. Distinct(rest)
  BY <1>6, <1>7 DEF Distinct
<1>10. \A x : Listed(rest, x) <=> x # id /\ Listed(list, x)
  BY <1>6, <1>8 DEF Listed
<1> QED
  BY <1>4, <1>6, <1>9, <1>10 DEF rest

\* list::push_front of an id that is not listed.
LEMMA PushFront ==
    ASSUME NEW S, NEW list \in Seq(S), Distinct(list),
           NEW id \in S, ~Listed(list, id)
    PROVE  /\ <<id>> \o list \in Seq(S)
           /\ Len(<<id>> \o list) = Len(list) + 1
           /\ Distinct(<<id>> \o list)
           /\ \A x : Listed(<<id>> \o list, x) <=> x = id \/ Listed(list, x)
<1> DEFINE longer == <<id>> \o list
           n == Len(list)
<1>1. /\ longer \in Seq(S)
      /\ Len(longer) = n + 1
      /\ n \in Nat
      /\ longer[1] = id
      /\ \A i \in 1..n : longer[i + 1] = list[i]
  OBVIOUS
<1>u. /\ \A i, j \in 1..n : list[i] = list[j] => i = j
      /\ \A i \in 1..n : list[i] # id
  BY DEF Distinct, Listed
<1> HIDE DEF longer
<1>3. \A i \in 1 .. n + 1 : i # 1 => i - 1 \in 1..n /\ longer[i] = list[i - 1]
  <2> TAKE i \in 1 .. n + 1
  <2> HAVE i # 1
  <2>1. i - 1 \in 1..n /\ (i - 1) + 1 = i
    BY <1>1
  <2> QED
    BY <2>1, <1>1
<1>i. \A i \in 1 .. n + 1 : i # 1 => longer[i] # id
  BY <1>3, <1>u, Zenon
<1>4. ASSUME NEW i \in 1 .. n + 1, NEW j \in 1 .. n + 1, longer[i] = longer[j]
      PROVE  i = j
  <2>1. CASE i = 1 \/ j = 1
    BY <2>1, <1>1, <1>4, <1>i, Zenon
  <2>2. CASE i # 1 /\ j # 1
    <3>1. list[i - 1] = list[j - 1] /\ i - 1 \in 1..n /\ j - 1 \in 1..n
      BY <2>2, <1>3, <1>4
    <3>2. i - 1 = j - 1
      BY <3>1, <1>u
    <3> QED
      BY <3>2
  <2> QED
    BY <2>1, <2>2
<1>5. ASSUME NEW x
      PROVE  (\E i \in 1 .. n + 1 : longer[i] = x)
             <=> (x = id \/ \E i \in 1..n : list[i] = x)
  <2>1. ASSUME NEW i \in 1 .. n + 1, longer[i] = x
        PROVE  x = id \/ \E m \in 1..n : list[m] = x
    BY <2>1, <1>1, <1>3
  <2>2. ASSUME NEW m \in 1..n, list[m] = x
        PROVE  \E i \in 1 .. n + 1 : longer[i] = x
    <3>1. m + 1 \in 1 .. n + 1 /\ longer[m + 1] = x
      BY <2>2, <1>1
    <3> QED
      BY <3>1
  <2>3. 1 \in 1 .. n + 1
    BY <1>1
  <2> QED
    BY <2>1, <2>2, <2>3, <1>1
<1>6. Distinct(longer)
  BY <1>1, <1>4 DEF Distinct
<1>7. \A x : Listed(longer, x) <=> x = id \/ Listed(list, x)
  BY <1>1, <1>5 DEF Listed
<1> QED
  BY <1>1, <1>6, <1>7 DEF longer

\* list::pop_back.
LEMMA PopBack ==
    ASSUME NEW S, NEW list \in Seq(S), Distinct(list), Len(list) > 0
    PROVE  LET last == list[Len(list)]
               front == SubSeq(list, 1, Len(list) - 1)
           IN  /\ last \in S
               /\ front \in Seq(S)
               /\ Len(front) = Len(list) - 1
               /\ Distinct(front)
               /\ \A x : Listed(front, x) <=> x # last /\ Listed(list, x)
<1> DEFINE n == Len(list)
           m == Len(list) - 1
           last == list[n]
           front == SubSeq(list, 1, m)
<1>1. n \in Nat /\ m \in Nat /\ n = m + 1 /\ last \in S /\ n \in 1..n
  OBVIOUS
<1>2. \A i \in 1..m : list[i] \in S
  OBVIOUS
<1>u. \A i, j \in 1..n : list[i] = list[j] => i = j
  BY DEF Distinct
<1> HIDE DEF m
<1>3. /\ front \in Seq(S)
      /\ Len(front) = IF 1 <= m THEN m - 1 + 1 ELSE 0
      /\ \A i \in 1 .. m - 1 + 1 : front[i] = list[1 + i - 1]
  BY <1>1, <1>2, SubSeqProperties
<1> HIDE DEF front
<1>4. Len(front) = m
  BY <1>1, <1>3
<1>5. \A i \in 1..m : front[i] = list[i] /\ i \in 1..n /\ i # n
  BY <1>1, <1>3
<1> HIDE DEF n
<1>6. Distinct(front)
  BY <1>4, <1>5, <1>u DEF Distinct
<1>7. ASSUME NEW x
      PROVE  (\E i \in 1..m : front[i] = x)
             <=> (x # last /\ \E i \in 1..n : list[i] = x)
  <2>1. \A i \in 1..n : i = n \/ i \in 1..m
    BY <1>1
  <2> QED
    BY <2>1, <1>1, <1>5, <1>u
<1>8. \A x : Listed(front, x) <=> x # last /\ Listed(list, x)
  BY <1>4, <1>7 DEF Listed, n
<1> QED
  BY <1>1, <1>3, <1>4, <1>6, <1>8 DEF front, n, m

\* Lists with the same elements in the same places are the same.
LEMMA SameList ==
    ASSUME NEW S, NEW s \in Seq(S), NEW t \in Seq(S), Len(s) = Len(t),
           \A i \in 1..Len(s) : s[i] = t[i]
    PROVE  s = t
<1>1. Len(s) \in Nat /\ DOMAIN s = 1..Len(s) /\ DOMAIN t = 1..Len(s)
  OBVIOUS
<1>2. s = [i \in 1..Len(s) |-> s[i]] /\ t = [i \in 1..Len(s) |-> t[i]]
  OBVIOUS
<1> QED
  BY <1>2, Zenon

-----------------------------------------------------------------------------
\* A set of numbers has a least one.
LEMMA LeastNatural ==
    ASSUME NEW T, T \subseteq Nat, T # {}
    PROVE  \E x \in T : \A y \in T : x <= y
<1> DEFINE R == {ss \in Nat \X Nat : ss[1] < ss[2]}
<1>1. IsWellFoundedOn(R, Nat)
  BY NatLessThanWellFounded DEF OpToRel
<1>2. PICK x \in T : \A y \in T : ~(<<y, x>> \in R)
  <2> HIDE DEF R
  <2> QED
    BY <1>1, WFMin
<1>3. ASSUME NEW y \in T
      PROVE  x <= y
  <2>1. <<y, x>> \in Nat \X Nat /\ <<y, x>>[1] = y /\ <<y, x>>[2] = x
    OBVIOUS
  <2>2. ~(y < x)
    BY <2>1, <1>2
  <2> QED
    BY <2>2
<1> QED
  BY <1>3
-----------------------------------------------------------------------------
(* Lists in increasing order *)

\* A list in order is extended by a number that is greater than all of it.
LEMMA AppendIncreasing ==
    ASSUME NEW s \in Seq(Nat), Increasing(s), NEW t \in Nat,
           \A x \in Range(s) : x < t
    PROVE  /\ Append(s, t) \in Seq(Nat)
           /\ Increasing(Append(s, t))
           /\ Range(Append(s, t)) = Range(s) \cup {t}
<1> DEFINE n == Len(s)
           a == Append(s, t)
<1>1. /\ n \in Nat
      /\ a \in Seq(Nat)
      /\ Len(a) = n + 1
      /\ a[n + 1] = t
      /\ \A i \in 1..n : a[i] = s[i] /\ s[i] \in Nat
      /\ DOMAIN s = 1..n
      /\ DOMAIN a = 1 .. n + 1
  OBVIOUS
<1>2. \A i, j \in 1..n : i < j => s[i] < s[j]
  BY DEF Increasing
<1>3. \A i \in 1..n : s[i] < t
  BY <1>1 DEF Range
<1> HIDE DEF a, n
<1>4. \A i \in 1 .. n + 1 : i = n + 1 \/ i \in 1..n
  BY <1>1
<1>5. ASSUME NEW i \in 1 .. n + 1, NEW j \in 1 .. n + 1, i < j
      PROVE  a[i] < a[j]
  <2>1. i \in 1..n
    BY <1>1, <1>5
  <2> QED
    BY <2>1, <1>1, <1>2, <1>3, <1>4, <1>5
<1>6. Increasing(a)
  BY <1>1, <1>5 DEF Increasing
<1>7. \A i \in 1..n : i \in 1 .. n + 1
  BY <1>1
<1>8. n + 1 \in 1 .. n + 1
  BY <1>1
<1>9. Range(a) = Range(s) \cup {t}
  BY <1>1, <1>4, <1>7, <1>8, Zenon DEF Range
<1> QED
  BY <1>1, <1>6, <1>9 DEF a

Enumerable(S) == \E s \in Seq(Nat) : Increasing(s) /\ Range(s) = S

\* Every set of numbers up to n can be listed in order.
LEMMA EnumerationExists ==
    ASSUME NEW n \in Nat, NEW S \in SUBSET (1..n)
    PROVE  Enumerable(S)
<1> DEFINE T == {k \in Nat : \E U \in SUBSET (1..k) : ~Enumerable(U)}
<1>1. SUFFICES ASSUME T # {} PROVE FALSE
  OBVIOUS
<1>2. PICK k \in T : \A l \in T : k <= l
  BY <1>1, LeastNatural
<1>3. PICK U \in SUBSET (1..k) : ~Enumerable(U)
  OBVIOUS
<1>4. k # 0
  <2> SUFFICES ASSUME k = 0 PROVE FALSE
    OBVIOUS
  <2>1. U = {}
    OBVIOUS
  <2>2. <<>> \in Seq(Nat) /\ Increasing(<<>>) /\ Range(<<>>) = {}
    BY DEF Increasing, Range
  <2> QED
    BY <1>3, <2>1, <2>2 DEF Enumerable
<1>5. k \in Nat /\ k - 1 \in Nat /\ ~(k <= k - 1)
  BY <1>4
<1>6. k - 1 \notin T
  BY <1>2, <1>5
<1>7. U \ {k} \subseteq 1 .. k - 1
  BY <1>5
<1>8. Enumerable(U \ {k})
  BY <1>5, <1>6, <1>7
<1>9. PICK s \in Seq(Nat) : Increasing(s) /\ Range(s) = U \ {k}
  BY <1>8 DEF Enumerable
<1>10. CASE k \notin U
  <2>1. U \ {k} = U
    BY <1>10
  <2> QED
    BY <2>1, <1>8, <1>3
<1>11. CASE k \in U
  <2>0. \A x \in 1 .. k - 1 : x < k
    BY <1>5
  <2>1. \A x \in Range(s) : x < k
    BY <2>0, <1>7, <1>9, Zenon
  <2>2. /\ Append(s, k) \in Seq(Nat)
        /\ Increasing(Append(s, k))
        /\ Range(Append(s, k)) = Range(s) \cup {k}
    BY <1>5, <1>9, <2>1, AppendIncreasing
  <2>3. Range(Append(s, k)) = U
    BY <1>9, <1>11, <2>2
  <2> QED
    BY <2>2, <2>3, <1>3 DEF Enumerable
<1> QED
  BY <1>10, <1>11

\* Sorted lists the times of a set in order.
LEMMA SortedLists ==
    ASSUME NEW n \in Nat, NEW S \in SUBSET (1..n)
    PROVE  /\ Sorted(S) \in Seq(S)
           /\ Increasing(Sorted(S))
           /\ Range(Sorted(S)) = S
<1> DEFINE c == Cardinality(S)
<1>0. IsFiniteSet(S) /\ c \in Nat
  <2>1. IsFiniteSet(1..n)
    BY FS_Interval
  <2>2. IsFiniteSet(S)
    BY <2>1, FS_Subset
  <2> QED
    BY <2>2, FS_CardinalityType
<1>1. PICK s \in Seq(Nat) : Increasing(s) /\ Range(s) = S
  BY EnumerationExists DEF Enumerable
<1>2. Len(s) \in Nat /\ DOMAIN s = 1..Len(s) /\ s \in [1..Len(s) -> S]
  BY <1>1 DEF Range
<1>3. \A i, j \in 1..Len(s) : i # j => s[i] # s[j]
  BY <1>1, <1>2 DEF Increasing
<1>4. s \in Bijection(1..Len(s), S)
  BY <1>1, <1>2, <1>3 DEF Bijection, Injection, Surjection, IsInjective, Range
<1>5. c = Len(s)
  BY <1>2, <1>4, FS_CountingElements DEF ExistsBijection
<1>6. s \in [1..c -> S]
  BY <1>2, <1>5
<1> DEFINE f == Sorted(S)
<1>7. f \in [1..c -> S] /\ Increasing(f)
  BY <1>1, <1>6 DEF Sorted
<1> HIDE DEF c, f
<1>9. f \in Seq(S) /\ Len(f) = c
  BY <1>0, <1>7
<1>8. f \in [1..c -> S] /\ \A i, j \in 1..c : i # j => f[i] # f[j]
  <2>0. S \subseteq Nat
    OBVIOUS
  <2>1. \A i \in 1..c : f[i] \in Nat
    BY <1>7, <2>0
  <2>2. \A i, j \in 1..c : i < j => f[i] < f[j]
    BY <1>7, <1>9 DEF Increasing
  <2>3. ASSUME NEW i \in 1..c, NEW j \in 1..c, i # j
        PROVE  f[i] # f[j]
    <3>1. (i < j \/ j < i) /\ f[i] \in Nat /\ f[j] \in Nat
      BY <2>1, <2>3, <1>0
    <3>2. f[i] < f[j] \/ f[j] < f[i]
      BY <3>1, <2>2
    <3> QED
      BY <3>1, <3>2
  <2> QED
    BY <2>3, <1>7
<1>10. f \in Injection(1..c, S)
  BY <1>8 DEF Injection, IsInjective
<1>11. IsFiniteSet(1..c) /\ Cardinality(1..c) = c
  BY <1>0, FS_Interval
<1>12. f \in Surjection(1..c, S)
  BY <1>0, <1>10, <1>11, FS_Injection DEF c
<1>13. Range(f) = S
  <2>1. DOMAIN f = 1..c /\ \A i \in 1..c : f[i] \in S
    BY <1>8
  <2>2. \A x \in S : \E i \in 1..c : f[i] = x
    BY <1>12 DEF Surjection
  <2> QED
    BY <2>1, <2>2, Zenon DEF Range
<1> QED
  BY <1>7, <1>9, <1>13 DEF f
=============================================================================
