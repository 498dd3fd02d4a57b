----------------------- MODULE HistoricalGraphProofs -----------------------
(***************************************************************************)
(* Proofs about the queries of HistoricalGraph: the focused query returns  *)
(* exactly the edges of the range in order, the interval query exactly the *)
(* vertices, and the batch query covers them, for any vertices, times and  *)
(* blocks.                                                                 *)
(***************************************************************************)
EXTENDS HistoricalGraph, ListLemmas

-----------------------------------------------------------------------------
(* Lists in increasing order *)

\* Of two lists in order, the one that has the smaller numbers of the other
\* is the beginning of it.
LEMMA OrderedPrefix ==
    ASSUME NEW s \in Seq(Nat), NEW t \in Seq(Nat),
           Increasing(s), Increasing(t),
           Range(s) \subseteq Range(t),
           \A x \in Range(t), y \in Range(s) : x <= y => x \in Range(s)
    PROVE  /\ Len(s) <= Len(t)
           /\ \A i \in 1..Len(s) : s[i] = t[i]
<1> DEFINE m == Len(s)
           n == Len(t)
           T == {i \in 1..m : i > n \/ s[i] # t[i]}
<1>0. /\ m \in Nat /\ n \in Nat
      /\ DOMAIN s = 1..m /\ DOMAIN t = 1..n
      /\ \A i \in 1..m : s[i] \in Nat
      /\ \A i \in 1..n : t[i] \in Nat
  OBVIOUS
<1>o. /\ \A i, j \in 1..m : i < j => s[i] < s[j]
      /\ \A i, j \in 1..n : i < j => t[i] < t[j]
  BY DEF Increasing
<1>r. /\ \A i \in 1..m : \E j \in 1..n : t[j] = s[i]
      /\ \A j \in 1..n, i \in 1..m :
            t[j] <= s[i] => \E k \in 1..m : s[k] = t[j]
  BY <1>0, Zenon DEF Range
<1> HIDE DEF m, n
<1>1. ASSUME T # {} PROVE FALSE
  <2>1. PICK i \in T : \A l \in T : i <= l
    <3>1. T \subseteq Nat
      BY <1>0
    <3> HIDE DEF T
    <3> QED
      BY <3>1, <1>1, LeastNatural
  <2>2. i \in 1..m /\ \A l \in 1..m : l < i => l <= n /\ s[l] = t[l]
    BY <1>0, <2>1
  <2>3. PICK j \in 1..n : t[j] = s[i]
    BY <1>r, <2>2
  <2>4. ~(j < i)
    BY <1>0, <1>o, <2>2, <2>3
  <2>5. i \in 1..n /\ i < j
    BY <1>0, <2>1, <2>2, <2>3, <2>4
  <2>6. t[i] < s[i]
    BY <1>o, <2>3, <2>5
  <2>c. i \in Nat /\ s[i] \in Nat /\ t[i] \in Nat /\ t[i] <= s[i]
    BY <1>0, <2>2, <2>5, <2>6
  <2>7. PICK k \in 1..m : s[k] = t[i]
    BY <1>r, <2>2, <2>5, <2>c, Zenon
  <2>8. k < i
    <3>1. k \in Nat /\ k # i /\ ~(i < k)
      BY <1>0, <1>o, <2>2, <2>6, <2>7, <2>c
    <3> QED
      BY <3>1, <2>c
  <2>9. s[k] = t[k] /\ k \in 1..n
    BY <1>0, <2>2, <2>7, <2>8
  <2>10. t[k] < t[i]
    BY <1>o, <2>5, <2>8, <2>9
  <2> QED
    BY <1>0, <2>5, <2>7, <2>9, <2>10
<1>2. \A i \in 1..m : i <= n /\ s[i] = t[i]
  <2>1. \A i \in 1..m : ~(i > n) /\ s[i] = t[i]
    BY <1>1, Zenon
  <2> QED
    BY <2>1, <1>0
<1>3. m <= n
  BY <1>0, <1>2
<1> QED
  BY <1>2, <1>3 DEF m, n

-----------------------------------------------------------------------------
(* The inductive invariant *)

\* Block i has an edge of v at time t.
Stored(i, v, t) == \E j \in 1..Len(blocks[i][v]) : blocks[i][v][j] = t

\* The blocks are lists of times in order, and a later block has later ones.
BlocksOrdered ==
    /\ blocks \in Seq([Vertices -> Seq(Times)])
    /\ \A i \in 1..Len(blocks), v \in Vertices : Increasing(blocks[i][v])
    /\ \A i, k \in 1..Len(blocks), v \in Vertices :
          i < k => \A j \in 1..Len(blocks[i][v]), m \in 1..Len(blocks[k][v]) :
                      blocks[i][v][j] < blocks[k][v][m]

\* The R-tree has one interval per neighbor list.
IntervalsIndexed ==
    iqIndex = UNION {Intervals(i, blocks[i]) : i \in 1..Len(blocks)}

\* The index has one key per neighbor list of the first n blocks.
IndexOf(index, n) ==
    /\ \A key \in DOMAIN index : \E i \in 1..n : \E v \in Heads(blocks[i]) :
          /\ key = <<v, Newest(blocks[i][v])>>
          /\ index[key] = [block |-> i, start |-> Oldest(blocks[i][v])]
    /\ \A i \in 1..n : \A v \in Heads(blocks[i]) :
          <<v, Newest(blocks[i][v])>> \in DOMAIN index

\* What a focused query that was opened over n blocks has to return
Wanted(it, n) ==
    {t \in Times : /\ InRange(t, it.start, it.end)
                   /\ \E i \in 1..n : Stored(i, it.vertex, t)}

\* The state of an edge iterator opened over n blocks, apart from its place
EdgeItShape(it, n) ==
    /\ it = [vertex |-> it.vertex, start |-> it.start, end |-> it.end,
             index |-> it.index, key |-> it.key, edge |-> it.edge,
             done |-> it.done, edges |-> it.edges, expected |-> it.expected]
    /\ it.vertex \in Vertices
    /\ it.start \in Nat
    /\ it.end \in Nat
    /\ IndexOf(it.index, n)
    /\ it.edges \in Seq(Nat)
    /\ Increasing(it.edges)
    /\ it.expected = Sorted(Wanted(it, n))

\* The iterator has read everything before the edge it is at.
Positioned(it, n) ==
    IF EdgeValid(it)
    THEN /\ it.key \in DOMAIN it.index
         /\ it.edge \in 1..Len(CurrentList(it))
         /\ CurrentList(it)[it.edge] \in Wanted(it, n)
         /\ Range(it.edges) = {t \in Wanted(it, n) :
                                  t < CurrentList(it)[it.edge]}
    ELSE Range(it.edges) = Wanted(it, n)

\* The iterator has read everything up to the edge it is at.
HasRead(it, n) ==
    IF EdgeValid(it)
    THEN /\ it.key \in DOMAIN it.index
         /\ it.edge \in 1..Len(CurrentList(it))
         /\ CurrentList(it)[it.edge] \in Wanted(it, n)
         /\ Range(it.edges) = {t \in Wanted(it, n) :
                                  t <= CurrentList(it)[it.edge]}
    ELSE Range(it.edges) = Wanted(it, n)

EdgeItInv ==
    edgeIt # <<>> =>
       \E n \in 0..Len(blocks) : EdgeItShape(edgeIt, n) /\ HasRead(edgeIt, n)

\* The vertices with an edge in a range
WantedVertices(start, end) ==
    {v \in Vertices : \E t \in StoredTimes(v) : InRange(t, start, end)}

\* While a vertex iterator is under way every vertex it still has to return
\* has an interval that it has not passed.
VertexItOk(it) ==
    /\ it = [start |-> it.start, end |-> it.end, valid |-> it.valid,
             todo |-> it.todo, vertices |-> it.vertices,
             expected |-> it.expected]
    /\ <<it.start, it.end>> \in Ranges
    /\ it.todo \subseteq iqIndex
    /\ it.expected = WantedVertices(it.start, it.end)
    /\ it.vertices \subseteq it.expected
    /\ \A v \in it.expected \ it.vertices :
          \E i \in it.todo : i.vertex = v /\ Accepted(i, it.start, it.end)

VertexItInv ==
    vertexIt # <<>> =>
       IF vertexIt.valid THEN VertexItOk(vertexIt)
       ELSE vertexIt.vertices = vertexIt.expected

IndInv ==
    /\ BlocksOrdered
    /\ IntervalsIndexed
    /\ IndexOf(fiqIndex, Len(blocks))
    /\ EdgeItInv
    /\ VertexItInv

-----------------------------------------------------------------------------
(* Blocks and keys *)

\* The blocks that can be added hold lists of times in order.
LEMMA BlockListsOrdered ==
    ASSUME NEW block \in BlockLists
    PROVE  /\ block \in [Vertices -> Seq(Times)]
           /\ \A v \in Vertices : Increasing(block[v])
<1>1. ASSUME NEW v \in Vertices
      PROVE  block[v] \in Seq(Times) /\ Increasing(block[v])
  <2>1. PICK times \in SUBSET Times : block[v] = Sorted(times)
    BY DEF BlockLists
  <2>2. Sorted(times) \in Seq(times) /\ Increasing(Sorted(times))
    BY SortedLists, HistoricalGraphAssumption DEF Times
  <2>3. Sorted(times) \in Seq(Times)
    BY <2>2
  <2> QED
    BY <2>1, <2>2, <2>3
<1>2. block \in [Vertices -> {Sorted(times) : times \in SUBSET Times}]
  BY DEF BlockLists
<1> QED
  BY <1>1, <1>2

\* The lists of a block, as the other proofs use them
LEMMA ListFacts ==
    ASSUME BlocksOrdered, NEW i \in 1..Len(blocks), NEW v \in Vertices
    PROVE  /\ blocks[i][v] \in Seq(Times)
           /\ Len(blocks[i][v]) \in Nat
           /\ DOMAIN blocks[i][v] = 1..Len(blocks[i][v])
           /\ \A j \in 1..Len(blocks[i][v]) : blocks[i][v][j] \in Times
           /\ v \in Heads(blocks[i]) <=> Len(blocks[i][v]) > 0
           /\ \A j, k \in 1..Len(blocks[i][v]) :
                 j < k => blocks[i][v][j] < blocks[i][v][k]
<1>1. blocks[i][v] \in Seq(Times)
  BY DEF BlocksOrdered
<1>2. Increasing(blocks[i][v])
  BY DEF BlocksOrdered
<1> DEFINE list == blocks[i][v]
<1>3. list # <<>> <=> Len(list) > 0
  BY <1>1
<1>4. /\ Len(list) \in Nat
      /\ DOMAIN list = 1..Len(list)
      /\ \A j \in 1..Len(list) : list[j] \in Times
  BY <1>1
<1> QED
  BY <1>1, <1>2, <1>3, <1>4 DEF Heads, Increasing

\* StoredTimes is what the blocks store.
LEMMA StoredTimesAre ==
    ASSUME BlocksOrdered, NEW v \in Vertices
    PROVE  StoredTimes(v) =
              {t \in Times : \E i \in 1..Len(blocks) : Stored(i, v, t)}
<1>1. DOMAIN blocks = 1..Len(blocks)
  BY DEF BlocksOrdered
<1>2. \A i \in 1..Len(blocks) :
         /\ DOMAIN blocks[i][v] = 1..Len(blocks[i][v])
         /\ \A j \in 1..Len(blocks[i][v]) : blocks[i][v][j] \in Times
  BY ListFacts, Zenon
<1>3. \A i \in 1..Len(blocks) : \A t :
         t \in Range(blocks[i][v]) <=> t \in Times /\ Stored(i, v, t)
  BY <1>2, Zenon DEF Stored, Range
<1>4. \A t : t \in StoredTimes(v)
               <=> \E i \in 1..Len(blocks) : t \in Range(blocks[i][v])
  BY <1>1, Zenon DEF StoredTimes
<1>5. \A t : t \in StoredTimes(v)
         <=> t \in {u \in Times : \E i \in 1..Len(blocks) : Stored(i, v, u)}
  BY <1>3, <1>4, Zenon
<1> QED
  BY <1>5, Zenon

\* A set of keys has a first one.
LEMMA FirstKeyIs ==
    ASSUME NEW keys \in SUBSET (Nat \X Nat), keys # {}
    PROVE  /\ FirstKey(keys) \in keys
           /\ \A l \in keys : \/ FirstKey(keys)[1] < l[1]
                              \/ /\ FirstKey(keys)[1] = l[1]
                                 /\ FirstKey(keys)[2] <= l[2]
<1> DEFINE V == {k[1] : k \in keys}
           First(k) == \A l \in keys :
                          k[1] < l[1] \/ (k[1] = l[1] /\ k[2] <= l[2])
<1>0. \A k \in keys : k[1] \in Nat /\ k[2] \in Nat
  OBVIOUS
<1>1. PICK v \in V : \A w \in V : v <= w
  <2>1. V \subseteq Nat /\ V # {}
    BY <1>0
  <2> HIDE DEF V
  <2> QED
    BY <2>1, LeastNatural
<1>2. v \in Nat /\ \E k \in keys : k[1] = v
  BY <1>0
<1>3. \A k \in keys : v <= k[1]
  BY <1>1
<1> HIDE DEF V
<1> DEFINE T == {k[2] : k \in {l \in keys : l[1] = v}}
<1>4. PICK t \in T : \A u \in T : t <= u
  <2>1. T \subseteq Nat /\ T # {}
    BY <1>0, <1>2
  <2> HIDE DEF T
  <2> QED
    BY <2>1, LeastNatural
<1>5. PICK k \in keys : k[1] = v /\ k[2] = t
  OBVIOUS
<1>6. \A l \in keys : l[1] = v => t <= l[2]
  BY <1>4
<1> HIDE DEF T
<1>7. First(k)
  <2> SUFFICES ASSUME NEW l \in keys
               PROVE  k[1] < l[1] \/ (k[1] = l[1] /\ k[2] <= l[2])
    OBVIOUS
  <2>1. l[1] \in Nat /\ v <= l[1]
    BY <1>0, <1>3
  <2>2. v < l[1] \/ v = l[1]
    BY <2>1, <1>2
  <2> QED
    BY <2>2, <1>5, <1>6
<1>8. FirstKey(keys) = CHOOSE x \in keys : First(x)
  BY DEF FirstKey
<1> HIDE DEF First
<1>9. FirstKey(keys) \in keys /\ First(FirstKey(keys))
  BY <1>7, <1>8
<1> QED
  BY <1>9 DEF First

KeyOf(index, key, i, v) ==
    /\ Len(blocks[i][v]) > 0
    /\ key \in Nat \X Nat
    /\ key # NoKey
    /\ key[1] = v
    /\ key[2] = blocks[i][v][Len(blocks[i][v])]
    /\ index[key].block = i
    /\ index[key].start = blocks[i][v][1]

\* A key of the index stands for a neighbor list of one of its blocks.
LEMMA KeyFacts ==
    ASSUME BlocksOrdered, NEW n \in 0..Len(blocks), NEW index,
           IndexOf(index, n), NEW key \in DOMAIN index
    PROVE  \E i \in 1..n : \E v \in Vertices : KeyOf(index, key, i, v)
<1>0. n \in Nat /\ Len(blocks) \in Nat /\ n <= Len(blocks)
  BY DEF BlocksOrdered
<1>1. PICK i \in 1..n : \E v \in Heads(blocks[i]) :
         /\ key = <<v, Newest(blocks[i][v])>>
         /\ index[key] = [block |-> i, start |-> Oldest(blocks[i][v])]
  BY Zenon DEF IndexOf
<1>2. PICK v \in Heads(blocks[i]) :
         /\ key = <<v, Newest(blocks[i][v])>>
         /\ index[key] = [block |-> i, start |-> Oldest(blocks[i][v])]
  BY <1>1, Zenon
<1>3. i \in 1..Len(blocks)
  BY <1>0
<1>4. v \in Vertices /\ v \in Nat
  BY HistoricalGraphAssumption DEF Heads
<1> DEFINE list == blocks[i][v]
<1>5. /\ Len(list) \in Nat /\ Len(list) > 0
      /\ \A j \in 1..Len(list) : list[j] \in Times
  BY <1>3, <1>4, ListFacts
<1>6. list[Len(list)] \in Nat
  BY <1>5 DEF Times
<1>7. key = <<v, list[Len(list)]>>
  BY <1>2, Zenon DEF Newest
<1>8. index[key] = [block |-> i, start |-> list[1]]
  BY <1>2, Zenon DEF Oldest
<1> HIDE DEF list
<1>9. /\ key \in Nat \X Nat
      /\ key # NoKey
      /\ key[1] = v
      /\ key[2] = list[Len(list)]
  BY <1>4, <1>6, <1>7 DEF NoKey
<1>10. index[key].block = i /\ index[key].start = list[1]
  BY <1>8
<1> QED
  BY <1>4, <1>5, <1>9, <1>10, Zenon DEF list, KeyOf

-----------------------------------------------------------------------------
(* The focused query *)

\* The neighbor list of an edge iterator's vertex in block i
ListOf(it, i) == blocks[i][it.vertex]

\* The lists of the first n blocks, in order and one after the other
ListsInOrder(it, n) ==
    /\ \A i \in 1..n :
          /\ Len(ListOf(it, i)) \in Nat
          /\ DOMAIN ListOf(it, i) = 1..Len(ListOf(it, i))
          /\ \A j \in 1..Len(ListOf(it, i)) : ListOf(it, i)[j] \in Nat
          /\ \A j, k \in 1..Len(ListOf(it, i)) :
                j < k => ListOf(it, i)[j] < ListOf(it, i)[k]
    /\ \A i, k \in 1..n : i < k =>
          \A j \in 1..Len(ListOf(it, i)), m \in 1..Len(ListOf(it, k)) :
             ListOf(it, i)[j] < ListOf(it, k)[m]

\* The wanted edges are those of these lists that are in the range.
LEMMA WantedAre ==
    ASSUME BlocksOrdered, NEW n \in 0..Len(blocks),
           NEW it, it.vertex \in Vertices, it.start \in Nat, it.end \in Nat
    PROVE  /\ ListsInOrder(it, n)
           /\ \A t \in Wanted(it, n) :
                 /\ t \in Nat /\ it.start <= t /\ t < it.end
                 /\ \E i \in 1..n : \E j \in 1..Len(ListOf(it, i)) :
                       ListOf(it, i)[j] = t
           /\ \A i \in 1..n : \A j \in 1..Len(ListOf(it, i)) :
                 it.start <= ListOf(it, i)[j] /\ ListOf(it, i)[j] < it.end
                    => ListOf(it, i)[j] \in Wanted(it, n)
<1>0. /\ Len(blocks) \in Nat
      /\ n \in Nat
      /\ \A i \in 1..n : i \in 1..Len(blocks)
      /\ Times \subseteq Nat
  BY DEF BlocksOrdered, Times
<1>1. \A i \in 1..n :
         /\ Len(ListOf(it, i)) \in Nat
         /\ DOMAIN ListOf(it, i) = 1..Len(ListOf(it, i))
         /\ \A j \in 1..Len(ListOf(it, i)) : ListOf(it, i)[j] \in Times
         /\ \A j, k \in 1..Len(ListOf(it, i)) :
               j < k => ListOf(it, i)[j] < ListOf(it, i)[k]
  BY <1>0, ListFacts, Zenon DEF ListOf
<1>2. \A i, k \in 1..n : i < k =>
         \A j \in 1..Len(ListOf(it, i)), m \in 1..Len(ListOf(it, k)) :
            ListOf(it, i)[j] < ListOf(it, k)[m]
  BY <1>0, Zenon DEF BlocksOrdered, ListOf
<1>3. ListsInOrder(it, n)
  BY <1>0, <1>1, <1>2, Zenon DEF ListsInOrder
<1>4. ASSUME NEW t \in Wanted(it, n)
      PROVE  /\ t \in Nat /\ it.start <= t /\ t < it.end
             /\ \E i \in 1..n : \E j \in 1..Len(ListOf(it, i)) :
                   ListOf(it, i)[j] = t
  BY <1>0, Zenon DEF Wanted, InRange, Stored, ListOf
<1>5. ASSUME NEW i \in 1..n, NEW j \in 1..Len(ListOf(it, i)),
             it.start <= ListOf(it, i)[j], ListOf(it, i)[j] < it.end
      PROVE  ListOf(it, i)[j] \in Wanted(it, n)
  BY <1>1, <1>5, Zenon DEF Wanted, InRange, Stored, ListOf
<1> QED
  BY <1>3, <1>4, <1>5

\* The keys at or after time lo of the vertex
KeysFrom(it, lo) ==
    {k \in DOMAIN it.index :
        k[1] > it.vertex \/ (k[1] = it.vertex /\ k[2] >= lo)}

\* The index iterator is at the first list that reaches lo, or there is
\* nothing left for it to return.
AtFirstList(it, n, lo) ==
    \/ /\ ~KeyValid(it)
       /\ \A i \in 1..n : \A j \in 1..Len(ListOf(it, i)) :
             ListOf(it, i)[j] < lo \/ ListOf(it, i)[j] >= it.end
    \/ /\ KeyValid(it)
       /\ it.key \in DOMAIN it.index
       /\ \E i \in 1..n :
             /\ CurrentList(it) = ListOf(it, i)
             /\ Len(ListOf(it, i)) > 0
             /\ ListOf(it, i)[Len(ListOf(it, i))] >= lo
             /\ \A k \in 1..n : k < i =>
                   \A j \in 1..Len(ListOf(it, k)) : ListOf(it, k)[j] < lo

\* seek and next of the index iterator stop at such a list.
LEMMA ListIsFound ==
    ASSUME BlocksOrdered, NEW n \in 0..Len(blocks),
           NEW it, it.vertex \in Vertices, it.start \in Nat, it.end \in Nat,
           IndexOf(it.index, n), NEW lo \in Nat,
           it.key = FirstKey(KeysFrom(it, lo))
    PROVE  AtFirstList(it, n, lo)
<1> DEFINE K == KeysFrom(it, lo)
           L(i) == ListOf(it, i)
           newest(i) == L(i)[Len(L(i))]
<1>0. /\ n \in Nat /\ it.vertex \in Nat
      /\ ListsInOrder(it, n)
  <2>1. Len(blocks) \in Nat
    BY DEF BlocksOrdered
  <2>2. ListsInOrder(it, n)
    BY WantedAre, Zenon
  <2>3. it.vertex \in Nat
    BY HistoricalGraphAssumption, Zenon
  <2> QED
    BY <2>1, <2>2, <2>3
<1>1. /\ \A i \in 1..n : i \in Nat /\ Len(L(i)) \in Nat
      /\ \A i \in 1..n : \A j \in 1..Len(L(i)) : L(i)[j] \in Nat
      /\ \A i \in 1..n : \A j, k \in 1..Len(L(i)) : j < k => L(i)[j] < L(i)[k]
      /\ \A i, k \in 1..n : i < k =>
            \A j \in 1..Len(L(i)), m \in 1..Len(L(k)) : L(i)[j] < L(k)[m]
  BY <1>0 DEF ListsInOrder
<1>2. ASSUME NEW key \in DOMAIN it.index
      PROVE  \E i \in 1..n : \E v \in Vertices : KeyOf(it.index, key, i, v)
  BY KeyFacts
<1>3. K \in SUBSET (Nat \X Nat) /\ K \subseteq DOMAIN it.index
  BY <1>2, Zenon DEF KeysFrom, KeyOf
<1>4. ASSUME NEW i \in 1..n, NEW j \in 1..Len(L(i)), L(i)[j] >= lo
      PROVE  /\ Len(L(i)) \in 1..Len(L(i))
             /\ newest(i) \in Nat
             /\ newest(i) >= lo
             /\ <<it.vertex, newest(i)>> \in K
  <2>1. Len(L(i)) \in 1..Len(L(i))
    BY <1>1
  <2>2. newest(i) \in Nat /\ newest(i) >= lo
    <3>1. j = Len(L(i)) \/ j < Len(L(i))
      BY <1>1
    <3>2. L(i)[j] \in Nat /\ newest(i) \in Nat
      BY <1>1, <2>1
    <3>3. j < Len(L(i)) => L(i)[j] < newest(i)
      BY <1>1, <2>1
    <3> HIDE DEF L, newest
    <3> QED
      BY <1>4, <3>1, <3>2, <3>3 DEF newest
  <2>3. i \in 1..Len(blocks)
    BY <1>0 DEF BlocksOrdered
  <2>4. it.vertex \in Heads(blocks[i])
    BY <1>1, <2>1, <2>3, ListFacts DEF ListOf
  <2>5. <<it.vertex, newest(i)>> \in DOMAIN it.index
    BY <2>4, Zenon DEF IndexOf, ListOf, Newest
  <2>6. /\ <<it.vertex, newest(i)>>[1] = it.vertex
        /\ <<it.vertex, newest(i)>>[2] = newest(i)
    OBVIOUS
  <2>7. <<it.vertex, newest(i)>> \in K
    BY <2>2, <2>5, <2>6, Zenon DEF KeysFrom
  <2> QED
    BY <2>1, <2>2, <2>7
<1> HIDE DEF K, L, newest
<1>5. CASE K = {}
  <2>1. it.key = NoKey
    BY <1>5 DEF K, FirstKey
  <2>2. \A i \in 1..n : \A j \in 1..Len(L(i)) : ~(L(i)[j] >= lo)
    BY <1>4, <1>5
  <2>3. \A i \in 1..n : \A j \in 1..Len(L(i)) : L(i)[j] < lo
    BY <2>2, <1>1
  <2> QED
    BY <2>1, <2>3, Zenon DEF AtFirstList, KeyValid, L
<1>6. CASE K # {}
  <2> DEFINE key == it.key
  <2>1. /\ key \in K
        /\ \A l \in K : key[1] < l[1] \/ (key[1] = l[1] /\ key[2] <= l[2])
    <3>1. key = FirstKey(K)
      BY DEF K
    <3>2. /\ FirstKey(K) \in K
          /\ \A l \in K : \/ FirstKey(K)[1] < l[1]
                          \/ /\ FirstKey(K)[1] = l[1]
                             /\ FirstKey(K)[2] <= l[2]
      BY <1>3, <1>6, FirstKeyIs
    <3> HIDE DEF key, K
    <3> QED
      BY <3>1, <3>2
  <2>2. PICK i \in 1..n : \E v \in Vertices : KeyOf(it.index, key, i, v)
    BY <1>2, <1>3, <2>1, Zenon
  <2>3. key \in Nat \X Nat /\ key # NoKey /\ key \in DOMAIN it.index
    BY <1>3, <2>1, <2>2, Zenon DEF KeyOf
  <2>4. key[1] > it.vertex \/ (key[1] = it.vertex /\ key[2] >= lo)
    BY <2>1 DEF K, KeysFrom
  <2> HIDE DEF key
  <2>5. ASSUME NEW m \in 1..n, NEW j \in 1..Len(L(m)), L(m)[j] >= lo
        PROVE  key[1] = it.vertex /\ key[2] <= newest(m)
    <3>1. key[1] < it.vertex \/ (key[1] = it.vertex /\ key[2] <= newest(m))
      <4>1. /\ <<it.vertex, newest(m)>> \in K
            /\ <<it.vertex, newest(m)>>[1] = it.vertex
            /\ <<it.vertex, newest(m)>>[2] = newest(m)
        BY <1>4, <2>5
      <4> QED
        BY <4>1, <2>1, Zenon
    <3>2. key[1] \in Nat
      BY <2>3
    <3> QED
      BY <3>1, <3>2, <2>4, <1>0
  <2>6. CASE key[1] # it.vertex
    <3>1. \A m \in 1..n : \A j \in 1..Len(L(m)) : ~(L(m)[j] >= lo)
      BY <2>5, <2>6
    <3>2. \A m \in 1..n : \A j \in 1..Len(L(m)) : L(m)[j] < lo
      BY <3>1, <1>1
    <3> QED
      BY <2>6, <3>2, Zenon DEF AtFirstList, KeyValid, L, key
  <2>7. CASE key[1] = it.vertex
    <3>1. /\ Len(L(i)) > 0
          /\ key[2] = newest(i)
          /\ it.index[key].block = i
          /\ it.index[key].start = L(i)[1]
      BY <2>2, <2>7, Zenon DEF L, newest, ListOf, key, KeyOf
    <3>2. /\ Len(L(i)) \in 1..Len(L(i)) /\ 1 \in 1..Len(L(i))
          /\ newest(i) \in Nat /\ newest(i) >= lo
      <4>1. Len(L(i)) \in 1..Len(L(i)) /\ 1 \in 1..Len(L(i))
        BY <3>1, <1>1
      <4>2. newest(i) \in Nat
        BY <4>1, <1>1 DEF newest
      <4> QED
        BY <4>1, <4>2, <3>1, <2>4, <2>7, <1>0
    <3>3. CurrentList(it) = L(i)
      BY <3>1, Zenon DEF CurrentList, L, ListOf, key
    <3>4. ASSUME NEW k \in 1..n, k < i, NEW j \in 1..Len(L(k))
          PROVE  L(k)[j] < lo
      <4>1. SUFFICES ASSUME L(k)[j] >= lo PROVE FALSE
        BY <1>1
      <4>2. newest(i) <= newest(k) /\ Len(L(k)) \in 1..Len(L(k))
            /\ newest(k) \in Nat
        BY <2>5, <3>1, <1>4, <4>1
      <4>3. newest(k) < newest(i)
        BY <1>1, <3>2, <3>4, <4>2 DEF newest
      <4> QED
        BY <4>2, <4>3, <3>2
    <3>5. CASE L(i)[1] < it.end
      <4>1. KeyValid(it)
        BY <2>3, <2>7, <3>1, <3>5 DEF KeyValid, key
      <4> QED
        BY <4>1, <2>3, <3>1, <3>2, <3>3, <3>4, Zenon
           DEF AtFirstList, L, newest, key
    <3>6. CASE ~(L(i)[1] < it.end)
      <4>1. ~KeyValid(it)
        BY <3>1, <3>6 DEF KeyValid, key
      <4>2. ASSUME NEW m \in 1..n, NEW j \in 1..Len(L(m))
            PROVE  L(m)[j] < lo \/ L(m)[j] >= it.end
        <5>1. m \in Nat /\ i \in Nat /\ L(m)[j] \in Nat /\ L(i)[1] \in Nat
          BY <1>1, <3>2
        <5>2. CASE m < i
          BY <5>2, <3>4
        <5>3. CASE m = i
          <6>1. j = 1 \/ 1 < j
            BY <1>1
          <6>2. j = 1 \/ L(i)[1] < L(i)[j]
            BY <6>1, <1>1, <3>2, <5>3
          <6> QED
            BY <6>2, <5>1, <5>3, <3>6
        <5>4. CASE i < m
          <6>1. L(i)[1] < L(m)[j]
            BY <1>1, <3>2, <5>4
          <6> QED
            BY <6>1, <5>1, <3>6
        <5> QED
          BY <5>1, <5>2, <5>3, <5>4
      <4> QED
        BY <4>1, <4>2, Zenon DEF AtFirstList, L
    <3> QED
      BY <3>5, <3>6
  <2> QED
    BY <2>6, <2>7
<1> QED
  BY <1>5, <1>6

Moved(it, e, d) == [it EXCEPT !.edge = e, !.done = d]

Rekeyed(it, k) == [it EXCEPT !.key = k]

\* new is the iterator it in another place of its list.
IsMoved(new, it, n, e, d) ==
    /\ EdgeItShape(new, n)
    /\ new.edge = e /\ new.done = d /\ new.edges = it.edges
    /\ new.key = it.key /\ new.index = it.index
    /\ Wanted(new, n) = Wanted(it, n)
    /\ KeyValid(new) = KeyValid(it)
    /\ CurrentList(new) = CurrentList(it)

\* new is the iterator it at another key.
IsRekeyed(new, it, n, k) ==
    /\ EdgeItShape(new, n)
    /\ new.vertex = it.vertex /\ new.start = it.start /\ new.end = it.end
    /\ new.key = k /\ new.index = it.index /\ new.edges = it.edges
    /\ Wanted(new, n) = Wanted(it, n)

\* Moving the edge iterator within a list changes nothing but its place.
LEMMA MovedIterator ==
    ASSUME NEW n, NEW it, EdgeItShape(it, n), NEW e, NEW d
    PROVE  IsMoved(Moved(it, e, d), it, n, e, d)
<1> DEFINE mid == [it EXCEPT !.edge = e]
           new == [it EXCEPT !.edge = e, !.done = d]
<1>1. it = [vertex |-> it.vertex, start |-> it.start, end |-> it.end,
            index |-> it.index, key |-> it.key, edge |-> it.edge,
            done |-> it.done, edges |-> it.edges, expected |-> it.expected]
  BY Zenon DEF EdgeItShape
<1>m. mid = [vertex |-> it.vertex, start |-> it.start, end |-> it.end,
             index |-> it.index, key |-> it.key, edge |-> e,
             done |-> it.done, edges |-> it.edges, expected |-> it.expected]
  BY <1>1
<1>n. new = [mid EXCEPT !.done = d]
  BY Zenon
<1> HIDE DEF new, mid
<1>2. new = [vertex |-> it.vertex, start |-> it.start, end |-> it.end,
             index |-> it.index, key |-> it.key, edge |-> e,
             done |-> d, edges |-> it.edges, expected |-> it.expected]
  BY <1>m, <1>n
<1>3. /\ new.vertex = it.vertex /\ new.start = it.start /\ new.end = it.end
      /\ new.index = it.index /\ new.key = it.key /\ new.edge = e
      /\ new.done = d /\ new.edges = it.edges /\ new.expected = it.expected
  BY <1>2
<1>4. Wanted(new, n) = Wanted(it, n)
  BY <1>3, Zenon DEF Wanted
<1>5. KeyValid(new) = KeyValid(it) /\ CurrentList(new) = CurrentList(it)
  BY <1>3, Zenon DEF KeyValid, CurrentList
<1>6. new = [vertex |-> new.vertex, start |-> new.start, end |-> new.end,
             index |-> new.index, key |-> new.key, edge |-> new.edge,
             done |-> new.done, edges |-> new.edges,
             expected |-> new.expected]
  BY <1>2, <1>3, Zenon
<1>7. EdgeItShape(new, n)
  BY <1>3, <1>4, <1>6, Zenon DEF EdgeItShape
<1>8. Moved(it, e, d) = new
  BY Zenon DEF new, Moved
<1> QED
  BY <1>3, <1>4, <1>5, <1>7, <1>8, Zenon DEF IsMoved

\* So does moving it to another key.
LEMMA RekeyedIterator ==
    ASSUME NEW n, NEW it, EdgeItShape(it, n), NEW k
    PROVE  IsRekeyed(Rekeyed(it, k), it, n, k)
<1> DEFINE new == [it EXCEPT !.key = k]
<1>1. it = [vertex |-> it.vertex, start |-> it.start, end |-> it.end,
            index |-> it.index, key |-> it.key, edge |-> it.edge,
            done |-> it.done, edges |-> it.edges, expected |-> it.expected]
  BY Zenon DEF EdgeItShape
<1>2. new = [vertex |-> it.vertex, start |-> it.start, end |-> it.end,
             index |-> it.index, key |-> k, edge |-> it.edge,
             done |-> it.done, edges |-> it.edges, expected |-> it.expected]
  BY <1>1
<1> HIDE DEF new
<1>3. /\ new.vertex = it.vertex /\ new.start = it.start /\ new.end = it.end
      /\ new.index = it.index /\ new.key = k /\ new.edge = it.edge
      /\ new.done = it.done /\ new.edges = it.edges
      /\ new.expected = it.expected
  BY <1>2
<1>4. Wanted(new, n) = Wanted(it, n)
  BY <1>3, Zenon DEF Wanted
<1>5. new = [vertex |-> new.vertex, start |-> new.start, end |-> new.end,
             index |-> new.index, key |-> new.key, edge |-> new.edge,
             done |-> new.done, edges |-> new.edges,
             expected |-> new.expected]
  BY <1>2, <1>3, Zenon
<1>6. EdgeItShape(new, n)
  BY <1>3, <1>4, <1>5, Zenon DEF EdgeItShape
<1>7. Rekeyed(it, k) = new
  BY Zenon DEF new, Rekeyed
<1> QED
  BY <1>3, <1>4, <1>6, <1>7, Zenon DEF IsRekeyed

\* initFromBlock puts the iterator at the first wanted edge from lo on.
LEMMA IteratorIsPlaced ==
    ASSUME BlocksOrdered, NEW n \in 0..Len(blocks),
           NEW it, EdgeItShape(it, n),
           NEW lo \in Nat, it.start <= lo,
           AtFirstList(it, n, lo),
           Range(it.edges) = {t \in Wanted(it, n) : t < lo},
           \A i \in 1..n : ListOf(it, i)[Len(ListOf(it, i))] >= lo =>
              \A j \in 1..Len(ListOf(it, i)) :
                 ListOf(it, i)[j] >= it.start => ListOf(it, i)[j] >= lo
    PROVE  /\ EdgeItShape(InitFromBlock(it), n)
           /\ Positioned(InitFromBlock(it), n)
<1> DEFINE L(i) == ListOf(it, i)
           W == Wanted(it, n)
<1>0. /\ it.vertex \in Vertices /\ it.start \in Nat /\ it.end \in Nat
      /\ n \in Nat
  <2>1. n \in Nat
    BY DEF BlocksOrdered
  <2> QED
    BY <2>1, Zenon DEF EdgeItShape
<1>w. /\ ListsInOrder(it, n)
      /\ \A t \in W :
            /\ t \in Nat /\ it.start <= t /\ t < it.end
            /\ \E i \in 1..n : \E j \in 1..Len(L(i)) : L(i)[j] = t
      /\ \A i \in 1..n : \A j \in 1..Len(L(i)) :
            it.start <= L(i)[j] /\ L(i)[j] < it.end => L(i)[j] \in W
  BY <1>0, WantedAre
<1>1. /\ \A i \in 1..n : i \in Nat /\ Len(L(i)) \in Nat
                         /\ DOMAIN L(i) = 1..Len(L(i))
      /\ \A i \in 1..n : \A j \in 1..Len(L(i)) : L(i)[j] \in Nat
      /\ \A i \in 1..n : \A j, k \in 1..Len(L(i)) : j < k => L(i)[j] < L(i)[k]
      /\ \A i, k \in 1..n : i < k =>
            \A j \in 1..Len(L(i)), m \in 1..Len(L(k)) : L(i)[j] < L(k)[m]
  BY <1>w DEF ListsInOrder
<1>2. CASE ~KeyValid(it)
  <2>1. \A i \in 1..n : \A j \in 1..Len(L(i)) :
           L(i)[j] < lo \/ L(i)[j] >= it.end
    BY <1>2, Zenon DEF AtFirstList
  <2>2. \A t \in W : t < lo
    <3> HIDE DEF L, W
    <3> QED
      BY <2>1, <1>w, <1>0
  <2>3. Range(it.edges) = W
    BY <2>2, Zenon
  <2>4. InitFromBlock(it) = it
    BY <1>2, Zenon DEF InitFromBlock
  <2>5. Positioned(it, n)
    BY <2>3, <1>2, Zenon DEF Positioned, EdgeValid
  <2> QED
    BY <2>4, <2>5
<1>3. CASE KeyValid(it)
  <2>1. it.key \in DOMAIN it.index
    BY <1>3, Zenon DEF AtFirstList
  <2>2. PICK i \in 1..n :
             /\ CurrentList(it) = L(i)
             /\ Len(L(i)) > 0
             /\ L(i)[Len(L(i))] >= lo
             /\ \A k \in 1..n : k < i =>
                   \A j \in 1..Len(L(k)) : L(k)[j] < lo
    BY <1>3, Zenon DEF AtFirstList
  <2> DEFINE list == L(i)
             First(f) == /\ list[f] >= it.start
                         /\ \A j \in 1 .. f - 1 : list[j] < it.start
             first == CHOOSE f \in DOMAIN list : First(f)
             beyond == list[first] >= it.end
             new == Moved(it, first, beyond)
  <2>3. \E f \in DOMAIN list : First(f)
    <3> DEFINE T == {j \in 1..Len(list) : list[j] >= it.start}
    <3>1. Len(list) \in T
      <4>1. Len(list) \in 1..Len(list)
        BY <2>2, <1>1
      <4>2. list[Len(list)] \in Nat
        BY <4>1, <1>1
      <4> QED
        BY <4>1, <4>2, <2>2, <1>0
    <3>2. T \subseteq Nat /\ T # {}
      BY <3>1
    <3>3. PICK f \in T : \A g \in T : f <= g
      <4> HIDE DEF T
      <4> QED
        BY <3>2, LeastNatural
    <3>4. f \in 1..Len(list) /\ list[f] >= it.start
      OBVIOUS
    <3>5. ASSUME NEW j \in 1 .. f - 1
          PROVE  list[j] < it.start
      <4>1. j \in 1..Len(list) /\ f \in Nat /\ j \in Nat /\ ~(f <= j)
        BY <3>4, <1>1
      <4>2. ~(list[j] >= it.start)
        BY <3>3, <4>1
      <4>3. list[j] \in Nat
        BY <4>1, <1>1
      <4> QED
        BY <4>2, <4>3, <1>0
    <3> QED
      BY <3>4, <3>5, <1>1
  <2>4. first \in DOMAIN list /\ First(first)
    <3> HIDE DEF First
    <3> QED
      BY <2>3
  <2>5. InitFromBlock(it) = new
    BY <1>3, <2>2, Zenon DEF InitFromBlock, Moved
  <2> HIDE DEF first
  <2>6. /\ first \in 1..Len(list) /\ first \in Nat
        /\ list[first] \in Nat /\ list[first] >= it.start
        /\ list[first] >= lo
    <3>1. first \in 1..Len(list)
      BY <2>4, <1>1
    <3>2. list[first] >= it.start /\ list[first] \in Nat
      BY <2>4, <3>1, <1>1
    <3>3. list[first] >= lo
      BY <3>1, <3>2, <2>2
    <3> QED
      BY <3>1, <3>2, <3>3, <1>1
  <2>7. ASSUME NEW t \in W, t >= lo
        PROVE  t >= list[first]
    <3>1. PICK k \in 1..n : \E j \in 1..Len(L(k)) : L(k)[j] = t
      BY <1>w
    <3>2. PICK j \in 1..Len(L(k)) : L(k)[j] = t
      BY <3>1
    <3>3. t \in Nat /\ t >= it.start /\ k \in Nat /\ i \in Nat /\ j \in Nat
      BY <1>w, <1>1, <1>0
    <3>4. CASE k < i
      BY <3>2, <3>3, <3>4, <2>2, <2>7
    <3>5. CASE i < k
      <4>1. list[first] < t
        BY <3>2, <3>5, <2>6, <1>1
      <4> QED
        BY <4>1, <3>3, <2>6
    <3>6. CASE i = k
      <4>1. ~(j \in 1 .. first - 1)
        BY <2>4, <3>2, <3>3, <3>6, <1>0
      <4>2. j = first \/ first < j
        BY <4>1, <3>3, <2>6
      <4>3. j = first \/ list[first] < list[j]
        BY <4>2, <1>1, <2>6, <3>6
      <4> QED
        BY <4>3, <3>2, <3>3, <3>6, <2>6
    <3> QED
      BY <3>3, <3>4, <3>5, <3>6
  <2>8. /\ EdgeItShape(new, n)
        /\ new.edge = first /\ new.done = beyond
        /\ new.edges = it.edges
        /\ new.key = it.key /\ new.index = it.index
        /\ Wanted(new, n) = W
        /\ KeyValid(new) = KeyValid(it)
        /\ CurrentList(new) = list
    <3> HIDE DEF beyond, W
    <3>1. IsMoved(new, it, n, first, beyond)
      BY MovedIterator, Zenon
    <3> HIDE DEF new
    <3> QED
      BY <3>1, <2>2, Zenon DEF W, IsMoved
  <2> HIDE DEF new, list, W, L
  <2>9. CASE list[first] >= it.end
    <3>1. ~EdgeValid(new)
      BY <2>8, <2>9, Zenon DEF EdgeValid
    <3>2. \A t \in W : t < lo
      BY <2>6, <2>7, <2>9, <1>w, <1>0
    <3>3. Range(it.edges) = W
      BY <3>2, Zenon DEF W
    <3>4. Positioned(new, n)
      BY <3>1, <3>3, <2>8, Zenon DEF Positioned
    <3> QED
      BY <3>4, <2>5, <2>8
  <2>10. CASE ~(list[first] >= it.end)
    <3>1. EdgeValid(new)
      BY <2>8, <2>10, <1>3, Zenon DEF EdgeValid
    <3>2. list[first] \in W
      BY <2>6, <2>10, <1>w, <1>0 DEF list
    <3>3. \A t \in W : t < lo <=> t < list[first]
      BY <2>6, <2>7, <1>w
    <3>4. Range(it.edges) = {t \in W : t < list[first]}
      BY <3>3, Zenon DEF W
    <3>5. Positioned(new, n)
      BY <3>1, <3>2, <3>4, <2>1, <2>6, <2>8, Zenon DEF Positioned
    <3> QED
      BY <3>5, <2>5, <2>8
  <2> QED
    BY <2>9, <2>10
<1> QED
  BY <1>2, <1>3

\* The caller reads the edge: now all edges up to it are read.
LEMMA EdgeIsRead ==
    ASSUME BlocksOrdered, NEW n \in 0..Len(blocks), NEW it,
           EdgeItShape(it, n), Positioned(it, n)
    PROVE  EdgeItShape(Read(it), n) /\ HasRead(Read(it), n)
<1>1. CASE ~EdgeValid(it)
  BY <1>1, Zenon DEF Positioned, HasRead, Read
<1>2. CASE EdgeValid(it)
  <2> DEFINE x == CurrentList(it)[it.edge]
             longer == Append(it.edges, x)
             new == [it EXCEPT !.edges = longer]
             W == Wanted(it, n)
  <2>1. Read(it) = new
    BY <1>2, Zenon DEF Read
  <2>2. /\ it.key \in DOMAIN it.index
        /\ it.edge \in 1..Len(CurrentList(it))
        /\ x \in W
        /\ Range(it.edges) = {t \in W : t < x}
    BY <1>2, Zenon DEF Positioned
  <2>3. it = [vertex |-> it.vertex, start |-> it.start, end |-> it.end,
            index |-> it.index, key |-> it.key, edge |-> it.edge,
            done |-> it.done, edges |-> it.edges, expected |-> it.expected]
    BY Zenon DEF EdgeItShape
  <2>4. it.edges \in Seq(Nat) /\ Increasing(it.edges)
    BY Zenon DEF EdgeItShape
  <2>5. \A t \in W : t \in Nat
    BY DEF Wanted, Times
  <2> HIDE DEF x, W
  <2>6. /\ longer \in Seq(Nat)
        /\ Increasing(longer)
        /\ Range(longer) = Range(it.edges) \cup {x}
    BY <2>2, <2>4, <2>5, AppendIncreasing
  <2>7. Range(longer) = {t \in W : t <= x}
    BY <2>2, <2>5, <2>6
  <2> HIDE DEF longer
  <2>8. new = [vertex |-> it.vertex, start |-> it.start, end |-> it.end,
               index |-> it.index, key |-> it.key, edge |-> it.edge,
               done |-> it.done, edges |-> longer, expected |-> it.expected]
    BY <2>3
  <2> HIDE DEF new
  <2>9. /\ new.vertex = it.vertex /\ new.start = it.start /\ new.end = it.end
        /\ new.index = it.index /\ new.key = it.key /\ new.edge = it.edge
        /\ new.done = it.done /\ new.edges = longer
        /\ new.expected = it.expected
    BY <2>8
  <2>10. Wanted(new, n) = W /\ CurrentList(new) = CurrentList(it)
    BY <2>9, Zenon DEF Wanted, W, CurrentList
  <2>11. EdgeValid(new)
    BY <2>9, <1>2, Zenon DEF EdgeValid, KeyValid
  <2>12. new = [vertex |-> new.vertex, start |-> new.start, end |-> new.end,
                index |-> new.index, key |-> new.key, edge |-> new.edge,
                done |-> new.done, edges |-> new.edges,
                expected |-> new.expected]
    BY <2>8, <2>9, Zenon
  <2>13. EdgeItShape(new, n)
    BY <2>6, <2>9, <2>10, <2>12, Zenon DEF EdgeItShape, W
  <2>14. HasRead(new, n)
    BY <2>2, <2>7, <2>9, <2>10, <2>11, Zenon DEF HasRead, x
  <2> QED
    BY <2>1, <2>13, <2>14
<1> QED
  BY <1>1, <1>2

\* next goes to the following wanted edge, in the list or in a later block.
LEMMA IteratorMovesOn ==
    ASSUME BlocksOrdered, NEW n \in 0..Len(blocks), NEW it,
           EdgeItShape(it, n), HasRead(it, n), EdgeValid(it)
    PROVE  EdgeItShape(EdgeNext(it), n) /\ Positioned(EdgeNext(it), n)
<1> DEFINE L(i) == ListOf(it, i)
           W == Wanted(it, n)
           list == CurrentList(it)
<1>0. /\ it.vertex \in Vertices /\ it.start \in Nat /\ it.end \in Nat
      /\ n \in Nat /\ IndexOf(it.index, n)
  <2>1. n \in Nat
    BY DEF BlocksOrdered
  <2> QED
    BY <2>1, Zenon DEF EdgeItShape
<1>w. /\ ListsInOrder(it, n)
      /\ \A t \in W :
            /\ t \in Nat /\ it.start <= t /\ t < it.end
            /\ \E i \in 1..n : \E j \in 1..Len(L(i)) : L(i)[j] = t
      /\ \A i \in 1..n : \A j \in 1..Len(L(i)) :
            it.start <= L(i)[j] /\ L(i)[j] < it.end => L(i)[j] \in W
  BY <1>0, WantedAre
<1>1. /\ \A i \in 1..n : i \in Nat /\ Len(L(i)) \in Nat
      /\ \A i \in 1..n : \A j \in 1..Len(L(i)) : L(i)[j] \in Nat
      /\ \A i \in 1..n : \A j, k \in 1..Len(L(i)) : j < k => L(i)[j] < L(i)[k]
      /\ \A i, k \in 1..n : i < k =>
            \A j \in 1..Len(L(i)), m \in 1..Len(L(k)) : L(i)[j] < L(k)[m]
  BY <1>w DEF ListsInOrder
<1>2. /\ it.key \in DOMAIN it.index
      /\ it.edge \in 1..Len(list)
      /\ list[it.edge] \in W
      /\ Range(it.edges) = {t \in W : t <= list[it.edge]}
  BY Zenon DEF HasRead
<1>3. it.key[1] = it.vertex /\ KeyValid(it)
  BY Zenon DEF EdgeValid, KeyValid
<1>4. PICK i \in 1..n : \E v \in Vertices : KeyOf(it.index, it.key, i, v)
  BY <1>0, <1>2, KeyFacts, Zenon
<1>5. it.key[2] = L(i)[Len(L(i))] /\ list = L(i) /\ it.key[2] \in Nat
  <2>1. it.key \in Nat \X Nat
    BY <1>4, Zenon DEF KeyOf
  <2>2. it.key[2] \in Nat
    BY <2>1
  <2> QED
    BY <1>3, <1>4, <2>2, Zenon DEF ListOf, CurrentList, KeyOf
<1> DEFINE e == it.edge
<1>6. /\ e \in 1..Len(L(i)) /\ e \in Nat /\ Len(L(i)) \in Nat
      /\ L(i)[e] \in Nat /\ L(i)[e] >= it.start
  <2>1. e \in 1..Len(L(i)) /\ L(i)[e] \in W
    BY <1>2, <1>5, Zenon
  <2> HIDE DEF W, L, e
  <2> QED
    BY <2>1, <1>1, <1>w
<1>7. CASE it.edge < Len(list)
  <2> DEFINE beyond == list[it.edge + 1] >= it.end
             new == Moved(it, it.edge + 1, beyond)
  <2>1. EdgeNext(it) = new
    BY <1>7, Zenon DEF EdgeNext, Moved
  <2>2. /\ EdgeItShape(new, n)
        /\ new.edge = it.edge + 1 /\ new.done = beyond
        /\ new.edges = it.edges
        /\ new.key = it.key /\ new.index = it.index
        /\ Wanted(new, n) = W
        /\ KeyValid(new) = KeyValid(it)
        /\ CurrentList(new) = list
    <3> HIDE DEF beyond, W, list
    <3>1. IsMoved(new, it, n, it.edge + 1, beyond)
      BY MovedIterator, Zenon
    <3> HIDE DEF new
    <3> QED
      BY <3>1, Zenon DEF W, IsMoved, list
  <2> HIDE DEF new, list, W, L, e
  <2>3. /\ e + 1 \in 1..Len(L(i)) /\ L(i)[e + 1] \in Nat
        /\ L(i)[e] < L(i)[e + 1]
    <3>1. e + 1 \in 1..Len(L(i)) /\ e < e + 1
      BY <1>5, <1>6, <1>7 DEF e
    <3> QED
      BY <3>1, <1>1, <1>6
  <2>4. ASSUME NEW t \in W, ~(t <= L(i)[e])
        PROVE  t >= L(i)[e + 1]
    <3>1. PICK k \in 1..n : \E j \in 1..Len(L(k)) : L(k)[j] = t
      BY <1>w
    <3>2. PICK j \in 1..Len(L(k)) : L(k)[j] = t
      BY <3>1
    <3>3. t \in Nat /\ k \in Nat /\ i \in Nat /\ j \in Nat
      BY <1>w, <1>1
    <3>4. CASE k < i
      <4>1. t < L(i)[e]
        BY <3>2, <3>4, <1>1, <1>6
      <4> QED
        BY <4>1, <3>3, <1>6, <2>4
    <3>5. CASE i < k
      <4>1. L(i)[e + 1] < t
        BY <3>2, <3>5, <2>3, <1>1
      <4> QED
        BY <4>1, <3>3, <2>3
    <3>6. CASE i = k
      <4>1. ~(j < e) /\ j # e
        BY <3>2, <3>3, <3>6, <1>1, <1>6, <2>4
      <4>2. j = e + 1 \/ e + 1 < j
        BY <4>1, <3>3, <1>6
      <4>3. j = e + 1 \/ L(i)[e + 1] < L(i)[j]
        BY <4>2, <1>1, <2>3, <3>6
      <4> QED
        BY <4>3, <3>2, <3>3, <3>6, <2>3
    <3> QED
      BY <3>3, <3>4, <3>5, <3>6
  <2>5. Range(it.edges) = {t \in W : t <= L(i)[e]}
    BY <1>2, <1>5, Zenon DEF e
  <2>6. list[it.edge + 1] = L(i)[e + 1]
    BY <1>5, Zenon DEF e
  <2>7. CASE L(i)[e + 1] >= it.end
    <3>1. ~EdgeValid(new)
      BY <2>2, <2>6, <2>7, Zenon DEF EdgeValid
    <3>2. \A t \in W : t <= L(i)[e]
      BY <2>3, <2>4, <2>7, <1>w, <1>0
    <3>3. Range(it.edges) = W
      BY <3>2, <2>5, Zenon
    <3>4. Positioned(new, n)
      BY <3>1, <3>3, <2>2, Zenon DEF Positioned
    <3> QED
      BY <3>4, <2>1, <2>2
  <2>8. CASE ~(L(i)[e + 1] >= it.end)
    <3>1. EdgeValid(new)
      BY <2>2, <2>6, <2>8, <1>3, Zenon DEF EdgeValid
    <3>2. L(i)[e + 1] \in W
      <4>1. it.start <= L(i)[e + 1] /\ L(i)[e + 1] < it.end
        BY <1>0, <1>6, <2>3, <2>8
      <4> QED
        BY <4>1, <2>3, <1>w
    <3>3. \A t \in W : t <= L(i)[e] <=> t < L(i)[e + 1]
      BY <1>6, <2>3, <2>4, <1>w
    <3>4. Range(it.edges) = {t \in W : t < L(i)[e + 1]}
      BY <3>3, <2>5, Zenon
    <3>5. Positioned(new, n)
      <4>1. new.edge \in 1..Len(CurrentList(new))
        BY <2>2, <2>3, <1>5, Zenon DEF e
      <4>2. CurrentList(new)[new.edge] = L(i)[e + 1]
        BY <2>2, <2>6, Zenon
      <4>3. new.key \in DOMAIN new.index
        BY <2>2, <1>2, Zenon
      <4> QED
        BY <3>1, <3>2, <3>4, <4>1, <4>2, <4>3, <2>2, Zenon DEF Positioned
    <3> QED
      BY <3>5, <2>1, <2>2
  <2> QED
    BY <2>7, <2>8
<1>8. CASE ~(it.edge < Len(list))
  <2> DEFINE new == Rekeyed(it, NextKey(it.index, it.key))
             lo == it.key[2] + 1
  <2>1. EdgeNext(it) = InitFromBlock(new)
    BY <1>8, Zenon DEF EdgeNext, Rekeyed
  <2>2. IsRekeyed(new, it, n, NextKey(it.index, it.key))
    BY RekeyedIterator, Zenon
  <2> HIDE DEF new, list, W, L, e
  <2>3. /\ EdgeItShape(new, n)
        /\ new.vertex = it.vertex /\ new.start = it.start /\ new.end = it.end
        /\ new.key = NextKey(it.index, it.key)
        /\ new.index = it.index /\ new.edges = it.edges
        /\ Wanted(new, n) = W
    BY <2>2, Zenon DEF IsRekeyed, W
  <2>4. e = Len(L(i)) /\ L(i)[e] = it.key[2]
    <3>1. e = Len(L(i))
      BY <1>5, <1>6, <1>8 DEF e
    <3> QED
      BY <3>1, <1>5
  <2>5. lo \in Nat /\ new.start <= lo
    <3>1. it.start <= it.key[2]
      BY <2>4, <1>6
    <3> QED
      BY <3>1, <1>0, <1>5, <2>3
  <2>6. new.key = FirstKey(KeysFrom(new, lo))
    <3>1. \A k \in DOMAIN it.index : k[2] \in Nat
      <4> SUFFICES ASSUME NEW k \in DOMAIN it.index PROVE k[2] \in Nat
        OBVIOUS
      <4>1. k \in Nat \X Nat
        BY <1>0, KeyFacts, Zenon DEF KeyOf
      <4> QED
        BY <4>1
    <3>2. \A k \in DOMAIN it.index : k[2] > it.key[2] <=> k[2] >= lo
      BY <3>1, <1>5
    <3> HIDE DEF lo
    <3>3. KeysFrom(new, lo) =
            {k \in DOMAIN it.index :
               k[1] > it.key[1] \/ (k[1] = it.key[1] /\ k[2] > it.key[2])}
      BY <3>2, <2>3, <1>3, Zenon DEF KeysFrom
    <3> QED
      BY <3>3, <2>3, Zenon DEF NextKey
  <2>7. AtFirstList(new, n, lo)
    <3> HIDE DEF lo
    <3> QED
      BY <2>3, <2>5, <2>6, <1>0, ListIsFound
  <2>8. Range(new.edges) = {t \in Wanted(new, n) : t < lo}
    <3>1. \A t \in W : t <= list[it.edge] <=> t < lo
      BY <1>w, <1>5, <2>4 DEF e
    <3> HIDE DEF lo
    <3> QED
      BY <3>1, <1>2, <2>3, Zenon
  <2>9. ASSUME NEW m \in 1..n, L(m)[Len(L(m))] >= lo,
               NEW j \in 1..Len(L(m))
        PROVE  L(m)[j] >= lo
    <3>1. Len(L(m)) \in 1..Len(L(m)) /\ m \in Nat /\ i \in Nat
      BY <1>1
    <3>2. L(m)[Len(L(m))] \in Nat /\ L(m)[j] \in Nat
      BY <1>1, <3>1
    <3>3. ~(m < i) /\ m # i
      <4>1. m < i => L(m)[Len(L(m))] < L(i)[e]
        BY <3>1, <1>1, <1>6
      <4> QED
        BY <4>1, <3>2, <2>4, <2>9, <1>5
    <3>4. L(i)[e] < L(m)[j]
      BY <3>1, <3>3, <1>1, <1>6
    <3> QED
      BY <3>2, <3>4, <2>4, <1>5
  <2>10. \A m \in 1..n : ListOf(new, m)[Len(ListOf(new, m))] >= lo =>
            \A j \in 1..Len(ListOf(new, m)) :
               ListOf(new, m)[j] >= new.start => ListOf(new, m)[j] >= lo
    <3>1. \A m \in 1..n : ListOf(new, m) = L(m)
      BY <2>3, Zenon DEF ListOf, L
    <3> HIDE DEF lo
    <3> QED
      BY <3>1, <2>9, Zenon
  <2> HIDE DEF lo
  <2> QED
    BY <2>1, <2>3, <2>5, <2>7, <2>8, <2>10, IteratorIsPlaced, Zenon
<1> QED
  BY <1>7, <1>8

\* Opening the iterator puts it at the first wanted edge.
LEMMA IteratorIsOpened ==
    ASSUME BlocksOrdered, IndexOf(fiqIndex, Len(blocks)),
           NEW v \in Vertices, NEW start \in Nat, NEW end \in Nat
    PROVE  LET it == [vertex |-> v, start |-> start, end |-> end,
                      index |-> fiqIndex, key |-> Seek(fiqIndex, v, start),
                      edge |-> 1, done |-> FALSE, edges |-> <<>>,
                      expected |-> Sorted({t \in StoredTimes(v) :
                                              InRange(t, start, end)})]
           IN  /\ EdgeItShape(InitFromBlock(it), Len(blocks))
               /\ Positioned(InitFromBlock(it), Len(blocks))
<1> DEFINE key == Seek(fiqIndex, v, start)
           wanted == Sorted({t \in StoredTimes(v) : InRange(t, start, end)})
           it == [vertex |-> v, start |-> start, end |-> end,
                  index |-> fiqIndex, key |-> key,
                  edge |-> 1, done |-> FALSE, edges |-> <<>>,
                  expected |-> wanted]
           n == Len(blocks)
<1> HIDE DEF key, wanted
<1>1. /\ it.vertex = v /\ it.start = start /\ it.end = end
      /\ it.index = fiqIndex /\ it.key = key /\ it.edge = 1
      /\ it.done = FALSE /\ it.edges = <<>> /\ it.expected = wanted
  OBVIOUS
<1>2. it = [vertex |-> it.vertex, start |-> it.start, end |-> it.end,
            index |-> it.index, key |-> it.key, edge |-> it.edge,
            done |-> it.done, edges |-> it.edges, expected |-> it.expected]
  OBVIOUS
<1> HIDE DEF it
<1>3. n \in Nat /\ n \in 0..n
  BY DEF BlocksOrdered
<1>4. wanted = Sorted(Wanted(it, n))
  <2>1. {t \in StoredTimes(v) : InRange(t, start, end)} = Wanted(it, n)
    BY <1>1, StoredTimesAre, Zenon DEF Wanted
  <2> QED
    BY <2>1, Zenon DEF wanted
<1>5. <<>> \in Seq(Nat) /\ Increasing(<<>>) /\ Range(<<>>) = {}
  BY DEF Increasing, Range
<1>6. EdgeItShape(it, n)
  BY <1>1, <1>2, <1>4, <1>5, Zenon DEF EdgeItShape
<1>7. it.key = FirstKey(KeysFrom(it, start))
  BY <1>1, Zenon DEF key, Seek, KeysFrom
<1>8. AtFirstList(it, n, start)
  BY <1>1, <1>3, <1>7, ListIsFound, Zenon
<1>9. Range(it.edges) = {t \in Wanted(it, n) : t < start}
  <2>1. \A t \in Wanted(it, n) : t \in Nat /\ start <= t
    BY <1>1, <1>3, WantedAre, Zenon
  <2>2. \A t \in Wanted(it, n) : ~(t < start)
    BY <2>1
  <2> QED
    BY <2>2, <1>1, <1>5, Zenon
<1>10. it.start <= start
  BY <1>1
<1>11. \A i \in 1..n : ListOf(it, i)[Len(ListOf(it, i))] >= start =>
          \A j \in 1..Len(ListOf(it, i)) :
             ListOf(it, i)[j] >= it.start => ListOf(it, i)[j] >= start
  BY <1>1, Zenon
<1>12. EdgeItShape(InitFromBlock(it), n) /\ Positioned(InitFromBlock(it), n)
  BY <1>3, <1>6, <1>8, <1>9, <1>10, <1>11, IteratorIsPlaced, Zenon
<1> QED
  BY <1>12, Zenon DEF it, key, wanted

\* An open iterator sees only the blocks it was opened over.
LEMMA OpenIteratorIsStable ==
    ASSUME BlocksOrdered, NEW n \in 0..Len(blocks), NEW it,
           EdgeItShape(it, n), HasRead(it, n),
           \A i \in 1..n : blocks'[i] = blocks[i]
    PROVE  EdgeItShape(it, n)' /\ HasRead(it, n)'
<1>1. \A i \in 1..n : \A v, t : Stored(i, v, t)' <=> Stored(i, v, t)
  BY Zenon DEF Stored
<1>2. Wanted(it, n)' = Wanted(it, n)
  BY <1>1, Zenon DEF Wanted
<1>3. IndexOf(it.index, n)
  BY Zenon DEF EdgeItShape
<1>4. IndexOf(it.index, n)'
  <2>1. ASSUME NEW key \in DOMAIN it.index
        PROVE  \E i \in 1..n : \E v \in Heads(blocks'[i]) :
                  /\ key = <<v, Newest(blocks'[i][v])>>
                  /\ it.index[key] =
                       [block |-> i, start |-> Oldest(blocks'[i][v])]
    <3>1. PICK i \in 1..n : \E v \in Heads(blocks[i]) :
                  /\ key = <<v, Newest(blocks[i][v])>>
                  /\ it.index[key] =
                       [block |-> i, start |-> Oldest(blocks[i][v])]
      BY <1>3, Zenon DEF IndexOf
    <3>2. blocks'[i] = blocks[i]
      OBVIOUS
    <3> QED
      BY <3>1, <3>2, Zenon
  <2>2. ASSUME NEW i \in 1..n, NEW v \in Heads(blocks'[i])
        PROVE  <<v, Newest(blocks'[i][v])>> \in DOMAIN it.index
    <3>1. blocks'[i] = blocks[i]
      OBVIOUS
    <3>2. v \in Heads(blocks[i])
      BY <3>1, Zenon
    <3>3. <<v, Newest(blocks[i][v])>> \in DOMAIN it.index
      BY <1>3, <3>2, Zenon DEF IndexOf
    <3> QED
      BY <3>1, <3>3, Zenon
  <2> QED
    BY <2>1, <2>2, Zenon DEF IndexOf
<1>5. EdgeItShape(it, n)'
  BY <1>2, <1>4, Zenon DEF EdgeItShape
<1>6. EdgeValid(it)' <=> EdgeValid(it)
  BY Zenon DEF EdgeValid, KeyValid
<1>7. CASE ~EdgeValid(it)
  BY <1>2, <1>5, <1>6, <1>7, Zenon DEF HasRead
<1>8. CASE EdgeValid(it)
  <2>1. it.key \in DOMAIN it.index
    BY <1>8, Zenon DEF HasRead
  <2>2. it.index[it.key].block \in 1..n
    <3>1. PICK i \in 1..n : \E v \in Vertices : KeyOf(it.index, it.key, i, v)
      BY <1>3, <2>1, KeyFacts, Zenon
    <3> QED
      BY <3>1, Zenon DEF KeyOf
  <2>3. CurrentList(it)' = CurrentList(it)
    BY <2>2, Zenon DEF CurrentList
  <2> QED
    BY <1>2, <1>5, <1>6, <1>8, <2>3, Zenon DEF HasRead
<1> QED
  BY <1>7, <1>8

\* The iterator has returned a beginning of what is wanted, and all of it
\* when it is at its end.
LEMMA ReadIsExact ==
    ASSUME BlocksOrdered, EdgeItInv
    PROVE  FocusedQueryExact
<1> SUFFICES ASSUME edgeIt # <<>>
             PROVE  /\ Len(edgeIt.edges) <= Len(edgeIt.expected)
                    /\ edgeIt.edges =
                         SubSeq(edgeIt.expected, 1, Len(edgeIt.edges))
                    /\ ~EdgeValid(edgeIt) => edgeIt.edges = edgeIt.expected
  BY Zenon DEF FocusedQueryExact
<1>1. PICK n \in 0..Len(blocks) : EdgeItShape(edgeIt, n) /\ HasRead(edgeIt, n)
  BY Zenon DEF EdgeItInv
<1> DEFINE W == Wanted(edgeIt, n)
           s == edgeIt.edges
           t == edgeIt.expected
<1>2. s \in Seq(Nat) /\ Increasing(s) /\ t = Sorted(W)
  BY <1>1, Zenon DEF EdgeItShape
<1>3. W \in SUBSET (1..MaxTime) /\ MaxTime \in Nat
  BY HistoricalGraphAssumption DEF Wanted, Times
<1>4. /\ Range(s) \subseteq W
      /\ \A x \in W, y \in Range(s) : x <= y => x \in Range(s)
      /\ ~EdgeValid(edgeIt) => Range(s) = W
  <2>1. CASE ~EdgeValid(edgeIt)
    BY <1>1, <2>1, Zenon DEF HasRead
  <2>2. CASE EdgeValid(edgeIt)
    <3> DEFINE z == CurrentList(edgeIt)[edgeIt.edge]
    <3>1. z \in W /\ Range(s) = {x \in W : x <= z}
      BY <1>1, <2>2, Zenon DEF HasRead
    <3>2. \A x \in W : x \in Nat
      BY <1>3
    <3> HIDE DEF z, W
    <3>3. \A x \in W, y \in Range(s) : x <= y => x <= z
      BY <3>1, <3>2
    <3>4. Range(s) \subseteq W
      BY <3>1, Zenon
    <3>5. \A x \in W, y \in Range(s) : x <= y => x \in Range(s)
      BY <3>1, <3>3, Zenon
    <3> QED
      BY <3>4, <3>5, <2>2, Zenon DEF W
  <2> QED
    BY <2>1, <2>2
<1> HIDE DEF W
<1>5. Sorted(W) \in Seq(W) /\ Increasing(Sorted(W)) /\ Range(Sorted(W)) = W
  BY <1>3, SortedLists
<1>6. t \in Seq(Nat) /\ Increasing(t) /\ Range(t) = W
  <2>1. ASSUME NEW q \in Seq(W)
        PROVE  q \in Seq(Nat)
    <3>1. W \subseteq Nat
      BY <1>3
    <3>2. Len(q) \in Nat /\ q \in [1..Len(q) -> W]
      OBVIOUS
    <3>3. q \in [1..Len(q) -> Nat]
      BY <3>1, <3>2
    <3> QED
      BY <3>2, <3>3
  <2> QED
    BY <1>2, <1>5, <2>1, Zenon
<1> HIDE DEF s, t
<1>7. Len(s) <= Len(t) /\ \A i \in 1..Len(s) : s[i] = t[i]
  BY <1>2, <1>4, <1>6, OrderedPrefix
<1>8. s = SubSeq(t, 1, Len(s))
  <2>1. Len(s) \in Nat /\ Len(t) \in Nat
    BY <1>2, <1>6
  <2> DEFINE u == SubSeq(t, 1, Len(s))
             m == Len(s)
  <2>2. \A i \in 1..m : t[i] \in Nat
    BY <1>2, <1>7
  <2> HIDE DEF m
  <2>3. /\ SubSeq(t, 1, m) \in Seq(Nat)
        /\ Len(SubSeq(t, 1, m)) = IF 1 <= m THEN m - 1 + 1 ELSE 0
        /\ \A i \in 1 .. m - 1 + 1 : SubSeq(t, 1, m)[i] = t[1 + i - 1]
    BY <2>1, <2>2, <1>6, SubSeqProperties DEF m
  <2>4. u \in Seq(Nat) /\ Len(u) = m /\ \A i \in 1..m : u[i] = t[i]
    BY <2>1, <2>3 DEF m
  <2> HIDE DEF u
  <2>5. \A i \in 1..Len(u) : u[i] = s[i]
    BY <2>4, <1>7, Zenon DEF m
  <2>6. u = s
    BY <2>4, <2>5, <1>2, SameList, Zenon DEF m
  <2> QED
    BY <2>6 DEF u
<1>9. ~EdgeValid(edgeIt) => s = t
  <2> SUFFICES ASSUME ~EdgeValid(edgeIt) PROVE s = t
    OBVIOUS
  <2>1. Range(t) \subseteq Range(s)
        /\ \A x \in Range(s), y \in Range(t) : x <= y => x \in Range(t)
    BY <1>4, <1>6, Zenon
  <2>2. Len(t) <= Len(s)
    BY <2>1, <1>2, <1>6, OrderedPrefix
  <2> QED
    BY <2>2, <1>2, <1>6, <1>7
<1> QED
  BY <1>7, <1>8, <1>9 DEF s, t

-----------------------------------------------------------------------------
(* The interval query *)

\* i is the interval of the neighbor list of v in block b.
IsIntervalOf(i, b, v) ==
    /\ i.block = b
    /\ i.vertex = v
    /\ Len(blocks[b][v]) > 0
    /\ i.start = blocks[b][v][1]
    /\ i.end = blocks[b][v][Len(blocks[b][v])]

\* The R-tree holds the intervals of the neighbor lists, and no others.
LEMMA IntervalFacts ==
    ASSUME BlocksOrdered, IntervalsIndexed
    PROVE  /\ \A i \in iqIndex : \E b \in 1..Len(blocks) : \E v \in Vertices :
                 IsIntervalOf(i, b, v)
           /\ \A b \in 1..Len(blocks) : \A v \in Vertices :
                 Len(blocks[b][v]) > 0 =>
                    \E i \in iqIndex : IsIntervalOf(i, b, v)
<1> DEFINE I(b, v) == [block |-> b, vertex |-> v,
                       start |-> Oldest(blocks[b][v]),
                       end |-> Newest(blocks[b][v])]
<1>0. \A b, v : /\ I(b, v).block = b
                /\ I(b, v).vertex = v
                /\ I(b, v).start = Oldest(blocks[b][v])
                /\ I(b, v).end = Newest(blocks[b][v])
  OBVIOUS
<1>1. \A i : i \in iqIndex <=> \E b \in 1..Len(blocks) :
                                  \E v \in Heads(blocks[b]) : i = I(b, v)
  <2>1. \A i, b : i \in Intervals(b, blocks[b])
                     <=> \E v \in Heads(blocks[b]) : i = I(b, v)
    BY Zenon DEF Intervals
  <2>2. \A i : i \in iqIndex
                 <=> \E b \in 1..Len(blocks) : i \in Intervals(b, blocks[b])
    BY Zenon DEF IntervalsIndexed
  <2> HIDE DEF I
  <2> QED
    BY <2>1, <2>2, Zenon
<1> HIDE DEF I
<1>2. \A b \in 1..Len(blocks) : \A v \in Vertices :
         v \in Heads(blocks[b]) <=> Len(blocks[b][v]) > 0
  BY ListFacts, Zenon
<1>3. \A b : \A v \in Heads(blocks[b]) : v \in Vertices
  BY Zenon DEF Heads
<1>4. \A b, v : Len(blocks[b][v]) > 0 => IsIntervalOf(I(b, v), b, v)
  <2> SUFFICES ASSUME NEW b, NEW v, Len(blocks[b][v]) > 0
               PROVE  IsIntervalOf(I(b, v), b, v)
    BY Zenon
  <2>1. /\ I(b, v).block = b
        /\ I(b, v).vertex = v
        /\ I(b, v).start = blocks[b][v][1]
        /\ I(b, v).end = blocks[b][v][Len(blocks[b][v])]
    BY <1>0, Zenon DEF Oldest, Newest
  <2> QED
    BY <2>1, Zenon DEF IsIntervalOf
<1>5. ASSUME NEW i \in iqIndex
      PROVE  \E b \in 1..Len(blocks) : \E v \in Vertices :
                IsIntervalOf(i, b, v)
  <2>1. PICK b \in 1..Len(blocks) : \E v \in Heads(blocks[b]) : i = I(b, v)
    BY <1>1, Zenon
  <2>2. PICK v \in Heads(blocks[b]) : i = I(b, v)
    BY <2>1
  <2>3. v \in Vertices /\ Len(blocks[b][v]) > 0
    BY <1>2, <1>3, Zenon
  <2> QED
    BY <2>2, <2>3, <1>4, Zenon
<1>6. ASSUME NEW b \in 1..Len(blocks), NEW v \in Vertices,
             Len(blocks[b][v]) > 0
      PROVE  \E i \in iqIndex : IsIntervalOf(i, b, v)
  <2>1. I(b, v) \in iqIndex
    BY <1>1, <1>2, <1>6, Zenon
  <2> QED
    BY <2>1, <1>4, <1>6, Zenon
<1> QED
  BY <1>5, <1>6, Zenon

\* The times of a list lie between its ends.
LEMMA ListEnds ==
    ASSUME BlocksOrdered, NEW b \in 1..Len(blocks), NEW v \in Vertices,
           NEW j \in 1..Len(blocks[b][v])
    PROVE  /\ Len(blocks[b][v]) > 0
           /\ 1 \in 1..Len(blocks[b][v])
           /\ Len(blocks[b][v]) \in 1..Len(blocks[b][v])
           /\ blocks[b][v][j] \in Nat
           /\ blocks[b][v][1] \in Nat
           /\ blocks[b][v][Len(blocks[b][v])] \in Nat
           /\ blocks[b][v][1] <= blocks[b][v][j]
           /\ blocks[b][v][j] <= blocks[b][v][Len(blocks[b][v])]
<1> DEFINE list == blocks[b][v]
<1>1. /\ Len(list) \in Nat
      /\ \A k \in 1..Len(list) : list[k] \in Times
      /\ \A k, m \in 1..Len(list) : k < m => list[k] < list[m]
  BY ListFacts, Zenon
<1> HIDE DEF list
<1>2. j \in 1..Len(list)
  BY DEF list
<1>3. Len(list) > 0 /\ 1 \in 1..Len(list) /\ Len(list) \in 1..Len(list)
  BY <1>1, <1>2
<1>4. \A k \in 1..Len(list) : list[k] \in Nat
  BY <1>1 DEF Times
<1>5. j = 1 \/ 1 < j
  BY <1>1, <1>2
<1>6. j = Len(list) \/ j < Len(list)
  BY <1>1, <1>2
<1>7. j = 1 \/ list[1] < list[j]
  BY <1>1, <1>2, <1>3, <1>5
<1>8. j = Len(list) \/ list[j] < list[Len(list)]
  BY <1>1, <1>2, <1>3, <1>6
<1>9. list[j] \in Nat /\ list[1] \in Nat /\ list[Len(list)] \in Nat
  BY <1>2, <1>3, <1>4
<1>10. list[1] <= list[j] /\ list[j] <= list[Len(list)]
  BY <1>7, <1>8, <1>9
<1> QED
  BY <1>3, <1>9, <1>10 DEF list

\* A vertex is wanted if one of its lists has an edge in the range.
LEMMA WantedVerticesAre ==
    ASSUME BlocksOrdered, NEW v \in Vertices, NEW start, NEW end
    PROVE  v \in WantedVertices(start, end)
              <=> \E b \in 1..Len(blocks) : \E j \in 1..Len(blocks[b][v]) :
                     InRange(blocks[b][v][j], start, end)
<1>1. \A b \in 1..Len(blocks) : \A j \in 1..Len(blocks[b][v]) :
         blocks[b][v][j] \in Times
  BY ListFacts, Zenon
<1>2. \A t : t \in StoredTimes(v)
              <=> t \in Times /\ \E i \in 1..Len(blocks) : Stored(i, v, t)
  BY StoredTimesAre, Zenon
<1> QED
  BY <1>1, <1>2, Zenon DEF WantedVertices, Stored

\* findNext stops at an interval only if the vertex is wanted.
LEMMA AcceptedIsWanted ==
    ASSUME BlocksOrdered, IntervalsIndexed, NEW i \in iqIndex,
           NEW start \in Nat, NEW end \in Nat, start < end,
           Accepted(i, start, end)
    PROVE  i.vertex \in WantedVertices(start, end)
<1>1. PICK b \in 1..Len(blocks) : \E v \in Vertices : IsIntervalOf(i, b, v)
  BY IntervalFacts, Zenon
<1>2. PICK v \in Vertices : IsIntervalOf(i, b, v)
  BY <1>1
<1> DEFINE list == blocks[b][v]
<1>3. /\ i.vertex = v /\ i.block = b /\ Len(list) > 0
      /\ i.start = list[1] /\ i.end = list[Len(list)]
  BY <1>2, Zenon DEF IsIntervalOf
<1>4. Len(list) \in Nat /\ DOMAIN list = 1..Len(list)
  BY ListFacts, Zenon
<1>5. 1 \in 1..Len(list) /\ Len(list) \in 1..Len(list)
  BY <1>3, <1>4
<1>6. list[1] \in Nat /\ list[Len(list)] \in Nat
  BY <1>5, ListEnds, Zenon
<1>7. SUFFICES \E j \in 1..Len(list) : InRange(list[j], start, end)
  BY <1>3, WantedVerticesAre, Zenon
<1>8. ~(list[Len(list)] < start) /\ ~(list[1] >= end)
  BY <1>3, Zenon DEF Accepted
<1>9. start > list[1] /\ end <= list[Len(list)]
        => HasEdgesInRange(list, start, end)
  BY <1>3, Zenon DEF Accepted
<1> HIDE DEF list
<1>10. CASE ~(start > list[1])
  BY <1>5, <1>6, <1>8, <1>10 DEF InRange
<1>11. CASE ~(end <= list[Len(list)])
  BY <1>5, <1>6, <1>8, <1>11 DEF InRange
<1>12. CASE HasEdgesInRange(list, start, end)
  BY <1>4, <1>12, Zenon DEF HasEdgesInRange
<1> QED
  BY <1>9, <1>10, <1>11, <1>12

\* A wanted vertex has an interval that intersects the range and is not
\* passed over.
LEMMA WantedIsAccepted ==
    ASSUME BlocksOrdered, IntervalsIndexed,
           NEW start \in Nat, NEW end \in Nat, start < end,
           NEW v \in WantedVertices(start, end)
    PROVE  \E i \in Intersecting(start, end) :
              i.vertex = v /\ Accepted(i, start, end)
<1>1. v \in Vertices
  BY Zenon DEF WantedVertices
<1>2. PICK b \in 1..Len(blocks) : \E j \in 1..Len(blocks[b][v]) :
         InRange(blocks[b][v][j], start, end)
  BY <1>1, WantedVerticesAre, Zenon
<1> DEFINE list == blocks[b][v]
<1>3. PICK j \in 1..Len(list) : InRange(list[j], start, end)
  BY <1>2
<1>4. /\ Len(list) > 0 /\ list[j] \in Nat
      /\ list[1] \in Nat /\ list[Len(list)] \in Nat
      /\ list[1] <= list[j] /\ list[j] <= list[Len(list)]
  BY <1>1, ListEnds, Zenon
<1>5. DOMAIN list = 1..Len(list)
  BY <1>1, ListFacts, Zenon
<1>6. PICK i \in iqIndex : IsIntervalOf(i, b, v)
  BY <1>1, <1>4, IntervalFacts, Zenon
<1>7. /\ i.vertex = v /\ i.block = b
      /\ i.start = list[1] /\ i.end = list[Len(list)]
  BY <1>6, Zenon DEF IsIntervalOf
<1>8. HasEdgesInRange(list, start, end)
  BY <1>3, <1>5, Zenon DEF HasEdgesInRange
<1> HIDE DEF list
<1>9. /\ list[1] <= end /\ list[Len(list)] >= start
      /\ ~(list[Len(list)] < start \/ list[1] >= end)
  BY <1>3, <1>4 DEF InRange
<1>10. i \in Intersecting(start, end)
  BY <1>7, <1>9, Zenon DEF Intersecting
<1>11. Accepted(i, start, end)
  BY <1>7, <1>8, <1>9, Zenon DEF Accepted, list
<1> QED
  BY <1>7, <1>10, <1>11, Zenon

\* The iterator goes on to a wanted vertex, or has returned all of them.
LEMMA IteratorAdvances ==
    ASSUME BlocksOrdered, IntervalsIndexed,
           NEW it, VertexItOk(it), it.valid = TRUE, Advance(it)
    PROVE  IF vertexIt'.valid THEN VertexItOk(vertexIt')
           ELSE vertexIt'.vertices = vertexIt'.expected
<1>1. /\ it = [start |-> it.start, end |-> it.end, valid |-> it.valid,
               todo |-> it.todo, vertices |-> it.vertices,
               expected |-> it.expected]
      /\ <<it.start, it.end>> \in Ranges
      /\ it.todo \subseteq iqIndex
      /\ it.expected = WantedVertices(it.start, it.end)
      /\ it.vertices \subseteq it.expected
      /\ \A v \in it.expected \ it.vertices :
            \E i \in it.todo : i.vertex = v /\ Accepted(i, it.start, it.end)
  BY Zenon DEF VertexItOk
<1>2. CASE Candidates(it) = {}
  <2> DEFINE no == FALSE
             new == [it EXCEPT !.valid = no]
  <2>1. vertexIt' = new
    BY <1>2, Zenon DEF Advance
  <2> HIDE DEF no
  <2>2. new = [start |-> it.start, end |-> it.end, valid |-> no,
               todo |-> it.todo, vertices |-> it.vertices,
               expected |-> it.expected]
    BY <1>1
  <2> HIDE DEF new
  <2>3. /\ new.valid = FALSE /\ new.vertices = it.vertices
        /\ new.expected = it.expected
    BY <2>2 DEF no
  <2>4. it.vertices = it.expected
    <3>1. \A v \in it.expected : v \in it.vertices
      BY <1>1, <1>2, Zenon DEF Candidates
    <3> QED
      BY <3>1, <1>1, Zenon
  <2> QED
    BY <2>1, <2>3, <2>4
<1>3. CASE Candidates(it) # {}
  <2>1. PICK i \in Candidates(it) : vertexIt' = MoveTo(it, i)
    BY <1>3, Zenon DEF Advance
  <2> DEFINE todo == it.todo \ {i}
             vertices == it.vertices \cup {i.vertex}
             new == [start |-> it.start, end |-> it.end, valid |-> it.valid,
                     todo |-> todo, vertices |-> vertices,
                     expected |-> it.expected]
  <2>2. MoveTo(it, i) = new
    <3> DEFINE mid == [it EXCEPT !.todo = todo]
    <3> HIDE DEF todo, vertices
    <3>1. mid = [start |-> it.start, end |-> it.end, valid |-> it.valid,
                 todo |-> todo, vertices |-> it.vertices,
                 expected |-> it.expected]
      BY <1>1
    <3>2. MoveTo(it, i) = [mid EXCEPT !.vertices = vertices]
      BY Zenon DEF MoveTo, todo, vertices
    <3> HIDE DEF mid
    <3> QED
      BY <3>1, <3>2
  <2> HIDE DEF todo, vertices
  <2>3. /\ new.start = it.start /\ new.end = it.end /\ new.valid = it.valid
        /\ new.todo = todo /\ new.vertices = vertices
        /\ new.expected = it.expected
    OBVIOUS
  <2>4. new = [start |-> new.start, end |-> new.end, valid |-> new.valid,
               todo |-> new.todo, vertices |-> new.vertices,
               expected |-> new.expected]
    OBVIOUS
  <2> HIDE DEF new
  <2>5. i \in it.todo /\ Accepted(i, it.start, it.end)
    BY Zenon DEF Candidates
  <2>6. it.start \in Nat /\ it.end \in Nat /\ it.start < it.end
    BY <1>1 DEF Ranges, Times
  <2>7. i.vertex \in it.expected
    <3>1. i \in iqIndex
      BY <1>1, <2>5, Zenon
    <3>2. i.vertex \in WantedVertices(it.start, it.end)
      BY <3>1, <2>5, <2>6, AcceptedIsWanted
    <3> QED
      BY <3>2, <1>1, Zenon
  <2>8. todo \subseteq iqIndex /\ vertices \subseteq it.expected
    BY <1>1, <2>7, Zenon DEF todo, vertices
  <2>9. ASSUME NEW v \in it.expected \ vertices
        PROVE  \E k \in todo : k.vertex = v /\ Accepted(k, it.start, it.end)
    <3>1. v \in it.expected \ it.vertices /\ v # i.vertex
      BY Zenon DEF vertices
    <3>2. PICK k \in it.todo : k.vertex = v /\ Accepted(k, it.start, it.end)
      BY <1>1, <3>1, Zenon
    <3> QED
      BY <3>1, <3>2, Zenon DEF todo
  <2>10. VertexItOk(new)
    BY <1>1, <2>3, <2>4, <2>8, <2>9, Zenon DEF VertexItOk
  <2>11. vertexIt' = new /\ new.valid = TRUE
    BY <2>1, <2>2, <2>3, Zenon
  <2> QED
    BY <2>10, <2>11, Zenon
<1> QED
  BY <1>2, <1>3

\* Opening it leaves an interval for every wanted vertex.
LEMMA VertexIteratorIsOpened ==
    ASSUME BlocksOrdered, IntervalsIndexed, NEW r \in Ranges
    PROVE  VertexItOk([start |-> r[1], end |-> r[2], valid |-> TRUE,
                       todo |-> Intersecting(r[1], r[2]), vertices |-> {},
                       expected |-> {v \in Vertices : \E t \in StoredTimes(v) :
                                        InRange(t, r[1], r[2])}])
<1> DEFINE todo == Intersecting(r[1], r[2])
           wanted == {v \in Vertices : \E t \in StoredTimes(v) :
                         InRange(t, r[1], r[2])}
           it == [start |-> r[1], end |-> r[2], valid |-> TRUE,
                  todo |-> todo, vertices |-> {}, expected |-> wanted]
<1> HIDE DEF todo, wanted
<1>1. /\ it.start = r[1] /\ it.end = r[2] /\ it.valid = TRUE
      /\ it.todo = todo /\ it.vertices = {} /\ it.expected = wanted
  OBVIOUS
<1>2. it = [start |-> it.start, end |-> it.end, valid |-> it.valid,
            todo |-> it.todo, vertices |-> it.vertices,
            expected |-> it.expected]
  OBVIOUS
<1> HIDE DEF it
<1>3. /\ r = <<r[1], r[2]>>
      /\ r[1] \in Nat /\ r[2] \in Nat /\ r[1] < r[2]
  BY DEF Ranges, Times
<1>4. <<it.start, it.end>> \in Ranges
  BY <1>1, <1>3, Zenon
<1>5. it.todo \subseteq iqIndex
  BY <1>1, Zenon DEF todo, Intersecting
<1>6. wanted = WantedVertices(r[1], r[2])
  BY Zenon DEF wanted, WantedVertices
<1>7. ASSUME NEW v \in it.expected
      PROVE  \E i \in it.todo : i.vertex = v /\ Accepted(i, it.start, it.end)
  <2>1. v \in WantedVertices(r[1], r[2])
    BY <1>1, <1>6, Zenon
  <2>2. \E i \in Intersecting(r[1], r[2]) :
           i.vertex = v /\ Accepted(i, r[1], r[2])
    BY <2>1, <1>3, WantedIsAccepted, Zenon
  <2> QED
    BY <2>2, <1>1, Zenon DEF todo
<1>8. VertexItOk(it)
  BY <1>1, <1>2, <1>4, <1>5, <1>6, <1>7, Zenon DEF VertexItOk
<1> QED
  BY <1>8, Zenon DEF it, todo, wanted

\* The batch query finds every wanted vertex, and another one only next to
\* or around the range.
LEMMA BatchIsCovering ==
    ASSUME BlocksOrdered, IntervalsIndexed
    PROVE  BatchCovers
<1> SUFFICES ASSUME NEW r \in Ranges, NEW v \in Vertices
             PROVE  LET times == StoredTimes(v)
                        found == v \in QueryBatch(r[1], r[2])
                    IN  /\ (\E t \in times : InRange(t, r[1], r[2])) => found
                        /\ found =>
                             \/ \E t \in times : InRange(t, r[1], r[2] + 1)
                             \/ (\E t \in times : t < r[1])
                                   /\ \E t \in times : t >= r[2]
  BY Zenon DEF BatchCovers
<1> DEFINE times == StoredTimes(v)
           start == r[1]
           end == r[2]
<1>1. start \in Nat /\ end \in Nat /\ start < end
  BY DEF Ranges, Times
<1> HIDE DEF times, start, end
<1>2. ASSUME \E t \in times : InRange(t, start, end)
      PROVE  v \in QueryBatch(start, end)
  <2>1. v \in WantedVertices(start, end)
    BY <1>2, Zenon DEF WantedVertices, times
  <2> QED
    <3>1. PICK i \in Intersecting(start, end) : i.vertex = v
      BY <2>1, <1>1, WantedIsAccepted
    <3> QED
      BY <3>1, Zenon DEF QueryBatch
<1>3. ASSUME v \in QueryBatch(start, end)
      PROVE  \/ \E t \in times : InRange(t, start, end + 1)
             \/ (\E t \in times : t < start) /\ \E t \in times : t >= end
  <2>1. PICK i \in iqIndex : i.vertex = v /\ i.start <= end /\ i.end >= start
    BY <1>3, Zenon DEF QueryBatch, Intersecting
  <2>2. PICK b \in 1..Len(blocks) : \E w \in Vertices : IsIntervalOf(i, b, w)
    BY IntervalFacts, Zenon
  <2> DEFINE list == blocks[b][v]
  <2>3. /\ Len(list) > 0
        /\ i.start = list[1] /\ i.end = list[Len(list)]
    BY <2>1, <2>2, Zenon DEF IsIntervalOf
  <2>4. /\ Len(list) \in Nat
        /\ \A j \in 1..Len(list) : list[j] \in Times
    BY ListFacts, Zenon
  <2>5. 1 \in 1..Len(list) /\ Len(list) \in 1..Len(list)
    BY <2>3, <2>4
  <2>6. list[1] \in times /\ list[Len(list)] \in times
    <3>1. \A j \in 1..Len(list) : list[j] \in times
      BY <2>4, StoredTimesAre, Zenon DEF Stored, times
    <3> QED
      BY <3>1, <2>5, Zenon
  <2>7. list[1] \in Nat /\ list[Len(list)] \in Nat
    BY <2>4, <2>5 DEF Times
  <2> HIDE DEF list
  <2>8. list[1] <= end /\ list[Len(list)] >= start
    BY <2>1, <2>3, Zenon
  <2>9. CASE list[1] >= start
    <3>1. InRange(list[1], start, end + 1)
      BY <2>7, <2>8, <2>9, <1>1 DEF InRange
    <3> QED
      BY <3>1, <2>6, Zenon
  <2>10. CASE list[Len(list)] <= end
    <3>1. InRange(list[Len(list)], start, end + 1)
      BY <2>7, <2>8, <2>10, <1>1 DEF InRange
    <3> QED
      BY <3>1, <2>6, Zenon
  <2>11. CASE ~(list[1] >= start) /\ ~(list[Len(list)] <= end)
    <3>1. list[1] < start /\ list[Len(list)] >= end
      BY <2>7, <2>11, <1>1
    <3> QED
      BY <3>1, <2>6, Zenon
  <2> QED
    BY <2>9, <2>10, <2>11
<1> QED
  BY <1>2, <1>3, Zenon DEF times, start, end

-----------------------------------------------------------------------------
(* The invariant is inductive *)

\* addBlock appends a block.
LEMMA BlockIsAppended ==
    ASSUME BlocksOrdered, NEW block \in BlockLists, AddBlock(block)
    PROVE  /\ Len(blocks) \in Nat
           /\ Len(blocks') = Len(blocks) + 1
           /\ \A i \in 1..Len(blocks) : blocks'[i] = blocks[i]
           /\ blocks'[Len(blocks) + 1] = block
           /\ blocks' \in Seq([Vertices -> Seq(Times)])
<1>1. block \in [Vertices -> Seq(Times)]
  BY BlockListsOrdered
<1>2. blocks \in Seq([Vertices -> Seq(Times)])
  BY DEF BlocksOrdered
<1>3. blocks' = Append(blocks, block)
  BY DEF AddBlock
<1> QED
  BY <1>1, <1>2, <1>3

\* The new block is in order and newer than the others, vertex by vertex.
LEMMA OrderIsKept ==
    ASSUME BlocksOrdered, NEW block \in BlockLists, AddBlock(block)
    PROVE  BlocksOrdered'
<1> DEFINE n == Len(blocks)
<1>0. /\ n \in Nat
      /\ Len(blocks') = n + 1
      /\ \A i \in 1..n : blocks'[i] = blocks[i]
      /\ blocks'[n + 1] = block
      /\ blocks' \in Seq([Vertices -> Seq(Times)])
  BY BlockIsAppended
<1>1. /\ block \in [Vertices -> Seq(Times)]
      /\ \A v \in Vertices : Increasing(block[v])
  BY BlockListsOrdered
<1>2. /\ \A i \in 1..n, v \in Vertices : Increasing(blocks[i][v])
      /\ \A i, k \in 1..n, v \in Vertices : i < k =>
            \A j \in 1..Len(blocks[i][v]), m \in 1..Len(blocks[k][v]) :
               blocks[i][v][j] < blocks[k][v][m]
  BY Zenon DEF BlocksOrdered
<1>3. \A v \in Heads(block) : \A t \in StoredTimes(v) : t < Oldest(block[v])
  BY Zenon DEF AddBlock
<1>4. ASSUME NEW i \in 1..n, NEW v \in Vertices,
             NEW j \in 1..Len(blocks[i][v]), NEW m \in 1..Len(block[v])
      PROVE  blocks[i][v][j] < block[v][m]
  <2>1. blocks[i][v][j] \in StoredTimes(v) /\ blocks[i][v][j] \in Nat
    <3>1. blocks[i][v][j] \in Times
      BY ListFacts, Zenon
    <3>2. blocks[i][v][j] \in StoredTimes(v)
      BY <3>1, StoredTimesAre, Zenon DEF Stored
    <3> QED
      BY <3>1, <3>2 DEF Times
  <2> DEFINE list == block[v]
  <2>2. list \in Seq(Times) /\ Increasing(list)
    BY <1>1
  <2>3. m \in 1..Len(list)
    OBVIOUS
  <2>4. list # <<>>
    BY <2>2, <2>3
  <2>5. v \in Heads(block)
    BY <2>4 DEF Heads
  <2> HIDE DEF list
  <2>6. /\ 1 \in 1..Len(list) /\ Len(list) \in Nat
        /\ list[1] \in Nat /\ list[m] \in Nat
    <3>1. 1 \in 1..Len(list) /\ Len(list) \in Nat
      BY <2>2, <2>3
    <3>2. list[1] \in Times /\ list[m] \in Times
      BY <2>2, <2>3, <3>1
    <3> QED
      BY <3>1, <3>2 DEF Times
  <2>7. list[1] <= list[m]
    BY <2>2, <2>3, <2>6 DEF Increasing
  <2>8. blocks[i][v][j] < list[1]
    BY <1>3, <2>1, <2>5, Zenon DEF Oldest, list
  <2>9. blocks[i][v][j] < list[m]
    BY <2>1, <2>6, <2>7, <2>8
  <2> QED
    BY <2>9 DEF list
<1>5. \A i \in 1 .. n + 1 : i \in 1..n \/ i = n + 1
  BY <1>0
<1>6. \A i \in 1 .. n + 1, v \in Vertices : Increasing(blocks'[i][v])
  BY <1>0, <1>1, <1>2, <1>5, Zenon
<1>7. ASSUME NEW i \in 1 .. n + 1, NEW k \in 1 .. n + 1, NEW v \in Vertices,
             i < k,
             NEW j \in 1..Len(blocks'[i][v]), NEW m \in 1..Len(blocks'[k][v])
      PROVE  blocks'[i][v][j] < blocks'[k][v][m]
  <2>1. i \in 1..n
    BY <1>0, <1>7
  <2>2. blocks'[i] = blocks[i]
    BY <1>0, <2>1, Zenon
  <2>3. CASE k = n + 1
    <3>1. blocks'[k] = block
      BY <1>0, <2>3, Zenon
    <3> QED
      BY <1>4, <2>1, <2>2, <3>1, Zenon
  <2>4. CASE k \in 1..n
    <3>1. blocks'[k] = blocks[k]
      BY <1>0, <2>4, Zenon
    <3> QED
      BY <1>2, <1>7, <2>1, <2>2, <2>4, <3>1, Zenon
  <2> QED
    BY <1>5, <2>3, <2>4, Zenon
<1> HIDE DEF n
<1> QED
  BY <1>0, <1>6, <1>7, Zenon DEF BlocksOrdered

\* The block's lists enter both indexes.
LEMMA IndexesAreKept ==
    ASSUME BlocksOrdered, IntervalsIndexed, IndexOf(fiqIndex, Len(blocks)),
           NEW block \in BlockLists, AddBlock(block)
    PROVE  IntervalsIndexed' /\ IndexOf(fiqIndex, Len(blocks))'
<1> DEFINE n == Len(blocks)
<1>0. /\ n \in Nat
      /\ Len(blocks') = n + 1
      /\ \A i \in 1..n : blocks'[i] = blocks[i]
      /\ blocks'[n + 1] = block
  BY BlockIsAppended
<1>1. /\ iqIndex' = iqIndex \cup Intervals(n + 1, block)
      /\ fiqIndex' = FocusedEntries(fiqIndex, n + 1, block)
  BY Zenon DEF AddBlock
<1>2. /\ \A i \in 1 .. n + 1 : i \in 1..n \/ i = n + 1
      /\ \A i \in 1..n : i \in 1 .. n + 1
      /\ n + 1 \in 1 .. n + 1
  BY <1>0
<1>3. IntervalsIndexed'
  <2>1. \A x : x \in iqIndex
               <=> \E i \in 1..n : x \in Intervals(i, blocks[i])
    BY Zenon DEF IntervalsIndexed
  <2>2. \A x : x \in iqIndex'
               <=> \E i \in 1 .. n + 1 : x \in Intervals(i, blocks'[i])
    BY <2>1, <1>0, <1>1, <1>2, Zenon
  <2>3. iqIndex' = UNION {Intervals(i, blocks'[i]) : i \in 1 .. n + 1}
    BY <2>2, Zenon
  <2> QED
    BY <2>3, <1>0, Zenon DEF IntervalsIndexed
<1> DEFINE keys == FocusedKeys(block)
           At(key, i, v) == /\ key = <<v, Newest(blocks'[i][v])>>
                            /\ fiqIndex'[key] =
                                 [block |-> i, start |-> Oldest(blocks'[i][v])]
<1>4. /\ DOMAIN fiqIndex' = DOMAIN fiqIndex \cup keys
      /\ \A key \in DOMAIN fiqIndex' :
            fiqIndex'[key] =
               IF key \in keys
               THEN [block |-> n + 1, start |-> Oldest(block[key[1]])]
               ELSE fiqIndex[key]
  BY <1>1, Zenon DEF FocusedEntries
<1>5. ASSUME NEW key \in DOMAIN fiqIndex'
      PROVE  \E i \in 1 .. n + 1 : \E v \in Heads(blocks'[i]) : At(key, i, v)
  <2>1. CASE key \in keys
    <3>1. PICK v \in Heads(block) : key = <<v, Newest(block[v])>>
      BY <2>1, Zenon DEF FocusedKeys
    <3>2. key[1] = v
      BY <3>1
    <3>3. fiqIndex'[key] = [block |-> n + 1, start |-> Oldest(block[v])]
      BY <1>4, <2>1, <3>2, Zenon
    <3>4. At(key, n + 1, v)
      BY <3>1, <3>3, <1>0, Zenon
    <3>5. v \in Heads(blocks'[n + 1])
      BY <1>0, Zenon
    <3> HIDE DEF At
    <3> QED
      BY <3>4, <3>5, <1>2, Zenon
  <2>2. CASE key \notin keys
    <3>1. key \in DOMAIN fiqIndex /\ fiqIndex'[key] = fiqIndex[key]
      BY <1>4, <2>2, Zenon
    <3>2. PICK i \in 1..n : \E v \in Heads(blocks[i]) :
             /\ key = <<v, Newest(blocks[i][v])>>
             /\ fiqIndex[key] = [block |-> i, start |-> Oldest(blocks[i][v])]
      BY <3>1, Zenon DEF IndexOf
    <3>3. blocks'[i] = blocks[i] /\ i \in 1 .. n + 1
      BY <1>0, <1>2, Zenon
    <3>4. \E v \in Heads(blocks'[i]) : At(key, i, v)
      BY <3>1, <3>2, <3>3, Zenon
    <3> HIDE DEF At
    <3> QED
      BY <3>3, <3>4, Zenon
  <2> QED
    BY <2>1, <2>2
<1>6. ASSUME NEW i \in 1 .. n + 1, NEW v \in Heads(blocks'[i])
      PROVE  <<v, Newest(blocks'[i][v])>> \in DOMAIN fiqIndex'
  <2>1. CASE i \in 1..n
    <3>1. blocks'[i] = blocks[i]
      BY <1>0, <2>1, Zenon
    <3>2. v \in Heads(blocks[i])
      BY <3>1, Zenon
    <3>3. <<v, Newest(blocks[i][v])>> \in DOMAIN fiqIndex
      BY <2>1, <3>2, Zenon DEF IndexOf
    <3> QED
      BY <1>4, <3>1, <3>3, Zenon
  <2>2. CASE i = n + 1
    <3>1. blocks'[i] = block
      BY <1>0, <2>2, Zenon
    <3>2. <<v, Newest(block[v])>> \in keys
      BY <3>1, Zenon DEF FocusedKeys
    <3> QED
      BY <1>4, <3>1, <3>2, Zenon
  <2> QED
    BY <1>2, <2>1, <2>2, Zenon
<1> HIDE DEF n
<1>7. IndexOf(fiqIndex, Len(blocks))'
  <2>1. IndexOf(fiqIndex, Len(blocks))' <=>
          /\ \A key \in DOMAIN fiqIndex' : \E i \in 1..Len(blocks') :
                \E v \in Heads(blocks'[i]) : At(key, i, v)
          /\ \A i \in 1..Len(blocks') : \A v \in Heads(blocks'[i]) :
                <<v, Newest(blocks'[i][v])>> \in DOMAIN fiqIndex'
    BY DEF IndexOf
  <2> HIDE DEF At
  <2> QED
    BY <1>0, <1>5, <1>6, <2>1, Zenon
<1> QED
  BY <1>3, <1>7

\* The part of the invariant that only reads blocks and indexes
LEMMA StoreIsKept ==
    ASSUME BlocksOrdered, IntervalsIndexed, IndexOf(fiqIndex, Len(blocks)),
           UNCHANGED <<blocks, iqIndex, fiqIndex>>
    PROVE  /\ BlocksOrdered' /\ IntervalsIndexed'
           /\ IndexOf(fiqIndex, Len(blocks))'
<1>1. blocks' = blocks /\ iqIndex' = iqIndex /\ fiqIndex' = fiqIndex
  OBVIOUS
<1>2. BlocksOrdered'
  BY <1>1, Zenon DEF BlocksOrdered
<1>3. IntervalsIndexed'
  BY <1>1, Zenon DEF IntervalsIndexed
<1>4. IndexOf(fiqIndex, Len(blocks))'
  BY <1>1 DEF IndexOf
<1> QED
  BY <1>2, <1>3, <1>4

\* The iterator's invariant carries over to a step that leaves it and the
\* blocks it was opened over alone.
LEMMA EdgeItIsKept ==
    ASSUME BlocksOrdered, Len(blocks') \in Nat, Len(blocks) <= Len(blocks'),
           \A i \in 1..Len(blocks) : blocks'[i] = blocks[i],
           edgeIt' # <<>> =>
              \E n \in 0..Len(blocks) :
                 EdgeItShape(edgeIt', n) /\ HasRead(edgeIt', n)
    PROVE  EdgeItInv'
<1> SUFFICES ASSUME edgeIt' # <<>>
             PROVE  \E n \in 0..Len(blocks') :
                       EdgeItShape(edgeIt, n)' /\ HasRead(edgeIt, n)'
  BY Zenon DEF EdgeItInv
<1>1. PICK it : it = edgeIt'
  OBVIOUS
<1>2. PICK n \in 0..Len(blocks) : EdgeItShape(it, n) /\ HasRead(it, n)
  BY <1>1
<1>3. Len(blocks) \in Nat
  BY DEF BlocksOrdered
<1>4. /\ \A i \in 1..n : blocks'[i] = blocks[i]
      /\ n \in 0..Len(blocks')
  <2>1. \A i \in 1..n : i \in 1..Len(blocks)
    BY <1>3
  <2>2. n \in 0..Len(blocks')
    BY <1>3
  <2> QED
    BY <2>1, <2>2, Zenon
<1>5. EdgeItShape(it, n)' /\ HasRead(it, n)'
  BY <1>2, <1>4, OpenIteratorIsStable
<1>6. EdgeItShape(edgeIt, n)' /\ HasRead(edgeIt, n)'
  BY <1>1, <1>5
<1> QED
  BY <1>4, <1>6

\* A step that changes neither the store nor the edge iterator.
LEMMA EdgeItStays ==
    ASSUME BlocksOrdered, EdgeItInv, UNCHANGED <<blocks, edgeIt>>
    PROVE  EdgeItInv'
<1>1. /\ Len(blocks') \in Nat /\ Len(blocks) <= Len(blocks')
      /\ \A i \in 1..Len(blocks) : blocks'[i] = blocks[i]
  BY DEF BlocksOrdered
<1>2. edgeIt' # <<>> =>
         \E n \in 0..Len(blocks) :
            EdgeItShape(edgeIt', n) /\ HasRead(edgeIt', n)
  BY DEF EdgeItInv
<1> QED
  BY <1>1, <1>2, EdgeItIsKept

\* The same for the vertex iterator.
LEMMA VertexItIsKept ==
    ASSUME UNCHANGED <<blocks, iqIndex>>,
           vertexIt' # <<>> =>
              IF vertexIt'.valid THEN VertexItOk(vertexIt')
              ELSE vertexIt'.vertices = vertexIt'.expected
    PROVE  VertexItInv'
<1> SUFFICES ASSUME vertexIt' # <<>>
             PROVE  IF vertexIt'.valid THEN VertexItOk(vertexIt)'
                    ELSE vertexIt'.vertices = vertexIt'.expected
  BY Zenon DEF VertexItInv
<1>1. PICK it : it = vertexIt'
  OBVIOUS
<1>2. blocks' = blocks /\ iqIndex' = iqIndex
  OBVIOUS
<1>3. \A v : StoredTimes(v)' = StoredTimes(v)
  BY <1>2, Zenon DEF StoredTimes
<1>4. WantedVertices(it.start, it.end)' = WantedVertices(it.start, it.end)
  BY <1>3, Zenon DEF WantedVertices
<1>5. \A i : Accepted(i, it.start, it.end)' <=> Accepted(i, it.start, it.end)
  BY <1>2, Zenon DEF Accepted
<1>6. VertexItOk(it) => VertexItOk(it)'
  BY <1>2, <1>4, <1>5, Zenon DEF VertexItOk
<1> QED
  BY <1>1, <1>6

\* addBlock keeps the invariant: an open edge iterator does not see the block.
LEMMA AddBlockStep ==
    ASSUME IndInv, NEW block \in BlockLists, AddBlock(block)
    PROVE  IndInv'
<1>1. /\ BlocksOrdered /\ IntervalsIndexed
      /\ IndexOf(fiqIndex, Len(blocks)) /\ EdgeItInv /\ VertexItInv
  BY Zenon DEF IndInv
<1>2. edgeIt' = edgeIt /\ vertexIt' = vertexIt /\ ~IndexLocked
  BY DEF AddBlock
<1>3. /\ Len(blocks) \in Nat
      /\ Len(blocks') = Len(blocks) + 1
      /\ \A i \in 1..Len(blocks) : blocks'[i] = blocks[i]
  BY <1>1, BlockIsAppended
<1>4. Len(blocks') \in Nat /\ Len(blocks) <= Len(blocks')
  BY <1>3
<1>5. EdgeItInv'
  <2>1. edgeIt' # <<>> =>
           \E n \in 0..Len(blocks) :
              EdgeItShape(edgeIt', n) /\ HasRead(edgeIt', n)
    BY <1>1, <1>2 DEF EdgeItInv
  <2> QED
    BY <2>1, <1>1, <1>3, <1>4, EdgeItIsKept
<1>6. VertexItInv'
  BY <1>1, <1>2, Zenon DEF VertexItInv, IndexLocked
<1>7. BlocksOrdered'
  BY <1>1, OrderIsKept
<1>8. IntervalsIndexed' /\ IndexOf(fiqIndex, Len(blocks))'
  BY <1>1, IndexesAreKept
<1> QED
  BY <1>5, <1>6, <1>7, <1>8 DEF IndInv

\* What an edge iterator does keeps the rest of the invariant.
LEMMA EdgeIteratorStep ==
    ASSUME IndInv, UNCHANGED <<blocks, iqIndex, fiqIndex, vertexIt>>,
           edgeIt' # <<>> =>
              \E n \in 0..Len(blocks) :
                 EdgeItShape(edgeIt', n) /\ HasRead(edgeIt', n)
    PROVE  IndInv'
<1>1. /\ BlocksOrdered /\ IntervalsIndexed
      /\ IndexOf(fiqIndex, Len(blocks)) /\ VertexItInv
  BY Zenon DEF IndInv
<1>2. /\ BlocksOrdered' /\ IntervalsIndexed'
      /\ IndexOf(fiqIndex, Len(blocks))'
  BY <1>1, StoreIsKept
<1>3. /\ Len(blocks') \in Nat /\ Len(blocks) <= Len(blocks')
      /\ \A i \in 1..Len(blocks) : blocks'[i] = blocks[i]
  BY <1>1 DEF BlocksOrdered
<1>4. EdgeItInv'
  BY <1>1, <1>3, EdgeItIsKept
<1>5. VertexItInv'
  <2>1. vertexIt' # <<>> =>
           IF vertexIt'.valid THEN VertexItOk(vertexIt')
           ELSE vertexIt'.vertices = vertexIt'.expected
    BY <1>1 DEF VertexItInv
  <2> QED
    BY <2>1, VertexItIsKept
<1> QED
  BY <1>2, <1>4, <1>5 DEF IndInv

\* What a vertex iterator does keeps the rest of the invariant.
LEMMA VertexIteratorStep ==
    ASSUME IndInv, UNCHANGED <<blocks, iqIndex, fiqIndex, edgeIt>>,
           vertexIt' # <<>> =>
              IF vertexIt'.valid THEN VertexItOk(vertexIt')
              ELSE vertexIt'.vertices = vertexIt'.expected
    PROVE  IndInv'
<1>1. /\ BlocksOrdered /\ IntervalsIndexed
      /\ IndexOf(fiqIndex, Len(blocks)) /\ EdgeItInv
  BY Zenon DEF IndInv
<1>2. /\ BlocksOrdered' /\ IntervalsIndexed'
      /\ IndexOf(fiqIndex, Len(blocks))'
  BY <1>1, StoreIsKept
<1>3. EdgeItInv'
  BY <1>1, EdgeItStays
<1>4. VertexItInv'
  BY VertexItIsKept
<1> QED
  BY <1>2, <1>3, <1>4 DEF IndInv

\* focusedIntervalQuery keeps the invariant.
LEMMA OpenEdgeStep ==
    ASSUME IndInv, NEW v \in Vertices, NEW r \in Ranges,
           OpenEdgeIterator(v, r[1], r[2])
    PROVE  IndInv'
<1>1. BlocksOrdered /\ IndexOf(fiqIndex, Len(blocks))
  BY Zenon DEF IndInv
<1>2. r[1] \in Nat /\ r[2] \in Nat
  BY DEF Ranges, Times
<1> DEFINE it == [vertex |-> v, start |-> r[1], end |-> r[2],
                  index |-> fiqIndex, key |-> Seek(fiqIndex, v, r[1]),
                  edge |-> 1, done |-> FALSE, edges |-> <<>>,
                  expected |-> Sorted({t \in StoredTimes(v) :
                                          InRange(t, r[1], r[2])})]
           placed == InitFromBlock(it)
           n == Len(blocks)
<1>3. EdgeItShape(placed, n) /\ Positioned(placed, n)
  BY <1>1, <1>2, IteratorIsOpened, Zenon
<1>4. edgeIt' = Read(placed)
  BY Zenon DEF OpenEdgeIterator
<1>5. n \in 0..Len(blocks)
  BY <1>1 DEF BlocksOrdered
<1> HIDE DEF placed
<1>6. EdgeItShape(Read(placed), n) /\ HasRead(Read(placed), n)
  BY <1>1, <1>3, <1>5, EdgeIsRead, Zenon
<1>7. \E m \in 0..Len(blocks) : EdgeItShape(edgeIt', m) /\ HasRead(edgeIt', m)
  BY <1>4, <1>5, <1>6, Zenon
<1>8. UNCHANGED <<blocks, iqIndex, fiqIndex, vertexIt>>
  BY DEF OpenEdgeIterator
<1> QED
  BY <1>7, <1>8, EdgeIteratorStep

\* EdgeIterator::next keeps the invariant.
LEMMA NextEdgeStep ==
    ASSUME IndInv, NextEdge
    PROVE  IndInv'
<1>1. BlocksOrdered /\ EdgeItInv
  BY Zenon DEF IndInv
<1>2. edgeIt # <<>> /\ EdgeValid(edgeIt) /\ edgeIt' = Read(EdgeNext(edgeIt))
  BY Zenon DEF NextEdge
<1>3. PICK n \in 0..Len(blocks) :
         EdgeItShape(edgeIt, n) /\ HasRead(edgeIt, n)
  BY <1>1, <1>2, Zenon DEF EdgeItInv
<1>4. EdgeItShape(EdgeNext(edgeIt), n) /\ Positioned(EdgeNext(edgeIt), n)
  BY <1>1, <1>2, <1>3, IteratorMovesOn, Zenon
<1>5. EdgeItShape(edgeIt', n) /\ HasRead(edgeIt', n)
  BY <1>1, <1>2, <1>4, EdgeIsRead, Zenon
<1>6. UNCHANGED <<blocks, iqIndex, fiqIndex, vertexIt>>
  BY DEF NextEdge
<1> QED
  BY <1>5, <1>6, EdgeIteratorStep

\* intervalQuery keeps the invariant.
LEMMA OpenVertexStep ==
    ASSUME IndInv, NEW r \in Ranges, OpenVertexIterator(r[1], r[2])
    PROVE  IndInv'
<1>1. BlocksOrdered /\ IntervalsIndexed
  BY Zenon DEF IndInv
<1> DEFINE it == [start |-> r[1], end |-> r[2], valid |-> TRUE,
                  todo |-> Intersecting(r[1], r[2]), vertices |-> {},
                  expected |-> {v \in Vertices : \E t \in StoredTimes(v) :
                                   InRange(t, r[1], r[2])}]
<1>2. VertexItOk(it)
  BY <1>1, VertexIteratorIsOpened, Zenon
<1>3. it.valid = TRUE
  OBVIOUS
<1>4. Advance(it)
  BY Zenon DEF OpenVertexIterator
<1> HIDE DEF it
<1>5. IF vertexIt'.valid THEN VertexItOk(vertexIt')
      ELSE vertexIt'.vertices = vertexIt'.expected
  BY <1>1, <1>2, <1>3, <1>4, IteratorAdvances, Zenon
<1>6. UNCHANGED <<blocks, iqIndex, fiqIndex, edgeIt>>
  BY DEF OpenVertexIterator
<1> QED
  BY <1>5, <1>6, VertexIteratorStep

\* VertexIterator::next keeps the invariant.
LEMMA NextVertexStep ==
    ASSUME IndInv, NextVertex
    PROVE  IndInv'
<1>1. BlocksOrdered /\ IntervalsIndexed /\ VertexItInv
  BY Zenon DEF IndInv
<1>2. VertexItOk(vertexIt) /\ vertexIt.valid /\ Advance(vertexIt)
  BY <1>1, Zenon DEF NextVertex, VertexItInv
<1>3. IF vertexIt'.valid THEN VertexItOk(vertexIt')
      ELSE vertexIt'.vertices = vertexIt'.expected
  BY <1>1, <1>2, IteratorAdvances, Zenon
<1>4. UNCHANGED <<blocks, iqIndex, fiqIndex, edgeIt>>
  BY DEF NextVertex
<1> QED
  BY <1>3, <1>4, VertexIteratorStep

\* The invariant holds of an empty graph.
LEMMA InitInv ==
    Init => IndInv
<1> SUFFICES ASSUME Init PROVE IndInv
  OBVIOUS
<1>1. /\ blocks = <<>> /\ iqIndex = {} /\ fiqIndex = <<>>
      /\ edgeIt = <<>> /\ vertexIt = <<>>
  BY DEF Init
<1>2. Len(blocks) = 0 /\ DOMAIN fiqIndex = {} /\ 1..0 = {}
  BY <1>1
<1>3. BlocksOrdered
  <2>1. blocks \in Seq([Vertices -> Seq(Times)])
    BY <1>1
  <2> QED
    BY <2>1, <1>2, Zenon DEF BlocksOrdered
<1>4. IntervalsIndexed
  BY <1>1, <1>2, Zenon DEF IntervalsIndexed
<1>5. IndexOf(fiqIndex, Len(blocks))
  BY <1>2, Zenon DEF IndexOf
<1> QED
  BY <1>1, <1>3, <1>4, <1>5 DEF IndInv, EdgeItInv, VertexItInv

\* Every step keeps the invariant.
LEMMA NextStep ==
    IndInv /\ [Next]_vars => IndInv'
<1> SUFFICES ASSUME IndInv, [Next]_vars PROVE IndInv'
  OBVIOUS
<1>1. ASSUME NEW block \in BlockLists, AddBlock(block) PROVE IndInv'
  BY <1>1, AddBlockStep
<1>2. ASSUME NEW v \in Vertices, NEW r \in Ranges,
             OpenEdgeIterator(v, r[1], r[2])
      PROVE  IndInv'
  BY <1>2, OpenEdgeStep
<1>3. CASE NextEdge
  BY <1>3, NextEdgeStep
<1>4. CASE CloseEdgeIterator
  BY <1>4, EdgeIteratorStep DEF CloseEdgeIterator
<1>5. ASSUME NEW r \in Ranges, OpenVertexIterator(r[1], r[2]) PROVE IndInv'
  BY <1>5, OpenVertexStep
<1>6. CASE NextVertex
  BY <1>6, NextVertexStep
<1>7. CASE CloseVertexIterator
  BY <1>7, VertexIteratorStep DEF CloseVertexIterator
<1>8. CASE UNCHANGED vars
  <2>1. UNCHANGED <<blocks, iqIndex, fiqIndex, edgeIt>> /\ vertexIt' = vertexIt
    BY <1>8 DEF vars
  <2>2. vertexIt' # <<>> =>
           IF vertexIt'.valid THEN VertexItOk(vertexIt')
           ELSE vertexIt'.vertices = vertexIt'.expected
    BY <2>1 DEF IndInv, VertexItInv
  <2> QED
    BY <2>1, <2>2, VertexIteratorStep
<1> QED
  BY <1>1, <1>2, <1>3, <1>4, <1>5, <1>6, <1>7, <1>8 DEF Next

-----------------------------------------------------------------------------
(* The theorems *)

\* The invariant holds of every reachable state.
THEOREM InvariantHolds == Spec => []IndInv
  BY InitInv, NextStep, PTL DEF Spec

\* A focused interval query returns exactly the edges of the vertex in the
\* range, in order and each one once (HistoricalGraph::EdgeIterator), for
\* any number of blocks and whatever is added while it is open.
THEOREM FocusedQueryIsExact == Spec => []FocusedQueryExact
<1>1. IndInv => FocusedQueryExact
  BY ReadIsExact DEF IndInv
<1> QED
  BY <1>1, InvariantHolds, PTL

\* An interval query returns exactly the vertices with an edge in the range
\* (IntervalQueryIndex::Iterator, HistoricalGraph::VertexIterator).
THEOREM IntervalQueryIsExact == Spec => []IntervalQueryExact
<1>1. IndInv => IntervalQueryExact
  BY Zenon DEF IndInv, VertexItInv, VertexItOk, IntervalQueryExact
<1> QED
  BY <1>1, InvariantHolds, PTL

\* The batch form returns all of them, and beyond them only vertices with
\* edges on both sides of the range or at its end (intervalQueryBatch).
THEOREM BatchQueryCovers == Spec => []BatchCovers
<1>1. IndInv => BatchCovers
  BY BatchIsCovering DEF IndInv
<1> QED
  BY <1>1, InvariantHolds, PTL
=============================================================================
