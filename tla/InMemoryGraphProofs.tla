------------------------ MODULE InMemoryGraphProofs ------------------------
(***************************************************************************)
(* Proofs about the ingest path, for every set of vertices, every window,  *)
(* map and block size and every layout that getBlock serves: an inductive  *)
(* invariant, the properties that follow from it, and the refinement of    *)
(* EdgeLog.                                                                *)
(***************************************************************************)
EXTENDS InMemoryGraph, SequenceTheorems, FiniteSetTheorems, TLAPS

Sorted(s) == \A i, j \in 1..Len(s) : i < j => s[i].time < s[j].time

\* The lists of the window and the FIFO hold the same edges, oldest first.
WindowInv ==
    /\ Sorted(vfifo)
    /\ \A k \in 1..Len(vfifo) : /\ vfifo[k].first # vfifo[k].second
                                /\ vfifo[k].time <= lastTime
    /\ \A v \in Vertices :
         /\ Sorted(winLists[v])
         /\ \A j \in 1..Len(winLists[v]) : \E k \in 1..Len(vfifo) :
              /\ vfifo[k].time = winLists[v][j].time
              /\ v \in {vfifo[k].first, vfifo[k].second}
    /\ \A k \in 1..Len(vfifo) :
         /\ \E j \in 1..Len(winLists[vfifo[k].first]) :
              /\ winLists[vfifo[k].first][j].to = vfifo[k].second
              /\ winLists[vfifo[k].first][j].time = vfifo[k].time
              /\ \E i \in 1..Len(winLists[vfifo[k].second]) :
                   winLists[vfifo[k].second][i] =
                     [to |-> vfifo[k].first, time |-> vfifo[k].time,
                      bytes |-> winLists[vfifo[k].first][j].bytes]

\* The expired half-edges are in order and older than the whole window.
ExpiredInv ==
    \A v \in Vertices :
      /\ Sorted(neigLists[v])
      /\ \A i \in 1..Len(neigLists[v]) :
           /\ neigLists[v][i].time <= lastTime
           /\ \A k \in 1..Len(vfifo) : neigLists[v][i].time < vfifo[k].time

\* The block under construction is made of prefixes of the lists, and the
\* queue holds the vertices that have more to give, with current scores.
FormingInv ==
    /\ \A v \in Vertices :
         /\ Len(block[v]) <= Len(neigLists[v])
         /\ block[v] = SubSeq(neigLists[v], 1, Len(block[v]))
    /\ DOMAIN scoreQueue =
         {v \in Vertices : Len(block[v]) < Len(neigLists[v])}
    /\ \A v \in DOMAIN scoreQueue :
         scoreQueue[v] = Score(neigLists[v], Len(block[v]))
    /\ headVertex = NoVertex => bytes = BlockHeaderBytes
    /\ headVertex # NoVertex => block[headVertex] # <<>>
    /\ pc = "out" => /\ block = EmptyLists
                     /\ bytes = BlockHeaderBytes
                     /\ headVertex = NoVertex

IndInv == TypeOK /\ WindowInv /\ ExpiredInv /\ FormingInv /\ SizeExact

-----------------------------------------------------------------------------
\* The sizes that make up a block are numbers, and an empty block fits.
LEMMA ConstantTypes ==
    /\ BlockHeaderBytes \in Nat /\ ListHeaderBytes \in Nat
    /\ HalfEdgeBytes \in Nat /\ BlockHeaderBytes <= BlockSize
BY ExpirationMapAssumption
   DEF BlockHeaderBytes, ListHeaderBytes, HalfEdgeBytes

\* Scores are integers.
LEMMA ScoreType ==
    ASSUME NEW list \in Seq(HalfEdge), NEW i \in Nat, i < Len(list)
    PROVE  Score(list, i) \in Int
<1>1. list[i + 1] \in HalfEdge
  OBVIOUS
<1>2. list[i + 1].time \in Nat
  BY <1>1 DEF HalfEdge
<1> QED
  BY <1>2, ExpirationMapAssumption DEF Score, Measure

\* Block::addEdge adds a number of bytes.
LEMMA AddedBytesType ==
    ASSUME NEW b \in [Vertices -> Seq(HalfEdge)], NEW v \in Vertices,
           NEW h \in HalfEdge
    PROVE  AddedBytes(b, v, h) \in Nat
<1>1. h.bytes \in Nat
  BY ExpirationMapAssumption DEF HalfEdge
<1> QED
  BY <1>1, ConstantTypes DEF AddedBytes

\* NeighborList::addEdge with a newer edge keeps a list in time order.
LEMMA SortedAppend ==
    ASSUME NEW S, NEW s \in Seq(S), NEW e \in S,
           Sorted(s), \A i \in 1..Len(s) : s[i].time < e.time
    PROVE  Sorted(Append(s, e))
BY DEF Sorted

\* NeighborList::removeOldestEdge keeps a list in time order.
LEMMA SortedTail ==
    ASSUME NEW S, NEW s \in Seq(S), s # <<>>, Sorted(s)
    PROVE  Sorted(Tail(s))
BY DEF Sorted

\* A list gets a new last element.
LEMMA Appended ==
    ASSUME NEW S, NEW s \in Seq(S), NEW e \in S
    PROVE  /\ Append(s, e) \in Seq(S)
           /\ Len(Append(s, e)) = Len(s) + 1
           /\ Append(s, e)[Len(s) + 1] = e
           /\ \A j \in 1..Len(s) : /\ j \in 1..Len(Append(s, e))
                                  /\ Append(s, e)[j] = s[j]
           /\ \A j \in 1..Len(Append(s, e)) : j \in 1..Len(s) \/ j = Len(s) + 1
OBVIOUS

\* Before getBlock takes an edge of a vertex, it has taken the empty prefix.
LEMMA EmptyPrefix ==
    ASSUME NEW s \in Seq(HalfEdge)
    PROVE  SubSeq(s, 1, 0) = <<>> /\ 0 <= Len(s)
OBVIOUS

\* getBlock takes the next edge: the prefix taken grows by one.
LEMMA LongerPrefix ==
    ASSUME NEW s \in Seq(HalfEdge), NEW n \in Nat, n < Len(s)
    PROVE  /\ s[n + 1] \in HalfEdge
           /\ Len(SubSeq(s, 1, n)) = n
           /\ Append(SubSeq(s, 1, n), s[n + 1]) = SubSeq(s, 1, n + 1)
           /\ SubSeq(s, 1, n + 1) \in Seq(HalfEdge)
           /\ Len(SubSeq(s, 1, n + 1)) = n + 1
           /\ SubSeq(s, 1, n + 1) # <<>>
OBVIOUS

\* getBlock gives the newest edge back: the prefix taken shrinks by one.
LEMMA ShorterPrefix ==
    ASSUME NEW s \in Seq(HalfEdge), NEW n \in Nat, n <= Len(s), n # 0
    PROVE  /\ Len(SubSeq(s, 1, n)) = n
           /\ SubSeq(SubSeq(s, 1, n), 1, n - 1) = SubSeq(s, 1, n - 1)
           /\ SubSeq(s, 1, n - 1) \in Seq(HalfEdge)
           /\ Len(SubSeq(s, 1, n - 1)) = n - 1
OBVIOUS

\* A list loses its first element.
LEMMA Shortened ==
    ASSUME NEW S, NEW s \in Seq(S), s # <<>>
    PROVE  /\ Tail(s) \in Seq(S)
           /\ Len(Tail(s)) = Len(s) - 1
           /\ 1 \in 1..Len(s) /\ Head(s) = s[1]
           /\ \A j \in 1..Len(Tail(s)) : /\ j + 1 \in 1..Len(s)
                                         /\ Tail(s)[j] = s[j + 1]
           /\ \A j \in 1..Len(s) : j # 1 => /\ j - 1 \in 1..Len(Tail(s))
                                            /\ Tail(s)[j - 1] = s[j]
OBVIOUS

\* Both halves of an edge are appended.
LEMMA AddedHalves ==
    ASSUME NEW f \in [Vertices -> Seq(HalfEdge)],
           NEW v \in Vertices, NEW u \in Vertices, v # u,
           NEW t \in Nat, NEW d \in DataSizes
    PROVE  AddHalves(f, v, u, t, d) \in [Vertices -> Seq(HalfEdge)]
<1> DEFINE h == AddHalves(f, v, u, t, d)
           vHalf == [to |-> u, time |-> t, bytes |-> d]
           uHalf == [to |-> v, time |-> t, bytes |-> d]
<1>1. vHalf \in HalfEdge /\ uHalf \in HalfEdge
  BY DEF HalfEdge
<1>2. h = [f EXCEPT ![v] = Append(@, vHalf), ![u] = Append(@, uHalf)]
  BY DEF AddHalves
<1> HIDE DEF h, vHalf, uHalf
<1>3. h[v] = Append(f[v], vHalf)
  BY <1>2
<1>4. h[u] = Append(f[u], uHalf)
  BY <1>2
<1>5. \A w \in Vertices \ {v, u} : h[w] = f[w]
  BY <1>2
<1>6. h = [w \in Vertices |-> h[w]]
  BY <1>2
<1>7. ASSUME NEW w \in Vertices
      PROVE  h[w] \in Seq(HalfEdge)
  <2>1. f[w] \in Seq(HalfEdge)
    OBVIOUS
  <2>2. CASE w = v
    BY <2>1, <2>2, <1>1, <1>3, Appended
  <2>3. CASE w = u
    BY <2>1, <2>3, <1>1, <1>4, Appended
  <2> QED
    BY <2>1, <2>2, <2>3, <1>5
<1>8. h \in [Vertices -> Seq(HalfEdge)]
  BY <1>6, <1>7
<1> QED
  BY <1>8 DEF h

\* The oldest halves of an edge are removed.
LEMMA RemovedEdge ==
    ASSUME NEW f \in [Vertices -> Seq(HalfEdge)], NEW edge \in UEdge,
           edge.first # edge.second, f[edge.first] # <<>>, f[edge.second] # <<>>
    PROVE  RemoveEdge(f, edge) \in [Vertices -> Seq(HalfEdge)]
<1> DEFINE h == RemoveEdge(f, edge)
           v == edge.first
           u == edge.second
<1>1. v \in Vertices /\ u \in Vertices
  BY DEF UEdge
<1>2. h = [f EXCEPT ![v] = Tail(@), ![u] = Tail(@)]
  BY DEF RemoveEdge
<1> HIDE DEF h, v, u
<1>3. v # u /\ f[v] # <<>> /\ f[u] # <<>>
  BY DEF v, u
<1>4. h[v] = Tail(f[v])
  BY <1>1, <1>2, <1>3
<1>5. h[u] = Tail(f[u])
  BY <1>1, <1>2, <1>3
<1>6. \A w \in Vertices \ {v, u} : h[w] = f[w]
  BY <1>2
<1>7. h = [w \in Vertices |-> h[w]]
  BY <1>2
<1>8. ASSUME NEW w \in Vertices
      PROVE  h[w] \in Seq(HalfEdge)
  <2>1. f[w] \in Seq(HalfEdge)
    OBVIOUS
  <2>2. CASE w = v
    BY <2>1, <2>2, <1>3, <1>4, HeadTailProperties
  <2>3. CASE w = u
    BY <2>1, <2>3, <1>3, <1>5, HeadTailProperties
  <2> QED
    BY <2>1, <2>2, <2>3, <1>6
<1>9. h \in [Vertices -> Seq(HalfEdge)]
  BY <1>7, <1>8
<1> QED
  BY <1>9 DEF h

\* A newly opened graph satisfies the invariant.
LEMMA InitInv == Init => IndInv
<1> SUFFICES ASSUME Init PROVE IndInv
  OBVIOUS
<1> USE DEF Init, ExpInit, EmptyLists
<1>1. TypeOK
  <2>1. EmptyLists \in [Vertices -> Seq(HalfEdge)]
    OBVIOUS
  <2>2. DOMAIN scoreQueue = {}
    OBVIOUS
  <2> QED
    BY <2>1, <2>2, ConstantTypes DEF TypeOK
<1>2. WindowInv
  BY DEF WindowInv, Sorted
<1>3. ExpiredInv
  BY DEF ExpiredInv, Sorted
<1>4. FormingInv
  BY DEF FormingInv
<1>5. Buffered = {}
  BY DEF Buffered
<1>6. SizeExact
  BY <1>5, FS_EmptySet DEF SizeExact
<1> QED
  BY <1>1, <1>2, <1>3, <1>4, <1>6 DEF IndInv

\* addEdge puts the edge at the young end of the FIFO and of two lists.
LEMMA AddEdgeInv ==
    ASSUME IndInv, NEW v \in Vertices, NEW u \in Vertices, NEW d \in DataSizes,
           AddEdge(v, u, d)
    PROVE  IndInv'
<1> DEFINE t == lastTime + 1
           vHalf == [to |-> u, time |-> t, bytes |-> d]
           uHalf == [to |-> v, time |-> t, bytes |-> d]
           edge == [first |-> v, second |-> u, time |-> t]
<1>0. TypeOK /\ WindowInv /\ ExpiredInv /\ FormingInv /\ SizeExact
  BY DEF IndInv
<1>t. /\ winLists \in [Vertices -> Seq(HalfEdge)]
      /\ vfifo \in Seq(UEdge)
      /\ lastTime \in Nat
  BY <1>0 DEF TypeOK
<1>u. v # u
  BY DEF AddEdge
<1>1. lastTime' = t /\ op' = "addEdge" /\ UNCHANGED expVars
  BY DEF AddEdge
<1>w. winLists' = AddHalves(winLists, v, u, t, d)
  BY DEF AddEdge
<1>f. vfifo' = Append(vfifo, edge)
  BY DEF AddEdge
<1>2. t \in Nat /\ t > lastTime
  BY <1>t
<1>3. vHalf \in HalfEdge /\ uHalf \in HalfEdge /\ edge \in UEdge
  BY <1>2 DEF HalfEdge, UEdge
<1>4. /\ vHalf.time = t /\ vHalf.to = u /\ vHalf.bytes = d
      /\ uHalf = [to |-> v, time |-> t, bytes |-> d] /\ uHalf.time = t
      /\ edge.first = v /\ edge.second = u /\ edge.time = t
  OBVIOUS
<1> HIDE DEF t
<1>5. /\ winLists'[v] = Append(winLists[v], vHalf)
      /\ winLists'[u] = Append(winLists[u], uHalf)
      /\ \A w \in Vertices \ {v, u} : winLists'[w] = winLists[w]
      /\ winLists' \in [Vertices -> Seq(HalfEdge)]
  <2>0. winLists \in [Vertices -> Seq(HalfEdge)] /\ t \in Nat
    BY <1>t, <1>2
  <2>1. AddHalves(winLists, v, u, t, d) \in [Vertices -> Seq(HalfEdge)]
    BY <2>0, <1>u, AddedHalves
  <2>2. winLists'[v] = Append(winLists[v], vHalf)
    BY <2>0, <1>u, <1>w DEF AddHalves
  <2>3. winLists'[u] = Append(winLists[u], uHalf)
    BY <2>0, <1>u, <1>w DEF AddHalves
  <2>4. \A w \in Vertices \ {v, u} : winLists'[w] = winLists[w]
    BY <2>0, <1>u, <1>w DEF AddHalves
  <2> QED
    BY <2>1, <2>2, <2>3, <2>4, <1>w
<1> HIDE DEF vHalf, uHalf, edge
<1>p. ASSUME NEW w \in Vertices, NEW j \in 1..Len(winLists[w])
      PROVE  j \in 1..Len(winLists'[w]) /\ winLists'[w][j] = winLists[w][j]
  <2>1. winLists[w] \in Seq(HalfEdge)
    BY <1>t
  <2>2. CASE w = v
    BY <2>1, <2>2, <1>3, <1>5, Appended
  <2>3. CASE w = u
    BY <2>1, <2>3, <1>3, <1>5, Appended
  <2> QED
    BY <2>2, <2>3, <1>5
<1>6. /\ vfifo' \in Seq(UEdge)
      /\ Len(vfifo') = Len(vfifo) + 1
      /\ vfifo'[Len(vfifo) + 1] = edge
      /\ \A k \in 1..Len(vfifo) : vfifo'[k] = vfifo[k]
  <2>1. vfifo \in Seq(UEdge) /\ edge \in UEdge
    BY <1>t, <1>3
  <2>2. vfifo' \in Seq(UEdge)
    BY <2>1, <1>f, Appended
  <2>3. Len(vfifo') = Len(vfifo) + 1
    BY <2>1, <1>f, Appended
  <2>4. vfifo'[Len(vfifo) + 1] = edge
    BY <2>1, <1>f, Appended
  <2>5. \A k \in 1..Len(vfifo) : vfifo'[k] = vfifo[k]
    BY <2>1, <1>f, Appended
  <2> QED
    BY <2>2, <2>3, <2>4, <2>5
<1>7. \A k \in 1..Len(vfifo) : vfifo[k] \in UEdge /\ vfifo[k].time \in Nat
  <2>1. \A k \in 1..Len(vfifo) : vfifo[k] \in UEdge
    BY <1>t
  <2> QED
    BY <2>1 DEF UEdge
<1>8. \A k \in 1..Len(vfifo) : vfifo[k].time < t
  BY <1>0, <1>t, <1>2, <1>7 DEF WindowInv
<1>9. ASSUME NEW w \in Vertices, NEW j \in 1..Len(winLists[w])
      PROVE  winLists[w][j].time < t
  <2>1. PICK k \in 1..Len(vfifo) : vfifo[k].time = winLists[w][j].time
    BY <1>0 DEF WindowInv
  <2> QED
    BY <2>1, <1>8
<1>10. TypeOK'
  <2>1. lastTime' \in Nat /\ op' \in {"none", "addEdge", "flush"}
    BY <1>1, <1>2
  <2> QED
    BY <1>0, <1>1, <1>5, <1>6, <2>1 DEF TypeOK, expVars, formVars
<1>11. WindowInv'
  <2>1. Sorted(vfifo')
    BY <1>0, <1>t, <1>f, <1>3, <1>4, <1>8, SortedAppend DEF WindowInv
  <2>2. ASSUME NEW k \in 1..Len(vfifo')
        PROVE  /\ vfifo'[k].first # vfifo'[k].second
               /\ vfifo'[k].time <= lastTime'
    <3>1. CASE k \in 1..Len(vfifo)
      BY <3>1, <1>0, <1>1, <1>2, <1>6, <1>7, <1>8 DEF WindowInv
    <3>2. CASE k = Len(vfifo) + 1
      <4>1. vfifo'[k] = edge
        BY <3>2, <1>6
      <4>2. lastTime' = t /\ t <= t
        BY <1>1, <1>2
      <4> QED
        BY <4>1, <4>2, <1>u, <1>4
    <3> QED
      BY <3>1, <3>2, <1>6
  <2>3. ASSUME NEW w \in Vertices
        PROVE  Sorted(winLists'[w])
    <3>1. Sorted(winLists[w]) /\ winLists[w] \in Seq(HalfEdge)
      BY <1>0, <1>t DEF WindowInv
    <3>4. /\ \A i \in 1..Len(winLists[w]) : winLists[w][i].time < vHalf.time
          /\ \A i \in 1..Len(winLists[w]) : winLists[w][i].time < uHalf.time
      BY <1>4, <1>9
    <3>2. CASE w = v
      <4>1. Sorted(Append(winLists[w], vHalf))
        BY <3>1, <3>4, <1>3, SortedAppend
      <4> QED
        BY <4>1, <3>2, <1>5
    <3>3. CASE w = u
      <4>1. Sorted(Append(winLists[w], uHalf))
        BY <3>1, <3>4, <1>3, SortedAppend
      <4> QED
        BY <4>1, <3>3, <1>5
    <3> QED
      BY <3>1, <3>2, <3>3, <1>5
  <2>4. ASSUME NEW w \in Vertices, NEW j \in 1..Len(winLists'[w])
        PROVE  \E k \in 1..Len(vfifo') :
                 /\ vfifo'[k].time = winLists'[w][j].time
                 /\ w \in {vfifo'[k].first, vfifo'[k].second}
    <3>1. CASE j \in 1..Len(winLists[w])
      <4>1. winLists'[w][j] = winLists[w][j]
        BY <3>1, <1>p
      <4>2. PICK k \in 1..Len(vfifo) :
              /\ vfifo[k].time = winLists[w][j].time
              /\ w \in {vfifo[k].first, vfifo[k].second}
        BY <3>1, <1>0 DEF WindowInv
      <4>3. k \in 1..Len(vfifo') /\ vfifo'[k] = vfifo[k]
        BY <1>6, <1>t
      <4> QED
        BY <4>1, <4>2, <4>3
    <3>2. CASE j \notin 1..Len(winLists[w])
      <4>0. winLists[v] \in Seq(HalfEdge) /\ winLists[u] \in Seq(HalfEdge)
        BY <1>t
      <4>1. CASE w = v
        BY <4>0, <4>1, <3>2, <1>3, <1>4, <1>5, <1>6, <1>t
      <4>2. CASE w = u
        BY <4>0, <4>2, <3>2, <1>3, <1>4, <1>5, <1>6, <1>t
      <4> QED
        BY <4>1, <4>2, <3>2, <1>5
    <3> QED
      BY <3>1, <3>2
  <2>5. ASSUME NEW k \in 1..Len(vfifo')
        PROVE  \E j \in 1..Len(winLists'[vfifo'[k].first]) :
                 /\ winLists'[vfifo'[k].first][j].to = vfifo'[k].second
                 /\ winLists'[vfifo'[k].first][j].time = vfifo'[k].time
                 /\ \E i \in 1..Len(winLists'[vfifo'[k].second]) :
                      winLists'[vfifo'[k].second][i] =
                        [to |-> vfifo'[k].first, time |-> vfifo'[k].time,
                         bytes |-> winLists'[vfifo'[k].first][j].bytes]
    <3>1. CASE k \in 1..Len(vfifo)
      <4>1. vfifo'[k] = vfifo[k]
        BY <3>1, <1>6
      <4>2. vfifo[k].first \in Vertices /\ vfifo[k].second \in Vertices
        BY <3>1, <1>7 DEF UEdge
      <4>3. PICK j \in 1..Len(winLists[vfifo[k].first]) :
              /\ winLists[vfifo[k].first][j].to = vfifo[k].second
              /\ winLists[vfifo[k].first][j].time = vfifo[k].time
              /\ \E i \in 1..Len(winLists[vfifo[k].second]) :
                   winLists[vfifo[k].second][i] =
                     [to |-> vfifo[k].first, time |-> vfifo[k].time,
                      bytes |-> winLists[vfifo[k].first][j].bytes]
        BY <3>1, <1>0 DEF WindowInv
      <4>4. PICK i \in 1..Len(winLists[vfifo[k].second]) :
                   winLists[vfifo[k].second][i] =
                     [to |-> vfifo[k].first, time |-> vfifo[k].time,
                      bytes |-> winLists[vfifo[k].first][j].bytes]
        BY <4>3
      <4>5. /\ j \in 1..Len(winLists'[vfifo[k].first])
            /\ winLists'[vfifo[k].first][j] = winLists[vfifo[k].first][j]
        BY <4>2, <1>p
      <4>6. /\ i \in 1..Len(winLists'[vfifo[k].second])
            /\ winLists'[vfifo[k].second][i] = winLists[vfifo[k].second][i]
        BY <4>2, <1>p
      <4> QED
        BY <4>1, <4>3, <4>4, <4>5, <4>6
    <3>2. CASE k = Len(vfifo) + 1
      <4>1. vfifo'[k] = edge
        BY <3>2, <1>6
      <4>2. winLists[v] \in Seq(HalfEdge) /\ winLists[u] \in Seq(HalfEdge)
        BY <1>t
      <4>3. /\ Len(winLists[v]) + 1 \in 1..Len(winLists'[v])
            /\ winLists'[v][Len(winLists[v]) + 1] = vHalf
        BY <4>2, <1>3, <1>5
      <4>4. /\ Len(winLists[u]) + 1 \in 1..Len(winLists'[u])
            /\ winLists'[u][Len(winLists[u]) + 1] = uHalf
        BY <4>2, <1>3, <1>5
      <4> QED
        BY <4>1, <4>3, <4>4, <1>4
    <3> QED
      BY <3>1, <3>2, <1>6
  <2> QED
    BY <2>1, <2>2, <2>3, <2>4, <2>5 DEF WindowInv
<1>12. ExpiredInv'
  <2> SUFFICES ASSUME NEW w \in Vertices
               PROVE  /\ Sorted(neigLists[w])
                      /\ \A i \in 1..Len(neigLists[w]) :
                           /\ neigLists[w][i].time <= lastTime'
                           /\ \A k \in 1..Len(vfifo') :
                                neigLists[w][i].time < vfifo'[k].time
    BY <1>1 DEF ExpiredInv, expVars
  <2>1. Sorted(neigLists[w])
    BY <1>0 DEF ExpiredInv
  <2>2. ASSUME NEW i \in 1..Len(neigLists[w])
        PROVE  /\ neigLists[w][i].time <= lastTime'
               /\ \A k \in 1..Len(vfifo') :
                    neigLists[w][i].time < vfifo'[k].time
    <3>0. neigLists[w] \in Seq(HalfEdge)
      BY <1>0 DEF TypeOK
    <3>4. neigLists[w][i] \in HalfEdge
      BY <3>0
    <3>1. neigLists[w][i].time \in Nat
      BY <3>4 DEF HalfEdge
    <3>2. neigLists[w][i].time <= lastTime
      BY <1>0 DEF ExpiredInv
    <3>3. \A k \in 1..Len(vfifo) : neigLists[w][i].time < vfifo[k].time
      BY <1>0 DEF ExpiredInv
    <3>5. ASSUME NEW k \in 1..Len(vfifo')
          PROVE  neigLists[w][i].time < vfifo'[k].time
      <4>1. CASE k \in 1..Len(vfifo)
        BY <4>1, <3>3, <1>6
      <4>2. CASE k = Len(vfifo) + 1
        BY <4>2, <3>1, <3>2, <1>t, <1>2, <1>4, <1>6
      <4> QED
        BY <4>1, <4>2, <1>6
    <3>6. neigLists[w][i].time <= lastTime'
      BY <3>1, <3>2, <1>t, <1>1, <1>2
    <3> QED
      BY <3>5, <3>6
  <2> QED
    BY <2>1, <2>2
<1>13. FormingInv'
  BY <1>0, <1>1 DEF FormingInv, expVars, formVars
<1>14. SizeExact'
  BY <1>0, <1>1 DEF SizeExact, Buffered, expVars
<1> QED
  BY <1>10, <1>11, <1>12, <1>13, <1>14 DEF IndInv
\* The oldest edge of the FIFO heads the lists of both of its endpoints.
LEMMA WindowHead ==
    ASSUME TypeOK, WindowInv, vfifo # <<>>,
           NEW edge, edge = Head(vfifo)
    PROVE  /\ edge \in UEdge
           /\ edge.first \in Vertices /\ edge.second \in Vertices
           /\ edge.time \in Nat
           /\ edge.first # edge.second
           /\ edge.time <= lastTime
           /\ winLists[edge.first] # <<>> /\ winLists[edge.second] # <<>>
           /\ Head(winLists[edge.first]) \in HalfEdge
           /\ Head(winLists[edge.first]).to = edge.second
           /\ Head(winLists[edge.first]).time = edge.time
           /\ Head(winLists[edge.second]) =
                [to |-> edge.first, time |-> edge.time,
                 bytes |-> Head(winLists[edge.first]).bytes]
           /\ \A k \in 1..Len(vfifo) : k # 1 => edge.time < vfifo[k].time
<1>t. winLists \in [Vertices -> Seq(HalfEdge)] /\ vfifo \in Seq(UEdge)
  BY DEF TypeOK
<1>1. edge = vfifo[1] /\ 1 \in 1..Len(vfifo)
  BY <1>t
<1>2. edge \in UEdge
  BY <1>t, <1>1
<1>3. edge.first \in Vertices /\ edge.second \in Vertices /\ edge.time \in Nat
  BY <1>2 DEF UEdge
<1>4. edge.first # edge.second /\ edge.time <= lastTime
  BY <1>1 DEF WindowInv
<1>5. \A k \in 1..Len(vfifo) : k # 1 => edge.time < vfifo[k].time
  <2>1. Sorted(vfifo)
    BY DEF WindowInv
  <2> QED
    BY <2>1, <1>1 DEF Sorted
<1>6. \A k \in 1..Len(vfifo) : ~ (vfifo[k].time < edge.time)
  <2>1. \A k \in 1..Len(vfifo) : vfifo[k] \in UEdge
    BY <1>t
  <2>2. \A k \in 1..Len(vfifo) : vfifo[k].time \in Nat
    BY <2>1 DEF UEdge
  <2> QED
    BY <2>2, <1>1, <1>5, <1>3
<1>7. ASSUME NEW w \in Vertices, NEW j \in 1..Len(winLists[w]),
             winLists[w][j].time = edge.time
      PROVE  j = 1
  <2>1. winLists[w] \in Seq(HalfEdge)
    BY <1>t
  <2>2. Sorted(winLists[w])
    BY DEF WindowInv
  <2>3. SUFFICES ASSUME j # 1 PROVE FALSE
    OBVIOUS
  <2>4. 1 \in 1..Len(winLists[w]) /\ 1 < j
    BY <2>1, <2>3
  <2>5. winLists[w][1].time < edge.time
    BY <2>2, <2>4, <1>7 DEF Sorted
  <2>6. PICK k \in 1..Len(vfifo) : vfifo[k].time = winLists[w][1].time
    BY <2>4 DEF WindowInv
  <2> QED
    BY <2>5, <2>6, <1>6
<1>8. PICK j \in 1..Len(winLists[edge.first]) :
         /\ winLists[edge.first][j].to = edge.second
         /\ winLists[edge.first][j].time = edge.time
         /\ \E i \in 1..Len(winLists[edge.second]) :
              winLists[edge.second][i] =
                [to |-> edge.first, time |-> edge.time,
                 bytes |-> winLists[edge.first][j].bytes]
  <2>1. \E j \in 1..Len(winLists[vfifo[1].first]) :
         /\ winLists[vfifo[1].first][j].to = vfifo[1].second
         /\ winLists[vfifo[1].first][j].time = vfifo[1].time
         /\ \E i \in 1..Len(winLists[vfifo[1].second]) :
              winLists[vfifo[1].second][i] =
                [to |-> vfifo[1].first, time |-> vfifo[1].time,
                 bytes |-> winLists[vfifo[1].first][j].bytes]
    BY <1>1 DEF WindowInv
  <2> QED
    BY <2>1, <1>1, Zenon
<1>9. PICK i \in 1..Len(winLists[edge.second]) :
         winLists[edge.second][i] =
           [to |-> edge.first, time |-> edge.time,
            bytes |-> winLists[edge.first][j].bytes]
  BY <1>8
<1>10. j = 1 /\ i = 1
  <2>1. j = 1
    BY <1>3, <1>7, <1>8
  <2>2. winLists[edge.second][i].time = edge.time
    BY <1>9
  <2>3. i = 1
    BY <1>3, <1>7, <2>2
  <2> QED
    BY <2>1, <2>3
<1>11. winLists[edge.first] \in Seq(HalfEdge) /\ winLists[edge.second] \in Seq(HalfEdge)
  BY <1>t, <1>3
<1>12. /\ winLists[edge.first] # <<>> /\ winLists[edge.second] # <<>>
       /\ Head(winLists[edge.first]) = winLists[edge.first][1]
       /\ Head(winLists[edge.second]) = winLists[edge.second][1]
       /\ winLists[edge.first][1] \in HalfEdge
  BY <1>11, <1>10
<1> QED
  BY <1>2, <1>3, <1>4, <1>5, <1>8, <1>9, <1>10, <1>12

\* The half-edges in the map are finite in number.
LEMMA BufferedFinite ==
    ASSUME TypeOK
    PROVE  IsFiniteSet(Buffered)
<1> DEFINE Of(v) == {<<v, neigLists[v][i].time>> : i \in 1..Len(neigLists[v])}
<1>1. ASSUME NEW v \in Vertices
      PROVE  IsFiniteSet(Of(v))
  <2>1. neigLists[v] \in Seq(HalfEdge)
    BY DEF TypeOK
  <2>2. IsFiniteSet(1..Len(neigLists[v]))
    BY <2>1, FS_Interval
  <2> DEFINE f == [i \in 1..Len(neigLists[v]) |-> <<v, neigLists[v][i].time>>]
  <2>3. f \in Surjection(1..Len(neigLists[v]), Of(v))
    BY DEF Surjection
  <2> QED
    BY <2>2, <2>3, FS_Surjection
<1>2. IsFiniteSet({Of(v) : v \in Vertices})
  <2> DEFINE g == [v \in Vertices |-> Of(v)]
  <2>1. g \in Surjection(Vertices, {Of(v) : v \in Vertices})
    BY DEF Surjection
  <2> QED
    BY <2>1, ExpirationMapAssumption, FS_Surjection
<1>3. \A T \in {Of(v) : v \in Vertices} : IsFiniteSet(T)
  BY <1>1
<1>4. IsFiniteSet(UNION {Of(v) : v \in Vertices})
  BY <1>2, <1>3, FS_UNION
<1> QED
  BY <1>4 DEF Buffered
\* The window is as before when its lists, its FIFO and the clock are.
LEMMA WindowSame ==
    ASSUME WindowInv, winLists' = winLists, vfifo' = vfifo, lastTime' = lastTime
    PROVE  WindowInv'
BY ZenonT(60) DEF WindowInv, Sorted

\* The window's part of Expire: the oldest edge leaves both lists.
LEMMA ExpireWindow ==
    ASSUME TypeOK, WindowInv, vfifo # <<>>, NEW edge, edge = Head(vfifo),
           winLists' = RemoveEdge(winLists, edge), vfifo' = Tail(vfifo),
           UNCHANGED lastTime
    PROVE  WindowInv' /\ winLists' \in [Vertices -> Seq(HalfEdge)]
<1> DEFINE v == edge.first
           u == edge.second
           t == edge.time
<1>t. winLists \in [Vertices -> Seq(HalfEdge)] /\ vfifo \in Seq(UEdge)
  BY DEF TypeOK
<1>1. /\ edge \in UEdge /\ v \in Vertices /\ u \in Vertices /\ t \in Nat
      /\ v # u /\ winLists[v] # <<>> /\ winLists[u] # <<>>
      /\ Head(winLists[v]).time = t /\ Head(winLists[u]).time = t
      /\ \A k \in 1..Len(vfifo) : k # 1 => t < vfifo[k].time
  <2>1. /\ edge \in UEdge /\ v \in Vertices /\ u \in Vertices /\ t \in Nat
        /\ v # u /\ winLists[v] # <<>> /\ winLists[u] # <<>>
        /\ Head(winLists[v]).time = t
        /\ Head(winLists[u]) = [to |-> v, time |-> t,
                               bytes |-> Head(winLists[v]).bytes]
        /\ \A k \in 1..Len(vfifo) : k # 1 => t < vfifo[k].time
    BY WindowHead, Zenon
  <2>2. Head(winLists[u]).time = t
    BY <2>1
  <2> QED
    BY <2>1, <2>2
<1>2. winLists' \in [Vertices -> Seq(HalfEdge)]
  BY <1>t, <1>1, RemovedEdge
<1>3. /\ winLists'[v] = Tail(winLists[v])
      /\ winLists'[u] = Tail(winLists[u])
      /\ \A w \in Vertices \ {v, u} : winLists'[w] = winLists[w]
  <2>1. winLists'[v] = Tail(winLists[v])
    BY <1>t, <1>1 DEF RemoveEdge
  <2>2. winLists'[u] = Tail(winLists[u])
    BY <1>t, <1>1 DEF RemoveEdge
  <2>3. \A w \in Vertices \ {v, u} : winLists'[w] = winLists[w]
    BY <1>t, <1>1 DEF RemoveEdge
  <2> QED
    BY <2>1, <2>2, <2>3
<1>e. edge = vfifo[1] /\ vfifo[1].first = v /\ vfifo[1].second = u
  BY <1>t
<1> HIDE DEF v, u, t
<1>4. /\ Len(vfifo') = Len(vfifo) - 1
      /\ \A k \in 1..Len(vfifo') : /\ k + 1 \in 1..Len(vfifo) /\ k + 1 # 1
                                   /\ vfifo'[k] = vfifo[k + 1]
      /\ \A k \in 1..Len(vfifo) : k # 1 =>
           /\ k - 1 \in 1..Len(vfifo')
           /\ vfifo'[k - 1] = vfifo[k]
  BY <1>t
\* every remaining half-edge was in its list before, and is no part of edge
<1>5. ASSUME NEW w \in Vertices, NEW j \in 1..Len(winLists'[w])
      PROVE  \E i \in 1..Len(winLists[w]) :
               /\ winLists'[w][j] = winLists[w][i]
               /\ w \in {v, u} => t < winLists[w][i].time
  <2>1. winLists[w] \in Seq(HalfEdge) /\ Sorted(winLists[w])
    BY <1>t DEF WindowInv
  <2>2. CASE w \in {v, u}
    <3>1. /\ winLists'[w] = Tail(winLists[w]) /\ winLists[w] # <<>>
          /\ Head(winLists[w]).time = t
      BY <2>2, <1>1, <1>3
    <3>2. /\ j + 1 \in 1..Len(winLists[w]) /\ 1 \in 1..Len(winLists[w])
          /\ winLists'[w][j] = winLists[w][j + 1] /\ 1 < j + 1
          /\ winLists[w][1] = Head(winLists[w])
      <4>1. /\ j + 1 \in 1..Len(winLists[w]) /\ 1 \in 1..Len(winLists[w])
            /\ winLists'[w][j] = winLists[w][j + 1]
            /\ winLists[w][1] = Head(winLists[w])
        <5>1. j \in 1..Len(Tail(winLists[w]))
          BY <3>1
        <5>2. /\ j + 1 \in 1..Len(winLists[w]) /\ 1 \in 1..Len(winLists[w])
              /\ Tail(winLists[w])[j] = winLists[w][j + 1]
              /\ winLists[w][1] = Head(winLists[w])
          BY <2>1, <3>1, <5>1, Shortened, Zenon
        <5> QED
          BY <5>2, <3>1
      <4>2. 1 < j + 1
        OBVIOUS
      <4> QED
        BY <4>1, <4>2
    <3>3. t < winLists[w][j + 1].time
      BY <2>1, <3>1, <3>2 DEF Sorted
    <3> QED
      BY <3>2, <3>3
  <2>3. CASE w \notin {v, u}
    BY <2>3, <1>3
  <2> QED
    BY <2>2, <2>3
\* every half-edge that is no part of edge remains
<1>6. ASSUME NEW w \in Vertices, NEW i \in 1..Len(winLists[w]),
             winLists[w][i].time # t
      PROVE  \E j \in 1..Len(winLists'[w]) : winLists'[w][j] = winLists[w][i]
  <2>1. winLists[w] \in Seq(HalfEdge)
    BY <1>t
  <2>2. CASE w \in {v, u}
    <3>1. /\ winLists'[w] = Tail(winLists[w]) /\ winLists[w] # <<>>
          /\ Head(winLists[w]).time = t
      BY <2>2, <1>1, <1>3
    <3>2. i # 1
      BY <3>1, <2>1, <1>6
    <3>3. /\ i - 1 \in 1..Len(winLists'[w])
          /\ winLists'[w][i - 1] = winLists[w][i]
      <4>1. /\ i - 1 \in 1..Len(Tail(winLists[w]))
            /\ Tail(winLists[w])[i - 1] = winLists[w][i]
        BY <3>1, <3>2, <2>1, Shortened, Zenon
      <4> QED
        BY <4>1, <3>1
    <3> QED
      BY <3>3
  <2>3. CASE w \notin {v, u}
    BY <2>3, <1>3
  <2> QED
    BY <2>2, <2>3
<1>7. Sorted(vfifo')
  BY <1>t, SortedTail DEF WindowInv
<1>8. \A k \in 1..Len(vfifo') : /\ vfifo'[k].first # vfifo'[k].second
                                /\ vfifo'[k].time <= lastTime'
  BY <1>4 DEF WindowInv
<1>9. ASSUME NEW w \in Vertices
      PROVE  Sorted(winLists'[w])
  <2>1. winLists[w] \in Seq(HalfEdge) /\ Sorted(winLists[w])
    BY <1>t DEF WindowInv
  <2>2. CASE w \in {v, u}
    <3>1. winLists'[w] = Tail(winLists[w]) /\ winLists[w] # <<>>
      BY <2>2, <1>1, <1>3
    <3> QED
      BY <2>1, <3>1, SortedTail
  <2>3. CASE w \notin {v, u}
    BY <2>1, <2>3, <1>3
  <2> QED
    BY <2>2, <2>3
<1>10. ASSUME NEW w \in Vertices, NEW j \in 1..Len(winLists'[w])
       PROVE  \E k \in 1..Len(vfifo') :
                /\ vfifo'[k].time = winLists'[w][j].time
                /\ w \in {vfifo'[k].first, vfifo'[k].second}
  <2>1. PICK i \in 1..Len(winLists[w]) :
               /\ winLists'[w][j] = winLists[w][i]
               /\ w \in {v, u} => t < winLists[w][i].time
    BY <1>5
  <2>2. PICK k \in 1..Len(vfifo) :
          /\ vfifo[k].time = winLists[w][i].time
          /\ w \in {vfifo[k].first, vfifo[k].second}
    BY DEF WindowInv
  <2>3. k # 1
    <3>1. SUFFICES ASSUME k = 1 PROVE FALSE
      OBVIOUS
    <3>2. w \in {v, u} /\ winLists[w][i].time = t
      BY <3>1, <2>2, <1>e DEF t
    <3> QED
      BY <3>2, <2>1, <1>1
  <2>4. k - 1 \in 1..Len(vfifo') /\ vfifo'[k - 1] = vfifo[k]
    BY <2>3, <1>4
  <2> QED
    BY <2>1, <2>2, <2>4
<1>11. ASSUME NEW k \in 1..Len(vfifo')
       PROVE  \E j \in 1..Len(winLists'[vfifo'[k].first]) :
                /\ winLists'[vfifo'[k].first][j].to = vfifo'[k].second
                /\ winLists'[vfifo'[k].first][j].time = vfifo'[k].time
                /\ \E i \in 1..Len(winLists'[vfifo'[k].second]) :
                     winLists'[vfifo'[k].second][i] =
                       [to |-> vfifo'[k].first, time |-> vfifo'[k].time,
                        bytes |-> winLists'[vfifo'[k].first][j].bytes]
  <2> DEFINE e == vfifo[k + 1]
  <2>1. vfifo'[k] = e /\ k + 1 \in 1..Len(vfifo) /\ t < e.time
    BY <1>1, <1>4
  <2>2. PICK j \in 1..Len(winLists[e.first]) :
          /\ winLists[e.first][j].to = e.second
          /\ winLists[e.first][j].time = e.time
          /\ \E i \in 1..Len(winLists[e.second]) :
               winLists[e.second][i] =
                 [to |-> e.first, time |-> e.time,
                  bytes |-> winLists[e.first][j].bytes]
    BY <2>1 DEF WindowInv
  <2>3. e \in UEdge
    BY <2>1, <1>t
  <2> HIDE DEF e
  <2>4. PICK i \in 1..Len(winLists[e.second]) :
               winLists[e.second][i] =
                 [to |-> e.first, time |-> e.time,
                  bytes |-> winLists[e.first][j].bytes]
    BY <2>2
  <2>5. e.first \in Vertices /\ e.second \in Vertices /\ e.time \in Nat
    BY <2>3 DEF UEdge
  <2>6. e.time # t
    BY <2>1, <2>5, <1>1
  <2>7. PICK jj \in 1..Len(winLists'[e.first]) :
          winLists'[e.first][jj] = winLists[e.first][j]
    BY <2>2, <2>5, <2>6, <1>6
  <2>8. winLists[e.second][i].time = e.time
    BY <2>4
  <2>9. PICK ii \in 1..Len(winLists'[e.second]) :
          winLists'[e.second][ii] = winLists[e.second][i]
    BY <2>8, <2>5, <2>6, <1>6
  <2>10. /\ winLists'[e.first][jj].to = e.second
         /\ winLists'[e.first][jj].time = e.time
         /\ winLists'[e.second][ii] =
              [to |-> e.first, time |-> e.time,
               bytes |-> winLists'[e.first][jj].bytes]
    BY <2>2, <2>4, <2>7, <2>9
  <2> QED
    BY <2>1, <2>10, Zenon
<1> QED
  BY <1>2, <1>7, <1>8, <1>9, <1>10, <1>11, ZenonT(60) DEF WindowInv

\* What ExpAddEdge does to the lists, when v # u.
LEMMA ExpAddedLists ==
    ASSUME TypeOK, NEW v \in Vertices, NEW u \in Vertices, v # u,
           NEW t \in Nat, NEW d \in DataSizes,
           neigLists' = AddHalves(neigLists, v, u, t, d)
    PROVE  /\ neigLists' \in [Vertices -> Seq(HalfEdge)]
           /\ neigLists'[v] =
                Append(neigLists[v], [to |-> u, time |-> t, bytes |-> d])
           /\ neigLists'[u] =
                Append(neigLists[u], [to |-> v, time |-> t, bytes |-> d])
           /\ \A w \in Vertices \ {v, u} : neigLists'[w] = neigLists[w]
<1>t. neigLists \in [Vertices -> Seq(HalfEdge)]
  BY DEF TypeOK
<1>1. neigLists' \in [Vertices -> Seq(HalfEdge)]
  BY <1>t, AddedHalves
<1>2. neigLists'[v] = Append(neigLists[v], [to |-> u, time |-> t, bytes |-> d])
  BY <1>t DEF AddHalves
<1>3. neigLists'[u] = Append(neigLists[u], [to |-> v, time |-> t, bytes |-> d])
  BY <1>t DEF AddHalves
<1>4. \A w \in Vertices \ {v, u} : neigLists'[w] = neigLists[w]
  BY <1>t DEF AddHalves
<1> QED
  BY <1>1, <1>2, <1>3, <1>4

\* An appended half-edge adds its own time to the times of a list.
LEMMA AppendedTimes ==
    ASSUME NEW s \in Seq(HalfEdge), NEW h \in HalfEdge, NEW w, NEW x
    PROVE  (\E i \in 1..Len(Append(s, h)) : x = <<w, Append(s, h)[i].time>>)
           <=> (\E i \in 1..Len(s) : x = <<w, s[i].time>>) \/ x = <<w, h.time>>
<1>1. /\ \A j \in 1..Len(Append(s, h)) : j \in 1..Len(s) \/ j = Len(s) + 1
      /\ Append(s, h)[Len(s) + 1] = h
      /\ Len(s) + 1 \in 1..Len(Append(s, h))
      /\ \A j \in 1..Len(s) : /\ j \in 1..Len(Append(s, h))
                              /\ Append(s, h)[j] = s[j]
  OBVIOUS
<1>2. ASSUME NEW i \in 1..Len(Append(s, h)), x = <<w, Append(s, h)[i].time>>
      PROVE  (\E j \in 1..Len(s) : x = <<w, s[j].time>>) \/ x = <<w, h.time>>
  <2>1. CASE i \in 1..Len(s)
    BY <2>1, <1>1, <1>2, Zenon
  <2>2. CASE i = Len(s) + 1
    BY <2>2, <1>1, <1>2, Zenon
  <2> QED
    BY <2>1, <2>2, <1>1, Zenon
<1>3. ASSUME NEW j \in 1..Len(s), x = <<w, s[j].time>>
      PROVE  \E i \in 1..Len(Append(s, h)) : x = <<w, Append(s, h)[i].time>>
  BY <1>1, <1>3, Zenon
<1>4. ASSUME x = <<w, h.time>>
      PROVE  \E i \in 1..Len(Append(s, h)) : x = <<w, Append(s, h)[i].time>>
  BY <1>1, <1>4, Zenon
<1> QED
  BY <1>2, <1>3, <1>4, Zenon

\* A half-edge newer than the whole list of w is new to the map.
LEMMA BufferedAdd ==
    ASSUME TypeOK, SizeExact, NEW v \in Vertices, NEW u \in Vertices, v # u,
           NEW t \in Nat, NEW d \in DataSizes,
           \A w \in Vertices : \A i \in 1..Len(neigLists[w]) :
              neigLists[w][i].time < t,
           neigLists' = AddHalves(neigLists, v, u, t, d), size' = size + 2
    PROVE  SizeExact' /\ size' \in Nat
<1> DEFINE vHalf == [to |-> u, time |-> t, bytes |-> d]
           uHalf == [to |-> v, time |-> t, bytes |-> d]
<1>t. neigLists \in [Vertices -> Seq(HalfEdge)] /\ size \in Nat
  BY DEF TypeOK
<1>1. /\ neigLists'[v] = Append(neigLists[v], vHalf)
      /\ neigLists'[u] = Append(neigLists[u], uHalf)
      /\ \A w \in Vertices \ {v, u} : neigLists'[w] = neigLists[w]
  BY ExpAddedLists, ZenonT(60)
<1>2. vHalf \in HalfEdge /\ uHalf \in HalfEdge /\ vHalf.time = t /\ uHalf.time = t
  BY DEF HalfEdge
<1> HIDE DEF vHalf, uHalf
<1>3. ASSUME NEW w \in Vertices, NEW x
      PROVE  (\E i \in 1..Len(neigLists'[w]) : x = <<w, neigLists'[w][i].time>>)
             <=> \/ \E i \in 1..Len(neigLists[w]) : x = <<w, neigLists[w][i].time>>
                 \/ w \in {v, u} /\ x = <<w, t>>
  <2>1. neigLists[w] \in Seq(HalfEdge)
    BY <1>t
  <2>2. CASE w = v
    <3>1. neigLists'[w] = Append(neigLists[w], vHalf)
      BY <2>2, <1>1
    <3>2. vHalf \in HalfEdge /\ vHalf.time = t
      BY <1>2
    <3>3. (\E i \in 1..Len(Append(neigLists[w], vHalf)) :
             x = <<w, Append(neigLists[w], vHalf)[i].time>>)
          <=> \/ \E i \in 1..Len(neigLists[w]) : x = <<w, neigLists[w][i].time>>
              \/ x = <<w, vHalf.time>>
      BY <2>1, <3>2, AppendedTimes
    <3> QED
      BY <2>2, <3>1, <3>2, <3>3
  <2>3. CASE w = u
    <3>1. neigLists'[w] = Append(neigLists[w], uHalf)
      BY <2>3, <1>1
    <3>2. uHalf \in HalfEdge /\ uHalf.time = t
      BY <1>2
    <3>3. (\E i \in 1..Len(Append(neigLists[w], uHalf)) :
             x = <<w, Append(neigLists[w], uHalf)[i].time>>)
          <=> \/ \E i \in 1..Len(neigLists[w]) : x = <<w, neigLists[w][i].time>>
              \/ x = <<w, uHalf.time>>
      BY <2>1, <3>2, AppendedTimes
    <3> QED
      BY <2>3, <3>1, <3>2, <3>3
  <2>4. CASE w \notin {v, u}
    BY <2>4, <1>1
  <2> QED
    BY <2>2, <2>3, <2>4
<1>4. Buffered' = (Buffered \cup {<<v, t>>}) \cup {<<u, t>>}
  <2>1. ASSUME NEW x
        PROVE  x \in Buffered' <=> \E w \in Vertices : \E i \in 1..Len(neigLists'[w]) :
                                      x = <<w, neigLists'[w][i].time>>
    BY DEF Buffered
  <2>2. ASSUME NEW x
        PROVE  x \in Buffered <=> \E w \in Vertices : \E i \in 1..Len(neigLists[w]) :
                                      x = <<w, neigLists[w][i].time>>
    BY DEF Buffered
  <2>3. ASSUME NEW x
        PROVE  x \in Buffered' <=> x \in Buffered \/ x = <<v, t>> \/ x = <<u, t>>
    BY <1>3, <2>1, <2>2
  <2> QED
    BY <2>3
<1>5. <<v, t>> \notin Buffered /\ <<u, t>> \notin Buffered \cup {<<v, t>>}
  <2>1. \A w \in Vertices : \A i \in 1..Len(neigLists[w]) :
           neigLists[w][i].time # t
    OBVIOUS
  <2> QED
    BY <2>1 DEF Buffered
<1>6. IsFiniteSet(Buffered)
  BY BufferedFinite
<1>7. /\ IsFiniteSet(Buffered \cup {<<v, t>>})
      /\ Cardinality(Buffered \cup {<<v, t>>}) = Cardinality(Buffered) + 1
  BY <1>5, <1>6, FS_AddElement
<1>8. Cardinality((Buffered \cup {<<v, t>>}) \cup {<<u, t>>})
        = Cardinality(Buffered) + 1 + 1
  BY <1>5, <1>7, FS_AddElement
<1>9. size = Cardinality(Buffered)
  BY DEF SizeExact
<1>10. size' = Cardinality(Buffered')
  BY <1>t, <1>4, <1>8, <1>9
<1> QED
  BY <1>t, <1>10 DEF SizeExact
\* The oldest edge of the window moves into the expiration map.
LEMMA ExpireInv ==
    ASSUME IndInv, Expire
    PROVE  IndInv'
<1> DEFINE edge == Head(vfifo)
           v == edge.first
           u == edge.second
           t == edge.time
           d == Head(winLists[v]).bytes
<1>0. TypeOK /\ WindowInv /\ ExpiredInv /\ FormingInv /\ SizeExact
  BY DEF IndInv
<1>1. /\ pc = "out"
      /\ winLists' = RemoveEdge(winLists, edge)
      /\ ExpAddEdge(v, u, t, d)
      /\ vfifo' = Tail(vfifo) /\ UNCHANGED <<lastTime, op>>
  BY DEF Expire
<1>2. vfifo # <<>>
  BY <1>0, WindowAssumption DEF Expire, HasExpiredEdges, TypeOK
<1>3. /\ v \in Vertices /\ u \in Vertices /\ t \in Nat /\ v # u
      /\ t <= lastTime /\ Head(winLists[v]) \in HalfEdge
      /\ \A k \in 1..Len(vfifo) : k # 1 => t < vfifo[k].time
  BY <1>0, <1>2, WindowHead, Zenon
<1>4. d \in DataSizes
  BY <1>3 DEF HalfEdge
<1>5. WindowInv' /\ winLists' \in [Vertices -> Seq(HalfEdge)]
  BY <1>0, <1>1, <1>2, ExpireWindow, Zenon
<1>6. /\ neigLists' = AddHalves(neigLists, v, u, t, d)
      /\ scoreQueue' = UpdateItem(UpdateItem(scoreQueue, Score(neigLists'[v], 0), v),
                                  Score(neigLists'[u], 0), u)
      /\ size' = size + 2
      /\ pc' \in {"out", "getBlock"}
      /\ UNCHANGED <<block, bytes, headVertex, stored>>
  BY <1>1 DEF ExpAddEdge, WriteBlock
<1>7. vfifo \in Seq(UEdge) /\ lastTime \in Nat /\ neigLists \in [Vertices -> Seq(HalfEdge)]
  BY <1>0 DEF TypeOK
<1>8. vfifo[1].time = t /\ 1 \in 1..Len(vfifo)
  BY <1>2, <1>7
<1>9. \A w \in Vertices : \A i \in 1..Len(neigLists[w]) : neigLists[w][i].time < t
  BY <1>0, <1>8 DEF ExpiredInv
<1> HIDE DEF edge, v, u, t, d
<1>10. SizeExact' /\ size' \in Nat
  BY <1>0, <1>3, <1>4, <1>6, <1>9, BufferedAdd, Zenon
<1> DEFINE vHalf == [to |-> u, time |-> t, bytes |-> d]
           uHalf == [to |-> v, time |-> t, bytes |-> d]
<1>11. /\ neigLists' \in [Vertices -> Seq(HalfEdge)]
       /\ neigLists'[v] = Append(neigLists[v], vHalf)
       /\ neigLists'[u] = Append(neigLists[u], uHalf)
       /\ \A w \in Vertices \ {v, u} : neigLists'[w] = neigLists[w]
  BY <1>0, <1>3, <1>4, <1>6, ExpAddedLists, Zenon
<1>12. vHalf \in HalfEdge /\ uHalf \in HalfEdge /\ vHalf.time = t /\ uHalf.time = t
  BY <1>3, <1>4 DEF HalfEdge
<1> HIDE DEF vHalf, uHalf
<1>13. /\ DOMAIN scoreQueue' = DOMAIN scoreQueue \cup {v, u}
       /\ scoreQueue'[v] = Score(neigLists'[v], 0)
       /\ scoreQueue'[u] = Score(neigLists'[u], 0)
       /\ \A w \in DOMAIN scoreQueue \ {v, u} : scoreQueue'[w] = scoreQueue[w]
  BY <1>3, <1>6 DEF UpdateItem
<1>14. 0 < Len(neigLists'[v]) /\ 0 < Len(neigLists'[u])
  <2>1. neigLists[v] \in Seq(HalfEdge) /\ neigLists[u] \in Seq(HalfEdge)
    BY <1>3, <1>7
  <2> QED
    BY <2>1, <1>11, <1>12
<1>15. TypeOK'
  <2>1. scoreQueue'[v] \in Int /\ scoreQueue'[u] \in Int
    <3>1. neigLists'[v] \in Seq(HalfEdge) /\ neigLists'[u] \in Seq(HalfEdge)
      BY <1>3, <1>11
    <3>2. Score(neigLists'[v], 0) \in Int /\ Score(neigLists'[u], 0) \in Int
      BY <3>1, <1>14, ScoreType
    <3> QED
      BY <3>2, <1>13
  <2>2. /\ DOMAIN scoreQueue' \subseteq Vertices
        /\ \A w \in DOMAIN scoreQueue' : scoreQueue'[w] \in Int
    <3>1. /\ DOMAIN scoreQueue \subseteq Vertices
          /\ \A w \in DOMAIN scoreQueue : scoreQueue[w] \in Int
      BY <1>0 DEF TypeOK
    <3> QED
      BY <3>1, <2>1, <1>3, <1>13
  <2>3. vfifo' \in Seq(UEdge)
    BY <1>1, <1>2, <1>7
  <2>4. /\ lastTime' \in Nat /\ op' \in {"none", "addEdge", "flush"}
        /\ stored' \in [Vertices -> Seq(HalfEdge)] /\ bytes' \in Nat
        /\ block' \in [Vertices -> Seq(HalfEdge)]
        /\ headVertex' \in Vertices \cup {NoVertex}
    BY <1>0, <1>1, <1>6 DEF TypeOK
  <2> QED
    BY <2>2, <2>3, <2>4, <1>5, <1>6, <1>10, <1>11 DEF TypeOK
<1>16. ExpiredInv'
  <2> SUFFICES ASSUME NEW w \in Vertices
               PROVE  /\ Sorted(neigLists'[w])
                      /\ \A i \in 1..Len(neigLists'[w]) :
                           /\ neigLists'[w][i].time <= lastTime'
                           /\ \A k \in 1..Len(vfifo') :
                                neigLists'[w][i].time < vfifo'[k].time
    BY DEF ExpiredInv
  <2>1. neigLists[w] \in Seq(HalfEdge) /\ Sorted(neigLists[w])
    BY <1>0, <1>7 DEF ExpiredInv
  <2>2. /\ \A i \in 1..Len(neigLists[w]) : neigLists[w][i].time < vHalf.time
        /\ \A i \in 1..Len(neigLists[w]) : neigLists[w][i].time < uHalf.time
    BY <1>9, <1>12
  <2>3. Sorted(Append(neigLists[w], vHalf)) /\ Sorted(Append(neigLists[w], uHalf))
    BY <2>1, <2>2, <1>12, SortedAppend
  <2>4. Sorted(neigLists'[w])
    BY <2>1, <2>3, <1>11
  <2>5. ASSUME NEW i \in 1..Len(neigLists'[w])
        PROVE  \/ i \in 1..Len(neigLists[w]) /\ neigLists'[w][i] = neigLists[w][i]
               \/ neigLists'[w][i].time = t
    <3>1. CASE w = v
      <4>1. neigLists'[w] = Append(neigLists[w], vHalf)
        BY <3>1, <1>11
      <4> QED
        BY <4>1, <2>1, <1>12
    <3>2. CASE w = u
      <4>1. neigLists'[w] = Append(neigLists[w], uHalf)
        BY <3>2, <1>11
      <4> QED
        BY <4>1, <2>1, <1>12
    <3>3. CASE w \notin {v, u}
      BY <3>3, <1>11
    <3> QED
      BY <3>1, <3>2, <3>3
  <2>6. ASSUME NEW k \in 1..Len(vfifo')
        PROVE  /\ t < vfifo'[k].time
               /\ \A i \in 1..Len(neigLists[w]) :
                    neigLists[w][i].time < vfifo'[k].time
    <3>1. vfifo'[k] = vfifo[k + 1] /\ k + 1 \in 1..Len(vfifo) /\ k + 1 # 1
      BY <1>1, <1>2, <1>7
    <3> QED
      BY <3>1, <1>0, <1>3 DEF ExpiredInv
  <2>7. \A i \in 1..Len(neigLists[w]) : neigLists[w][i].time <= lastTime
    BY <1>0 DEF ExpiredInv
  <2>8. ASSUME NEW i \in 1..Len(neigLists'[w])
        PROVE  /\ neigLists'[w][i].time <= lastTime'
               /\ \A k \in 1..Len(vfifo') :
                    neigLists'[w][i].time < vfifo'[k].time
    BY <2>5, <2>6, <2>7, <1>1, <1>3
  <2> QED
    BY <2>4, <2>8
<1>17. FormingInv'
  <2>1. block = EmptyLists /\ bytes = BlockHeaderBytes /\ headVertex = NoVertex
    BY <1>0, <1>1 DEF FormingInv
  <2>2. block' = EmptyLists /\ bytes' = BlockHeaderBytes /\ headVertex' = NoVertex
    BY <2>1, <1>6
  <2>3. \A w \in Vertices : Len(block'[w]) = 0 /\ block'[w] = <<>>
    BY <2>2 DEF EmptyLists
  <2>4. \A w \in Vertices : /\ Len(block'[w]) <= Len(neigLists'[w])
                            /\ block'[w] = SubSeq(neigLists'[w], 1, Len(block'[w]))
    BY <2>3, <1>11, EmptyPrefix
  <2>5. /\ DOMAIN scoreQueue = {w \in Vertices : 0 < Len(neigLists[w])}
        /\ \A w \in DOMAIN scoreQueue : scoreQueue[w] = Score(neigLists[w], 0)
    <3>1. \A w \in Vertices : Len(block[w]) = 0
      BY <2>1 DEF EmptyLists
    <3> QED
      BY <3>1, <1>0 DEF FormingInv
  <2>6. DOMAIN scoreQueue' = {w \in Vertices : Len(block'[w]) < Len(neigLists'[w])}
    BY <2>3, <2>5, <1>3, <1>11, <1>13, <1>14
  <2>7. \A w \in DOMAIN scoreQueue' : scoreQueue'[w] = Score(neigLists'[w], Len(block'[w]))
    BY <2>3, <2>5, <1>3, <1>11, <1>13
  <2> QED
    BY <2>2, <2>4, <2>6, <2>7 DEF FormingInv
<1> QED
  BY <1>5, <1>10, <1>15, <1>16, <1>17 DEF IndInv
\* getBlock takes the next half-edge of a vertex at the top of the queue.
LEMMA TakeEdgeInv ==
    ASSUME IndInv, TakeEdge, UNCHANGED memVars
    PROVE  IndInv'
<1>0. TypeOK /\ WindowInv /\ ExpiredInv /\ FormingInv /\ SizeExact
  BY DEF IndInv
<1>1. PICK v \in TopItems(scoreQueue) :
        LET i == Len(block[v])
            edge == neigLists[v][i + 1]
        IN  /\ headVertex' = v
            /\ bytes' = bytes + AddedBytes(block, v, edge)
            /\ block' = [block EXCEPT ![v] = Append(@, edge)]
            /\ scoreQueue' =
                 IF i = Len(neigLists[v]) - 1
                 THEN RemoveItem(scoreQueue, v)
                 ELSE UpdateItem(scoreQueue, Score(neigLists[v], i + 1), v)
  BY DEF TakeEdge
<1> DEFINE i == Len(block[v])
           edge == neigLists[v][i + 1]
<1>2. /\ UNCHANGED <<neigLists, size, pc, stored>> /\ pc = "getBlock"
      /\ UNCHANGED <<winLists, vfifo, lastTime, op>>
  BY DEF TakeEdge, memVars
<1>3. v \in DOMAIN scoreQueue /\ v \in Vertices
  BY <1>0 DEF TopItems, TypeOK
<1>4. /\ block[v] \in Seq(HalfEdge) /\ neigLists[v] \in Seq(HalfEdge)
      /\ block \in [Vertices -> Seq(HalfEdge)]
      /\ neigLists \in [Vertices -> Seq(HalfEdge)] /\ bytes \in Nat
  BY <1>0, <1>3 DEF TypeOK
<1>5. /\ i \in Nat /\ i < Len(neigLists[v])
      /\ block[v] = SubSeq(neigLists[v], 1, i)
  BY <1>0, <1>3, <1>4 DEF FormingInv
<1>6. /\ headVertex' = v
      /\ bytes' = bytes + AddedBytes(block, v, edge)
      /\ block' = [block EXCEPT ![v] = Append(@, edge)]
  BY <1>1
<1>7. scoreQueue' = IF i = Len(neigLists[v]) - 1
                    THEN RemoveItem(scoreQueue, v)
                    ELSE UpdateItem(scoreQueue, Score(neigLists[v], i + 1), v)
  BY <1>1
<1>8. /\ edge \in HalfEdge
      /\ Append(SubSeq(neigLists[v], 1, i), edge) = SubSeq(neigLists[v], 1, i + 1)
      /\ SubSeq(neigLists[v], 1, i + 1) \in Seq(HalfEdge)
      /\ Len(SubSeq(neigLists[v], 1, i + 1)) = i + 1
      /\ SubSeq(neigLists[v], 1, i + 1) # <<>>
  BY <1>4, <1>5, LongerPrefix
<1> HIDE DEF edge
<1>9. /\ block'[v] = SubSeq(neigLists[v], 1, i + 1)
      /\ \A w \in Vertices \ {v} : block'[w] = block[w]
      /\ block' = [w \in Vertices |-> block'[w]]
  <2>1. block'[v] = Append(block[v], edge)
    BY <1>3, <1>4, <1>6
  <2>2. \A w \in Vertices \ {v} : block'[w] = block[w]
    BY <1>4, <1>6
  <2>3. block' = [w \in Vertices |-> block'[w]]
    BY <1>4, <1>6
  <2> QED
    BY <2>1, <2>2, <2>3, <1>5, <1>8
<1>10. block' \in [Vertices -> Seq(HalfEdge)]
  <2>1. \A w \in Vertices : block'[w] \in Seq(HalfEdge)
    BY <1>4, <1>8, <1>9
  <2> QED
    BY <2>1, <1>9
<1>11. bytes' \in Nat
  <2>1. AddedBytes(block, v, edge) \in Nat
    BY <1>3, <1>4, <1>8, AddedBytesType
  <2> QED
    BY <2>1, <1>4, <1>6
<1>12. Len(block'[v]) = i + 1 /\ block'[v] # <<>>
  BY <1>8, <1>9
<1> HIDE DEF i
<1> DEFINE QueueOK ==
             /\ TypeOK'
             /\ DOMAIN scoreQueue' =
                  {w \in Vertices : Len(block'[w]) < Len(neigLists'[w])}
             /\ \A w \in DOMAIN scoreQueue' :
                  scoreQueue'[w] = Score(neigLists'[w], Len(block'[w]))
<1>13. ASSUME i = Len(neigLists[v]) - 1 PROVE QueueOK
  <2>1. /\ DOMAIN scoreQueue' = DOMAIN scoreQueue \ {v}
        /\ \A w \in DOMAIN scoreQueue' : scoreQueue'[w] = scoreQueue[w]
    BY <1>7, <1>13 DEF RemoveItem
  <2>2. TypeOK'
    BY <2>1, <1>0, <1>2, <1>3, <1>6, <1>10, <1>11 DEF TypeOK
  <2>3. DOMAIN scoreQueue' = {w \in Vertices : Len(block'[w]) < Len(neigLists'[w])}
    <3>1. ~ (Len(block'[v]) < Len(neigLists'[v]))
      BY <1>2, <1>12, <1>13, <1>4
    <3>2. \A w \in Vertices \ {v} : Len(block'[w]) = Len(block[w])
      BY <1>9
    <3>3. DOMAIN scoreQueue = {w \in Vertices : Len(block[w]) < Len(neigLists[w])}
      BY <1>0 DEF FormingInv
    <3> QED
      BY <3>1, <3>2, <3>3, <2>1, <1>2, <1>3
  <2>4. \A w \in DOMAIN scoreQueue' :
           scoreQueue'[w] = Score(neigLists'[w], Len(block'[w]))
    BY <2>1, <1>0, <1>2, <1>9 DEF FormingInv, TypeOK
  <2> QED
    BY <2>2, <2>3, <2>4
<1>14. ASSUME i # Len(neigLists[v]) - 1 PROVE QueueOK
  <2>1. /\ DOMAIN scoreQueue' = DOMAIN scoreQueue
        /\ scoreQueue'[v] = Score(neigLists[v], i + 1)
        /\ \A w \in DOMAIN scoreQueue' \ {v} : scoreQueue'[w] = scoreQueue[w]
    BY <1>3, <1>7, <1>14 DEF UpdateItem
  <2>2. TypeOK'
    <3>1. i + 1 < Len(neigLists[v]) /\ i + 1 \in Nat
      BY <1>4, <1>5, <1>14
    <3>2. Score(neigLists[v], i + 1) \in Int
      BY <3>1, <1>4, ScoreType
    <3>3. \A w \in DOMAIN scoreQueue' : scoreQueue'[w] \in Int
      BY <3>2, <2>1, <1>0 DEF TypeOK
    <3> QED
      BY <3>3, <2>1, <1>0, <1>2, <1>3, <1>6, <1>10, <1>11 DEF TypeOK
  <2>3. DOMAIN scoreQueue' = {w \in Vertices : Len(block'[w]) < Len(neigLists'[w])}
    <3>1. Len(block'[v]) < Len(neigLists'[v])
      BY <1>2, <1>5, <1>12, <1>14, <1>4
    <3>2. \A w \in Vertices \ {v} : Len(block'[w]) = Len(block[w])
      BY <1>9
    <3>3. DOMAIN scoreQueue = {w \in Vertices : Len(block[w]) < Len(neigLists[w])}
      BY <1>0 DEF FormingInv
    <3> QED
      BY <3>1, <3>2, <3>3, <2>1, <1>2, <1>3
  <2>4. \A w \in DOMAIN scoreQueue' :
           scoreQueue'[w] = Score(neigLists'[w], Len(block'[w]))
    <3>1. \A w \in DOMAIN scoreQueue' \ {v} :
             scoreQueue'[w] = Score(neigLists'[w], Len(block'[w]))
      BY <2>1, <1>0, <1>2, <1>9 DEF FormingInv, TypeOK
    <3>2. scoreQueue'[v] = Score(neigLists'[v], Len(block'[v]))
      BY <2>1, <1>2, <1>12
    <3> QED
      BY <3>1, <3>2
  <2> QED
    BY <2>2, <2>3, <2>4
<1>15. \A w \in Vertices : /\ Len(block'[w]) <= Len(neigLists'[w])
                           /\ block'[w] = SubSeq(neigLists'[w], 1, Len(block'[w]))
  <2>1. Len(block'[v]) <= Len(neigLists'[v])
    BY <1>2, <1>4, <1>5, <1>12
  <2>2. block'[v] = SubSeq(neigLists'[v], 1, Len(block'[v]))
    BY <1>2, <1>9, <1>12
  <2>3. ASSUME NEW w \in Vertices \ {v}
        PROVE  /\ Len(block'[w]) <= Len(neigLists'[w])
               /\ block'[w] = SubSeq(neigLists'[w], 1, Len(block'[w]))
    BY <1>0, <1>2, <1>9 DEF FormingInv
  <2> QED
    BY <2>1, <2>2, <2>3
<1>16. FormingInv'
  <2>1. headVertex' # NoVertex /\ block'[headVertex'] # <<>> /\ pc' # "out"
    BY <1>2, <1>3, <1>6, <1>12, ExpirationMapAssumption
  <2> QED
    BY <2>1, <1>13, <1>14, <1>15 DEF FormingInv
<1>17. WindowInv'
  BY <1>0, <1>2, WindowSame
<1>18. ExpiredInv'
  BY <1>0, <1>2 DEF ExpiredInv
<1>19. SizeExact'
  BY <1>0, <1>2 DEF SizeExact, Buffered
<1> QED
  BY <1>13, <1>14, <1>16, <1>17, <1>18, <1>19 DEF IndInv
-----------------------------------------------------------------------------
(* The end of getBlock and removeEdges. *)

\* The block handed over is made of prefixes of the lists, and the queue of
\* the vertices with half-edges left.
LEMMA Formed ==
    ASSUME TypeOK, FormingInv
    PROVE  /\ FormedBlock \in [Vertices -> Seq(HalfEdge)]
           /\ \A w \in Vertices :
                /\ Len(FormedBlock[w]) <= Len(neigLists[w])
                /\ FormedBlock[w] = SubSeq(neigLists[w], 1, Len(FormedBlock[w]))
           /\ DOMAIN FormedQueue =
                {w \in Vertices : Len(FormedBlock[w]) < Len(neigLists[w])}
           /\ \A w \in DOMAIN FormedQueue :
                FormedQueue[w] = Score(neigLists[w], Len(FormedBlock[w]))
<1>t. /\ neigLists \in [Vertices -> Seq(HalfEdge)]
      /\ block \in [Vertices -> Seq(HalfEdge)]
      /\ bytes \in Nat /\ headVertex \in Vertices \cup {NoVertex}
  BY DEF TypeOK
<1>1. CASE ~ (bytes > BlockSize)
  <2>1. FormedBlock = block /\ FormedQueue = scoreQueue
    BY <1>1 DEF FormedBlock, FormedQueue
  <2> QED
    BY <2>1, <1>t DEF FormingInv
<1>2. CASE bytes > BlockSize
  <2> DEFINE v == headVertex
             n == Len(block[v])
  <2>1. v \in Vertices /\ block[v] # <<>>
    BY <1>t, <1>2, ConstantTypes, ExpirationMapAssumption DEF FormingInv
  <2>2. /\ FormedBlock = [block EXCEPT ![v] = SubSeq(@, 1, Len(@) - 1)]
        /\ FormedQueue = UpdateItem(scoreQueue,
                           Score(neigLists[v], Len(FormedBlock[v])), v)
    BY <1>2 DEF FormedBlock, FormedQueue, RemoveNewestEdge
  <2>3. /\ neigLists[v] \in Seq(HalfEdge) /\ block[v] \in Seq(HalfEdge)
        /\ n \in Nat /\ n # 0 /\ n <= Len(neigLists[v])
        /\ block[v] = SubSeq(neigLists[v], 1, n)
    BY <1>t, <2>1 DEF FormingInv
  <2>4. /\ FormedBlock[v] = SubSeq(block[v], 1, n - 1)
        /\ \A w \in Vertices \ {v} : FormedBlock[w] = block[w]
        /\ FormedBlock = [w \in Vertices |-> FormedBlock[w]]
    <3>1. FormedBlock[v] = SubSeq(block[v], 1, n - 1)
      BY <1>t, <2>1, <2>2
    <3>2. \A w \in Vertices \ {v} : FormedBlock[w] = block[w]
      BY <1>t, <2>2
    <3>3. FormedBlock = [w \in Vertices |-> FormedBlock[w]]
      BY <1>t, <2>2
    <3> QED
      BY <3>1, <3>2, <3>3
  <2> HIDE DEF v, n
  <2>5. /\ FormedBlock[v] = SubSeq(neigLists[v], 1, n - 1)
        /\ FormedBlock[v] \in Seq(HalfEdge)
        /\ Len(FormedBlock[v]) = n - 1
    BY <2>3, <2>4, ShorterPrefix
  <2>6. FormedBlock \in [Vertices -> Seq(HalfEdge)]
    <3>1. \A w \in Vertices : FormedBlock[w] \in Seq(HalfEdge)
      BY <1>t, <2>4, <2>5
    <3> QED
      BY <3>1, <2>4
  <2>7. ASSUME NEW w \in Vertices
        PROVE  /\ Len(FormedBlock[w]) <= Len(neigLists[w])
               /\ FormedBlock[w] = SubSeq(neigLists[w], 1, Len(FormedBlock[w]))
    <3>1. CASE w = v
      BY <3>1, <2>3, <2>5
    <3>2. CASE w # v
      BY <3>2, <2>4 DEF FormingInv
    <3> QED
      BY <3>1, <3>2
  <2>8. /\ DOMAIN FormedQueue = DOMAIN scoreQueue \cup {v}
        /\ FormedQueue[v] = Score(neigLists[v], Len(FormedBlock[v]))
        /\ \A w \in DOMAIN scoreQueue \ {v} : FormedQueue[w] = scoreQueue[w]
    BY <2>2 DEF UpdateItem
  <2>9. /\ DOMAIN scoreQueue = {w \in Vertices : Len(block[w]) < Len(neigLists[w])}
        /\ \A w \in DOMAIN scoreQueue :
             scoreQueue[w] = Score(neigLists[w], Len(block[w]))
    BY DEF FormingInv
  <2>10. DOMAIN FormedQueue =
           {w \in Vertices : Len(FormedBlock[w]) < Len(neigLists[w])}
    <3>1. Len(FormedBlock[v]) < Len(neigLists[v])
      BY <2>3, <2>5
    <3>2. \A w \in Vertices \ {v} : Len(FormedBlock[w]) = Len(block[w])
      BY <2>4
    <3> QED
      BY <3>1, <3>2, <2>1, <2>8, <2>9 DEF v
  <2>11. \A w \in DOMAIN FormedQueue :
           FormedQueue[w] = Score(neigLists[w], Len(FormedBlock[w]))
    BY <2>4, <2>8, <2>9
  <2> QED
    BY <2>6, <2>7, <2>10, <2>11
<1> QED
  BY <1>1, <1>2

\* removeEdges pops exactly the half-edges that went into the block.
LEMMA PoppedExact ==
    ASSUME NEW s \in Seq(HalfEdge), Sorted(s), NEW n \in Nat, n <= Len(s)
    PROVE  Popped(s, SubSeq(s, 1, n)) = n
<1> DEFINE taken == SubSeq(s, 1, n)
<1>1. taken \in Seq(HalfEdge) /\ Len(taken) = n
  OBVIOUS
<1>2. CASE n = 0
  <2>1. taken = <<>>
    BY <1>2
  <2> QED
    BY <2>1, <1>2 DEF Popped
<1>3. CASE n # 0
  <2>1. taken # <<>> /\ taken[Len(taken)] = s[n] /\ n \in 1..Len(s)
    BY <1>1, <1>3
  <2> HIDE DEF taken
  <2> DEFINE P(m) == /\ s[m].to = s[n].to /\ s[m].time = s[n].time
                     /\ ~ HasEdge(SubSeq(s, 1, m - 1), s[n].to, s[n].time)
  <2>2. Popped(s, taken) = CHOOSE m \in 1..Len(s) : P(m)
    BY <2>1 DEF Popped
  <2>3. ASSUME NEW m \in 1..Len(s), s[m].time = s[n].time
        PROVE  m = n
    <3>1. \A i \in 1..Len(s) : s[i] \in HalfEdge
      OBVIOUS
    <3>2. s[m].time \in Nat /\ s[n].time \in Nat
      BY <3>1, <2>1 DEF HalfEdge
    <3> QED
      BY <2>1, <2>3, <3>2 DEF Sorted
  <2>4. P(n)
    <3>1. SUFFICES ASSUME NEW i \in 1..Len(SubSeq(s, 1, n - 1)),
                          SubSeq(s, 1, n - 1)[i].time = s[n].time
                   PROVE  FALSE
      BY DEF HasEdge
    <3>2. i \in 1..Len(s) /\ i < n /\ SubSeq(s, 1, n - 1)[i] = s[i]
      BY <2>1
    <3> QED
      BY <3>1, <3>2, <2>3
  <2>5. \A m \in 1..Len(s) : P(m) => m = n
    BY <2>3
  <2> HIDE DEF P
  <2>6. (CHOOSE m \in 1..Len(s) : P(m)) = n
    BY <2>1, <2>4, <2>5
  <2> QED
    BY <2>2, <2>6 DEF taken
<1> QED
  BY <1>2, <1>3
\* What removeEdges leaves of a list, once a prefix of it is popped.
LEMMA Suffix ==
    ASSUME NEW s \in Seq(HalfEdge), NEW n \in Nat, n <= Len(s)
    PROVE  /\ SubSeq(s, n + 1, Len(s)) \in Seq(HalfEdge)
           /\ Len(SubSeq(s, n + 1, Len(s))) = Len(s) - n
           /\ \A i \in 1..Len(SubSeq(s, n + 1, Len(s))) :
                /\ n + i \in 1..Len(s)
                /\ SubSeq(s, n + 1, Len(s))[i] = s[n + i]
OBVIOUS

\* What is left of the lists, and of the queue, when removeEdges returns.
LEMMA Remaining ==
    ASSUME TypeOK, FormingInv, ExpiredInv
    PROVE  /\ \A w \in Vertices :
                /\ Popped(neigLists[w], FormedBlock[w]) = Len(FormedBlock[w])
                /\ RemainingLists[w] = SubSeq(neigLists[w],
                     Len(FormedBlock[w]) + 1, Len(neigLists[w]))
           /\ RemainingLists \in [Vertices -> Seq(HalfEdge)]
           /\ DOMAIN RemainingQueue =
                {w \in Vertices : 0 < Len(RemainingLists[w])}
           /\ \A w \in DOMAIN RemainingQueue :
                RemainingQueue[w] = Score(RemainingLists[w], 0)
<1>t. neigLists \in [Vertices -> Seq(HalfEdge)]
  BY DEF TypeOK
<1>1. /\ FormedBlock \in [Vertices -> Seq(HalfEdge)]
      /\ \A w \in Vertices :
           /\ Len(FormedBlock[w]) <= Len(neigLists[w])
           /\ FormedBlock[w] = SubSeq(neigLists[w], 1, Len(FormedBlock[w]))
      /\ DOMAIN FormedQueue =
           {w \in Vertices : Len(FormedBlock[w]) < Len(neigLists[w])}
      /\ \A w \in DOMAIN FormedQueue :
           FormedQueue[w] = Score(neigLists[w], Len(FormedBlock[w]))
  BY Formed
<1>2. ASSUME NEW w \in Vertices
      PROVE  /\ Popped(neigLists[w], FormedBlock[w]) = Len(FormedBlock[w])
             /\ RemainingLists[w] = SubSeq(neigLists[w],
                     Len(FormedBlock[w]) + 1, Len(neigLists[w]))
             /\ RemainingLists[w] \in Seq(HalfEdge)
             /\ Len(RemainingLists[w]) = Len(neigLists[w]) - Len(FormedBlock[w])
             /\ Len(FormedBlock[w]) = 0 => RemainingLists[w] = neigLists[w]
  <2> DEFINE n == Len(FormedBlock[w])
  <2>1. /\ neigLists[w] \in Seq(HalfEdge) /\ Sorted(neigLists[w])
        /\ n \in Nat /\ n <= Len(neigLists[w])
    <3>1. neigLists[w] \in Seq(HalfEdge) /\ FormedBlock[w] \in Seq(HalfEdge)
      BY <1>t, <1>1
    <3>2. Sorted(neigLists[w])
      BY Zenon DEF ExpiredInv
    <3>3. n \in Nat
      BY <3>1
    <3>4. n <= Len(neigLists[w])
      BY <1>1, Zenon
    <3> QED
      BY <3>1, <3>2, <3>3, <3>4
  <2>2. FormedBlock[w] = SubSeq(neigLists[w], 1, n)
    BY <1>1
  <2>3. Popped(neigLists[w], FormedBlock[w]) = n
    BY <2>1, <2>2, PoppedExact
  <2>4. RemainingLists[w] = SubSeq(neigLists[w],
           Popped(neigLists[w], FormedBlock[w]) + 1, Len(neigLists[w]))
    BY DEF RemainingLists
  <2>5. RemainingLists[w] = SubSeq(neigLists[w], n + 1, Len(neigLists[w]))
    BY <2>3, <2>4
  <2> HIDE DEF n
  <2>6. /\ RemainingLists[w] \in Seq(HalfEdge)
        /\ Len(RemainingLists[w]) = Len(neigLists[w]) - n
    BY <2>1, <2>5, Suffix
  <2>7. n = 0 => RemainingLists[w] = neigLists[w]
    BY <2>1, <2>5
  <2> QED
    BY <2>3, <2>5, <2>6, <2>7 DEF n
<1>3. RemainingLists \in [Vertices -> Seq(HalfEdge)]
  <2>1. RemainingLists = [w \in Vertices |-> RemainingLists[w]]
    BY DEF RemainingLists
  <2> QED
    BY <2>1, <1>2
<1> DEFINE heads == {w \in Vertices : FormedBlock[w] # <<>>}
           gone == {w \in heads : RemainingLists[w] = <<>>}
<1>4. /\ DOMAIN RemainingQueue = (DOMAIN FormedQueue \cup heads) \ gone
      /\ \A w \in DOMAIN RemainingQueue :
           RemainingQueue[w] = IF w \in heads THEN Score(RemainingLists[w], 0)
                                              ELSE FormedQueue[w]
  BY DEF RemainingQueue
<1>5. \A w \in Vertices : /\ w \in heads <=> Len(FormedBlock[w]) # 0
                          /\ w \in gone <=> w \in heads /\ Len(RemainingLists[w]) = 0
                          /\ Len(FormedBlock[w]) \in Nat /\ Len(neigLists[w]) \in Nat
  <2>1. ASSUME NEW w \in Vertices
        PROVE  /\ FormedBlock[w] \in Seq(HalfEdge) /\ RemainingLists[w] \in Seq(HalfEdge)
               /\ neigLists[w] \in Seq(HalfEdge)
    BY <1>1, <1>3, <1>t
  <2> QED
    BY <2>1
<1> HIDE DEF heads, gone
<1>7. heads \subseteq Vertices /\ gone \subseteq heads
  BY DEF heads, gone
<1>6. DOMAIN RemainingQueue = {w \in Vertices : 0 < Len(RemainingLists[w])}
  <2>1. ASSUME NEW w \in Vertices
        PROVE  w \in DOMAIN RemainingQueue <=> 0 < Len(RemainingLists[w])
    <3>1. /\ Len(RemainingLists[w]) = Len(neigLists[w]) - Len(FormedBlock[w])
          /\ w \in DOMAIN FormedQueue <=> Len(FormedBlock[w]) < Len(neigLists[w])
          /\ Len(FormedBlock[w]) <= Len(neigLists[w])
      BY <1>1, <1>2
    <3>2. w \in DOMAIN RemainingQueue <=>
            (w \in DOMAIN FormedQueue \/ w \in heads) /\ w \notin gone
      BY <1>4
    <3>3. /\ w \in heads <=> Len(FormedBlock[w]) # 0
          /\ w \in gone <=> w \in heads /\ Len(RemainingLists[w]) = 0
          /\ Len(FormedBlock[w]) \in Nat /\ Len(neigLists[w]) \in Nat
      BY <1>5
    <3>4. 0 < Len(RemainingLists[w]) <=> Len(FormedBlock[w]) < Len(neigLists[w])
      <4>1. ASSUME NEW a \in Nat, NEW b \in Nat
            PROVE  0 < a - b <=> b < a
        OBVIOUS
      <4>2. 0 < Len(neigLists[w]) - Len(FormedBlock[w])
              <=> Len(FormedBlock[w]) < Len(neigLists[w])
        BY <4>1, <3>3, Zenon
      <4> QED
        BY <4>2, <3>1, Zenon
    <3>5. Len(RemainingLists[w]) = 0 <=> ~ (Len(FormedBlock[w]) < Len(neigLists[w]))
      BY <3>1, <3>3
    <3> QED
      BY <3>1, <3>2, <3>3, <3>4, <3>5, Zenon
  <2>2. DOMAIN RemainingQueue \subseteq Vertices
    BY <1>1, <1>4, <1>7
  <2> QED
    BY <2>1, <2>2
<1>8. ASSUME NEW w \in DOMAIN RemainingQueue
      PROVE  RemainingQueue[w] = Score(RemainingLists[w], 0)
  <2>1. w \in Vertices
    BY <1>6
  <2>2. CASE w \in heads
    BY <2>2, <1>4
  <2>3. CASE w \notin heads
    <3>1. w \in DOMAIN FormedQueue /\ RemainingQueue[w] = FormedQueue[w]
      BY <2>3, <1>4
    <3>2. Len(FormedBlock[w]) = 0
      BY <2>1, <2>3, <1>5
    <3> QED
      BY <3>1, <3>2, <2>1, <1>1, <1>2
  <2> QED
    BY <2>2, <2>3
<1> QED
  BY <1>2, <1>3, <1>6, <1>8
\* removeEdges takes as much off size_ as it takes half-edges off the lists.
LEMMA FinishSize ==
    ASSUME TypeOK, FormingInv, ExpiredInv, SizeExact,
           neigLists' = RemainingLists,
           size' = size - Cardinality(PoppedEdges)
    PROVE  SizeExact' /\ size' \in Nat
<1> DEFINE n(w) == Len(FormedBlock[w])
           Gone == UNION {{<<w, neigLists[w][i].time>> : i \in 1..n(w)} : w \in Vertices}
<1>t. neigLists \in [Vertices -> Seq(HalfEdge)] /\ size \in Nat
  BY DEF TypeOK
<1>1. ASSUME NEW w \in Vertices
      PROVE  /\ neigLists[w] \in Seq(HalfEdge) /\ Sorted(neigLists[w])
             /\ n(w) \in Nat /\ n(w) <= Len(neigLists[w])
             /\ Popped(neigLists[w], FormedBlock[w]) = n(w)
             /\ neigLists'[w] = SubSeq(neigLists[w], n(w) + 1, Len(neigLists[w]))
  <2>1. FormedBlock[w] \in Seq(HalfEdge) /\ n(w) <= Len(neigLists[w])
    BY Formed
  <2>2. /\ Popped(neigLists[w], FormedBlock[w]) = n(w)
        /\ RemainingLists[w] = SubSeq(neigLists[w], n(w) + 1, Len(neigLists[w]))
    BY Remaining
  <2>3. neigLists[w] \in Seq(HalfEdge) /\ Sorted(neigLists[w])
    BY <1>t DEF ExpiredInv
  <2>4. n(w) \in Nat
    BY <2>1
  <2> QED
    BY <2>1, <2>2, <2>3, <2>4
<1> HIDE DEF n
<1>2. ASSUME NEW x
      PROVE  x \in Gone <=> \E w \in Vertices : \E i \in 1..n(w) :
                               x = <<w, neigLists[w][i].time>>
  OBVIOUS
<1>3. ASSUME NEW x
      PROVE  x \in Buffered <=> \E w \in Vertices : \E i \in 1..Len(neigLists[w]) :
                                   x = <<w, neigLists[w][i].time>>
  BY DEF Buffered
<1>4. ASSUME NEW x
      PROVE  x \in Buffered' <=> \E w \in Vertices : \E i \in 1..Len(neigLists'[w]) :
                                    x = <<w, neigLists'[w][i].time>>
  BY DEF Buffered
<1>5. ASSUME NEW x
      PROVE  x \in PoppedEdges <=> \E w \in Vertices : \E i \in 1..n(w) : x = <<w, i>>
  BY <1>1 DEF PoppedEdges
<1> HIDE DEF Gone
\* within a list, the time names the half-edge
<1>6. ASSUME NEW w \in Vertices, NEW i \in 1..Len(neigLists[w]),
             NEW j \in 1..Len(neigLists[w]),
             neigLists[w][i].time = neigLists[w][j].time
      PROVE  i = j
  <2>1. neigLists[w] \in Seq(HalfEdge) /\ Sorted(neigLists[w])
    BY <1>1
  <2>2. neigLists[w][i] \in HalfEdge
    BY <2>1
  <2>3. neigLists[w][i].time \in Nat
    BY <2>2 DEF HalfEdge
  <2> QED
    BY <2>1, <2>3, <1>6 DEF Sorted
<1>7. Gone \subseteq Buffered
  <2>1. ASSUME NEW w \in Vertices, NEW i \in 1..n(w)
        PROVE  i \in 1..Len(neigLists[w])
    BY <1>1
  <2> QED
    BY <2>1, <1>2, <1>3
<1>8. Buffered' = Buffered \ Gone
  <2>1. ASSUME NEW w \in Vertices, NEW i \in 1..Len(neigLists'[w])
        PROVE  /\ n(w) + i \in 1..Len(neigLists[w]) /\ n(w) + i \notin 1..n(w)
               /\ neigLists'[w][i] = neigLists[w][n(w) + i]
    <3>1. /\ n(w) + i \in 1..Len(neigLists[w])
          /\ neigLists'[w][i] = neigLists[w][n(w) + i]
      <4>1. /\ neigLists[w] \in Seq(HalfEdge)
            /\ n(w) \in Nat /\ n(w) <= Len(neigLists[w])
        BY <1>1
      <4>2. neigLists'[w] = SubSeq(neigLists[w], n(w) + 1, Len(neigLists[w]))
        BY <1>1
      <4>3. \A j \in 1..Len(SubSeq(neigLists[w], n(w) + 1, Len(neigLists[w]))) :
              /\ n(w) + j \in 1..Len(neigLists[w])
              /\ SubSeq(neigLists[w], n(w) + 1, Len(neigLists[w]))[j] =
                   neigLists[w][n(w) + j]
        BY <4>1, Suffix
      <4> QED
        BY <4>2, <4>3
    <3>2. n(w) + i \notin 1..n(w)
      BY <1>1
    <3> QED
      BY <3>1, <3>2
  <2>2. ASSUME NEW w \in Vertices, NEW i \in 1..Len(neigLists[w]), i \notin 1..n(w)
        PROVE  /\ i - n(w) \in 1..Len(neigLists'[w])
               /\ neigLists'[w][i - n(w)] = neigLists[w][i]
    <3>1. /\ neigLists[w] \in Seq(HalfEdge) /\ n(w) \in Nat
          /\ neigLists'[w] = SubSeq(neigLists[w], n(w) + 1, Len(neigLists[w]))
          /\ n(w) <= Len(neigLists[w])
      BY <1>1
    <3>2. Len(neigLists'[w]) = Len(neigLists[w]) - n(w)
      BY <3>1, Suffix
    <3>3. i - n(w) \in 1..Len(neigLists'[w]) /\ n(w) + (i - n(w)) = i
      BY <3>1, <3>2, <2>2
    <3> QED
      BY <3>3, <2>1
  <2>3. ASSUME NEW x, x \in Buffered'
        PROVE  x \in Buffered /\ x \notin Gone
    <3>1. PICK w \in Vertices : \E i \in 1..Len(neigLists'[w]) :
                                   x = <<w, neigLists'[w][i].time>>
      BY <2>3, <1>4
    <3>2. PICK i \in 1..Len(neigLists'[w]) : x = <<w, neigLists'[w][i].time>>
      BY <3>1
    <3>3. x = <<w, neigLists[w][n(w) + i].time>> /\ n(w) + i \in 1..Len(neigLists[w])
      BY <3>2, <2>1
    <3>4. x \in Buffered
      BY <3>3, <1>3
    <3>5. ASSUME NEW ww \in Vertices, NEW j \in 1..n(ww),
                 x = <<ww, neigLists[ww][j].time>>
          PROVE  FALSE
      <4>1. ww = w /\ neigLists[w][j].time = neigLists[w][n(w) + i].time
        BY <3>3, <3>5
      <4>2. j \in 1..Len(neigLists[w]) /\ j \in 1..n(w)
        BY <4>1, <3>5, <1>1
      <4>3. j = n(w) + i
        BY <4>1, <4>2, <3>3, <1>6
      <4> QED
        BY <4>2, <4>3, <2>1
    <3> QED
      BY <3>4, <3>5, <1>2
  <2>4. ASSUME NEW x, x \in Buffered, x \notin Gone
        PROVE  x \in Buffered'
    <3>1. PICK w \in Vertices : \E i \in 1..Len(neigLists[w]) :
                                   x = <<w, neigLists[w][i].time>>
      BY <2>4, <1>3
    <3>2. PICK i \in 1..Len(neigLists[w]) : x = <<w, neigLists[w][i].time>>
      BY <3>1
    <3>3. i \notin 1..n(w)
      BY <3>2, <2>4, <1>2
    <3>4. /\ i - n(w) \in 1..Len(neigLists'[w])
          /\ x = <<w, neigLists'[w][i - n(w)].time>>
      BY <3>2, <3>3, <2>2
    <3> QED
      BY <3>4, <1>4
  <2> QED
    BY <2>3, <2>4
<1>9. IsFiniteSet(Buffered) /\ IsFiniteSet(Gone)
  BY <1>7, BufferedFinite, FS_Subset
<1>10. Cardinality(PoppedEdges) = Cardinality(Gone)
  <2> DEFINE f == [x \in PoppedEdges |-> <<x[1], neigLists[x[1]][x[2]].time>>]
  <2>1. ASSUME NEW x \in PoppedEdges
        PROVE  f[x] \in Gone
    <3>1. PICK w \in Vertices : \E i \in 1..n(w) : x = <<w, i>>
      BY <1>5
    <3>2. PICK i \in 1..n(w) : x = <<w, i>>
      BY <3>1
    <3>3. f[x] = <<w, neigLists[w][i].time>>
      BY <3>2
    <3> QED
      BY <3>3, <1>2
  <2>2. ASSUME NEW x \in PoppedEdges, NEW y \in PoppedEdges, f[x] = f[y]
        PROVE  x = y
    <3>1. PICK w \in Vertices : \E i \in 1..n(w) : x = <<w, i>>
      BY <1>5
    <3>2. PICK i \in 1..n(w) : x = <<w, i>>
      BY <3>1
    <3>3. PICK ww \in Vertices : \E i_1 \in 1..n(ww) : y = <<ww, i_1>>
      BY <1>5
    <3>4. PICK j \in 1..n(ww) : y = <<ww, j>>
      BY <3>3
    <3>5. f[x] = <<w, neigLists[w][i].time>> /\ f[y] = <<ww, neigLists[ww][j].time>>
      BY <3>2, <3>4
    <3>6. w = ww /\ neigLists[w][i].time = neigLists[w][j].time
      BY <3>5, <2>2
    <3>7. i \in 1..Len(neigLists[w]) /\ j \in 1..Len(neigLists[w])
      BY <3>6, <1>1
    <3>8. i = j
      BY <3>6, <3>7, <1>6
    <3> QED
      BY <3>2, <3>4, <3>6, <3>8
  <2>3. ASSUME NEW y \in Gone
        PROVE  \E x \in PoppedEdges : f[x] = y
    <3>1. PICK w \in Vertices : \E i \in 1..n(w) : y = <<w, neigLists[w][i].time>>
      BY <1>2
    <3>2. PICK i \in 1..n(w) : y = <<w, neigLists[w][i].time>>
      BY <3>1
    <3>3. <<w, i>> \in PoppedEdges
      BY <1>5
    <3>4. f[<<w, i>>] = y
      BY <3>2, <3>3
    <3> QED
      BY <3>3, <3>4
  <2>4. f \in [PoppedEdges -> Gone]
    BY <2>1
  <2> HIDE DEF f
  <2>5. f \in Injection(PoppedEdges, Gone)
    BY <2>2, <2>4 DEF Injection, IsInjective
  <2>6. f \in Surjection(PoppedEdges, Gone)
    BY <2>3, <2>4 DEF Surjection
  <2> QED
    BY <2>5, <2>6, <1>9, FS_Injection
<1>11. Cardinality(Buffered \ Gone) = Cardinality(Buffered) - Cardinality(Gone)
  <2>1. Buffered \cap Gone = Gone
    BY <1>7
  <2> QED
    BY <2>1, <1>9, FS_Difference
<1>12. IsFiniteSet(Buffered \ Gone)
  BY <1>9, FS_Difference
<1>13. size' = Cardinality(Buffered \ Gone)
  BY <1>10, <1>11 DEF SizeExact
<1> QED
  BY <1>8, <1>12, <1>13, FS_CardinalityType DEF SizeExact
\* A block is complete: its half-edges leave the map and are stored.
LEMMA FinishBlockInv ==
    ASSUME IndInv, FinishBlock, UNCHANGED memVars
    PROVE  IndInv'
<1>0. TypeOK /\ WindowInv /\ ExpiredInv /\ FormingInv /\ SizeExact
  BY DEF IndInv
<1>1. /\ neigLists' = RemainingLists
      /\ scoreQueue' = RemainingQueue
      /\ size' = size - Cardinality(PoppedEdges)
      /\ stored' = [v \in Vertices |-> stored[v] \o FormedBlock[v]]
      /\ pc' = "out" /\ block' = EmptyLists /\ bytes' = BlockHeaderBytes
      /\ headVertex' = NoVertex
      /\ UNCHANGED <<winLists, vfifo, lastTime, op>>
  BY DEF FinishBlock, memVars
<1>2. SizeExact' /\ size' \in Nat
  BY <1>0, <1>1, FinishSize
<1>3. /\ \A w \in Vertices : RemainingLists[w] = SubSeq(neigLists[w],
                     Len(FormedBlock[w]) + 1, Len(neigLists[w]))
      /\ RemainingLists \in [Vertices -> Seq(HalfEdge)]
      /\ DOMAIN RemainingQueue = {w \in Vertices : 0 < Len(RemainingLists[w])}
      /\ \A w \in DOMAIN RemainingQueue :
           RemainingQueue[w] = Score(RemainingLists[w], 0)
  BY <1>0, Remaining
<1>4. \A w \in Vertices : EmptyLists[w] = <<>> /\ Len(EmptyLists[w]) = 0
  BY DEF EmptyLists
<1>5. TypeOK'
  <2>1. stored' \in [Vertices -> Seq(HalfEdge)]
    <3>1. /\ stored \in [Vertices -> Seq(HalfEdge)]
          /\ FormedBlock \in [Vertices -> Seq(HalfEdge)]
      BY <1>0, Formed DEF TypeOK
    <3>2. ASSUME NEW w \in Vertices
          PROVE  stored[w] \o FormedBlock[w] \in Seq(HalfEdge)
      <4>1. stored[w] \in Seq(HalfEdge) /\ FormedBlock[w] \in Seq(HalfEdge)
        BY <3>1
      <4> QED
        BY <4>1, ConcatProperties
    <3> QED
      BY <3>2, <1>1
  <2>2. \A w \in DOMAIN scoreQueue' : scoreQueue'[w] \in Int
    <3>1. ASSUME NEW w \in DOMAIN RemainingQueue
          PROVE  RemainingQueue[w] \in Int
      <4>1. w \in Vertices /\ 0 < Len(RemainingLists[w])
        BY <1>3
      <4>2. RemainingLists[w] \in Seq(HalfEdge)
        BY <4>1, <1>3
      <4>3. Score(RemainingLists[w], 0) \in Int
        BY <4>1, <4>2, ScoreType
      <4> QED
        BY <4>3, <1>3
    <3> QED
      BY <3>1, <1>1
  <2>3. block' \in [Vertices -> Seq(HalfEdge)]
    BY <1>1 DEF EmptyLists
  <2>4. bytes' \in Nat /\ headVertex' \in Vertices \cup {NoVertex}
    BY <1>1, ConstantTypes
  <2>5. DOMAIN scoreQueue' \subseteq Vertices /\ neigLists' \in [Vertices -> Seq(HalfEdge)]
    BY <1>1, <1>3
  <2> QED
    BY <2>1, <2>2, <2>3, <2>4, <2>5, <1>0, <1>1, <1>2 DEF TypeOK
<1>6. WindowInv'
  BY <1>0, <1>1, WindowSame
<1>7. ExpiredInv'
  <2> SUFFICES ASSUME NEW w \in Vertices
               PROVE  /\ Sorted(neigLists'[w])
                      /\ \A i \in 1..Len(neigLists'[w]) :
                           /\ neigLists'[w][i].time <= lastTime
                           /\ \A k \in 1..Len(vfifo) :
                                neigLists'[w][i].time < vfifo[k].time
    BY <1>1 DEF ExpiredInv
  <2> DEFINE n == Len(FormedBlock[w])
             s == neigLists[w]
  <2>1. FormedBlock[w] \in Seq(HalfEdge) /\ n <= Len(s)
    BY <1>0, Formed
  <2>2. s \in Seq(HalfEdge) /\ Sorted(s) /\ n \in Nat
    BY <2>1, <1>0 DEF TypeOK, ExpiredInv
  <2>3. neigLists'[w] = SubSeq(s, n + 1, Len(s))
    BY <1>1, <1>3
  <2>4. \A i \in 1..Len(s) : /\ s[i].time <= lastTime
                             /\ \A k \in 1..Len(vfifo) : s[i].time < vfifo[k].time
    BY <1>0 DEF ExpiredInv
  <2> HIDE DEF n, s
  <2>5. \A i \in 1..Len(neigLists'[w]) :
           n + i \in 1..Len(s) /\ neigLists'[w][i] = s[n + i]
    BY <2>1, <2>2, <2>3, Suffix
  <2>6. Sorted(neigLists'[w])
    <3>1. SUFFICES ASSUME NEW i \in 1..Len(neigLists'[w]),
                          NEW j \in 1..Len(neigLists'[w]), i < j
                   PROVE  neigLists'[w][i].time < neigLists'[w][j].time
      BY DEF Sorted
    <3>2. n + i < n + j
      BY <2>2, <3>1
    <3> QED
      BY <3>2, <2>2, <2>5 DEF Sorted
  <2> QED
    BY <2>4, <2>5, <2>6
<1>8. FormingInv'
  <2>1. \A w \in Vertices : /\ block'[w] = <<>> /\ Len(block'[w]) = 0
                            /\ neigLists'[w] \in Seq(HalfEdge)
    BY <1>1, <1>3, <1>4
  <2>2. \A w \in Vertices : /\ Len(block'[w]) <= Len(neigLists'[w])
                            /\ block'[w] = SubSeq(neigLists'[w], 1, Len(block'[w]))
    BY <2>1, EmptyPrefix
  <2>3. DOMAIN scoreQueue' = {w \in Vertices : Len(block'[w]) < Len(neigLists'[w])}
    BY <2>1, <1>1, <1>3
  <2>4. \A w \in DOMAIN scoreQueue' :
           scoreQueue'[w] = Score(neigLists'[w], Len(block'[w]))
    BY <2>1, <2>3, <1>1, <1>3
  <2> QED
    BY <2>2, <2>3, <2>4, <1>1 DEF FormingInv
<1> QED
  BY <1>2, <1>5, <1>6, <1>7, <1>8 DEF IndInv

-----------------------------------------------------------------------------
\* A refused edge only moves the clock.
LEMMA RefuseEdgeInv ==
    ASSUME IndInv, RefuseEdge
    PROVE  IndInv'
<1>0. TypeOK /\ WindowInv /\ ExpiredInv /\ FormingInv /\ SizeExact
  BY DEF IndInv
<1>1. /\ lastTime \in Nat /\ vfifo \in Seq(UEdge)
      /\ neigLists \in [Vertices -> Seq(HalfEdge)]
  BY <1>0 DEF TypeOK
<1>2. /\ lastTime' = lastTime + 1
      /\ winLists' = winLists /\ vfifo' = vfifo /\ op' = op
      /\ UNCHANGED <<neigLists, scoreQueue, size, pc, block, bytes,
                     headVertex, stored>>
  BY DEF RefuseEdge, expVars, formVars
<1>3. TypeOK'
  BY <1>0, <1>1, <1>2 DEF TypeOK
<1>4. WindowInv'
  <2>1. \A k \in 1..Len(vfifo) : vfifo[k].time \in Nat
    <3>1. \A k \in 1..Len(vfifo) : vfifo[k] \in UEdge
      BY <1>1
    <3> QED
      BY <3>1 DEF UEdge
  <2>2. \A k \in 1..Len(vfifo) : vfifo[k].time <= lastTime'
    <3>1. \A k \in 1..Len(vfifo) : vfifo[k].time <= lastTime
      BY <1>0, Zenon DEF WindowInv
    <3>2. lastTime \in Nat /\ lastTime' = lastTime + 1
      BY <1>1, <1>2
    <3> QED
      BY <2>1, <3>1, <3>2
  <2>3. /\ Sorted(vfifo)
        /\ \A k \in 1..Len(vfifo) : vfifo[k].first # vfifo[k].second
    BY <1>0 DEF WindowInv
  <2>4. winLists' = winLists /\ vfifo' = vfifo
    BY <1>2
  <2> QED
    BY <2>2, <2>3, <2>4, <1>0, ZenonT(60) DEF WindowInv
<1>5. ExpiredInv'
  <2>1. ASSUME NEW w \in Vertices, NEW i \in 1..Len(neigLists[w])
        PROVE  neigLists[w][i].time <= lastTime'
    <3>1. neigLists[w] \in Seq(HalfEdge)
      BY <1>1
    <3>2. neigLists[w][i] \in HalfEdge
      BY <3>1
    <3>3. neigLists[w][i].time \in Nat /\ neigLists[w][i].time <= lastTime
      BY <3>2, <1>0 DEF HalfEdge, ExpiredInv
    <3>4. lastTime \in Nat /\ lastTime' = lastTime + 1
      BY <1>1, <1>2
    <3> QED
      BY <3>3, <3>4
  <2> QED
    BY <2>1, <1>0, <1>2 DEF ExpiredInv
<1>6. FormingInv'
  BY <1>0, <1>2 DEF FormingInv
<1>7. SizeExact'
  BY <1>0, <1>2 DEF SizeExact, Buffered
<1> QED
  BY <1>3, <1>4, <1>5, <1>6, <1>7 DEF IndInv

\* Every step of the ingest path preserves the inductive invariant.
LEMMA NextInv ==
    ASSUME IndInv, [Next]_vars
    PROVE  IndInv'
<1>0. TypeOK /\ WindowInv /\ ExpiredInv /\ FormingInv /\ SizeExact
  BY DEF IndInv
<1>1. ASSUME NEW v \in Vertices, NEW u \in Vertices, NEW d \in DataSizes,
             AddEdge(v, u, d)
      PROVE  IndInv'
  BY <1>1, AddEdgeInv
<1>2. CASE Expire
  BY <1>2, ExpireInv
<1>3. CASE FormBlock
  BY <1>3, TakeEdgeInv, FinishBlockInv DEF FormBlock
\* the remaining steps start or end a call, or start a block
<1>4. ASSUME op' \in {"none", "addEdge", "flush"},
             pc' = pc \/ pc' = "getBlock",
             UNCHANGED <<neigLists, scoreQueue, size, block, bytes, headVertex,
                         stored, winLists, vfifo, lastTime>>
      PROVE  IndInv'
  <2>1. TypeOK'
    BY <1>0, <1>4 DEF TypeOK
  <2>2. WindowInv'
    BY <1>0, <1>4, WindowSame
  <2>3. ExpiredInv'
    BY <1>0, <1>4 DEF ExpiredInv
  <2>4. FormingInv'
    BY <1>0, <1>4 DEF FormingInv
  <2>5. SizeExact'
    BY <1>0, <1>4 DEF SizeExact, Buffered
  <2> QED
    BY <2>1, <2>2, <2>3, <2>4, <2>5 DEF IndInv
<1>5. CASE ReturnAddEdge
  BY <1>4, <1>5 DEF ReturnAddEdge, expVars, formVars
<1>6. CASE Flush
  BY <1>4, <1>6 DEF Flush, expVars, formVars
<1>7. CASE FlushBlock
  BY <1>0, <1>4, <1>7 DEF FlushBlock, WriteBlock, memVars, TypeOK
<1>8. CASE ReturnFlush
  BY <1>4, <1>8 DEF ReturnFlush, expVars, formVars
<1>9. CASE UNCHANGED vars
  BY <1>0, <1>4, <1>9 DEF vars, expVars, formVars, memVars, TypeOK
<1>10. CASE RefuseEdge
  BY <1>10, RefuseEdgeInv
<1> QED
  BY <1>1, <1>2, <1>3, <1>5, <1>6, <1>7, <1>8, <1>9, <1>10 DEF Next, Step

(* The inductive invariant holds in every reachable state. *)
THEOREM InvariantHolds == Spec => []IndInv
<1>1. Init => IndInv
  BY InitInv
<1>2. IndInv /\ [Next]_vars => IndInv'
  BY NextInv
<1> QED
  BY <1>1, <1>2, PTL DEF Spec
(* The variables of the window, the expiration map and the block under       *)
(* construction always have their types; in particular size_, an unsigned    *)
(* counter that removeEdges decrements, never goes below zero.               *)
THEOREM TypeCorrect == Spec => []TypeOK
BY InvariantHolds, PTL DEF IndInv

(* size_ counts exactly the half-edges in the map (ExpirationMap.cpp:57,94,  *)
(* 128), for every layout, window, map and block size.                       *)
THEOREM SizeIsExact == Spec => []SizeExact
BY InvariantHolds, PTL DEF IndInv

(* Outside writeBlock the queue of ExpirationMap holds the vertices with     *)
(* buffered edges and no other (ExpirationMap.cpp:110), correctly scored.    *)
THEOREM QueueCorrect == Spec => []QueueMatchesLists
<1>1. IndInv => QueueMatchesLists
  <2>1. SUFFICES ASSUME TypeOK, FormingInv, pc = "out"
                 PROVE  /\ DOMAIN scoreQueue = {v \in Vertices : neigLists[v] # <<>>}
                        /\ \A v \in DOMAIN scoreQueue :
                             scoreQueue[v] = Score(neigLists[v], 0)
    BY DEF IndInv, QueueMatchesLists
  <2>2. \A v \in Vertices : Len(block[v]) = 0
    BY <2>1 DEF FormingInv, EmptyLists
  <2>3. \A v \in Vertices : 0 < Len(neigLists[v]) <=> neigLists[v] # <<>>
    <3>1. \A v \in Vertices : neigLists[v] \in Seq(HalfEdge)
      BY <2>1 DEF TypeOK
    <3> QED
      BY <3>1
  <2>4. DOMAIN scoreQueue = {v \in Vertices : neigLists[v] # <<>>}
    BY <2>1, <2>2, <2>3 DEF FormingInv
  <2>5. \A v \in DOMAIN scoreQueue : scoreQueue[v] = Score(neigLists[v], 0)
    BY <2>1, <2>2, <2>4 DEF FormingInv
  <2> QED
    BY <2>4, <2>5
<1> QED
  BY <1>1, InvariantHolds, PTL

(* The asserts of InMemoryGraph::removeEdge (InMemoryGraph.cpp:67,68,77,78)  *)
(* never fail: the oldest edge of the FIFO heads both neighbor lists.        *)
THEOREM OldestEdgeHeadsLists == Spec => []OldestEdgeAgrees
<1>1. IndInv => OldestEdgeAgrees
  <2> SUFFICES ASSUME TypeOK, WindowInv, vfifo # <<>>
               PROVE  OldestEdgeAgrees
    BY DEF IndInv, OldestEdgeAgrees
  <2> DEFINE edge == Head(vfifo)
  <2>1. /\ winLists[edge.first] # <<>> /\ winLists[edge.second] # <<>>
        /\ Head(winLists[edge.first]).to = edge.second
        /\ Head(winLists[edge.first]).time = edge.time
        /\ Head(winLists[edge.second]) =
             [to |-> edge.first, time |-> edge.time,
              bytes |-> Head(winLists[edge.first]).bytes]
    BY WindowHead, Zenon
  <2>2. /\ Head(winLists[edge.second]).to = edge.first
        /\ Head(winLists[edge.second]).time = edge.time
    BY <2>1
  <2> QED
    BY <2>1, <2>2 DEF OldestEdgeAgrees
<1> QED
  BY <1>1, InvariantHolds, PTL

-----------------------------------------------------------------------------
(* The ingest path implements EdgeLog: the invariant turns every step of     *)
(* InMemoryGraph into a step of EdgeLog, or into none.                       *)

\* The three parts of a vertex's history are lists of half-edges.
LEMMA HistoryParts ==
    ASSUME TypeOK, NEW w \in Vertices
    PROVE  /\ stored[w] \in Seq(HalfEdge)
           /\ neigLists[w] \in Seq(HalfEdge)
           /\ winLists[w] \in Seq(HalfEdge)
BY DEF TypeOK

Associates(x, y, z) == (x \o y) \o z = x \o (y \o z)

\* Concatenation of lists of half-edges is associative.
LEMMA Assoc ==
    ASSUME NEW x \in Seq(HalfEdge), NEW y \in Seq(HalfEdge),
           NEW z \in Seq(HalfEdge)
    PROVE  Associates(x, y, z)
BY ConcatAssociative DEF Associates

AppendsLast(a, b, c, h) == a \o b \o Append(c, h) = Append(a \o b \o c, h)

\* Appending to the window is appending to the history.
LEMMA AppendLast ==
    ASSUME NEW a \in Seq(HalfEdge), NEW b \in Seq(HalfEdge),
           NEW c \in Seq(HalfEdge), NEW h \in HalfEdge
    PROVE  AppendsLast(a, b, c, h)
BY DEF AppendsLast

\* An edge that expires stays at its place in the history.
LEMMA MoveFirst ==
    ASSUME NEW a \in Seq(HalfEdge), NEW b \in Seq(HalfEdge),
           NEW c \in Seq(HalfEdge), c # <<>>
    PROVE  a \o Append(b, Head(c)) \o Tail(c) = a \o b \o c
<1> DEFINE h == Head(c)
<1>1. h \in HalfEdge /\ Tail(c) \in Seq(HalfEdge) /\ c = <<h>> \o Tail(c)
  OBVIOUS
<1> HIDE DEF h
<1>2. a \o Append(b, h) = (a \o b) \o <<h>> /\ a \o b \in Seq(HalfEdge)
  BY <1>1
<1>3. <<h>> \in Seq(HalfEdge)
  BY <1>1
<1>4. ((a \o b) \o <<h>>) \o Tail(c) = (a \o b) \o (<<h>> \o Tail(c))
  <2>1. Associates(a \o b, <<h>>, Tail(c))
    BY <1>1, <1>2, <1>3, Assoc
  <2> QED
    BY <2>1, Zenon DEF Associates
<1>5. a \o Append(b, h) \o Tail(c) = (a \o b) \o c
  BY <1>1, <1>2, <1>4, Zenon
<1> QED
  BY <1>5 DEF h

\* The first part of a concatenation is its prefix.
LEMMA Halves ==
    ASSUME NEW x \in Seq(HalfEdge), NEW y \in Seq(HalfEdge)
    PROVE  /\ SubSeq(x \o y, 1, Len(x)) = x
           /\ Len(x \o y) = Len(x) + Len(y)
           /\ x \o y \in Seq(HalfEdge)
           /\ Len(x) \in Nat /\ Len(y) \in Nat
OBVIOUS

\* The durable part with one more block is a prefix of the history.
LEMMA Regroup ==
    ASSUME NEW a \in Seq(HalfEdge), NEW p \in Seq(HalfEdge),
           NEW q \in Seq(HalfEdge), NEW c \in Seq(HalfEdge)
    PROVE  /\ (a \o p) \o q = a \o (p \o q)
           /\ ((a \o p) \o q) \o c = (a \o p) \o (q \o c)
           /\ SubSeq((a \o p) \o (q \o c), 1, Len(a \o p)) = a \o p
           /\ Len(a \o p) \in Len(a)..Len((a \o p) \o (q \o c))
<1>1. (a \o p) \o q = a \o (p \o q)
  <2>1. Associates(a, p, q)
    BY Assoc
  <2> QED
    BY <2>1, Zenon DEF Associates
<1>2. a \o p \in Seq(HalfEdge) /\ q \o c \in Seq(HalfEdge)
  BY Halves, Zenon
<1>3. ((a \o p) \o q) \o c = (a \o p) \o (q \o c)
  <2>1. Associates(a \o p, q, c)
    BY <1>2, Assoc
  <2> QED
    BY <2>1, Zenon DEF Associates
<1>4. /\ SubSeq((a \o p) \o (q \o c), 1, Len(a \o p)) = a \o p
      /\ Len((a \o p) \o (q \o c)) = Len(a \o p) + Len(q \o c)
      /\ Len(a \o p) = Len(a) + Len(p)
      /\ Len(a) \in Nat /\ Len(p) \in Nat /\ Len(q \o c) \in Nat
  BY <1>2, Halves, Zenon
<1>5. ASSUME NEW i \in Nat, NEW j \in Nat, NEW k \in Nat
      PROVE  i + j \in i..(i + j + k)
  OBVIOUS
<1>6. Len(a \o p) \in Len(a)..Len((a \o p) \o (q \o c))
  BY <1>4, <1>5, Zenon
<1> QED
  BY <1>1, <1>3, <1>4, <1>6

\* The first n elements of b move from b to the end of a: the whole is the
\* same, and the longer a is still a prefix of it.
Moved(a, b, c, n) ==
    /\ (a \o SubSeq(b, 1, n)) \o SubSeq(b, n + 1, Len(b)) \o c = a \o b \o c
    /\ \E m \in Len(a)..Len(a \o b \o c) :
         a \o SubSeq(b, 1, n) = SubSeq(a \o b \o c, 1, m)

\* A block that is stored stays at its place in the history.
LEMMA MovePrefix ==
    ASSUME NEW a \in Seq(HalfEdge), NEW b \in Seq(HalfEdge),
           NEW c \in Seq(HalfEdge), NEW n \in Nat, n <= Len(b)
    PROVE  Moved(a, b, c, n)
<1>1. ASSUME NEW p, p = SubSeq(b, 1, n),
             NEW q, q = SubSeq(b, n + 1, Len(b))
      PROVE  /\ (a \o p) \o q \o c = a \o b \o c
             /\ \E m \in Len(a)..Len(a \o b \o c) :
                  a \o p = SubSeq(a \o b \o c, 1, m)
  <2>1. p \in Seq(HalfEdge) /\ q \in Seq(HalfEdge)
    BY <1>1
  <2>2. p \o q = b
    <3>1. /\ 1 \in 1..Len(b) + 1 /\ n \in (1 - 1)..Len(b)
          /\ Len(b) \in n..Len(b)
      OBVIOUS
    <3>2. SubSeq(b, 1, n) \o SubSeq(b, n + 1, Len(b)) = SubSeq(b, 1, Len(b))
      BY <3>1, ConcatAdjacentSubSeq, Zenon
    <3>3. SubSeq(b, 1, Len(b)) = b
      OBVIOUS
    <3> QED
      BY <3>2, <3>3, <1>1, Zenon
  <2>3. /\ (a \o p) \o q = a \o (p \o q)
        /\ ((a \o p) \o q) \o c = (a \o p) \o (q \o c)
        /\ SubSeq((a \o p) \o (q \o c), 1, Len(a \o p)) = a \o p
        /\ Len(a \o p) \in Len(a)..Len((a \o p) \o (q \o c))
    BY <2>1, Regroup, Zenon
  <2>4. (a \o p) \o (q \o c) = a \o b \o c
    BY <2>2, <2>3, Zenon
  <2> QED
    BY <2>3, <2>4, Zenon
<1> QED
  BY <1>1, Zenon DEF Moved

\* An accepted edge is appended to the logs of its two endpoints.
LEMMA AddEdgeAccepts ==
    ASSUME IndInv, NEW v \in Vertices, NEW u \in Vertices, NEW d \in DataSizes,
           AddEdge(v, u, d)
    PROVE  Log!LogNext
<1> DEFINE t == lastTime + 1
           vHalf == [to |-> u, time |-> t, bytes |-> d]
           uHalf == [to |-> v, time |-> t, bytes |-> d]
           log == [w \in Vertices |-> History(w)]
<1>0. TypeOK
  BY DEF IndInv
<1>1. /\ v # u /\ winLists' = AddHalves(winLists, v, u, t, d)
      /\ lastTime' = t /\ stored' = stored /\ neigLists' = neigLists
  BY DEF AddEdge, expVars
<1>2. winLists \in [Vertices -> Seq(HalfEdge)] /\ lastTime \in Nat
  BY <1>0 DEF TypeOK
<1>3. vHalf \in HalfEdge /\ uHalf \in HalfEdge
  BY <1>2 DEF HalfEdge
<1>4. /\ winLists'[v] = Append(winLists[v], vHalf)
      /\ winLists'[u] = Append(winLists[u], uHalf)
      /\ \A w \in Vertices \ {v, u} : winLists'[w] = winLists[w]
  <2>1. winLists'[v] = Append(winLists[v], vHalf)
    BY <1>1, <1>2 DEF AddHalves
  <2>2. winLists'[u] = Append(winLists[u], uHalf)
    BY <1>1, <1>2 DEF AddHalves
  <2>3. \A w \in Vertices \ {v, u} : winLists'[w] = winLists[w]
    BY <1>1, <1>2 DEF AddHalves
  <2> QED
    BY <2>1, <2>2, <2>3
<1> HIDE DEF vHalf, uHalf
<1>5. \A w \in Vertices : History(w)' = stored[w] \o neigLists[w] \o winLists'[w]
  BY <1>1 DEF History
<1>6. History(v)' = Append(History(v), vHalf)
  <2>0. /\ stored[v] \in Seq(HalfEdge) /\ neigLists[v] \in Seq(HalfEdge)
        /\ winLists[v] \in Seq(HalfEdge)
    BY <1>0, HistoryParts
  <2>1. AppendsLast(stored[v], neigLists[v], winLists[v], vHalf)
    BY <2>0, <1>3, AppendLast
  <2> QED
    BY <2>1, <1>4, <1>5 DEF History, AppendsLast
<1>7. History(u)' = Append(History(u), uHalf)
  <2>0. /\ stored[u] \in Seq(HalfEdge) /\ neigLists[u] \in Seq(HalfEdge)
        /\ winLists[u] \in Seq(HalfEdge)
    BY <1>0, HistoryParts
  <2>1. AppendsLast(stored[u], neigLists[u], winLists[u], uHalf)
    BY <2>0, <1>3, AppendLast
  <2> QED
    BY <2>1, <1>4, <1>5 DEF History, AppendsLast
<1>8. \A w \in Vertices \ {v, u} : History(w)' = History(w)
  BY <1>4, <1>5 DEF History
<1>9. log' = [log EXCEPT ![v] = Append(@, vHalf), ![u] = Append(@, uHalf)]
  BY <1>1, <1>6, <1>7, <1>8
<1> QED
  BY <1>1, <1>9 DEF Log!LogNext, Log!Accept, vHalf, uHalf

\* Moving the oldest edge of the window to the map changes no history.
LEMMA ExpireStutters ==
    ASSUME IndInv, Expire
    PROVE  UNCHANGED Log!logVars
<1> DEFINE edge == Head(vfifo)
           v == edge.first
           u == edge.second
           t == edge.time
           d == Head(winLists[v]).bytes
<1>0. TypeOK /\ WindowInv
  BY DEF IndInv
<1>1. /\ winLists' = RemoveEdge(winLists, edge)
      /\ neigLists' = AddHalves(neigLists, v, u, t, d)
      /\ stored' = stored /\ lastTime' = lastTime
  BY DEF Expire, ExpAddEdge
<1>2. vfifo # <<>>
  BY <1>0, WindowAssumption DEF Expire, HasExpiredEdges, TypeOK
<1>3. /\ edge \in UEdge /\ v \in Vertices /\ u \in Vertices /\ t \in Nat /\ v # u
      /\ winLists[v] # <<>> /\ winLists[u] # <<>>
      /\ Head(winLists[v]) \in HalfEdge
      /\ Head(winLists[v]).to = u /\ Head(winLists[v]).time = t
      /\ Head(winLists[u]) = [to |-> v, time |-> t, bytes |-> d]
  BY <1>0, <1>2, WindowHead, Zenon
<1>4. Head(winLists[v]) = [to |-> u, time |-> t, bytes |-> d] /\ d \in DataSizes
  BY <1>3 DEF HalfEdge
<1>5. /\ winLists \in [Vertices -> Seq(HalfEdge)]
      /\ neigLists \in [Vertices -> Seq(HalfEdge)]
  BY <1>0 DEF TypeOK
<1>6. /\ winLists'[v] = Tail(winLists[v])
      /\ winLists'[u] = Tail(winLists[u])
      /\ \A w \in Vertices \ {v, u} : winLists'[w] = winLists[w]
  <2>1. winLists'[v] = Tail(winLists[v])
    BY <1>1, <1>3, <1>5 DEF RemoveEdge
  <2>2. winLists'[u] = Tail(winLists[u])
    BY <1>1, <1>3, <1>5 DEF RemoveEdge
  <2>3. \A w \in Vertices \ {v, u} : winLists'[w] = winLists[w]
    BY <1>1, <1>3, <1>5 DEF RemoveEdge
  <2> QED
    BY <2>1, <2>2, <2>3
<1> HIDE DEF edge, v, u, t, d
<1>7. /\ neigLists'[v] = Append(neigLists[v], Head(winLists[v]))
      /\ neigLists'[u] = Append(neigLists[u], Head(winLists[u]))
      /\ \A w \in Vertices \ {v, u} : neigLists'[w] = neigLists[w]
  <2>1. /\ neigLists'[v] = Append(neigLists[v], [to |-> u, time |-> t, bytes |-> d])
        /\ neigLists'[u] = Append(neigLists[u], [to |-> v, time |-> t, bytes |-> d])
        /\ \A w \in Vertices \ {v, u} : neigLists'[w] = neigLists[w]
    <3>1. /\ v \in Vertices /\ u \in Vertices /\ t \in Nat /\ v # u
          /\ d \in DataSizes /\ TypeOK
      BY <1>0, <1>3, <1>4
    <3>2. neigLists' = AddHalves(neigLists, v, u, t, d)
      BY <1>1
    <3> QED
      BY <3>1, <3>2, ExpAddedLists, ZenonT(40)
  <2> QED
    BY <2>1, <1>3, <1>4
<1>8. ASSUME NEW w \in Vertices
      PROVE  stored[w] \o neigLists'[w] \o winLists'[w]
               = stored[w] \o neigLists[w] \o winLists[w]
  <2>0. /\ stored[w] \in Seq(HalfEdge) /\ neigLists[w] \in Seq(HalfEdge)
        /\ winLists[w] \in Seq(HalfEdge)
    BY <1>0, HistoryParts
  <2>1. CASE w \in {v, u}
    <3>1. /\ neigLists'[w] = Append(neigLists[w], Head(winLists[w]))
          /\ winLists'[w] = Tail(winLists[w]) /\ winLists[w] # <<>>
      BY <2>1, <1>3, <1>6, <1>7
    <3>2. stored[w] \o Append(neigLists[w], Head(winLists[w])) \o Tail(winLists[w])
            = stored[w] \o neigLists[w] \o winLists[w]
      BY <2>0, <3>1, MoveFirst, Zenon
    <3> QED
      BY <3>1, <3>2, Zenon
  <2>2. CASE w \notin {v, u}
    BY <2>2, <1>6, <1>7
  <2> QED
    BY <2>1, <2>2
<1>9. \A w \in Vertices : History(w)' = History(w)
  BY <1>1, <1>8 DEF History
<1> QED
  BY <1>1, <1>9 DEF Log!logVars

\* A finished block makes a prefix of every history durable.
LEMMA FinishBlockPersists ==
    ASSUME IndInv, FinishBlock, UNCHANGED memVars
    PROVE  Log!Persist
<1>0. TypeOK /\ FormingInv /\ ExpiredInv
  BY DEF IndInv
<1>1. /\ neigLists' = RemainingLists
      /\ stored' = [v \in Vertices |-> stored[v] \o FormedBlock[v]]
      /\ winLists' = winLists /\ lastTime' = lastTime
  BY DEF FinishBlock, memVars
<1>2. ASSUME NEW w \in Vertices
      PROVE  /\ History(w)' = History(w)
             /\ \E m \in Len(stored[w])..Len(History(w)) :
                   stored'[w] = SubSeq(History(w), 1, m)
  <2> DEFINE n == Len(FormedBlock[w])
             p == SubSeq(neigLists[w], 1, n)
             q == SubSeq(neigLists[w], n + 1, Len(neigLists[w]))
  <2>0. /\ stored[w] \in Seq(HalfEdge) /\ neigLists[w] \in Seq(HalfEdge)
        /\ winLists[w] \in Seq(HalfEdge)
    BY <1>0, HistoryParts
  <2>1. /\ FormedBlock[w] \in Seq(HalfEdge) /\ n <= Len(neigLists[w])
        /\ FormedBlock[w] = p
    BY <1>0, Formed
  <2>2. RemainingLists[w] = q
    BY <1>0, Remaining
  <2>3. n \in Nat
    BY <2>1
  <2>4. stored'[w] = stored[w] \o p /\ neigLists'[w] = q
    BY <1>1, <2>1, <2>2
  <2> HIDE DEF n
  <2>5. /\ (stored[w] \o p) \o q \o winLists[w]
             = stored[w] \o neigLists[w] \o winLists[w]
        /\ \E m \in Len(stored[w])..Len(stored[w] \o neigLists[w] \o winLists[w]) :
              stored[w] \o p = SubSeq(stored[w] \o neigLists[w] \o winLists[w], 1, m)
    <3>1. Moved(stored[w], neigLists[w], winLists[w], n)
      BY <2>0, <2>1, <2>3, MovePrefix
    <3> QED
      BY <3>1, Zenon DEF Moved
  <2> HIDE DEF p, q
  <2>6. History(w)' = (stored[w] \o p) \o q \o winLists[w]
    BY <2>4, <1>1 DEF History
  <2> QED
    BY <2>4, <2>5, <2>6, Zenon DEF History
<1>3. stored' = [v \in Vertices |-> stored'[v]]
  BY <1>1
<1> DEFINE log == [v \in Vertices |-> History(v)]
<1>4. \A w \in Vertices : \E m \in Len(stored[w])..Len(log[w]) :
                             stored'[w] = SubSeq(log[w], 1, m)
  BY <1>2
<1>5. log' = log
  BY <1>2
<1> QED
  BY <1>1, <1>3, <1>4, <1>5 DEF Log!Persist

(* The ingest path implements EdgeLog, for every set of vertices, every      *)
(* window, map and block size and the layouts Old, Max and Random: moving    *)
(* edges from the window to the map, forming blocks, giving edges back and   *)
(* flushing never lose, duplicate, alter or reorder a half-edge, and what    *)
(* has reached the historical graph is the oldest part of every history.     *)
THEOREM IngestImplementsEdgeLog == Spec => ImplementsEdgeLog
<1>1. Init => Log!LogInit
  <2> SUFFICES ASSUME Init PROVE Log!LogInit
    OBVIOUS
  <2>1. \A w \in Vertices : History(w) = <<>> \o <<>> \o <<>>
    BY DEF Init, ExpInit, EmptyLists, History
  <2>2. <<>> \o <<>> \o <<>> = <<>>
    <3>1. <<>> \in Seq(HalfEdge)
      OBVIOUS
    <3>2. <<>> \o <<>> = <<>>
      BY <3>1, ConcatEmptySeq
    <3> QED
      BY <3>2
  <2>3. [w \in Vertices |-> History(w)] = [w \in Vertices |-> <<>>]
    BY <2>1, <2>2
  <2>4. stored = [w \in Vertices |-> <<>>] /\ lastTime = 0
    BY DEF Init, ExpInit, EmptyLists
  <2> QED
    BY <2>3, <2>4 DEF Log!LogInit
<1>2. IndInv /\ [Next]_vars => [Log!LogNext]_(Log!logVars)
  <2> SUFFICES ASSUME IndInv, [Next]_vars
               PROVE  Log!LogNext \/ UNCHANGED Log!logVars
    OBVIOUS
  <2>1. ASSUME NEW v \in Vertices, NEW u \in Vertices, NEW d \in DataSizes,
               AddEdge(v, u, d)
        PROVE  Log!LogNext
    BY <2>1, AddEdgeAccepts
  <2>2. CASE Expire
    BY <2>2, ExpireStutters
  <2>3. ASSUME UNCHANGED <<stored, neigLists, winLists, lastTime>>
        PROVE  UNCHANGED Log!logVars
    BY <2>3 DEF Log!logVars, History
  <2>4. CASE FormBlock
    <3>1. CASE FinishBlock /\ UNCHANGED memVars
      BY <3>1, FinishBlockPersists DEF Log!LogNext
    <3>2. CASE TakeEdge /\ UNCHANGED memVars
      BY <3>2, <2>3 DEF TakeEdge, memVars
    <3> QED
      BY <2>4, <3>1, <3>2 DEF FormBlock
  <2>5. CASE ReturnAddEdge \/ Flush \/ FlushBlock \/ ReturnFlush \/ UNCHANGED vars
    BY <2>3, <2>5 DEF ReturnAddEdge, Flush, FlushBlock, ReturnFlush,
                      vars, expVars, memVars
  <2>6. CASE RefuseEdge
    <3>1. lastTime' = lastTime + 1 /\ stored' = stored
          /\ neigLists' = neigLists /\ winLists' = winLists
      BY <2>6 DEF RefuseEdge, expVars
    <3>2. [w \in Vertices |-> History(w)]' = [w \in Vertices |-> History(w)]
      BY <3>1 DEF History
    <3> QED
      BY <3>1, <3>2 DEF Log!LogNext, Log!Refuse
  <2> QED
    BY <2>1, <2>2, <2>4, <2>5, <2>6 DEF Next, Step
<1> QED
  BY <1>1, <1>2, InvariantHolds, PTL DEF Spec, ImplementsEdgeLog, Log!LogSpec
=============================================================================
