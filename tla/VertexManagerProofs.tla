------------------------ MODULE VertexManagerProofs ------------------------
(***************************************************************************)
(* VertexManager implements a map that is written once per vertex, for     *)
(* every set of vertices, every buffer of at least two and all data.       *)
(***************************************************************************)
EXTENDS VertexManager, ListLemmas

VertexTypes ==
    /\ db \in [Vertices -> Attributes \cup {NoData}]
    /\ cache \in [Vertices -> Attributes \cup {NoData}]
    /\ lruList \in Seq(Vertices)

IndInv == VertexTypes /\ CacheConsistent

\* An empty database satisfies the invariant.
LEMMA InitInv == Init => IndInv
BY VertexManagerAssumption
   DEF Init, IndInv, VertexTypes, CacheConsistent, Empty, Distinct, Listed

\* A hit of getVertexData moves the vertex to the front of the list.
LEMMA HitStep ==
    ASSUME IndInv, NEW v \in Vertices, cache[v] # NoData,
           lruList' = <<v>> \o Erase(lruList, v), UNCHANGED <<cache, db>>
    PROVE  IndInv'
<1> DEFINE rest == Erase(lruList, v)
<1>1. /\ lruList \in Seq(Vertices)
      /\ Distinct(lruList)
      /\ Listed(lruList, v)
      /\ Len(lruList) <= VertexDataBufferSize
  BY DEF IndInv, VertexTypes, CacheConsistent
<1>2. /\ rest \in Seq(Vertices)
      /\ Len(rest) = Len(lruList) - 1
      /\ Distinct(rest)
      /\ \A x : Listed(rest, x) <=> x # v /\ Listed(lruList, x)
  BY <1>1, EraseListed
<1> HIDE DEF rest
<1>3. /\ lruList' \in Seq(Vertices)
      /\ Len(lruList') = Len(rest) + 1
      /\ Distinct(lruList')
      /\ \A x : Listed(lruList', x) <=> x = v \/ Listed(rest, x)
  <2>1. ~Listed(rest, v)
    BY <1>2
  <2>2. lruList' = <<v>> \o rest
    BY DEF rest
  <2>3. /\ <<v>> \o rest \in Seq(Vertices)
        /\ Len(<<v>> \o rest) = Len(rest) + 1
        /\ Distinct(<<v>> \o rest)
        /\ \A x : Listed(<<v>> \o rest, x) <=> x = v \/ Listed(rest, x)
    BY <1>2, <2>1, PushFront
  <2> QED
    BY <2>2, <2>3, Zenon
<1>4. \A x : Listed(lruList', x) <=> Listed(lruList, x)
  BY <1>1, <1>2, <1>3, Zenon
<1>5. Len(lruList') <= VertexDataBufferSize
  BY <1>1, <1>2, <1>3
<1> QED
  BY <1>3, <1>4, <1>5 DEF IndInv, VertexTypes, CacheConsistent

\* A vertex that getVertexData loads may push the last one of the list out,
\* but never itself.
LEMMA LoadStep ==
    ASSUME IndInv, NEW v \in Vertices, cache[v] = NoData, db[v] # NoData,
           Load(v), UNCHANGED db
    PROVE  IndInv'
<1> DEFINE list == <<v>> \o lruList
           last == list[Len(list)]
           front == SubSeq(list, 1, Len(list) - 1)
           loaded == [cache EXCEPT ![v] = db[v]]
<1>0. /\ lruList \in Seq(Vertices)
      /\ Distinct(lruList)
      /\ ~Listed(lruList, v)
      /\ Len(lruList) <= VertexDataBufferSize
      /\ VertexDataBufferSize \in Nat \ {0, 1}
      /\ cache \in [Vertices -> Attributes \cup {NoData}]
      /\ db \in [Vertices -> Attributes \cup {NoData}]
      /\ \A x \in Vertices : /\ cache[x] # NoData <=> Listed(lruList, x)
                             /\ cache[x] # NoData => cache[x] = db[x]
  BY VertexManagerAssumption DEF IndInv, VertexTypes, CacheConsistent
<1>1. /\ list \in Seq(Vertices)
      /\ Len(list) = Len(lruList) + 1
      /\ Distinct(list)
      /\ \A x : Listed(list, x) <=> x = v \/ Listed(lruList, x)
  BY <1>0, PushFront
<1>2. /\ loaded \in [Vertices -> Attributes \cup {NoData}]
      /\ \A x \in Vertices : loaded[x] = IF x = v THEN db[v] ELSE cache[x]
  BY <1>0
<1>3. IF Evicts(list)
      THEN lruList' = front /\ cache' = [loaded EXCEPT ![last] = NoData]
      ELSE lruList' = list /\ cache' = loaded
  BY DEF Load
<1>4. CASE Evicts(list)
  <2>1. Len(list) \in Nat /\ Len(list) >= 2
    BY <1>0, <1>1, <1>4 DEF Evicts
  <2>2. last # v
    <3>1. last = lruList[Len(lruList)] /\ Len(lruList) \in 1..Len(lruList)
      BY <1>0, <1>1, <2>1
    <3> QED
      BY <3>1, <1>0 DEF Listed
  <2> HIDE DEF list
  <2>3. /\ last \in Vertices
        /\ front \in Seq(Vertices)
        /\ Len(front) = Len(list) - 1
        /\ Distinct(front)
        /\ \A x : Listed(front, x) <=> x # last /\ Listed(list, x)
    BY <1>1, <2>1, PopBack
  <2> HIDE DEF last, front, loaded
  <2>4. lruList' = front /\ cache' = [loaded EXCEPT ![last] = NoData]
    BY <1>3, <1>4
  <2>5. /\ cache' \in [Vertices -> Attributes \cup {NoData}]
        /\ \A x \in Vertices : cache'[x] = IF x = last THEN NoData
                                           ELSE IF x = v THEN db[v] ELSE cache[x]
    BY <1>2, <2>3, <2>4
  <2>6. Len(lruList') <= VertexDataBufferSize
    BY <1>0, <1>1, <2>3, <2>4
  <2>7. ASSUME NEW x \in Vertices
        PROVE  /\ cache'[x] # NoData <=> Listed(lruList', x)
               /\ cache'[x] # NoData => cache'[x] = db[x]
    BY <1>0, <1>1, <2>2, <2>3, <2>4, <2>5
  <2> QED
    BY <1>0, <2>3, <2>4, <2>5, <2>6, <2>7
       DEF IndInv, VertexTypes, CacheConsistent
<1>5. CASE ~Evicts(list)
  <2>1. lruList' = list /\ cache' = loaded
    BY <1>3, <1>5
  <2>2. Len(list) <= VertexDataBufferSize
    BY <1>0, <1>1, <1>5 DEF Evicts
  <2> HIDE DEF list, loaded
  <2>3. ASSUME NEW x \in Vertices
        PROVE  /\ cache'[x] # NoData <=> Listed(lruList', x)
               /\ cache'[x] # NoData => cache'[x] = db[x]
    BY <1>0, <1>1, <1>2, <2>1
  <2> QED
    BY <1>0, <1>1, <1>2, <2>1, <2>2, <2>3
       DEF IndInv, VertexTypes, CacheConsistent
<1> QED
  BY <1>4, <1>5

\* getVertexData keeps the invariant and answers what is stored.
LEMMA GetStep ==
    ASSUME IndInv, NEW v \in Vertices, GetVertexData(v)
    PROVE  IndInv' /\ Store!Get(v)
<1>0. UNCHANGED db /\ (cache[v] # NoData => cache[v] = db[v])
  BY DEF IndInv, CacheConsistent, GetVertexData
<1>1. CASE /\ cache[v] # NoData
           /\ lruList' = <<v>> \o Erase(lruList, v)
           /\ answer' = <<v, cache[v]>>
           /\ UNCHANGED cache
  BY <1>0, <1>1, HitStep DEF Store!Get
<1>2. CASE /\ cache[v] = NoData
           /\ db[v] # NoData
           /\ Load(v)
           /\ answer' = <<v, db[v]>>
  BY <1>0, <1>2, LoadStep DEF Store!Get
<1>3. CASE /\ cache[v] = NoData
           /\ db[v] = NoData
           /\ answer' = <<v, NoData>>
           /\ UNCHANGED <<cache, lruList>>
  BY <1>0, <1>3 DEF Store!Get, IndInv, VertexTypes, CacheConsistent
<1> QED
  BY <1>1, <1>2, <1>3 DEF GetVertexData

\* addVertex writes a vertex that is not in the map.
LEMMA AddStep ==
    ASSUME IndInv, NEW v \in Vertices, NEW d \in Attributes, AddVertex(v, d)
    PROVE  IndInv' /\ Store!Add(v, d)
<1>1. /\ db[v] = NoData /\ cache[v] = NoData
      /\ db' = [db EXCEPT ![v] = d]
      /\ UNCHANGED <<cache, lruList, answer>>
  BY DEF AddVertex
<1>2. db \in [Vertices -> Attributes \cup {NoData}]
  BY DEF IndInv, VertexTypes
<1>3. \A x \in Vertices : cache[x] # NoData => db'[x] = db[x]
  BY <1>1, <1>2
<1>4. CacheConsistent' /\ VertexTypes'
  BY <1>1, <1>2, <1>3 DEF IndInv, VertexTypes, CacheConsistent
<1> QED
  BY <1>1, <1>4 DEF IndInv, Store!Add

\* A process that ends loses its cache and nothing else.
LEMMA ReopenStep ==
    ASSUME IndInv, Reopen \/ UNCHANGED vars
    PROVE  IndInv' /\ UNCHANGED <<db, answer>>
<1>1. CASE Reopen
  BY <1>1, VertexManagerAssumption
     DEF Reopen, IndInv, VertexTypes, CacheConsistent, Empty, Distinct, Listed
<1>2. CASE UNCHANGED vars
  BY <1>2 DEF vars, IndInv, VertexTypes, CacheConsistent
<1> QED
  BY <1>1, <1>2

\* Every step keeps the invariant, reads or adds, and never writes twice.
LEMMA NextStep ==
    ASSUME IndInv, [Next]_vars
    PROVE  /\ IndInv'
           /\ [Store!StoreNext]_(Store!storeVars)
           /\ \A v \in Vertices : db[v] # NoData => db'[v] = db[v]
<1>t. db \in [Vertices -> Attributes \cup {NoData}]
  BY DEF IndInv, VertexTypes
<1>1. ASSUME NEW v \in Vertices, GetVertexData(v)
      PROVE  IndInv' /\ Store!StoreNext /\ UNCHANGED db
  BY <1>1, GetStep DEF Store!StoreNext, Store!Get
<1>2. ASSUME NEW v \in Vertices, NEW d \in Attributes, AddVertex(v, d)
      PROVE  /\ IndInv' /\ Store!StoreNext
             /\ \A x \in Vertices : db[x] # NoData => db'[x] = db[x]
  <2>1. IndInv' /\ Store!Add(v, d)
    BY <1>2, AddStep
  <2>2. db[v] = NoData /\ db' = [db EXCEPT ![v] = d]
    BY <2>1 DEF Store!Add
  <2>3. \A x \in Vertices : db[x] # NoData => db'[x] = db[x]
    BY <1>t, <2>2
  <2> QED
    BY <2>1, <2>3 DEF Store!StoreNext
<1>3. ASSUME Reopen \/ UNCHANGED vars
      PROVE  IndInv' /\ UNCHANGED Store!storeVars /\ UNCHANGED db
  BY <1>3, ReopenStep DEF Store!storeVars
<1> QED
  BY <1>1, <1>2, <1>3 DEF Next, Operation

\* The cache of VertexManager and its list agree after every operation.
THEOREM InvariantHolds == Spec => []IndInv
<1>1. IndInv /\ [Next]_vars => IndInv'
  BY NextStep
<1> QED
  BY InitInv, <1>1, PTL DEF Spec

\* getVertexData's list names the cached vertices, each once, and no more
\* than vertexDataBufferSize of them; what is cached is what is stored.
THEOREM CacheIsConsistent == Spec => []CacheConsistent
<1>1. IndInv => CacheConsistent
  BY DEF IndInv
<1> QED
  BY InvariantHolds, <1>1, PTL

\* addVertex refuses a vertex that has data, whether or not it is cached, and
\* nothing else writes: the data of a vertex never changes.
THEOREM DataIsWrittenOnce == Spec => WriteOnce
<1>1. IndInv /\ [Next]_vars
        => [\A v \in Vertices : db[v] # NoData => db'[v] = db[v]]_vars
  BY NextStep
<1> QED
  BY InvariantHolds, <1>1, PTL DEF Spec, WriteOnce

\* VertexManager implements the map: getVertexData answers what addVertex
\* stored, whatever was cached, evicted or lost with an earlier process.
THEOREM ManagerImplementsStore == Spec => ImplementsRecordStore
<1>1. Init => Store!StoreInit
  BY DEF Init, Empty, Store!StoreInit
<1>2. IndInv /\ [Next]_vars => [Store!StoreNext]_(Store!storeVars)
  BY NextStep
<1> QED
  BY InvariantHolds, <1>1, <1>2, PTL
     DEF Spec, ImplementsRecordStore, Store!StoreSpec
=============================================================================
