--------------------------- MODULE VertexManager ---------------------------
(***************************************************************************)
(* VertexManager: the attributes of vertices, written once by createVertex *)
(* and read by getVertexData (and by every addEdge, for both endpoints)    *)
(* through an LRU cache.                                                   *)
(***************************************************************************)
EXTENDS LruList, FiniteSets

CONSTANTS Vertices,
          Attributes,            \* what distinguishes one vertex's data
          NoData,
          VertexDataBufferSize   \* Conf::vertexDataBufferSize

\* A vertex is evicted when the list has reached the buffer size, so a
\* buffer of one would evict, and free, the very data it is to return.
ASSUME VertexManagerAssumption ==
    /\ NoData \notin Attributes
    /\ VertexDataBufferSize \in Nat \ {0, 1}

VARIABLES db,        \* db_, "vertex_data"
          cache,     \* cache_
          lruList,   \* lruList_, most recently used vertex first
          answer     \* the vertex the last getVertexData asked for and the
                     \* data it returned, NoData if it threw

vars == <<db, cache, lruList, answer>>

Empty == [v \in Vertices |-> NoData]

Init ==
    /\ db = Empty
    /\ cache = Empty
    /\ lruList = <<>>
    /\ answer = <<>>

\* Faulty: only the cache is asked whether the vertex is known.
AddVertexUnchecked(v, d) ==
    /\ cache[v] = NoData
    /\ db' = [db EXCEPT ![v] = d]
    /\ UNCHANGED <<cache, lruList, answer>>

\* addVertex; vertex_already_exists_exception when the vertex is known
AddVertex(v, d) ==
    /\ cache[v] = NoData
    /\ db[v] = NoData
    /\ db' = [db EXCEPT ![v] = d]
    /\ UNCHANGED <<cache, lruList, answer>>

\* Room for one more: the back of the list goes when the list, with the new
\* vertex in front, has reached the buffer size.
Evicts(list) == Len(list) >= VertexDataBufferSize

Load(v) ==
    LET list == <<v>> \o lruList
        last == list[Len(list)]
        loaded == [cache EXCEPT ![v] = db[v]]
    IN  IF Evicts(list)
        THEN /\ lruList' = SubSeq(list, 1, Len(list) - 1)
             /\ cache' = [loaded EXCEPT ![last] = NoData]
        ELSE /\ lruList' = list
             /\ cache' = loaded

\* Faulty: a hit leaves the old node in the list.
GetVertexDataTwice(v) ==
    /\ \/ /\ cache[v] # NoData
          /\ lruList' = <<v>> \o lruList
          /\ answer' = <<v, cache[v]>>
          /\ UNCHANGED cache
       \/ /\ cache[v] = NoData
          /\ db[v] # NoData
          /\ Load(v)
          /\ answer' = <<v, db[v]>>
    /\ UNCHANGED db

\* Faulty: a vertex that is not cached is reported as unknown.
GetVertexDataCached(v) ==
    /\ \/ /\ cache[v] = NoData
          /\ answer' = <<v, NoData>>
          /\ UNCHANGED <<cache, lruList>>
       \/ /\ cache[v] = NoData
          /\ db[v] # NoData
          /\ Load(v)
          /\ answer' = <<v, db[v]>>
    /\ UNCHANGED db

GetVertexData(v) ==
    /\ \/ /\ cache[v] # NoData
          /\ lruList' = <<v>> \o Erase(lruList, v)
          /\ answer' = <<v, cache[v]>>
          /\ UNCHANGED cache
       \/ /\ cache[v] = NoData
          /\ db[v] # NoData
          /\ Load(v)
          /\ answer' = <<v, db[v]>>
       \/ /\ cache[v] = NoData
          /\ db[v] = NoData
          /\ answer' = <<v, NoData>>
          /\ UNCHANGED <<cache, lruList>>
    /\ UNCHANGED db

\* The process ends, at any time, and a new one opens the directory.
Reopen ==
    /\ cache' = Empty
    /\ lruList' = <<>>
    /\ UNCHANGED <<db, answer>>

Operation ==
    \E v \in Vertices : \/ GetVertexData(v)
                        \/ \E d \in Attributes : AddVertex(v, d)

Next == Operation \/ Reopen

Spec == Init /\ [][Next]_vars
-----------------------------------------------------------------------------
(* Properties *)

\* The list names the cached vertices, each once, and never more than the
\* buffer is to hold; what is cached is what is stored.
CacheConsistent ==
    /\ Distinct(lruList)
    /\ Len(lruList) <= VertexDataBufferSize
    /\ \A v \in Vertices :
          /\ cache[v] # NoData <=> Listed(lruList, v)
          /\ cache[v] # NoData => cache[v] = db[v]

\* The data of a vertex is written once and for all.
WriteOnce == [][\A v \in Vertices : db[v] # NoData => db'[v] = db[v]]_vars

Store == INSTANCE RecordStore WITH Keys <- Vertices, Values <- Attributes,
                                   NoValue <- NoData, store <- db

\* getVertexData answers what addVertex stored, whatever is in the cache.
ImplementsRecordStore == Store!StoreSpec
=============================================================================
