------------------------- MODULE BlockManagerProofs -------------------------
(***************************************************************************)
(* BlockManager implements a map from block ids to blocks, for every       *)
(* buffer size, every number of blocks and every set of contents.          *)
(***************************************************************************)
EXTENDS BlockManager, ListLemmas

\* The cache and its LRU list agree, the cache holds what the database
\* holds, and the counter, in memory and in the file, is ahead of every id
\* in use.
IndInv ==
    /\ TypeOK
    /\ LruMatchesCache
    /\ BufferBounded
    /\ CacheCoherent
    /\ NextIdsFree
    /\ storedNextId <= nextBlockId

\* getBlock and updateBlock on a cached block keep the buffer in order.
LEMMA HitBuffer ==
    ASSUME TypeOK, LruMatchesCache, BufferBounded,
           NEW id \in BlockIds, NEW c \in Contents, Hit(id, c)
    PROVE  /\ lruList' \in Seq(BlockIds)
           /\ cache' \in [BlockIds -> Contents \cup {NoBlock}]
           /\ LruMatchesCache'
           /\ BufferBounded'
           /\ \A x \in BlockIds : cache'[x] = IF x = id THEN c ELSE cache[x]
<1> DEFINE list == Erase(lruList, id)
<1>0. /\ cache[id] # NoBlock
      /\ lruList' = <<id>> \o list
      /\ cache' = [cache EXCEPT ![id] = c]
      /\ cache \in [BlockIds -> Contents \cup {NoBlock}]
      /\ lruList \in Seq(BlockIds)
      /\ Distinct(lruList)
      /\ Len(lruList) <= BlockBufferSize
      /\ c # NoBlock
      /\ \A x \in BlockIds : cache[x] # NoBlock <=> Listed(lruList, x)
  BY BlockManagerAssumption DEF Hit, TypeOK, BufferBounded, LruMatchesCache
<1>1. /\ list \in Seq(BlockIds)
      /\ Len(list) = Len(lruList) - 1
      /\ Distinct(list)
      /\ \A x : Listed(list, x) <=> x # id /\ Listed(lruList, x)
  BY <1>0, EraseListed
<1> HIDE DEF list
<1>2. /\ <<id>> \o list \in Seq(BlockIds)
      /\ Len(<<id>> \o list) = Len(list) + 1
      /\ Distinct(<<id>> \o list)
      /\ \A x : Listed(<<id>> \o list, x) <=> x = id \/ Listed(list, x)
  <2>1. ~Listed(list, id)
    BY <1>1
  <2> QED
    BY <1>1, <2>1, PushFront
<1>3. /\ lruList' \in Seq(BlockIds)
      /\ Len(lruList') = Len(list) + 1
      /\ Distinct(lruList')
      /\ \A x : Listed(lruList', x) <=> x = id \/ Listed(list, x)
  BY <1>0, <1>2, Zenon
<1>4. /\ cache' \in [BlockIds -> Contents \cup {NoBlock}]
      /\ \A x \in BlockIds : cache'[x] = IF x = id THEN c ELSE cache[x]
  BY <1>0
<1>5. BufferBounded'
  BY <1>0, <1>1, <1>3 DEF BufferBounded
<1>6. \A x \in BlockIds : cache'[x] # NoBlock <=> Listed(lruList', x)
  BY <1>0, <1>1, <1>3, <1>4
<1> QED
  BY <1>3, <1>4, <1>5, <1>6 DEF LruMatchesCache

\* A block that getBlock or updateBlock loads may push the last one out.
LEMMA MissBuffer ==
    ASSUME TypeOK, LruMatchesCache, BufferBounded,
           NEW id \in BlockIds, NEW c \in Contents, Miss(id, c)
    PROVE  /\ lruList' \in Seq(BlockIds)
           /\ cache' \in [BlockIds -> Contents \cup {NoBlock}]
           /\ LruMatchesCache'
           /\ BufferBounded'
           /\ \A x \in BlockIds : \/ x = id /\ cache'[x] = c
                                  \/ x # id /\ cache'[x] \in {cache[x], NoBlock}
<1> DEFINE n == Len(lruList)
           last == lruList[n]
           front == SubSeq(lruList, 1, n - 1)
<1>0. /\ cache[id] = NoBlock
      /\ cache \in [BlockIds -> Contents \cup {NoBlock}]
      /\ lruList \in Seq(BlockIds)
      /\ Distinct(lruList)
      /\ n \in Nat
      /\ n <= BlockBufferSize
      /\ BlockBufferSize \in Nat \ {0}
      /\ c # NoBlock
      /\ \A x \in BlockIds : cache[x] # NoBlock <=> Listed(lruList, x)
  BY BlockManagerAssumption DEF Miss, TypeOK, BufferBounded, LruMatchesCache
<1>1. ~Listed(lruList, id)
  BY <1>0
<1>2. CASE n + 1 > BlockBufferSize
  <2>1. /\ lruList' = <<id>> \o front
        /\ cache' = [cache EXCEPT ![last] = NoBlock, ![id] = c]
    BY <1>2 DEF Miss
  <2>2. n > 0
    BY <1>0, <1>2
  <2>3. /\ last \in BlockIds
        /\ front \in Seq(BlockIds)
        /\ Len(front) = n - 1
        /\ Distinct(front)
        /\ \A x : Listed(front, x) <=> x # last /\ Listed(lruList, x)
    BY <1>0, <2>2, PopBack
  <2> HIDE DEF front
  <2>4. /\ <<id>> \o front \in Seq(BlockIds)
        /\ Len(<<id>> \o front) = Len(front) + 1
        /\ Distinct(<<id>> \o front)
        /\ \A x : Listed(<<id>> \o front, x) <=> x = id \/ Listed(front, x)
    <3>1. ~Listed(front, id)
      BY <1>1, <2>3
    <3> QED
      BY <2>3, <3>1, PushFront
  <2>5. /\ lruList' \in Seq(BlockIds)
        /\ Len(lruList') = Len(front) + 1
        /\ Distinct(lruList')
        /\ \A x : Listed(lruList', x) <=> x = id \/ Listed(front, x)
    BY <2>1, <2>4, Zenon
  <2> HIDE DEF last
  <2>6. \A x \in BlockIds : cache'[x] = IF x = id THEN c
                                       ELSE IF x = last THEN NoBlock
                                       ELSE cache[x]
    BY <1>0, <2>1, <2>3
  <2>7. \A x \in BlockIds : cache'[x] # NoBlock <=> Listed(lruList', x)
    BY <1>0, <2>3, <2>5, <2>6
  <2>8. BufferBounded'
    BY <1>0, <2>3, <2>5 DEF BufferBounded
  <2>9. cache' \in [BlockIds -> Contents \cup {NoBlock}]
    BY <1>0, <2>1
  <2> QED
    BY <2>5, <2>6, <2>7, <2>8, <2>9 DEF LruMatchesCache
<1>3. CASE ~(n + 1 > BlockBufferSize)
  <2>1. /\ lruList' = <<id>> \o lruList
        /\ cache' = [cache EXCEPT ![id] = c]
    BY <1>3 DEF Miss
  <2>2. /\ <<id>> \o lruList \in Seq(BlockIds)
        /\ Len(<<id>> \o lruList) = Len(lruList) + 1
        /\ Distinct(<<id>> \o lruList)
        /\ \A x : Listed(<<id>> \o lruList, x) <=> x = id \/ Listed(lruList, x)
    BY <1>0, <1>1, PushFront
  <2>3. /\ lruList' \in Seq(BlockIds)
        /\ Len(lruList') = Len(lruList) + 1
        /\ Distinct(lruList')
        /\ \A x : Listed(lruList', x) <=> x = id \/ Listed(lruList, x)
    BY <2>1, <2>2, Zenon
  <2>4. \A x \in BlockIds : cache'[x] = IF x = id THEN c ELSE cache[x]
    BY <1>0, <2>1
  <2>5. \A x \in BlockIds : cache'[x] # NoBlock <=> Listed(lruList', x)
    BY <1>0, <2>3, <2>4
  <2>6. BufferBounded'
    BY <1>0, <1>3, <2>3 DEF BufferBounded
  <2>7. cache' \in [BlockIds -> Contents \cup {NoBlock}]
    BY <1>0, <2>1
  <2> QED
    BY <2>3, <2>4, <2>5, <2>6, <2>7 DEF LruMatchesCache
<1> QED
  BY <1>2, <1>3

\* An empty store satisfies the invariant.
LEMMA InitInv == Init => IndInv
BY BlockManagerAssumption
DEF Init, IndInv, TypeOK, LruMatchesCache, Distinct, Listed, BufferBounded,
    CacheCoherent,
    NextIdsFree, Empty, BlockIds

\* Reading keeps the invariant and the map; it answers what is stored.
LEMMA GetBlockStep ==
    ASSUME IndInv, NEW id \in BlockIds, GetBlock(id)
    PROVE  IndInv' /\ Store!Get(id)
<1>0. /\ TypeOK /\ LruMatchesCache /\ BufferBounded
      /\ CacheCoherent /\ NextIdsFree /\ storedNextId <= nextBlockId
      /\ nextBlockId' = nextBlockId /\ storedNextId' = storedNextId
  BY DEF IndInv, GetBlock
<1>t. /\ db \in [BlockIds -> Contents \cup {NoBlock}]
      /\ cache \in [BlockIds -> Contents \cup {NoBlock}]
  BY <1>0 DEF TypeOK
<1>1. CASE Hit(id, cache[id]) /\ answer' = <<id, cache[id]>> /\ UNCHANGED db
  <2>1. cache[id] \in Contents /\ cache[id] = db[id]
    BY <1>1, <1>0, <1>t DEF Hit, CacheCoherent
  <2>2. /\ lruList' \in Seq(BlockIds)
        /\ cache' \in [BlockIds -> Contents \cup {NoBlock}]
        /\ LruMatchesCache'
        /\ BufferBounded'
        /\ \A x \in BlockIds :
              cache'[x] = IF x = id THEN cache[id] ELSE cache[x]
    BY <1>0, <1>1, <2>1, HitBuffer, Zenon
  <2>3. CacheCoherent' /\ NextIdsFree'
    BY <1>0, <1>1, <2>2 DEF CacheCoherent, NextIdsFree
  <2>4. TypeOK'
    BY <1>0, <1>1, <2>1, <2>2 DEF TypeOK
  <2> QED
    BY <1>0, <1>1, <2>1, <2>2, <2>3, <2>4 DEF IndInv, Store!Get
<1>2. CASE Miss(id, db[id]) /\ answer' = <<id, db[id]>> /\ UNCHANGED db
  <2>1. db[id] \in Contents
    BY <1>2, <1>t DEF Miss
  <2>2. /\ lruList' \in Seq(BlockIds)
        /\ cache' \in [BlockIds -> Contents \cup {NoBlock}]
        /\ LruMatchesCache'
        /\ BufferBounded'
        /\ \A x \in BlockIds :
              \/ x = id /\ cache'[x] = db[id]
              \/ x # id /\ cache'[x] \in {cache[x], NoBlock}
    BY <1>0, <1>2, <2>1, MissBuffer, Zenon
  <2>3. CacheCoherent' /\ NextIdsFree'
    BY <1>0, <1>2, <2>2 DEF CacheCoherent, NextIdsFree
  <2>4. TypeOK'
    BY <1>0, <1>2, <2>1, <2>2 DEF TypeOK
  <2> QED
    BY <1>0, <1>2, <2>1, <2>2, <2>3, <2>4 DEF IndInv, Store!Get
<1>3. CASE NotFound(id)
  BY <1>0, <1>3
  DEF NotFound, bufferVars, IndInv, TypeOK, LruMatchesCache, Distinct,
      Listed, BufferBounded,
      CacheCoherent, NextIdsFree, Store!Get
<1> QED
  BY <1>1, <1>2, <1>3 DEF GetBlock

\* Adding a block uses an id that is free in the map.
LEMMA AddBlockStep ==
    ASSUME IndInv, NEW c \in Contents, AddBlock(c)
    PROVE  IndInv' /\ nextBlockId \in BlockIds /\ Store!Add(nextBlockId, c)
<1>0. /\ TypeOK /\ LruMatchesCache /\ BufferBounded
      /\ CacheCoherent /\ NextIdsFree /\ storedNextId <= nextBlockId
  BY DEF IndInv
<1>1. /\ nextBlockId \in BlockIds
      /\ db' = [db EXCEPT ![nextBlockId] = c]
      /\ nextBlockId' = nextBlockId + 1
      /\ cache' = cache /\ lruList' = lruList
      /\ storedNextId' = storedNextId /\ answer' = answer
  BY DEF AddBlock, bufferVars
<1>t. /\ db \in [BlockIds -> Contents \cup {NoBlock}]
      /\ cache \in [BlockIds -> Contents \cup {NoBlock}]
      /\ nextBlockId \in Nat /\ storedNextId \in Nat /\ MaxBlocks \in Nat
      /\ nextBlockId < MaxBlocks
  BY <1>0, <1>1, BlockManagerAssumption DEF TypeOK, BlockIds
<1>2. db[nextBlockId] = NoBlock /\ cache[nextBlockId] = NoBlock
  BY <1>0, <1>1, <1>t DEF NextIdsFree, CacheCoherent
<1>3. TypeOK'
  BY <1>0, <1>1, <1>t DEF TypeOK
<1>4. LruMatchesCache' /\ BufferBounded'
  BY <1>0, <1>1 DEF LruMatchesCache, Distinct, Listed, BufferBounded
<1>5. CacheCoherent'
  BY <1>0, <1>1, <1>2, <1>t DEF CacheCoherent
<1>6. NextIdsFree'
  BY <1>0, <1>1, <1>t DEF NextIdsFree, BlockIds
<1> QED
  BY <1>0, <1>1, <1>2, <1>3, <1>4, <1>5, <1>6, <1>t DEF IndInv, Store!Add

\* Updating writes cache and database alike.
LEMMA UpdateBlockStep ==
    ASSUME IndInv, NEW id \in BlockIds, NEW c \in Contents, UpdateBlock(id, c)
    PROVE  IndInv' /\ Store!Update(id, c)
<1>0. /\ TypeOK /\ LruMatchesCache /\ BufferBounded
      /\ CacheCoherent /\ NextIdsFree /\ storedNextId <= nextBlockId
      /\ nextBlockId' = nextBlockId /\ storedNextId' = storedNextId
  BY DEF IndInv, UpdateBlock
<1>t. /\ db \in [BlockIds -> Contents \cup {NoBlock}]
      /\ cache \in [BlockIds -> Contents \cup {NoBlock}]
      /\ c # NoBlock
  BY <1>0, BlockManagerAssumption DEF TypeOK
<1>1. ASSUME /\ Hit(id, c) \/ Miss(id, c)
             /\ db[id] # NoBlock
             /\ answer' = <<id, db[id]>>
             /\ db' = [db EXCEPT ![id] = c]
      PROVE  IndInv' /\ Store!Update(id, c)
  <2>1. /\ lruList' \in Seq(BlockIds)
        /\ cache' \in [BlockIds -> Contents \cup {NoBlock}]
        /\ LruMatchesCache'
        /\ BufferBounded'
        /\ \A x \in BlockIds :
              \/ x = id /\ cache'[x] = c
              \/ x # id /\ cache'[x] \in {cache[x], NoBlock}
    <3>1. CASE Hit(id, c)
      <4>1. /\ lruList' \in Seq(BlockIds)
            /\ cache' \in [BlockIds -> Contents \cup {NoBlock}]
            /\ LruMatchesCache'
            /\ BufferBounded'
            /\ \A x \in BlockIds :
                  cache'[x] = IF x = id THEN c ELSE cache[x]
        BY <1>0, <3>1, HitBuffer, Zenon
      <4> QED
        BY <4>1
    <3>2. CASE Miss(id, c)
      BY <1>0, <3>2, MissBuffer, Zenon
    <3> QED
      BY <1>1, <3>1, <3>2
  <2>2. \A x \in BlockIds : db'[x] = IF x = id THEN c ELSE db[x]
    BY <1>1, <1>t
  <2>3. CacheCoherent'
    BY <1>0, <2>1, <2>2 DEF CacheCoherent
  <2>4. NextIdsFree'
    BY <1>0, <1>1, <2>2 DEF NextIdsFree
  <2>5. TypeOK'
    BY <1>0, <1>1, <1>t, <2>1 DEF TypeOK
  <2>6. Store!Update(id, c)
    BY <1>1 DEF Store!Update
  <2> QED
    BY <1>0, <2>1, <2>3, <2>4, <2>5, <2>6 DEF IndInv
<1>2. CASE /\ Hit(id, c)
           /\ answer' = <<id, cache[id]>>
           /\ db' = [db EXCEPT ![id] = c]
  <2>1. cache[id] # NoBlock /\ cache[id] = db[id]
    BY <1>2, <1>0 DEF Hit, CacheCoherent
  <2> QED
    BY <1>1, <1>2, <2>1
<1>3. CASE /\ Miss(id, c)
           /\ answer' = <<id, db[id]>>
           /\ db' = [db EXCEPT ![id] = c]
  <2>1. db[id] # NoBlock
    BY <1>3 DEF Miss
  <2> QED
    BY <1>1, <1>3, <2>1
<1>4. CASE NotFound(id)
  <2>1. /\ db[id] = NoBlock /\ answer' = <<id, NoBlock>>
        /\ db' = db /\ cache' = cache /\ lruList' = lruList
    BY <1>4 DEF NotFound, bufferVars
  <2>2. [db EXCEPT ![id] = NoBlock] = db
    BY <2>1, <1>t
  <2>3. Store!Update(id, c)
    BY <2>1, <2>2 DEF Store!Update
  <2> QED
    BY <1>0, <2>1, <2>3
    DEF IndInv, TypeOK, LruMatchesCache, Distinct, Listed, BufferBounded,
        CacheCoherent,
        NextIdsFree
<1> QED
  BY <1>2, <1>3, <1>4 DEF UpdateBlock

\* Removing a block takes it out of the cache and its list as well.
LEMMA RemoveBlockStep ==
    ASSUME IndInv, NEW id \in BlockIds, RemoveBlock(id)
    PROVE  IndInv' /\ Store!Remove(id)
<1>0. /\ TypeOK /\ LruMatchesCache /\ BufferBounded
      /\ CacheCoherent /\ NextIdsFree /\ storedNextId <= nextBlockId
      /\ nextBlockId' = nextBlockId /\ storedNextId' = storedNextId
      /\ answer' = answer
      /\ db' = [db EXCEPT ![id] = NoBlock]
  BY DEF IndInv, RemoveBlock
<1>t. /\ db \in [BlockIds -> Contents \cup {NoBlock}]
      /\ cache \in [BlockIds -> Contents \cup {NoBlock}]
      /\ lruList \in Seq(BlockIds)
  BY <1>0 DEF TypeOK
<1>1. \A x \in BlockIds : db'[x] = IF x = id THEN NoBlock ELSE db[x]
  BY <1>0, <1>t
<1>2. /\ lruList' \in Seq(BlockIds)
      /\ LruMatchesCache'
      /\ BufferBounded'
      /\ cache' \in [BlockIds -> Contents \cup {NoBlock}]
      /\ \A x \in BlockIds : cache'[x] = IF x = id THEN NoBlock ELSE cache[x]
  <2>1. CASE cache[id] # NoBlock
    <3> DEFINE list == Erase(lruList, id)
    <3>1. /\ lruList' = list
          /\ cache' = [cache EXCEPT ![id] = NoBlock]
      BY <2>1 DEF RemoveBlock
    <3>2. /\ list \in Seq(BlockIds)
          /\ Len(list) = Len(lruList) - 1
          /\ Distinct(list)
          /\ \A x : Listed(list, x) <=> x # id /\ Listed(lruList, x)
      <4>1. Distinct(lruList) /\ Listed(lruList, id)
        BY <1>0, <2>1 DEF LruMatchesCache
      <4> QED
        BY <4>1, <1>t, EraseListed
    <3> HIDE DEF list
    <3>3. /\ cache' \in [BlockIds -> Contents \cup {NoBlock}]
          /\ \A x \in BlockIds :
                cache'[x] = IF x = id THEN NoBlock ELSE cache[x]
      BY <3>1, <1>t
    <3>4. \A x \in BlockIds : cache'[x] # NoBlock <=> Listed(list, x)
      BY <3>2, <3>3, <1>0 DEF LruMatchesCache
    <3>5. LruMatchesCache'
      BY <3>1, <3>2, <3>4 DEF LruMatchesCache
    <3>6. BufferBounded'
      BY <1>0, <1>t, <3>1, <3>2, BlockManagerAssumption DEF BufferBounded
    <3> QED
      BY <3>1, <3>2, <3>3, <3>5, <3>6
  <2>2. CASE cache[id] = NoBlock
    <3>1. lruList' = lruList /\ cache' = cache
      BY <2>2 DEF RemoveBlock, bufferVars
    <3> QED
      BY <3>1, <2>2, <1>0, <1>t DEF LruMatchesCache, Distinct, Listed,
      BufferBounded
  <2> QED
    BY <2>1, <2>2
<1>3. CacheCoherent' /\ NextIdsFree'
  BY <1>0, <1>1, <1>2 DEF CacheCoherent, NextIdsFree
<1>4. TypeOK'
  BY <1>0, <1>t, <1>2 DEF TypeOK
<1> QED
  BY <1>0, <1>2, <1>3, <1>4 DEF IndInv, Store!Remove

\* Dropping the cache, storing the counter and reopening after that leave
\* the map alone.
LEMMA QuietStep ==
    ASSUME IndInv,
           \/ Clear
           \/ StoreMeta
           \/ nextBlockId = storedNextId /\ Reopen
           \/ UNCHANGED vars
    PROVE  IndInv' /\ UNCHANGED <<db, answer>>
<1>0. /\ TypeOK /\ LruMatchesCache /\ BufferBounded
      /\ CacheCoherent /\ NextIdsFree /\ storedNextId <= nextBlockId
  BY DEF IndInv
<1>1. ASSUME /\ lruList' = <<>> /\ cache' = Empty /\ db' = db
             /\ nextBlockId' = nextBlockId /\ storedNextId' = storedNextId
             /\ answer' = answer
      PROVE  IndInv'
  <2>1. TypeOK' /\ BufferBounded' /\ LruMatchesCache'
    BY <1>0, <1>1, BlockManagerAssumption
    DEF TypeOK, BufferBounded, LruMatchesCache, Distinct, Listed, Empty
  <2>2. CacheCoherent' /\ NextIdsFree'
    BY <1>0, <1>1 DEF CacheCoherent, NextIdsFree, Empty
  <2> QED
    BY <1>0, <1>1, <2>1, <2>2 DEF IndInv
<1>2. CASE Clear
  BY <1>1, <1>2 DEF Clear
<1>3. CASE StoreMeta
  BY <1>0, <1>3
  DEF StoreMeta, bufferVars, IndInv, TypeOK, LruMatchesCache, Distinct,
      Listed, BufferBounded,
      CacheCoherent, NextIdsFree
<1>4. CASE nextBlockId = storedNextId /\ Reopen
  BY <1>1, <1>4 DEF Reopen
<1>5. CASE UNCHANGED vars
  BY <1>0, <1>5
  DEF vars, IndInv, TypeOK, LruMatchesCache, Distinct, Listed,
      BufferBounded, CacheCoherent,
      NextIdsFree
<1> QED
  BY <1>2, <1>3, <1>4, <1>5 DEF Clear, StoreMeta, Reopen, vars

\* Every step keeps the invariant and is a step of the map, or none.
LEMMA NextStep ==
    ASSUME IndInv, [Next]_vars
    PROVE  IndInv' /\ [Store!StoreNext]_(Store!storeVars)
<1>1. ASSUME NEW id \in BlockIds, GetBlock(id)
      PROVE  IndInv' /\ Store!StoreNext
  BY <1>1, GetBlockStep DEF Store!StoreNext
<1>2. ASSUME NEW id \in BlockIds, RemoveBlock(id)
      PROVE  IndInv' /\ Store!StoreNext
  BY <1>2, RemoveBlockStep DEF Store!StoreNext
<1>3. ASSUME NEW id \in BlockIds, NEW c \in Contents, UpdateBlock(id, c)
      PROVE  IndInv' /\ Store!StoreNext
  BY <1>3, UpdateBlockStep DEF Store!StoreNext
<1>4. ASSUME NEW c \in Contents, AddBlock(c)
      PROVE  IndInv' /\ Store!StoreNext
  BY <1>4, AddBlockStep DEF Store!StoreNext
<1>5. ASSUME \/ Clear
             \/ StoreMeta
             \/ nextBlockId = storedNextId /\ Reopen
             \/ UNCHANGED vars
      PROVE  IndInv' /\ UNCHANGED Store!storeVars
  BY <1>5, QuietStep DEF Store!storeVars
<1> QED
  BY <1>1, <1>2, <1>3, <1>4, <1>5 DEF Next, Operation

\* Under the intended use the invariant holds: the cache of BlockManager is
\* coherent and bounded, and its counter is ahead of every stored id.
THEOREM InvariantHolds == Spec => []IndInv
<1>1. IndInv /\ [Next]_vars => IndInv'
  BY NextStep
<1> QED
  BY InitInv, <1>1, PTL DEF Spec

\* getBlock, addBlock, updateBlock and removeBlock keep the LRU list and the
\* cache in step, so every stored list iterator is good.
THEOREM LruCorrect == Spec => []LruMatchesCache
<1>1. IndInv => LruMatchesCache
  BY DEF IndInv
<1> QED
  BY InvariantHolds, <1>1, PTL

\* getBlock may evict without writing back: a cached block is the stored one.
THEOREM CacheIsCoherent == Spec => []CacheCoherent
<1>1. IndInv => CacheCoherent
  BY DEF IndInv
<1> QED
  BY InvariantHolds, <1>1, PTL

\* getBlock never keeps more than blockBufferSize_ blocks in memory.
THEOREM BufferIsBounded == Spec => []BufferBounded
<1>1. IndInv => BufferBounded
  BY DEF IndInv
<1> QED
  BY InvariantHolds, <1>1, PTL

\* When processes end after a flush only, addBlock always finds its id free.
THEOREM NextIdsAreFree == Spec => []NextIdsFree
<1>1. IndInv => NextIdsFree
  BY DEF IndInv
<1> QED
  BY InvariantHolds, <1>1, PTL

\* BlockManager implements the map: a read answers the block last written,
\* whatever was cached, evicted or reloaded in between, and addBlock never
\* reuses an id, across restarts that follow a flush as well.
THEOREM ManagerImplementsStore == Spec => ImplementsRecordStore
<1>1. Init => Store!StoreInit
  BY DEF Init, Empty, Store!StoreInit
<1>2. IndInv /\ [Next]_vars => [Store!StoreNext]_(Store!storeVars)
  BY NextStep
<1> QED
  BY InvariantHolds, <1>1, <1>2, PTL
     DEF Spec, ImplementsRecordStore, Store!StoreSpec

\* "this is an append only db" (BlockManager.cpp:72): when processes end after
\* a flush only, addBlock replaces no block.
THEOREM BlocksAreAppended == Spec => AppendOnly
<1>1. ASSUME IndInv, [Next]_vars, nextBlockId' = nextBlockId + 1,
             NEW id \in BlockIds, db[id] # NoBlock
      PROVE  db'[id] = db[id]
  <2>1. nextBlockId \in Nat /\ nextBlockId' # nextBlockId
    BY <1>1 DEF IndInv, TypeOK
  <2>2. PICK c \in Contents : AddBlock(c)
    BY <1>1, <2>1
    DEF Next, Operation, GetBlock, RemoveBlock, UpdateBlock, Clear, StoreMeta,
        Reopen, vars
  <2>3. id # nextBlockId
    BY <1>1, <2>1 DEF IndInv, NextIdsFree
  <2> QED
    BY <1>1, <2>2, <2>3 DEF AddBlock, IndInv, TypeOK
<1>2. IndInv /\ [Next]_vars =>
        [nextBlockId' = nextBlockId + 1 =>
           \A id \in BlockIds : db[id] # NoBlock => db'[id] = db[id]]_vars
  BY <1>1
<1> QED
  BY InvariantHolds, <1>2, PTL DEF Spec, AppendOnly

-----------------------------------------------------------------------------
(* Processes that end at any time. *)

\* The counter in memory never falls behind the one in the file.
CrashInv ==
    /\ db \in [BlockIds -> Contents \cup {NoBlock}]
    /\ nextBlockId \in Nat
    /\ storedNextId \in Nat
    /\ storedNextId <= nextBlockId

\* addBlock leaves alone every block whose id was handed out before the last
\* MetaDataManager::store.
FlushedKept ==
    [][nextBlockId' = nextBlockId + 1 =>
          \A id \in BlockIds : id < storedNextId => db'[id] = db[id]]_vars

\* Every step keeps the counters in order, a process that ends without a flush
\* included.
LEMMA CrashStep ==
    ASSUME CrashInv, [Operation \/ Reopen]_vars
    PROVE  CrashInv'
<1>1. ASSUME NEW id \in BlockIds,
             \/ GetBlock(id) \/ RemoveBlock(id)
             \/ \E c \in Contents : UpdateBlock(id, c)
      PROVE  CrashInv'
  BY <1>1 DEF GetBlock, RemoveBlock, UpdateBlock, NotFound, CrashInv
<1>2. ASSUME NEW c \in Contents, AddBlock(c)
      PROVE  CrashInv'
  BY <1>2 DEF AddBlock, CrashInv
<1>3. CASE Clear \/ StoreMeta \/ Reopen \/ UNCHANGED vars
  BY <1>3 DEF Clear, StoreMeta, Reopen, vars, CrashInv
<1> QED
  BY <1>1, <1>2, <1>3 DEF Operation

\* A process that ends without a flush endangers the blocks written since the
\* last one and no others: what addBlock can overwrite then, AppendOnly's
\* counterexamples, has an id the stored counter has not reached.
THEOREM FlushedBlocksKept == CrashSpec => FlushedKept
<1>1. Init => CrashInv
  BY DEF Init, Empty, CrashInv
<1>2. CrashInv /\ [Operation \/ Reopen]_vars => CrashInv'
  BY CrashStep
<1>3. ASSUME CrashInv, [Operation \/ Reopen]_vars,
             nextBlockId' = nextBlockId + 1,
             NEW id \in BlockIds, id < storedNextId
      PROVE  db'[id] = db[id]
  <2>1. nextBlockId \in Nat /\ storedNextId <= nextBlockId
        /\ storedNextId \in Nat /\ nextBlockId' > nextBlockId
    BY <1>3 DEF CrashInv
  <2>2. PICK c \in Contents : AddBlock(c)
    BY <1>3, <2>1
    DEF Operation, GetBlock, RemoveBlock, UpdateBlock, Clear, StoreMeta,
        Reopen, vars
  <2>3. id # nextBlockId
    BY <1>3, <2>1 DEF BlockIds
  <2> QED
    BY <1>3, <2>2, <2>3 DEF AddBlock, CrashInv
<1>4. CrashInv /\ [Operation \/ Reopen]_vars =>
        [nextBlockId' = nextBlockId + 1 =>
           \A id \in BlockIds : id < storedNextId => db'[id] = db[id]]_vars
  BY <1>3
<1> QED
  BY <1>1, <1>2, <1>4, PTL DEF CrashSpec, FlushedKept
=============================================================================
