------------------------ MODULE PartitionIndexProofs ------------------------
(***************************************************************************)
(* Proofs about PartitionIndex, as Repartition uses it, for any            *)
(* attributes, times, partitionings and numbers of blocks: the slices of   *)
(* the index tile time, sub-blocks are owned, and the cache matches the    *)
(* database.                                                               *)
(***************************************************************************)
EXTENDS Repartition, ListLemmas

\* The times that are in some slice.
Instants == 0 .. Infinity - 1

-----------------------------------------------------------------------------
(* The invariant *)

\* Every instant is in exactly one slice, which is under its end time.
Tiles(f) ==
    /\ \A k \in DOMAIN f : f[k] \in Slice /\ f[k].end = k /\ f[k].start < k
    /\ \A t \in Instants : \E k \in DOMAIN f : Contains(f[k], t)
    /\ \A k, l \in DOMAIN f : \A t \in Instants :
          Contains(f[k], t) /\ Contains(f[l], t) => k = l

\* The nodes of the LRU list.
Nodes == [time : 0..Infinity, owner : Int]

\* The slices tile time; the cache, the list and the last answer have their
\* types.
IndexInv ==
    /\ Tiles(slices)
    /\ \A k \in DOMAIN cache : k \in 1..Infinity /\ cache[k] \in Slice
    /\ lruList \in Seq(Nodes)
    /\ removed \subseteq Slice
    /\ answer \in Slice \cup {NotFound, Corrupt}

-----------------------------------------------------------------------------
(* Numbers and times *)

\* Min is the least of some numbers.
LEMMA LeastIs ==
    ASSUME NEW T, T \subseteq Nat, T # {}
    PROVE  Min(T) \in T /\ \A y \in T : Min(T) <= y
<1>1. \E x \in T : \A y \in T : x <= y
  BY LeastNatural
<1> QED
  BY <1>1, Zenon DEF Min

\* Max is the greatest of some bounded numbers.
LEMMA GreatestIs ==
    ASSUME NEW n \in Nat, NEW T, T \subseteq 0..n, T # {}
    PROVE  Max(T) \in T /\ \A y \in T : Max(T) >= y
<1> DEFINE U == {n - y : y \in T}
<1>0. \A y \in T : n - y \in Nat
  OBVIOUS
<1>1. U \subseteq Nat /\ U # {}
  BY <1>0, Zenon
<1>2. PICK x \in U : \A y \in U : x <= y
  BY <1>1, LeastNatural
<1>3. PICK z \in T : x = n - z
  BY <1>2
<1>4. \A y \in T : z >= y
  <2> TAKE y \in T
  <2>1. n - y \in U
    OBVIOUS
  <2>2. n - z <= n - y
    BY <2>1, <1>2, <1>3
  <2> QED
    BY <2>2
<1> QED
  BY <1>4 DEF Max

\* The lists of a block have edges, and so has the block.
LEMMA ListsAre ==
    ASSUME NEW lists \in BlockLists
    PROVE  /\ \A i \in DOMAIN lists :
                 lists[i] # {} /\ lists[i] \subseteq 1 .. Infinity - 1
           /\ AllTimes(lists) # {} /\ AllTimes(lists) \subseteq 1 .. Infinity - 1
<1> DEFINE S == (SUBSET (1 .. Infinity - 1)) \ {{}}
<1>1. lists \in Seq(S) /\ lists # <<>>
  BY RepartitionAssumption
<1>2. \A i \in DOMAIN lists :
         lists[i] # {} /\ lists[i] \subseteq 1 .. Infinity - 1
  <2>1. \A i \in DOMAIN lists : lists[i] \in S
    <3> HIDE DEF S
    <3> QED
      BY <1>1
  <2>2. ASSUME NEW ts, ts \in S
        PROVE  ts # {} /\ ts \subseteq 1 .. Infinity - 1
    BY <2>2, Zenon
  <2> HIDE DEF S
  <2> QED
    BY <2>1, <2>2
<1>3. 1 \in DOMAIN lists
  <2> HIDE DEF S
  <2> QED
    BY <1>1
<1> QED
  BY <1>2, <1>3 DEF AllTimes, Range

\* getPartitioningTimestamp lies between the first and the last edge.
LEMMA MiddleIs ==
    ASSUME NEW times \in BlockTimes
    PROVE  LET t == PartitioningTimestamp(times)
           IN  /\ times \subseteq 1 .. Infinity - 1
               /\ Min(times) \in times /\ Max(times) \in times
               /\ Min(times) <= t /\ t <= Max(times)
               /\ t \in 1 .. Infinity - 1
               /\ t \in Instants
               /\ \A x \in times : Min(times) <= x /\ x <= Max(times)
<1>1. times # {} /\ times \subseteq 1 .. Infinity - 1 /\ Infinity \in Nat \ {0}
  BY ListsAre, PartitionIndexAssumption DEF BlockTimes
<1>a. times \subseteq Nat /\ times \subseteq 0..Infinity /\ Infinity \in Nat
  BY <1>1
<1>2. Min(times) \in times /\ \A y \in times : Min(times) <= y
  BY <1>1, <1>a, LeastIs, Zenon
<1>3. Max(times) \in times /\ \A y \in times : Max(times) >= y
  BY <1>1, <1>a, GreatestIs, Zenon
<1> DEFINE lo == Min(times)
           hi == Max(times)
<1>4. lo \in 1 .. Infinity - 1 /\ hi \in 1 .. Infinity - 1 /\ lo <= hi
  BY <1>1, <1>2, <1>3
<1>5. PartitioningTimestamp(times) = (lo + hi) \div 2
  BY DEF PartitioningTimestamp
<1> HIDE DEF lo, hi
<1>6. lo <= (lo + hi) \div 2 /\ (lo + hi) \div 2 <= hi /\ (lo + hi) \div 2 \in Int
  BY <1>4
<1>7. \A x \in times : lo <= x /\ x <= hi
  BY <1>1, <1>2, <1>3, <1>4 DEF lo, hi
<1> QED
  BY <1>1, <1>2, <1>3, <1>4, <1>5, <1>6, <1>7 DEF lo, hi, Instants

-----------------------------------------------------------------------------
(* Lookups *)

\* Seek finds the slice of a time, unless another slice ends at it.
LEMMA SeekFinds ==
    ASSUME NEW f, Tiles(f), NEW t \in Instants,
           NEW k \in DOMAIN f, Contains(f[k], t)
    PROVE  /\ KeysFrom(f, t + 1) # {}
           /\ Min(KeysFrom(f, t + 1)) = k
           /\ KeysFrom(f, t) # {}
           /\ t \notin DOMAIN f => Min(KeysFrom(f, t)) = k
<1> DEFINE K(x) == KeysFrom(f, x)
<1>0. Infinity \in Nat \ {0} /\ t \in Nat
  BY PartitionIndexAssumption DEF Instants
<1>1. \A l \in DOMAIN f : /\ l \in 1..Infinity /\ f[l].start \in Nat
                          /\ f[l].end = l /\ f[l].start < l
  BY <1>0 DEF Tiles, Slice
<1>2. f[k].start <= t /\ t < k /\ k \in Nat
  BY <1>0, <1>1 DEF Contains
<1>3. k \in K(t + 1) /\ k \in K(t)
  BY <1>0, <1>2 DEF KeysFrom
<1>4. K(t) \subseteq Nat /\ K(t + 1) \subseteq Nat
  BY <1>1 DEF KeysFrom
<1>5. ASSUME NEW l \in DOMAIN f, l > t, l <= k
      PROVE  l = k
  <2>1. l - 1 \in Instants /\ l \in 1..Infinity /\ f[l].start \in Nat
        /\ f[l].start < l
    BY <1>0, <1>1, <1>5 DEF Instants
  <2>2. Contains(f[l], l - 1)
    BY <1>1, <2>1 DEF Contains
  <2>3. Contains(f[k], l - 1)
    BY <1>0, <1>1, <1>2, <1>5, <2>1 DEF Contains
  <2> QED
    BY <2>1, <2>2, <2>3 DEF Tiles
<1>6. Min(K(t + 1)) \in K(t + 1) /\ Min(K(t + 1)) <= k
  BY <1>3, <1>4, LeastIs
<1>7. Min(K(t)) \in K(t) /\ Min(K(t)) <= k
  BY <1>3, <1>4, LeastIs
<1> HIDE DEF K
<1>8. \A m \in K(t + 1) : m \in DOMAIN f /\ m > t
  BY <1>0, <1>1 DEF KeysFrom, K
<1>9. \A m \in K(t) : m \in DOMAIN f /\ m >= t /\ m \in Nat
  BY <1>0, <1>1 DEF KeysFrom, K
<1>10. Min(K(t + 1)) = k
  BY <1>5, <1>6, <1>8
<1>11. ASSUME t \notin DOMAIN f PROVE Min(K(t)) = k
  <2>1. Min(K(t)) \in DOMAIN f /\ Min(K(t)) > t
    BY <1>0, <1>7, <1>9, <1>11
  <2> QED
    BY <1>5, <1>7, <2>1
<1> QED
  BY <1>3, <1>10, <1>11 DEF K

\* What the database iterator stops at is in the database.
LEMMA SoughtIsStored ==
    ASSUME Tiles(slices), NEW t \in Instants,
           KeysFrom(slices, t) # {}, Sought(t) # {}
    PROVE  /\ Min(KeysFrom(slices, t)) \in DOMAIN slices
           /\ Min(Sought(t)) \in DOMAIN slices
<1> DEFINE K(x) == KeysFrom(slices, x)
           first == Min(K(t))
<1>1. \A l \in DOMAIN slices : l \in Nat
  BY PartitionIndexAssumption DEF Tiles, Slice
<1>2. K(t) \subseteq Nat /\ K(t + 1) \subseteq Nat
      /\ K(t) \subseteq DOMAIN slices /\ K(t + 1) \subseteq DOMAIN slices
  BY <1>1 DEF KeysFrom
<1>3. first \in K(t)
  BY <1>2, LeastIs, Zenon
<1>4. first \in DOMAIN slices /\ first \in Nat
  BY <1>1, <1>2, <1>3
<1>5. Sought(t) = IF first = t THEN K(t + 1) ELSE {first}
  BY DEF Sought
<1> HIDE DEF K, first
<1>6. Sought(t) \subseteq Nat /\ Sought(t) \subseteq DOMAIN slices
  BY <1>2, <1>4, <1>5
<1>7. Min(Sought(t)) \in Sought(t)
  BY <1>6, LeastIs, Zenon
<1> QED
  BY <1>4, <1>6, <1>7 DEF K, first

\* Erasing nodes leaves a list of nodes.
LEMMA ErasedNodes ==
    ASSUME NEW list \in Seq(Nodes), NEW keys
    PROVE  EraseNodes(list, keys) \in Seq(Nodes)
<1> DEFINE S == {i \in 1..Len(list) : list[i].owner \notin keys}
           kept == Sorted(S)
<1>1. Len(list) \in Nat /\ S \in SUBSET (1..Len(list))
      /\ \A i \in 1..Len(list) : list[i] \in Nodes
  OBVIOUS
<1>2. kept \in Seq(S)
  <2> HIDE DEF S
  <2> QED
    BY <1>1, SortedLists
<1>3. EraseNodes(list, keys) = [i \in DOMAIN kept |-> list[kept[i]]]
  BY DEF EraseNodes
<1> HIDE DEF kept, S
<1>4. Len(kept) \in Nat /\ DOMAIN kept = 1..Len(kept)
      /\ \A i \in 1..Len(kept) : kept[i] \in S
  BY <1>2
<1>5. \A i \in 1..Len(kept) : list[kept[i]] \in Nodes
  BY <1>1, <1>4, Zenon
<1>6. [i \in 1..Len(kept) |-> list[kept[i]]] \in Seq(Nodes)
  BY <1>4, <1>5
<1> QED
  BY <1>3, <1>4, <1>6, Zenon

\* Disowning a node leaves a list of nodes.
LEMMA DisownedNodes ==
    ASSUME NEW list \in Seq(Nodes), NEW key
    PROVE  Disown(list, key) \in Seq(Nodes) /\ Len(Disown(list, key)) = Len(list)
<1>1. Len(list) \in Nat /\ DOMAIN list = 1..Len(list)
  OBVIOUS
<1>2. \A i \in 1..Len(list) : list[i] \in Nodes
                              /\ Node(list[i].time, NoOwner) \in Nodes
  <2> TAKE i \in 1..Len(list)
  <2>1. list[i] \in Nodes
    OBVIOUS
  <2>2. list[i].time \in 0..Infinity /\ -1 \in Int
    BY <2>1 DEF Nodes
  <2> QED
    BY <2>1, <2>2 DEF Nodes, Node, NoOwner
<1> DEFINE d == [i \in 1..Len(list) |-> IF list[i].owner = key
                           THEN Node(list[i].time, NoOwner) ELSE list[i]]
<1>3. \A i \in 1..Len(list) : d[i] \in Nodes
  BY <1>2
<1>4. Disown(list, key) = d
  BY <1>1, Zenon DEF Disown
<1>5. d \in Seq(Nodes) /\ Len(d) = Len(list)
  <2>1. d \in [1..Len(list) -> Nodes]
    BY <1>3
  <2> HIDE DEF d
  <2> QED
    BY <2>1, <1>1
<1> QED
  BY <1>4, <1>5

\* A hit leaves the index well-formed.
LEMMA HitStep ==
    ASSUME IndexInv, NEW t \in Instants, NEW key \in HitKeys(t), Hit(key, t),
           UNCHANGED <<slices, removed>>
    PROVE  IndexInv'
<1>1. key \in DOMAIN cache /\ key \in 1..Infinity /\ cache[key] \in Slice
  BY DEF HitKeys, KeysFrom, IndexInv
<1>2. t \in 0..Infinity /\ key \in Int
  BY <1>1, PartitionIndexAssumption DEF Instants
<1>3. cache' = cache
  BY DEF Hit
<1>4. answer' \in Slice \cup {NotFound, Corrupt}
  BY <1>1 DEF Hit
<1>5. lruList' \in Seq(Nodes)
  <2>1. lruList \in Seq(Nodes)
    BY DEF IndexInv
  <2>2. EraseNodes(lruList, {key}) \in Seq(Nodes)
    BY <2>1, ErasedNodes
  <2>3. Node(t, key) \in Nodes
    BY <1>2 DEF Nodes, Node
  <2>4. <<Node(t, key)>> \o EraseNodes(lruList, {key}) \in Seq(Nodes)
    BY <2>2, <2>3
  <2> QED
    BY <2>1, <2>4 DEF Hit
<1> QED
  BY <1>3, <1>4, <1>5 DEF IndexInv

\* A miss that reads the database leaves the index well-formed.
LEMMA LoadStep ==
    ASSUME IndexInv, NEW t \in Instants, KeysFrom(slices, t) # {},
           Sought(t) # {}, Load(t), UNCHANGED <<slices, removed>>
    PROVE  IndexInv'
<1> DEFINE key    == Min(KeysFrom(slices, t))
           stored  == slices[Min(Sought(t))]
           old    == IF key \in DOMAIN cache THEN cache[key].parts ELSE <<>>
           entry  == [stored EXCEPT !.parts = old \o stored.parts]
           loaded == Put(cache, [k \in {key} |-> entry])
           list   == <<Node(key, key)>> \o Disown(lruList, key)
           last   == list[Len(list)].time
           full   == Overflows(list)
           front  == SubSeq(list, 1, Len(list) - 1)
<1>1. key \in DOMAIN slices /\ Min(Sought(t)) \in DOMAIN slices
  BY SoughtIsStored DEF IndexInv
<1>2. key \in 1..Infinity /\ stored \in Slice
  BY <1>1, PartitionIndexAssumption DEF IndexInv, Tiles, Slice
<1>3. old \in Seq(SUBSET Attributes)
  <2>1. CASE key \in DOMAIN cache
    <3>1. cache[key] \in Slice
      BY <2>1 DEF IndexInv
    <3> QED
      BY <2>1, <3>1 DEF Slice
  <2>2. CASE key \notin DOMAIN cache
    BY <2>2
  <2> QED
    BY <2>1, <2>2
<1>4. /\ cache' = IF full THEN Without(loaded, {last}) ELSE loaded
      /\ lruList' = IF full THEN Disown(front, last) ELSE list
      /\ answer' = IF key \in DOMAIN cache' THEN entry ELSE Corrupt
  BY DEF Load
<1> HIDE DEF key, stored, old
<1>5. entry \in Slice
  <2>1. stored.parts \in Seq(SUBSET Attributes)
    BY <1>2 DEF Slice
  <2>2. old \o stored.parts \in Seq(SUBSET Attributes)
    BY <1>3, <2>1
  <2> DEFINE p == old \o stored.parts
  <2> HIDE DEF p
  <2>3. [stored EXCEPT !.parts = p] \in Slice
    BY <1>2, <2>2 DEF Slice, p
  <2> QED
    BY <2>3 DEF p
<1> HIDE DEF entry
<1>6. \A k \in DOMAIN loaded : k \in 1..Infinity /\ loaded[k] \in Slice
  BY <1>2, <1>5 DEF IndexInv, Put
<1> HIDE DEF loaded
<1>7. \A k \in DOMAIN cache' : k \in 1..Infinity /\ cache'[k] \in Slice
  BY <1>4, <1>6 DEF Without, Restrict
<1>8. list \in Seq(Nodes) /\ Len(list) > 0
  <2>1. lruList \in Seq(Nodes)
    BY DEF IndexInv
  <2>2. Disown(lruList, key) \in Seq(Nodes)
    BY <2>1, DisownedNodes, Zenon
  <2>3. Node(key, key) \in Nodes
    BY <1>2, PartitionIndexAssumption DEF Nodes, Node
  <2> QED
    BY <2>2, <2>3
<1> HIDE DEF list
<1>9. front \in Seq(Nodes)
  BY <1>8
<1> HIDE DEF front
<1>10. Disown(front, last) \in Seq(Nodes)
  BY <1>9, DisownedNodes, Zenon
<1>11. lruList' \in Seq(Nodes)
  BY <1>4, <1>8, <1>10
<1>12. answer' \in Slice \cup {NotFound, Corrupt}
  BY <1>4, <1>5
<1> QED
  BY <1>7, <1>11, <1>12 DEF IndexInv

\* getTimeSlicedPartitioning leaves the index well-formed.
LEMMA LookupStep ==
    ASSUME IndexInv, NEW t \in Instants, Lookup(t)
    PROVE  IndexInv' /\ UNCHANGED <<slices, removed>>
<1>1. UNCHANGED <<slices, removed>>
  BY DEF Lookup
<1>2. CASE \E key \in HitKeys(t) : Hit(key, t)
  BY <1>1, <1>2, HitStep
<1>3. CASE /\ KeysFrom(slices, t) # {}
           /\ Sought(t) # {}
           /\ Load(t)
  BY <1>1, <1>3, LoadStep
<1>4. CASE answer' = NotFound /\ UNCHANGED <<cache, lruList>>
  BY <1>1, <1>4 DEF IndexInv
<1> QED
  BY <1>1, <1>2, <1>3, <1>4 DEF Lookup

\* So does the lookup for the deserialization of a block.
LEMMA DeserializationStep ==
    ASSUME IndexInv, NEW t \in Instants, LookupForDeserialization(t)
    PROVE  IndexInv' /\ UNCHANGED <<slices, removed>>
<1>1. CASE \E s \in removed : Contains(s, t)
  BY <1>1 DEF LookupForDeserialization, IndexInv
<1>2. CASE ~\E s \in removed : Contains(s, t)
  BY <1>2, LookupStep DEF LookupForDeserialization
<1> QED
  BY <1>1, <1>2

\* The slice that a lookup misses is not in the cache.
LEMMA MissedKey ==
    ASSUME Tiles(slices), CacheMatchesDb, NEW t \in Instants,
           t \notin DOMAIN slices, HitKeys(t) = {}
    PROVE  /\ Min(KeysFrom(slices, t)) \in DOMAIN slices
           /\ Min(KeysFrom(slices, t)) \notin DOMAIN cache
<1>1. PICK k \in DOMAIN slices : Contains(slices[k], t)
  BY DEF Tiles
<1>2. KeysFrom(slices, t) # {} /\ Min(KeysFrom(slices, t)) = k
  BY <1>1, SeekFinds, Zenon
<1>3. \A l \in DOMAIN slices : l \in Nat
  BY PartitionIndexAssumption DEF Tiles, Slice
<1>4. t \in Nat /\ k \in Nat /\ k # t
  BY <1>3, PartitionIndexAssumption DEF Instants
<1>5. ASSUME k \in DOMAIN cache PROVE FALSE
  <2>1. KeysFrom(cache, t) \subseteq KeysFrom(slices, t)
        /\ KeysFrom(slices, t) \subseteq Nat
    BY <1>3 DEF KeysFrom, CacheMatchesDb
  <2>2. t < k /\ slices[k].end = k
    BY <1>1, <1>4 DEF Contains, Tiles
  <2>3. k \in KeysFrom(cache, t)
    BY <1>4, <1>5, <2>2 DEF KeysFrom
  <2>4. Min(KeysFrom(cache, t)) \in KeysFrom(cache, t)
        /\ Min(KeysFrom(cache, t)) <= k
    BY <2>1, <2>3, LeastIs
  <2>5. \A y \in KeysFrom(slices, t) : k <= y
    BY <1>2, <2>1, LeastIs
  <2>6. Min(KeysFrom(cache, t)) = k
    BY <1>4, <2>1, <2>4, <2>5
  <2>7. cache[k] = slices[k]
    BY <1>5 DEF CacheMatchesDb
  <2>8. k \in HitKeys(t)
    BY <1>1, <2>3, <2>6, <2>7 DEF HitKeys
  <2> QED
    BY <2>8
<1> QED
  BY <1>2, <1>5

\* A lookup uses a list iterator that dangles, or evicts what it loads.
Undefined(t) ==
    \/ \E key \in HitKeys(t) : Position(lruList, key) = {}
    \/ HitKeys(t) = {} /\ Min(KeysFrom(slices, t)) \notin DOMAIN cache'

\* A lookup in a cache that matches the database, for a time at which no
\* slice ends, finds the slice of the time and leaves the cache matching.
LEMMA LookupIsExact ==
    ASSUME IndexInv, CacheMatchesDb, NEW t \in Instants,
           t \notin DOMAIN slices, Lookup(t)
    PROVE  /\ CacheMatchesDb'
           /\ \/ \E k \in DOMAIN slices :
                    Contains(slices[k], t) /\ answer' = slices[k]
              \/ answer' = Corrupt /\ Undefined(t)
<1>0. UNCHANGED slices /\ Tiles(slices)
  BY DEF Lookup, IndexInv
<1>1. PICK k \in DOMAIN slices : Contains(slices[k], t)
  BY <1>0 DEF Tiles
<1>2. KeysFrom(slices, t) # {} /\ Min(KeysFrom(slices, t)) = k
  BY <1>0, <1>1, SeekFinds, Zenon
<1>3. \A l \in DOMAIN slices : l \in Nat
  BY <1>0, PartitionIndexAssumption DEF Tiles, Slice
<1>4. t \in Nat /\ k \in Nat /\ k # t
  BY <1>3, PartitionIndexAssumption DEF Instants
<1>5. Sought(t) = {k}
  BY <1>2, <1>4, Zenon DEF Sought
<1>6. Min(Sought(t)) = k
  BY <1>4, <1>5 DEF Min
<1>7. CASE \E key \in HitKeys(t) : Hit(key, t)
  <2>1. PICK key \in HitKeys(t) : Hit(key, t)
    BY <1>7
  <2>2. key \in DOMAIN cache /\ Contains(cache[key], t)
    BY DEF HitKeys, KeysFrom
  <2>3. key \in DOMAIN slices /\ cache[key] = slices[key]
    BY <2>2 DEF CacheMatchesDb
  <2>4. CacheMatchesDb'
    BY <1>0, <2>1 DEF Hit, CacheMatchesDb
  <2>5. \/ answer' = cache[key]
        \/ answer' = Corrupt /\ Position(lruList, key) = {}
    BY <2>1 DEF Hit
  <2> QED
    BY <2>2, <2>3, <2>4, <2>5 DEF Undefined
<1>8. CASE HitKeys(t) = {} /\ Load(t)
  <2>1. k \notin DOMAIN cache
    BY <1>0, <1>2, <1>8, MissedKey
  <2> DEFINE entry == [slices[k] EXCEPT !.parts = <<>> \o slices[k].parts]
             loaded == Put(cache, [x \in {k} |-> entry])
             list == <<Node(k, k)>> \o Disown(lruList, k)
  <2>2. /\ \/ cache' = Without(loaded, {list[Len(list)].time})
           \/ cache' = loaded
        /\ answer' = IF k \in DOMAIN cache' THEN entry ELSE Corrupt
    BY <1>2, <1>6, <1>8, <2>1, Zenon DEF Load
  <2>3. entry = slices[k]
    <3>1. slices[k] \in Slice
      BY <1>0 DEF Tiles
    <3>2. <<>> \o slices[k].parts = slices[k].parts
      BY <3>1 DEF Slice
    <3> QED
      BY <3>1, <3>2 DEF Slice
  <2> HIDE DEF entry, list
  <2>4. \A x \in DOMAIN loaded : x \in DOMAIN slices /\ loaded[x] = slices[x]
    BY <2>3 DEF Put, CacheMatchesDb
  <2> HIDE DEF loaded
  <2>5. \A x \in DOMAIN cache' : x \in DOMAIN slices /\ cache'[x] = slices[x]
    BY <2>2, <2>4 DEF Without, Restrict
  <2>6. CacheMatchesDb'
    BY <1>0, <2>5 DEF CacheMatchesDb
  <2> QED
    BY <1>1, <1>2, <1>8, <2>2, <2>3, <2>6 DEF Undefined
<1> QED
  BY <1>2, <1>5, <1>7, <1>8 DEF Lookup

\* The lookup for deserialization leaves the cache matching as well.
LEMMA DeserializationMatches ==
    ASSUME IndexInv, CacheMatchesDb, NEW t \in Instants,
           t \notin DOMAIN slices, LookupForDeserialization(t)
    PROVE  CacheMatchesDb'
<1>1. CASE \E s \in removed : Contains(s, t)
  BY <1>1 DEF LookupForDeserialization, CacheMatchesDb
<1>2. CASE ~\E s \in removed : Contains(s, t)
  BY <1>2, LookupIsExact DEF LookupForDeserialization
<1> QED
  BY <1>1, <1>2

-----------------------------------------------------------------------------
(* Replacing slices *)

\* The slices of a set tile the times from lo to hi.
Spans(set, lo, hi) ==
    /\ \A s \in set : /\ s \in Slice /\ s.start < s.end
                      /\ lo <= s.start /\ s.end <= hi
    /\ \A t \in Instants :
          lo <= t /\ t < hi => \E s \in set : Contains(s, t)
    /\ \A s, r \in set : \A t \in Instants :
          Contains(s, t) /\ Contains(r, t) => s = r

\* One slice, and two slices that touch.
LEMMA OneSpans ==
    ASSUME NEW s \in Slice, s.start < s.end
    PROVE  Spans({s}, s.start, s.end)
<1>1. s.start \in Nat /\ s.end \in Nat
  BY PartitionIndexAssumption DEF Slice
<1> QED
  BY <1>1 DEF Spans, Contains

\* Two slices of which the second starts where the first ends tile the
\* times from the first's start to the second's end.
LEMMA TwoSpan ==
    ASSUME NEW s \in Slice, s.start < s.end, NEW r \in Slice,
           r.start < r.end, r.start = s.end
    PROVE  Spans({s, r}, s.start, r.end)
<1>1. s.start \in Nat /\ s.end \in Nat /\ r.start \in Nat /\ r.end \in Nat
  BY PartitionIndexAssumption DEF Slice
<1>2. \A t \in Instants : ~(Contains(s, t) /\ Contains(r, t))
  BY <1>1 DEF Contains, Instants
<1>3. \A t \in Instants : s.start <= t /\ t < r.end
                            => Contains(s, t) \/ Contains(r, t)
  BY <1>1 DEF Contains, Instants
<1>4. /\ s.start <= s.start /\ s.end <= r.end
      /\ s.start <= r.start /\ r.end <= r.end
  BY <1>1
<1> QED
  BY <1>2, <1>3, <1>4 DEF Spans

\* The slices f, with the old ones replaced by the new ones.
Replaced(f, old, new) == Put(Without(f, Ends(old)), ByEnd(new))

\* g tiles time with the new slices and those of f that are not old.
TiledAnew(f, g, old, new) ==
    /\ Tiles(g)
    /\ \A s \in new : s.end \in DOMAIN g /\ g[s.end] = s
    /\ \A k \in DOMAIN f : f[k] \notin old => k \in DOMAIN g /\ g[k] = f[k]
    /\ \A k \in DOMAIN g : \/ k \in DOMAIN f /\ f[k] \notin old
                           \/ \E s \in new : s.end = k

\* addPartitioning after initiatePartitioningRemoval: if the new slices tile
\* the times of the old ones, the database tiles all times as before.
LEMMA TilesReplaced ==
    ASSUME NEW f, Tiles(f), NEW old, NEW new,
           old \subseteq {f[k] : k \in DOMAIN f},
           NEW lo \in Nat, NEW hi \in 0..Infinity,
           Spans(old, lo, hi), Spans(new, lo, hi)
    PROVE  TiledAnew(f, Replaced(f, old, new), old, new)
<1> DEFINE g == Replaced(f, old, new)
           rest == {k \in DOMAIN f : f[k] \notin old}
<1>0. Infinity \in Nat \ {0} /\ hi \in Nat
  BY PartitionIndexAssumption
<1>1. \A k \in DOMAIN f : /\ k \in 1..Infinity /\ f[k] \in Slice
                          /\ f[k].start \in Nat
                          /\ f[k].end = k /\ f[k].start < k
  BY <1>0 DEF Tiles, Slice
<1>2. \A s \in old \cup new : /\ s \in Slice /\ s.start \in Nat
                              /\ s.end \in 1..Infinity
                              /\ s.start < s.end /\ lo <= s.start /\ s.end <= hi
  BY <1>0 DEF Spans, Slice
<1>3. \A s \in old : s.end \in DOMAIN f /\ f[s.end] = s
  BY <1>1
<1>4. DOMAIN f \ Ends(old) = rest
  <2>1. \A k \in DOMAIN f : k \in Ends(old) <=> f[k] \in old
    BY <1>1, <1>3 DEF Ends
  <2> QED
    BY <2>1
<1>5. ASSUME NEW s \in new, NEW r \in new, s.end = r.end PROVE s = r
  <2>1. s.end - 1 \in Instants /\ Contains(s, s.end - 1)
        /\ Contains(r, s.end - 1)
    BY <1>0, <1>2, <1>5 DEF Instants, Contains
  <2> QED
    BY <2>1 DEF Spans
<1>6. ASSUME NEW k \in rest, NEW t \in Instants, Contains(f[k], t)
      PROVE  t < lo \/ hi <= t
  <2>1. SUFFICES ASSUME lo <= t, t < hi PROVE FALSE
    BY <1>0 DEF Instants
  <2>2. PICK s \in old : Contains(s, t)
    BY <2>1 DEF Spans
  <2>3. s.end = k
    BY <1>3, <1>6, <2>2 DEF Tiles
  <2> QED
    BY <1>3, <1>6, <2>3
<1>7. \A k \in rest : k <= lo \/ hi < k
  <2> TAKE k \in rest
  <2>1. k - 1 \in Instants /\ Contains(f[k], k - 1) /\ k \in Nat
    BY <1>0, <1>1 DEF Instants, Contains
  <2>2. k - 1 < lo \/ hi <= k - 1
    BY <1>6, <2>1
  <2> QED
    BY <1>0, <2>1, <2>2
<1>8. \A s \in new : s.end \notin rest
  BY <1>0, <1>2, <1>7
<1>9. DOMAIN g = rest \cup Ends(new)
  BY <1>4 DEF Replaced, Put, Without, Restrict, ByEnd
<1>10. \A s \in new : s.end \in DOMAIN g /\ g[s.end] = s
  <2> TAKE s \in new
  <2>1. s.end \in Ends(new)
    BY DEF Ends
  <2>2. ByEnd(new)[s.end] = CHOOSE r \in new : r.end = s.end
    BY <2>1 DEF ByEnd
  <2>3. (CHOOSE r \in new : r.end = s.end) = s
    BY <1>5
  <2>4. DOMAIN ByEnd(new) = Ends(new)
    BY DEF ByEnd
  <2>5. g[s.end] = ByEnd(new)[s.end]
    BY <1>9, <2>1, <2>4 DEF Replaced, Put
  <2> QED
    BY <1>9, <2>1, <2>2, <2>3, <2>5
<1>11. \A k \in rest : k \in DOMAIN g /\ g[k] = f[k]
  <2> TAKE k \in rest
  <2>1. k \notin Ends(new)
    BY <1>8 DEF Ends
  <2>2. DOMAIN ByEnd(new) = Ends(new)
    BY DEF ByEnd
  <2>3. k \in DOMAIN Without(f, Ends(old)) /\ Without(f, Ends(old))[k] = f[k]
    BY <1>4 DEF Without, Restrict
  <2> QED
    BY <2>1, <2>2, <2>3 DEF Replaced, Put
<1>12. \A k \in DOMAIN g : k \in rest \/ \E s \in new : s.end = k
  BY <1>9 DEF Ends
<1> HIDE DEF g
<1>13. \A k \in DOMAIN g : \/ k \in rest /\ g[k] = f[k]
                           \/ g[k] \in new /\ g[k].end = k
  <2> TAKE k \in DOMAIN g
  <2>1. CASE k \in rest
    BY <1>11, <2>1, Zenon
  <2>2. CASE k \notin rest
    <3>1. PICK s \in new : s.end = k
      BY <1>12, <2>2
    <3>2. g[k] = s
      BY <1>10, <3>1
    <3> QED
      BY <3>1, <3>2
  <2> QED
    BY <2>1, <2>2
<1>14. \A k \in DOMAIN g : g[k] \in Slice /\ g[k].end = k /\ g[k].start < k
  BY <1>1, <1>2, <1>13
<1>15. ASSUME NEW t \in Instants PROVE \E k \in DOMAIN g : Contains(g[k], t)
  <2>1. PICK k \in DOMAIN f : Contains(f[k], t)
    BY DEF Tiles
  <2>2. CASE k \in rest
    BY <1>11, <2>1, <2>2
  <2>3. CASE k \notin rest
    <3>1. f[k] \in old
      BY <2>3
    <3>2. lo <= t /\ t < hi
      BY <1>0, <1>2, <2>1, <3>1 DEF Contains, Instants
    <3>3. PICK s \in new : Contains(s, t)
      BY <3>2 DEF Spans
    <3> QED
      BY <1>10, <3>3
  <2> QED
    BY <2>2, <2>3
<1>16. ASSUME NEW k \in DOMAIN g, NEW l \in DOMAIN g, NEW t \in Instants,
              Contains(g[k], t), Contains(g[l], t)
       PROVE  k = l
  <2>1. CASE k \in rest /\ l \in rest
    BY <1>11, <1>16, <2>1 DEF Tiles
  <2>2. ASSUME NEW x \in DOMAIN g, x \notin rest, Contains(g[x], t)
        PROVE  g[x] \in new /\ g[x].end = x /\ lo <= t /\ t < hi
    <3>1. g[x] \in new /\ g[x].end = x
      BY <1>13, <2>2
    <3> QED
      BY <1>0, <1>2, <2>2, <3>1 DEF Contains, Instants
  <2>3. ASSUME NEW x \in DOMAIN g, x \in rest, Contains(g[x], t)
        PROVE  t < lo \/ hi <= t
    BY <1>6, <1>11, <2>3
  <2>4. CASE k \notin rest /\ l \notin rest
    BY <1>16, <2>2, <2>4 DEF Spans
  <2>5. t \in Nat
    BY <1>0 DEF Instants
  <2> QED
    BY <1>0, <1>16, <2>1, <2>2, <2>3, <2>4, <2>5
<1>17. Tiles(g)
  BY <1>14, <1>15, <1>16 DEF Tiles
<1>18. TiledAnew(f, g, old, new)
  BY <1>10, <1>11, <1>12, <1>17 DEF TiledAnew
<1> QED
  BY <1>18 DEF g

\* What the replace functions check, and the slices they go through: slices of
\* the index and new ones that tile the same times, and the list of either.
Replacing(old, new, list, lo, hi) ==
    /\ old # {} /\ old \subseteq {slices[k] : k \in DOMAIN slices}
    /\ Spans(old, lo, hi) /\ Spans(new, lo, hi)
    /\ Ends(new) \subseteq CutTimes \cup DOMAIN slices
    /\ list \in Seq(Slice)
    /\ \A i \in DOMAIN list : \A t \in Instants :
          Contains(list[i], t) => \E s \in old : Contains(s, t)
    /\ \A i, j \in DOMAIN list : \A t \in Instants :
          Contains(list[i], t) /\ Contains(list[j], t) => i = j
    /\ \A s \in old : \A t \in Instants :
          Contains(s, t) => \E i \in DOMAIN list : Contains(list[i], t)

\* What either replace function does before the first block is rewritten.
Starts(old, new, list) ==
    /\ Idle
    /\ ReplaceSlices(old, new)
    /\ ranges' = list
    /\ replacements' = replacements + 1
    /\ UNCHANGED <<blockVars, loopVars>>

\* The slices of a list that tile the times of the old ones, each once.
LEMMA ListReplaces ==
    ASSUME NEW list \in Seq(Slice), NEW lo \in Nat, NEW hi \in 0..Infinity,
           NEW old, Spans(old, lo, hi), Spans(Range(list), lo, hi),
           \A i, j \in DOMAIN list : list[i] = list[j] => i = j
    PROVE  /\ \A i \in DOMAIN list : \A t \in Instants :
                 Contains(list[i], t) => \E s \in old : Contains(s, t)
           /\ \A i, j \in DOMAIN list : \A t \in Instants :
                 Contains(list[i], t) /\ Contains(list[j], t) => i = j
           /\ \A s \in old : \A t \in Instants :
                 Contains(s, t) => \E i \in DOMAIN list : Contains(list[i], t)
<1>0. hi \in Nat /\ \A t \in Instants : t \in Nat
  BY PartitionIndexAssumption DEF Instants
<1>1. \A i \in DOMAIN list : list[i] \in Range(list)
  BY DEF Range
<1>2. ASSUME NEW s, NEW t \in Instants, Contains(s, t),
             s \in old \cup Range(list)
      PROVE  lo <= t /\ t < hi
  <2>1. s \in Slice /\ lo <= s.start /\ s.end <= hi
    BY <1>2 DEF Spans
  <2>2. s.start \in Nat /\ s.end \in Nat
    BY <2>1, PartitionIndexAssumption DEF Slice
  <2> QED
    BY <1>0, <1>2, <2>1, <2>2 DEF Contains
<1>3. ASSUME NEW i \in DOMAIN list, NEW t \in Instants, Contains(list[i], t)
      PROVE  \E s \in old : Contains(s, t)
  BY <1>1, <1>2, <1>3 DEF Spans
<1>4. ASSUME NEW i \in DOMAIN list, NEW j \in DOMAIN list, NEW t \in Instants,
             Contains(list[i], t), Contains(list[j], t)
      PROVE  i = j
  BY <1>1, <1>4 DEF Spans
<1>5. ASSUME NEW s \in old, NEW t \in Instants, Contains(s, t)
      PROVE  \E i \in DOMAIN list : Contains(list[i], t)
  <2>1. PICK r \in Range(list) : Contains(r, t)
    BY <1>2, <1>5 DEF Spans
  <2> QED
    BY <2>1 DEF Range
<1> QED
  BY <1>3, <1>4, <1>5

\* Lists of one slice, and of two that touch.
LEMMA OneListed ==
    ASSUME NEW s \in Slice, s.start < s.end
    PROVE  /\ <<s>> \in Seq(Slice)
           /\ Range(<<s>>) = {s}
           /\ \A i, j \in DOMAIN <<s>> : <<s>>[i] = <<s>>[j] => i = j
BY DEF Range

\* The list of two slices that touch, as the two replace functions take it.
LEMMA TwoListed ==
    ASSUME NEW s \in Slice, s.start < s.end, NEW r \in Slice,
           r.start < r.end, r.start = s.end
    PROVE  /\ <<s, r>> \in Seq(Slice)
           /\ Range(<<s, r>>) = {s, r}
           /\ \A i, j \in DOMAIN <<s, r>> : <<s, r>>[i] = <<s, r>>[j] => i = j
<1>1. s.start \in Nat /\ s.end \in Nat /\ r.start \in Nat /\ r.end \in Nat
  BY PartitionIndexAssumption DEF Slice
<1>2. s # r
  BY <1>1
<1>3. <<s, r>> \in Seq(Slice) /\ DOMAIN <<s, r>> = {1, 2}
      /\ <<s, r>>[1] = s /\ <<s, r>>[2] = r
  OBVIOUS
<1> DEFINE l == <<s, r>>
<1> HIDE DEF l
<1>4. l \in Seq(Slice) /\ DOMAIN l = {1, 2} /\ l[1] = s /\ l[2] = r
  BY <1>3 DEF l
<1>5. Range(l) = {s, r}
  BY <1>4, Zenon DEF Range
<1>6. \A i, j \in DOMAIN l : l[i] = l[j] => i = j
  BY <1>2, <1>4
<1> QED
  BY <1>4, <1>5, <1>6 DEF l

\* A replacement of slices that tile the same times as the new ones.
LEMMA SpansReplace ==
    ASSUME NEW old \in Seq(Slice), NEW new \in Seq(Slice),
           NEW list \in {old, new},
           NEW lo \in Nat, NEW hi \in 0..Infinity,
           Spans(Range(old), lo, hi), Spans(Range(new), lo, hi),
           Range(old) # {}, Range(old) \subseteq Range(slices),
           Ends(Range(new)) \subseteq CutTimes \cup DOMAIN slices,
           \A i, j \in DOMAIN list : list[i] = list[j] => i = j
    PROVE  Replacing(Range(old), Range(new), list, lo, hi)
<1>1. list \in Seq(Slice) /\ Spans(Range(list), lo, hi)
  OBVIOUS
<1>2. Range(old) \subseteq {slices[k] : k \in DOMAIN slices}
  BY DEF Range
<1> DEFINE o == Range(old)
<1>3. Spans(o, lo, hi)
  OBVIOUS
<1> HIDE DEF o
<1>4. /\ \A i \in DOMAIN list : \A t \in Instants :
            Contains(list[i], t) => \E s \in o : Contains(s, t)
      /\ \A i, j \in DOMAIN list : \A t \in Instants :
            Contains(list[i], t) /\ Contains(list[j], t) => i = j
      /\ \A s \in o : \A t \in Instants :
            Contains(s, t) => \E i \in DOMAIN list : Contains(list[i], t)
  BY <1>1, <1>3, ListReplaces
<1> QED
  BY <1>1, <1>2, <1>4 DEF Replacing, o

\* What the slices of the index, and the new slices of clients, are.
LEMMA StoredSlices ==
    ASSUME Tiles(slices), NEW s \in Range(slices)
    PROVE  /\ s \in Slice /\ s.start < s.end /\ s.end \in DOMAIN slices
           /\ s.start \in Nat /\ s.end \in 0..Infinity
<1>1. PICK k \in DOMAIN slices : s = slices[k]
  BY DEF Range
<1>2. s \in Slice /\ s.end = k /\ s.start < k
  BY <1>1 DEF Tiles
<1> QED
  BY <1>2, PartitionIndexAssumption DEF Slice

\* A slice with these ends.
SliceFrom(s, a, b) == /\ s \in Slice /\ s.start = a /\ s.end = b
                      /\ a \in Nat /\ b \in 0..Infinity

\* The slices that clients ask for are slices.
LEMMA NewSlices ==
    ASSUME NEW s \in ClientSlices
    PROVE  SliceFrom(s, s.start, s.end) /\ s.start < s.end /\ s.end \in CutTimes
<1>1. /\ s \in [start : CutTimes, end : CutTimes, parts : Partitionings]
      /\ s.start < s.end
  BY DEF ClientSlices
<1>2. s.start \in 0..Infinity /\ s.end \in 0..Infinity /\ s.end \in CutTimes
      /\ s.parts \in Seq(SUBSET Attributes) /\ Infinity \in Nat
  BY <1>1, RepartitionAssumption, PartitionIndexAssumption
<1>3. s.start \in 0 .. Infinity - 1 /\ s.end \in 1..Infinity
  BY <1>1, <1>2
<1> QED
  BY <1>1, <1>2, <1>3 DEF SliceFrom, Slice

\* replaceTimeSlicedPartitioning, with one and with two new slices, and
\* replaceTimeSlicedPartitionings start such a replacement.
StartsReplacing ==
    \E old, new, list : \E lo \in Nat, hi \in 0..Infinity :
       Replacing(old, new, list, lo, hi) /\ Starts(old, new, list)

\* Either replace function, once its checks are passed.
LEMMA StartIs ==
    ASSUME NEW old \in Seq(Slice), NEW new \in Seq(Slice),
           NEW list \in {old, new}, Idle, StartReplacement(old, new, list),
           NEW lo \in Nat, NEW hi \in 0..Infinity,
           Replacing(Range(old), Range(new), list, lo, hi)
    PROVE  StartsReplacing
<1>1. Starts(Range(old), Range(new), list)
  BY DEF StartReplacement, Starts
<1> DEFINE o == Range(old)
           n == Range(new)
<1>2. Replacing(o, n, list, lo, hi) /\ Starts(o, n, list)
  BY <1>1
<1> HIDE DEF o, n
<1> QED
  BY <1>2, Zenon DEF StartsReplacing

\* replaceTimeSlicedPartitioning with one new slice.
LEMMA OneByOne ==
    ASSUME Tiles(slices), Idle, NEW s \in Range(slices),
           NEW r \in ClientSlices, ReplaceTimeSlicedPartitioning(s, <<r>>)
    PROVE  StartsReplacing
<1> DEFINE a == r.start
           b == r.end
<1>a. SliceFrom(r, a, b) /\ a < b /\ b \in CutTimes
  BY NewSlices, Zenon
<1> HIDE DEF a, b
<1>1. r \in Slice /\ r.start = a /\ r.end = b /\ a \in Nat /\ b \in 0..Infinity
  BY <1>a DEF SliceFrom
<1>2. s \in Slice /\ s.start < s.end
  BY StoredSlices, Zenon
<1>3. StartReplacement(<<s>>, <<r>>, <<r>>)
  BY DEF ReplaceTimeSlicedPartitioning
<1>4. s.start = a /\ s.end = b /\ r.start < r.end
  BY <1>a, <1>1, <1>3 DEF StartReplacement, Replaceable
<1>5. <<s>> \in Seq(Slice) /\ Range(<<s>>) = {s}
  BY <1>2, OneListed, Zenon
<1>6. <<r>> \in Seq(Slice) /\ Range(<<r>>) = {r}
      /\ \A i, j \in DOMAIN <<r>> : <<r>>[i] = <<r>>[j] => i = j
  BY <1>1, <1>4, OneListed, Zenon
<1>7. Spans({s}, a, b)
  BY <1>2, <1>4, OneSpans
<1>8. Spans({r}, a, b)
  BY <1>1, <1>4, OneSpans
<1>9. Ends({r}) \subseteq CutTimes \cup DOMAIN slices
  BY <1>a, <1>1 DEF Ends
<1>10. Replacing(Range(<<s>>), Range(<<r>>), <<r>>, a, b)
  <2> DEFINE old == <<s>>
             new == <<r>>
  <2>1. /\ old \in Seq(Slice) /\ new \in Seq(Slice) /\ new \in {old, new}
        /\ Spans(Range(old), a, b) /\ Spans(Range(new), a, b)
        /\ Range(old) # {} /\ Range(old) \subseteq Range(slices)
        /\ Ends(Range(new)) \subseteq CutTimes \cup DOMAIN slices
        /\ \A i, j \in DOMAIN new : new[i] = new[j] => i = j
    BY <1>5, <1>6, <1>7, <1>8, <1>9
  <2> HIDE DEF old, new
  <2>2. Replacing(Range(old), Range(new), new, a, b)
    BY <1>1, <2>1, SpansReplace
  <2> QED
    BY <2>2 DEF old, new
<1> QED
  <2> DEFINE old == <<s>>
             new == <<r>>
  <2>1. /\ old \in Seq(Slice) /\ new \in Seq(Slice) /\ new \in {old, new}
        /\ StartReplacement(old, new, new)
        /\ Replacing(Range(old), Range(new), new, a, b)
    BY <1>3, <1>5, <1>6, <1>10
  <2> HIDE DEF old, new
  <2> QED
    BY <1>1, <2>1, StartIs

\* replaceTimeSlicedPartitioning with two new slices.
LEMMA OneByTwo ==
    ASSUME Tiles(slices), Idle, NEW s \in Range(slices),
           NEW r1 \in ClientSlices, NEW r2 \in ClientSlices,
           ReplaceTimeSlicedPartitioning(s, <<r1, r2>>)
    PROVE  StartsReplacing
<1> DEFINE a == r1.start
           c == r2.end
<1>a. /\ SliceFrom(r1, a, r1.end) /\ SliceFrom(r2, r2.start, c)
      /\ a < r1.end /\ r2.start < c /\ r1.end \in CutTimes /\ c \in CutTimes
  BY NewSlices, Zenon
<1> HIDE DEF a, c
<1>1. r1 \in Slice /\ r1.start = a /\ a \in Nat
  BY <1>a DEF SliceFrom
<1>2. r2 \in Slice /\ r2.end = c /\ c \in 0..Infinity
  BY <1>a DEF SliceFrom
<1>3. s \in Slice /\ s.start < s.end
  BY StoredSlices, Zenon
<1>4. StartReplacement(<<s>>, <<r1, r2>>, <<r1, r2>>)
  BY DEF ReplaceTimeSlicedPartitioning
<1>b. Contiguous(<<r1, r2>>)
  BY <1>4 DEF StartReplacement, Replaceable
<1>5. s.start = a /\ s.end = c /\ r1.start < r1.end /\ r2.start < r2.end
      /\ r2.start = r1.end
  <2>1. r2.start = r1.end
    BY <1>b DEF Contiguous
  <2> QED
    BY <1>a, <1>1, <1>2, <1>4, <2>1 DEF StartReplacement, Replaceable
<1>6. <<s>> \in Seq(Slice) /\ Range(<<s>>) = {s}
  BY <1>3, OneListed, Zenon
<1>7. <<r1, r2>> \in Seq(Slice) /\ Range(<<r1, r2>>) = {r1, r2}
      /\ \A i, j \in DOMAIN <<r1, r2>> : <<r1, r2>>[i] = <<r1, r2>>[j] => i = j
  BY <1>1, <1>2, <1>5, TwoListed, Zenon
<1>8. Spans({s}, a, c)
  BY <1>3, <1>5, OneSpans
<1>9. Spans({r1, r2}, a, c)
  BY <1>1, <1>2, <1>5, TwoSpan
<1>10. Ends({r1, r2}) \subseteq CutTimes \cup DOMAIN slices
  BY <1>a, <1>2 DEF Ends
<1> DEFINE old == <<s>>
           new == <<r1, r2>>
<1>11. /\ old \in Seq(Slice) /\ new \in Seq(Slice) /\ new \in {old, new}
       /\ Spans(Range(old), a, c) /\ Spans(Range(new), a, c)
       /\ Range(old) # {} /\ Range(old) \subseteq Range(slices)
       /\ Ends(Range(new)) \subseteq CutTimes \cup DOMAIN slices
       /\ \A i, j \in DOMAIN new : new[i] = new[j] => i = j
       /\ StartReplacement(old, new, new)
  BY <1>4, <1>6, <1>7, <1>8, <1>9, <1>10
<1> HIDE DEF old, new
<1>12. Replacing(Range(old), Range(new), new, a, c)
  BY <1>1, <1>2, <1>11, SpansReplace
<1> QED
  BY <1>1, <1>2, <1>11, <1>12, StartIs

\* replaceTimeSlicedPartitionings, which merges two slices.
LEMMA TwoByOne ==
    ASSUME Tiles(slices), Idle, NEW s \in Range(slices),
           NEW r \in Range(slices), NEW m \in ClientSlices,
           ReplaceTimeSlicedPartitionings(<<s, r>>, m)
    PROVE  StartsReplacing
<1>1. /\ s \in Slice /\ s.start < s.end /\ s.end \in DOMAIN slices
      /\ s.start \in Nat /\ s.end \in 0..Infinity
  BY StoredSlices, Zenon
<1>2. /\ r \in Slice /\ r.start < r.end /\ r.end \in DOMAIN slices
      /\ r.start \in Nat /\ r.end \in 0..Infinity
  BY StoredSlices, Zenon
<1>3. StartReplacement(<<s, r>>, <<m>>, <<s, r>>)
  BY DEF ReplaceTimeSlicedPartitionings
<1>4. Contiguous(<<s, r>>)
  BY <1>3 DEF StartReplacement, Replaceable
<1>5. r.start = s.end
  BY <1>4 DEF Contiguous
<1>6. s.start < r.end /\ s.start \in 0 .. Infinity - 1 /\ r.end \in 1..Infinity
  BY <1>1, <1>2, <1>5, PartitionIndexAssumption
<1>7. m \in Slice /\ m.start = s.start /\ m.end = r.end
  <2>1. m \in Slice
    BY NewSlices DEF SliceFrom
  <2> QED
    BY <1>3, <2>1 DEF StartReplacement, Replaceable
<1>a. m.start < m.end
  BY <1>6, <1>7
<1>8. <<s, r>> \in Seq(Slice) /\ Range(<<s, r>>) = {s, r}
      /\ \A i, j \in DOMAIN <<s, r>> : <<s, r>>[i] = <<s, r>>[j] => i = j
  BY <1>1, <1>2, <1>5, TwoListed, Zenon
<1>9. <<m>> \in Seq(Slice) /\ Range(<<m>>) = {m}
  BY <1>7, <1>a, OneListed
<1>10. Spans({s, r}, s.start, r.end)
  BY <1>1, <1>2, <1>5, TwoSpan
<1>11. Spans({m}, s.start, r.end)
  BY <1>7, <1>a, OneSpans
<1>12. Ends({m}) \subseteq CutTimes \cup DOMAIN slices
  BY <1>2, <1>7 DEF Ends
<1> DEFINE old == <<s, r>>
           new == <<m>>
           lo == s.start
           hi == r.end
<1>13. /\ old \in Seq(Slice) /\ new \in Seq(Slice) /\ old \in {old, new}
       /\ Spans(Range(old), lo, hi) /\ Spans(Range(new), lo, hi)
       /\ Range(old) # {} /\ Range(old) \subseteq Range(slices)
       /\ Ends(Range(new)) \subseteq CutTimes \cup DOMAIN slices
       /\ \A i, j \in DOMAIN old : old[i] = old[j] => i = j
       /\ StartReplacement(old, new, old)
       /\ lo \in Nat /\ hi \in 0..Infinity
  BY <1>1, <1>2, <1>3, <1>8, <1>9, <1>10, <1>11, <1>12
<1> HIDE DEF old, new, lo, hi
<1>14. Replacing(Range(old), Range(new), old, lo, hi)
  BY <1>13, SpansReplace
<1> QED
  BY <1>13, <1>14, StartIs

\* A replacement leaves the index well-formed: the slices tile time.  Slices
\* that are removed leave the cache.
LEMMA ReplaceStep ==
    ASSUME IndexInv, NEW old, NEW new, NEW list,
           NEW lo \in Nat, NEW hi \in 0..Infinity,
           Replacing(old, new, list, lo, hi), ReplaceSlices(old, new)
    PROVE  /\ IndexInv'
           /\ CacheMatchesDb => CacheMatchesDb'
           /\ DOMAIN slices \subseteq CutTimes
                 => DOMAIN slices' \subseteq CutTimes
<1> DEFINE g == Replaced(slices, old, new)
<1>1. /\ Tiles(slices)
      /\ old \subseteq {slices[k] : k \in DOMAIN slices}
      /\ Spans(old, lo, hi) /\ Spans(new, lo, hi)
  BY DEF IndexInv, Replacing
<1>2. slices' = g
  BY DEF ReplaceSlices, Replaced
<1>3. /\ Tiles(g)
      /\ \A k \in DOMAIN slices :
            slices[k] \notin old => k \in DOMAIN g /\ g[k] = slices[k]
      /\ \A k \in DOMAIN g : \/ k \in DOMAIN slices /\ slices[k] \notin old
                             \/ \E s \in new : s.end = k
  <2>1. TiledAnew(slices, g, old, new)
    BY <1>1, TilesReplaced
  <2> HIDE DEF g
  <2> QED
    BY <2>1, Zenon DEF TiledAnew
<1> HIDE DEF g
<1>4. Tiles(slices')
  BY <1>2, <1>3 DEF Tiles
<1>5. removed' \subseteq Slice
  BY <1>1 DEF ReplaceSlices, IndexInv, Spans
<1>6. cache' = Without(cache, Ends(old))
  BY DEF ReplaceSlices
<1>7. \A k \in DOMAIN cache' : /\ k \in DOMAIN cache /\ k \notin Ends(old)
                               /\ cache'[k] = cache[k]
  BY <1>6 DEF Without, Restrict
<1>8. \A k \in DOMAIN cache' : k \in 1..Infinity /\ cache'[k] \in Slice
  BY <1>7 DEF IndexInv
<1>9. lruList' \in Seq(Nodes)
  <2>1. lruList \in Seq(Nodes)
    BY DEF IndexInv
  <2> QED
    BY <2>1, ErasedNodes DEF ReplaceSlices
<1>10. answer' \in Slice \cup {NotFound, Corrupt}
  BY DEF ReplaceSlices, IndexInv
<1>11. IndexInv'
  BY <1>4, <1>5, <1>8, <1>9, <1>10 DEF IndexInv
<1>12. ASSUME CacheMatchesDb PROVE CacheMatchesDb'
  <2>1. ASSUME NEW k \in DOMAIN cache'
        PROVE  k \in DOMAIN g /\ cache'[k] = g[k]
    <3>1. k \in DOMAIN slices /\ cache'[k] = slices[k] /\ k \notin Ends(old)
      BY <1>7, <1>12, <2>1 DEF CacheMatchesDb
    <3>2. slices[k].end = k
      BY <1>1, <3>1 DEF Tiles
    <3>3. slices[k] \notin old
      BY <3>1, <3>2 DEF Ends
    <3> QED
      BY <1>3, <3>1, <3>3
  <2> QED
    BY <1>2, <2>1 DEF CacheMatchesDb
<1>13. ASSUME DOMAIN slices \subseteq CutTimes
       PROVE  DOMAIN slices' \subseteq CutTimes
  <2>1. \A s \in new : s.end \in CutTimes
    BY <1>13 DEF Replacing, Ends
  <2> QED
    BY <1>2, <1>3, <1>13, <2>1
<1> QED
  BY <1>11, <1>12, <1>13

-----------------------------------------------------------------------------
(* Master blocks and sub-blocks *)

\* Master blocks and sub-blocks, as addBlock and replaceBlocks store them.
MasterBlock ==
    {m \in [lists : BlockLists, times : BlockTimes, subs : Seq(Nat)] :
        m.times = AllTimes(m.lists)}

SubBlock == [times : BlockTimes, part : Nat \ {0},
             attrs : (SUBSET Attributes) \cup {Garbled}]

\* SubBlocksOwned, in terms of master blocks and positions.
OwnedInv ==
    /\ \A a, b \in DOMAIN masters :
          \A i \in DOMAIN masters[a].subs, j \in DOMAIN masters[b].subs :
             masters[a].subs[i] = masters[b].subs[j] => a = b /\ i = j
    /\ \A a \in DOMAIN masters : \A i \in DOMAIN masters[a].subs :
          masters[a].subs[i] \in DOMAIN subs
    /\ \A x \in DOMAIN subs :
          \E a \in DOMAIN masters : \E i \in DOMAIN masters[a].subs :
             masters[a].subs[i] = x
    /\ \A x \in DOMAIN subs : x \notin DOMAIN masters
    /\ \A x \in DOMAIN subs \cup DOMAIN masters : x < nextBlockId

\* The blocks have their types, and sub-blocks are owned.
BlockInv ==
    /\ \A a \in DOMAIN masters : a \in Nat /\ masters[a] \in MasterBlock
    /\ \A x \in DOMAIN subs : x \in Nat /\ subs[x] \in SubBlock
    /\ nextBlockId \in Nat
    /\ OwnedInv

\* Master block m is stored with the sub-blocks new under ids, in the place of
\* the ones it had under old.
Stores(m, old, ids, new) ==
    /\ DOMAIN ids = 1..Len(ids) /\ DOMAIN new = DOMAIN ids
    /\ DOMAIN masters' = DOMAIN masters \cup {m}
    /\ masters'[m] \in MasterBlock /\ masters'[m].subs = ids
    /\ \A a \in DOMAIN masters : a # m => masters'[a] = masters[a]
    /\ \A x : x \in DOMAIN subs' <=> \/ x \in DOMAIN subs /\ x \notin Range(old)
                                     \/ \E i \in DOMAIN ids : ids[i] = x
    /\ \A i \in DOMAIN ids : subs'[ids[i]] = new[i] /\ new[i] \in SubBlock
    /\ \A x \in DOMAIN subs : x \notin Range(old) => subs'[x] = subs[x]
    /\ \A i, j \in DOMAIN ids : ids[i] = ids[j] => i = j
    /\ \A i \in DOMAIN ids : /\ ids[i] \in Nat /\ ids[i] < nextBlockId'
                             /\ ids[i] \in Range(old) \/ ids[i] >= nextBlockId
    /\ nextBlockId' \in Nat /\ nextBlockId' >= nextBlockId
    /\ \/ m \in DOMAIN masters /\ masters[m].subs = old
       \/ /\ m \in Nat /\ m >= nextBlockId /\ m < nextBlockId'
          /\ old = <<>> /\ \A i \in DOMAIN ids : ids[i] # m

\* A sub-block a master block lists is stored, and is listed once.
LEMMA OneOwner ==
    ASSUME BlockInv, NEW a \in DOMAIN masters, NEW i \in DOMAIN masters[a].subs
    PROVE  /\ masters[a].subs[i] \in DOMAIN subs
           /\ \A b \in DOMAIN masters : \A j \in DOMAIN masters[b].subs :
                 masters[a].subs[i] = masters[b].subs[j] => a = b /\ i = j
<1>1. masters[a].subs[i] \in DOMAIN subs
  BY DEF BlockInv, OwnedInv
<1>2. ASSUME NEW b \in DOMAIN masters, NEW j \in DOMAIN masters[b].subs,
             masters[a].subs[i] = masters[b].subs[j]
      PROVE  a = b /\ i = j
  BY <1>2 DEF BlockInv, OwnedInv
<1> QED
  BY <1>1, <1>2

\* What the sub-blocks of a master block were is theirs alone.
LEMMA StoresKeeps ==
    ASSUME BlockInv, NEW m, NEW old, NEW ids, NEW new,
           Stores(m, old, ids, new)
    PROVE  BlockInv'
<1>1. /\ \A a \in DOMAIN masters : /\ a \in Nat /\ a < nextBlockId
                                   /\ masters[a] \in MasterBlock
      /\ \A x \in DOMAIN subs : /\ x \in Nat /\ x < nextBlockId
                                /\ x \notin DOMAIN masters
                                /\ subs[x] \in SubBlock
      /\ nextBlockId \in Nat
  BY DEF BlockInv, OwnedInv
<1>2. m \in Nat /\ m < nextBlockId'
  BY <1>1 DEF Stores
<1>3. \A x : x \in Range(old) => x \in DOMAIN subs
  <2>1. CASE m \in DOMAIN masters /\ masters[m].subs = old
    BY <2>1, OneOwner DEF Range
  <2>2. CASE old = <<>>
    BY <2>2 DEF Range
  <2> QED
    BY <2>1, <2>2 DEF Stores
<1>4. ASSUME NEW a \in DOMAIN masters, a # m, NEW i \in DOMAIN masters[a].subs
      PROVE  /\ masters[a].subs[i] \in DOMAIN subs
             /\ masters[a].subs[i] \notin Range(old)
  <2>1. masters[a].subs[i] \in DOMAIN subs
    BY OneOwner
  <2>2. CASE m \in DOMAIN masters /\ masters[m].subs = old
    <3>1. \A j \in DOMAIN old : masters[a].subs[i] # old[j]
      BY <1>4, <2>2, OneOwner
    <3> QED
      BY <2>1, <3>1 DEF Range
  <2>3. CASE old = <<>>
    BY <2>1, <2>3 DEF Range
  <2> QED
    BY <2>2, <2>3 DEF Stores
<1>5. \A x \in DOMAIN subs : \A i \in DOMAIN ids :
         x \notin Range(old) => ids[i] # x
  <2> TAKE x \in DOMAIN subs
  <2> TAKE i \in DOMAIN ids
  <2>1. ids[i] \in Nat /\ (ids[i] \in Range(old) \/ ids[i] >= nextBlockId)
    BY DEF Stores
  <2> QED
    BY <1>1, <2>1
<1>6. \A a \in DOMAIN masters' : a \in Nat /\ masters'[a] \in MasterBlock
                                 /\ a < nextBlockId'
  <2>1. /\ DOMAIN masters' = DOMAIN masters \cup {m}
        /\ masters'[m] \in MasterBlock
        /\ \A a \in DOMAIN masters : a # m => masters'[a] = masters[a]
        /\ nextBlockId' \in Nat /\ nextBlockId' >= nextBlockId
    BY DEF Stores
  <2> QED
    BY <1>1, <1>2, <2>1
<1>7. \A x \in DOMAIN subs' : x \in Nat /\ subs'[x] \in SubBlock
                              /\ x < nextBlockId'
  <2> TAKE x \in DOMAIN subs'
  <2>1. CASE x \in DOMAIN subs /\ x \notin Range(old)
    <3>1. subs'[x] = subs[x] /\ nextBlockId' \in Nat
          /\ nextBlockId' >= nextBlockId
      BY <2>1 DEF Stores
    <3>2. x \in Nat /\ x < nextBlockId /\ nextBlockId \in Nat
          /\ subs[x] \in SubBlock
      BY <1>1, <2>1
    <3>3. x < nextBlockId'
      BY <3>1, <3>2
    <3> QED
      BY <3>1, <3>2, <3>3
  <2>2. CASE \E i \in DOMAIN ids : ids[i] = x
    BY <2>2 DEF Stores
  <2> QED
    BY <2>1, <2>2 DEF Stores
<1>8. \A a \in DOMAIN masters' : a = m \/ (a \in DOMAIN masters
                                             /\ masters'[a] = masters[a])
  BY DEF Stores
<1>9. /\ masters'[m].subs = ids /\ m \in DOMAIN masters'
      /\ \A i, j \in DOMAIN ids : ids[i] = ids[j] => i = j
  BY DEF Stores
<1>10. ASSUME NEW a \in DOMAIN masters', NEW b \in DOMAIN masters',
              NEW i \in DOMAIN masters'[a].subs,
              NEW j \in DOMAIN masters'[b].subs,
              masters'[a].subs[i] = masters'[b].subs[j]
       PROVE  a = b /\ i = j
  <2>1. CASE a = m /\ b = m
    BY <1>9, <1>10, <2>1
  <2>2. CASE a # m /\ b # m
    <3>1. a \in DOMAIN masters /\ b \in DOMAIN masters
          /\ masters'[a] = masters[a] /\ masters'[b] = masters[b]
      BY <1>8, <2>2
    <3>2. /\ i \in DOMAIN masters[a].subs /\ j \in DOMAIN masters[b].subs
          /\ masters[a].subs[i] = masters[b].subs[j]
      BY <1>10, <3>1
    <3> QED
      BY <3>1, <3>2, OneOwner
  <2>3. CASE a = m /\ b # m
    BY <1>4, <1>5, <1>8, <1>9, <1>10, <2>3
  <2>4. CASE a # m /\ b = m
    BY <1>4, <1>5, <1>8, <1>9, <1>10, <2>4
  <2> QED
    BY <2>1, <2>2, <2>3, <2>4
<1>11. ASSUME NEW a \in DOMAIN masters', NEW i \in DOMAIN masters'[a].subs
       PROVE  masters'[a].subs[i] \in DOMAIN subs'
  <2>1. CASE a = m
    BY <1>9, <2>1 DEF Stores
  <2>2. CASE a # m
    <3>1. a \in DOMAIN masters /\ masters'[a] = masters[a]
      BY <1>8, <2>2
    <3>2. /\ masters[a].subs[i] \in DOMAIN subs
          /\ masters[a].subs[i] \notin Range(old)
      BY <1>4, <1>11, <2>2, <3>1
    <3> QED
      BY <3>1, <3>2 DEF Stores
  <2> QED
    BY <2>1, <2>2
<1>12. ASSUME NEW x \in DOMAIN subs'
       PROVE  \E a \in DOMAIN masters' : \E i \in DOMAIN masters'[a].subs :
                 masters'[a].subs[i] = x
  <2>1. CASE x \in DOMAIN subs /\ x \notin Range(old)
    <3>1. PICK a \in DOMAIN masters : \E i \in DOMAIN masters[a].subs :
                 masters[a].subs[i] = x
      BY <2>1 DEF BlockInv, OwnedInv
    <3>2. a # m
      <4>1. CASE m \in DOMAIN masters /\ masters[m].subs = old
        BY <2>1, <3>1, <4>1 DEF Range
      <4>2. CASE m >= nextBlockId /\ m \in Nat
        BY <1>1, <4>2
      <4> QED
        BY <4>1, <4>2 DEF Stores
    <3>3. a \in DOMAIN masters' /\ masters'[a] = masters[a]
      BY <3>2 DEF Stores
    <3> QED
      BY <3>1, <3>3
  <2>2. CASE \E i \in DOMAIN ids : ids[i] = x
    BY <1>9, <2>2
  <2> QED
    BY <2>1, <2>2 DEF Stores
<1>13. ASSUME NEW x \in DOMAIN subs' PROVE x \notin DOMAIN masters'
  <2>1. SUFFICES x \notin DOMAIN masters /\ x # m
    BY DEF Stores
  <2>2. CASE x \in DOMAIN subs
    BY <1>1, <2>2 DEF Stores
  <2>3. CASE x \notin DOMAIN subs
    <3>1. PICK i \in DOMAIN ids : ids[i] = x
      BY <2>3 DEF Stores
    <3>2. x \in Nat /\ x >= nextBlockId
      BY <1>3, <2>3, <3>1 DEF Stores
    <3> QED
      BY <1>1, <3>1, <3>2 DEF Stores
  <2> QED
    BY <2>2, <2>3
<1>14. OwnedInv'
  BY <1>6, <1>7, <1>10, <1>11, <1>12, <1>13 DEF OwnedInv
<1>15. nextBlockId' \in Nat
  BY DEF Stores
<1> QED
  BY <1>6, <1>7, <1>14, <1>15 DEF BlockInv

\* Storing the blocks of a list under distinct ids.
IsPut(g, f, ids, list) ==
    /\ \A x : x \in DOMAIN g <=>
                 x \in DOMAIN f \/ \E i \in DOMAIN ids : ids[i] = x
    /\ \A i \in DOMAIN ids : g[ids[i]] = list[i]
    /\ \A x \in DOMAIN f :
          (\A i \in DOMAIN ids : ids[i] # x) => g[x] = f[x]

\* Storing the blocks of a list under distinct ids.
LEMMA PutById ==
    ASSUME NEW f, NEW ids, NEW list,
           \A i, j \in DOMAIN ids : ids[i] = ids[j] => i = j
    PROVE  IsPut(Put(f, ById(ids, list)), f, ids, list)
<1> DEFINE h == ById(ids, list)
<1>1. \A x : x \in DOMAIN h <=> \E i \in DOMAIN ids : ids[i] = x
  BY DEF ById, Range
<1>2. ASSUME NEW i \in DOMAIN ids PROVE h[ids[i]] = list[i]
  <2>1. ids[i] \in Range(ids)
    BY DEF Range
  <2>2. h[ids[i]] = list[CHOOSE j \in DOMAIN ids : ids[j] = ids[i]]
    BY <2>1 DEF ById
  <2>3. (CHOOSE j \in DOMAIN ids : ids[j] = ids[i]) = i
    OBVIOUS
  <2> QED
    BY <2>2, <2>3, Zenon
<1> HIDE DEF h
<1> DEFINE g == Put(f, h)
<1>3. DOMAIN g = DOMAIN f \cup DOMAIN h
  BY DEF Put
<1>4. \A x \in DOMAIN g : g[x] = IF x \in DOMAIN h THEN h[x] ELSE f[x]
  BY DEF Put
<1> HIDE DEF g
<1>5. \A x : x \in DOMAIN g <=> x \in DOMAIN f \/ \E i \in DOMAIN ids : ids[i] = x
  BY <1>1, <1>3
<1>6. \A i \in DOMAIN ids : g[ids[i]] = list[i]
  BY <1>1, <1>2, <1>3, <1>4
<1>7. \A x \in DOMAIN f : (\A i \in DOMAIN ids : ids[i] # x) => g[x] = f[x]
  BY <1>1, <1>3, <1>4
<1> QED
  BY <1>5, <1>6, <1>7 DEF IsPut, g, h

\* partitionBlock makes one sub-block per attribute set.
LEMMA SubBlocksAre ==
    ASSUME NEW times \in BlockTimes, NEW parts \in Seq(SUBSET Attributes)
    PROVE  /\ DOMAIN SubBlocks(times, parts) = 1..Len(parts)
           /\ \A i \in 1..Len(parts) :
                 /\ SubBlocks(times, parts)[i] \in SubBlock
                 /\ SubBlocks(times, parts)[i] =
                       [times |-> times, part |-> i, attrs |-> parts[i]]
<1>1. \A i \in 1..Len(parts) : parts[i] \in SUBSET Attributes /\ i \in Nat \ {0}
  OBVIOUS
<1>2. \A i \in 1..Len(parts) :
         [times |-> times, part |-> i, attrs |-> parts[i]] \in SubBlock
  BY <1>1 DEF SubBlock
<1> QED
  BY <1>2 DEF SubBlocks

\* HistoricalGraph::addBlock stores a block.
StoresNew(m, times, parts, ids) ==
    /\ Stores(m, <<>>, ids, SubBlocks(times, parts))
    /\ masters'[m].times = times
    /\ m \notin DOMAIN masters

\* HistoricalGraph::addBlock stores the sub-blocks and the master block
\* under ids that were not in use.
LEMMA AddedStores ==
    ASSUME BlockInv, NEW lists \in BlockLists,
           NEW times \in BlockTimes, times = AllTimes(lists),
           NEW parts \in Seq(SUBSET Attributes), NEW n, n = Len(parts),
           NEW ids, ids = [i \in 1..n |-> nextBlockId + i - 1],
           subs' = Put(subs, ById(ids, SubBlocks(times, parts))),
           masters' = Put(masters, [id \in {nextBlockId + n} |->
                         [lists |-> lists, times |-> times, subs |-> ids]]),
           nextBlockId' = nextBlockId + n + 1
    PROVE  StoresNew(nextBlockId + n, times, parts, ids)
<1> DEFINE m == nextBlockId + n
           new == SubBlocks(times, parts)
<1>0. n \in Nat /\ nextBlockId \in Nat /\ m \in Nat
  BY DEF BlockInv
<1>1. ids \in Seq(Nat) /\ Len(ids) = n /\ DOMAIN ids = 1..n
      /\ \A i \in 1..n : ids[i] = nextBlockId + i - 1
  BY <1>0
<1>2. \A i \in 1..n : /\ ids[i] \in Nat /\ ids[i] >= nextBlockId
                      /\ ids[i] < m /\ ids[i] < m + 1
  BY <1>0, <1>1
<1>3. \A i, j \in 1..n : ids[i] = ids[j] => i = j
  BY <1>0, <1>1
<1>4. DOMAIN new = 1..n /\ \A i \in 1..n : new[i] \in SubBlock
  BY SubBlocksAre, Zenon
<1>5. \A x \in DOMAIN subs : x \in Nat /\ x < nextBlockId
  BY DEF BlockInv, OwnedInv
<1>6. m \notin DOMAIN masters
  <2>1. \A x \in DOMAIN masters : x < nextBlockId
    BY DEF BlockInv, OwnedInv
  <2>2. m >= nextBlockId
    BY <1>0
  <2> HIDE DEF m
  <2> QED
    BY <1>0, <2>1, <2>2
<1> HIDE DEF m, new
<1>7. [lists |-> lists, times |-> times, subs |-> ids] \in MasterBlock
  BY <1>1 DEF MasterBlock
<1> DEFINE r == [lists |-> lists, times |-> times, subs |-> ids]
<1>8. masters' = Put(masters, [id \in {m} |-> r])
  BY DEF m
<1>9. r \in MasterBlock /\ r.subs = ids /\ r.times = times
  BY <1>7
<1> HIDE DEF r
<1>10. /\ DOMAIN masters' = DOMAIN masters \cup {m}
       /\ masters'[m] = r
       /\ \A a \in DOMAIN masters : a # m => masters'[a] = masters[a]
  BY <1>8 DEF Put
<1>11. subs' = Put(subs, ById(ids, new)) /\ nextBlockId' = m + 1
  BY <1>0 DEF new, m
<1>12. /\ \A x : x \in DOMAIN subs' <=>
                    x \in DOMAIN subs \/ \E i \in DOMAIN ids : ids[i] = x
       /\ \A i \in DOMAIN ids : subs'[ids[i]] = new[i]
       /\ \A x \in DOMAIN subs :
             (\A i \in DOMAIN ids : ids[i] # x) => subs'[x] = subs[x]
  <2>1. \A i, j \in DOMAIN ids : ids[i] = ids[j] => i = j
    BY <1>1, <1>3
  <2>2. IsPut(Put(subs, ById(ids, new)), subs, ids, new)
    BY <2>1, PutById, Zenon
  <2>3. IsPut(subs', subs, ids, new)
    BY <1>11, <2>2, Zenon
  <2> QED
    BY <2>3 DEF IsPut
<1>13. \A x \in DOMAIN subs : subs'[x] = subs[x]
  <2> TAKE x \in DOMAIN subs
  <2>1. \A i \in DOMAIN ids : ids[i] # x
    BY <1>0, <1>1, <1>2, <1>5
  <2> QED
    BY <1>12, <2>1
<1>14. Range(<<>>) = {}
  BY DEF Range
<1>15. m >= nextBlockId /\ m < m + 1 /\ m + 1 \in Nat /\ m + 1 >= nextBlockId
  BY <1>0 DEF m
<1>16. \A i \in DOMAIN ids : ids[i] # m
  BY <1>0, <1>1, <1>2
<1>17. Stores(m, <<>>, ids, new)
  <2> DEFINE old == <<>>
  <2>0. Range(old) = {} /\ old = <<>>
    BY <1>14
  <2> HIDE DEF old
  <2>1. DOMAIN ids = 1..Len(ids) /\ DOMAIN new = DOMAIN ids
    BY <1>1, <1>4
  <2>2. /\ masters'[m] \in MasterBlock /\ masters'[m].subs = ids
        /\ DOMAIN masters' = DOMAIN masters \cup {m}
        /\ \A a \in DOMAIN masters : a # m => masters'[a] = masters[a]
    BY <1>9, <1>10
  <2>3. /\ \A x : x \in DOMAIN subs' <=>
                     \/ x \in DOMAIN subs /\ x \notin Range(old)
                     \/ \E i \in DOMAIN ids : ids[i] = x
        /\ \A x \in DOMAIN subs : x \notin Range(old) => subs'[x] = subs[x]
    BY <1>12, <1>13, <2>0, Zenon
  <2>4. \A i \in DOMAIN ids : subs'[ids[i]] = new[i] /\ new[i] \in SubBlock
    BY <1>1, <1>4, <1>12
  <2>5. \A i, j \in DOMAIN ids : ids[i] = ids[j] => i = j
    BY <1>1, <1>3
  <2>6. \A i \in DOMAIN ids : /\ ids[i] \in Nat /\ ids[i] < nextBlockId'
                              /\ ids[i] \in Range(old) \/ ids[i] >= nextBlockId
    BY <1>1, <1>2, <1>11
  <2>7. nextBlockId' \in Nat /\ nextBlockId' >= nextBlockId
        /\ m \in Nat /\ m >= nextBlockId /\ m < nextBlockId'
    BY <1>0, <1>11, <1>15
  <2>8. Stores(m, old, ids, new)
    BY <1>16, <2>0, <2>1, <2>2, <2>3, <2>4, <2>5, <2>6, <2>7, Zenon DEF Stores
  <2> QED
    BY <2>0, <2>8
<1> QED
  BY <1>6, <1>9, <1>10, <1>17 DEF StoresNew, m, new

\* Every sub-block of the master block is decoded as it was written.
Intact(id) == \A i \in DOMAIN masters[id].subs :
                 Decodes(subs[masters[id].subs[i]])

\* The master block is stored with the sub-blocks of the partitioning.
Rewritten(id, parts, ids, new) ==
    /\ Stores(id, masters[id].subs, ids, new)
    /\ masters'[id].times = masters[id].times
    /\ masters'[id].lists = masters[id].lists
    /\ Len(ids) = Len(parts)
    /\ Intact(id) =>
          \A i \in 1..Len(parts) :
             new[i] = [times |-> masters[id].times, part |-> i,
                       attrs |-> parts[i]]

\* recombineBlock, partitionBlock and replaceBlocks rewrite a block.
LEMMA RepartitionRewrites ==
    ASSUME BlockInv, NEW id \in DOMAIN masters, answer' \in Slice,
           RepartitionBlock(id)
    PROVE  \E ids, new : Rewritten(id, answer'.parts, ids, new)
<1> DEFINE old   == masters[id].subs
           times == masters[id].times
           parts == answer'.parts
           n     == Len(parts)
           o     == Len(old)
           kept  == IF o < n THEN o ELSE n
           ids   == [i \in 1..n |-> IF i <= o THEN old[i]
                                              ELSE nextBlockId + i - o - 1]
           sub(i) == SubBlocks(times, parts)[i]
           new   == [i \in 1..n |-> [sub(i) EXCEPT
                        !.attrs = IF Intact(id) THEN @ ELSE Garbled]]
<1>1. /\ subs' = Put(Without(subs, Surplus(old, n)), ById(ids, new))
      /\ masters' = [masters EXCEPT ![id].subs = ids]
      /\ nextBlockId' = nextBlockId + n - kept
  BY Zenon DEF RepartitionBlock, Intact
<1>2. /\ masters[id] \in MasterBlock /\ id \in Nat
      /\ times \in BlockTimes /\ old \in Seq(Nat)
  BY DEF BlockInv, MasterBlock
<1>3. parts \in Seq(SUBSET Attributes) /\ n \in Nat
  BY DEF Slice
<1>4. nextBlockId \in Nat /\ o \in Nat /\ DOMAIN old = 1..o
      /\ \A i \in 1..o : old[i] \in Nat /\ old[i] < nextBlockId
                         /\ old[i] \in DOMAIN subs
  <2>1. nextBlockId \in Nat /\ o \in Nat /\ DOMAIN old = 1..o
    BY <1>2 DEF BlockInv
  <2>2. ASSUME NEW i \in 1..o
        PROVE  old[i] \in Nat /\ old[i] < nextBlockId /\ old[i] \in DOMAIN subs
    <3>1. old[i] \in DOMAIN subs
      BY <2>1, <2>2, OneOwner
    <3> QED
      BY <3>1 DEF BlockInv, OwnedInv
  <2> QED
    BY <2>1, <2>2
<1>5. \A i, j \in 1..o : old[i] = old[j] => i = j
  BY <1>4, OneOwner
<1>6. ASSUME NEW i \in 1..n
      PROVE  /\ new[i] = [times |-> times, part |-> i,
                          attrs |-> IF Intact(id) THEN parts[i] ELSE Garbled]
             /\ new[i] \in SubBlock
  <2>0. i \in 1..Len(parts) /\ parts[i] \in SUBSET Attributes
    BY <1>3
  <2>1. sub(i) = [times |-> times, part |-> i, attrs |-> parts[i]]
    BY <2>0 DEF SubBlocks
  <2>2. new[i] = [sub(i) EXCEPT
                        !.attrs = IF Intact(id) THEN parts[i] ELSE Garbled]
    BY <2>1
  <2> DEFINE v == IF Intact(id) THEN parts[i] ELSE Garbled
             r == new[i]
  <2> HIDE DEF parts, times
  <2>3. r = [times |-> times, part |-> i, attrs |-> v]
    BY <2>1, <2>2
  <2>4. i \in Nat \ {0} /\ v \in (SUBSET Attributes) \cup {Garbled}
    BY <1>3, <2>0
  <2> HIDE DEF r, v
  <2>5. r \in SubBlock
    BY <1>2, <2>3, <2>4 DEF SubBlock
  <2> QED
    BY <2>3, <2>5 DEF r, v
<1>7. DOMAIN new = 1..n
  OBVIOUS
<1> HIDE DEF new
<1>8. /\ DOMAIN ids = 1..n
      /\ \A i \in 1..n : ids[i] = IF i <= o THEN old[i]
                                            ELSE nextBlockId + i - o - 1
  OBVIOUS
<1> HIDE DEF ids
<1> HIDE DEF old, times, parts
<1> HIDE DEF n, o
<1>9. kept \in Nat /\ kept <= n /\ kept <= o /\ (kept = o \/ kept = n)
  BY <1>3, <1>4
<1>10. nextBlockId' \in Nat /\ nextBlockId' >= nextBlockId
  BY <1>1, <1>3, <1>4, <1>9
<1>11. \A i \in 1..n : i <= o => i \in 1..o
  BY <1>3, <1>4
<1>12. \A i \in 1..n : /\ ids[i] \in Nat /\ ids[i] < nextBlockId'
                       /\ i <= o => ids[i] = old[i] /\ old[i] < nextBlockId
                       /\ i > o => /\ ids[i] = nextBlockId + i - o - 1
                                   /\ ids[i] >= nextBlockId
  BY <1>1, <1>3, <1>4, <1>8, <1>11
<1>13. \A i, j \in 1..n : ids[i] = ids[j] => i = j
  <2> SUFFICES ASSUME NEW i \in 1..n, NEW j \in 1..n, ids[i] = ids[j]
               PROVE  i = j
    OBVIOUS
  <2>1. CASE i <= o /\ j <= o
    BY <1>5, <1>11, <1>12, <2>1
  <2>2. CASE i > o /\ j > o
    <3>1. nextBlockId + i - o - 1 = nextBlockId + j - o - 1
      BY <1>12, <2>2
    <3> QED
      BY <1>3, <1>4, <3>1
  <2>3. CASE (i <= o /\ j > o) \/ (i > o /\ j <= o)
    BY <1>4, <1>11, <1>12, <2>3
  <2> QED
    BY <1>3, <1>4, <2>1, <2>2, <2>3
<1>14. ids \in Seq(Nat) /\ Len(ids) = n
  <2>1. ids = [i \in 1..n |-> ids[i]]
    BY <1>8 DEF ids
  <2>2. \A i \in 1..n : ids[i] \in Nat
    BY <1>12
  <2>3. ids \in [1..n -> Nat]
    BY <2>1, <2>2, Zenon
  <2> QED
    BY <1>3, <2>3
<1>15. Range(old) = {old[i] : i \in 1..o}
       /\ Surplus(old, n) = {old[i] : i \in n + 1 .. o}
  BY <1>4 DEF Range, Surplus, o
<1>16. /\ DOMAIN masters' = DOMAIN masters
       /\ masters'[id] = [masters[id] EXCEPT !.subs = ids]
       /\ \A a \in DOMAIN masters : a # id => masters'[a] = masters[a]
  BY <1>1
<1>17. masters'[id] \in MasterBlock /\ masters'[id].subs = ids
       /\ masters'[id].times = times
       /\ masters'[id].lists = masters[id].lists
  BY <1>2, <1>14, <1>16 DEF MasterBlock, times
<1> DEFINE w == Without(subs, Surplus(old, n))
<1>18. /\ DOMAIN w = DOMAIN subs \ Surplus(old, n)
       /\ \A x \in DOMAIN w : w[x] = subs[x]
  BY DEF Without, Restrict
<1> HIDE DEF w
<1>19. IsPut(subs', w, ids, new)
  <2>1. IsPut(Put(w, ById(ids, new)), w, ids, new)
    BY <1>8, <1>13, PutById
  <2> QED
    BY <1>1, <2>1 DEF w
<1>20. ASSUME NEW x
       PROVE  x \in DOMAIN subs' <=>
                 \/ x \in DOMAIN subs /\ x \notin Range(old)
                 \/ \E i \in DOMAIN ids : ids[i] = x
  <2>1. x \in DOMAIN subs' <=> \/ x \in DOMAIN w
                               \/ \E i \in DOMAIN ids : ids[i] = x
    BY <1>19 DEF IsPut
  <2>2. ASSUME x \in Range(old), x \notin Surplus(old, n)
        PROVE  \E i \in DOMAIN ids : ids[i] = x
    <3>1. PICK i \in 1..o : old[i] = x
      BY <1>15, <2>2
    <3>2. i \in 1..n
      <4>1. i \notin n + 1 .. o
        BY <1>15, <2>2, <3>1
      <4> QED
        BY <1>3, <1>4, <4>1
    <3>3. ids[i] = x
      BY <1>4, <1>12, <3>1, <3>2
    <3> QED
      BY <1>8, <3>2, <3>3
  <2>3. Surplus(old, n) \subseteq Range(old)
    <3>1. \A i \in n + 1 .. o : i \in 1..o
      BY <1>3, <1>4
    <3> QED
      BY <1>15, <3>1
  <2> QED
    BY <1>18, <2>1, <2>2, <2>3
<1>21. ASSUME NEW x \in DOMAIN subs, x \notin Range(old)
       PROVE  subs'[x] = subs[x]
  <2>1. x \in Nat /\ x < nextBlockId
    BY DEF BlockInv, OwnedInv
  <2>2. ASSUME NEW i \in DOMAIN ids PROVE ids[i] # x
    <3>1. CASE i <= o
      BY <1>8, <1>11, <1>12, <1>15, <1>21, <3>1
    <3>2. CASE i > o
      BY <1>4, <1>8, <1>12, <2>1, <3>2
    <3> QED
      BY <1>3, <1>4, <1>8, <3>1, <3>2
  <2>3. x \in DOMAIN w
    <3>1. \A i \in n + 1 .. o : i \in 1..o
      BY <1>3, <1>4
    <3> QED
      BY <1>15, <1>18, <1>21, <3>1
  <2> QED
    BY <1>18, <1>19, <2>2, <2>3 DEF IsPut
<1>22. \A i \in DOMAIN ids : subs'[ids[i]] = new[i] /\ new[i] \in SubBlock
  BY <1>6, <1>8, <1>19 DEF IsPut
<1>23. \A i \in DOMAIN ids : /\ ids[i] \in Nat /\ ids[i] < nextBlockId'
                             /\ ids[i] \in Range(old) \/ ids[i] >= nextBlockId
  <2> TAKE i \in DOMAIN ids
  <2>1. i \in 1..n /\ (i <= o \/ i > o)
    BY <1>3, <1>4, <1>8
  <2> QED
    BY <1>11, <1>12, <1>15, <2>1
<1>24. Stores(id, old, ids, new)
  <2>1. DOMAIN ids = 1..Len(ids) /\ DOMAIN new = DOMAIN ids
    BY <1>7, <1>8, <1>14
  <2>2. DOMAIN masters' = DOMAIN masters \cup {id}
    BY <1>16
  <2>3. \A i, j \in DOMAIN ids : ids[i] = ids[j] => i = j
    BY <1>8, <1>13
  <2> QED
    BY <1>10, <1>16, <1>17, <1>20, <1>21, <1>22, <1>23, <2>1, <2>2, <2>3
    DEF Stores, old
<1>25. Intact(id) => \A i \in 1..n : new[i] = [times |-> times, part |-> i,
                                               attrs |-> parts[i]]
  BY <1>6
<1>26. Rewritten(id, parts, ids, new)
  BY <1>14, <1>17, <1>24, <1>25 DEF Rewritten, old, times, n
<1> QED
  BY <1>26 DEF parts

-----------------------------------------------------------------------------
(* Steps: the index and the blocks stay well-formed *)

\* What the loop of updateBlocks works with are entries and master blocks.
LoopInv ==
    /\ visited \subseteq Entries
    /\ found \in Seq(DOMAIN masters)
    /\ seen \subseteq DOMAIN masters

\* The inductive invariant that needs no condition on the times.
BaseInv == IndexInv /\ BlockInv /\ LoopInv /\ ranges \in Seq(Slice)

\* Master blocks keep their lists.
KeepsLists == \A id \in DOMAIN masters :
                 id \in DOMAIN masters' /\ masters'[id].lists = masters[id].lists

\* The index keeps its entries, and their lists.
LEMMA EntriesKept ==
    ASSUME KeepsLists, NEW e \in Entries
    PROVE  e \in Entries' /\ ListOf(e)' = ListOf(e) /\ e[1] \in DOMAIN masters
<1>1. PICK id \in DOMAIN masters :
         e \in {<<id, i>> : i \in DOMAIN masters[id].lists}
  BY DEF Entries
<1>2. PICK i \in DOMAIN masters[id].lists : e = <<id, i>>
  BY <1>1
<1>3. id \in DOMAIN masters' /\ masters'[id].lists = masters[id].lists
  BY DEF KeepsLists
<1>4. e \in {<<id, j>> : j \in DOMAIN masters'[id].lists}
  BY <1>2, <1>3
<1>5. e[1] = id /\ e[2] = i
  BY <1>2
<1>6. e \in Entries'
  BY <1>3, <1>4 DEF Entries
<1>7. ListOf(e)' = ListOf(e)
  BY <1>3, <1>5 DEF ListOf
<1> QED
  BY <1>5, <1>6, <1>7

\* The loop goes on with what it has.
LEMMA LoopKept ==
    ASSUME LoopInv, KeepsLists
    PROVE  /\ visited \subseteq Entries'
           /\ found \in Seq(DOMAIN masters')
           /\ seen \subseteq DOMAIN masters'
<1>1. DOMAIN masters \subseteq DOMAIN masters'
  BY DEF KeepsLists
<1>2. found \in Seq(DOMAIN masters) /\ seen \subseteq DOMAIN masters
  BY DEF LoopInv
<1>3. found \in Seq(DOMAIN masters')
  BY <1>1, <1>2
<1> QED
  BY <1>1, <1>2, <1>3, EntriesKept DEF LoopInv

\* Where the loop is left alone it has the same entries and blocks to go.
LEMMA SameLoop ==
    ASSUME LoopInv, KeepsLists, UNCHANGED loopVars
    PROVE  LoopInv'
<1>1. visited' = visited /\ found' = found /\ seen' = seen
  BY DEF loopVars
<1>2. /\ visited \subseteq Entries'
      /\ found \in Seq(DOMAIN masters')
      /\ seen \subseteq DOMAIN masters'
  BY LoopKept
<1> QED
  BY <1>1, <1>2 DEF LoopInv

\* Where no block is written the lists are kept.
LEMMA SameLists ==
    ASSUME UNCHANGED blockVars
    PROVE  KeepsLists
BY DEF blockVars, KeepsLists

\* The time by which a block is assigned to a slice.
Middle(id) == PartitioningTimestamp(masters[id].times)

\* A new block is stored as master block m, under ids.
Added(times, m, ids) ==
    /\ answer' \in Slice /\ answer' \notin {NotFound, Corrupt}
    /\ Stores(m, <<>>, ids, SubBlocks(times, answer'.parts))
    /\ masters'[m].times = times
    /\ m \notin DOMAIN masters
    /\ Len(ids) = Len(answer'.parts)

\* HistoricalGraph::addBlock of a block with these times.
Adds(times) ==
    \E lists \in BlockLists : times = AllTimes(lists) /\ AddBlock(lists)

\* HistoricalGraph::addBlock leaves the slices alone, and stores the block
\* unless the lookup failed.
LEMMA AddBlockIs ==
    ASSUME BaseInv, NEW times \in BlockTimes, Adds(times)
    PROVE  /\ IndexInv' /\ UNCHANGED <<slices, removed, jobVars>>
           /\ Idle /\ Lookup(PartitioningTimestamp(times))
           /\ \/ UNCHANGED blockVars
              \/ \E m, ids : Added(times, m, ids)
<1> DEFINE t == PartitioningTimestamp(times)
<1>0. PICK lists \in BlockLists : times = AllTimes(lists) /\ AddBlock(lists)
  BY DEF Adds
<1>1. t \in Instants /\ IndexInv /\ BlockInv
  BY MiddleIs DEF BaseInv
<1>2. Idle /\ Lookup(t) /\ UNCHANGED jobVars
  BY <1>0 DEF AddBlock
<1>3. IndexInv' /\ UNCHANGED <<slices, removed>>
  <2> HIDE DEF t
  <2> QED
    BY <1>1, <1>2, LookupStep
<1>4. CASE answer' \in {NotFound, Corrupt}
  BY <1>0, <1>2, <1>3, <1>4 DEF AddBlock
<1>5. CASE answer' \notin {NotFound, Corrupt}
  <2> DEFINE parts == answer'.parts
             n == Len(parts)
             ids == [i \in 1..n |-> nextBlockId + i - 1]
  <2>1. answer' \in Slice
    BY <1>3, <1>5 DEF IndexInv
  <2>2. parts \in Seq(SUBSET Attributes)
    BY <2>1 DEF Slice
  <2>3. /\ subs' = Put(subs, ById(ids, SubBlocks(times, parts)))
        /\ masters' = Put(masters, [id \in {nextBlockId + n} |->
                         [lists |-> lists, times |-> times, subs |-> ids]])
        /\ nextBlockId' = nextBlockId + n + 1
    BY <1>0, <1>5, Zenon DEF AddBlock
  <2>4. Len(ids) = n
    BY <2>2
  <2>5. n = Len(parts) /\ ids = [i \in 1..n |-> nextBlockId + i - 1]
    OBVIOUS
  <2> HIDE DEF ids, n
  <2>6. StoresNew(nextBlockId + n, times, parts, ids)
    <3> HIDE DEF parts
    <3> QED
      BY <1>0, <1>1, <2>2, <2>3, <2>5, AddedStores, Zenon
  <2>7. Added(times, nextBlockId + n, ids)
    BY <1>5, <2>1, <2>4, <2>5, <2>6 DEF Added, StoresNew
  <2> QED
    BY <1>2, <1>3, <2>7
<1> QED
  BY <1>4, <1>5

\* Where no block is written the blocks stay well-formed.
LEMMA SameBlockInv ==
    ASSUME BlockInv, UNCHANGED blockVars
    PROVE  BlockInv'
<1>1. masters' = masters /\ subs' = subs /\ nextBlockId' = nextBlockId
  BY DEF blockVars
<1>2. /\ \A a, b \in DOMAIN masters' :
            \A i \in DOMAIN masters'[a].subs, j \in DOMAIN masters'[b].subs :
               masters'[a].subs[i] = masters'[b].subs[j] => a = b /\ i = j
      /\ \A a \in DOMAIN masters' : \A i \in DOMAIN masters'[a].subs :
            masters'[a].subs[i] \in DOMAIN subs'
  <2>1. \A a, b \in DOMAIN masters :
           \A i \in DOMAIN masters[a].subs, j \in DOMAIN masters[b].subs :
              masters[a].subs[i] = masters[b].subs[j] => a = b /\ i = j
    BY DEF BlockInv, OwnedInv
  <2>2. \A a \in DOMAIN masters : \A i \in DOMAIN masters[a].subs :
           masters[a].subs[i] \in DOMAIN subs
    BY DEF BlockInv, OwnedInv
  <2> QED
    BY <1>1, <2>1, <2>2
<1>3. /\ \A x \in DOMAIN subs' :
            \E a \in DOMAIN masters' : \E i \in DOMAIN masters'[a].subs :
               masters'[a].subs[i] = x
      /\ \A x \in DOMAIN subs' : x \notin DOMAIN masters'
      /\ \A x \in DOMAIN subs' \cup DOMAIN masters' : x < nextBlockId'
  BY <1>1, Zenon DEF BlockInv, OwnedInv
<1>4. OwnedInv'
  BY <1>2, <1>3, Zenon DEF OwnedInv
<1> QED
  BY <1>1, <1>4, Zenon DEF BlockInv

\* Where the index is left alone it stays well-formed.
LEMMA SameIndexInv ==
    ASSUME IndexInv, UNCHANGED partitionVars
    PROVE  IndexInv'
<1>1. /\ slices' = slices /\ cache' = cache /\ lruList' = lruList
      /\ removed' = removed /\ answer' = answer
  BY DEF partitionVars
<1>2. Tiles(slices')
  BY <1>1, Zenon DEF IndexInv
<1> QED
  BY <1>1, <1>2, Zenon DEF IndexInv

\* HistoricalGraph::addBlock keeps the invariant.
LEMMA AddBlockKeeps ==
    ASSUME BaseInv, NEW times \in BlockTimes, Adds(times)
    PROVE  BaseInv'
<1>1. IndexInv' /\ UNCHANGED jobVars
  BY AddBlockIs
<1>2. ranges' \in Seq(Slice) /\ UNCHANGED loopVars
  BY <1>1 DEF BaseInv, jobVars
<1>3. CASE UNCHANGED blockVars
  BY <1>1, <1>2, <1>3, SameBlockInv, SameLists, SameLoop DEF BaseInv
<1>4. CASE \E m, ids : Added(times, m, ids)
  <2>1. PICK m, ids : Added(times, m, ids)
    BY <1>4
  <2>2. PICK new : Stores(m, <<>>, ids, new)
    BY <2>1, Zenon DEF Added
  <2>3. BlockInv'
    BY <2>2, StoresKeeps DEF BaseInv
  <2>4. KeepsLists
    BY <2>1, <2>2 DEF Added, Stores, KeepsLists
  <2> QED
    BY <1>1, <1>2, <2>3, <2>4, SameLoop DEF BaseInv
<1> QED
  BY <1>3, <1>4, AddBlockIs

\* A block is read.
Reads(id) == LookupForDeserialization(Middle(id)) \/ UNCHANGED partitionVars

\* Reading a block leaves the slices alone.
LEMMA ReadsIs ==
    ASSUME BaseInv, NEW id \in DOMAIN masters, Reads(id)
    PROVE  IndexInv' /\ UNCHANGED <<slices, removed>>
<1>1. masters[id].times \in BlockTimes /\ IndexInv
  BY DEF BaseInv, BlockInv, MasterBlock
<1>2. Middle(id) \in Instants
  BY <1>1, MiddleIs DEF Middle
<1>3. CASE LookupForDeserialization(Middle(id))
  BY <1>1, <1>2, <1>3, DeserializationStep
<1>4. CASE UNCHANGED partitionVars
  BY <1>1, <1>4, SameIndexInv DEF partitionVars
<1> QED
  BY <1>3, <1>4 DEF Reads

\* findNext reads the block of an entry at most.
LEMMA FindNextIs ==
    ASSUME BaseInv, NEW e \in Entries, FindNext(e)
    PROVE  /\ ranges # <<>> /\ answer # Corrupt
           /\ e[1] \in DOMAIN masters /\ Reads(e[1])
           /\ IndexInv' /\ UNCHANGED <<slices, removed, blockVars>>
           /\ UNCHANGED <<ranges, seen, replacements>>
           /\ visited' = visited \cup {e}
           /\ found' = IF Matches(e, ranges[1]) THEN Append(found, e[1])
                                               ELSE found
<1>1. e[1] \in DOMAIN masters
  <2>1. PICK id \in DOMAIN masters :
           e \in {<<id, i>> : i \in DOMAIN masters[id].lists}
    BY DEF Entries
  <2>2. PICK i \in DOMAIN masters[id].lists : e = <<id, i>>
    BY <2>1
  <2> QED
    BY <2>2
<1>2. Reads(e[1])
  BY DEF FindNext, ReadBlock, Reads, Middle
<1>3. IndexInv' /\ UNCHANGED <<slices, removed>>
  BY <1>1, <1>2, ReadsIs
<1>4. /\ ranges # <<>> /\ answer # Corrupt
      /\ UNCHANGED <<ranges, seen, replacements, blockVars>>
      /\ visited' = visited \cup {e}
      /\ found' = IF Matches(e, ranges[1]) THEN Append(found, e[1]) ELSE found
  BY DEF FindNext
<1> QED
  BY <1>1, <1>2, <1>3, <1>4, Zenon

\* A move of the iterator keeps the invariant.
LEMMA FindNextKeeps ==
    ASSUME BaseInv, NEW e \in Entries, FindNext(e)
    PROVE  BaseInv'
<1>1. /\ IndexInv' /\ UNCHANGED <<ranges, seen, blockVars>>
      /\ e[1] \in DOMAIN masters /\ visited' = visited \cup {e}
      /\ found' \in {found, Append(found, e[1])}
  BY FindNextIs
<1>2. BlockInv' /\ KeepsLists
  BY <1>1, SameBlockInv, SameLists DEF BaseInv
<1>3. /\ visited \subseteq Entries' /\ seen \subseteq DOMAIN masters'
      /\ found \in Seq(DOMAIN masters')
  BY <1>2, LoopKept DEF BaseInv
<1>4. e \in Entries' /\ e[1] \in DOMAIN masters'
  BY <1>1, <1>2, EntriesKept DEF KeepsLists
<1>5. visited' \subseteq Entries' /\ seen' \subseteq DOMAIN masters'
  BY <1>1, <1>3, <1>4
<1>6. found' \in Seq(DOMAIN masters')
  BY <1>1, <1>3, <1>4
<1> QED
  BY <1>1, <1>2, <1>5, <1>6 DEF BaseInv, LoopInv

\* One round of updateBlocks: a block is rewritten, or only read.
Updates(id) ==
    /\ id \notin seen /\ Contains(ranges[1], Middle(id))
    /\ Lookup(Middle(id))
    /\ answer' \in Slice /\ answer' \notin {NotFound, Corrupt}
    /\ \E ids, new : Rewritten(id, answer'.parts, ids, new)

\* A block that was seen, or that the range does not concern, is read at most.
Skips(id) ==
    /\ id \in seen \/ ~Contains(ranges[1], Middle(id))
    /\ Reads(id)
    /\ UNCHANGED blockVars

\* The lookup of the new slice fails.
Fails(id) ==
    /\ id \notin seen /\ Contains(ranges[1], Middle(id))
    /\ Lookup(Middle(id))
    /\ answer' \in {NotFound, Corrupt}
    /\ UNCHANGED blockVars

\* One turn of updateBlocks rewrites the block, or reads it at most.
LEMMA UpdateBlockIs ==
    ASSUME BaseInv, NEW id \in DOMAIN masters, UpdateBlock(id)
    PROVE  /\ ranges # <<>> /\ answer # Corrupt
           /\ found # <<>> /\ id = Head(found) /\ found' = Tail(found)
           /\ seen' = seen \cup {id}
           /\ UNCHANGED <<ranges, visited, replacements>>
           /\ IndexInv' /\ UNCHANGED <<slices, removed>>
           /\ Updates(id) \/ Skips(id) \/ Fails(id)
<1>1. masters[id].times \in BlockTimes /\ IndexInv /\ BlockInv
  BY Zenon DEF BaseInv, BlockInv, MasterBlock
<1>2. Middle(id) \in Instants
  BY <1>1, MiddleIs DEF Middle
<1>3. /\ ranges # <<>> /\ answer # Corrupt
      /\ found # <<>> /\ id = Head(found) /\ found' = Tail(found)
      /\ seen' = seen \cup {id} /\ UNCHANGED <<ranges, visited, replacements>>
  BY DEF UpdateBlock, Rest
<1>4. CASE id \notin seen /\ Contains(ranges[1], Middle(id))
  <2>1. /\ Lookup(Middle(id))
        /\ IF answer' \in {NotFound, Corrupt} THEN UNCHANGED blockVars
                                              ELSE RepartitionBlock(id)
    BY <1>4 DEF UpdateBlock, Middle
  <2>2. IndexInv' /\ UNCHANGED <<slices, removed>>
    BY <1>1, <1>2, <2>1, LookupStep
  <2>3. CASE answer' \in {NotFound, Corrupt}
    BY <1>3, <1>4, <2>1, <2>2, <2>3 DEF Fails
  <2>4. CASE answer' \notin {NotFound, Corrupt}
    <3>1. answer' \in Slice
      BY <2>2, <2>4 DEF IndexInv
    <3>2. \E ids, new : Rewritten(id, answer'.parts, ids, new)
      BY <1>1, <2>1, <2>4, <3>1, RepartitionRewrites
    <3> QED
      BY <1>3, <1>4, <2>1, <2>2, <2>4, <3>1, <3>2 DEF Updates
  <2> QED
    BY <2>3, <2>4
<1>5. CASE id \in seen \/ ~Contains(ranges[1], Middle(id))
  <2>1. Reads(id) /\ UNCHANGED blockVars
    BY <1>5 DEF UpdateBlock, Middle, Reads, ReadBlock
  <2>2. IndexInv' /\ UNCHANGED <<slices, removed>>
    BY <2>1, ReadsIs
  <2> QED
    BY <1>3, <1>5, <2>1, <2>2 DEF Skips
<1> QED
  BY <1>4, <1>5

\* One turn of updateBlocks keeps the invariant, and the lists.
LEMMA UpdateBlockKeeps ==
    ASSUME BaseInv, NEW id \in DOMAIN masters, UpdateBlock(id)
    PROVE  BaseInv' /\ KeepsLists
<1>1. /\ IndexInv' /\ UNCHANGED <<ranges, visited>>
      /\ found # <<>> /\ found' = Tail(found) /\ seen' = seen \cup {id}
      /\ Updates(id) \/ Skips(id) \/ Fails(id)
  BY UpdateBlockIs
<1>2. ranges' \in Seq(Slice)
  BY <1>1 DEF BaseInv
<1>3. BlockInv' /\ KeepsLists
  <2>1. CASE Updates(id)
    <3>1. PICK ids, new : Rewritten(id, answer'.parts, ids, new)
      BY <2>1, Zenon DEF Updates
    <3>2. BlockInv'
      BY <3>1, StoresKeeps DEF BaseInv, Rewritten
    <3>3. KeepsLists
      BY <3>1 DEF Rewritten, Stores, KeepsLists
    <3> QED
      BY <3>2, <3>3
  <2>2. CASE Skips(id) \/ Fails(id)
    BY <2>2, SameBlockInv, SameLists DEF BaseInv, Skips, Fails
  <2> QED
    BY <1>1, <2>1, <2>2
<1>4. /\ visited \subseteq Entries' /\ seen \subseteq DOMAIN masters'
      /\ found \in Seq(DOMAIN masters')
  BY <1>3, LoopKept DEF BaseInv
<1>5. id \in DOMAIN masters'
  BY <1>3 DEF KeepsLists
<1>6. found' \in Seq(DOMAIN masters')
  <2> DEFINE D == DOMAIN masters'
  <2>1. found \in Seq(D) /\ found # <<>> /\ found' = Tail(found)
    BY <1>1, <1>4
  <2> HIDE DEF D
  <2>2. found' \in Seq(D)
    BY <2>1
  <2> QED
    BY <2>2 DEF D
<1>7. LoopInv'
  BY <1>1, <1>4, <1>5, <1>6 DEF LoopInv
<1> QED
  BY <1>1, <1>2, <1>3, <1>7 DEF BaseInv

\* The start of a replacement.
LEMMA StartKeeps ==
    ASSUME BaseInv, StartsReplacing
    PROVE  BaseInv'
<1>1. PICK old, new, list : \E lo \in Nat, hi \in 0..Infinity :
         Replacing(old, new, list, lo, hi) /\ Starts(old, new, list)
  BY DEF StartsReplacing
<1>2. PICK lo \in Nat, hi \in 0..Infinity :
         Replacing(old, new, list, lo, hi) /\ Starts(old, new, list)
  BY <1>1
<1>3. IndexInv'
  BY <1>2, ReplaceStep DEF BaseInv, Starts
<1>4. ranges' \in Seq(Slice)
  BY <1>2 DEF Replacing, Starts
<1>5. BlockInv' /\ LoopInv'
  <2>1. UNCHANGED blockVars /\ UNCHANGED loopVars
    BY <1>2 DEF Starts
  <2> QED
    BY <2>1, SameBlockInv, SameLists, SameLoop DEF BaseInv
<1> QED
  BY <1>3, <1>4, <1>5 DEF BaseInv

\* What a step of the program is.
LEMMA StepIs ==
    ASSUME IndexInv, Next
    PROVE  \/ \E times \in BlockTimes : Adds(times)
           \/ \E t \in LookupTimes : Get(t)
           \/ StartsReplacing
           \/ \E e \in Entries : FindNext(e)
           \/ \E id \in DOMAIN masters : UpdateBlock(id)
           \/ EndUpdateBlocks
           \/ CompletePartitioningRemovals
<1>0. Tiles(slices)
  BY DEF IndexInv
<1>1. ASSUME NEW lists \in BlockLists, AddBlock(lists)
      PROVE  \E times \in BlockTimes : Adds(times)
  <2>1. AllTimes(lists) \in BlockTimes
    BY DEF BlockTimes
  <2> QED
    BY <1>1, <2>1, Zenon DEF Adds
<1>2. ASSUME ClientReplaces PROVE StartsReplacing
  <2>1. Idle
    BY <1>2 DEF ClientReplaces
  <2>2. ASSUME NEW s \in Range(slices), NEW new \in ClientSlices,
               ReplaceTimeSlicedPartitioning(s, <<new>>)
        PROVE  StartsReplacing
    BY <1>0, <2>1, <2>2, OneByOne
  <2>3. ASSUME NEW s \in Range(slices), NEW first \in ClientSlices,
               NEW second \in ClientSlices,
               ReplaceTimeSlicedPartitioning(s, <<first, second>>)
        PROVE  StartsReplacing
    BY <1>0, <2>1, <2>3, OneByTwo
  <2>4. ASSUME NEW s \in Range(slices), NEW r \in Range(slices),
               NEW new \in ClientSlices,
               ReplaceTimeSlicedPartitionings(<<s, r>>, new)
        PROVE  StartsReplacing
    BY <1>0, <2>1, <2>4, TwoByOne
  <2> QED
    BY <1>2, <2>2, <2>3, <2>4, Zenon DEF ClientReplaces
<1> QED
  BY <1>1, <1>2, Zenon DEF Next, Step

\* A new database has one slice and no block.
LEMMA BaseInit ==
    ASSUME Init
    PROVE  BaseInv
<1>1. Infinity \in Nat \ {0} /\ Attributes \in SUBSET Attributes
  BY PartitionIndexAssumption
<1> DEFINE s == [start |-> 0, end |-> Infinity, parts |-> <<Attributes>>]
<1>2. s \in Slice /\ s.start = 0 /\ s.end = Infinity
  <2>1. <<Attributes>> \in Seq(SUBSET Attributes)
    BY <1>1
  <2> QED
    BY <1>1, <2>1 DEF Slice
<1>3. slices = [k \in {Infinity} |-> s]
  BY DEF Init, PartitionInit
<1> HIDE DEF s
<1>4. DOMAIN slices = {Infinity} /\ slices[Infinity] = s
  BY <1>3
<1>5. Tiles(slices)
  BY <1>1, <1>2, <1>4 DEF Tiles, Contains, Instants
<1>6. IndexInv
  BY <1>5 DEF Init, PartitionInit, IndexInv
<1>7. BlockInv /\ LoopInv
  BY DEF Init, BlockInv, OwnedInv, LoopInv
<1> QED
  BY <1>6, <1>7 DEF Init, BaseInv

\* Every step keeps the index and the blocks well-formed.
LEMMA BaseStep ==
    ASSUME BaseInv, [Next]_vars
    PROVE  BaseInv'
<1>0. IndexInv
  BY DEF BaseInv
<1>1. ASSUME NEW times \in BlockTimes, Adds(times) PROVE BaseInv'
  BY <1>1, AddBlockKeeps
<1>2. ASSUME NEW t \in LookupTimes, Get(t) PROVE BaseInv'
  <2>1. t \in Instants /\ Lookup(t) /\ UNCHANGED <<blockVars, jobVars>>
    BY <1>2, RepartitionAssumption DEF Instants, Get
  <2>2. IndexInv'
    BY <1>0, <2>1, LookupStep
  <2>3. ranges' = ranges /\ UNCHANGED loopVars
    BY <2>1 DEF jobVars
  <2> QED
    BY <2>1, <2>2, <2>3, SameBlockInv, SameLists, SameLoop DEF BaseInv
<1>3. ASSUME StartsReplacing PROVE BaseInv'
  BY <1>3, StartKeeps
<1>4. ASSUME NEW id \in DOMAIN masters, UpdateBlock(id) PROVE BaseInv'
  BY <1>4, UpdateBlockKeeps
<1>8. ASSUME NEW e \in Entries, FindNext(e) PROVE BaseInv'
  BY <1>8, FindNextKeeps
<1>5. ASSUME EndUpdateBlocks PROVE BaseInv'
  <2>1. ranges' \in Seq(Slice)
    BY <1>5 DEF EndUpdateBlocks, BaseInv
  <2>2. UNCHANGED <<partitionVars, blockVars, found>>
        /\ visited' = {} /\ seen' = {}
    BY <1>5 DEF EndUpdateBlocks
  <2>3. found \in Seq(DOMAIN masters')
    BY <2>2, SameLists, LoopKept DEF BaseInv
  <2>4. LoopInv'
    BY <2>2, <2>3 DEF LoopInv
  <2> QED
    BY <2>1, <2>2, <2>4, SameIndexInv, SameBlockInv DEF BaseInv
<1>6. ASSUME CompletePartitioningRemovals PROVE BaseInv'
  <2>1. UNCHANGED blockVars /\ ranges' = ranges /\ UNCHANGED loopVars
    BY <1>6 DEF CompletePartitioningRemovals, jobVars
  <2>2. /\ slices' = slices /\ cache' = cache /\ lruList' = lruList
        /\ removed' = {} /\ answer' = answer
    BY <1>6 DEF CompletePartitioningRemovals
  <2>3. IndexInv'
    BY <1>0, <2>2 DEF IndexInv
  <2> QED
    BY <2>1, <2>3, SameBlockInv, SameLists, SameLoop DEF BaseInv
<1>7. ASSUME UNCHANGED vars PROVE BaseInv'
  <2>1. UNCHANGED partitionVars /\ UNCHANGED blockVars /\ ranges' = ranges
        /\ UNCHANGED loopVars
    BY <1>7 DEF vars, jobVars
  <2> QED
    BY <2>1, SameIndexInv, SameBlockInv, SameLists, SameLoop DEF BaseInv
<1> QED
  BY <1>0, <1>1, <1>2, <1>3, <1>4, <1>5, <1>6, <1>7, <1>8, StepIs

-----------------------------------------------------------------------------
(* Theorems about the index and the blocks *)

\* The types of the slices, the cache and the blocks.
LEMMA BaseTypes ==
    ASSUME BaseInv
    PROVE  TypeOK
<1>1. \A k \in DOMAIN slices : slices[k] \in Slice
  BY DEF BaseInv, IndexInv, Tiles
<1>2. \A k \in DOMAIN cache : cache[k] \in Slice
  BY DEF BaseInv, IndexInv
<1>3. \A i \in DOMAIN lruList : lruList[i].time \in 0..Infinity
  <2>1. lruList \in Seq(Nodes)
    BY DEF BaseInv, IndexInv
  <2>2. \A i \in DOMAIN lruList : lruList[i] \in Nodes
    BY <2>1
  <2> QED
    BY <2>2 DEF Nodes
<1>4. removed \subseteq Slice /\ answer \in Slice \cup {NotFound, Corrupt}
  BY DEF BaseInv, IndexInv
<1>5. \A id \in DOMAIN masters : masters[id].lists \in BlockLists
  BY DEF BaseInv, BlockInv, MasterBlock
<1>6. \A id \in DOMAIN subs : subs[id].part \in Nat \ {0}
  BY DEF BaseInv, BlockInv, SubBlock
<1>7. nextBlockId \in Nat
  BY DEF BaseInv, BlockInv
<1>8. LoopInv
  BY DEF BaseInv
<1> QED
  BY <1>1, <1>2, <1>3, <1>4, <1>5, <1>6, <1>7, <1>8 DEF TypeOK, LoopInv

\* Tiles, with the slices that contain a time counted.
LEMMA BaseTiles ==
    ASSUME BaseInv
    PROVE  SlicesTile
<1>1. Tiles(slices)
  BY DEF BaseInv, IndexInv
<1>2. \A k \in DOMAIN slices : slices[k].end = k
  BY <1>1 DEF Tiles
<1>3. ASSUME NEW t \in 0 .. Infinity - 1
      PROVE  Cardinality({k \in DOMAIN slices : Contains(slices[k], t)}) = 1
  <2> DEFINE K == {k \in DOMAIN slices : Contains(slices[k], t)}
  <2>1. PICK k \in DOMAIN slices : Contains(slices[k], t)
    BY <1>1 DEF Tiles, Instants
  <2>2. K = {k}
    BY <1>1, <2>1 DEF Tiles, Instants
  <2>3. Cardinality({k}) = 1
    BY FS_Singleton
  <2> QED
    BY <2>2, <2>3
<1> QED
  BY <1>2, <1>3 DEF SlicesTile

\* OwnedInv, with the places of sub-blocks as pairs.
LEMMA BaseOwned ==
    ASSUME BaseInv
    PROVE  SubBlocksOwned
<1> DEFINE places == UNION {{<<id, i>> : i \in DOMAIN masters[id].subs} :
                              id \in DOMAIN masters}
<1>1. ASSUME NEW p \in places
      PROVE  /\ p[1] \in DOMAIN masters /\ p[2] \in DOMAIN masters[p[1]].subs
             /\ p = <<p[1], p[2]>>
  <2>1. PICK id \in DOMAIN masters : p \in {<<id, i>> : i \in DOMAIN masters[id].subs}
    BY <1>1
  <2>2. PICK i \in DOMAIN masters[id].subs : p = <<id, i>>
    BY <2>1
  <2> QED
    BY <2>2
<1>2. \A a \in DOMAIN masters : \A i \in DOMAIN masters[a].subs :
         <<a, i>> \in places /\ <<a, i>>[1] = a /\ <<a, i>>[2] = i
  OBVIOUS
<1> HIDE DEF places
<1>3. OwnedInv
  BY DEF BaseInv, BlockInv
<1>4. ASSUME NEW p \in places, NEW q \in places,
             masters[p[1]].subs[p[2]] = masters[q[1]].subs[q[2]]
      PROVE  p = q
  <2>1. p[1] = q[1] /\ p[2] = q[2]
    BY <1>1, <1>3, <1>4 DEF OwnedInv
  <2> QED
    BY <1>1, <2>1
<1>5. DOMAIN subs = {masters[p[1]].subs[p[2]] : p \in places}
  <2>1. ASSUME NEW x \in DOMAIN subs
        PROVE  \E p \in places : x = masters[p[1]].subs[p[2]]
    <3>1. PICK a \in DOMAIN masters : \E i \in DOMAIN masters[a].subs :
             masters[a].subs[i] = x
      BY <1>3 DEF OwnedInv
    <3>2. PICK i \in DOMAIN masters[a].subs : masters[a].subs[i] = x
      BY <3>1
    <3>3. <<a, i>> \in places /\ <<a, i>>[1] = a /\ <<a, i>>[2] = i
      BY <1>2, <3>1, <3>2
    <3>4. x = masters[<<a, i>>[1]].subs[<<a, i>>[2]]
      BY <3>2, <3>3
    <3> QED
      BY <3>3, <3>4, Zenon
  <2>2. \A p \in places : masters[p[1]].subs[p[2]] \in DOMAIN subs
    BY <1>1, <1>3 DEF OwnedInv
  <2> QED
    BY <2>1, <2>2
<1>6. DOMAIN subs \cap DOMAIN masters = {}
      /\ \A id \in DOMAIN subs \cup DOMAIN masters : id < nextBlockId
  BY <1>3 DEF OwnedInv
<1> QED
  BY <1>4, <1>5, <1>6 DEF SubBlocksOwned, places

\* The index and the blocks are well-formed at all times.
LEMMA BaseHolds == Spec => []BaseInv
<1>1. Init => BaseInv
  BY BaseInit
<1>2. BaseInv /\ [Next]_vars => BaseInv'
  BY BaseStep
<1> QED
  BY <1>1, <1>2, PTL DEF Spec

\* Slices are slices in the database, in the cache and among those being
\* removed, and the sub-blocks that partitionBlock makes have positions.
THEOREM TypeCorrect == Spec => []TypeOK
<1>1. BaseInv => TypeOK
  BY BaseTypes
<1> QED
  BY <1>1, BaseHolds, PTL

\* However slices are split and merged by the replace functions, every time is
\* in exactly one slice of the database, which is under its end time.  Clients
\* replace slices that are in the database, by slices that are not empty
\* (ClientReplaces); the functions check neither.
THEOREM SlicesAlwaysTile == Spec => []SlicesTile
<1>1. BaseInv => SlicesTile
  BY BaseTiles
<1> QED
  BY <1>1, BaseHolds, PTL

\* addBlock and replaceBlocks neither leak nor share sub-blocks, and use no
\* id twice.
THEOREM SubBlocksAreOwned == Spec => []SubBlocksOwned
<1>1. BaseInv => SubBlocksOwned
  BY BaseOwned
<1> QED
  BY <1>1, BaseHolds, PTL

-----------------------------------------------------------------------------
(* The cache, when no time is looked up at which a slice may end *)

\* No slice can end at a time that is looked up, by a client or for a block.
\* Without it a lookup may cache a slice under the end time of the slice
\* before it (run partition_boundary).
InnerLookups ==
    \A t \in LookupTimes \cup {PartitioningTimestamp(ts) : ts \in BlockTimes} :
       t \notin CutTimes \ {0}

\* The inductive invariant for the cache.
MatchInv == CacheMatchesDb /\ DOMAIN slices \subseteq CutTimes

\* Clients and updateBlocks look up instants; no slice ends there.
LEMMA InnerTimes ==
    ASSUME IndexInv, DOMAIN slices \subseteq CutTimes, InnerLookups,
           NEW t \in LookupTimes
                       \cup {PartitioningTimestamp(ts) : ts \in BlockTimes}
    PROVE  t \in Instants /\ t \notin DOMAIN slices
<1>1. t \in Instants
  <2>1. CASE t \in LookupTimes
    BY <2>1, RepartitionAssumption DEF Instants
  <2>2. CASE \E ts \in BlockTimes : t = PartitioningTimestamp(ts)
    BY <2>2, MiddleIs
  <2> QED
    BY <2>1, <2>2
<1>2. t \notin CutTimes \ {0}
  BY DEF InnerLookups
<1>3. \A k \in DOMAIN slices : k \in 1..Infinity
  <2>1. \A k \in DOMAIN slices : slices[k] \in Slice /\ slices[k].end = k
    BY DEF IndexInv, Tiles
  <2> QED
    BY <2>1 DEF Slice
<1>4. 0 \notin DOMAIN slices
  BY <1>3, PartitionIndexAssumption
<1> QED
  BY <1>1, <1>2, <1>4

\* updateBlocks looks up the middle of a block: no slice ends there.
LEMMA MiddleInner ==
    ASSUME BaseInv, DOMAIN slices \subseteq CutTimes, InnerLookups,
           NEW id \in DOMAIN masters
    PROVE  Middle(id) \in Instants /\ Middle(id) \notin DOMAIN slices
<1>1. masters[id].times \in BlockTimes /\ IndexInv
  BY DEF BaseInv, BlockInv, MasterBlock
<1>2. Middle(id) \in {PartitioningTimestamp(ts) : ts \in BlockTimes}
  BY <1>1 DEF Middle
<1> QED
  BY <1>1, <1>2, InnerTimes, Zenon

\* Every step leaves the cache matching the database.
LEMMA MatchStep ==
    ASSUME InnerLookups, BaseInv, MatchInv, [Next]_vars
    PROVE  MatchInv'
<1>0. IndexInv /\ CacheMatchesDb /\ DOMAIN slices \subseteq CutTimes
  BY DEF BaseInv, MatchInv
<1>1. ASSUME NEW times \in BlockTimes, Adds(times) PROVE MatchInv'
  <2> DEFINE t == PartitioningTimestamp(times)
  <2>1. t \in Instants /\ t \notin DOMAIN slices
    BY <1>0, InnerTimes
  <2>2. Lookup(t) /\ UNCHANGED slices
    BY <1>1, AddBlockIs
  <2> HIDE DEF t
  <2>3. CacheMatchesDb'
    BY <1>0, <2>1, <2>2, LookupIsExact
  <2> QED
    BY <1>0, <2>2, <2>3 DEF MatchInv
<1>2. ASSUME NEW t \in LookupTimes, Get(t) PROVE MatchInv'
  <2>1. t \in Instants /\ t \notin DOMAIN slices
    BY <1>0, InnerTimes
  <2>2. Lookup(t) /\ UNCHANGED slices
    BY <1>2 DEF Get, Lookup
  <2>3. CacheMatchesDb'
    BY <1>0, <2>1, <2>2, LookupIsExact
  <2> QED
    BY <1>0, <2>2, <2>3 DEF MatchInv
<1>3. ASSUME StartsReplacing PROVE MatchInv'
  <2>1. PICK old, new, list : \E lo \in Nat, hi \in 0..Infinity :
           Replacing(old, new, list, lo, hi) /\ Starts(old, new, list)
    BY <1>3 DEF StartsReplacing
  <2> QED
    BY <1>0, <2>1, ReplaceStep DEF Starts, MatchInv
<1>4. ASSUME NEW id \in DOMAIN masters, UNCHANGED slices,
             Lookup(Middle(id)) \/ Reads(id)
      PROVE  MatchInv'
  <2> DEFINE t == Middle(id)
  <2>1. t \in Instants /\ t \notin DOMAIN slices
    BY <1>0, MiddleInner
  <2>2. \/ Lookup(t)
        \/ LookupForDeserialization(t)
        \/ UNCHANGED partitionVars
    BY <1>4 DEF Reads
  <2> HIDE DEF t
  <2>3. CacheMatchesDb'
    <3>1. CASE Lookup(t)
      BY <1>0, <2>1, <3>1, LookupIsExact
    <3>2. CASE LookupForDeserialization(t)
      BY <1>0, <2>1, <3>2, DeserializationMatches
    <3>3. CASE UNCHANGED partitionVars
      BY <1>0, <3>3 DEF partitionVars, CacheMatchesDb
    <3> QED
      BY <2>2, <3>1, <3>2, <3>3
  <2> QED
    BY <1>0, <1>4, <2>3 DEF MatchInv
<1>6. ASSUME NEW id \in DOMAIN masters, UpdateBlock(id) PROVE MatchInv'
  <2>1. UNCHANGED slices /\ (Updates(id) \/ Skips(id) \/ Fails(id))
    BY <1>6, UpdateBlockIs
  <2>2. Lookup(Middle(id)) \/ Reads(id)
    BY <2>1 DEF Updates, Skips, Fails
  <2> QED
    BY <1>4, <2>1, <2>2
<1>7. ASSUME NEW e \in Entries, FindNext(e) PROVE MatchInv'
  <2>1. e[1] \in DOMAIN masters /\ UNCHANGED slices /\ Reads(e[1])
    BY <1>7, FindNextIs
  <2> QED
    BY <1>4, <2>1
<1>5. ASSUME EndUpdateBlocks \/ CompletePartitioningRemovals
             \/ UNCHANGED vars
      PROVE  MatchInv'
  <2>1. UNCHANGED <<slices, cache>>
    BY <1>5 DEF EndUpdateBlocks, CompletePartitioningRemovals, vars,
                partitionVars
  <2> QED
    BY <1>0, <2>1 DEF MatchInv, CacheMatchesDb
<1> QED
  BY <1>0, <1>1, <1>2, <1>3, <1>5, <1>6, <1>7, StepIs

\* The cache of a new database is empty.
LEMMA MatchInit ==
    ASSUME Init
    PROVE  MatchInv
<1>1. DOMAIN slices = {Infinity} /\ DOMAIN cache = {}
  BY DEF Init, PartitionInit
<1> QED
  BY <1>1, RepartitionAssumption DEF MatchInv, CacheMatchesDb

\* The cache matches the database at all times.
LEMMA MatchHolds ==
    ASSUME InnerLookups
    PROVE  Spec => []MatchInv
<1>1. Init => MatchInv
  BY MatchInit
<1>2. BaseInv /\ MatchInv /\ [Next]_vars => MatchInv'
  BY MatchStep
<1> QED
  BY <1>1, <1>2, BaseHolds, PTL DEF Spec

\* initiatePartitioningRemoval leaves no slice in the cache that is not in
\* the database, and getTimeSlicedPartitioning caches none that differs, if
\* no slice ends at a time that is looked up.
THEOREM CacheMatchesDatabase ==
    ASSUME InnerLookups
    PROVE  Spec => []CacheMatchesDb
<1>1. MatchInv => CacheMatchesDb
  BY DEF MatchInv
<1> QED
  BY <1>1, MatchHolds, PTL
=============================================================================
