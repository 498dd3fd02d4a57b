--------------------------- MODULE PartitionIndex ---------------------------
(***************************************************************************)
(* PartitionIndex: which partitioning of the edge attributes is used for   *)
(* which time slice.  The slices are in a leveldb database keyed by their  *)
(* end time, behind an LRU cache keyed the same way.  This module has the  *)
(* state and the lookups; the replacement of slices, which rewrites        *)
(* blocks, is in the module Repartition.                                   *)
(*                                                                         *)
(* Times are 0..Infinity: 0 stands for minus and Infinity for plus         *)
(* infinity, the ends of the slice a new database starts with.             *)
(***************************************************************************)
EXTENDS SortedList, FiniteSetsExt

CONSTANTS Attributes,               \* of the edge schema
          Infinity,
          NotFound,                 \* a lookup threw: no slice has the time
          Corrupt,                  \* a list iterator or a reference whose
                                    \* node is gone was used
          PartitioningBufferSize    \* Conf::partitioningBufferSize

ASSUME PartitionIndexAssumption ==
    /\ IsFiniteSet(Attributes)
    /\ Infinity \in Nat \ {0}
    /\ PartitioningBufferSize \in Nat \ {0}

VARIABLES slices,     \* db_, "partition_data": from end time to slice
          cache,      \* cache_: from key to slice
          lruList,    \* lruList_ as nodes, most recently used first
          removed,    \* removedPartitionings_
          answer      \* what the last lookup returned

partitionVars == <<slices, cache, lruList, removed, answer>>

\* TimeSlicedPartitioning: start inclusive, end exclusive, and a sequence of
\* attribute sets
Slice == [start : 0 .. Infinity - 1, end : 1..Infinity,
          parts : Seq(SUBSET Attributes)]

\* What a lookup answers without a slice is not taken for one.
ASSUME AnswerAssumption ==
    NotFound \notin Slice /\ Corrupt \notin Slice /\ NotFound # Corrupt

Contains(slice, t) == slice.start <= t /\ t < slice.end

\* A node of the list holds a time; the cache entry whose iterator points at
\* it is its owner.  An entry that owns no node has a dangling iterator.
Node(t, key) == [time |-> t, owner |-> key]
NoOwner == -1

Position(list, key) == {i \in 1..Len(list) : list[i].owner = key}

\* The list without the nodes that these entries own
EraseNodes(list, keys) ==
    LET kept == Sorted({i \in 1..Len(list) : list[i].owner \notin keys})
    IN  [i \in DOMAIN kept |-> list[kept[i]]]

Disown(list, key) ==
    [i \in DOMAIN list |-> IF list[i].owner = key
                           THEN Node(list[i].time, NoOwner) ELSE list[i]]

Without(f, keys) == Restrict(f, DOMAIN f \ keys)

\* The entries of g, and those of f that g does not replace
Put(f, g) == [k \in DOMAIN f \cup DOMAIN g |->
                 IF k \in DOMAIN g THEN g[k] ELSE f[k]]

\* The first key at or after t, as lower_bound and Seek find it
KeysFrom(f, t) == {k \in DOMAIN f : k >= t}

PartitionInit ==
    /\ slices = [k \in {Infinity} |-> [start |-> 0, end |-> Infinity,
                                        parts |-> <<Attributes>>]]
    /\ cache = <<>>
    /\ lruList = <<>>
    /\ removed = {}
    /\ answer = NotFound

\* Faulty: the first key at or after t is taken without a look at its slice.
HitKeysUnchecked(t) ==
    {k \in KeysFrom(cache, t) : k = Min(KeysFrom(cache, t))}

\* The cache entry that answers a lookup: only the first key is tried.
HitKeys(t) ==
    {k \in KeysFrom(cache, t) : k = Min(KeysFrom(cache, t))
                                /\ Contains(cache[k], t)}

\* A hit puts the time that was asked for at the front, not the key.
Hit(key, t) ==
    /\ UNCHANGED cache
    /\ IF lruList # <<>> /\ lruList[1].owner = key
       THEN answer' = cache[key] /\ UNCHANGED lruList
       ELSE IF Position(lruList, key) = {}
       THEN answer' = Corrupt /\ UNCHANGED lruList
       ELSE /\ lruList' = <<Node(t, key)>> \o EraseNodes(lruList, {key})
            /\ answer' = cache[key]

\* The slice the database iterator ends at: Seek finds the first end time at
\* or after t, and one step further if that slice ends at t.
Sought(t) == LET first == Min(KeysFrom(slices, t))
             IN  IF first = t THEN KeysFrom(slices, t + 1) ELSE {first}

\* Faulty: one node too many is kept.
OverflowsLate(list) == Len(list) > PartitioningBufferSize + 1

\* The list, with a new node in front, is too long.
Overflows(list) == Len(list) > PartitioningBufferSize

\* The entry is emplaced under the key that Seek found; the partitions that
\* are read are appended to those an existing entry has.
Load(t) ==
    LET key    == Min(KeysFrom(slices, t))
        found  == slices[Min(Sought(t))]
        old    == IF key \in DOMAIN cache THEN cache[key].parts ELSE <<>>
        entry  == [found EXCEPT !.parts = old \o found.parts]
        loaded == Put(cache, [k \in {key} |-> entry])
        list   == <<Node(key, key)>> \o Disown(lruList, key)
        last   == list[Len(list)].time
        full   == Overflows(list)
        front  == SubSeq(list, 1, Len(list) - 1)
    IN  /\ cache' = IF full THEN Without(loaded, {last}) ELSE loaded
        /\ lruList' = IF full THEN Disown(front, last) ELSE list
        /\ answer' = IF key \in DOMAIN cache' THEN entry ELSE Corrupt

\* getTimeSlicedPartitioning
Lookup(t) ==
    /\ \/ \E key \in HitKeys(t) : Hit(key, t)
       \/ /\ HitKeys(t) = {}
          /\ KeysFrom(slices, t) # {}
          /\ Sought(t) # {}
          /\ Load(t)
       \/ /\ HitKeys(t) = {}
          /\ KeysFrom(slices, t) = {} \/ Sought(t) = {}
          /\ answer' = NotFound
          /\ UNCHANGED <<cache, lruList>>
    /\ UNCHANGED <<slices, removed>>

\* getTimeSlicedPartitioningForBlockDeserialization
LookupForDeserialization(t) ==
    IF \E s \in removed : Contains(s, t)
    THEN /\ answer' \in {s \in removed : Contains(s, t)}
         /\ UNCHANGED <<slices, cache, lruList, removed>>
    ELSE Lookup(t)

Ends(set) == {s.end : s \in set}

ByEnd(set) == [k \in Ends(set) |-> CHOOSE s \in set : s.end = k]

\* Faulty: removed slices stay in the cache.
ReplaceSlicesOnDisk(old, new) ==
    /\ slices' = Put(Without(slices, Ends(old)), ByEnd(new))
    /\ removed' = removed \cup old
    /\ UNCHANGED <<cache, lruList, answer>>

\* addPartitioning and initiatePartitioningRemoval, for the sets of slices
\* that a replacement adds and removes.  Removing a cached slice erases its
\* list node through the entry's iterator.
ReplaceSlices(old, new) ==
    LET cached == Ends(old) \cap DOMAIN cache
    IN  /\ slices' = Put(Without(slices, Ends(old)), ByEnd(new))
        /\ removed' = removed \cup old
        /\ cache' = Without(cache, Ends(old))
        /\ lruList' = EraseNodes(lruList, cached)
        /\ answer' = IF \E k \in cached : Position(lruList, k) = {}
                     THEN Corrupt ELSE answer
=============================================================================
