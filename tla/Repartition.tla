---------------------------- MODULE Repartition ----------------------------
(***************************************************************************)
(* Blocks and the partitionings they are stored by.  HistoricalGraph::     *)
(* addBlock stores a block as a master block (structure only) and one      *)
(* sub-block per attribute set of the partitioning in force at the middle  *)
(* of the block's time range.  A sub-block does not say which attributes   *)
(* it holds: Block::deserialize takes them from the partitioning that the  *)
(* index returns for the same time, at the position the sub-block records. *)
(* Replacing slices therefore rewrites blocks, one at a time.              *)
(*                                                                         *)
(* getBlock answers what was last written under an id (theorem             *)
(* ManagerImplementsStore), so the block cache is left out; a read may or  *)
(* may not come to the database, where decoding takes a lookup.            *)
(***************************************************************************)
EXTENDS PartitionIndex

CONSTANTS BlockLists,      \* the blocks that may be added: for every neighbor
                           \* list of a block, the times of its edges
          LookupTimes,     \* times that clients look up
          Partitionings,   \* partitionings that clients ask for
          CutTimes,        \* times at which clients start or end slices
          Garbled,         \* the attributes of a sub-block written from
                           \* data that was decoded wrongly
          MaxBlocks,       \* bound of the model: blocks added
          MaxReplacements  \* bound of the model: replacements

\* The times of all edges of a block
AllTimes(lists) == UNION Range(lists)

BlockTimes == {AllTimes(lists) : lists \in BlockLists}

ASSUME RepartitionAssumption ==
    /\ BlockLists \subseteq Seq((SUBSET (1 .. Infinity - 1)) \ {{}}) \ {<<>>}
    /\ LookupTimes \subseteq 0 .. Infinity - 1
    /\ Partitionings \subseteq Seq(SUBSET Attributes)
    /\ {0, Infinity} \subseteq CutTimes /\ CutTimes \subseteq 0..Infinity
    /\ \A set \in SUBSET Attributes : Garbled # set
    /\ MaxBlocks \in Nat /\ MaxReplacements \in Nat

VARIABLES masters,        \* from id to master block; these are indexed
          subs,           \* from id to sub-block
          nextBlockId,    \* BlockManager::nextBlockId_
          ranges,         \* what updateBlocks has still to be called for
          visited,        \* index entries its iterator has gone through
          found,          \* blocks of the entries that matched, until the
                          \* loop body has dealt with them
          seen,           \* seenIds of the current updateBlocks
          replacements    \* number of replacements started

blockVars == <<masters, subs, nextBlockId>>
loopVars == <<visited, found, seen>>
jobVars == <<ranges, loopVars, replacements>>
vars == <<partitionVars, blockVars, jobVars>>

Init ==
    /\ PartitionInit
    /\ masters = <<>>
    /\ subs = <<>>
    /\ nextBlockId = 0
    /\ ranges = <<>>
    /\ visited = {}
    /\ found = <<>>
    /\ seen = {}
    /\ replacements = 0

\* No call is running, and no undefined behaviour has happened.
Idle == removed = {} /\ answer # Corrupt

\* Block::getPartitioningTimestamp
PartitioningTimestamp(times) == (Min(times) + Max(times)) \div 2

\* Faulty: positions are counted from the master block.
SubBlocksShifted(times, parts) ==
    [i \in 1..Len(parts) |->
        [times |-> times, part |-> i - 1, attrs |-> parts[i]]]

\* Block::partitionBlock: one sub-block per attribute set
SubBlocks(times, parts) ==
    [i \in 1..Len(parts) |-> [times |-> times, part |-> i, attrs |-> parts[i]]]

\* The blocks of a list, under the ids of another
ById(ids, list) == [id \in Range(ids) |->
                       list[CHOOSE i \in DOMAIN ids : ids[i] = id]]

\* HistoricalGraph::addBlock: sub-blocks first, then the master block
AddBlock(lists) ==
    /\ Idle
    /\ Cardinality(DOMAIN masters) < MaxBlocks
    /\ Lookup(PartitioningTimestamp(AllTimes(lists)))
    /\ IF answer' \in {NotFound, Corrupt} THEN UNCHANGED blockVars
       ELSE LET times == AllTimes(lists)
                parts == answer'.parts
                n     == Len(parts)
                ids   == [i \in 1..n |-> nextBlockId + i - 1]
            IN  /\ subs' = Put(subs, ById(ids, SubBlocks(times, parts)))
                /\ masters' = Put(masters, [id \in {nextBlockId + n} |->
                      [lists |-> lists, times |-> times, subs |-> ids]])
                /\ nextBlockId' = nextBlockId + n + 1
    /\ UNCHANGED jobVars

\* A client looks a partitioning up.
Get(t) ==
    /\ Idle
    /\ Lookup(t)
    /\ UNCHANGED <<blockVars, jobVars>>

AttributeCount(parts) == Cardinality(UNION Range(parts))

Contiguous(list) ==
    \A i \in 1 .. Len(list) - 1 : list[i + 1].start = list[i].end

\* Faulty: the replacement may start anywhere.
ReplaceableFromAnywhere(old, new) ==
    /\ old # <<>> /\ new # <<>>
    /\ old[Len(old)].end = new[Len(new)].end
    /\ Contiguous(old) /\ Contiguous(new)
    /\ \A i \in DOMAIN new :
          AttributeCount(new[i].parts) = Cardinality(Attributes)

\* What both replace functions check before they start, of the slices to be
\* replaced and of their replacement
Replaceable(old, new) ==
    /\ old # <<>> /\ new # <<>>
    /\ old[1].start = new[1].start
    /\ old[Len(old)].end = new[Len(new)].end
    /\ Contiguous(old) /\ Contiguous(new)
    /\ \A i \in DOMAIN new :
          AttributeCount(new[i].parts) = Cardinality(Attributes)

StartReplacement(old, new, updated) ==
    /\ Replaceable(old, new)
    /\ ReplaceSlices(Range(old), Range(new))
    /\ ranges' = updated
    /\ replacements' = replacements + 1
    /\ UNCHANGED <<blockVars, loopVars>>

\* replaceTimeSlicedPartitioning: blocks are updated per new slice
ReplaceTimeSlicedPartitioning(slice, new) ==
    StartReplacement(<<slice>>, new, new)

\* replaceTimeSlicedPartitionings: blocks are updated per old slice
ReplaceTimeSlicedPartitionings(old, slice) ==
    StartReplacement(old, <<slice>>, old)

\* IntervalQueryIndex::indexBlock: one entry per neighbor list of a block,
\* with the times of its oldest and of its newest edge.  Rewriting a block
\* changes no entry.
Entries == UNION {{<<id, i>> : i \in DOMAIN masters[id].lists} :
                     id \in DOMAIN masters}

ListOf(e) == masters[e[1]].lists[e[2]]

\* The entries in the range: their lists surround or overlap it, whether or
\* not they have an edge in it.  findNext passes over all others.
Reached(range) ==
    {e \in Entries : Min(ListOf(e)) < range.end /\ Max(ListOf(e)) >= range.start}

\* Faulty: only lists inside the range.
MatchesInside(e, range) == \A t \in ListOf(e) : Contains(range, t)

\* findNext stops at the entry: its list has an edge in the range.
Matches(e, range) == \E t \in ListOf(e) : Contains(range, t)

\* findNext can tell without the block, unless the range is inside the list.
IsInside(range, e) ==
    Min(ListOf(e)) < range.start /\ range.end <= Max(ListOf(e))

\* What the index iterator has still to go through, in some order
Unvisited(range) == Reached(range) \ visited

\* Faulty: the partitionings being removed are not consulted.
DecodingSliceNew(t) == slices[Min(KeysFrom(slices, t + 1))]

\* The slice that Block::deserialize decodes by
DecodingSlice(t) ==
    IF \E s \in removed : Contains(s, t)
    THEN CHOOSE s \in removed : Contains(s, t)
    ELSE slices[Min(KeysFrom(slices, t + 1))]

\* Reading the sub-block back yields the attributes it was written with.
Decodes(sub) ==
    LET parts == DecodingSlice(PartitioningTimestamp(sub.times)).parts
    IN  sub.part \in DOMAIN parts /\ parts[sub.part] = sub.attrs

\* Faulty: the last surplus sub-block is forgotten.
SurplusButOne(old, n) == {old[i] : i \in n + 2 .. Len(old)}

\* The sub-blocks replaceBlocks removes when n are needed
Surplus(old, n) == {old[i] : i \in n + 1 .. Len(old)}

\* Block::recombineBlock and partitionBlock, then replaceBlocks: the first
\* sub-blocks are overwritten, missing ones added, surplus ones removed.
RepartitionBlock(id) ==
    LET old   == masters[id].subs
        times == masters[id].times
        intact == \A i \in DOMAIN old : Decodes(subs[old[i]])
        parts == answer'.parts
        kept  == IF Len(old) < Len(parts) THEN Len(old) ELSE Len(parts)
        ids   == [i \in 1..Len(parts) |->
                     IF i <= Len(old) THEN old[i]
                                      ELSE nextBlockId + i - Len(old) - 1]
        new   == [i \in 1..Len(parts) |->
                     [SubBlocks(times, parts)[i] EXCEPT
                        !.attrs = IF intact THEN @ ELSE Garbled]]
    IN  /\ subs' = Put(Without(subs, Surplus(old, Len(parts))), ById(ids, new))
        /\ masters' = [masters EXCEPT ![id].subs = ids]
        /\ nextBlockId' = nextBlockId + Len(parts) - kept

\* A block is read from the database, which takes a lookup of the slice it
\* is decoded by, or from the block cache.
ReadBlock(id) ==
    \/ LookupForDeserialization(PartitioningTimestamp(masters[id].times))
    \/ UNCHANGED partitionVars

\* findNext comes to an entry.  The loop of updateBlocks moves the iterator on
\* before it deals with a block, so that the iterator is a block ahead.
FindNext(e) ==
    /\ ranges # <<>>
    /\ answer # Corrupt
    /\ Len(found) < 2
    /\ e \in Unvisited(ranges[1])
    /\ visited' = visited \cup {e}
    /\ found' = IF Matches(e, ranges[1]) THEN Append(found, e[1]) ELSE found
    /\ IF IsInside(ranges[1], e) THEN ReadBlock(e[1]) ELSE UNCHANGED partitionVars
    /\ UNCHANGED <<blockVars, ranges, seen, replacements>>

\* Faulty: the iterator is not moved past a block that was seen already.
StuckAtSeen == IF Head(found) \in seen THEN found ELSE Tail(found)

\* What the loop has still to deal with after this turn
Rest == Tail(found)

\* updateBlocks, the loop body: a block that was not seen is rewritten if its
\* middle is in the range, and only read otherwise.
UpdateBlock(id) ==
    /\ ranges # <<>>
    /\ answer # Corrupt
    /\ found # <<>> /\ id = Head(found)
    /\ Len(found) = 2 \/ Unvisited(ranges[1]) = {}
    /\ found' = Rest
    /\ seen' = seen \cup {id}
    /\ LET t == PartitioningTimestamp(masters[id].times)
       IN  \/ /\ id \in seen
              /\ UNCHANGED <<partitionVars, blockVars>>
           \/ /\ id \notin seen /\ Contains(ranges[1], t)
              /\ Lookup(t)
              /\ IF answer' \in {NotFound, Corrupt} THEN UNCHANGED blockVars
                 ELSE RepartitionBlock(id)
           \/ /\ id \notin seen /\ ~Contains(ranges[1], t)
              /\ ReadBlock(id)
              /\ UNCHANGED blockVars
    /\ UNCHANGED <<ranges, visited, replacements>>

\* The iterator of updateBlocks is exhausted.
EndUpdateBlocks ==
    /\ ranges # <<>>
    /\ answer # Corrupt
    /\ found = <<>> /\ Unvisited(ranges[1]) = {}
    /\ ranges' = Tail(ranges)
    /\ visited' = {}
    /\ seen' = {}
    /\ UNCHANGED <<partitionVars, blockVars, found, replacements>>

CompletePartitioningRemovals ==
    /\ ranges = <<>>
    /\ answer # Corrupt
    /\ removed # {}
    /\ removed' = {}
    /\ UNCHANGED <<slices, cache, lruList, answer, blockVars, jobVars>>

\* The slices clients make are not empty, and they replace slices that a
\* lookup gave them.  The replace functions check neither.
ClientSlices ==
    {s \in [start : CutTimes, end : CutTimes, parts : Partitionings] :
        s.start < s.end}

ClientReplaces ==
    /\ Idle
    /\ replacements < MaxReplacements
    /\ \/ \E s \in Range(slices), new \in ClientSlices :
             ReplaceTimeSlicedPartitioning(s, <<new>>)
       \/ \E s \in Range(slices), first, second \in ClientSlices :
             ReplaceTimeSlicedPartitioning(s, <<first, second>>)
       \/ \E s, r \in Range(slices), new \in ClientSlices :
             ReplaceTimeSlicedPartitionings(<<s, r>>, new)

\* A replacement that has started runs to its end.
Step ==
    \/ \E e \in Entries : FindNext(e)
    \/ \E id \in DOMAIN masters : UpdateBlock(id)
    \/ EndUpdateBlocks
    \/ CompletePartitioningRemovals

Next ==
    \/ \E lists \in BlockLists : AddBlock(lists)
    \/ \E t \in LookupTimes : Get(t)
    \/ ClientReplaces
    \/ Step

Spec == Init /\ [][Next]_vars
-----------------------------------------------------------------------------
(* Properties *)

\* Slices are slices, and positions of sub-blocks start at 1 (in the code,
\* at 0: -1 marks the master block).
TypeOK ==
    /\ \A k \in DOMAIN slices : slices[k] \in Slice
    /\ \A k \in DOMAIN cache : cache[k] \in Slice
    /\ \A i \in DOMAIN lruList : lruList[i].time \in 0..Infinity
    /\ removed \subseteq Slice
    /\ answer \in Slice \cup {NotFound, Corrupt}
    /\ \A id \in DOMAIN masters : masters[id].lists \in BlockLists
    /\ \A id \in DOMAIN subs : subs[id].part \in Nat \ {0}
    /\ nextBlockId \in Nat
    /\ visited \subseteq Entries
    /\ found \in Seq(DOMAIN masters)
    /\ seen \subseteq DOMAIN masters

\* Replacing slices leaves no hole and no overlap: every time is in exactly
\* one slice of the database, under its end time.  It rests on what clients
\* pass to the replace functions (ClientReplaces).
SlicesTile ==
    /\ \A k \in DOMAIN slices : slices[k].end = k
    /\ \A t \in 0 .. Infinity - 1 :
          Cardinality({k \in DOMAIN slices : Contains(slices[k], t)}) = 1

\* The cache holds only slices of the database: initiatePartitioningRemoval
\* leaves no slice behind that later lookups would still return.
CacheMatchesDb ==
    \A k \in DOMAIN cache : k \in DOMAIN slices /\ cache[k] = slices[k]

\* "endTime exclusive": a lookup returns the slice of the database that the
\* time is in, if it returns: it may come upon an iterator that dangles.
LookupFindsSlice ==
    [][\A t \in LookupTimes :
          Get(t) /\ answer' # Corrupt
             => answer' \in Range(slices) /\ Contains(answer', t)]_vars

\* The list by which getTimeSlicedPartitioning decides what to evict is never
\* longer than the configuration says: a hit moves one node to the front, and
\* nodes that have lost their slice still count.
ListBounded == Len(lruList) <= PartitioningBufferSize

\* "in partitionings": getTimeSlicedPartitioning keeps no more of them in
\* memory than the configuration says.
CacheBounded == Cardinality(DOMAIN cache) <= PartitioningBufferSize

\* Between calls every block can be read: it has one sub-block for each
\* attribute set of the partitioning its middle falls into, in this order,
\* written with these attributes.  EdgeIterator::getEdgeData relies on it.
BlocksReadable ==
    Idle => \A id \in DOMAIN masters :
       LET times == masters[id].times
           parts == DecodingSlice(PartitioningTimestamp(times)).parts
           ids   == masters[id].subs
       IN  /\ Len(ids) = Len(parts)
           /\ \A i \in DOMAIN ids : subs[ids[i]] = SubBlocks(times, parts)[i]

\* recombineBlock decodes every sub-block by the partitioning it was written
\* with, also when the index already holds the new one.
NothingGarbled == \A id \in DOMAIN subs : subs[id].attrs # Garbled

\* replaceBlocks neither leaks nor shares sub-blocks: each one belongs to
\* exactly one master block, at one position, and no id is in use twice.
SubBlocksOwned ==
    LET places == UNION {{<<id, i>> : i \in DOMAIN masters[id].subs} :
                            id \in DOMAIN masters}
    IN  /\ \A p, q \in places :
              masters[p[1]].subs[p[2]] = masters[q[1]].subs[q[2]] => p = q
        /\ DOMAIN subs = {masters[p[1]].subs[p[2]] : p \in places}
        /\ DOMAIN subs \cap DOMAIN masters = {}
        /\ \A id \in DOMAIN subs \cup DOMAIN masters : id < nextBlockId

\* A replacement comes to its end, whatever the number of index entries that
\* lead updateBlocks to a block, unless it uses an iterator that dangles.
ReplacementEnds == removed # {} ~> removed = {} \/ answer = Corrupt
=============================================================================
