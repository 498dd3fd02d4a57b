# RailwayDB: a TLA+ development

RailwayDB stores an interaction graph: vertices, and edges with a timestamp and
attributes. It is a single-threaded C++ library. A call runs to its end before
the next one starts, so the difficulty is not concurrency. It lies in long
sequences of calls over several structures that must agree (lists, queue,
counters, caches, databases), in caches at their limits, in data that is decoded
by metadata that changes, and in processes that end between two writes.

## 1. The system

    createVertex --> VertexManager                 (leveldb + LRU cache)
    addEdge -----> InMemoryGraph (EdgeFIFO window)
                      | expired edges
                   ExpirationMap  (lists, PriorityQueue, block formation)
                      | blocks
                   HistoricalGraph::addBlock
                      | Block::partitionBlock <--> PartitionIndex (leveldb + LRU)
                   BlockManager (leveldb + LRU), ids from MetaDataManager (file)
                      | master blocks
                   IntervalQueryIndex (R-tree), FocusedIntervalQueryIndex (leveldb)
    queries -----> HistoricalGraph iterators -----> indexes, BlockManager
    replaceTimeSlicedPartitioning(s) -> PartitionIndex -> rewrites blocks
    flush -------> InMemoryGraph::flush, ExpirationMap::flush, MetaDataManager::store

| Part | State | Operations | Modules |
|---|---|---|---|
| InteractionGraph | `lastTime_` | createVertex, addEdge, flush, queries | InMemoryGraph |
| InMemoryGraph, EdgeFIFO | window lists, FIFO | addEdge, removeEdge, flush | InMemoryGraph |
| ExpirationMap, NeighborList, PriorityQueue | lists, score queue, `size_` | addEdge, getBlock, removeEdges, writeBlock, flush | ExpirationMap |
| smart layout, Candidate | candidate blocks and their counters | getBlockSmart, extendCandidate, setEdgeCount | SmartLayout, Candidate |
| Block | lists, size, sub-block ids, position | addEdge, removeNewestEdge, partition, recombine, (de)serialize | ExpirationMap, Repartition |
| BlockManager, MetaDataManager | database, cache, LRU list, id counter in memory and on disk | getBlock, addBlock, updateBlock, removeBlock, clear, store, load | BlockManager |
| VertexManager | database, cache, LRU list | addVertex, getVertexData | VertexManager |
| PartitionIndex | slices, cache, LRU list, slices being removed | lookups, replacements, updateBlocks, replaceBlocks | PartitionIndex, Repartition |
| HistoricalGraph | iterators of queries | addBlock, vertex and edge iterators, batch query | HistoricalGraph, EdgeData, Repartition |
| IntervalQueryIndex, RTreeIntervalIndex | intervals of lists, lock of the R-tree | indexBlock, query, queryBatch | HistoricalGraph, Repartition |
| FocusedIntervalQueryIndex | newest time of each list, to its block | indexBlock, iterator | HistoricalGraph |
| QueryCollector, QueryWorkload | counts per query | collectFocusedIntervalQuery, reset | Optimizer |
| Cost, Partitioning, heuristic solvers | partitions under construction | solve of four solvers, merge and split | Optimizer |
| Gurobi solvers, simulation, lang, byte encoding | | | no: see section 8 |

What the system has to get right:

1. an edge handed to addEdge ends up, once, in the history of both endpoints, in
   order, however it is buffered and cut into blocks;
2. flush ends and leaves nothing in memory;
3. caches are invisible: a read returns what was written last;
4. the caches and the expiration map stay within their configured sizes;
5. at every time exactly one partitioning is in force, lookups find it, and every
   block can be decoded by the one its middle falls into, before and after a
   replacement;
6. blocks are not overwritten, leaked or shared;
7. a query returns what is stored in its range, all of it and once, with all the
   attributes it asked for;
8. a solver ends with a partitioning that covers the schema and keeps to the
   storage threshold, since replacing a partitioning by one that does not cover
   the schema is refused.

`PROJECT.json` lists the places in the code where these are at risk (hazards).

## 2. Modules

**EdgeLog** is the abstract specification of ingestion: per vertex a log of
half-edges and a durable prefix of it. Steps accept an edge, refuse an edge, or
make longer prefixes durable.

**ExpirationMap** and **InMemoryGraph** are the ingest path. A call to addEdge or
flush is unfolded: `op` names the running call, `pc = "getBlock"` says that a
block is being formed, and every iteration of a loop is a step (Expire for the
window loops, TakeEdge for getBlock's loop, FlushBlock for flush's). FinishBlock
is the rest of writeBlock: giving back the edge that was too large, removeEdges,
and HistoricalGraph::addBlock. Lists are sequences, oldest first; an absent list
is the empty one. `stored` is what the historical graph received, per vertex.
Timestamps are ranks, because addEdge insists that they increase and ingestion
only compares them. Attributes are their sizes. `bytes` is `serializedSize_` of
the block under construction: AddedBytes is what Block::addEdge adds to it and
RemovedBytes what Block::removeNewestEdge takes off, which is less than the edge
added if its other vertex has no list in the block. All five scorers are
modelled; getBlock is used with Old, Max and Random. The queue of the Random
layout may have any of its items at the top, since keys are drawn anew.

**Candidate** and **SmartLayout** are the smart layout, which is the default, on
top of the same ingest path. A candidate is the number of oldest edges it takes
from each list, with the counters of the class: size, edges, edges that lead out,
present vertices, internal edges. setEdgeCount is modelled with all of them,
including the count of a head vertex that is set to 1 whatever it was. One call of
extendCandidate is a step. Its three searches (edges not newer than the candidate,
next edges of present vertices, vertices of the queue) are the sets of
alternatives the code tries; a try is a setEdgeCount there and back. Localities
are fractions; the code rounds them to doubles, so ties go either way. When all
candidates are finalized, FormSmartBlock takes one with the best locality, and
StoreSmartBlock is the rest of writeBlock.

**RecordStore** is the abstract specification of the two managers: a map from
ids to records. **LruList** has the list operations they share. **SortedList** is
a finite set of numbers as a list in increasing order, which the caches, indexes
and solvers use for what the code keeps in the order of a map.

**BlockManager** has the block database, its cache and LRU list, and the id
counter with its copy on disk. `Spec` lets a process end only after a flush that
follows its last addBlock; `CrashSpec` lets it end at any time. A list iterator
kept in a cache entry is the position of the id in the list; LruMatchesCache says
that there is exactly one.

**VertexManager** is the same for vertices, which are only added. Its process may
end at any time.

**PartitionIndex** has the slices, their cache and the lookups. Here the iterator
in a cache entry can dangle, so list nodes say which entry owns them, and
`Corrupt` is the outcome of using an iterator whose node is gone.

**Repartition** composes PartitionIndex with the blocks that are stored by it. A
master block is its neighbor lists, as sets of times, and its sub-block ids; a
sub-block is its position and the attributes it was written with. Decoding uses
the position in the partitioning that the index returns for the block's middle, as
Block::deserialize does. A replacement is several steps: the slices change first,
then updateBlocks is called for each range, then the removed slices are forgotten.
updateBlocks is a loop over an iterator of the interval index, which has one entry
per neighbor list. FindNext moves the iterator over an entry (`visited`), in any
order of the R-tree; it keeps the block of an entry that matches (`found`), and
reads the block where findNext does. The loop moves the iterator on before it
deals with a block, so the iterator is a block ahead. UpdateBlock is the loop
body: it skips a block of `seenIds` (`seen`) and rewrites one whose middle is in
the range. The loop ends when the iterator is exhausted (EndUpdateBlocks).
A block read is the one that was stored (ManagerImplementsStore); whether decoding
it takes a lookup depends on the block cache, so it may or may not.

The replace functions check that the old slices begin and end where the new ones
do, that each side is contiguous, and that the new partitionings have all
attributes. They check neither that the old slices are in the database nor that
new slices are not empty. The model's clients see to both (ClientReplaces,
ClientSlices): they replace slices that a lookup gave them, by slices with a start
before the end, as the callers do, which look a slice up and replace it at once
(RepartitionTest.cpp:107-120 and the simulation programs).

Times are whole numbers up to a largest one, with 0 for minus infinity. The middle
of a block is rounded down, which puts it into the same slice as the exact middle,
since slices start and end at whole numbers.

**HistoricalGraph** has the two indexes and the iterators of queries. A block is a
list of times per vertex. A new block's lists are newer than the stored ones of
the same vertex, which IngestImplementsEdgeLog establishes for ingestion by one
process; the lists of different vertices may overlap in any way. `fiqIndex` maps
(vertex, newest time) to a block, and an edge iterator walks over a snapshot of
it, as a leveldb iterator does. The R-tree yields intervals in any order. A vertex
iterator is a coroutine that is suspended inside the R-tree's query and holds the
tree's mutex until the query is over (`IndexLocked`), so blocks are added while an
edge iterator is open, but not while a vertex iterator is valid.

**EdgeData** composes Repartition with an edge iterator: which partitions it works
out when it enters a block (recomputePartitionIndices, with every order of the
hash table), how long it keeps them, and which sub-blocks it reads. A block may
come from the block cache or from the database, in which case decoding it looks a
slice up.

**Optimizer** has the workload, the cost model and the solvers. A solver is a call
with one step per iteration of its loop, and its locals are variables. Costs are
exact, multiplied by the number of queries; where the code's result depends on
rounding or on a hash table, all outcomes are possible. Storage thresholds are in
percent.

Definitions whose comment starts with "Faulty" are variants of the definition
that follows them. No specification uses them; they show, one each, that a
property is sensitive to the mistake they contain.

## 3. Runs

| Run | Configuration | Result |
|---|---|---|
| ingest_old | 3 vertices, 2 sizes, window 1, map 1, 5 edges, Old | all hold |
| ingest_smart | 3 vertices, sizes 4 and 56, no window, map 2, 4 edges, 2 candidates | all hold |
| block_manager | 4 ids, 2 contents, buffer 2 | all hold |
| block_manager_crash | the same, processes end at any time | AppendOnly fails |
| vertex_manager | 4 vertices, 2 contents, buffer 3 | all hold |
| repartition | 2 attributes, cuts at 4 and 8, 2 blocks, 2 replacements, an edge iterator, cache 2 | all hold |
| queries | 2 vertices, 4 times, 2 blocks, all ranges | all hold |
| optimizer | 3 attributes, 5 queries, workloads of 3, thresholds 0 and 60 | all hold |
| partition_boundary | lookups at the end of a slice | LookupFindsSlice fails |
| partition_cache | 3 slices, lookups in each, cache 2 | CacheBounded fails |
| repartition_sparse | a block without an edge near its middle | BlocksReadable fails |
| optimizer_cost | as optimizer | UsedPartitionsCover fails |

**Ingest.** SizeExact, QueueMatchesLists and OldestEdgeAgrees are the facts that
the asserts and loops of the code rely on. BlockSizeExact recomputes the size of
the block under construction, before and after an edge is given back, and bounds
the block handed over. Afterwards `serializedSize_` may be too large, by the
attribute bytes of an edge whose other vertex has no list in the block
(Block.cpp:118-125), and by nothing else; the run reaches this case, and the code
does not read the size again. Block::serialize also writes sub-block ids, times and a position that `serializedSize_` does not
count; the property is about the lists. ImplementsEdgeLog is requirement 1,
FlushPersists requirement 2. Bounds: with sizes 4 and 20 and blocks of 104 bytes,
a block holds one to three half-edges, so edges are given back, vertices leave
the queue and return to it, the halves of an edge go to different blocks, and a
flush takes several blocks. Five edges are enough for a second block to start
from lists that a first one has cut. The proofs of section 6 cover the other
layouts.

**Smart layout.** CandidateExact recomputes a candidate's counters from the block
it stands for, after all the tries that were taken back. SmartBlockFits and
ExtensionGrows are why flush ends. FinalizedListsFull says what "cannot be
extended anymore" is worth: the lists a candidate takes from have no next edge
that fits. It says nothing about vertices that an edge of the candidate leads to,
because presentVertices_ may lose one of those (Candidate.cpp:67). A block of 88
bytes holds two or three small half-edges, or a single large one that is too large
by itself, which this layout stores in a block of its own. ImplementsEdgeLog and
FlushPersists are the same definitions as for the other layouts.

**Managers.** ImplementsRecordStore is requirement 3. With more ids than places in
the buffer every combination of hit, miss, eviction and removal occurs.

**Repartitioning.** SlicesTile, CacheMatchesDb, LookupFindsSlice, BlocksReadable,
NothingGarbled and SubBlocksOwned are requirements 5 and 6; ReplacementEnds says
that a replacement ends. The passing run looks up times strictly inside slices
and uses blocks with an edge in their middle. Those are the conditions under
which the code keeps these promises; partition_boundary and repartition_sparse
drop one each. Two replacements make up to three slices. The cache of two then
evicts and has hits away from its front, after which entries can outlive their
list node (CacheBounded, section 4). ListBounded says what the size does bound,
and CacheMatchesDb that the entries left behind are still slices of the database.
A lookup that uses an iterator whose node is gone has no answer (`Corrupt`);
LookupFindsSlice and ReplacementEnds except it, and nothing is said of what
follows. Of the two blocks one reaches over all slices and has two neighbor lists,
of which one has no edge in the middle slice: updateBlocks comes to the block once
or twice, and findNext reads it to find out.

**Queries.** FocusedQueryExact, IntervalQueryExact and EdgeDataComplete are
requirement 7. BatchCovers says how far the batch form may exceed the exact
answer (section 4). Two blocks and four times suffice for ranges that start, end or lie in a
list, in a gap of a list, between lists, or across blocks, and for lists of two
vertices in opposite order.
EdgeDataComplete has one condition: no edge iterator is open while a partitioning
is replaced.

**Optimizer.** Requirement 8, and that the in-place merge and split of
HeuristicOverlapping leaves the partitioning as it was. None of this depends on
the cost model being right, which optimizer_cost shows it is not. Three
attributes of different sizes and queries that are empty, nested, overlapping or
disjoint give up to four partitions to merge and every number of partitions to
place attributes in. At threshold 0 HeuristicOverlapping merges down to one
partition, since every partition has a header; at 60 it stops earlier.

Deadlock is checked in every run but repartition: a call that has started can
always go on, and a client can always make another call. In repartition the
program may stop, at the use of an iterator whose node is gone.

## 4. Where code and documentation differ

Each is a run with one property, stated from a comment or an assert.

- **AppendOnly.** "this is an append only db" (BlockManager.cpp:72). Ids are
  reused after a process ends without flush, and blocks overwritten. The theorems
  BlocksAreAppended and FlushedBlocksKept draw the line: with a flush before each
  end it never happens, and without one only blocks added since the last flush
  are at risk.
- **LookupFindsSlice.** "endTime exclusive" (PartitionIndex.h:36). After a lookup
  at an end time, lookups return slices that are not in the database
  (PartitionIndex.cpp:128-138).
- **CacheBounded.** "in partitionings" (Conf.h:162). A hit on an entry that is not
  at the front of the list puts a node there that holds the time asked for, not
  the key of the entry (PartitionIndex.cpp:108). When that node is evicted no entry
  has its time as a key, so none leaves the cache. The entry that stays has an
  iterator to a node that is gone; the next hit on it, or the replacement of its
  slice, uses that iterator. With the default size (Conf.h:100, 16384) nothing is
  evicted before there are as many slices.
- **BlocksReadable.** `assert(index < subBlocks.size())` (HistoricalGraph.cpp:93)
  and the comment at PartitionIndex.cpp:164. A block whose middle is in a slice
  where it has no edge is not rewritten.
- **UsedPartitionsCover.** "attributes that appear in queries that we have to
  cover", "attributes we have covered so far" (Cost.cpp:17,22). All attributes of a
  chosen partition count as covered, also those the query did not ask for
  (Cost.cpp:50), so a query is charged for too few partitions.

Smaller ones that have no run of their own:

- "number of vertices whose data is cached in memory" (Conf.h:168): one fewer is
  (VertexManager.cpp:58).
- "number of expired edges to keep in memory" (Conf.h:174): with blocks smaller
  than two half-edges the map grows with every edge, since addEdge writes one
  block only (ExpirationMap.cpp:58). The blocks of ingest_old hold more.
- In the Old, Max and Random layouts flush never ends once an edge is buffered that
  does not fit a block by itself: getBlock takes the edge, gives it back, and
  returns an empty block (ExpirationMap.cpp:160), so size_ stays above 0
  (ExpirationMap.cpp:94). FlushPersists is checked there with edges that fit. The
  smart layout stores such an edge in a block of its own.
- "find out the vertices that have interactions in the time range"
  (ExpSetupHelper.cpp:279) is how the simulation uses the batch query. It may also
  return vertices without one: those with edges on both sides of the range, or at
  the very end of it. BatchCovers allows these and no others.
- A call that needs the R-tree (an interval query, a batch query, an addEdge that
  writes a block, a replacement) never returns while a vertex iterator is valid:
  its thread waits for the mutex it holds. Nothing in the code or its
  documentation says that an iterator must be read to its end or destroyed first.

## 5. Fairness

FairSpec of InMemoryGraph and Optimizer and FairDataSpec of EdgeData have weak
fairness of the steps of a call that has started. They say that the one thread of the caller keeps
running until the call returns. FairSmartSpec says the same without ENABLED: while
a call is running, steps are taken again and again. (A step is always possible
then, as the deadlock check shows: outside a call `op` is "none", and within one
only the call's own steps are enabled.) Calls themselves are not fair: nobody has
to call flush or a solver.

## 6. What is proved

TLAPS checks these for every value of the constants that satisfies the ASSUMEs:
`BlockSize` at least the header; a buffer of at least one block, two vertices, one
slice; ids of vertices and times numbers; finitely many attributes and vertices;
the values that stand for "nothing" and "garbled" different from real ones. All
other sizes are arbitrary. Where a theorem has a condition of its own, it is an
operator named in its ASSUME, and the run of the same property satisfies it.

**InMemoryGraphProofs**: TypeCorrect, SizeIsExact, QueueCorrect and
OldestEdgeHeadsLists, all from InvariantHolds. The properties are not inductive;
the invariant adds

- every list is in strictly increasing order of time, and expired times lie
  before those in the window. removeEdges identifies an edge by vertex and time,
  so it pops the right number only if these are unique;
- the block under construction consists, for every vertex, of a prefix of its
  list, and the queue has exactly the vertices with edges left to take. It gives
  the queue's contents in the middle of getBlock, where QueueMatchesLists is
  silent;
- the FIFO is in order of time, every FIFO entry has its two half-edges in the
  window lists, with the same data, and every half-edge there has a FIFO entry.

There is one lemma per action, and one per part of the invariant where the action
disturbs several parts.

The same invariant gives IngestImplementsEdgeLog. The log of a vertex is
mapped to what is stored, followed by what is buffered, followed by what is in
the window. Expiring an edge and finishing a block move the boundaries; the
lemmas about concatenation say that the whole stays as it is.

**BlockManagerProofs**: LruCorrect, CacheIsCoherent, BufferIsBounded,
NextIdsAreFree, ManagerImplementsStore, BlocksAreAppended. The invariant is the
conjunction of the properties with "the stored counter is not ahead of the one in
memory"; NextIdsFree is what makes an added block new. FlushedBlocksKept is about
processes that may be killed at any point (CrashSpec) and needs only the order of
the two counters.

**VertexManagerProofs**: CacheIsConsistent, DataIsWrittenOnce,
ManagerImplementsStore. CacheConsistent is inductive once the types are added: a
write changes only what is not in the cache.

**HistoricalGraphProofs**: FocusedQueryIsExact, IntervalQueryIsExact,
BatchQueryCovers. The invariant relates each structure to `blocks` alone:

- the lists of a vertex are in order within a block and from block to block;
- the R-tree has the interval of every list, and the focused index the newest time
  of every list with its block and oldest time, at the time of the snapshot for
  an open iterator;
- an edge iterator stands at an edge in the range and has returned exactly the
  edges of the range up to that one, among those that were stored when it was
  opened;
- a vertex iterator has, for every vertex it has still to return, an interval that
  it has not passed and will accept.

The expected list is defined by the sorted set of times in the range. What joins
it to a walk over lists is a lemma about two increasing lists with the same
members.

**PartitionIndexProofs** and, on top of it, **RepartitionProofs**, in four layers.

1. With no condition but what the model's clients pass to the replace functions
   (ClientReplaces, section 2): TypeCorrect, SlicesAlwaysTile, SubBlocksAreOwned.
   The invariant says that each instant is in one slice, stored under its end, that
   the cache and the removed slices are slices, that a sub-block id is used by one
   master block at one position, and that all ids in use are below the counter. A
   replacement keeps the tiling because the new slices cover, each instant once,
   what the old ones covered (TilesReplaced).
2. With InnerLookups (no slice can end at a time that is looked up, by a client or
   for a block): CacheMatchesDatabase and LookupsFindSlices. The run
   partition_boundary shows that some such condition is needed. Both hold for a
   buffer of any size, although entries may outlive their list node: an entry that
   stays is still a slice of the database, and a replaced slice always leaves the
   cache. With DenseBlocks as well (each block has an edge at its middle):
   BlocksStayReadable and NothingIsGarbled. Their invariant follows a replacement:
   a block that updateBlocks has still to come to is stored by the slice that is
   being removed, any other one by the slice of the index, and the ranges left to
   visit are disjoint parts of the removed slices. VisitInv relates the loop to the
   index: the block of every matching entry that the iterator has passed is either
   in hand or in seenIds, so that when the iterator is exhausted no block with an
   edge in the range was missed. The run repartition_sparse shows that some
   condition on blocks is needed. DenseBlocks suits slices that may be cut at any
   time; with fewer cuts, an edge in the same slice as the middle would do.
3. Again with no condition: ListStaysBounded. A hit replaces one node by another, a
   load adds one and drops one where needed, and nodes whose entry is gone count.
   There is no theorem about the number of cache entries: partition_cache shows
   that it exceeds the size of the buffer.
4. With the conditions of BlocksStayReadable and a schema that is not empty:
   EdgeDataIsComplete. Each slice's partitions have all attributes, so the loop of
   recomputePartitionIndices ends with partitions that have all those of the
   query. The invariant says of an open iterator that its slice is the one of the
   index that contains the middle of its block, and that its partitions have the
   query's attributes. What the greedy choice prefers plays no part, so the result
   holds for any sizes of attributes. Without attributes a slice could have no
   partition and a block no sub-block, which HistoricalGraph.cpp:90 asserts against.

**OptimizerProofs**: SolutionsCover, SolutionsWithinThreshold, SplitRestoresMerge.
The invariant says of each solver what its local variables hold between two
iterations: merged partitions still cover the schema; HeuristicNonOverlapping's
partitions are disjoint and hold the attributes placed so far, and the best
partitioning it remembers is one that it may return. The sizes are sums over
finite sets, which the lemmas on sums show to be natural numbers.

**ListLemmas** has what the others share about prefixes, positions and sorted
lists. The library's induction theorems cannot be used here, as they take an
operator as a parameter. Where induction over numbers or finite sets is needed (a
sorted list exists and is unique, a sum over a finite set exists), the proof takes
the least number for which the claim fails (LeastNatural) and derives a smaller
one.

## 7. What is model-checked only

- FlushPersists, ReplacementEnds and SolverReturns: liveness under fairness is out
  of the prover's reach.
- BlockSizeExact and ExpirationMapBounded, which relate a size to a sum over lists
  that change by an element at a time. They would need more lemmas on sums of the
  kind OptimizerProofs has.
- The smart layout: CandidateExact, FinalizedListsFull, SmartBlockFits,
  ExtensionGrows, and its refinement of EdgeLog. The invariant of
  InMemoryGraphProofs says of a block under construction what holds for getBlock;
  getBlockSmart needs one of its own.

## 8. What is not modelled

- A restart of ingestion. `lastTime_` starts at 0 in every process
  (InteractionGraph.cpp:9), so a later process may store edges older than stored
  ones, which breaks the order that HistoricalGraph's AddBlock assumes. The
  R-tree's pages reach the disk when they are evicted or the index is destroyed.
- Crashes inside a replacement or inside MetaDataManager::store, and failing
  writes. The code has no recovery for any of them that a property could be about.
- Replacing slices that are not in the database, or by empty slices (section 2).
- Replacing a partitioning while an edge iterator is open, and using the R-tree
  while a vertex iterator is valid (section 4).
- Block statistics, NaiveBucketer (unused) and attribute-size statistics (constants
  in the models).
- The encoding of keys and blocks as bytes. Negative times, whose encoded keys
  sort after positive ones, are therefore outside the model.
- The R-tree (libspatialindex) and leveldb: external, seen as exact maps.
- The optimal solvers, which are integer programs for Gurobi: what they return is
  decided there. The simulation programs, which drive the library and print
  measurements. The lang parser, which is not connected to the library.

## 9. Plan

*Proofs*: the size of a block under construction; the smart layout implements EdgeLog, with an invariant
that says a finalized candidate takes a prefix of every list.
*Restart*: ingestion and indexes over a process that ends, with what may be said
of edges stored by the next one.
