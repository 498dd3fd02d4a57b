-------------------------- MODULE HistoricalGraph --------------------------
(***************************************************************************)
(* Queries over the historical graph: the interval query (which vertices   *)
(* have an edge in a time range), its batch form, and the focused interval *)
(* query (the edges of one vertex in a time range).  Blocks are added      *)
(* while edge iterators are open.  They are not while a vertex iterator is *)
(* under way: it is a coroutine that is suspended inside the R-tree and    *)
(* holds its lock, so that the only thread would wait for itself.          *)
(*                                                                         *)
(* A block is a list of edge times per vertex; the rest of an edge plays   *)
(* no part here.  Ingestion stores the edges of a vertex oldest first      *)
(* (theorem IngestImplementsEdgeLog): the times of a vertex in a new block *)
(* are newer than those in all earlier blocks.  Different vertices need    *)
(* not agree on which block comes first.                                   *)
(***************************************************************************)
EXTENDS SortedList, Functions

CONSTANTS Vertices,
          MaxTime,     \* bound of the model: edge times are 1..MaxTime
          MaxBlocks    \* bound of the model: blocks added

ASSUME HistoricalGraphAssumption ==
    /\ Vertices \subseteq Nat
    /\ IsFiniteSet(Vertices)
    /\ MaxTime \in Nat
    /\ MaxBlocks \in Nat

VARIABLES blocks,     \* the master blocks, block i has id i
          iqIndex,    \* IntervalQueryIndex: the intervals in the R-tree
          fiqIndex,   \* FocusedIntervalQueryIndex: from (vertex, newest
                      \* time) to block and oldest time
          edgeIt,     \* an open HistoricalGraph::EdgeIterator, or <<>>
          vertexIt    \* an open HistoricalGraph::VertexIterator, or <<>>

vars == <<blocks, iqIndex, fiqIndex, edgeIt, vertexIt>>

Times == 1..MaxTime

\* Query ranges: start inclusive, end exclusive
Ranges == {r \in Times \X (1 .. MaxTime + 1) : r[1] < r[2]}

InRange(t, start, end) == start <= t /\ t < end

Oldest(list) == list[1]
Newest(list) == list[Len(list)]

\* The times of a vertex that are stored in blocks
StoredTimes(v) == UNION {Range(blocks[i][v]) : i \in DOMAIN blocks}

Init ==
    /\ blocks = <<>>
    /\ iqIndex = {}
    /\ fiqIndex = <<>>
    /\ edgeIt = <<>>
    /\ vertexIt = <<>>

Heads(block) == {v \in Vertices : block[v] # <<>>}

\* IntervalQueryIndex::indexBlock
Intervals(id, block) ==
    {[block |-> id, vertex |-> v, start |-> Oldest(block[v]),
      end |-> Newest(block[v])] : v \in Heads(block)}

\* FocusedIntervalQueryIndex::indexBlock
FocusedKeys(block) == {<<v, Newest(block[v])>> : v \in Heads(block)}

FocusedEntries(index, id, block) ==
    [key \in DOMAIN index \cup FocusedKeys(block) |->
        IF key \in FocusedKeys(block)
        THEN [block |-> id, start |-> Oldest(block[key[1]])]
        ELSE index[key]]

\* RTree::rangeQuery has not returned and holds m_lock.
IndexLocked == vertexIt # <<>> /\ vertexIt.valid

\* addBlock: the block is stored and enters both indexes.
AddBlock(block) ==
    LET id == Len(blocks) + 1
    IN  /\ Len(blocks) < MaxBlocks
        /\ ~IndexLocked
        /\ Heads(block) # {}
        /\ \A v \in Heads(block) : \A t \in StoredTimes(v) :
              t < Oldest(block[v])
        /\ blocks' = Append(blocks, block)
        /\ iqIndex' = iqIndex \cup Intervals(id, block)
        /\ fiqIndex' = FocusedEntries(fiqIndex, id, block)
        /\ UNCHANGED <<edgeIt, vertexIt>>

-----------------------------------------------------------------------------
(* FocusedIntervalQueryIndex::Iterator, on a snapshot of the index as a      *)
(* leveldb iterator has it.  Keys are ordered by vertex, then by time.       *)

NoKey == <<>>

FirstKey(keys) ==
    IF keys = {} THEN NoKey
    ELSE CHOOSE k \in keys : \A l \in keys :
            k[1] < l[1] \/ (k[1] = l[1] /\ k[2] <= l[2])

\* Faulty: a list that ends where the range starts is passed over.
SeekAfter(index, v, t) ==
    FirstKey({k \in DOMAIN index : k[1] > v \/ (k[1] = v /\ k[2] > t)})

Seek(index, v, t) ==
    FirstKey({k \in DOMAIN index : k[1] > v \/ (k[1] = v /\ k[2] >= t)})

NextKey(index, key) ==
    FirstKey({k \in DOMAIN index :
                 k[1] > key[1] \/ (k[1] = key[1] /\ k[2] > key[2])})

\* isValid of the index iterator
KeyValid(it) ==
    /\ it.key # NoKey
    /\ it.key[1] = it.vertex
    /\ it.index[it.key].start < it.end

\* The neighbor list the iterator is at
CurrentList(it) == blocks[it.index[it.key].block][it.vertex]

-----------------------------------------------------------------------------
(* HistoricalGraph::EdgeIterator *)

\* isValid
EdgeValid(it) == KeyValid(it) /\ ~it.done

\* initFromBlock, where the index iterator is valid: the first edge that is
\* not before the range
InitFromBlock(it) ==
    IF ~KeyValid(it) THEN it
    ELSE LET list  == CurrentList(it)
             first == CHOOSE i \in DOMAIN list :
                         /\ list[i] >= it.start
                         /\ \A j \in 1 .. i - 1 : list[j] < it.start
         IN  [it EXCEPT !.edge = first, !.done = list[first] >= it.end]

\* next
EdgeNext(it) ==
    LET list == CurrentList(it)
    IN  IF it.edge < Len(list)
        THEN [it EXCEPT !.edge = @ + 1, !.done = list[it.edge + 1] >= it.end]
        ELSE InitFromBlock([it EXCEPT !.key = NextKey(it.index, @)])

\* The caller reads the edge the iterator is at.  expected is what it should
\* have read in the end.
Read(it) ==
    IF EdgeValid(it)
    THEN [it EXCEPT !.edges = Append(@, CurrentList(it)[it.edge])]
    ELSE it

\* Iterators write nothing that is shared, so one at a time is enough.
NoIterator == edgeIt = <<>> /\ vertexIt = <<>>

\* focusedIntervalQuery, and the first edge
OpenEdgeIterator(v, start, end) ==
    /\ NoIterator
    /\ edgeIt' =
         Read(InitFromBlock(
           [vertex |-> v, start |-> start, end |-> end, index |-> fiqIndex,
            key |-> Seek(fiqIndex, v, start), edge |-> 1, done |-> FALSE,
            edges |-> <<>>,
            expected |-> Sorted({t \in StoredTimes(v) :
                                    InRange(t, start, end)})]))
    /\ UNCHANGED <<blocks, iqIndex, fiqIndex, vertexIt>>

NextEdge ==
    /\ edgeIt # <<>>
    /\ EdgeValid(edgeIt)
    /\ edgeIt' = Read(EdgeNext(edgeIt))
    /\ UNCHANGED <<blocks, iqIndex, fiqIndex, vertexIt>>

CloseEdgeIterator ==
    /\ edgeIt # <<>>
    /\ edgeIt' = <<>>
    /\ UNCHANGED <<blocks, iqIndex, fiqIndex, vertexIt>>

-----------------------------------------------------------------------------
(* IntervalQueryIndex::Iterator and HistoricalGraph::VertexIterator *)

\* Faulty: an interval that reaches over the start of the range is missed.
IntersectingInside(start, end) ==
    {i \in iqIndex : start <= i.start /\ i.start <= end}

\* intersectsWithQuery of the R-tree: the ends of both ranges belong to them.
Intersecting(start, end) ==
    {i \in iqIndex : i.start <= end /\ i.end >= start}

\* NeighborList::hasEdgesInRange
HasEdgesInRange(list, start, end) ==
    \E i \in DOMAIN list : InRange(list[i], start, end)

\* Faulty: blocks are never read.
AcceptedUnread(i, start, end) == ~(i.end < start \/ i.start >= end)

\* findNext: the interval is not passed over.  The block is read only if the
\* range lies between the edges at the ends of the list.
Accepted(i, start, end) ==
    /\ ~(i.end < start \/ i.start >= end)
    /\ start > i.start /\ end <= i.end
          => HasEdgesInRange(blocks[i.block][i.vertex], start, end)

\* The next intervals to stop at: VertexIterator passes over vertices that it
\* has returned.  The R-tree yields its intervals in any order.
Candidates(it) ==
    {i \in it.todo : Accepted(i, it.start, it.end)
                     /\ i.vertex \notin it.vertices}

\* The iterator moves on to interval i, or to its end.
MoveTo(it, i) ==
    [it EXCEPT !.todo = @ \ {i}, !.vertices = @ \cup {i.vertex}]

Advance(it) ==
    IF Candidates(it) = {} THEN vertexIt' = [it EXCEPT !.valid = FALSE]
    ELSE \E i \in Candidates(it) : vertexIt' = MoveTo(it, i)

OpenVertexIterator(start, end) ==
    /\ NoIterator
    /\ Advance([start |-> start, end |-> end, valid |-> TRUE,
                todo |-> Intersecting(start, end), vertices |-> {},
                expected |-> {v \in Vertices : \E t \in StoredTimes(v) :
                                 InRange(t, start, end)}])
    /\ UNCHANGED <<blocks, iqIndex, fiqIndex, edgeIt>>

NextVertex ==
    /\ vertexIt # <<>>
    /\ vertexIt.valid
    /\ Advance(vertexIt)
    /\ UNCHANGED <<blocks, iqIndex, fiqIndex, edgeIt>>

CloseVertexIterator ==
    /\ vertexIt # <<>>
    /\ vertexIt' = <<>>
    /\ UNCHANGED <<blocks, iqIndex, fiqIndex, edgeIt>>

\* intervalQueryBatch: the vertices of all intervals of the R-tree
QueryBatch(start, end) == {i.vertex : i \in Intersecting(start, end)}

-----------------------------------------------------------------------------
BlockLists == [Vertices -> {Sorted(times) : times \in SUBSET Times}]

Next ==
    \/ \E block \in BlockLists : AddBlock(block)
    \/ \E v \in Vertices, r \in Ranges : OpenEdgeIterator(v, r[1], r[2])
    \/ NextEdge
    \/ CloseEdgeIterator
    \/ \E r \in Ranges : OpenVertexIterator(r[1], r[2])
    \/ NextVertex
    \/ CloseVertexIterator

Spec == Init /\ [][Next]_vars

-----------------------------------------------------------------------------
(* Properties *)

(* A focused interval query returns the edges of the vertex in the range,    *)
(* in order and each one once: those in blocks when it was opened, whatever  *)
(* is added while it is read, and across all blocks that have a part of the  *)
(* range (HistoricalGraph.cpp:43-82, FocusedIntervalQueryIndex.cpp:27-53).   *)
FocusedQueryExact ==
    edgeIt # <<>> =>
       /\ Len(edgeIt.edges) <= Len(edgeIt.expected)
       /\ edgeIt.edges = SubSeq(edgeIt.expected, 1, Len(edgeIt.edges))
       /\ ~EdgeValid(edgeIt) => edgeIt.edges = edgeIt.expected

(* An interval query returns the vertices that have an edge in the range,    *)
(* each one once, although it reads a block only when the range lies inside  *)
(* a list (IntervalQueryIndex.cpp:41-60, HistoricalGraph.cpp:26-36).         *)
IntervalQueryExact ==
    vertexIt # <<>> =>
       /\ vertexIt.vertices \subseteq vertexIt.expected
       /\ ~vertexIt.valid => vertexIt.vertices = vertexIt.expected

(* The batch form returns at least the vertices with an edge in the range,   *)
(* and any other one it returns has edges on both sides of the range or one  *)
(* exactly at its end (RTreeIntervalIndex.cpp:118-126).                      *)
BatchCovers ==
    \A r \in Ranges : \A v \in Vertices :
       LET times == StoredTimes(v)
           found == v \in QueryBatch(r[1], r[2])
       IN  /\ (\E t \in times : InRange(t, r[1], r[2])) => found
           /\ found => \/ \E t \in times : InRange(t, r[1], r[2] + 1)
                       \/ (\E t \in times : t < r[1])
                             /\ \E t \in times : t >= r[2]
=============================================================================
