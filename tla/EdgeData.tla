------------------------------ MODULE EdgeData ------------------------------
(***************************************************************************)
(* Which sub-blocks HistoricalGraph::EdgeIterator reads the attributes of  *)
(* a query from.  The iterator works out a set of partitions that covers   *)
(* the attributes when it enters a block, and keeps it for as long as the  *)
(* blocks it moves to belong to the same slice of time.                    *)
(*                                                                         *)
(* Composed with Repartition: lookups of the iterator change the cache of  *)
(* partitionings, and replacements rewrite the blocks.  The order in which *)
(* the iterator visits blocks is the subject of HistoricalGraph; here it   *)
(* may move to any block.                                                  *)
(***************************************************************************)
EXTENDS Repartition

CONSTANT AvgSize   \* SchemaStats::getAvgSize, per attribute

ASSUME EdgeDataAssumption == AvgSize \in [Attributes -> Nat \ {0}]

VARIABLE it   \* the open EdgeIterator, or <<>>

dataVars == <<vars, it>>

DataInit == Init /\ it = <<>>

\* EdgeIterator::getPartitionSize
PartitionSize(attrs) == MapThenSumSet(LAMBDA x : AvgSize[x], attrs)

\* The share of a partition that is asked for and not selected yet.  The code
\* multiplies all shares by the same number of edges.
LowerShare(p, q, wanted) ==
    PartitionSize(p \cap wanted) * PartitionSize(q)
       < PartitionSize(q \cap wanted) * PartitionSize(p)

Selected(parts, used, attrs) == (UNION {parts[i] : i \in used}) \cap attrs

\* recomputePartitionIndices goes on until it has selected as many attributes
\* as the query has.
Covers(parts, used, attrs) ==
    Cardinality(Selected(parts, used, attrs)) = Cardinality(attrs)

\* The unused partitions with the largest share.  Where shares are equal the
\* order of a hash table decides.
Best(parts, used, attrs) ==
    LET unused == DOMAIN parts \ used
        wanted == attrs \ Selected(parts, used, attrs)
    IN  {i \in unused : \A j \in unused : ~LowerShare(parts[i], parts[j], wanted)}

\* Orders in which recomputePartitionIndices may take partitions.
Orders(parts, attrs) ==
    {order \in UNION {[1..n -> DOMAIN parts] : n \in 0..Len(parts)} :
        /\ Covers(parts, Range(order), attrs)
        /\ \A n \in DOMAIN order :
              LET used == {order[i] : i \in 1 .. n - 1}
              IN  /\ ~Covers(parts, used, attrs)
                  /\ order[n] \in Best(parts, used, attrs)}

\* The sets of partitions it may arrive at.
PartitionIndices(parts, attrs) == {Range(order) : order \in Orders(parts, attrs)}

\* Faulty: the partitioning is looked up for the first block only.
KeptAlways(iter, t) == iter.indices # {}

\* initFromBlock goes on with the partitions it has.
Kept(iter, t) == iter.indices # {} /\ Contains(iter.slice, t)

\* initFromBlock, for a block that was read
InitFromBlock(iter, id) ==
    LET t == PartitioningTimestamp(masters[id].times)
    IN  \/ /\ Kept(iter, t)
           /\ ReadBlock(id)
           /\ it' = [iter EXCEPT !.block = id]
        \/ /\ ~Kept(iter, t)
           /\ Lookup(t)
           /\ IF answer' \in {NotFound, Corrupt} THEN it' = <<>>
              ELSE \E used \in PartitionIndices(answer'.parts, iter.attrs) :
                      it' = [iter EXCEPT !.block = id, !.slice = answer',
                                         !.indices = used]

\* focusedIntervalQuery: an iterator that starts at block id
OpenIterator(id, attrs) ==
    /\ Idle
    /\ it = <<>>
    /\ InitFromBlock([attrs |-> attrs, block |-> id, slice |-> NotFound,
                      indices |-> {}], id)
    /\ UNCHANGED <<blockVars, jobVars>>

\* next, to an edge in another block
NextBlock(id) ==
    /\ Idle
    /\ it # <<>>
    /\ id # it.block
    /\ InitFromBlock(it, id)
    /\ UNCHANGED <<blockVars, jobVars>>

\* getEdgeData reads the master block and the sub-blocks; what it finds there
\* is EdgeDataComplete.
GetEdgeData ==
    /\ Idle
    /\ it # <<>>
    /\ LookupForDeserialization(PartitioningTimestamp(masters[it.block].times))
    /\ UNCHANGED <<blockVars, jobVars, it>>

CloseIterator ==
    /\ it # <<>>
    /\ it' = <<>>
    /\ UNCHANGED vars

\* Clients have no iterator open when they replace a partitioning.
DataNext ==
    \/ /\ Next
       /\ it # <<>> => removed' = {}
       /\ UNCHANGED it
    \/ \E id \in DOMAIN masters :
          \/ \E attrs \in SUBSET Attributes : OpenIterator(id, attrs)
          \/ NextBlock(id)
    \/ GetEdgeData
    \/ CloseIterator

DataSpec == DataInit /\ [][DataNext]_dataVars

\* The call that is running goes on: the library is single-threaded.
FairDataSpec == DataSpec /\ WF_dataVars(Step /\ UNCHANGED it)

-----------------------------------------------------------------------------
(* Properties *)

(* getEdgeData finds every attribute of the query in the sub-blocks that the *)
(* iterator's partitions stand for, and reads no sub-block that the block    *)
(* does not have (the asserts at HistoricalGraph.cpp:90,93), although the    *)
(* partitions were worked out for another block or looked up from a cache.   *)
EdgeDataComplete ==
    it # <<>> =>
       LET ids == masters[it.block].subs
       IN  /\ ids # <<>>
           /\ it.indices \subseteq DOMAIN ids
           /\ \A i \in it.indices : Decodes(subs[ids[i]])
           /\ it.attrs \subseteq UNION {subs[ids[i]].attrs : i \in it.indices}
=============================================================================
