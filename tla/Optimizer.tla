----------------------------- MODULE Optimizer -----------------------------
(***************************************************************************)
(* The queries that QueryCollector records, the cost model and the solvers *)
(* that turn a workload into a partitioning of the attributes.             *)
(*                                                                         *)
(* A query counts by its set of attributes, and all queries go to the one  *)
(* bucket of OneBucketer.  A solver runs one iteration of its loop per     *)
(* step.  Costs are multiplied by the number of queries and compared       *)
(* exactly: the code divides doubles, so which of two equal costs is the   *)
(* smaller one is left open, as is the order of a hash table.              *)
(***************************************************************************)
EXTENDS SortedList, FiniteSetsExt

CONSTANTS
    Attributes,
    AvgSize,      \* SchemaStats::getAvgSize, per attribute
    Queries,      \* the sets of attributes that queries ask for
    Thresholds,   \* the storage thresholds to solve for, in percent
    MaxQueries,   \* bound on the number of queries collected
    None

ASSUME OptimizerAssumption ==
    /\ IsFiniteSet(Attributes) /\ Attributes # {}
    /\ AvgSize \in [Attributes -> Nat]
    /\ Queries \subseteq SUBSET Attributes
    /\ Thresholds \subseteq Nat
    /\ MaxQueries \in Nat
    /\ None \notin {"overlapping", "nonoverlapping", "single", "perattribute"}

VARIABLES
    queries,      \* queries_ of the workload, in the order of their first use
    counts,       \* counts_
    solver,       \* the solver that is running, or None
    threshold,    \* its storageThreshold
    parts,        \* the partitions it works on
    placed,       \* usedAttributes of HeuristicNonOverlapping
    best,         \* minCostPart of HeuristicNonOverlapping, or None
    solution      \* what the last solver returned, or None

workloadVars == <<queries, counts>>
vars == <<queries, counts, solver, threshold, parts, placed, best, solution>>

Init ==
    /\ queries = <<>>
    /\ counts = [q \in Queries |-> 0]
    /\ solver = None
    /\ threshold = 0
    /\ parts = <<>>
    /\ placed = {}
    /\ best = None
    /\ solution = None

-----------------------------------------------------------------------------
(* The workload *)

TotalQueries == SumFunctionOnSet(counts, Range(queries))

\* QueryWorkload::addQuery
AddQuery(q) ==
    /\ counts' = [counts EXCEPT ![q] = @ + 1]
    /\ queries' = IF counts[q] > 0 THEN queries ELSE Append(queries, q)

\* collectFocusedIntervalQuery
CollectQuery(q) ==
    /\ solver = None
    /\ TotalQueries < MaxQueries
    /\ AddQuery(q)
    /\ solution' = None
    /\ UNCHANGED <<solver, threshold, parts, placed, best>>

ResetWorkloads ==
    /\ solver = None
    /\ queries # <<>>
    /\ queries' = <<>>
    /\ counts' = [q \in Queries |-> 0]
    /\ solution' = None
    /\ UNCHANGED <<solver, threshold, parts, placed, best>>

-----------------------------------------------------------------------------
(* The cost model *)

AttributesSize ==
    [attrs \in SUBSET Attributes |-> SumFunctionOnSet(AvgSize, attrs)]

\* Cost::getPartitionSize: 24 edges with an id and a timestamp, 8 lists with
\* a vertex and a length
PartitionSize ==
    [attrs \in SUBSET Attributes |-> 24 * (16 + AttributesSize[attrs]) + 8 * 12]

Sizes(ps) == [i \in DOMAIN ps |-> PartitionSize[ps[i]]]

\* Cost::getUsedPartitions(ps, attrs, q): the sets of partitions it may
\* arrive at.  All attributes of a chosen partition count as selected.
UsedPartitions(ps, attrs, q) ==
    LET effective == q \cap attrs
        Greedy[used \in SUBSET DOMAIN ps] ==
            LET selected == UNION {ps[i] : i \in used}
                unused   == DOMAIN ps \ used
                Wanted(i) == AttributesSize[(ps[i] \cap effective) \ selected]
                top      == {i \in unused : \A j \in unused :
                               Wanted(i) * PartitionSize[ps[j]]
                                  >= Wanted(j) * PartitionSize[ps[i]]}
            IN  IF Cardinality(selected) >= Cardinality(effective) THEN {used}
                ELSE UNION {Greedy[used \cup {i}] : i \in top}
    IN  Greedy[{}]

\* Cost::getIOCost: the values it may return
IOCosts(ps, attrs) ==
    FoldFunction(LAMBDA q, sums :
                    {sum + counts[q]
                       * MapThenSumSet(LAMBDA i : PartitionSize[ps[i]], used) :
                       sum \in sums, used \in UsedPartitions(ps, attrs, q)},
                 {0}, queries)

TotalSize(ps) == SumFunction(Sizes(ps))

\* Faulty: the last partition is not counted.
OverThresholdButLast(ps) ==
    (TotalSize(SubSeq(ps, 1, Len(ps) - 1)) - PartitionSize[Attributes]) * 100
       > threshold * PartitionSize[Attributes]

\* Cost::getStorageOverhead > storageThreshold
OverThreshold(ps) ==
    (TotalSize(ps) - PartitionSize[Attributes]) * 100
       > threshold * PartitionSize[Attributes]

-----------------------------------------------------------------------------
(* Partitionings *)

\* Partitioning::mergePartitions, i < j: the last partition takes the place
\* of j.
MergePartitions(ps, i, j) ==
    LET merged == [ps EXCEPT ![i] = @ \cup ps[j], ![j] = ps[Len(ps)]]
    IN  SubSeq(merged, 1, Len(ps) - 1)

\* Faulty: the partitions are not swapped back.
SplitPartitionUnswapped(ps, i, j, lhs, rhs) ==
    Append([ps EXCEPT ![i] = lhs], rhs)

\* Partitioning::splitPartition, i < j
SplitPartition(ps, i, j, lhs, rhs) ==
    LET grown == Append([ps EXCEPT ![i] = lhs], rhs)
    IN  [grown EXCEPT ![j] = rhs, ![Len(grown)] = grown[j]]

Pairs(ps) == {p \in (DOMAIN ps) \X (DOMAIN ps) : p[1] < p[2]}

-----------------------------------------------------------------------------
(* The solvers *)

\* A solver is called with the collected workload.
Call(name, limit, ps) ==
    /\ solver = None
    /\ queries # <<>>
    /\ solver' = name
    /\ threshold' = limit
    /\ parts' = ps
    /\ placed' = {}
    /\ best' = None
    /\ solution' = None
    /\ UNCHANGED workloadVars

\* The solver returns ps; its local variables are gone.
Return(ps) ==
    /\ solution' = [by |-> solver, parts |-> ps]
    /\ solver' = None
    /\ parts' = <<>>
    /\ placed' = {}
    /\ best' = None
    /\ UNCHANGED <<workloadVars, threshold>>

\* Faulty: the attributes that no query uses are left out.
QueryPartitionsOnly(qs) == qs

\* HeuristicOverlapping starts with a partition per query and one for the
\* attributes that no query uses.
QueryPartitions(qs) ==
    LET missing == Attributes \ UNION Range(qs)
    IN  IF missing = {} THEN qs ELSE Append(qs, missing)

CallOverlapping(limit) ==
    Call("overlapping", limit, QueryPartitions(queries))

\* What the solver pays in reads for each byte that merging a pair saves, with
\* cost for the reads before and after, compared for two pairs
NotDearer(ps, p, q, before, afterP, afterQ) ==
    LET Saved(r) == PartitionSize[ps[r[1]]] + PartitionSize[ps[r[2]]]
                      - PartitionSize[ps[r[1]] \cup ps[r[2]]]
    IN  (afterP - before) * Saved(q) <= (afterQ - before) * Saved(p)

\* The pairs that minCostSolution may end up with
BestPairs(ps) ==
    LET after == [p \in Pairs(ps) |->
                    IOCosts(MergePartitions(ps, p[1], p[2]), Attributes)]
    IN  {p \in Pairs(ps) : \E before \in IOCosts(ps, Attributes) :
            \A q \in Pairs(ps) \ {p} :
               NotDearer(ps, p, q, before, Min(after[p]), Max(after[q]))}

\* HeuristicOverlapping: one iteration of the loop
MergeBest ==
    /\ solver = "overlapping"
    /\ OverThreshold(parts)
    /\ \E p \in BestPairs(parts) :
          parts' = MergePartitions(parts, p[1], p[2])
    /\ UNCHANGED <<workloadVars, solver, threshold, placed, best, solution>>

ReturnOverlapping ==
    /\ solver = "overlapping"
    /\ ~OverThreshold(parts)
    /\ Return(parts)

\* The bound of HeuristicNonOverlapping's loop over numPartitions
MaxPartitions ==
    Min({Cardinality(UNION Range(queries)) + 1, Cardinality(Attributes)})

CallNonOverlapping(limit) == Call("nonoverlapping", limit, <<{}>>)

\* attrbFreq
Uses(x) == Cardinality({q \in Range(queries) : x \in q})

\* HeuristicNonOverlapping: the next attribute, in the order of the sort
NextAttributes ==
    LET left == Attributes \ placed
    IN  {x \in left : \A y \in left : Uses(x) >= Uses(y)}

AddTo(ps, i, x) == [ps EXCEPT ![i] = @ \cup {x}]

\* The partitions that minCostPart may end up with
BestPartitions(ps, x, used) ==
    LET costs == [i \in DOMAIN ps |-> IOCosts(AddTo(ps, i, x), used)]
    IN  {i \in DOMAIN ps : \A j \in DOMAIN ps \ {i} :
            Min(costs[i]) <= Max(costs[j])}

\* HeuristicNonOverlapping: the attribute goes where the reads cost least.
PlaceAttribute(x) ==
    /\ solver = "nonoverlapping"
    /\ Len(parts) <= MaxPartitions
    /\ x \in NextAttributes
    /\ placed' = placed \cup {x}
    /\ \E i \in BestPartitions(parts, x, placed \cup {x}) :
          parts' = AddTo(parts, i, x)
    /\ UNCHANGED <<workloadVars, solver, threshold, best, solution>>

NonEmpty(ps) ==
    LET kept == Sorted({i \in DOMAIN ps : ps[i] # {}})
    IN  [i \in DOMAIN kept |-> ps[kept[i]]]

\* MinCostSolution::push
Push(ps, cost) ==
    IF best = None \/ cost <= best.cost THEN [parts |-> ps, cost |-> cost]
    ELSE best

\* Faulty: numPartitions is not incremented.
SamePartitions(ps) == [i \in 1..Len(ps) |-> {}]

MorePartitions(ps) == [i \in 1..Len(ps) + 1 |-> {}]

\* HeuristicNonOverlapping: all attributes are placed, and the number of
\* partitions goes up unless this was the last one.
EndRound ==
    /\ solver = "nonoverlapping"
    /\ placed = Attributes
    /\ ~OverThreshold(NonEmpty(parts))
    /\ \E cost \in IOCosts(NonEmpty(parts), Attributes) :
          best' = Push(NonEmpty(parts), cost)
    /\ parts' = MorePartitions(parts)
    /\ placed' = {}
    /\ UNCHANGED <<workloadVars, solver, threshold, solution>>

ReturnNonOverlapping ==
    /\ solver = "nonoverlapping"
    /\ \/ placed = {} /\ Len(parts) > MaxPartitions
       \/ placed = Attributes /\ OverThreshold(NonEmpty(parts))
    /\ best # None
    /\ Return(best.parts)

SolveSinglePartition(limit) == Call("single", limit, <<Attributes>>)

\* In the order of the schema; any order does.
SolvePartitionPerAttribute(limit) ==
    LET single == {{x} : x \in Attributes}
    IN  Call("perattribute", limit,
             CHOOSE ps \in Bijection(1..Cardinality(single), single) : TRUE)

\* The solvers without a loop
ReturnParts ==
    /\ solver \in {"single", "perattribute"}
    /\ Return(parts)

SolverStep ==
    \/ MergeBest
    \/ ReturnOverlapping
    \/ \E x \in Attributes : PlaceAttribute(x)
    \/ EndRound
    \/ ReturnNonOverlapping
    \/ ReturnParts

Next ==
    \/ \E q \in Queries : CollectQuery(q)
    \/ ResetWorkloads
    \/ \E limit \in Thresholds :
          \/ CallOverlapping(limit)
          \/ CallNonOverlapping(limit)
          \/ SolveSinglePartition(limit)
          \/ SolvePartitionPerAttribute(limit)
    \/ SolverStep

Spec == Init /\ [][Next]_vars

\* A solver that is called runs to its end: it waits for nothing.
FairSpec == Spec /\ WF_vars(SolverStep)

-----------------------------------------------------------------------------
(* Properties *)

(* Whatever solver produced it and however the partitions were merged or     *)
(* placed, a solution has every attribute of the schema and no other:        *)
(* replaceTimeSlicedPartitioning throws for one that does not.  The one of   *)
(* HeuristicNonOverlapping has every attribute once, over several rounds     *)
(* that start anew, and no empty partition.                                  *)
SolutionCovers ==
    solution # None =>
       /\ UNION Range(solution.parts) = Attributes
       /\ solution.by = "nonoverlapping" =>
             \A i, j \in DOMAIN solution.parts :
                /\ solution.parts[i] # {}
                /\ solution.parts[i] \cap solution.parts[j] # {} => i = j

(* The heuristics and the single partition stay within the storage threshold *)
(* they were given (HeuristicOverlapping.cpp:41, HeuristicNonOverlapping.cpp *)
(* :30), although a merge is chosen for its cost in reads.                   *)
WithinThreshold ==
    solution # None /\ solution.by # "perattribute" =>
       (TotalSize(solution.parts) - PartitionSize[Attributes]) * 100
          <= threshold * PartitionSize[Attributes]

(* HeuristicOverlapping merges each pair to see what it would cost and       *)
(* splits it again; the partitioning is then what it was                     *)
(* (HeuristicOverlapping.cpp:58, an assert that is commented out).           *)
SplitUndoesMerge ==
    solver = "overlapping" =>
       \A p \in Pairs(parts) :
          SplitPartition(MergePartitions(parts, p[1], p[2]), p[1], p[2],
                         parts[p[1]], parts[p[2]]) = parts

(* A solver returns: merging a pair always brings the overhead down until it *)
(* is within the threshold, and a round of HeuristicNonOverlapping always    *)
(* has a partition for the next attribute.                                   *)
SolverReturns == solver # None ~> solution # None

(* The partitions that a query is charged for cover the attributes of the    *)
(* query: "attributes that appear in queries that we have to cover",         *)
(* "attributes we have covered so far" (Cost.cpp:17,22).                     *)
UsedPartitionsCover ==
    solution # None =>
       \A q \in Range(queries) :
          \A used \in UsedPartitions(solution.parts, Attributes, q) :
             q \subseteq UNION {solution.parts[i] : i \in used}
=============================================================================
