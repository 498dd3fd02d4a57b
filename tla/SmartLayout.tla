---------------------------- MODULE SmartLayout ----------------------------
(***************************************************************************)
(* The ingest path with the smart layout, the default one: getBlockSmart   *)
(* grows several candidate blocks from different head vertices and forms   *)
(* the block of the candidate with the best locality.  Everything outside  *)
(* getBlockSmart is as in InMemoryGraph; LayoutMode is here the policy     *)
(* that orders the queue, SmartLayoutConf::initialCandidateSelectionPolicy *)
(* (of its five values the three that ExpirationMap has keys for).         *)
(*                                                                         *)
(* getBlockSmart gives no edge back, so bytes stays at the size of an      *)
(* empty block and FormedBlock is the block.                               *)
(***************************************************************************)
EXTENDS InMemoryGraph, Candidate

CONSTANT InitialCandidateCount   \* SmartLayoutConf::initialCandidateCount

SeedEdgeCount == 1               \* "cannot be changed at this point"

ASSUME SmartAssumption == InitialCandidateCount \in Nat \ {0}

VARIABLES candidates,   \* candidates, by the head vertex they started from
          finalized     \* the ones that cannot be extended any more

smartVars == <<candidates, finalized>>
allVars == <<vars, smartVars>>

SmartInit ==
    /\ Init
    /\ candidates = <<>>
    /\ finalized = <<>>

Smaller(m, n) == IF m < n THEN m ELSE n

\* The orders in which getItems may present the queue
QueueOrders ==
    IF LayoutMode = "Random" THEN SetToSeqs(DOMAIN scoreQueue)
    ELSE {SetToSortSeq(DOMAIN scoreQueue, LAMBDA v, u :
             \/ scoreQueue[v] < scoreQueue[u]
             \/ scoreQueue[v] = scoreQueue[u] /\ v < u)}

\* getBlockSmart: the first items of the queue become candidates.
InitCandidates ==
    /\ pc = "getBlock"
    /\ \E order \in QueueOrders :
         LET k == Smaller(Len(order), InitialCandidateCount)
         IN  candidates' =
               [v \in {order[i] : i \in 1..k} |->
                  SetEdgeCount(EmptyCandidate, v,
                               Smaller(Len(neigLists[v]), SeedEdgeCount))]
    /\ pc' = "extend"
    /\ UNCHANGED <<neigLists, scoreQueue, size, block, bytes, headVertex,
                   stored, finalized>>

-----------------------------------------------------------------------------
(* extendCandidate *)

\* Faulty: a candidate may be one edge too large.
FitsLate(d) == d.size <= BlockSize + HalfEdgeBytes

Fits(d) == d.size <= BlockSize

\* An alternative: the candidate with n edges of v, and what it replaces
Alternative(c, v, n) == [vertex |-> v, candidate |-> SetEdgeCount(c, v, n)]

OneMore(c, v) == Alternative(c, v, c.numEdges[v] + 1)

\* Faulty: the last edge of a list is never considered.
OpenVerticesButLast(c) ==
    {v \in DOMAIN c.present : c.numEdges[v] + 1 < Len(neigLists[v])}

\* The vertices present in the candidate that have edges left in the map
OpenVertices(c) ==
    {v \in DOMAIN c.present : c.numEdges[v] < Len(neigLists[v])}

\* First: the edges of a present vertex that are not newer than the
\* candidate, up to the first that does not fit
OlderAlternatives(c, v) ==
    LET newest == NewestTime(c)
        Tried[n \in c.numEdges[v] .. Len(neigLists[v])] ==
            IF n = Len(neigLists[v]) \/ neigLists[v][n + 1].time > newest
            THEN {}
            ELSE LET alt == Alternative(c, v, n + 1)
                 IN  {alt} \cup IF Fits(alt.candidate) THEN Tried[n + 1] ELSE {}
    IN  Tried[c.numEdges[v]]

\* Third: vertices of the queue, up to the first whose next edge fits.  The
\* search is given up at one that would not fit without a list header either.
InQueue(c, order) ==
    LET Tried[i \in 1 .. Len(order) + 1] ==
            IF i > Len(order) THEN {}
            ELSE IF c.numEdges[order[i]] = Len(neigLists[order[i]])
            THEN Tried[i + 1]
            ELSE LET alt == OneMore(c, order[i])
                 IN  {alt} \cup
                       IF \/ Fits(alt.candidate)
                          \/ c.numEdges[order[i]] # 0
                          \/ alt.candidate.size - ListHeaderBytes > BlockSize
                       THEN {} ELSE Tried[i + 1]
    IN  Tried[1]

\* The alternatives that fit, with the most locality gained per byte
Best(c, alts) ==
    LET fitting == {alt \in alts : Fits(alt.candidate)}
    IN  {alt \in fitting : \A other \in fitting :
            ~LessThan(Gain(c, alt.candidate), Gain(c, other.candidate))}

\* Faulty: a list that was tried is given up altogether.
AfterTryingDropped(c, alts) ==
    FoldSet(LAMBDA alt, d : SetEdgeCount(d, alt.vertex, 0), c, alts)

\* What is left of c when alternatives have been tried on it and taken back.
\* The code takes back the tries of a vertex together.
AfterTrying(c, alts) ==
    FoldSet(LAMBDA alt, d :
               LET v == alt.vertex
                   tried == SetEdgeCount(d, v, alt.candidate.numEdges[v])
               IN  SetEdgeCount(tried, v, d.numEdges[v]),
            c, alts)

\* What extendCandidate may make of c, the same counts if nothing is found
Extensions(c) ==
    LET older == UNION {OlderAlternatives(c, v) : v \in OpenVertices(c)}
        next  == {OneMore(c, v) : v \in OpenVertices(c)}
        Grown(tried, best) ==
            {SetEdgeCount(AfterTrying(c, tried), alt.vertex,
                          alt.candidate.numEdges[alt.vertex]) : alt \in best}
    IN  IF Best(c, older) # {} THEN Grown(older, Best(c, older))
        ELSE IF Best(c, next) # {} THEN Grown(older \cup next, Best(c, next))
        ELSE UNION {LET alts == InQueue(c, order)
                        fitting == {alt \in alts : Fits(alt.candidate)}
                        tried == older \cup next \cup alts
                    IN  IF fitting # {} THEN Grown(tried, fitting)
                        ELSE {AfterTrying(c, tried)} :
                      order \in QueueOrders}

\* One call of extendCandidate in the loop over the candidates.  A call looks
\* at its own candidate only, so the order of the calls is of no effect.
ExtendCandidate ==
    /\ pc = "extend"
    /\ candidates # <<>>
    /\ LET v == CHOOSE v \in DOMAIN candidates : TRUE
       IN  \E c \in Extensions(candidates[v]) :
             IF c.edgeCount = candidates[v].edgeCount \/ c.size = BlockSize
             THEN /\ candidates' = Drop(candidates, v)
                  /\ finalized' = Put(finalized, v, c)
             ELSE /\ candidates' = [candidates EXCEPT ![v] = c]
                  /\ UNCHANGED finalized
    /\ UNCHANGED expVars

-----------------------------------------------------------------------------
\* Faulty: the block leaves out the oldest edges that were counted.
FormSmartBlockShorter ==
    /\ pc = "extend"
    /\ candidates = <<>>
    /\ \E v \in DOMAIN finalized :
         block' = [u \in Vertices |->
                     SubSeq(neigLists[u], 2, finalized[v].numEdges[u])]
    /\ pc' = "formed"
    /\ UNCHANGED <<neigLists, scoreQueue, size, bytes, headVertex, stored,
                   smartVars>>

\* The end of getBlockSmart: the candidate with the best locality is taken.
FormSmartBlock ==
    /\ pc = "extend"
    /\ candidates = <<>>
    /\ \E v \in DOMAIN finalized :
         /\ \A u \in DOMAIN finalized :
               ~LessThan(Locality(finalized[v]), Locality(finalized[u]))
         /\ block' = TakenLists(finalized[v])
    /\ pc' = "formed"
    /\ UNCHANGED <<neigLists, scoreQueue, size, bytes, headVertex, stored,
                   smartVars>>

\* removeEdges, then HistoricalGraph::addBlock
StoreSmartBlock ==
    /\ pc = "formed"
    /\ neigLists' = RemainingLists
    /\ scoreQueue' = RemainingQueue
    /\ size' = size - Cardinality(PoppedEdges)
    /\ stored' = [v \in Vertices |-> stored[v] \o FormedBlock[v]]
    /\ pc' = "out"
    /\ block' = EmptyLists
    /\ candidates' = <<>>
    /\ finalized' = <<>>
    /\ UNCHANGED <<bytes, headVertex>>

SmartBlock ==
    /\ \/ InitCandidates
       \/ ExtendCandidate
       \/ FormSmartBlock
       \/ StoreSmartBlock
    /\ UNCHANGED memVars

\* The steps of a call that has started
SmartStep ==
    \/ /\ Expire \/ ReturnAddEdge \/ FlushBlock \/ ReturnFlush
       /\ UNCHANGED smartVars
    \/ SmartBlock

SmartNext ==
    \/ /\ \/ \E v, u \in Vertices, d \in DataSizes : AddEdge(v, u, d)
          \/ RefuseEdge
          \/ Flush
       /\ UNCHANGED smartVars
    \/ SmartStep

SmartSpec == SmartInit /\ [][SmartNext]_allVars

\* A call that has started is run to its end by the thread that made it: weak
\* fairness of SmartStep, which can always be taken while a call is running.
FairSmartSpec ==
    /\ SmartSpec
    /\ []<>(op = "none") \/ []<><<op # "none">>_allVars

-----------------------------------------------------------------------------
(* Properties *)

AllCandidates == Range(candidates) \cup Range(finalized)

\* The half-edges of a block whose other half is not in it
Dangling(b) ==
    {h \in UNION {{<<v, i>> : i \in 1..Len(b[v])} : v \in Vertices} :
        LET half == b[h[1]][h[2]]
        IN  ~HasEdge(b[half.to], h[1], half.time)}

(* Candidate::size_, edgeCount_ and outEdgeCount_ are what the block of the  *)
(* candidate has, after any number of edges that were tried and taken back:  *)
(* size_ is the size that Block::addEdge arrives at, and the edges counted   *)
(* as going out are those whose other half is not in the block, although     *)
(* hasReverseEdge looks at times only (Candidate.cpp:9-112).                 *)
CandidateExact ==
    \A c \in AllCandidates :
       LET b == TakenLists(c)
       IN  /\ c.size = SerializedSize(b)
           /\ c.outEdgeCount = Cardinality(Dangling(b))
           /\ c.edgeCount = MapThenSumSet(LAMBDA v : Len(b[v]), Vertices)

(* A candidate is given up only when no list it takes edges of has a next    *)
(* edge that fits: "return true if this candidate cannot be extended         *)
(* anymore" (ExpirationMap.cpp:362), as far as its own lists go.             *)
FinalizedListsFull ==
    \A c \in Range(finalized) : \A v \in Vertices :
       0 < c.numEdges[v] /\ c.numEdges[v] < Len(neigLists[v])
          => ~Fits(OneMore(c, v).candidate)

(* getBlockSmart keeps to the block size, unless the block is a single       *)
(* half-edge that is too large by itself, and always takes an edge, so that  *)
(* flush gets on (ExpirationMap.cpp:94,283,314,341).                         *)
SmartBlockFits ==
    pc = "formed" =>
       /\ block # EmptyLists
       /\ \/ SerializedSize(block) <= BlockSize
          \/ MapThenSumSet(LAMBDA v : Len(block[v]), Vertices) = 1

(* A call of extendCandidate either finalizes the candidate or makes it      *)
(* larger, the assert at ExpirationMap.cpp:210: getBlockSmart ends.          *)
ExtensionGrows ==
    [][\A v \in DOMAIN candidates \cap DOMAIN candidates' :
          candidates'[v] # candidates[v]
             => candidates'[v].size > candidates[v].size]_allVars
=============================================================================
