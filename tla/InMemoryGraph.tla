--------------------------- MODULE InMemoryGraph ---------------------------
(***************************************************************************)
(* The ingest path: InteractionGraph::addEdge and flush, the window of     *)
(* recent edges (InMemoryGraph with its EdgeFIFO), and the expiration map  *)
(* that expired edges move into.                                           *)
(*                                                                         *)
(* The library is single-threaded: a call runs to completion before the    *)
(* next one starts.  Its loops are unfolded into steps, and op says which  *)
(* call is running.  Timestamps are replaced by their ranks: addEdge       *)
(* insists on times that increase, and only their order is ever used here. *)
(***************************************************************************)
EXTENDS ExpirationMap

CONSTANTS WindowSize,   \* Conf::windowSize, in edges
          MaxEdges      \* bound of the model: calls of addEdge in a behaviour

ASSUME WindowAssumption == WindowSize \in Nat /\ MaxEdges \in Nat

VARIABLES winLists,   \* InMemoryGraph::neigLists_; an absent list is <<>>
          vfifo,      \* vfifo_, oldest edge first
          lastTime,   \* InteractionGraph::lastTime_
          op          \* the call that is running, or "none"

memVars == <<winLists, vfifo, lastTime, op>>
vars == <<expVars, memVars>>

UEdge == [first : Vertices, second : Vertices, time : Nat]

Init ==
    /\ ExpInit
    /\ winLists = EmptyLists
    /\ vfifo = <<>>
    /\ lastTime = 0
    /\ op = "none"

\* InteractionGraph::addEdge and the first part of InMemoryGraph::addEdge
AddEdge(v, u, d) ==
    /\ op = "none"
    /\ v # u
    /\ lastTime < MaxEdges
    /\ lastTime' = lastTime + 1
    /\ winLists' = AddHalves(winLists, v, u, lastTime + 1, d)
    /\ vfifo' = Append(vfifo, [first |-> v, second |-> u,
                               time |-> lastTime + 1])
    /\ op' = "addEdge"
    /\ UNCHANGED expVars

\* InteractionGraph::addEdge throws, for an unknown vertex or for data that
\* does not fit the schema: lastTime_ has been advanced by then.
RefuseEdge ==
    /\ op = "none"
    /\ lastTime < MaxEdges
    /\ lastTime' = lastTime + 1
    /\ UNCHANGED <<winLists, vfifo, op, expVars>>

\* EdgeFIFO::hasExpiredEdges
HasExpiredEdges == Len(vfifo) > WindowSize

\* Faulty: the list of the second endpoint keeps its half-edge.
RemoveEdgeHalf(lists, edge) == [lists EXCEPT ![edge.first] = Tail(@)]

\* removeEdge: the oldest half-edges of both endpoints leave the lists
RemoveEdge(lists, edge) ==
    [lists EXCEPT ![edge.first] = Tail(@), ![edge.second] = Tail(@)]

\* One iteration of the loop in addEdge, or of the one in flush.  The data
\* of the edge is the one found in the list of its first vertex.
Expire ==
    /\ pc = "out"
    /\ \/ op = "addEdge" /\ HasExpiredEdges
       \/ op = "flush" /\ vfifo # <<>>
    /\ LET edge == Head(vfifo)
           data == Head(winLists[edge.first]).bytes
       IN  /\ winLists' = RemoveEdge(winLists, edge)
           /\ ExpAddEdge(edge.first, edge.second, edge.time, data)
    /\ vfifo' = Tail(vfifo)
    /\ UNCHANGED <<lastTime, op>>

\* A step of writeBlock, called from either loop or from flush
FormBlock ==
    /\ TakeEdge \/ FinishBlock
    /\ UNCHANGED memVars

\* addEdge returns once the window is within its size
ReturnAddEdge ==
    /\ op = "addEdge"
    /\ pc = "out"
    /\ ~HasExpiredEdges
    /\ op' = "none"
    /\ UNCHANGED <<winLists, vfifo, lastTime, expVars>>

\* InteractionGraph::flush is called
Flush ==
    /\ op = "none"
    /\ op' = "flush"
    /\ UNCHANGED <<winLists, vfifo, lastTime, expVars>>

\* One iteration of the loop in ExpirationMap::flush
FlushBlock ==
    /\ op = "flush"
    /\ pc = "out"
    /\ vfifo = <<>>
    /\ size > 0
    /\ WriteBlock
    /\ UNCHANGED <<neigLists, scoreQueue, size, block, bytes, headVertex,
                   stored, memVars>>

\* Faulty: flush empties the window only.
ReturnFlushEarly ==
    /\ op = "flush"
    /\ pc = "out"
    /\ vfifo = <<>>
    /\ op' = "none"
    /\ UNCHANGED <<winLists, vfifo, lastTime, expVars>>

ReturnFlush ==
    /\ op = "flush"
    /\ pc = "out"
    /\ vfifo = <<>>
    /\ size = 0
    /\ op' = "none"
    /\ UNCHANGED <<winLists, vfifo, lastTime, expVars>>

\* The steps of a call that has started
Step == Expire \/ FormBlock \/ ReturnAddEdge \/ FlushBlock \/ ReturnFlush

Next ==
    \/ \E v, u \in Vertices, d \in DataSizes : AddEdge(v, u, d)
    \/ RefuseEdge
    \/ Flush
    \/ Step

Spec == Init /\ [][Next]_vars

\* A call that has started is run to its end by the thread that made it.
FairSpec == Spec /\ WF_vars(Step)

-----------------------------------------------------------------------------
(* Properties *)

\* The state is made of lists of half-edges, a queue and a window, and size_
\* never goes below zero.
TypeOK ==
    /\ neigLists \in [Vertices -> Seq(HalfEdge)]
    /\ DOMAIN scoreQueue \subseteq Vertices
    /\ \A v \in DOMAIN scoreQueue : scoreQueue[v] \in Int
    /\ size \in Nat
    /\ pc \in {"out", "getBlock"}
    /\ block \in [Vertices -> Seq(HalfEdge)]
    /\ bytes \in Nat
    /\ headVertex \in Vertices \cup {NoVertex}
    /\ stored \in [Vertices -> Seq(HalfEdge)]
    /\ winLists \in [Vertices -> Seq(HalfEdge)]
    /\ vfifo \in Seq(UEdge)
    /\ lastTime \in Nat
    /\ op \in {"none", "addEdge", "flush"}

\* The half-edges buffered in the expiration map, named by vertex and time
Buffered ==
    UNION {{<<v, neigLists[v][i].time>> : i \in 1..Len(neigLists[v])} :
              v \in Vertices}

(* size_ counts exactly the half-edges in the neighbor lists, through every  *)
(* addEdge, every block formed and every edge given back: flush, which stops *)
(* when size_ is 0, leaves nothing behind (ExpirationMap.cpp:57,94,128).     *)
SizeExact == size = Cardinality(Buffered)

(* Whenever writeBlock has returned, the queue holds exactly the vertices    *)
(* that have edges in the map (the assert at ExpirationMap.cpp:110), and     *)
(* every key is the score of the list as it is now, so that the next block   *)
(* starts from the vertex the layout asks for.                               *)
QueueMatchesLists ==
    pc = "out" =>
      /\ DOMAIN scoreQueue = {v \in Vertices : neigLists[v] # <<>>}
      /\ \A v \in DOMAIN scoreQueue : scoreQueue[v] = Score(neigLists[v], 0)

(* The oldest edge of the FIFO is the oldest edge in the lists of both of    *)
(* its endpoints: the four asserts of InMemoryGraph::removeEdge              *)
(* (InMemoryGraph.cpp:67,68,77,78).                                          *)
OldestEdgeAgrees ==
    vfifo # <<>> =>
      LET edge == Head(vfifo)
          vList == winLists[edge.first]
          uList == winLists[edge.second]
      IN  /\ vList # <<>> /\ uList # <<>>
          /\ Head(vList).to = edge.second /\ Head(vList).time = edge.time
          /\ Head(uList).to = edge.first /\ Head(uList).time = edge.time

\* What the lists of a block add to its size, counted from scratch: an edge
\* both of whose halves are in the block has its attributes written once.
SerializedSize(b) ==
    LET lists == {v \in Vertices : b[v] # <<>>}
        halves == UNION {{<<v, i>> : i \in 1..Len(b[v])} : v \in Vertices}
        edges == {<<b[h[1]][h[2]].time, b[h[1]][h[2]].bytes>> : h \in halves}
    IN  BlockHeaderBytes + ListHeaderBytes * Cardinality(lists)
          + HalfEdgeBytes * Cardinality(halves)
          + Cardinality(UNION {{e} \X (1..e[2]) : e \in edges})

\* Attribute bytes that removeNewestEdge leaves counted: those of an edge
\* that is given back while its other vertex has no list in the block
StaleBytes ==
    LET h == block[headVertex][Len(block[headVertex])]
    IN  IF bytes > BlockSize /\ block[h.to] = <<>> THEN h.bytes ELSE 0

(* getBlock's running size is the size of the block's lists as serialize     *)
(* writes them, an edge's attributes once when both halves are in the block. *)
(* After an edge is given back it exceeds that size by the stale bytes only, *)
(* and the block getBlock hands over never exceeds the configured block size *)
(* (ExpirationMap.cpp:144,160; Block.cpp:89-135).                            *)
BlockSizeExact ==
    pc = "getBlock" => /\ bytes = SerializedSize(block)
                       /\ FormedBytes = SerializedSize(FormedBlock) + StaleBytes
                       /\ SerializedSize(FormedBlock) <= BlockSize

(* Between calls the expiration map keeps no more than the configured number *)
(* of expired edges, two half-edges each (Conf.h:174).                       *)
ExpirationMapBounded == op = "none" => size <= 2 * ExpirationMapSize

(* A flush ends, with every edge accepted before it in the historical graph. *)
FlushPersists ==
    op = "flush" ~> /\ op = "none"
                    /\ winLists = EmptyLists
                    /\ neigLists = EmptyLists

\* What a vertex has been through: durable, expired and recent half-edges
History(v) == stored[v] \o neigLists[v] \o winLists[v]

Log == INSTANCE EdgeLog WITH log <- [v \in Vertices |-> History(v)],
                             durable <- stored, clock <- lastTime

(* The ingest path implements EdgeLog: expiring edges from the window,       *)
(* forming blocks, giving edges back and flushing never lose, duplicate,     *)
(* alter or reorder a half-edge of any vertex, and what reaches the          *)
(* historical graph is always the oldest part of a vertex's history, which   *)
(* is what the focused interval index relies on.                             *)
ImplementsEdgeLog == Log!LogSpec
=============================================================================
