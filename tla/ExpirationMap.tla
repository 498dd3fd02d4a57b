--------------------------- MODULE ExpirationMap ---------------------------
(***************************************************************************)
(* The expiration map: the buffer between the window of recent edges and   *)
(* the historical graph.  It keeps one list of half-edges per vertex and a *)
(* priority queue of head vertices, and when it is full it forms a block   *)
(* out of prefixes of those lists and hands it to the historical graph.    *)
(*                                                                         *)
(* getBlock serves the layouts "Old", "Max" and "Random"; the scorers      *)
(* "New" and "Min" only occur below the smart layout.  getBlock is a loop; *)
(* every iteration of it is a step here, so the block under construction   *)
(* is part of the state.                                                   *)
(*                                                                         *)
(* The historical graph is seen through stored: for every vertex the       *)
(* concatenation of its lists in the blocks passed to addBlock, in order.  *)
(***************************************************************************)
EXTENDS Integers, Sequences, FiniteSets

CONSTANTS Vertices,            \* vertex ids
          NoVertex,            \* the id before any vertex is chosen
          DataSizes,           \* serialized sizes of an edge's attributes
          LayoutMode,          \* which HeadVertexScorer the map has
          ExpirationMapSize,   \* Conf::expirationMapSize, in edges
          BlockSize            \* Conf::blockSize, in bytes

\* Sizes of the parts of a serialized block, in bytes.
BlockHeaderBytes == 8
ListHeaderBytes == 12
HalfEdgeBytes == 16

ASSUME ExpirationMapAssumption ==
    /\ Vertices \subseteq Nat
    /\ IsFiniteSet(Vertices)
    /\ NoVertex \notin Vertices
    /\ DataSizes \subseteq Nat
    /\ LayoutMode \in {"Old", "New", "Max", "Min", "Random"}
    /\ ExpirationMapSize \in Nat
    /\ BlockSize \in Nat
    /\ BlockSize >= BlockHeaderBytes

VARIABLES neigLists,    \* neigLists_; an absent list is <<>>
          scoreQueue,   \* scoreQueue_, a partial function from ids to keys
          size,         \* size_, in half-edges
          pc,           \* "getBlock" inside writeBlock, else "out"
          block,        \* the block under construction, a list per vertex
          bytes,        \* its serializedSize_
          headVertex,   \* the vertex getBlock took an edge of last
          stored        \* per vertex, what the historical graph holds

formVars == <<pc, block, bytes, headVertex>>
expVars == <<neigLists, scoreQueue, size, formVars, stored>>

HalfEdge == [to : Vertices, time : Nat, bytes : DataSizes]

EmptyLists == [v \in Vertices |-> <<>>]

\* NeighborList::addEdge, for both halves of an edge between v and u
AddHalves(lists, v, u, t, d) ==
    [lists EXCEPT ![v] = Append(@, [to |-> u, time |-> t, bytes |-> d]),
                  ![u] = Append(@, [to |-> v, time |-> t, bytes |-> d])]

-----------------------------------------------------------------------------
(* PriorityQueue, with the smallest key at the top and ties broken by id.  *)

UpdateItem(q, key, id) ==
    [v \in DOMAIN q \cup {id} |-> IF v = id THEN key ELSE q[v]]

RemoveItem(q, id) == [v \in DOMAIN q \ {id} |-> q[v]]

\* Random keys are drawn again whenever an item is updated, so any item may
\* turn out to be the smallest; the keys of the other layouts decide.
TopItems(q) ==
    IF LayoutMode = "Random"
    THEN DOMAIN q
    ELSE {v \in DOMAIN q : \A u \in DOMAIN q :
             q[v] < q[u] \/ (q[v] = q[u] /\ v <= u)}

\* What a HeadVertexScorer looks at in a list of which i edges are taken: the
\* time of the next one, or how many are left.
Measure(list, i) ==
    IF LayoutMode \in {"Old", "New"} THEN list[i + 1].time ELSE Len(list) - i

\* HeadVertexScorer::score; the smallest score comes first.
Score(list, i) ==
    IF LayoutMode = "Random" THEN 0
    ELSE IF LayoutMode \in {"Old", "Min"} THEN Measure(list, i)
    ELSE -Measure(list, i)

-----------------------------------------------------------------------------
(* Blocks. *)

\* NeighborList::getEdgeAttributeData: the list has an edge to v at time t.
HasEdge(list, v, t) ==
    \E i \in 1..Len(list) : list[i].to = v /\ list[i].time = t

\* Block::addEdge: what half-edge h of head vertex v adds to the size of b.
\* The attributes are stored once if the reverse half-edge is there already.
AddedBytes(b, v, h) ==
    (IF HasEdge(b[h.to], v, h.time) THEN 0 ELSE h.bytes)
      + (IF b[v] = <<>> THEN ListHeaderBytes ELSE 0) + HalfEdgeBytes

\* Block::removeNewestEdge: the lists it leaves
RemoveNewestEdge(b, v) == [b EXCEPT ![v] = SubSeq(@, 1, Len(@) - 1)]

\* Faulty: the header of a list that becomes empty stays counted.
RemovedBytesNoHeader(b, v) ==
    LET h == b[v][Len(b[v])]
    IN  (IF b[h.to] # <<>> /\ ~HasEdge(b[h.to], v, h.time)
         THEN h.bytes ELSE 0) + HalfEdgeBytes

\* Block::removeNewestEdge: what it takes off the size of b.  The attributes
\* are taken off only if the other vertex of the edge has a list in b, and
\* the reverse half-edge is not there.
RemovedBytes(b, v) ==
    LET h == b[v][Len(b[v])]
    IN  (IF b[h.to] # <<>> /\ ~HasEdge(b[h.to], v, h.time)
         THEN h.bytes ELSE 0)
          + HalfEdgeBytes + (IF Len(b[v]) = 1 THEN ListHeaderBytes ELSE 0)

\* The inner loop of removeEdges: how many half-edges leave the list, given
\* the block's part of it.  The loop stops at the block's newest edge.
Popped(list, taken) ==
    IF taken = <<>>
    THEN 0
    ELSE LET newest == taken[Len(taken)]
         IN  CHOOSE n \in 1..Len(list) :
               /\ list[n].to = newest.to /\ list[n].time = newest.time
               /\ ~HasEdge(SubSeq(list, 1, n - 1), newest.to, newest.time)

-----------------------------------------------------------------------------
ExpInit ==
    /\ neigLists = EmptyLists
    /\ scoreQueue = [v \in {} |-> 0]
    /\ size = 0
    /\ pc = "out"
    /\ block = EmptyLists
    /\ bytes = BlockHeaderBytes
    /\ headVertex = NoVertex
    /\ stored = EmptyLists

\* writeBlock, up to the first iteration of getBlock's loop
WriteBlock == pc' = "getBlock"

\* Faulty: the size is compared before the edge is counted.
ExpAddEdgeLate(v, u, t, d) ==
    LET lists == AddHalves(neigLists, v, u, t, d)
    IN  /\ neigLists' = lists
        /\ scoreQueue' =
             UpdateItem(UpdateItem(scoreQueue, Score(lists[v], 0), v),
                        Score(lists[u], 0), u)
        /\ size' = size + 2
        /\ \/ size > 2 * ExpirationMapSize /\ WriteBlock
           \/ size <= 2 * ExpirationMapSize /\ UNCHANGED pc
        /\ UNCHANGED <<block, bytes, headVertex, stored>>

\* ExpirationMap::addEdge of the edge between v and u.  It writes at most
\* one block, however full the map is.
ExpAddEdge(v, u, t, d) ==
    LET lists == AddHalves(neigLists, v, u, t, d)
    IN  /\ neigLists' = lists
        /\ scoreQueue' =
             UpdateItem(UpdateItem(scoreQueue, Score(lists[v], 0), v),
                        Score(lists[u], 0), u)
        /\ size' = size + 2
        /\ \/ size + 2 > 2 * ExpirationMapSize /\ WriteBlock
           \/ size + 2 <= 2 * ExpirationMapSize /\ UNCHANGED pc
        /\ UNCHANGED <<block, bytes, headVertex, stored>>

\* One iteration of the loop in getBlock.  The number of edges taken from a
\* vertex (nTaken) is the length of its list in the block.
TakeEdge ==
    /\ pc = "getBlock"
    /\ bytes < BlockSize
    /\ \E v \in TopItems(scoreQueue) :
         LET i == Len(block[v])
             edge == neigLists[v][i + 1]
         IN  /\ headVertex' = v
             /\ bytes' = bytes + AddedBytes(block, v, edge)
             /\ block' = [block EXCEPT ![v] = Append(@, edge)]
             /\ scoreQueue' =
                  IF i = Len(neigLists[v]) - 1
                  THEN RemoveItem(scoreQueue, v)
                  ELSE UpdateItem(scoreQueue, Score(neigLists[v], i + 1), v)
    /\ UNCHANGED <<neigLists, size, pc, stored>>

\* The block getBlock returns: an edge too many is given back.
FormedBlock ==
    IF bytes > BlockSize THEN RemoveNewestEdge(block, headVertex) ELSE block

\* The serializedSize_ of that block
FormedBytes ==
    IF bytes > BlockSize THEN bytes - RemovedBytes(block, headVertex) ELSE bytes

\* The queue when getBlock returns.
FormedQueue ==
    IF bytes > BlockSize
    THEN UpdateItem(scoreQueue,
                    Score(neigLists[headVertex], Len(FormedBlock[headVertex])),
                    headVertex)
    ELSE scoreQueue

\* The lists when removeEdges returns.
RemainingLists ==
    [v \in Vertices |-> SubSeq(neigLists[v],
                               Popped(neigLists[v], FormedBlock[v]) + 1,
                               Len(neigLists[v]))]

\* Faulty: vertices whose list is used up stay in the queue.
RemainingQueueKept ==
    LET heads == {v \in Vertices : FormedBlock[v] # <<>>}
        gone == {v \in heads : RemainingLists[v] = <<>>}
    IN  [v \in DOMAIN FormedQueue \cup heads |->
           IF v \in heads \ gone THEN Score(RemainingLists[v], 0) ELSE 0]

\* The queue when removeEdges returns: the heads of the block leave it with
\* their list or are scored again.
RemainingQueue ==
    LET heads == {v \in Vertices : FormedBlock[v] # <<>>}
        gone == {v \in heads : RemainingLists[v] = <<>>}
    IN  [v \in (DOMAIN FormedQueue \cup heads) \ gone |->
           IF v \in heads THEN Score(RemainingLists[v], 0) ELSE FormedQueue[v]]

\* Faulty: the newest edge of a list, or one edge more, is counted wrongly.
PoppedEdgesButLast ==
    UNION {{<<v, i>> : i \in 1 .. Popped(neigLists[v], FormedBlock[v]) - 1} :
              v \in Vertices}

PoppedEdgesAndOne ==
    UNION {{<<v, i>> : i \in 0..Popped(neigLists[v], FormedBlock[v])} :
              v \in Vertices}

\* The half-edges removeEdges pops, one decrement of size_ each.
PoppedEdges ==
    UNION {{<<v, i>> : i \in 1..Popped(neigLists[v], FormedBlock[v])} :
              v \in Vertices}

\* Faulty: the block is stored with the edge that is given back.
FinishBlockUntrimmed ==
    /\ pc = "getBlock"
    /\ DOMAIN scoreQueue = {} \/ bytes >= BlockSize
    /\ neigLists' = RemainingLists
    /\ scoreQueue' = RemainingQueue
    /\ size' = size - Cardinality(PoppedEdges)
    /\ stored' = [v \in Vertices |-> stored[v] \o block[v]]
    /\ pc' = "out"
    /\ block' = EmptyLists
    /\ bytes' = BlockHeaderBytes
    /\ headVertex' = NoVertex

\* The end of getBlock, then removeEdges, then HistoricalGraph::addBlock.
FinishBlock ==
    /\ pc = "getBlock"
    /\ DOMAIN scoreQueue = {} \/ bytes >= BlockSize
    /\ neigLists' = RemainingLists
    /\ scoreQueue' = RemainingQueue
    /\ size' = size - Cardinality(PoppedEdges)
    /\ stored' = [v \in Vertices |-> stored[v] \o FormedBlock[v]]
    /\ pc' = "out"
    /\ block' = EmptyLists
    /\ bytes' = BlockHeaderBytes
    /\ headVertex' = NoVertex
=============================================================================
