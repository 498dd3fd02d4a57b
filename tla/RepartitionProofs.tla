------------------------- MODULE RepartitionProofs -------------------------
(***************************************************************************)
(* Proofs about Repartition on top of those about the index: blocks stay   *)
(* readable while they are rewritten, the list of the cache keeps to its   *)
(* size, and lookups find the slice of a time.  Then about EdgeData: an    *)
(* iterator finds the attributes it is asked for.                          *)
(***************************************************************************)
EXTENDS PartitionIndexProofs, EdgeData

-----------------------------------------------------------------------------
(* Blocks that are rewritten *)

\* Every block has an edge in the middle of its times.
DenseBlocks == \A ts \in BlockTimes : PartitioningTimestamp(ts) \in ts

\* The sub-blocks of the master block are those of the slice.
ReadableBy(id, slice) ==
    /\ Len(masters[id].subs) = Len(slice.parts)
    /\ \A i \in 1..Len(slice.parts) :
          subs[masters[id].subs[i]] =
             [times |-> masters[id].times, part |-> i,
              attrs |-> slice.parts[i]]

\* updateBlocks has still to come to the block.
Pending(id) ==
    \E i \in DOMAIN ranges :
       Contains(ranges[i], Middle(id)) /\ (i = 1 => id \notin seen)

\* The ranges that updateBlocks has still to go through are disjoint parts of
\* the slices being removed.
RangesInv ==
    /\ \A i, j \in DOMAIN ranges : \A t \in Instants :
          Contains(ranges[i], t) /\ Contains(ranges[j], t) => i = j
    /\ \A i \in DOMAIN ranges : \A t \in Instants :
          Contains(ranges[i], t) => \E s \in removed : Contains(s, t)
    /\ \A s, r \in removed : \A t \in Instants :
          Contains(s, t) /\ Contains(r, t) => s = r
    /\ removed = {} => ranges = <<>>
    /\ ranges = <<>> => seen = {}

\* The block can be read by a slice that is being removed.
ByRemoved(id) ==
    \E s \in removed : Contains(s, Middle(id)) /\ ReadableBy(id, s)

\* The block can be read by the slice of the index.
ByStored(id) ==
    \E k \in DOMAIN slices :
       Contains(slices[k], Middle(id)) /\ ReadableBy(id, slices[k])

\* No lookup of the replacement that is going on was undefined.
OnTrack == removed = {} \/ answer # Corrupt

\* A block is stored by the slice that is being removed until updateBlocks
\* comes to it, and by the slice of the index from then on.  Where the lookup
\* of the new slice is undefined the block stays as it is.
BlocksInv ==
    \A id \in DOMAIN masters :
       /\ Pending(id) => ByRemoved(id)
       /\ ~Pending(id) => ByStored(id) \/ (~OnTrack /\ ByRemoved(id))

\* The loop of updateBlocks has seen the block of every entry that the
\* iterator has stopped at, or will come to it.
VisitInv ==
    /\ ranges = <<>> => visited = {} /\ found = <<>>
    /\ \A e \in visited :
          Matches(e, ranges[1]) => e[1] \in seen \cup Range(found)

\* The inductive invariant for the blocks.
ReadInv == RangesInv /\ BlocksInv /\ VisitInv

\* Between two runs of the loop the iterator has been nowhere.
LEMMA VisitNone ==
    ASSUME visited' = {}, found' = <<>>
    PROVE  VisitInv'
BY DEF VisitInv

\* Where no loop is running the iterator stays nowhere.
LEMMA VisitIdle ==
    ASSUME ReadInv, ranges = <<>>, UNCHANGED loopVars
    PROVE  VisitInv'
<1>1. visited' = {} /\ found' = <<>>
  BY DEF ReadInv, VisitInv, loopVars
<1> QED
  BY <1>1, VisitNone

\* Storing a block leaves the other ones alone.
LEMMA OthersKept ==
    ASSUME BlockInv, NEW m, NEW old, NEW ids, NEW new,
           Stores(m, old, ids, new),
           NEW a \in DOMAIN masters, a # m, NEW s \in Slice, ReadableBy(a, s)
    PROVE  ReadableBy(a, s)'
<1>1. masters'[a] = masters[a]
  BY DEF Stores
<1>2. ASSUME NEW i \in DOMAIN masters[a].subs
      PROVE  subs'[masters[a].subs[i]] = subs[masters[a].subs[i]]
  <2>1. masters[a].subs[i] \in DOMAIN subs
    BY Zenon DEF BlockInv, OwnedInv
  <2>2. masters[a].subs[i] \notin Range(old)
    <3>1. CASE m \in DOMAIN masters /\ masters[m].subs = old
      <4> SUFFICES ASSUME masters[a].subs[i] \in Range(old) PROVE FALSE
        OBVIOUS
      <4>1. PICK j \in DOMAIN old : old[j] = masters[a].subs[i]
        BY DEF Range
      <4> QED
        BY <3>1, <4>1 DEF BlockInv, OwnedInv
    <3>2. CASE old = <<>>
      BY <3>2 DEF Range
    <3> QED
      BY <3>1, <3>2, Zenon DEF Stores
  <2> QED
    BY <2>1, <2>2 DEF Stores
<1>3. masters[a].subs \in Seq(Nat)
  BY DEF BlockInv, MasterBlock
<1>4. DOMAIN masters[a].subs = 1..Len(masters[a].subs)
  BY <1>3
<1> QED
  BY <1>1, <1>2, <1>4 DEF ReadableBy

\* The sub-blocks new are those of the slice, for a block with these times.
WrittenBy(ids, new, times, s) ==
    /\ Len(ids) = Len(s.parts)
    /\ \A i \in 1..Len(s.parts) :
          new[i] = [times |-> times, part |-> i, attrs |-> s.parts[i]]

\* A block is readable by the slice it is stored by.
LEMMA StoredReadable ==
    ASSUME NEW m, NEW old, NEW ids, NEW new, Stores(m, old, ids, new),
           NEW s \in Slice, WrittenBy(ids, new, masters'[m].times, s)
    PROVE  ReadableBy(m, s)'
<1>1. /\ masters'[m].subs = ids /\ DOMAIN ids = 1..Len(s.parts)
      /\ \A i \in DOMAIN ids : subs'[ids[i]] = new[i]
  BY DEF Stores, WrittenBy
<1> QED
  BY <1>1 DEF ReadableBy, WrittenBy

\* A block that updateBlocks has still to come to is decoded by the slice it
\* was written by.
LEMMA PendingIntact ==
    ASSUME BaseInv, ReadInv, NEW id \in DOMAIN masters, Pending(id)
    PROVE  Intact(id)
<1>1. Middle(id) \in Instants /\ masters[id].subs \in Seq(Nat)
  <2>1. masters[id].times \in BlockTimes /\ masters[id].subs \in Seq(Nat)
    BY DEF BaseInv, BlockInv, MasterBlock
  <2> QED
    BY <2>1, MiddleIs DEF Middle
<1>2. PICK s \in removed : Contains(s, Middle(id)) /\ ReadableBy(id, s)
  BY DEF ReadInv, BlocksInv, ByRemoved
<1>3. s \in Slice
  BY DEF BaseInv, IndexInv
<1>4. (CHOOSE r \in removed : Contains(r, Middle(id))) = s
  BY <1>1, <1>2 DEF ReadInv, RangesInv
<1>5. DecodingSlice(Middle(id)) = s
  BY <1>2, <1>4 DEF DecodingSlice
<1>6. ASSUME NEW i \in DOMAIN masters[id].subs
      PROVE  Decodes(subs[masters[id].subs[i]])
  <2>1. i \in 1..Len(s.parts) /\ DOMAIN s.parts = 1..Len(s.parts)
    BY <1>1, <1>2, <1>3 DEF ReadableBy, Slice
  <2> DEFINE sub == subs[masters[id].subs[i]]
  <2>2. sub = [times |-> masters[id].times, part |-> i, attrs |-> s.parts[i]]
    BY <1>2, <2>1 DEF ReadableBy
  <2> HIDE DEF sub
  <2>3. sub.times = masters[id].times /\ sub.part = i /\ sub.attrs = s.parts[i]
    BY <2>2
  <2>4. Decodes(sub)
    BY <1>5, <2>1, <2>3 DEF Decodes, Middle
  <2> QED
    BY <2>4 DEF sub
<1> QED
  BY <1>6 DEF Intact

\* The slices and the ranges are the same, and so is the block.
LEMMA BlockStays ==
    ASSUME BaseInv, ReadInv, OnTrack, UNCHANGED <<slices, removed>>,
           NEW id \in DOMAIN masters, Middle(id)' = Middle(id),
           \A s \in Slice : ReadableBy(id, s) => ReadableBy(id, s)',
           Pending(id)' <=> Pending(id)
    PROVE  (Pending(id) => ByRemoved(id))' /\ (~Pending(id) => ByStored(id))'
<1>1. removed \subseteq Slice /\ \A k \in DOMAIN slices : slices[k] \in Slice
  BY Zenon DEF BaseInv, IndexInv, Tiles
<1>2. ASSUME Pending(id)' PROVE ByRemoved(id)'
  <2>1. PICK s \in removed : Contains(s, Middle(id)) /\ ReadableBy(id, s)
    BY <1>2 DEF ReadInv, BlocksInv, ByRemoved
  <2>2. s \in removed' /\ Contains(s, Middle(id)') /\ ReadableBy(id, s)'
    BY <1>1, <2>1
  <2> QED
    BY <2>2 DEF ByRemoved
<1>3. ASSUME ~Pending(id)' PROVE ByStored(id)'
  <2>1. PICK k \in DOMAIN slices :
           Contains(slices[k], Middle(id)) /\ ReadableBy(id, slices[k])
    BY <1>3 DEF ReadInv, BlocksInv, ByStored
  <2>2. PICK s \in Slice : s = slices[k]
    BY <1>1
  <2>3. ReadableBy(id, s)'
    BY <2>1, <2>2
  <2>4. k \in DOMAIN slices' /\ Contains(slices'[k], Middle(id)')
        /\ slices'[k] = s
    BY <2>1, <2>2
  <2> QED
    BY <2>3, <2>4, Zenon DEF ByStored, ReadableBy
<1> QED
  BY <1>2, <1>3

\* A step that leaves the blocks alone leaves them readable.
LEMMA SameBlocks ==
    ASSUME UNCHANGED blockVars, NEW id, NEW s
    PROVE  /\ Middle(id)' = Middle(id)
           /\ ReadableBy(id, s) => ReadableBy(id, s)'
<1>1. masters' = masters /\ subs' = subs
  BY DEF blockVars
<1> QED
  BY <1>1 DEF Middle, ReadableBy

\* A lookup between calls concerns no block.
LEMMA GetReads ==
    ASSUME BaseInv, ReadInv, NEW t, Get(t)
    PROVE  ReadInv'
<1>1. UNCHANGED <<slices, removed, blockVars, jobVars>> /\ OnTrack
  BY DEF Get, Lookup, Idle, OnTrack
<1>2. RangesInv'
  BY <1>1 DEF ReadInv, RangesInv, jobVars, loopVars
<1>4. VisitInv'
  <2>1. ranges = <<>> /\ UNCHANGED loopVars
    BY <1>1 DEF ReadInv, RangesInv, Get, Idle, jobVars
  <2> QED
    BY <2>1, VisitIdle
<1>3. ASSUME NEW id \in DOMAIN masters'
      PROVE  (Pending(id) => ByRemoved(id))' /\ (~Pending(id) => ByStored(id))'
  <2>1. id \in DOMAIN masters
    BY <1>1 DEF blockVars
  <2>2. /\ Middle(id)' = Middle(id)
        /\ \A s \in Slice : ReadableBy(id, s) => ReadableBy(id, s)'
    BY <1>1, SameBlocks
  <2>3. Pending(id)' <=> Pending(id)
    BY <1>1, <2>2 DEF Pending, jobVars, loopVars
  <2> QED
    BY <1>1, <2>1, <2>2, <2>3, BlockStays
<1> QED
  BY <1>2, <1>3, <1>4 DEF ReadInv, BlocksInv

\* A new block is stored by the slice that its middle is in.
LEMMA AddReads ==
    ASSUME InnerLookups, BaseInv, MatchInv, ReadInv,
           NEW times \in BlockTimes, Adds(times)
    PROVE  ReadInv'
<1>1. /\ UNCHANGED <<slices, removed, jobVars>> /\ Idle
      /\ Lookup(PartitioningTimestamp(times))
      /\ \/ UNCHANGED blockVars
         \/ \E m, ids : Added(times, m, ids)
  BY AddBlockIs
<1>2. RangesInv'
  BY <1>1 DEF ReadInv, RangesInv, jobVars, loopVars
<1>3. ranges' = <<>> /\ ranges = <<>> /\ UNCHANGED loopVars /\ OnTrack
  BY <1>1 DEF Idle, ReadInv, RangesInv, jobVars, OnTrack
<1>7. VisitInv'
  BY <1>3, VisitIdle
<1>4. \A id : ~Pending(id)' /\ ~Pending(id)
  BY <1>3 DEF Pending
<1>5. CASE UNCHANGED blockVars
  <2>1. ASSUME NEW id \in DOMAIN masters'
        PROVE  (Pending(id) => ByRemoved(id))' /\ (~Pending(id) => ByStored(id))'
    <3>1. id \in DOMAIN masters
      BY <1>5 DEF blockVars
    <3>2. /\ Middle(id)' = Middle(id)
          /\ \A s \in Slice : ReadableBy(id, s) => ReadableBy(id, s)'
      BY <1>5, SameBlocks
    <3> QED
      BY <1>1, <1>3, <1>4, <3>1, <3>2, BlockStays
  <2> QED
    BY <1>2, <1>7, <2>1 DEF ReadInv, BlocksInv
<1>6. CASE \E m, ids : Added(times, m, ids)
  <2>1. PICK m, ids : Added(times, m, ids)
    BY <1>6
  <2>2. PICK new : new = SubBlocks(times, answer'.parts)
    OBVIOUS
  <2>3. Stores(m, <<>>, ids, new)
    BY <2>1, <2>2 DEF Added
  <2>4. PICK old : old = <<>>
    OBVIOUS
  <2>5. Stores(m, old, ids, new)
    BY <2>3, <2>4
  <2>6. ASSUME NEW id \in DOMAIN masters, id # m
        PROVE  (Pending(id) => ByRemoved(id))' /\ (~Pending(id) => ByStored(id))'
    <3>1. masters'[id] = masters[id]
      BY <2>5, <2>6 DEF Stores
    <3>2. Middle(id)' = Middle(id)
      BY <3>1 DEF Middle
    <3>3. \A s \in Slice : ReadableBy(id, s) => ReadableBy(id, s)'
      BY <2>5, <2>6, OthersKept DEF BaseInv
    <3> QED
      BY <1>1, <1>3, <1>4, <2>6, <3>2, <3>3, BlockStays
  <2>7. ByStored(m)'
    <3> DEFINE t == PartitioningTimestamp(times)
    <3>1. t \in Instants /\ t \notin DOMAIN slices /\ IndexInv /\ CacheMatchesDb
      BY InnerTimes DEF BaseInv, MatchInv
    <3> HIDE DEF t
    <3>2. answer' # Corrupt /\ Lookup(t)
      BY <1>1, <2>1, Zenon DEF Added, t
    <3>3. PICK k \in DOMAIN slices : Contains(slices[k], t) /\ answer' = slices[k]
      BY <3>1, <3>2, LookupIsExact
    <3>4. PICK s \in Slice : s = answer'
      BY <2>1 DEF Added
    <3>5. masters'[m].times = times /\ Len(ids) = Len(s.parts)
      BY <2>1, <3>4 DEF Added
    <3>6. WrittenBy(ids, new, masters'[m].times, s)
      BY <2>2, <3>4, <3>5 DEF SubBlocks, WrittenBy
    <3>7. ReadableBy(m, s)'
      BY <2>5, <3>4, <3>6, StoredReadable
    <3>8. Middle(m)' = t
      BY <3>5 DEF Middle, t
    <3>9. k \in DOMAIN slices' /\ slices'[k] = s /\ Contains(s, t)
      BY <1>1, <3>3, <3>4
    <3> QED
      BY <3>7, <3>8, <3>9 DEF ByStored, ReadableBy
  <2>8. DOMAIN masters' = DOMAIN masters \cup {m}
    BY <2>5, Zenon DEF Stores
  <2>9. ASSUME NEW id \in DOMAIN masters'
        PROVE  (Pending(id) => ByRemoved(id))' /\ (~Pending(id) => ByStored(id))'
    <3>1. CASE id = m
      BY <1>4, <2>7, <3>1
    <3>2. CASE id # m
      BY <2>6, <2>8, <3>2
    <3> QED
      BY <3>1, <3>2
  <2> QED
    BY <1>2, <1>7, <2>9 DEF ReadInv, BlocksInv
<1> QED
  BY <1>1, <1>5, <1>6

\* When a replacement starts, the blocks of the removed slices are pending.
LEMMA StartReads ==
    ASSUME BaseInv, ReadInv, StartsReplacing
    PROVE  ReadInv'
<1>1. PICK old, new, list : \E lo \in Nat, hi \in 0..Infinity :
         Replacing(old, new, list, lo, hi) /\ Starts(old, new, list)
  BY DEF StartsReplacing
<1>2. PICK lo \in Nat, hi \in 0..Infinity :
         Replacing(old, new, list, lo, hi) /\ Starts(old, new, list)
  BY <1>1
<1>3. removed = {} /\ ranges = <<>> /\ seen = {} /\ OnTrack
  BY <1>2 DEF Starts, Idle, ReadInv, RangesInv, OnTrack
<1>4. /\ removed' = old /\ ranges' = list /\ seen' = {}
      /\ UNCHANGED blockVars /\ UNCHANGED loopVars
  BY <1>2, <1>3 DEF Starts, ReplaceSlices, loopVars
<1>10. VisitInv'
  BY <1>3, <1>4, VisitIdle
<1> DEFINE g == Replaced(slices, old, new)
<1>5. slices' = g
  BY <1>2 DEF Starts, ReplaceSlices, Replaced
<1>6. /\ Tiles(slices) /\ old # {}
      /\ old \subseteq {slices[k] : k \in DOMAIN slices}
      /\ Spans(old, lo, hi) /\ Spans(new, lo, hi)
  BY <1>2, Zenon DEF BaseInv, IndexInv, Replacing
<1>7. \A k \in DOMAIN slices :
         slices[k] \notin old => k \in DOMAIN g /\ g[k] = slices[k]
  <2>1. TiledAnew(slices, g, old, new)
    BY <1>6, TilesReplaced
  <2> HIDE DEF g
  <2> QED
    BY <2>1, Zenon DEF TiledAnew
<1> HIDE DEF g
<1>8. RangesInv'
  <2>1. /\ \A i, j \in DOMAIN list : \A t \in Instants :
              Contains(list[i], t) /\ Contains(list[j], t) => i = j
        /\ \A i \in DOMAIN list : \A t \in Instants :
              Contains(list[i], t) => \E s \in old : Contains(s, t)
    BY <1>2 DEF Replacing
  <2>2. \A s, r \in old : \A t \in Instants :
           Contains(s, t) /\ Contains(r, t) => s = r
    BY <1>6 DEF Spans
  <2> QED
    BY <1>4, <1>6, <2>1, <2>2 DEF RangesInv
<1>9. ASSUME NEW id \in DOMAIN masters'
      PROVE  (Pending(id) => ByRemoved(id))' /\ (~Pending(id) => ByStored(id))'
  <2>1. id \in DOMAIN masters
    BY <1>4 DEF blockVars
  <2>2. /\ Middle(id)' = Middle(id)
        /\ \A s \in Slice : ReadableBy(id, s) => ReadableBy(id, s)'
    BY <1>4, SameBlocks
  <2>3. Middle(id) \in Instants
    <3>1. masters[id].times \in BlockTimes
      BY <2>1 DEF BaseInv, BlockInv, MasterBlock
    <3> QED
      BY <3>1, MiddleIs DEF Middle
  <2>4. ~Pending(id)
    BY <1>3 DEF Pending
  <2>5. PICK k \in DOMAIN slices :
           Contains(slices[k], Middle(id)) /\ ReadableBy(id, slices[k])
    BY <1>3, <2>1, <2>4 DEF ReadInv, BlocksInv, ByStored
  <2>6. PICK s \in Slice : s = slices[k]
    BY <1>6 DEF Tiles
  <2>7. ReadableBy(id, s)' /\ Contains(s, Middle(id)')
    BY <2>2, <2>5, <2>6
  <2>8. Pending(id)' <=> \E i \in DOMAIN list : Contains(list[i], Middle(id))
    BY <1>4, <2>2 DEF Pending
  <2>9. ASSUME Pending(id)' PROVE ByRemoved(id)'
    <3>1. PICK r \in old : Contains(r, Middle(id))
      BY <1>2, <2>3, <2>8, <2>9, Zenon DEF Replacing
    <3>2. PICK l \in DOMAIN slices : r = slices[l]
      BY <1>6
    <3>3. l = k
      BY <1>6, <2>3, <2>5, <3>1, <3>2, Zenon DEF Tiles
    <3>4. s \in removed'
      BY <1>4, <2>6, <3>2, <3>3
    <3> QED
      BY <2>7, <3>4 DEF ByRemoved
  <2>10. ASSUME ~Pending(id)' PROVE ByStored(id)'
    <3>1. slices[k] \notin old
      BY <1>2, <2>3, <2>5, <2>8, <2>10, Zenon DEF Replacing
    <3>2. k \in DOMAIN slices' /\ slices'[k] = s
      BY <1>5, <1>7, <2>6, <3>1
    <3> QED
      BY <2>7, <3>2 DEF ByStored, ReadableBy
  <2> QED
    BY <2>9, <2>10
<1> QED
  BY <1>8, <1>9, <1>10 DEF ReadInv, BlocksInv

\* The iterator stops at every entry that has an edge in the range.
LEMMA FindVisits ==
    ASSUME BaseInv, ReadInv, NEW e \in Entries, FindNext(e)
    PROVE  VisitInv'
<1>1. /\ ranges # <<>> /\ UNCHANGED <<ranges, seen>> /\ UNCHANGED blockVars
      /\ visited' = visited \cup {e} /\ e[1] \in DOMAIN masters
      /\ found' = IF Matches(e, ranges[1]) THEN Append(found, e[1]) ELSE found
  BY FindNextIs
<1>2. found \in Seq(DOMAIN masters)
  BY DEF BaseInv, LoopInv
<1>3. /\ Range(found) \subseteq Range(found')
      /\ Matches(e, ranges[1]) => e[1] \in Range(found')
  <2>1. CASE Matches(e, ranges[1])
    <3>1. found' = Append(found, e[1])
      BY <1>1, <2>1
    <3>2. Range(found') = Range(found) \cup {e[1]}
      BY <1>1, <1>2, <3>1 DEF Range
    <3> QED
      BY <3>2
  <2>2. CASE ~Matches(e, ranges[1])
    BY <1>1, <2>2
  <2> QED
    BY <2>1, <2>2
<1>4. ASSUME NEW a \in visited', Matches(a, ranges[1])'
      PROVE  a[1] \in seen' \cup Range(found')
  <2>1. Matches(a, ranges[1])
    BY <1>1, <1>4 DEF Matches, ListOf, blockVars
  <2>2. CASE a = e
    BY <1>3, <2>1, <2>2
  <2>3. CASE a \in visited
    BY <1>1, <1>3, <2>1, <2>3 DEF ReadInv, VisitInv
  <2> QED
    BY <1>1, <2>2, <2>3
<1>5. ranges' # <<>>
  BY <1>1
<1> QED
  BY <1>4, <1>5 DEF VisitInv

\* A block that the loop is done with has been seen.
LEMMA UpdateVisits ==
    ASSUME BaseInv, ReadInv, NEW id \in DOMAIN masters, UpdateBlock(id)
    PROVE  VisitInv'
<1>1. /\ ranges # <<>> /\ UNCHANGED <<ranges, visited>>
      /\ found # <<>> /\ id = Head(found) /\ found' = Tail(found)
      /\ seen' = seen \cup {id}
  BY UpdateBlockIs
<1>2. found \in Seq(DOMAIN masters) /\ visited \subseteq Entries
  BY DEF BaseInv, LoopInv
<1>3. Range(found) \subseteq {id} \cup Range(found')
  <2> SUFFICES ASSUME NEW i \in DOMAIN found
               PROVE  found[i] \in {id} \cup Range(found')
    BY DEF Range
  <2>1. CASE i = 1
    BY <1>1, <1>2, <2>1
  <2>2. CASE i # 1
    <3>1. i - 1 \in DOMAIN found' /\ found'[i - 1] = found[i]
      BY <1>1, <1>2, <2>2
    <3> QED
      BY <3>1 DEF Range
  <2> QED
    BY <2>1, <2>2
<1>4. KeepsLists
  BY UpdateBlockKeeps
<1>5. ASSUME NEW e \in visited', Matches(e, ranges[1])'
      PROVE  e[1] \in seen' \cup Range(found')
  <2>1. e \in visited /\ ListOf(e)' = ListOf(e)
    BY <1>1, <1>2, <1>4, EntriesKept
  <2>2. Matches(e, ranges[1])
    BY <1>1, <1>5, <2>1 DEF Matches
  <2>3. e[1] \in seen \cup Range(found)
    BY <2>1, <2>2 DEF ReadInv, VisitInv
  <2> QED
    BY <1>1, <1>3, <2>3
<1>6. ranges' # <<>>
  BY <1>1
<1> QED
  BY <1>5, <1>6 DEF VisitInv

\* updateBlocks comes to a block: it is rewritten if its middle is in the
\* range, and then readable by the slice of the index.
LEMMA UpdateReads ==
    ASSUME InnerLookups, BaseInv, MatchInv, ReadInv,
           NEW id \in DOMAIN masters, UpdateBlock(id)
    PROVE  ReadInv'
<1>1. /\ ranges # <<>> /\ answer # Corrupt
      /\ seen' = seen \cup {id} /\ ranges' = ranges
      /\ UNCHANGED <<slices, removed>>
      /\ Updates(id) \/ Skips(id) \/ Fails(id)
  BY UpdateBlockIs
<1>2. ranges \in Seq(Slice) /\ 1 \in DOMAIN ranges
  <2>1. ranges \in Seq(Slice)
    BY DEF BaseInv
  <2> QED
    BY <1>1, <2>1
<1>3. OnTrack /\ removed # {}
  BY <1>1 DEF OnTrack, ReadInv, RangesInv
<1>9. VisitInv'
  BY UpdateVisits
<1>4. RangesInv'
  BY <1>1, <1>2 DEF ReadInv, RangesInv
<1>5. Middle(id) \in Instants /\ Middle(id) \notin DOMAIN slices
  BY MiddleInner DEF MatchInv
<1>6. ASSUME NEW a \in DOMAIN masters, Middle(a)' = Middle(a), a # id
      PROVE  Pending(a)' <=> Pending(a)
  BY <1>1, <1>6 DEF Pending
<1>7. CASE Updates(id)
  <2>1. PICK ids, new : Rewritten(id, answer'.parts, ids, new)
    BY <1>7 DEF Updates
  <2>2. PICK old : old = masters[id].subs
    OBVIOUS
  <2>3. Stores(id, old, ids, new) /\ masters'[id].times = masters[id].times
    BY <2>1, <2>2 DEF Rewritten
  <2>4. ASSUME NEW a \in DOMAIN masters, a # id
        PROVE  (Pending(a) => ByRemoved(a))' /\ (~Pending(a) => ByStored(a))'
    <3>1. masters'[a] = masters[a]
      BY <2>3, <2>4, Zenon DEF Stores
    <3>2. Middle(a)' = Middle(a)
      BY <3>1, Zenon DEF Middle
    <3>3. \A s \in Slice : ReadableBy(a, s) => ReadableBy(a, s)'
      BY <2>3, <2>4, OthersKept DEF BaseInv
    <3>4. Pending(a)' <=> Pending(a)
      BY <1>6, <2>4, <3>2
    <3> QED
      BY <1>1, <1>3, <2>4, <3>2, <3>3, <3>4, BlockStays
  <2>5. Middle(id)' = Middle(id)
    BY <2>3 DEF Middle
  <2>6. Contains(ranges[1], Middle(id)) /\ Lookup(Middle(id))
        /\ answer' \in Slice /\ answer' # Corrupt
    BY <1>7 DEF Updates
  <2>7. Pending(id)
    BY <1>2, <1>7, <2>6 DEF Pending, Updates
  <2>8. Intact(id)
    BY <2>7, PendingIntact
  <2>9. ~Pending(id)'
    <3>1. \A i \in DOMAIN ranges : Contains(ranges[i], Middle(id)) => i = 1
      BY <1>2, <1>5, <2>6 DEF ReadInv, RangesInv
    <3> QED
      BY <1>1, <2>5, <3>1 DEF Pending
  <2>10. PICK k \in DOMAIN slices :
            Contains(slices[k], Middle(id)) /\ answer' = slices[k]
    <3> DEFINE t == Middle(id)
    <3>1. t \in Instants /\ t \notin DOMAIN slices /\ Lookup(t)
          /\ IndexInv /\ CacheMatchesDb
      BY <1>5, <2>6 DEF BaseInv, MatchInv
    <3> HIDE DEF t
    <3>2. \E k \in DOMAIN slices : Contains(slices[k], t) /\ answer' = slices[k]
      BY <2>6, <3>1, LookupIsExact
    <3> QED
      BY <3>2 DEF t
  <2>11. PICK s \in Slice : s = answer'
    BY <2>6
  <2>12. WrittenBy(ids, new, masters'[id].times, s)
    BY <2>1, <2>3, <2>8, <2>11 DEF Rewritten, WrittenBy
  <2>13. ReadableBy(id, s)'
    BY <2>3, <2>11, <2>12, StoredReadable
  <2>14. k \in DOMAIN slices' /\ slices'[k] = s /\ Contains(s, Middle(id)')
    BY <1>1, <2>5, <2>10, <2>11
  <2>15. ByStored(id)'
    BY <2>13, <2>14, Zenon DEF ByStored, ReadableBy
  <2>16. DOMAIN masters' = DOMAIN masters
    <3>1. DOMAIN masters' = DOMAIN masters \cup {id}
      BY <2>3, Zenon DEF Stores
    <3> QED
      BY <3>1
  <2>17. ASSUME NEW a \in DOMAIN masters'
         PROVE  (Pending(a) => ByRemoved(a))' /\ (~Pending(a) => ByStored(a))'
    <3>1. CASE a = id
      BY <2>9, <2>15, <3>1
    <3>2. CASE a # id
      BY <2>4, <2>16, <3>2
    <3> QED
      BY <3>1, <3>2
  <2> QED
    BY <1>4, <1>9, <2>17 DEF ReadInv, BlocksInv
<1>8. ASSUME UNCHANGED blockVars, NEW a \in DOMAIN masters,
             Pending(a)' <=> Pending(a)
      PROVE  (Pending(a) => ByRemoved(a))' /\ (~Pending(a) => ByStored(a))'
  <2>1. /\ Middle(a)' = Middle(a)
        /\ \A s \in Slice : ReadableBy(a, s) => ReadableBy(a, s)'
    BY <1>8, SameBlocks
  <2> QED
    BY <1>1, <1>3, <1>8, <2>1, BlockStays
<1>10. CASE Skips(id)
  <2>1. UNCHANGED blockVars /\ DOMAIN masters' = DOMAIN masters
    BY <1>10 DEF Skips, blockVars
  <2>2. ASSUME NEW a \in DOMAIN masters'
        PROVE  (Pending(a) => ByRemoved(a))' /\ (~Pending(a) => ByStored(a))'
    <3>1. a \in DOMAIN masters /\ Middle(a)' = Middle(a)
      BY <2>1, SameBlocks
    <3>2. Pending(a)' <=> Pending(a)
      <4>1. CASE a = id
        BY <1>1, <1>10, <3>1, <4>1 DEF Pending, Skips
      <4>2. CASE a # id
        BY <1>6, <3>1, <4>2
      <4> QED
        BY <4>1, <4>2
    <3> QED
      BY <1>8, <2>1, <3>1, <3>2
  <2> QED
    BY <1>4, <1>9, <2>2 DEF ReadInv, BlocksInv
<1>11. CASE Fails(id)
  <2>1. UNCHANGED blockVars /\ DOMAIN masters' = DOMAIN masters
    BY <1>11 DEF Fails, blockVars
  <2>2. answer' = Corrupt
    <3> DEFINE t == Middle(id)
    <3>1. t \in Instants /\ t \notin DOMAIN slices /\ Lookup(t)
          /\ IndexInv /\ CacheMatchesDb
      BY <1>5, <1>11 DEF BaseInv, MatchInv, Fails
    <3> HIDE DEF t
    <3>2. (\E k \in DOMAIN slices : answer' = slices[k]) \/ answer' = Corrupt
      BY <3>1, LookupIsExact
    <3>3. \A k \in DOMAIN slices : slices[k] \in Slice
      BY <3>1 DEF IndexInv, Tiles
    <3> QED
      BY <1>11, <3>2, <3>3, AnswerAssumption DEF Fails
  <2>3. ~OnTrack'
    BY <1>1, <1>3, <2>2 DEF OnTrack
  <2>4. ASSUME NEW a \in DOMAIN masters', a # id
        PROVE  (Pending(a) => ByRemoved(a))' /\ (~Pending(a) => ByStored(a))'
    <3>1. a \in DOMAIN masters /\ Middle(a)' = Middle(a)
      BY <2>1, SameBlocks
    <3>2. Pending(a)' <=> Pending(a)
      BY <1>6, <2>4, <3>1
    <3> QED
      BY <1>8, <2>1, <3>1, <3>2
  <2>5. ByRemoved(id)'
    <3>1. Pending(id)
      BY <1>2, <1>11 DEF Pending, Fails
    <3>2. PICK s \in removed : Contains(s, Middle(id)) /\ ReadableBy(id, s)
      BY <3>1 DEF ReadInv, BlocksInv, ByRemoved
    <3>3. ReadableBy(id, s)' /\ Middle(id)' = Middle(id) /\ s \in removed'
      BY <1>1, <2>1, <3>2, SameBlocks
    <3> QED
      BY <3>2, <3>3 DEF ByRemoved
  <2>6. ASSUME NEW a \in DOMAIN masters'
        PROVE  /\ (Pending(a) => ByRemoved(a))'
               /\ (~Pending(a) => ByStored(a) \/ (~OnTrack /\ ByRemoved(a)))'
    <3>1. CASE a = id
      BY <2>3, <2>5, <3>1
    <3>2. CASE a # id
      BY <2>4, <3>2
    <3> QED
      BY <3>1, <3>2
  <2> QED
    BY <1>4, <1>9, <2>6 DEF ReadInv, BlocksInv
<1> QED
  BY <1>1, <1>7, <1>10, <1>11

\* findNext comes to an entry: no block is written.
LEMMA FindReads ==
    ASSUME BaseInv, ReadInv, NEW e \in Entries, FindNext(e)
    PROVE  ReadInv'
<1>1. /\ ranges # <<>> /\ answer # Corrupt
      /\ UNCHANGED <<slices, removed, blockVars>>
      /\ UNCHANGED <<ranges, seen, replacements>>
  BY FindNextIs
<1>2. RangesInv'
  BY <1>1 DEF ReadInv, RangesInv
<1>3. OnTrack
  BY <1>1 DEF OnTrack
<1>4. ASSUME NEW id \in DOMAIN masters'
      PROVE  (Pending(id) => ByRemoved(id))' /\ (~Pending(id) => ByStored(id))'
  <2>1. id \in DOMAIN masters
    BY <1>1 DEF blockVars
  <2>2. /\ Middle(id)' = Middle(id)
        /\ \A s \in Slice : ReadableBy(id, s) => ReadableBy(id, s)'
    BY <1>1, SameBlocks
  <2>3. Pending(id)' <=> Pending(id)
    BY <1>1, <2>2 DEF Pending
  <2> QED
    BY <1>1, <1>3, <2>1, <2>2, <2>3, BlockStays
<1>5. VisitInv'
  BY FindVisits
<1> QED
  BY <1>2, <1>4, <1>5 DEF ReadInv, BlocksInv

\* The iterator stops at a block that has an edge in the middle of its times
\* and its middle in the range.
LEMMA MiddleReached ==
    ASSUME DenseBlocks, BaseInv, NEW id \in DOMAIN masters,
           NEW range \in Slice, Contains(range, Middle(id))
    PROVE  \E e \in Reached(range) : e[1] = id /\ Matches(e, range)
<1>1. PICK lists \in BlockLists :
         masters[id].lists = lists /\ masters[id].times = AllTimes(lists)
  BY DEF BaseInv, BlockInv, MasterBlock
<1>2. Middle(id) \in AllTimes(lists)
  <2>1. AllTimes(lists) \in BlockTimes
    BY DEF BlockTimes
  <2> QED
    BY <1>1, <2>1 DEF DenseBlocks, Middle
<1>3. PICK i \in DOMAIN lists : Middle(id) \in lists[i]
  BY <1>2 DEF AllTimes, Range
<1> DEFINE e == <<id, i>>
           T == lists[i]
<1>4. ListOf(e) = T /\ e[1] = id
  BY <1>1 DEF ListOf
<1>5. e \in Entries
  <2>1. e \in {<<id, j>> : j \in DOMAIN masters[id].lists}
    BY <1>1, <1>3
  <2> QED
    BY <2>1 DEF Entries
<1>6. T # {} /\ T \subseteq 1 .. Infinity - 1 /\ Middle(id) \in T
  BY <1>3, ListsAre
<1> HIDE DEF T, e
<1>7. Matches(e, range)
  BY <1>4, <1>6 DEF Matches
<1>8. Min(T) < range.end /\ Max(T) >= range.start
  <2>1. T \subseteq Nat
    BY <1>6, PartitionIndexAssumption
  <2>2. Min(T) \in T /\ Min(T) <= Middle(id)
    BY <1>6, <2>1, LeastIs
  <2>3. Max(T) \in T /\ Middle(id) <= Max(T)
    <3>1. T \subseteq 0..Infinity /\ Infinity \in Nat
      BY <1>6, PartitionIndexAssumption
    <3>2. Max(T) \in T /\ \A y \in T : Max(T) >= y
      BY <1>6, <3>1, GreatestIs
    <3> QED
      BY <1>6, <2>1, <3>2
  <2>4. range.start \in Nat /\ range.end \in Nat
    BY PartitionIndexAssumption DEF Slice
  <2>5. Min(T) \in Nat /\ Max(T) \in Nat /\ Middle(id) \in Nat
    BY <1>6, <2>1, <2>2, <2>3
  <2> QED
    BY <2>2, <2>3, <2>4, <2>5 DEF Contains
<1>9. e \in Reached(range)
  BY <1>4, <1>5, <1>8 DEF Reached
<1> QED
  BY <1>4, <1>7, <1>9

\* The iterator of updateBlocks is exhausted only after it has come to every
\* block whose middle is in the range.
LEMMA EndReads ==
    ASSUME DenseBlocks, BaseInv, ReadInv, EndUpdateBlocks
    PROVE  ReadInv'
<1>1. /\ ranges # <<>> /\ Unvisited(ranges[1]) = {} /\ found = <<>>
      /\ ranges' = Tail(ranges) /\ seen' = {} /\ OnTrack
      /\ UNCHANGED <<slices, removed>> /\ UNCHANGED blockVars
  BY DEF EndUpdateBlocks, partitionVars, OnTrack
<1>6. VisitInv'
  <2>1. visited' = {} /\ found' = <<>>
    BY DEF EndUpdateBlocks
  <2> QED
    BY <2>1, VisitNone
<1>2. /\ ranges \in Seq(Slice) /\ Len(ranges) \in Nat \ {0}
      /\ DOMAIN ranges = 1..Len(ranges)
      /\ DOMAIN ranges' = 1 .. Len(ranges) - 1
      /\ \A i \in DOMAIN ranges' : ranges'[i] = ranges[i + 1]
  <2>1. ranges \in Seq(Slice)
    BY DEF BaseInv
  <2> QED
    BY <1>1, <2>1
<1>3. \A i \in DOMAIN ranges' : i + 1 \in DOMAIN ranges /\ i + 1 # 1 /\ i \in Nat
  BY <1>2
<1>4. RangesInv'
  <2>1. ASSUME NEW i \in DOMAIN ranges', NEW j \in DOMAIN ranges',
               NEW t \in Instants,
               Contains(ranges'[i], t), Contains(ranges'[j], t)
        PROVE  i = j
    <3>1. i + 1 = j + 1
      BY <1>2, <1>3, <2>1 DEF ReadInv, RangesInv
    <3> QED
      BY <1>3, <3>1
  <2>2. ASSUME NEW i \in DOMAIN ranges', NEW t \in Instants,
               Contains(ranges'[i], t)
        PROVE  \E s \in removed' : Contains(s, t)
    BY <1>1, <1>2, <1>3, <2>2 DEF ReadInv, RangesInv
  <2>3. removed' # {}
    BY <1>1 DEF ReadInv, RangesInv
  <2>4. \A s, r \in removed' : \A t \in Instants :
           Contains(s, t) /\ Contains(r, t) => s = r
    BY <1>1 DEF ReadInv, RangesInv
  <2> QED
    BY <1>1, <2>1, <2>2, <2>3, <2>4 DEF RangesInv
<1>5. ASSUME NEW id \in DOMAIN masters'
      PROVE  (Pending(id) => ByRemoved(id))' /\ (~Pending(id) => ByStored(id))'
  <2>1. id \in DOMAIN masters
    BY <1>1 DEF blockVars
  <2>2. /\ Middle(id)' = Middle(id)
        /\ \A s \in Slice : ReadableBy(id, s) => ReadableBy(id, s)'
    BY <1>1, SameBlocks
  <2>3. Contains(ranges[1], Middle(id)) => id \in seen
    <3> SUFFICES ASSUME Contains(ranges[1], Middle(id)) PROVE id \in seen
      OBVIOUS
    <3>1. ranges[1] \in Slice
      BY <1>2
    <3>2. PICK e \in Reached(ranges[1]) : e[1] = id /\ Matches(e, ranges[1])
      BY <2>1, <3>1, MiddleReached
    <3>3. e \in visited
      BY <1>1, <3>2 DEF Unvisited
    <3>4. Range(<<>>) = {}
      BY DEF Range
    <3> QED
      BY <1>1, <3>2, <3>3, <3>4 DEF ReadInv, VisitInv
  <2>4. Pending(id)' <=> Pending(id)
    <3>1. ASSUME Pending(id)' PROVE Pending(id)
      <4>1. PICK i \in DOMAIN ranges' : Contains(ranges'[i], Middle(id)')
        BY <3>1 DEF Pending
      <4> QED
        BY <1>2, <1>3, <2>2, <4>1 DEF Pending
    <3>2. ASSUME Pending(id) PROVE Pending(id)'
      <4>1. PICK i \in DOMAIN ranges : Contains(ranges[i], Middle(id))
                                       /\ (i = 1 => id \notin seen)
        BY <3>2 DEF Pending
      <4>2. i # 1
        BY <2>3, <4>1
      <4>3. i - 1 \in DOMAIN ranges' /\ (i - 1) + 1 = i
        BY <1>2, <4>2
      <4>4. ranges'[i - 1] = ranges[i]
        BY <1>2, <4>3
      <4> QED
        BY <1>1, <2>2, <4>1, <4>3, <4>4 DEF Pending
    <3> QED
      BY <3>1, <3>2
  <2> QED
    BY <1>1, <2>1, <2>2, <2>4, BlockStays, Zenon
<1> QED
  BY <1>4, <1>5, <1>6 DEF ReadInv, BlocksInv

\* The removed slices are forgotten when no block is stored by them.
LEMMA CompleteReads ==
    ASSUME BaseInv, ReadInv, CompletePartitioningRemovals
    PROVE  ReadInv'
<1>1. /\ ranges = <<>> /\ ranges' = <<>> /\ seen' = seen /\ removed' = {}
      /\ slices' = slices /\ UNCHANGED blockVars /\ UNCHANGED loopVars
      /\ OnTrack
  BY DEF CompletePartitioningRemovals, jobVars, loopVars, OnTrack
<1>2. RangesInv' /\ VisitInv'
  BY <1>1, VisitIdle DEF ReadInv, RangesInv
<1>3. ASSUME NEW id \in DOMAIN masters'
      PROVE  ~Pending(id)' /\ ByStored(id)'
  <2>1. id \in DOMAIN masters
    BY <1>1 DEF blockVars
  <2>2. /\ Middle(id)' = Middle(id)
        /\ \A s \in Slice : ReadableBy(id, s) => ReadableBy(id, s)'
    BY <1>1, SameBlocks
  <2>3. ~Pending(id)' /\ ~Pending(id)
    BY <1>1 DEF Pending
  <2>4. PICK k \in DOMAIN slices :
           Contains(slices[k], Middle(id)) /\ ReadableBy(id, slices[k])
    BY <1>1, <2>1, <2>3 DEF ReadInv, BlocksInv, ByStored
  <2>5. PICK s \in Slice : s = slices[k]
    BY Zenon DEF BaseInv, IndexInv, Tiles
  <2>6. ReadableBy(id, s)' /\ slices'[k] = s /\ Contains(s, Middle(id)')
    BY <1>1, <2>2, <2>4, <2>5
  <2>7. k \in DOMAIN slices'
    BY <1>1
  <2> QED
    BY <2>3, <2>6, <2>7 DEF ByStored, ReadableBy
<1> QED
  BY <1>2, <1>3 DEF ReadInv, BlocksInv

\* A new database has no block.
LEMMA ReadInit ==
    ASSUME Init
    PROVE  ReadInv
<1>1. /\ ranges = <<>> /\ removed = {} /\ seen = {} /\ DOMAIN masters = {}
      /\ visited = {} /\ found = <<>>
  BY DEF Init, PartitionInit
<1> QED
  BY <1>1 DEF ReadInv, RangesInv, BlocksInv, VisitInv

\* Every step keeps every block readable, by a slice that is being removed or
\* by one of the index.
LEMMA ReadStep ==
    ASSUME InnerLookups, DenseBlocks, BaseInv, MatchInv, ReadInv, [Next]_vars
    PROVE  ReadInv'
<1>0. IndexInv
  BY DEF BaseInv
<1>1. ASSUME NEW times \in BlockTimes, Adds(times) PROVE ReadInv'
  BY <1>1, AddReads
<1>2. ASSUME NEW t \in LookupTimes, Get(t) PROVE ReadInv'
  BY <1>2, GetReads
<1>3. ASSUME StartsReplacing PROVE ReadInv'
  BY <1>3, StartReads
<1>4. ASSUME NEW id \in DOMAIN masters, UpdateBlock(id) PROVE ReadInv'
  BY <1>4, UpdateReads
<1>8. ASSUME NEW e \in Entries, FindNext(e) PROVE ReadInv'
  BY <1>8, FindReads
<1>5. ASSUME EndUpdateBlocks PROVE ReadInv'
  BY <1>5, EndReads
<1>6. ASSUME CompletePartitioningRemovals PROVE ReadInv'
  BY <1>6, CompleteReads
<1>7. ASSUME UNCHANGED vars PROVE ReadInv'
  <2>1. /\ UNCHANGED <<slices, cache, lruList, removed, answer>>
        /\ UNCHANGED <<masters, subs, nextBlockId>>
        /\ UNCHANGED <<ranges, visited, found, seen>>
    BY <1>7 DEF vars, partitionVars, blockVars, jobVars, loopVars
  <2>2. RangesInv'
    BY <2>1 DEF ReadInv, RangesInv
  <2>7. VisitInv' /\ (OnTrack' <=> OnTrack)
    BY <2>1 DEF ReadInv, VisitInv, Matches, ListOf, OnTrack
  <2>3. \A id : Middle(id)' = Middle(id) /\ (Pending(id)' <=> Pending(id))
    BY <2>1 DEF Middle, Pending
  <2>4. \A id, s : ReadableBy(id, s)' <=> ReadableBy(id, s)
    BY <2>1 DEF ReadableBy
  <2>5. \A id : ByRemoved(id) => ByRemoved(id)'
    BY <2>1, <2>3, <2>4 DEF ByRemoved
  <2>6. \A id : ByStored(id) => ByStored(id)'
    BY <2>1, <2>3, <2>4 DEF ByStored
  <2> QED
    BY <2>1, <2>2, <2>3, <2>5, <2>6, <2>7 DEF ReadInv, BlocksInv
<1> QED
  BY <1>0, <1>1, <1>2, <1>3, <1>4, <1>5, <1>6, <1>7, <1>8, StepIs

\* Blocks are readable at all times, also while updateBlocks rewrites them.
LEMMA ReadHolds ==
    ASSUME InnerLookups, DenseBlocks
    PROVE  Spec => []ReadInv
<1>1. Init => ReadInv
  BY ReadInit
<1>2. BaseInv /\ MatchInv /\ ReadInv /\ [Next]_vars => ReadInv'
  BY ReadStep
<1> QED
  BY <1>1, <1>2, BaseHolds, MatchHolds, PTL DEF Spec

\* Between calls a block is read by the slice of the index.
LEMMA ReadableInv ==
    ASSUME BaseInv, ReadInv
    PROVE  BlocksReadable
<1>1. SUFFICES ASSUME Idle, NEW id \in DOMAIN masters
               PROVE  LET times == masters[id].times
                          parts == DecodingSlice(
                                      PartitioningTimestamp(times)).parts
                          ids   == masters[id].subs
                      IN  /\ Len(ids) = Len(parts)
                          /\ \A i \in DOMAIN ids :
                                subs[ids[i]] = SubBlocks(times, parts)[i]
  BY Zenon DEF BlocksReadable
<1>2. removed = {} /\ ranges = <<>> /\ OnTrack
  BY <1>1 DEF Idle, ReadInv, RangesInv, OnTrack
<1>3. ~Pending(id)
  BY <1>2 DEF Pending
<1>4. PICK k \in DOMAIN slices :
         Contains(slices[k], Middle(id)) /\ ReadableBy(id, slices[k])
  BY <1>2, <1>3 DEF ReadInv, BlocksInv, ByStored
<1>5. masters[id].times \in BlockTimes /\ masters[id].subs \in Seq(Nat)
  BY DEF BaseInv, BlockInv, MasterBlock
<1>6. Middle(id) \in Instants
  BY <1>5, MiddleIs DEF Middle
<1>7. Tiles(slices) /\ slices[k] \in Slice
  BY DEF BaseInv, IndexInv, Tiles
<1>8. DecodingSlice(Middle(id)) = slices[k]
  <2> DEFINE t == Middle(id)
  <2>1. t \in Instants /\ Contains(slices[k], t)
    BY <1>4, <1>6
  <2> HIDE DEF t
  <2>2. Min(KeysFrom(slices, t + 1)) = k
    BY <1>7, <2>1, SeekFinds
  <2>3. DecodingSlice(t) = slices[k]
    BY <1>2, <2>2 DEF DecodingSlice
  <2> QED
    BY <2>3 DEF t
<1> DEFINE parts == slices[k].parts
           ids == masters[id].subs
           times == masters[id].times
<1>9. Len(ids) = Len(parts) /\ DOMAIN ids = 1..Len(parts)
  BY <1>4, <1>5 DEF ReadableBy
<1>10. \A i \in DOMAIN ids : subs[ids[i]] = SubBlocks(times, parts)[i]
  BY <1>4, <1>9 DEF ReadableBy, SubBlocks
<1> QED
  BY <1>8, <1>9, <1>10, Zenon DEF Middle

\* Every sub-block has attributes of some slice.
LEMMA CleanInv ==
    ASSUME BaseInv, ReadInv
    PROVE  NothingGarbled
<1>1. SUFFICES ASSUME NEW x \in DOMAIN subs
               PROVE  subs[x].attrs # Garbled
  BY DEF NothingGarbled
<1>2. PICK a \in DOMAIN masters : \E i \in DOMAIN masters[a].subs :
         masters[a].subs[i] = x
  BY DEF BaseInv, BlockInv, OwnedInv
<1>3. PICK i \in DOMAIN masters[a].subs : masters[a].subs[i] = x
  BY <1>2
<1>4. masters[a].subs \in Seq(Nat)
  BY DEF BaseInv, BlockInv, MasterBlock
<1>5. removed \subseteq Slice /\ \A k \in DOMAIN slices : slices[k] \in Slice
  BY Zenon DEF BaseInv, IndexInv, Tiles
<1>6. ByRemoved(a) \/ ByStored(a)
  BY DEF ReadInv, BlocksInv
<1>7. PICK s \in Slice : ReadableBy(a, s)
  BY <1>5, <1>6 DEF ByRemoved, ByStored
<1>8. i \in 1..Len(s.parts)
  BY <1>4, <1>7 DEF ReadableBy
<1>9. subs[x].attrs = s.parts[i]
  <2>1. subs[masters[a].subs[i]] = [times |-> masters[a].times, part |-> i,
                                    attrs |-> s.parts[i]]
    BY <1>7, <1>8 DEF ReadableBy
  <2>2. subs[x] = [times |-> masters[a].times, part |-> i,
                   attrs |-> s.parts[i]]
    BY <1>3, <2>1
  <2> QED
    BY <2>2
<1>10. s.parts[i] \in SUBSET Attributes
  BY <1>8 DEF Slice
<1> QED
  BY <1>9, <1>10, RepartitionAssumption

\* Between calls every block can be read by the slice that its middle is in:
\* updateBlocks has rewritten each block of a replaced slice exactly once.
THEOREM BlocksStayReadable ==
    ASSUME InnerLookups, DenseBlocks
    PROVE  Spec => []BlocksReadable
<1>1. BaseInv /\ ReadInv => BlocksReadable
  BY ReadableInv
<1> QED
  BY <1>1, BaseHolds, ReadHolds, PTL

\* recombineBlock never decodes a sub-block by a partitioning that it was not
\* written with, also halfway through a replacement.
THEOREM NothingIsGarbled ==
    ASSUME InnerLookups, DenseBlocks
    PROVE  Spec => []NothingGarbled
<1>1. BaseInv /\ ReadInv => NothingGarbled
  BY CleanInv
<1> QED
  BY <1>1, BaseHolds, ReadHolds, PTL

-----------------------------------------------------------------------------
(* Lookups, whatever the size of the buffer *)

\* Erasing nodes makes the list no longer, and shorter if there are any.
LEMMA ErasedShorter ==
    ASSUME NEW list \in Seq(Nodes), NEW keys
    PROVE  /\ Len(EraseNodes(list, keys)) \in Nat
           /\ Len(EraseNodes(list, keys)) <= Len(list)
           /\ \A k \in keys : Position(list, k) # {}
                 => Len(EraseNodes(list, keys)) < Len(list)
<1> DEFINE n == Len(list)
           S == {i \in 1..n : list[i].owner \notin keys}
           kept == Sorted(S)
           erased == EraseNodes(list, keys)
<1>1. n \in Nat /\ S \in SUBSET (1..n)
  OBVIOUS
<1>2. kept \in Seq(S) /\ Increasing(kept)
  <2> HIDE DEF S
  <2> QED
    BY <1>1, SortedLists
<1>3. erased = [i \in DOMAIN kept |-> list[kept[i]]]
  BY DEF EraseNodes
<1>4. \A k \in keys : Position(list, k) # {} => S # 1..n
  BY DEF Position
<1> HIDE DEF kept, S, erased, n
<1>5. Len(kept) \in Nat /\ DOMAIN kept = 1..Len(kept) /\ Len(erased) = Len(kept)
  BY <1>2, <1>3
<1>6. kept \in Injection(1..Len(kept), S)
  <2>1. kept \in [1..Len(kept) -> S]
    BY <1>2, <1>5
  <2>2. ASSUME NEW i \in 1..Len(kept), NEW j \in 1..Len(kept),
               kept[i] = kept[j], i < j \/ j < i
        PROVE  FALSE
    <3>1. kept[i] \in Nat /\ kept[j] \in Nat
      <4>1. kept[i] \in S /\ kept[j] \in S
        BY <2>1
      <4>2. \A x \in S : x \in Nat
        BY <1>1
      <4> QED
        BY <4>1, <4>2
    <3>2. kept[i] < kept[j] \/ kept[j] < kept[i]
      BY <1>2, <1>5, <2>2 DEF Increasing
    <3> QED
      BY <2>2, <3>1, <3>2
  <2>3. \A i, j \in 1..Len(kept) : kept[i] = kept[j] => i = j
    BY <1>5, <2>2
  <2> QED
    BY <1>5, <2>1, <2>3, Zenon DEF Injection, IsInjective
<1>7. /\ IsFiniteSet(1..n) /\ Cardinality(1..n) = n
      /\ Cardinality(1..Len(kept)) = Len(kept)
  <2>1. ASSUME NEW m \in Nat
        PROVE  IsFiniteSet(1..m) /\ Cardinality(1..m) = m
    <3>1. 1 \in Int /\ m \in Int
      OBVIOUS
    <3>2. /\ IsFiniteSet(1..m)
          /\ Cardinality(1..m) = IF 1 > m THEN 0 ELSE m - 1 + 1
      BY <3>1, FS_Interval, Zenon
    <3> QED
      BY <3>2
  <2> QED
    BY <1>1, <1>5, <2>1
<1> DEFINE c == Cardinality(S)
<1>8. /\ IsFiniteSet(S) /\ c <= Cardinality(1..n)
      /\ c = Cardinality(1..n) => S = 1..n
  BY <1>1, <1>7, FS_Subset
<1>9. c \in Nat
  BY <1>8, FS_CardinalityType
<1>10. Cardinality(1..Len(kept)) <= c
  BY <1>6, <1>8, FS_Injection
<1> HIDE DEF c
<1>11. Len(erased) <= c /\ c <= n /\ (S # 1..n => c # n)
  BY <1>5, <1>7, <1>8, <1>10
<1>12. Len(erased) <= n /\ (S # 1..n => Len(erased) < n) /\ Len(erased) \in Nat
  BY <1>1, <1>5, <1>9, <1>11
<1> QED
  BY <1>4, <1>12 DEF erased, n

\* A lookup erases a node for every node that it puts in front, or evicts one
\* when the list has become too long.
LEMMA LookupBounded ==
    ASSUME IndexInv, ListBounded, NEW t \in Instants,
           \/ Lookup(t)
           \/ LookupForDeserialization(t)
           \/ UNCHANGED partitionVars
    PROVE  ListBounded'
<1>1. lruList \in Seq(Nodes) /\ Len(lruList) \in Nat
      /\ Len(lruList) <= PartitioningBufferSize /\ PartitioningBufferSize \in Nat
  BY PartitionIndexAssumption DEF IndexInv, ListBounded
<1>2. ASSUME NEW key, Hit(key, t) PROVE ListBounded'
  <2>1. CASE UNCHANGED lruList
    BY <1>1, <2>1 DEF ListBounded
  <2>2. CASE /\ Position(lruList, key) # {}
             /\ lruList' = <<Node(t, key)>> \o EraseNodes(lruList, {key})
    <3> DEFINE erased == EraseNodes(lruList, {key})
    <3>1. Len(erased) \in Nat /\ Len(erased) < Len(lruList)
      BY <1>1, <2>2, ErasedShorter
    <3>2. erased \in Seq(Nodes)
      BY <1>1, ErasedNodes
    <3>3. lruList' = <<Node(t, key)>> \o erased
      BY <2>2
    <3> HIDE DEF erased
    <3>4. Len(lruList') = 1 + Len(erased)
      BY <3>2, <3>3
    <3> QED
      BY <1>1, <3>1, <3>4 DEF ListBounded
  <2> QED
    BY <1>2, <2>1, <2>2 DEF Hit
<1>3. ASSUME Load(t) PROVE ListBounded'
  <2> DEFINE key   == Min(KeysFrom(slices, t))
             rest  == Disown(lruList, key)
             list  == <<Node(key, key)>> \o rest
             front == SubSeq(list, 1, Len(list) - 1)
             last  == list[Len(list)].time
  <2>1. lruList' = IF Overflows(list) THEN Disown(front, last) ELSE list
    BY <1>3 DEF Load
  <2>2. rest \in Seq(Nodes) /\ Len(rest) = Len(lruList)
    BY <1>1, DisownedNodes
  <2> HIDE DEF key, rest
  <2>3. Len(list) = Len(lruList) + 1 /\ list \in Seq(Nodes \cup {Node(key, key)})
    BY <1>1, <2>2
  <2> HIDE DEF list
  <2>4. CASE ~Overflows(list)
    BY <1>1, <2>1, <2>3, <2>4 DEF Overflows, ListBounded
  <2>5. CASE Overflows(list)
    <3>1. Len(front) = Len(lruList) /\ DOMAIN front = 1..Len(front)
      BY <1>1, <2>3
    <3> HIDE DEF front, last
    <3>2. Len(Disown(front, last)) = Len(front)
      <4>1. DOMAIN Disown(front, last) = 1..Len(front)
        BY <3>1 DEF Disown
      <4> QED
        BY <1>1, <3>1, <4>1 DEF Disown
    <3> QED
      BY <1>1, <2>1, <2>5, <3>1, <3>2 DEF ListBounded
  <2> QED
    BY <2>4, <2>5
<1>4. CASE Lookup(t)
  <2>1. CASE UNCHANGED lruList
    BY <1>1, <2>1 DEF ListBounded
  <2> QED
    BY <1>2, <1>3, <1>4, <2>1 DEF Lookup
<1>5. CASE UNCHANGED lruList
  BY <1>1, <1>5 DEF ListBounded
<1> QED
  BY <1>4, <1>5 DEF LookupForDeserialization, partitionVars

\* Every step keeps the list to its size.
LEMMA ListStep ==
    ASSUME BaseInv, ListBounded, [Next]_vars
    PROVE  ListBounded'
<1>0. IndexInv
  BY DEF BaseInv
<1>1. ASSUME NEW times \in BlockTimes, Adds(times) PROVE ListBounded'
  <2> DEFINE t == PartitioningTimestamp(times)
  <2>1. t \in Instants /\ Lookup(t)
    BY <1>1, AddBlockIs, MiddleIs
  <2> HIDE DEF t
  <2> QED
    BY <1>0, <2>1, LookupBounded
<1>2. ASSUME NEW t \in LookupTimes, Get(t) PROVE ListBounded'
  <2>1. t \in Instants /\ Lookup(t)
    BY <1>2, RepartitionAssumption DEF Instants, Get
  <2> QED
    BY <1>0, <2>1, LookupBounded
<1>3. ASSUME StartsReplacing PROVE ListBounded'
  <2>1. PICK old, new, list : Starts(old, new, list)
    BY <1>3 DEF StartsReplacing
  <2>2. PICK keys : lruList' = EraseNodes(lruList, keys)
    BY <2>1 DEF Starts, ReplaceSlices
  <2>3. lruList \in Seq(Nodes) /\ Len(lruList) \in Nat
    BY <1>0 DEF IndexInv
  <2>4. Len(lruList') \in Nat /\ Len(lruList') <= Len(lruList)
    BY <2>2, <2>3, ErasedShorter
  <2> QED
    BY <2>3, <2>4, PartitionIndexAssumption DEF ListBounded
<1>4. ASSUME NEW id \in DOMAIN masters, Lookup(Middle(id)) \/ Reads(id)
      PROVE  ListBounded'
  <2>1. masters[id].times \in BlockTimes
    BY DEF BaseInv, BlockInv, MasterBlock
  <2>2. Middle(id) \in Instants
    BY <2>1, MiddleIs DEF Middle
  <2> QED
    BY <1>0, <1>4, <2>2, LookupBounded DEF Reads
<1>5. ASSUME NEW id \in DOMAIN masters, UpdateBlock(id) PROVE ListBounded'
  <2>1. Updates(id) \/ Skips(id) \/ Fails(id)
    BY <1>5, UpdateBlockIs
  <2>2. Lookup(Middle(id)) \/ Reads(id)
    BY <2>1 DEF Updates, Skips, Fails
  <2> QED
    BY <1>4, <2>2
<1>6. ASSUME NEW e \in Entries, FindNext(e) PROVE ListBounded'
  <2>1. e[1] \in DOMAIN masters /\ Reads(e[1])
    BY <1>6, FindNextIs
  <2> QED
    BY <1>4, <2>1
<1>7. ASSUME EndUpdateBlocks \/ CompletePartitioningRemovals
             \/ UNCHANGED vars
      PROVE  ListBounded'
  <2>1. lruList' = lruList
    BY <1>7 DEF EndUpdateBlocks, CompletePartitioningRemovals, vars,
                partitionVars
  <2> QED
    BY <2>1 DEF ListBounded
<1> QED
  BY <1>0, <1>1, <1>2, <1>3, <1>5, <1>6, <1>7, StepIs

\* The list by which getTimeSlicedPartitioning evicts slices is never longer
\* than the configuration says, for every size of the buffer and all times,
\* although nodes are moved, lose their entries and are erased.  The cache
\* itself may be larger (run partition_cache).
THEOREM ListStaysBounded == Spec => []ListBounded
<1>1. Init => ListBounded
  <2>1. Init => lruList = <<>>
    BY DEF Init, PartitionInit
  <2> QED
    BY <2>1, PartitionIndexAssumption DEF ListBounded
<1>2. BaseInv /\ ListBounded /\ [Next]_vars => ListBounded'
  BY ListStep
<1> QED
  BY <1>1, <1>2, BaseHolds, PTL DEF Spec

\* "endTime exclusive": getTimeSlicedPartitioning returns the slice that the
\* time is in, whatever the size of the buffer, unless it used a node that is
\* gone.
THEOREM LookupsFindSlices ==
    ASSUME InnerLookups
    PROVE  Spec => LookupFindsSlice
<1> DEFINE Finds == \A t \in LookupTimes :
              Get(t) /\ answer' # Corrupt
                 => answer' \in Range(slices) /\ Contains(answer', t)
<1>1. ASSUME BaseInv, MatchInv, [Next]_vars PROVE Finds
  <2> SUFFICES ASSUME NEW t \in LookupTimes, Get(t), answer' # Corrupt
               PROVE  answer' \in Range(slices) /\ Contains(answer', t)
    OBVIOUS
  <2>1. t \in Instants /\ t \notin DOMAIN slices
    BY <1>1, InnerTimes DEF BaseInv, MatchInv
  <2>2. PICK k \in DOMAIN slices :
           Contains(slices[k], t) /\ answer' = slices[k]
    BY <1>1, <2>1, LookupIsExact DEF Get, BaseInv, MatchInv
  <2> QED
    BY <2>2 DEF Range
<1> HIDE DEF Finds
<1>2. BaseInv /\ MatchInv /\ [Next]_vars => [Finds]_vars
  BY <1>1
<1>3. Spec => [][Finds]_vars
  BY <1>2, BaseHolds, MatchHolds, PTL DEF Spec
<1> QED
  BY <1>3 DEF Finds, LookupFindsSlice

-----------------------------------------------------------------------------
(* The attributes of an iterator *)

\* Every slice has all attributes: the check of Replaceable.
FullInv ==
    \A k \in DOMAIN slices :
       AttributeCount(slices[k].parts) = Cardinality(Attributes)

\* The partitions are there, and have the attributes.
Selects(parts, used, attrs) ==
    /\ used \subseteq DOMAIN parts
    /\ attrs \subseteq UNION {parts[i] : i \in used}

Iterators == [attrs : SUBSET Attributes, block : Nat,
              slice : Slice \cup {NotFound}, indices : SUBSET Nat]

\* The iterator's partitions are those of the slice its block is stored by.
Serves(iter) ==
    /\ iter \in Iterators
    /\ iter.block \in DOMAIN masters
    /\ \E k \in DOMAIN slices : /\ iter.slice = slices[k]
                                /\ Contains(slices[k], Middle(iter.block))
    /\ Selects(iter.slice.parts, iter.indices, iter.attrs)

\* An open iterator has its partitions, and no replacement is going on.
ItInv == it # <<>> => Serves(it) /\ removed = {}

\* A set of attributes as large as the set it is part of is that set.
LEMMA SameCount ==
    ASSUME NEW A \in SUBSET Attributes, NEW B \in SUBSET A,
           Cardinality(B) = Cardinality(A)
    PROVE  B = A
<1>1. IsFiniteSet(A)
  BY PartitionIndexAssumption, FS_Subset
<1> QED
  BY <1>1, FS_Subset

\* recomputePartitionIndices ends with partitions that have every attribute
\* of the query, whatever the order in which it takes them.
LEMMA IndicesSelect ==
    ASSUME NEW parts \in Seq(SUBSET Attributes), NEW attrs \in SUBSET Attributes,
           NEW used \in PartitionIndices(parts, attrs)
    PROVE  Selects(parts, used, attrs)
<1>1. PICK order \in Orders(parts, attrs) : used = Range(order)
  BY DEF PartitionIndices
<1>2. PICK n \in 0..Len(parts) : order \in [1..n -> DOMAIN parts]
  BY <1>1 DEF Orders
<1>3. Covers(parts, used, attrs)
  BY <1>1 DEF Orders
<1>4. used \subseteq DOMAIN parts
  BY <1>1, <1>2 DEF Range
<1>5. Selected(parts, used, attrs) \subseteq attrs
  BY Zenon DEF Selected
<1>6. Selected(parts, used, attrs) = attrs
  <2> DEFINE sel == Selected(parts, used, attrs)
  <2>1. sel \in SUBSET attrs /\ Cardinality(sel) = Cardinality(attrs)
    BY <1>3, <1>5 DEF Covers
  <2> HIDE DEF sel
  <2>2. sel = attrs
    BY <2>1, SameCount, Zenon
  <2> QED
    BY <2>2 DEF sel
<1> QED
  BY <1>4, <1>6 DEF Selects, Selected

\* A replacement checks the new slices and leaves the others as they are.
LEMMA StartFull ==
    ASSUME FullInv, NEW old, NEW new, NEW list, StartReplacement(old, new, list)
    PROVE  FullInv'
<1> DEFINE O == Range(old)
           N == Range(new)
<1>1. slices' = Put(Without(slices, Ends(O)), ByEnd(N))
  BY DEF StartReplacement, ReplaceSlices
<1>2. \A s \in N : AttributeCount(s.parts) = Cardinality(Attributes)
  BY DEF StartReplacement, Replaceable, Range
<1> HIDE DEF O, N
<1>3. ASSUME NEW k \in DOMAIN slices'
      PROVE  AttributeCount(slices'[k].parts) = Cardinality(Attributes)
  <2>1. CASE k \in DOMAIN ByEnd(N)
    <3>1. slices'[k] = ByEnd(N)[k]
      BY <1>1, <1>3, <2>1 DEF Put
    <3>2. ByEnd(N)[k] \in N
      BY <2>1 DEF ByEnd, Ends
    <3> QED
      BY <1>2, <3>1, <3>2
  <2>2. CASE k \notin DOMAIN ByEnd(N)
    <3>1. k \in DOMAIN Without(slices, Ends(O))
          /\ slices'[k] = Without(slices, Ends(O))[k]
      BY <1>1, <1>3, <2>2 DEF Put
    <3>2. k \in DOMAIN slices /\ slices'[k] = slices[k]
      BY <3>1 DEF Without, Restrict
    <3> QED
      BY <3>2 DEF FullInv
  <2> QED
    BY <2>1, <2>2
<1> QED
  BY <1>3 DEF FullInv

\* Every step leaves every slice with all attributes.
LEMMA FullStep ==
    ASSUME FullInv, [Next]_vars
    PROVE  FullInv'
<1>1. ASSUME UNCHANGED slices PROVE FullInv'
  BY <1>1 DEF FullInv
<1>2. ASSUME NEW lists \in BlockLists, AddBlock(lists) PROVE FullInv'
  BY <1>1, <1>2 DEF AddBlock, Lookup
<1>3. ASSUME NEW t \in LookupTimes, Get(t) PROVE FullInv'
  BY <1>1, <1>3 DEF Get, Lookup
<1>4. ASSUME NEW id \in DOMAIN masters, UpdateBlock(id) PROVE FullInv'
  <2>1. UNCHANGED slices
    BY <1>4 DEF UpdateBlock, ReadBlock, Lookup, LookupForDeserialization,
                partitionVars
  <2> QED
    BY <1>1, <2>1
<1>8. ASSUME NEW e \in Entries, FindNext(e) PROVE FullInv'
  <2>1. UNCHANGED slices
    BY <1>8 DEF FindNext, ReadBlock, Lookup, LookupForDeserialization,
                partitionVars
  <2> QED
    BY <1>1, <2>1
<1>5. ASSUME EndUpdateBlocks \/ CompletePartitioningRemovals
             \/ UNCHANGED vars
      PROVE  FullInv'
  <2>1. UNCHANGED slices
    BY <1>5 DEF EndUpdateBlocks, CompletePartitioningRemovals, vars,
                partitionVars
  <2> QED
    BY <1>1, <2>1
<1>6. ASSUME NEW s, NEW new, ReplaceTimeSlicedPartitioning(s, new)
      PROVE  FullInv'
  BY <1>6, StartFull DEF ReplaceTimeSlicedPartitioning
<1>7. ASSUME NEW old, NEW s, ReplaceTimeSlicedPartitionings(old, s)
      PROVE  FullInv'
  BY <1>7, StartFull DEF ReplaceTimeSlicedPartitionings
<1> QED
  BY <1>2, <1>3, <1>4, <1>5, <1>6, <1>7, <1>8, Zenon
  DEF Next, Step, ClientReplaces

\* The slice of a new database has all attributes in one partition.
LEMMA FullInit ==
    ASSUME Init
    PROVE  FullInv
<1>1. /\ DOMAIN slices = {Infinity}
      /\ slices[Infinity].parts = <<Attributes>>
  BY DEF Init, PartitionInit
<1>2. UNION Range(<<Attributes>>) = Attributes
  BY DEF Range
<1> QED
  BY <1>1, <1>2, Zenon DEF FullInv, AttributeCount

\* A slice that has all attributes, of which there are some, has a partition.
LEMMA FullParts ==
    ASSUME Attributes # {}, FullInv, NEW k \in DOMAIN slices
    PROVE  slices[k].parts # <<>>
<1>1. SUFFICES ASSUME slices[k].parts = <<>> PROVE FALSE
  OBVIOUS
<1>2. UNION Range(<<>>) = {}
  BY DEF Range
<1>3. Cardinality({}) = Cardinality(Attributes)
  <2>1. AttributeCount(<<>>) = Cardinality({})
    BY <1>2, Zenon DEF AttributeCount
  <2>2. AttributeCount(slices[k].parts) = Cardinality(Attributes)
    BY DEF FullInv
  <2> QED
    BY <1>1, <2>1, <2>2
<1> QED
  BY <1>3, SameCount

\* What the lookups of an iterator leave as it was.
LEMMA IteratorLooks ==
    ASSUME InnerLookups, BaseInv, MatchInv, ReadInv, FullInv, Idle,
           NEW id \in DOMAIN masters, UNCHANGED <<blockVars, jobVars>>,
           \/ Lookup(Middle(id))
           \/ LookupForDeserialization(Middle(id))
    PROVE  /\ BaseInv' /\ MatchInv' /\ ReadInv' /\ FullInv'
           /\ slices' = slices /\ masters' = masters /\ removed' = {}
           /\ \/ \E k \in DOMAIN slices :
                    Contains(slices[k], Middle(id)) /\ answer' = slices[k]
              \/ answer' = Corrupt
<1> DEFINE t == Middle(id)
<1>1. t \in Instants /\ t \notin DOMAIN slices
  BY MiddleInner DEF MatchInv
<1>2. Lookup(t)
  BY DEF Idle, LookupForDeserialization
<1> HIDE DEF t
<1>3. Get(t)
  BY <1>2 DEF Get
<1>4. IndexInv' /\ slices' = slices /\ removed' = removed
  BY <1>1, <1>2, LookupStep DEF BaseInv
<1>5. BaseInv'
  <2>1. ranges' = ranges /\ UNCHANGED loopVars
    BY DEF jobVars
  <2> QED
    BY <1>4, <2>1, SameBlockInv, SameLists, SameLoop DEF BaseInv
<1>6. /\ CacheMatchesDb'
      /\ \/ \E k \in DOMAIN slices :
               Contains(slices[k], t) /\ answer' = slices[k]
         \/ answer' = Corrupt
  BY <1>1, <1>2, LookupIsExact DEF BaseInv, MatchInv
<1>7. MatchInv' /\ FullInv'
  BY <1>4, <1>6 DEF MatchInv, FullInv
<1>8. ReadInv'
  BY <1>3, GetReads
<1>9. masters' = masters /\ removed' = {}
  BY <1>4 DEF blockVars, Idle
<1> QED
  BY <1>4, <1>5, <1>6, <1>7, <1>8, <1>9 DEF t

\* initFromBlock ends with the partitions of the slice that the block is
\* stored by, whether it keeps them or works them out.
LEMMA InitServes ==
    ASSUME InnerLookups, DenseBlocks, BaseInv, MatchInv, ReadInv, FullInv, Idle,
           NEW id \in DOMAIN masters, UNCHANGED <<blockVars, jobVars>>,
           NEW iter \in Iterators, iter.indices # {} => Serves(iter),
           InitFromBlock(iter, id)
    PROVE  BaseInv' /\ MatchInv' /\ ReadInv' /\ FullInv' /\ ItInv'
<1> DEFINE t == Middle(id)
<1>0. id \in Nat /\ t = PartitioningTimestamp(masters[id].times)
  BY DEF BaseInv, BlockInv, Middle
<1>1. CASE /\ Kept(iter, t)
           /\ LookupForDeserialization(t) \/ UNCHANGED partitionVars
           /\ it' = [iter EXCEPT !.block = id]
  <2>1. /\ BaseInv' /\ MatchInv' /\ ReadInv' /\ FullInv'
        /\ slices' = slices /\ masters' = masters /\ removed' = {}
    <3>1. CASE LookupForDeserialization(t)
      BY <3>1, IteratorLooks
    <3>2. CASE UNCHANGED partitionVars
      <4>1. UNCHANGED vars
        BY <3>2 DEF vars
      <4>2. slices' = slices /\ masters' = masters /\ removed' = {}
        BY <3>2 DEF partitionVars, blockVars, Idle
      <4> QED
        BY <4>1, <4>2, BaseStep, MatchStep, ReadStep, FullStep
    <3> QED
      BY <1>1, <3>1, <3>2
  <2>2. /\ it' \in Iterators
        /\ it'.block = id /\ it'.slice = iter.slice
        /\ it'.indices = iter.indices /\ it'.attrs = iter.attrs
    BY <1>0, <1>1 DEF Iterators
  <2>3. PICK k \in DOMAIN slices : iter.slice = slices[k]
    BY <1>1 DEF Kept, Serves
  <2>4. /\ Contains(slices[k], t)
        /\ Selects(iter.slice.parts, iter.indices, iter.attrs)
    BY <1>1, <2>3 DEF Kept, Serves
  <2>5. Middle(it.block)' = t
    BY <2>1, <2>2 DEF Middle
  <2>6. Serves(it)'
    BY <2>1, <2>2, <2>3, <2>4, <2>5, Zenon DEF Serves
  <2> QED
    BY <2>1, <2>6 DEF ItInv
<1>2. CASE Lookup(t) /\ answer' \in {NotFound, Corrupt} /\ it' = <<>>
  BY <1>2, IteratorLooks DEF ItInv
<1>3. CASE /\ Lookup(t) /\ answer' \notin {NotFound, Corrupt}
           /\ \E used \in PartitionIndices(answer'.parts, iter.attrs) :
                 it' = [iter EXCEPT !.block = id, !.slice = answer',
                                    !.indices = used]
  <2>1. /\ BaseInv' /\ MatchInv' /\ ReadInv' /\ FullInv'
        /\ slices' = slices /\ masters' = masters /\ removed' = {}
        /\ \E k \in DOMAIN slices :
              Contains(slices[k], t) /\ answer' = slices[k]
    BY <1>3, IteratorLooks
  <2>2. PICK k \in DOMAIN slices : Contains(slices[k], t) /\ answer' = slices[k]
    BY <2>1
  <2>3. slices[k] \in Slice /\ slices[k].parts \in Seq(SUBSET Attributes)
    BY DEF BaseInv, IndexInv, Tiles, Slice
  <2>4. PICK used \in PartitionIndices(answer'.parts, iter.attrs) :
           it' = [iter EXCEPT !.block = id, !.slice = answer', !.indices = used]
    BY <1>3, Zenon
  <2>5. iter.attrs \in SUBSET Attributes
    BY DEF Iterators
  <2>6. Selects(slices[k].parts, used, iter.attrs)
    <3> DEFINE P == slices[k].parts
               A == iter.attrs
    <3>1. /\ P \in Seq(SUBSET Attributes) /\ A \in SUBSET Attributes
          /\ used \in PartitionIndices(P, A)
      BY <2>2, <2>3, <2>4, <2>5
    <3> HIDE DEF P, A
    <3>2. Selects(P, used, A)
      BY <3>1, IndicesSelect, Zenon
    <3> QED
      BY <3>2 DEF P, A
  <2>7. used \in SUBSET Nat
    <3>1. DOMAIN slices[k].parts \subseteq Nat
      BY <2>3
    <3> QED
      BY <2>6, <3>1, Zenon DEF Selects
  <2>8. /\ it' \in Iterators
        /\ it'.block = id /\ it'.slice = slices[k]
        /\ it'.indices = used /\ it'.attrs = iter.attrs
    BY <1>0, <2>2, <2>3, <2>4, <2>7, Zenon DEF Iterators
  <2>9. Middle(it.block)' = t
    BY <2>1, <2>8 DEF Middle
  <2>10. Serves(it)'
    BY <2>1, <2>2, <2>6, <2>8, <2>9, Zenon DEF Serves
  <2> QED
    BY <2>1, <2>10 DEF ItInv
<1> QED
  BY <1>0, <1>1, <1>2, <1>3, Zenon DEF InitFromBlock, ReadBlock

\* What is true at all times, also while an iterator is open.
DataInv == BaseInv /\ MatchInv /\ ReadInv /\ FullInv /\ ItInv

\* Blocks that are added, and lookups, leave an open iterator with its slice.
LEMMA NextServes ==
    ASSUME BaseInv, ReadInv, ItInv, Next, it # <<>> => removed' = {},
           UNCHANGED it
    PROVE  ItInv'
<1>1. SUFFICES ASSUME it # <<>> PROVE Serves(it)' /\ removed' = {}
  BY DEF ItInv
<1>2. Serves(it) /\ removed = {} /\ removed' = {} /\ ranges = <<>>
  BY <1>1 DEF ItInv, ReadInv, RangesInv
<1> DEFINE b == it.block
           Stays == /\ slices' = slices
                    /\ b \in DOMAIN masters' /\ masters'[b] = masters[b]
<1>3. b \in DOMAIN masters
  BY <1>2 DEF Serves
<1>4. Stays
  <2>0. IndexInv
    BY DEF BaseInv
  <2>1. ASSUME NEW times \in BlockTimes, Adds(times) PROVE Stays
    <3>1. /\ UNCHANGED slices
          /\ UNCHANGED blockVars \/ \E m, ids : Added(times, m, ids)
      BY <2>1, AddBlockIs
    <3>2. CASE UNCHANGED blockVars
      BY <1>3, <3>1, <3>2 DEF blockVars
    <3>3. ASSUME NEW m, NEW ids, Added(times, m, ids) PROVE Stays
      BY <1>3, <3>1, <3>3 DEF Added, Stores
    <3> QED
      BY <3>1, <3>2, <3>3
  <2>2. ASSUME NEW t \in LookupTimes, Get(t) PROVE Stays
    BY <1>3, <2>2 DEF Get, Lookup, blockVars
  <2>3. ASSUME StartsReplacing PROVE FALSE
    <3>1. PICK old, new, list : \E lo \in Nat, hi \in 0..Infinity :
             Replacing(old, new, list, lo, hi) /\ Starts(old, new, list)
      BY <2>3 DEF StartsReplacing
    <3>2. old # {} /\ removed' = removed \cup old
      BY <3>1 DEF Replacing, Starts, ReplaceSlices
    <3> QED
      BY <1>2, <3>2
  <2>4. ASSUME \/ \E e \in Entries : FindNext(e)
               \/ \E id \in DOMAIN masters : UpdateBlock(id)
               \/ EndUpdateBlocks \/ CompletePartitioningRemovals
        PROVE  FALSE
    BY <1>2, <2>4 DEF FindNext, UpdateBlock, EndUpdateBlocks,
                      CompletePartitioningRemovals
  <2> QED
    BY <2>0, <2>1, <2>2, <2>3, <2>4, StepIs
<1>5. Middle(b)' = Middle(b)
  BY <1>4 DEF Middle
<1> QED
  BY <1>2, <1>4, <1>5 DEF Serves

\* Every step of a client with an iterator keeps the invariant.
LEMMA DataStep ==
    ASSUME InnerLookups, DenseBlocks, DataInv, [DataNext]_dataVars
    PROVE  DataInv'
<1>0. BaseInv /\ MatchInv /\ ReadInv /\ FullInv /\ ItInv
  BY DEF DataInv
<1>1. ASSUME Next, it # <<>> => removed' = {}, UNCHANGED it PROVE DataInv'
  <2>1. BaseInv' /\ MatchInv' /\ ReadInv' /\ FullInv'
    BY <1>0, <1>1, BaseStep, MatchStep, ReadStep, FullStep
  <2>2. ItInv'
    BY <1>0, <1>1, NextServes
  <2> QED
    BY <2>1, <2>2 DEF DataInv
<1>2. ASSUME NEW id \in DOMAIN masters, NEW attrs \in SUBSET Attributes,
             OpenIterator(id, attrs)
      PROVE  DataInv'
  <2> DEFINE iter == [attrs |-> attrs, block |-> id, slice |-> NotFound,
                      indices |-> {}]
  <2>1. id \in Nat
    BY <1>0 DEF BaseInv, BlockInv
  <2>2. iter \in Iterators /\ iter.indices = {}
    BY <2>1 DEF Iterators
  <2>3. Idle /\ InitFromBlock(iter, id) /\ UNCHANGED <<blockVars, jobVars>>
    BY <1>2 DEF OpenIterator
  <2> HIDE DEF iter
  <2> QED
    BY <1>0, <2>2, <2>3, InitServes DEF DataInv
<1>3. ASSUME NEW id \in DOMAIN masters, NextBlock(id) PROVE DataInv'
  <2>1. Serves(it) /\ it \in Iterators
    BY <1>0, <1>3 DEF NextBlock, ItInv, Serves
  <2>2. Idle /\ InitFromBlock(it, id) /\ UNCHANGED <<blockVars, jobVars>>
    BY <1>3 DEF NextBlock
  <2> QED
    BY <1>0, <2>1, <2>2, InitServes DEF DataInv
<1>4. ASSUME GetEdgeData PROVE DataInv'
  <2> DEFINE b == it.block
  <2>1. Serves(it) /\ b \in DOMAIN masters
    BY <1>0, <1>4 DEF GetEdgeData, ItInv, Serves
  <2>2. /\ Idle /\ LookupForDeserialization(Middle(b)) /\ it' = it
        /\ UNCHANGED <<blockVars, jobVars>>
    BY <1>4 DEF GetEdgeData, Middle
  <2>3. /\ BaseInv' /\ MatchInv' /\ ReadInv' /\ FullInv'
        /\ slices' = slices /\ masters' = masters /\ removed' = {}
    BY <1>0, <2>1, <2>2, IteratorLooks
  <2>4. Middle(b)' = Middle(b)
    BY <2>2, <2>3 DEF Middle
  <2>5. Serves(it)'
    BY <2>1, <2>2, <2>3, <2>4 DEF Serves
  <2> QED
    BY <2>3, <2>5 DEF DataInv, ItInv
<1>5. ASSUME UNCHANGED vars, it' \in {it, <<>>} PROVE DataInv'
  <2>1. BaseInv' /\ MatchInv' /\ ReadInv' /\ FullInv'
    BY <1>0, <1>5, BaseStep, MatchStep, ReadStep, FullStep
  <2>2. slices' = slices /\ masters' = masters /\ removed' = removed
    BY <1>5 DEF vars, partitionVars, blockVars
  <2>3. CASE it' = it
    <3>1. Serves(it) => Serves(it)'
      BY <2>2, <2>3 DEF Serves, Middle
    <3> QED
      BY <1>0, <2>1, <2>2, <2>3, <3>1 DEF DataInv, ItInv
  <2>4. CASE it' = <<>>
    BY <2>1, <2>4 DEF DataInv, ItInv
  <2> QED
    BY <1>5, <2>3, <2>4
<1>6. CASE CloseIterator \/ UNCHANGED dataVars
  BY <1>5, <1>6 DEF CloseIterator, dataVars
<1> QED
  BY <1>1, <1>2, <1>3, <1>4, <1>6, Zenon DEF DataNext

\* The sub-blocks that an iterator reads are those of the slice that it took
\* its partitions from.
LEMMA ServedComplete ==
    ASSUME Attributes # {}, DataInv
    PROVE  EdgeDataComplete
<1>0. BaseInv /\ MatchInv /\ ReadInv /\ FullInv /\ ItInv
  BY DEF DataInv
<1> DEFINE b    == it.block
           ids  == masters[b].subs
           used == it.indices
<1>1. SUFFICES ASSUME it # <<>>
               PROVE  /\ ids # <<>>
                      /\ used \subseteq DOMAIN ids
                      /\ \A i \in used : Decodes(subs[ids[i]])
                      /\ it.attrs \subseteq
                            UNION {subs[ids[i]].attrs : i \in used}
  BY Zenon DEF EdgeDataComplete
<1>2. Serves(it) /\ removed = {} /\ ranges = <<>>
  BY <1>0, <1>1 DEF ItInv, ReadInv, RangesInv
<1>3. PICK k \in DOMAIN slices :
         it.slice = slices[k] /\ Contains(slices[k], Middle(b))
  BY <1>2 DEF Serves
<1> DEFINE parts == slices[k].parts
<1>4. b \in DOMAIN masters /\ Selects(parts, used, it.attrs)
  BY <1>2, <1>3 DEF Serves
<1>5. masters[b].times \in BlockTimes /\ ids \in Seq(Nat)
  BY <1>0, <1>4 DEF BaseInv, BlockInv, MasterBlock
<1>6. Middle(b) \in Instants
  BY <1>5, MiddleIs DEF Middle
<1>7. Tiles(slices) /\ slices[k] \in Slice
      /\ parts \in Seq(SUBSET Attributes)
  BY <1>0 DEF BaseInv, IndexInv, Tiles, Slice
<1>8. ReadableBy(b, slices[k])
  <2>1. ~Pending(b)
    BY <1>2 DEF Pending
  <2>2. PICK l \in DOMAIN slices :
           Contains(slices[l], Middle(b)) /\ ReadableBy(b, slices[l])
    BY <1>0, <1>2, <1>4, <2>1 DEF ReadInv, BlocksInv, ByStored, OnTrack
  <2>3. l = k
    BY <1>3, <1>6, <1>7, <2>2 DEF Tiles
  <2> QED
    BY <2>2, <2>3
<1>9. /\ Len(ids) = Len(parts) /\ DOMAIN ids = 1..Len(parts)
      /\ DOMAIN parts = 1..Len(parts)
      /\ \A i \in 1..Len(parts) :
            subs[ids[i]] = [times |-> masters[b].times, part |-> i,
                            attrs |-> parts[i]]
  <2>1. /\ Len(ids) = Len(parts)
        /\ \A i \in 1..Len(parts) :
              subs[ids[i]] = [times |-> masters[b].times, part |-> i,
                              attrs |-> parts[i]]
    BY <1>8, Zenon DEF ReadableBy
  <2> HIDE DEF ids, parts
  <2>2. DOMAIN ids = 1..Len(ids) /\ DOMAIN parts = 1..Len(parts)
    BY <1>5, <1>7
  <2> QED
    BY <2>1, <2>2
<1>10. DecodingSlice(Middle(b)) = slices[k]
  <2> DEFINE t == Middle(b)
  <2>1. t \in Instants /\ Contains(slices[k], t)
    BY <1>3, <1>6
  <2> HIDE DEF t
  <2>2. Min(KeysFrom(slices, t + 1)) = k
    BY <1>7, <2>1, SeekFinds
  <2>3. DecodingSlice(t) = slices[k]
    BY <1>2, <2>2 DEF DecodingSlice
  <2> QED
    BY <2>3 DEF t
<1>11. ids # <<>>
  <2>1. parts # <<>>
    BY <1>0, FullParts
  <2> HIDE DEF parts, ids
  <2>2. Len(parts) # 0
    BY <1>7, <2>1
  <2> QED
    BY <1>9, <2>2
<1>12. ASSUME NEW i \in used
       PROVE  /\ i \in DOMAIN ids /\ subs[ids[i]].attrs = parts[i]
              /\ Decodes(subs[ids[i]])
  <2>1. i \in 1..Len(parts) /\ i \in DOMAIN ids /\ i \in DOMAIN parts
    BY <1>4, <1>9 DEF Selects
  <2>2. /\ subs[ids[i]].times = masters[b].times /\ subs[ids[i]].part = i
        /\ subs[ids[i]].attrs = parts[i]
    <3>1. subs[ids[i]] = [times |-> masters[b].times, part |-> i,
                          attrs |-> parts[i]]
      BY <1>9, <2>1, Zenon
    <3> DEFINE x == subs[ids[i]]
               T == masters[b].times
               P == parts[i]
    <3>2. x = [times |-> T, part |-> i, attrs |-> P]
      BY <3>1
    <3> HIDE DEF x, T, P
    <3>3. x.times = T /\ x.part = i /\ x.attrs = P
      BY <3>2
    <3> QED
      BY <3>3 DEF x, T, P
  <2>3. Decodes(subs[ids[i]])
    <3> DEFINE x == subs[ids[i]]
    <3>1. PartitioningTimestamp(x.times) = Middle(b)
      BY <2>2, Zenon DEF Middle
    <3>2. DecodingSlice(PartitioningTimestamp(x.times)).parts = parts
      BY <1>10, <3>1
    <3>3. x.part \in DOMAIN parts /\ parts[x.part] = x.attrs
      BY <2>1, <2>2
    <3> HIDE DEF x, parts
    <3> QED
      BY <3>2, <3>3 DEF Decodes, x
  <2> QED
    BY <2>1, <2>2, <2>3
<1>13. it.attrs \subseteq UNION {subs[ids[i]].attrs : i \in used}
  <2> SUFFICES ASSUME NEW a \in it.attrs
               PROVE  \E i \in used : a \in subs[ids[i]].attrs
    OBVIOUS
  <2>1. PICK i \in used : a \in parts[i]
    BY <1>4 DEF Selects
  <2> QED
    BY <1>12, <2>1, Zenon
<1> QED
  BY <1>11, <1>12, <1>13, Zenon

\* getEdgeData finds every attribute of the query, in sub-blocks that exist
\* and that it decodes as they were written (the asserts at
\* HistoricalGraph.cpp:90,93), although the iterator keeps the partitions of
\* another block or takes them from a cache, and blocks are added meanwhile.
THEOREM EdgeDataIsComplete ==
    ASSUME InnerLookups, DenseBlocks, Attributes # {}
    PROVE  DataSpec => []EdgeDataComplete
<1>1. DataInit => DataInv
  BY BaseInit, MatchInit, ReadInit, FullInit DEF DataInit, DataInv, ItInv
<1>2. DataInv /\ [DataNext]_dataVars => DataInv'
  BY DataStep
<1>3. DataInv => EdgeDataComplete
  BY ServedComplete
<1> QED
  BY <1>1, <1>2, <1>3, PTL DEF DataSpec
=============================================================================
