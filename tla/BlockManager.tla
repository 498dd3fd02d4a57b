---------------------------- MODULE BlockManager ----------------------------
(***************************************************************************)
(* BlockManager: blocks in a leveldb database behind an LRU cache, with    *)
(* ids from a counter that MetaDataManager writes to a file of its own     *)
(* when InteractionGraph::flush asks for it, and only then.                *)
(*                                                                         *)
(* A database or cache entry that does not exist is NoBlock.  The list     *)
(* iterator a cache entry keeps is the position of its id in lruList: the  *)
(* invariant LruMatchesCache says that there is exactly one.               *)
(***************************************************************************)
EXTENDS LruList

CONSTANTS Contents,         \* what distinguishes one block from another
          NoBlock,
          BlockBufferSize,  \* Conf::blockBufferSize, in blocks
          MaxBlocks         \* bound of the model: ids the counter hands out

\* With a buffer of 0 blocks getBlock would return the block it just evicted.
ASSUME BlockManagerAssumption ==
    /\ NoBlock \notin Contents
    /\ BlockBufferSize \in Nat \ {0}
    /\ MaxBlocks \in Nat

BlockIds == 0 .. MaxBlocks - 1

VARIABLES db,            \* db_, "block_data"
          cache,         \* cache_
          lruList,       \* lruList_, most recently used id first
          nextBlockId,   \* MetaDataManager::nextBlockId_, in memory
          storedNextId,  \* the copy in the file "schemastats_data"
          answer         \* the id the last getBlock or updateBlock asked for
                         \* and the block it read, NoBlock if it threw

bufferVars == <<cache, lruList>>
vars == <<db, cache, lruList, nextBlockId, storedNextId, answer>>

Empty == [id \in BlockIds |-> NoBlock]

Init ==
    /\ db = Empty
    /\ cache = Empty
    /\ lruList = <<>>
    /\ nextBlockId = 0
    /\ storedNextId = 0
    /\ answer = <<>>

\* A hit moves the id to the front; the reference that is returned stays
\* good for writing, which is what updateBlock uses it for.
Hit(id, c) ==
    /\ cache[id] # NoBlock
    /\ lruList' = <<id>> \o Erase(lruList, id)
    /\ cache' = [cache EXCEPT ![id] = c]

\* Faulty: the overflow is looked for before the new block is listed.
MissCheckedEarly(id, c) ==
    /\ cache[id] = NoBlock
    /\ db[id] # NoBlock
    /\ IF Len(lruList) > BlockBufferSize
       THEN LET last == lruList[Len(lruList)]
            IN  /\ lruList' = <<id>> \o SubSeq(lruList, 1, Len(lruList) - 1)
                /\ cache' = [cache EXCEPT ![last] = NoBlock, ![id] = c]
       ELSE /\ lruList' = <<id>> \o lruList
            /\ cache' = [cache EXCEPT ![id] = c]

\* A miss loads the block and evicts the least recently used one if the
\* buffer overflows.
Miss(id, c) ==
    /\ cache[id] = NoBlock
    /\ db[id] # NoBlock
    /\ IF Len(lruList) + 1 > BlockBufferSize
       THEN LET last == lruList[Len(lruList)]
            IN  /\ lruList' = <<id>> \o SubSeq(lruList, 1, Len(lruList) - 1)
                /\ cache' = [cache EXCEPT ![last] = NoBlock, ![id] = c]
       ELSE /\ lruList' = <<id>> \o lruList
            /\ cache' = [cache EXCEPT ![id] = c]

\* getBlock throws block_not_found_exception
NotFound(id) ==
    /\ cache[id] = NoBlock
    /\ db[id] = NoBlock
    /\ answer' = <<id, NoBlock>>
    /\ UNCHANGED <<db, bufferVars>>

\* Faulty: a hit reads the block at the front before it moves its own there.
GetBlockAtFront(id) ==
    /\ \/ /\ Hit(id, cache[id])
          /\ answer' = <<id, cache[lruList[1]]>>
          /\ UNCHANGED db
       \/ Miss(id, db[id]) /\ answer' = <<id, db[id]>> /\ UNCHANGED db
       \/ NotFound(id)
    /\ UNCHANGED <<nextBlockId, storedNextId>>

GetBlock(id) ==
    /\ \/ Hit(id, cache[id]) /\ answer' = <<id, cache[id]>> /\ UNCHANGED db
       \/ Miss(id, db[id]) /\ answer' = <<id, db[id]>> /\ UNCHANGED db
       \/ NotFound(id)
    /\ UNCHANGED <<nextBlockId, storedNextId>>

\* Faulty: the counter is not advanced.
AddBlockSameId(c) ==
    /\ nextBlockId \in BlockIds
    /\ db' = [db EXCEPT ![nextBlockId] = c]
    /\ UNCHANGED <<bufferVars, nextBlockId, storedNextId, answer>>

\* addBlock with setId: the block goes to the database, not to the cache
AddBlock(c) ==
    /\ nextBlockId \in BlockIds
    /\ db' = [db EXCEPT ![nextBlockId] = c]
    /\ nextBlockId' = nextBlockId + 1
    /\ UNCHANGED <<bufferVars, storedNextId, answer>>

\* Faulty: the database is updated, the cached block is not.
UpdateBlockOnDisk(id, c) ==
    /\ \/ /\ Hit(id, cache[id])
          /\ answer' = <<id, cache[id]>>
          /\ db' = [db EXCEPT ![id] = c]
       \/ /\ Miss(id, db[id])
          /\ answer' = <<id, db[id]>>
          /\ db' = [db EXCEPT ![id] = c]
       \/ NotFound(id)
    /\ UNCHANGED <<nextBlockId, storedNextId>>

\* getBlock, an assignment through the reference it returned, and addBlock
\* without setId
UpdateBlock(id, c) ==
    /\ \/ /\ Hit(id, c)
          /\ answer' = <<id, cache[id]>>
          /\ db' = [db EXCEPT ![id] = c]
       \/ /\ Miss(id, c)
          /\ answer' = <<id, db[id]>>
          /\ db' = [db EXCEPT ![id] = c]
       \/ NotFound(id)
    /\ UNCHANGED <<nextBlockId, storedNextId>>

\* Faulty: the id stays in the list.
RemoveBlockListed(id) ==
    /\ db' = [db EXCEPT ![id] = NoBlock]
    /\ cache' = [cache EXCEPT ![id] = NoBlock]
    /\ UNCHANGED <<lruList, nextBlockId, storedNextId, answer>>

RemoveBlock(id) ==
    /\ db' = [db EXCEPT ![id] = NoBlock]
    /\ IF cache[id] # NoBlock
       THEN /\ lruList' = Erase(lruList, id)
            /\ cache' = [cache EXCEPT ![id] = NoBlock]
       ELSE UNCHANGED bufferVars
    /\ UNCHANGED <<nextBlockId, storedNextId, answer>>

Clear ==
    /\ lruList' = <<>>
    /\ cache' = Empty
    /\ UNCHANGED <<db, nextBlockId, storedNextId, answer>>

\* MetaDataManager::store
StoreMeta ==
    /\ storedNextId' = nextBlockId
    /\ UNCHANGED <<db, bufferVars, nextBlockId, answer>>

\* The process ends and a new one opens the directory: MetaDataManager::load
Reopen ==
    /\ nextBlockId' = storedNextId
    /\ lruList' = <<>>
    /\ cache' = Empty
    /\ UNCHANGED <<db, storedNextId, answer>>

Operation ==
    \/ \E id \in BlockIds :
          \/ GetBlock(id)
          \/ RemoveBlock(id)
          \/ \E c \in Contents : UpdateBlock(id, c)
    \/ \E c \in Contents : AddBlock(c)
    \/ Clear
    \/ StoreMeta

\* The intended use: a process ends only after a flush that followed its
\* last addBlock.
Next == Operation \/ (nextBlockId = storedNextId /\ Reopen)

Spec == Init /\ [][Next]_vars

\* The process may end at any time; nothing in the library prevents it.
CrashSpec == Init /\ [][Operation \/ Reopen]_vars
-----------------------------------------------------------------------------
(* Properties *)

\* Ids come from the counter, blocks and answers are blocks or missing.
TypeOK ==
    /\ db \in [BlockIds -> Contents \cup {NoBlock}]
    /\ cache \in [BlockIds -> Contents \cup {NoBlock}]
    /\ lruList \in Seq(BlockIds)
    /\ nextBlockId \in 0..MaxBlocks
    /\ storedNextId \in 0..MaxBlocks
    /\ answer \in {<<>>} \cup (BlockIds \X (Contents \cup {NoBlock}))

\* The LRU list names the cached blocks, each once: every iterator a cache
\* entry keeps is good, and evicting the back of the list frees an entry.
LruMatchesCache ==
    /\ Distinct(lruList)
    /\ \A id \in BlockIds : cache[id] # NoBlock <=> Listed(lruList, id)

\* getBlock keeps at most blockBufferSize_ blocks in memory.
BufferBounded == Len(lruList) <= BlockBufferSize

\* "no need to write back": a cached block is the one in the database, so
\* getBlock may forget it.
CacheCoherent ==
    \A id \in BlockIds : cache[id] # NoBlock => cache[id] = db[id]

\* The ids that addBlock is still to hand out are free.
NextIdsFree == \A id \in BlockIds : id >= nextBlockId => db[id] = NoBlock

\* "this is an append only db": addBlock never replaces a block.
AppendOnly ==
    [][nextBlockId' = nextBlockId + 1 =>
          \A id \in BlockIds : db[id] # NoBlock => db'[id] = db[id]]_vars

Store == INSTANCE RecordStore WITH Keys <- BlockIds, Values <- Contents,
                                   NoValue <- NoBlock, store <- db

\* Cache, evictions, counter and reopening are invisible: the manager is a
\* map from ids to blocks.
ImplementsRecordStore == Store!StoreSpec
=============================================================================
