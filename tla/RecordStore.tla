---------------------------- MODULE RecordStore ----------------------------
(***************************************************************************)
(* What BlockManager and VertexManager promise: a map from ids to records. *)
(* A record is added under an id nobody uses, a read answers the record    *)
(* last written under its id, and reading, caching, dropping the cache or  *)
(* reopening the database never changes the map.                           *)
(***************************************************************************)
CONSTANTS Keys, Values, NoValue

VARIABLES store,   \* the record of every key, or NoValue
          answer   \* of the last read: its key and the record, or NoValue for
                   \* a not-found exception

storeVars == <<store, answer>>

StoreInit ==
    /\ store = [k \in Keys |-> NoValue]
    /\ answer = <<>>

Get(k) ==
    /\ answer' = <<k, store[k]>>
    /\ UNCHANGED store

Add(k, v) ==
    /\ store[k] = NoValue
    /\ store' = [store EXCEPT ![k] = v]
    /\ UNCHANGED answer

\* Only a stored record can be updated; a missing one is an exception.
Update(k, v) ==
    /\ store' = [store EXCEPT ![k] = IF store[k] = NoValue THEN NoValue
                                                             ELSE v]
    /\ answer' = <<k, store[k]>>

Remove(k) ==
    /\ store' = [store EXCEPT ![k] = NoValue]
    /\ UNCHANGED answer

StoreNext ==
    \E k \in Keys :
        \/ Get(k)
        \/ Remove(k)
        \/ \E v \in Values : Add(k, v) \/ Update(k, v)

StoreSpec == StoreInit /\ [][StoreNext]_storeVars
=============================================================================
