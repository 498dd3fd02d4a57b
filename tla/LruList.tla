------------------------------ MODULE LruList ------------------------------
(***************************************************************************)
(* The std::list of ids that the managers keep in order of use, the most   *)
(* recently used id first.                                                 *)
(***************************************************************************)
EXTENDS Integers, Sequences

\* std::list::erase of the node of id
Erase(list, id) ==
    LET k == CHOOSE i \in 1..Len(list) : list[i] = id
    IN  [i \in 1 .. Len(list) - 1 |-> IF i < k THEN list[i] ELSE list[i + 1]]

\* Every id of the list is there once.
Distinct(list) == \A i, j \in 1..Len(list) : list[i] = list[j] => i = j

Listed(list, id) == \E i \in 1..Len(list) : list[i] = id
=============================================================================
