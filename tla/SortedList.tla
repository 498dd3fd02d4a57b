----------------------------- MODULE SortedList -----------------------------
(***************************************************************************)
(* Finite sets of numbers as lists in increasing order.                    *)
(***************************************************************************)
EXTENDS Integers, Sequences, FiniteSets

Increasing(list) == \A i, j \in 1..Len(list) : i < j => list[i] < list[j]

Sorted(numbers) ==
    CHOOSE list \in [1..Cardinality(numbers) -> numbers] : Increasing(list)
=============================================================================
