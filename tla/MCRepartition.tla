--------------------------- MODULE MCRepartition ---------------------------
(***************************************************************************)
(* Repartition with two attributes.  A time is inner if no slice ends      *)
(* there.  With cuts at 4 and 8 a block is in three slices or straddles    *)
(* the first cut.                                                          *)
(***************************************************************************)
EXTENDS Repartition

CONSTANTS a, b

\* The last one misses an attribute: no replacement may use it.
MCPartitionings == {<<{a, b}>>, <<{b}, {a, b}>>, <<{a}>>}

MCCutTimes == {0, 6, 12}
MCMoreCutTimes == {0, 4, 8, 12}
MCInnerTimes == {3, 11}
MCThreeTimes == {1, 7, 11}
MCAllTimes == {1, 6, 7}

\* Blocks with an edge in the middle of their time range; a list of the first
\* surrounds the slice in the middle and has no edge in it.
MCBlockLists == {<<{2, 10}, {2, 6, 10}>>, <<{1, 3, 5}>>}

\* A block without one
MCSparseLists == {<<{2, 10}>>}
=============================================================================
