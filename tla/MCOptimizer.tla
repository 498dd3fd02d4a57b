---------------------------- MODULE MCOptimizer ----------------------------
(***************************************************************************)
(* Optimizer with three attributes of different sizes.                     *)
(***************************************************************************)
EXTENDS Optimizer, TLC

CONSTANTS a, b, c

MCAvgSize == a :> 8 @@ b :> 24 @@ c :> 40

\* Disjoint, overlapping and empty ones
MCQueries == {{}, {a}, {c}, {a, b}, {b, c}}
=============================================================================
