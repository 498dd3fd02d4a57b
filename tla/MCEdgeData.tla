----------------------------- MODULE MCEdgeData -----------------------------
(***************************************************************************)
(* EdgeData with the instances of MCRepartition.                           *)
(***************************************************************************)
EXTENDS EdgeData, MCRepartition, TLC

MCAvgSize == a :> 8 @@ b :> 24
=============================================================================
