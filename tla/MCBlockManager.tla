--------------------------- MODULE MCBlockManager ---------------------------
(* BlockManager on a few ids and two distinguishable contents. *)
EXTENDS BlockManager
=============================================================================
