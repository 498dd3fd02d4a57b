-------------------------- MODULE MCVertexManager --------------------------
(* VertexManager with more vertices than the buffer holds. *)
EXTENDS VertexManager
=============================================================================
