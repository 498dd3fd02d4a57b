-------------------------- MODULE MCInMemoryGraph --------------------------
(***************************************************************************)
(* The ingest path on three vertices: blocks hold between one and three    *)
(* half-edges, so that edges are given back, an edge's halves end up in    *)
(* different blocks, and a flush needs several of them.                    *)
(***************************************************************************)
EXTENDS InMemoryGraph
=============================================================================
