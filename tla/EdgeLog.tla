------------------------------ MODULE EdgeLog ------------------------------
(***************************************************************************)
(* What the ingest path of an interaction graph promises, whatever it      *)
(* buffers and however it forms blocks.  Every vertex has a log of         *)
(* half-edges, one per interaction it takes part in, and a durable part    *)
(* of that log that has reached the historical graph.                      *)
(*                                                                         *)
(*   - an accepted edge is appended to the logs of both of its endpoints,  *)
(*     with a timestamp newer than every earlier one;                      *)
(*   - a refused edge changes no log;                                      *)
(*   - nothing else changes a log: no half-edge is lost, duplicated,       *)
(*     altered or reordered;                                               *)
(*   - the durable part only grows, and is always a prefix of the log.     *)
(*                                                                         *)
(* Module InMemoryGraph implements this specification.                     *)
(***************************************************************************)
EXTENDS Integers, Sequences

CONSTANTS Vertices, DataSizes

VARIABLES log,       \* per vertex, every half-edge accepted so far
          durable,   \* per vertex, the half-edges in the historical graph
          clock      \* the newest timestamp accepted so far

logVars == <<log, durable, clock>>

HalfEdge == [to : Vertices, time : Nat, bytes : DataSizes]

LogTypeOK ==
    /\ log \in [Vertices -> Seq(HalfEdge)]
    /\ durable \in [Vertices -> Seq(HalfEdge)]
    /\ clock \in Nat

LogInit ==
    /\ log = [v \in Vertices |-> <<>>]
    /\ durable = [v \in Vertices |-> <<>>]
    /\ clock = 0

Accept(v, u, d) ==
    /\ clock' = clock + 1
    /\ log' = [log EXCEPT
                 ![v] = Append(@, [to |-> u, time |-> clock + 1, bytes |-> d]),
                 ![u] = Append(@, [to |-> v, time |-> clock + 1, bytes |-> d])]
    /\ UNCHANGED durable

\* An edge is refused; its timestamp is used up all the same.
Refuse ==
    /\ clock' = clock + 1
    /\ UNCHANGED <<log, durable>>

Persist ==
    /\ durable' = [v \in Vertices |-> durable'[v]]
    /\ \A v \in Vertices : \E n \in Len(durable[v])..Len(log[v]) :
                              durable'[v] = SubSeq(log[v], 1, n)
    /\ UNCHANGED <<log, clock>>

LogNext ==
    \/ \E v, u \in Vertices, d \in DataSizes : v # u /\ Accept(v, u, d)
    \/ Refuse
    \/ Persist

LogSpec == LogInit /\ [][LogNext]_logVars
=============================================================================
