----------------------------- MODULE Candidate -----------------------------
(***************************************************************************)
(* A candidate block of the smart layout: how many of the oldest edges of  *)
(* which lists it would take, and the counters that setEdgeCount maintains *)
(* as edges are tried and given up again.                                  *)
(***************************************************************************)
EXTENDS ExpirationMap, SequencesExt

CONSTANT LocalityMetric   \* SmartLayoutConf::localityMetric

ASSUME CandidateAssumption ==
    LocalityMetric \in {"RConductance", "Cohesiveness", "RCCMixed"}

EmptyCandidate ==
    [numEdges     |-> [v \in Vertices |-> 0],   \* an absent key is 0
     size         |-> BlockHeaderBytes,
     edgeCount    |-> 0,
     outEdgeCount |-> 0,
     present      |-> <<>>,                     \* presentVertices_
     internal     |-> <<>>]                     \* internalEdges_

\* The lists of the block that a candidate stands for
TakenLists(c) == [v \in Vertices |-> SubSeq(neigLists[v], 1, c.numEdges[v])]

\* Maps of counters.  A count below zero stands for one that wrapped around.
Put(f, k, n) == (k :> n) @@ f
Drop(f, k) == Restrict(f, DOMAIN f \ {k})
Increment(f, k) == Put(f, k, IF k \in DOMAIN f THEN f[k] + 1 ELSE 1)
Decrement(f, k) ==
    LET n == (IF k \in DOMAIN f THEN f[k] ELSE 0) - 1
    IN  IF n = 0 THEN Drop(f, k) ELSE Put(f, k, n)

\* SUEdge's constructor
SUEdge(u, v) == IF u > v THEN <<v, u>> ELSE <<u, u>>

\* hasReverseEdge: the other half of v's half-edge h is in the candidate.
\* Only times are compared, unless h is as new as the newest edge there.
HasReverseEdge(c, v, h) ==
    LET n    == c.numEdges[h.to]
        list == neigLists[h.to]
    IN  /\ n > 0
        /\ h.time >= list[1].time
        /\ \/ h.time < list[n].time
           \/ \E i \in 1..n : /\ list[i].to = v
                              /\ \A j \in i..n : list[j].time = h.time

\* setEdgeCount, for the j-th edge of v going in or out
AddOne(c, v, j) ==
    LET h     == neigLists[v][j]
        found == HasReverseEdge(c, v, h)
    IN  [c EXCEPT !.size = @ + HalfEdgeBytes + IF found THEN 0 ELSE h.bytes,
                  !.edgeCount = @ + 1,
                  !.outEdgeCount = IF found THEN @ - 1 ELSE @ + 1,
                  !.present = Increment(@, h.to),
                  !.internal = IF found THEN Increment(@, SUEdge(v, h.to))
                               ELSE @]

\* Faulty: the attributes stay counted.
RemoveOneHalf(c, v, j) ==
    LET h     == neigLists[v][j]
        found == HasReverseEdge(c, v, h)
    IN  [c EXCEPT !.size = @ - HalfEdgeBytes,
                  !.edgeCount = @ - 1,
                  !.outEdgeCount = IF found THEN @ + 1 ELSE @ - 1,
                  !.present = Decrement(@, h.to),
                  !.internal = IF found THEN Decrement(@, SUEdge(v, h.to))
                               ELSE @]

RemoveOne(c, v, j) ==
    LET h     == neigLists[v][j]
        found == HasReverseEdge(c, v, h)
    IN  [c EXCEPT !.size = @ - HalfEdgeBytes - IF found THEN 0 ELSE h.bytes,
                  !.edgeCount = @ - 1,
                  !.outEdgeCount = IF found THEN @ + 1 ELSE @ - 1,
                  !.present = Decrement(@, h.to),
                  !.internal = IF found THEN Decrement(@, SUEdge(v, h.to))
                               ELSE @]

\* setEdgeCount.  The first edge of a list sets the count of its head vertex
\* in present to 1, whatever it was; the last one to leave takes 1 off.
SetEdgeCount(c, v, n) ==
    LET cn == c.numEdges[v]
        Added[j \in cn..n] == IF j = cn THEN c ELSE AddOne(Added[j - 1], v, j)
        Removed[j \in n..cn] ==
            IF j = cn THEN c ELSE RemoveOne(Removed[j + 1], v, j + 1)
        d  == IF cn < n THEN Added[n] ELSE Removed[n]
    IN  IF cn = n THEN c
        ELSE [d EXCEPT
                !.numEdges[v] = n,
                !.size = @ + (IF cn = 0 THEN ListHeaderBytes ELSE 0)
                           - (IF n = 0 THEN ListHeaderBytes ELSE 0),
                !.present = IF cn = 0 THEN Put(@, v, 1)
                            ELSE IF n = 0 THEN Decrement(@, v) ELSE @]

\* getNewestTime: the newest of the newest edges of the lists
NewestTime(c) == Max({neigLists[v][c.numEdges[v]].time :
                         v \in {u \in Vertices : c.numEdges[u] > 0}})

-----------------------------------------------------------------------------
(* Fractions with a positive denominator.  The code rounds them to doubles,  *)
(* so it may break a tie either way.                                         *)

LessThan(p, q) == p[1] * q[2] < q[1] * p[2]

Times(p, q) == <<p[1] * q[1], p[2] * q[2]>>

\* getLocality
Locality(c) ==
    LET lists        == Cardinality({v \in Vertices : c.numEdges[v] > 0})
        rConductance == <<c.edgeCount - c.outEdgeCount, c.edgeCount>>
        cohesiveness == IF lists = 1 THEN <<1, 2>>
                        ELSE <<2 * Cardinality(DOMAIN c.internal),
                               lists * (lists - 1)>>
    IN  CASE LocalityMetric = "RConductance" -> rConductance
          [] LocalityMetric = "Cohesiveness" -> cohesiveness
          [] LocalityMetric = "RCCMixed" -> Times(rConductance, cohesiveness)

\* The score of extending candidate c to d: locality gained per byte
Gain(c, d) ==
    LET old == Locality(c)
        new == Locality(d)
    IN  <<new[1] * old[2] - old[1] * new[2],
          old[2] * new[2] * (d.size - c.size)>>
=============================================================================
