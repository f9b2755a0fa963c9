----------------------- MODULE MCBidirectionalDijkstra ----------------------
(***************************************************************************)
(* Small instances of BidirectionalDijkstra: every graph that can be made  *)
(* from a handful of candidate edges.  The candidates hold two routes that *)
(* tie, a two-way road that costs nothing, parallel edges of different     *)
(* weights, a loop back to the start, and dead ends behind the start and   *)
(* the goal that keep one search busy while the other goes on.             *)
(***************************************************************************)
EXTENDS BidirectionalDijkstra

CONSTANTS a, b, c, d, e, x, y

MCVertices == {a, b, c, d, e, x, y}

Candidates ==
    {<<a, b, 1>>, <<a, c, 1>>, <<a, c, 4>>, <<a, y, 2>>, <<a, d, 9>>,
     <<b, c, 0>>, <<c, b, 0>>, <<b, d, 6>>, <<c, d, 4>>, <<c, a, 1>>,
     <<d, e, 1>>, <<x, e, 2>>}

MCGraphs == SUBSET Candidates

MCQueries == {<<a, e>>, <<c, b>>, <<b, b>>}

(* All the walks over the candidate edges that repeat no vertex.           *)
MCWalks ==
    LET LastOf(s) == s[Len(s)]
        walks[n \in 1 .. Cardinality(MCVertices)] ==
            IF n = 1
            THEN {[at |-> <<v>>, cost |-> <<0>>] : v \in MCVertices}
            ELSE UNION {{[at   |-> Append(k.at, s[2]),
                          cost |-> Append(k.cost, LastOf(k.cost) + s[3])] :
                            s \in {f \in Candidates :
                                    f[1] = LastOf(k.at) /\ f[2] \notin Range(k.at)}} :
                        k \in walks[n - 1]}
    IN  UNION {walks[n] : n \in 1 .. Cardinality(MCVertices)}
=============================================================================
