-------------------------- MODULE MCSimpleDijkstra --------------------------
(***************************************************************************)
(* A small instance of SimpleDijkstra: the candidate edges hold ties, a    *)
(* two-way road that costs nothing, parallel edges and a loop back.        *)
(***************************************************************************)
EXTENDS SimpleDijkstra

CONSTANTS a, b, c, d

MCVertices == {a, b, c, d}

MCGraphs ==
    SUBSET {<<a, b, 1>>, <<b, d, 3>>, <<a, c, 2>>, <<c, d, 2>>,
            <<b, c, 0>>, <<c, b, 0>>, <<a, d, 5>>, <<c, d, 1>>, <<c, a, 1>>}

MCQueries == {<<a, d>>, <<b, d>>, <<b, b>>}
=============================================================================
