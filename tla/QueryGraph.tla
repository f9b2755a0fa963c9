------------------------------ MODULE QueryGraph -----------------------------
(***************************************************************************)
(* The query graph (source_files/QueryGraph.cpp): the road graph and, for  *)
(* one leg of a query, two virtual nodes that stand where the coordinates  *)
(* of the leg were snapped to a road, with virtual edges for the pieces of *)
(* the roads they cut.                                                     *)
(*                                                                         *)
(* A ratio is a number of RatioSteps-ths of the way along an edge, and     *)
(* every cost is counted in RatioSteps-ths, so that a piece of a road has  *)
(* an integer cost.  Float rounding is left out.                           *)
(***************************************************************************)
EXTENDS AdjacencyLists, WeightedGraphs

CONSTANTS
    N,           \* the number of nodes of the road graph
    RatioSteps

ASSUME RatioStepsAssumption == RatioSteps \in Nat \ {0}

Nodes == 0 .. N - 1

(* The placeholders are the two largest integers: no node has them.        *)
from == N + 1
to   == N

Vertices == Nodes \cup {from, to}

-----------------------------------------------------------------------------
NULL_EDGE == "E"

Edge(u, v, w, type) == [u |-> u, v |-> v, w |-> w, type |-> type]

(* A slip: what counts is that an edge leads from u to v, not its type.    *)
FindAnyEdge(lists, u, v) ==
    LET found == {k \in DOMAIN lists[u] : lists[u][k].v = v}
    IN  IF found = {} THEN Edge(u, v, 0, NULL_EDGE)
        ELSE LET e == lists[u][Least(found)] IN Edge(u, e.v, e.w, e.edge_type)

(* GraphStorage::FindForwardEdge: the first one-way edge from u to v.      *)
FindForwardEdge(lists, u, v) ==
    LET found == {k \in DOMAIN lists[u] :
                     lists[u][k].v = v /\ lists[u][k].edge_type = FORWARD_EDGE}
    IN  IF found = {} THEN Edge(u, v, 0, NULL_EDGE)
        ELSE LET e == lists[u][Least(found)] IN Edge(u, e.v, e.w, e.edge_type)

(* The edges GetNearestEdge may report (GraphStorage.cpp:94-113): whichever*)
(* end of a road came up first decides how a double-way edge is turned.    *)
Reported(lists) ==
    UNION {{IF e.edge_type = BACKWARD_EDGE THEN Edge(e.v, A, e.w, e.edge_type)
            ELSE Edge(A, e.v, e.w, e.edge_type) :
                e \in {x \in Elements(lists[A]) : x.is_startpoint}} : A \in Nodes}

NearestEdgeInfos(lists) ==
    [edge : Reported(lists), clamped_ratio : 0 .. RatioSteps]

-----------------------------------------------------------------------------
(* Both virtual nodes on one road that is open both ways, at costs w from  *)
(* A to B and back from B to A.                                            *)
TwoWayPieces(A, B, r1, r2, w, back) ==
    LET first  == IF r1 < r2 THEN from ELSE to
        second == IF r1 < r2 THEN to ELSE from
        lo     == IF r1 < r2 THEN r1 ELSE r2
        hi     == IF r1 < r2 THEN r2 ELSE r1
    IN  IF r1 = r2 THEN {<<from, to, 0>>}
        ELSE {<<A, first, lo * w>>, <<first, A, lo * back>>,
              <<first, second, (hi - lo) * w>>, <<second, first, (hi - lo) * back>>,
              <<second, B, (RatioSteps - hi) * w>>, <<B, second, (RatioSteps - hi) * back>>}

(* A slip: going back along a one-way road, when "to" lies behind.         *)
Rewind(A, B, r1, r2, w) ==
    {<<from, to, (IF r1 < r2 THEN r2 - r1 ELSE r1 - r2) * w>>}

(* Both virtual nodes on one road that is open from A to B only.           *)
OneWayPieces(A, B, r1, r2, w) ==
    CASE r1 = r2 -> {<<from, to, 0>>}
      [] r1 < r2 -> {<<from, to, (r2 - r1) * w>>}
      [] r1 > r2 -> {<<from, B, (RatioSteps - r1) * w>>, <<A, to, r2 * w>>}

(* What it costs to drive edge e backwards: a set, empty if it is closed.  *)
BackCosts(lists, e) ==
    IF e.type = DOUBLE_WAY_EDGE THEN {e.w}
    ELSE LET e3 == FindForwardEdge(lists, e.v, e.u)
         IN  IF e3.type = NULL_EDGE THEN {} ELSE {e3.w}

(* A slip: the second ratio is not turned round with its edge.             *)
SameRatio(r, same_edge) == r

TurnRatio(r, same_edge) == IF same_edge THEN RatioSteps - r ELSE r

(* The constructor of QueryGraph.                                          *)
VirtualEdges(lists, info1, info2) ==
    LET e1 == info1.edge
        e2 == info2.edge
        r1 == info1.clamped_ratio
        r2 == info2.clamped_ratio
        equal_edge == e1.u = e2.u /\ e1.v = e2.v
        same_edge  == e1.u = e2.v /\ e1.v = e2.u
    IN  IF equal_edge \/ same_edge
        THEN IF BackCosts(lists, e1) = {}
             THEN OneWayPieces(e1.u, e1.v, r1, r2, e1.w)
             ELSE UNION {TwoWayPieces(e1.u, e1.v, r1, TurnRatio(r2, same_edge), e1.w, back) :
                            back \in BackCosts(lists, e1)}
        ELSE {<<from, e1.v, (RatioSteps - r1) * e1.w>>, <<e2.u, to, r2 * e2.w>>}
             \cup {<<from, e1.u, r1 * back>> : back \in BackCosts(lists, e1)}
             \cup {<<e2.v, to, (RatioSteps - r2) * back>> : back \in BackCosts(lists, e2)}

(* The edges of the road graph, in RatioSteps-ths of their cost.           *)
RoadEdges(lists) == {<<e[1], e[2], RatioSteps * e[3]>> : e \in TravelGraph(lists)}

(* What GetForwardEdges and GetBackwardEdges look into: the road graph for *)
(* its own nodes, the virtual edges for every node.                        *)
QueryEdges(lists, info1, info2) == RoadEdges(lists) \cup VirtualEdges(lists, info1, info2)
=============================================================================
