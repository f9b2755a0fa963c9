--------------------------- MODULE AdjacencyLists ---------------------------
(***************************************************************************)
(* The road graph as GraphStorage keeps it (source_files/GraphStorage.cpp):*)
(* for every node the list of the edges that start or end there, in the    *)
(* order AddEdge was called.  A directed edge is recorded at both of its   *)
(* nodes, as "F" where it starts and as "B" where it ends; a road that is  *)
(* open both ways at one cost is a single "D" element at each node.        *)
(***************************************************************************)
EXTENDS Integers, Sequences, FiniteSets

FORWARD_EDGE == "F"
BACKWARD_EDGE == "B"
DOUBLE_WAY_EDGE == "D"

AdjListElement(v, w, edge_type, is_startpoint) ==
    [v |-> v, w |-> w, edge_type |-> edge_type, is_startpoint |-> is_startpoint]

AdjListElements(nodes, costs) ==
    [v : nodes, w : costs, edge_type : {FORWARD_EDGE, BACKWARD_EDGE, DOUBLE_WAY_EDGE},
     is_startpoint : BOOLEAN]

Elements(list) == {list[k] : k \in DOMAIN list}

EmptyLists(nodes) == [u \in nodes |-> <<>>]

PushBack(lists, u, e) == [lists EXCEPT ![u] = Append(@, e)]

(* A slip: the far end of a one-way edge is marked like its near end.      *)
SameMarkAtBothEnds(double_way) == IF double_way THEN DOUBLE_WAY_EDGE ELSE FORWARD_EDGE

FarMark(double_way) == IF double_way THEN DOUBLE_WAY_EDGE ELSE BACKWARD_EDGE

(* A slip: a one-way edge is recorded where it starts only.                *)
AddAtOneEnd(lists, u, v, w, double_way, is_startpoint) ==
    PushBack(lists, u, AdjListElement(v, w, IF double_way THEN DOUBLE_WAY_EDGE ELSE FORWARD_EDGE,
                                      is_startpoint))

AddEdge(lists, u, v, w, double_way, is_startpoint) ==
    LET near == IF double_way THEN DOUBLE_WAY_EDGE ELSE FORWARD_EDGE
        far  == FarMark(double_way)
    IN  PushBack(PushBack(lists, u, AdjListElement(v, w, near, is_startpoint)),
                 v, AdjListElement(u, w, far, is_startpoint))

(* What AddEdge adds to directed_edges_counter.                            *)
DirectedEdges(double_way) == IF double_way THEN 2 ELSE 1

(* The vectors that GetForwardEdges and GetBackwardEdges return keep the   *)
(* positions their elements have in the adjacency list: nothing depends on *)
(* the renumbering.                                                        *)
GetForwardEdges(lists, u) ==
    [k \in {j \in DOMAIN lists[u] : lists[u][j].edge_type # BACKWARD_EDGE} |-> lists[u][k]]

GetBackwardEdges(lists, u) ==
    [k \in {j \in DOMAIN lists[u] : lists[u][j].edge_type # FORWARD_EDGE} |-> lists[u][k]]

(* The nodes the elements of u's list point to, whatever their direction.  *)
Adjacent(lists, u) == {e.v : e \in Elements(lists[u])}

-----------------------------------------------------------------------------
(* The directed edges <<u, v, w>> that can be travelled.                   *)
TravelGraph(lists) ==
    UNION {{<<u, e.v, e.w>> : e \in Elements(GetForwardEdges(lists, u))} : u \in DOMAIN lists}

(* How many elements of a list lead to v at cost w.                        *)
Copies(list, v, w) == Cardinality({k \in DOMAIN list : list[k].v = v /\ list[k].w = w})
=============================================================================
