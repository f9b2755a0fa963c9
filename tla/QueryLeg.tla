------------------------------ MODULE QueryLeg -------------------------------
(***************************************************************************)
(* The query graphs that can arise: any road graph that AddEdge builds     *)
(* from the roads on offer, and any two edges and ratios GetNearestEdge    *)
(* may report for it.                                                      *)
(***************************************************************************)
EXTENDS QueryGraph

CONSTANT RoadOptions   \* a sequence: the ways in which each pair of nodes may be joined

(* What AddEdge is called with.  One way of joining a pair of nodes is the *)
(* sequence of the calls that do it.                                       *)
RoadCalls == [u : Nodes, v : Nodes, w : Nat, double_way : BOOLEAN, is_startpoint : BOOLEAN]

ASSUME RoadsAssumption == N \in Nat /\ RoadOptions \in Seq(SUBSET Seq(RoadCalls))

VARIABLES
    adjacency_lists,  \* the road graph
    considered,       \* how many pairs of nodes have been given their road
    calls,            \* the calls of AddEdge that are still to be made for the last of them
    info_1, info_2,   \* NearestEdgeInfo at the two ends of the leg
    virtual_edges

vars == <<adjacency_lists, considered, calls, info_1, info_2, virtual_edges>>

Unasked == [edge |-> <<>>, clamped_ratio |-> 0]

-----------------------------------------------------------------------------
Edges == RoadEdges(adjacency_lists) \cup virtual_edges

Init ==
    /\ adjacency_lists = EmptyLists(Nodes)
    /\ considered = 0
    /\ calls = <<>>
    /\ info_1 = Unasked
    /\ info_2 = Unasked
    /\ virtual_edges = {}

(* The next pair of nodes, and the calls that join it, if any.             *)
ChooseRoad ==
    /\ calls = <<>>
    /\ considered < Len(RoadOptions)
    /\ calls' \in RoadOptions[considered + 1]
    /\ considered' = considered + 1
    /\ UNCHANGED <<adjacency_lists, info_1, info_2, virtual_edges>>

AddRoad ==
    /\ calls # <<>>
    /\ LET c == Head(calls)
       IN  adjacency_lists' =
               AddEdge(adjacency_lists, c.u, c.v, c.w, c.double_way, c.is_startpoint)
    /\ calls' = Tail(calls)
    /\ UNCHANGED <<considered, info_1, info_2, virtual_edges>>

(* One leg of a query: both ends have been snapped to roads.               *)
Construct ==
    /\ info_1 = Unasked
    /\ calls = <<>>
    /\ considered = Len(RoadOptions)
    /\ info_1' \in NearestEdgeInfos(adjacency_lists)
    /\ info_2' \in NearestEdgeInfos(adjacency_lists)
    /\ virtual_edges' = VirtualEdges(adjacency_lists, info_1', info_2')
    /\ UNCHANGED <<adjacency_lists, considered, calls>>

Next == ChooseRoad \/ AddRoad \/ Construct

Spec == Init /\ [][Next]_vars

-----------------------------------------------------------------------------
(***************************************************************************)
(* Reference: a point of a road is joined to the ends of that road, by the *)
(* piece of the road between them, in every direction the road is open.    *)
(* Only what the road graph holds and where the points are goes into it.   *)
(***************************************************************************)
OnRoad(e, info) == {e[1], e[2]} = {info.edge.u, info.edge.v}

(* How far along the directed edge e a point lies.                         *)
Along(e, info) ==
    IF e[1] = info.edge.u THEN info.clamped_ratio ELSE RatioSteps - info.clamped_ratio

CutEdges(p, info) ==
    UNION {{<<e[1], p, Along(e, info) * e[3]>>, <<p, e[2], (RatioSteps - Along(e, info)) * e[3]>>} :
              e \in {f \in TravelGraph(adjacency_lists) : OnRoad(f, info)}}

DirectEdges ==
    {<<from, to, (Along(e, info_2) - Along(e, info_1)) * e[3]>> :
        e \in {f \in TravelGraph(adjacency_lists) :
                  OnRoad(f, info_1) /\ OnRoad(f, info_2) /\ Along(f, info_1) <= Along(f, info_2)}}

Terrain ==
    RoadEdges(adjacency_lists) \cup CutEdges(from, info_1) \cup CutEdges(to, info_2)
        \cup DirectEdges

(* Between nodes that more than one road joins, even at one cost, there is *)
(* no one terrain: nothing tells on which of the roads a point lies.       *)
NoParallelRoads ==
    \A u \in Nodes : \A j, k \in DOMAIN GetForwardEdges(adjacency_lists, u) :
        adjacency_lists[u][j].v = adjacency_lists[u][k].v => j = k

(* A one-way road from a node to itself is taken to be open both ways: the *)
(* forward edge that would lead back is the road itself.                   *)
NoLoops == \A e \in TravelGraph(adjacency_lists) : e[1] # e[2]

Asked == info_1 # Unasked

(***************************************************************************)
(* LegCostsWhatItTakes: the least cost from one virtual node to the other  *)
(* is what it takes to drive from the one point to the other, and there is *)
(* a route in the query graph exactly when there is one on the roads: the  *)
(* two points may share a road, in either order, it may be reported from   *)
(* either end, and it may be closed one way or cost differently each way.  *)
(***************************************************************************)
LegCostsWhatItTakes ==
    Asked /\ NoParallelRoads /\ NoLoops =>
        ShortestCost(Vertices, Edges, from, to) = ShortestCost(Vertices, Terrain, from, to)

(***************************************************************************)
(* NoShortcuts: the virtual nodes bring no two nodes of the road graph     *)
(* nearer to each other, so a leg cannot gain by driving over a point of   *)
(* its own or of the other end.                                            *)
(***************************************************************************)
NoShortcuts ==
    Asked =>
        \A u, v \in Nodes :
            ShortestCost(Vertices, Edges, u, v) =
                ShortestCost(Nodes, RoadEdges(adjacency_lists), u, v)
=============================================================================
