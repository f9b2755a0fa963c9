----------------------------- MODULE NearestEdge -----------------------------
(***************************************************************************)
(* GraphStorage::GetNearestEdge (source_files/GraphStorage.cpp): the place *)
(* on the road network that is nearest to a point.  A radius search of the *)
(* KD tree gives the nodes to look at; the point is projected on every     *)
(* road that starts or ends at one of them and on which a route may begin, *)
(* and the nearest projection wins.                                        *)
(*                                                                         *)
(* A place on a road is a ratio, kept as a fraction: num / den of the way  *)
(* from u to v, with den > 0.  Coordinates and distances at that place are *)
(* den and den^2 times what they are, to be integers: so this module is    *)
(* for worlds in which Cosine is constant.                                 *)
(***************************************************************************)
EXTENDS KDTree, AdjacencyLists

CONSTANT Networks(_)   \* Networks(n): the adjacency lists considered for nodes 0 .. n - 1

VARIABLES
    adjacency_lists,   \* not written after the roads are read
    nearest            \* the NearestEdgeInfo that was returned

Edge(u, v, w, type) == [u |-> u, v |-> v, w |-> w, type |-> type]

NearestEdgeInfo(edge, projected_point, clamped_ratio, edge_found) ==
    [edge |-> edge, projected_point |-> projected_point, clamped_ratio |-> clamped_ratio,
     edge_found |-> edge_found]

NoEdge == [edge_found |-> FALSE]

EdgeInit ==
    /\ Init
    /\ adjacency_lists \in Networks(Cardinality(Nodes))
    /\ nearest = NoEdge

-----------------------------------------------------------------------------
(* The point num / den of the way from a to b, times den.                  *)
Along(a, b, num, den) == [axis \in 1 .. 2 |-> (den - num) * a[axis] + num * b[axis]]

Times(k, p) == [axis \in 1 .. 2 |-> k * p[axis]]

Projection(a, b, num, den) ==
    [clamped_ratio |-> [num |-> num, den |-> den], point |-> Along(a, b, num, den)]

(* A slip: the point may be past the ends of the road.                     *)
ProjectOnLine(p, a, b) ==
    LET slope == [axis \in 1 .. 2 |-> b[axis] - a[axis]]
        num   == slope[1] * (p[1] - a[1]) + slope[2] * (p[2] - a[2])
        den   == Square(slope[1]) + Square(slope[2])
    IN  IF den = 0 THEN Projection(a, b, 0, 1) ELSE Projection(a, b, num, den)

ProjectOnSegment(p, a, b) ==
    LET slope == [axis \in 1 .. 2 |-> b[axis] - a[axis]]
        num   == slope[1] * (p[1] - a[1]) + slope[2] * (p[2] - a[2])
        den   == Square(slope[1]) + Square(slope[2])
    IN  CASE den = 0              -> Projection(a, b, 0, 1)
          [] den # 0 /\ num > den -> Projection(a, b, 1, 1)
          [] den # 0 /\ num < 0   -> Projection(a, b, 0, 1)
          [] OTHER                -> Projection(a, b, num, den)

(* The distance of p to a projection, times Square(den).                   *)
DistanceTo(p, projection) ==
    Distance(Times(projection.clamped_ratio.den, p), projection.point)

(* p is nearer to projection x than to projection y.                       *)
Nearer(p, x, y) ==
    DistanceTo(p, x) * Square(y.clamped_ratio.den) < DistanceTo(p, y) * Square(x.clamped_ratio.den)

-----------------------------------------------------------------------------
(* A slip: an element that ends at A is reported as if it started there.   *)
AsListed(A, e) == Edge(A, e.v, e.w, e.edge_type)

AsTravelled(A, e) ==
    IF e.edge_type = BACKWARD_EDGE
    THEN Edge(e.v, A, e.w, e.edge_type)
    ELSE Edge(A, e.v, e.w, e.edge_type)

(* What is inserted into the set of edges.                                 *)
Candidates ==
    UNION {{AsTravelled(A, e) : e \in {x \in Elements(adjacency_lists[A]) : x.is_startpoint}} :
           A \in Range(nodes)}

Lower(e) == IF e.u < e.v THEN e.u ELSE e.v

Upper(e) == IF e.u < e.v THEN e.v ELSE e.u

(* A slip: edges are told apart by the lower of their nodes alone.         *)
BeforeByLower(e, f) == Lower(e) < Lower(f)

(* The comparator of the set, by which it is no ordering: it tests for     *)
(* less twice, so of some edges each comes before the other.               *)
Before(e, f) == Lower(e) < Lower(f) \/ Upper(e) < Upper(f)

(* An edge is left out only where it meets one that is neither before nor  *)
(* behind it; but where it does not meet it, both are kept.                *)
StandsFor(e, f) == e = f \/ (~Before(e, f) /\ ~Before(f, e))

On(e) == ProjectOnSegment(source, coordinates[e.u], coordinates[e.v])

(* The edges that may come out nearest: those kept are no nearer, whichever*)
(* are kept.                                                               *)
Nearest ==
    LET edges == Candidates
        NoNearer(e) == {kept \in edges : ~Nearer(source, On(kept), On(e))}
        KeptIn(S)   == \A f \in edges : \E kept \in S : StandsFor(kept, f)
    IN  {e \in edges : KeptIn(NoNearer(e))}

(* What follows the radius search.  Of edges that are as near as each      *)
(* other the first in the order of the set is returned, whichever that is. *)
GetNearestEdge ==
    /\ pc = "found"
    /\ \/ Candidates = {} /\ nearest' = NoEdge
       \/ \E e \in Nearest :
            nearest' = NearestEdgeInfo(e, On(e).point, On(e).clamped_ratio, TRUE)
    /\ pc' = "projected"
    /\ UNCHANGED <<coordinates, kd_tree, source, radius, nodes, adjacency_lists>>

EdgeNext ==
    \/ Next /\ UNCHANGED <<adjacency_lists, nearest>>
    \/ GetNearestEdge

EdgeSpec == EdgeInit /\ [][EdgeNext]_<<vars, adjacency_lists, nearest>>

-----------------------------------------------------------------------------
(* The places that are looked at for the reference answer: every eighth    *)
(* of every road a route may begin on with an end in the circle.  A road   *)
(* is listed at both its ends: it is taken from the lower of them.         *)
Steps == 8

InTheCircle == {node \in Nodes : Distance(coordinates[node], source) <= radius}

Reachable ==
    {<<A, v>> \in Nodes \X Nodes :
        /\ A <= v
        /\ {A, v} \cap InTheCircle # {}
        /\ \E e \in Elements(adjacency_lists[A]) : e.v = v /\ e.is_startpoint}

(* The squares of their distances, times Steps^2.                          *)
Distances ==
    {DistanceTo(source, Projection(coordinates[road[1]], coordinates[road[2]], num, Steps)) :
        road \in Reachable, num \in 0 .. Steps}

(***************************************************************************)
(* NearestOnTheNetwork: an edge is found just when a road on which a route *)
(* may begin has an end in the circle; no place on any such road is nearer *)
(* to the point than the one reported, which lies on the edge reported;    *)
(* and that edge can be travelled in its direction at its cost, though the *)
(* set that holds the edges may have dropped others between the same nodes *)
(* and an edge that was found at its end has been turned round.            *)
(***************************************************************************)
NearestOnTheNetwork ==
    pc = "projected" =>
        /\ nearest.edge_found <=> Reachable # {}
        /\ nearest.edge_found =>
            LET e  == nearest.edge
                r  == nearest.clamped_ratio
                at == [clamped_ratio |-> r, point |-> nearest.projected_point]
            IN  /\ r.num \in 0 .. r.den
                /\ at.point = Along(coordinates[e.u], coordinates[e.v], r.num, r.den)
                /\ LET distance == DistanceTo(source, at) * Square(Steps)
                   IN  \A other \in Distances : distance <= other * Square(r.den)
                /\ <<e.u, e.v, e.w>> \in TravelGraph(adjacency_lists)
===============================================================================
