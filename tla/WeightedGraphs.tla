--------------------------- MODULE WeightedGraphs ---------------------------
(***************************************************************************)
(* Directed graphs whose edges carry a travel time, as the shortest path   *)
(* search sees them through QueryGraph: a set of triples <<u, v, w>> "the  *)
(* edge u -> v costs w".  Two parallel edges are two triples.  The order   *)
(* in which an adjacency list holds its edges is left out.                 *)
(***************************************************************************)
EXTENDS Integers, FiniteSets, Sequences, Functions

CONSTANT Infinity   \* the cost of "no path": numeric_limits<float>::max()

ASSUME InfinityAssumption == Infinity \notin Int

(***************************************************************************)
(* QueryGraph::GetForwardEdges and GetBackwardEdges: the edges that leave  *)
(* u, and the edges that end in u walked against their direction.          *)
(***************************************************************************)
ForwardEdges(edges, u) == {<<e[2], e[3]>> : e \in {f \in edges : f[1] = u}}

BackwardEdges(edges, u) == {<<e[1], e[3]>> : e \in {f \in edges : f[2] = u}}

-----------------------------------------------------------------------------
(***************************************************************************)
(* Reference definitions, independent of any search: walks, what they      *)
(* cost, and the least cost over the routes that repeat no vertex.         *)
(***************************************************************************)
Weights(edges, u, v) == {e[3] : e \in {f \in edges : f[1] = u /\ f[2] = v}}

IsWalk(edges, p, from, to) ==
    /\ Len(p) > 0
    /\ p[1] = from
    /\ p[Len(p)] = to
    /\ \A i \in 1 .. Len(p) - 1 : Weights(edges, p[i], p[i + 1]) # {}

Least(S) == CHOOSE x \in S : \A y \in S : x <= y

(* What it costs to get to each vertex of a walk, by the cheapest edges.   *)
CostsAlong(edges, p) ==
    LET cost[i \in 1 .. Len(p)] ==
            IF i = 1 THEN 0 ELSE cost[i - 1] + Least(Weights(edges, p[i - 1], p[i]))
    IN  cost

WalkCost(edges, p) == CostsAlong(edges, p)[Len(p)]

(* Where a walk may go next if it is to repeat no vertex.                  *)
Onward(V, edges, p) == {v \in V : v \notin Range(p) /\ Weights(edges, p[Len(p)], v) # {}}

Longer(V, edges, walks) ==
    UNION {{Append(p, v) : v \in Onward(V, edges, p)} : p \in walks}

(* The walks that repeat no vertex, by the number of their vertices.       *)
SimpleWalksFrom(V, edges, from) ==
    LET walks[n \in 1 .. Cardinality(V)] ==
            IF n = 1 THEN {<<from>>} ELSE Longer(V, edges, walks[n - 1])
    IN  walks

SimpleWalks(V, edges, from, to) ==
    LET walks == SimpleWalksFrom(V, edges, from)
    IN  {p \in UNION {walks[n] : n \in 1 .. Cardinality(V)} : p[Len(p)] = to}

ShortestCost(V, edges, from, to) ==
    LET walks == SimpleWalks(V, edges, from, to)
    IN  IF walks = {} THEN Infinity ELSE Least({WalkCost(edges, p) : p \in walks})

(***************************************************************************)
(* A walk with the cost of reaching each of its vertices: k.at is the      *)
(* sequence of vertices, k.cost[i] the cost from k.at[1] to k.at[i].       *)
(***************************************************************************)
IsPricedWalk(edges, k, from, to) ==
    LET n == Len(k.at)
    IN  /\ n > 0
        /\ Len(k.cost) = n
        /\ k.at[1] = from
        /\ k.at[n] = to
        /\ k.cost[1] = 0
        /\ \A i \in 1 .. n - 1 :
            <<k.at[i], k.at[i + 1], k.cost[i + 1] - k.cost[i]>> \in edges
=============================================================================
