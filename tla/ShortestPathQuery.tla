-------------------------- MODULE ShortestPathQuery -------------------------
(***************************************************************************)
(* What a ShortestPath search promises its caller: asked for a route       *)
(* between two vertices of a query graph it answers once, with a walk of   *)
(* least cost that repeats no vertex and with that cost, or with an empty  *)
(* route and the cost Infinity when no route exists.  Both searches of     *)
(* ShortestPath.cpp implement it.                                          *)
(***************************************************************************)
EXTENDS WeightedGraphs

CONSTANTS
    Vertices,   \* every vertex of the query graph, the virtual ones included
    Graphs,     \* the query graphs considered, each a set of weighted edges
    Queries,    \* the <<from, to>> pairs considered
    Unset       \* the contents of the caller's uninitialized cost variable

VARIABLES
    edges,          \* the query graph, never written
    from, to,       \* the vertices asked for, never written
    answered,       \* whether the constructor has returned
    shortest_path,  \* the route, an out parameter
    path_cost       \* its cost, an out parameter

vars == <<edges, from, to, answered, shortest_path, path_cost>>

Init ==
    /\ edges \in Graphs
    /\ \E q \in Queries : from = q[1] /\ to = q[2]
    /\ answered = FALSE
    /\ shortest_path = <<>>
    /\ path_cost = Unset

AnswerRoute ==
    /\ path_cost' # Infinity
    /\ IsWalk(edges, shortest_path', from, to)
    /\ IsInjective(shortest_path')
    /\ WalkCost(edges, shortest_path') = path_cost'
    /\ path_cost' = ShortestCost(Vertices, edges, from, to)

AnswerNoRoute ==
    /\ ShortestCost(Vertices, edges, from, to) = Infinity
    /\ path_cost' = Infinity
    /\ shortest_path' = <<>>

Answer ==
    /\ ~answered
    /\ answered' = TRUE
    /\ AnswerRoute \/ AnswerNoRoute
    /\ UNCHANGED <<edges, from, to>>

Next == Answer

Spec == Init /\ [][Next]_vars

(* An answer is promised too, whatever the fairness that brings it about.  *)
Answers == <>answered
=============================================================================
