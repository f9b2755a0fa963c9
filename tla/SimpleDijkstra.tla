--------------------------- MODULE SimpleDijkstra ---------------------------
(***************************************************************************)
(* ShortestPath::SimpleDijkstra (source_files/ShortestPath.cpp): one       *)
(* search, forward from queryG.from, that stops when queryG.to is taken    *)
(* off the queue.  Its state is that of one side of BidirectionalDijkstra; *)
(* what is left open there (ties on the heap, the order of an adjacency    *)
(* list) is left open here.                                                *)
(***************************************************************************)
EXTENDS WeightedGraphs, SequencesExt

CONSTANTS
    Vertices,   \* every vertex of the query graph, the virtual ones included
    Graphs,     \* the query graphs considered, each a set of weighted edges
    Queries,    \* the <<from, to>> pairs considered
    NoNode,     \* the code's -1
    Unset       \* the contents of the caller's uninitialized cost variable

ASSUME VerticesAssumption == IsFiniteSet(Vertices)
ASSUME GraphsAssumption == Graphs \subseteq SUBSET (Vertices \X Vertices \X Nat)
ASSUME QueriesAssumption == Queries \subseteq Vertices \X Vertices
ASSUME NoNodeAssumption == NoNode \notin Vertices
ASSUME UnsetAssumption == Unset \notin Nat \cup {Infinity}

VARIABLES
    edges, from, to,      \* the query graph and the query, never written
    pc,                   \* where the function is
    dist_to,              \* distances found so far
    previous_node,        \* the vertex before, on the way from "from"
    pq,                   \* the priority queue, a set of <<vertex, priority>>
    u,                    \* the vertex whose edges are being relaxed
    todo,                 \* those of its edges that are still to be relaxed
    prev,                 \* cursor that walks back from "to"
    shortest_path,        \* out parameter: the route, last vertex first
    path_cost             \* out parameter: its cost

query == <<edges, from, to>>
search == <<dist_to, previous_node, pq>>
answer == <<shortest_path, path_cost>>
vars == <<query, pc, search, u, todo, prev, answer>>

Put(map, key, value) ==
    [k \in DOMAIN map \cup {key} |-> IF k = key THEN value ELSE map[k]]

IsTop(e) == e \in pq /\ \A f \in pq : e[2] <= f[2]

IsGood(e) == e[2] = dist_to[e[1]]

(* A slip: the goal is final as soon as it has a distance at all.          *)
GoalSeen(x) == x = to \/ to \in DOMAIN dist_to

(* The vertex t was popped: its shortest path is found.                    *)
IsGoal(x) == x = to

(* A slip: a way that only ties improves a vertex too.                     *)
ImprovesOrTies(v, length) == v \notin DOMAIN dist_to \/ length <= dist_to[v]

Improves(v, length) == v \notin DOMAIN dist_to \/ length < dist_to[v]

InOrder(path) == Reverse(path)

-----------------------------------------------------------------------------
Init ==
    /\ edges \in Graphs
    /\ \E q \in Queries : from = q[1] /\ to = q[2]
    /\ pc = "start"
    /\ dist_to = <<>>
    /\ previous_node = <<>>
    /\ pq = {}
    /\ u = NoNode
    /\ todo = {}
    /\ prev = NoNode
    /\ shortest_path = <<>>
    /\ path_cost = Unset

SameVertex ==
    /\ pc = "start"
    /\ from = to
    /\ shortest_path' = <<from>>
    /\ path_cost' = 0
    /\ pc' = "done"
    /\ UNCHANGED <<query, search, u, todo, prev>>

Start ==
    /\ pc = "start"
    /\ from # to
    /\ dist_to' = [x \in {from} |-> 0]
    /\ pq' = {<<from, 0>>}
    /\ pc' = "pop"
    /\ UNCHANGED <<query, previous_node, u, todo, prev, answer>>

PopStale ==
    /\ pc = "pop"
    /\ \E e \in pq : IsTop(e) /\ ~IsGood(e) /\ pq' = pq \ {e}
    /\ UNCHANGED <<query, pc, dist_to, previous_node, u, todo, prev, answer>>

(* Take the vertex on top; leave the loop when it is the goal.             *)
Settle ==
    /\ pc = "pop"
    /\ \E e \in pq :
        /\ IsTop(e)
        /\ IsGood(e)
        /\ pq' = pq \ {e}
        /\ u' = e[1]
        /\ IF IsGoal(e[1])
           THEN todo' = {} /\ pc' = "answer"
           ELSE todo' = ForwardEdges(edges, e[1]) /\ pc' = "relax"
    /\ UNCHANGED <<query, dist_to, previous_node, prev, answer>>

RunDry ==
    /\ pc = "pop"
    /\ pq = {}
    /\ pc' = "answer"
    /\ UNCHANGED <<query, search, u, todo, prev, answer>>

Relax ==
    /\ pc = "relax"
    /\ \E edge \in todo :
        LET v      == edge[1]
            length == dist_to[u] + edge[2]
        IN  /\ todo' = todo \ {edge}
            /\ IF Improves(v, length)
               THEN /\ dist_to' = Put(dist_to, v, length)
                    /\ pq' = pq \cup {<<v, length>>}
                    /\ previous_node' = Put(previous_node, v, u)
               ELSE UNCHANGED search
    /\ UNCHANGED <<query, pc, u, prev, answer>>

Relaxed ==
    /\ pc = "relax"
    /\ todo = {}
    /\ pc' = "pop"
    /\ UNCHANGED <<query, search, u, todo, prev, answer>>

NoRoute ==
    /\ pc = "answer"
    /\ to \notin DOMAIN dist_to
    /\ path_cost' = Infinity
    /\ pc' = "done"
    /\ UNCHANGED <<query, search, u, todo, prev, shortest_path>>

StartTrace ==
    /\ pc = "answer"
    /\ to \in DOMAIN dist_to
    /\ path_cost' = dist_to[to]
    /\ shortest_path' = <<to>>
    /\ prev' = to
    /\ pc' = "trace"
    /\ UNCHANGED <<query, search, u, todo>>

(* prev = previous_node[prev]: push it, or, when it is the start, push it  *)
(* and put the route in order.                                             *)
Trace ==
    /\ pc = "trace"
    /\ prev' = previous_node[prev]
    /\ IF prev' # from
       THEN shortest_path' = Append(shortest_path, prev') /\ pc' = pc
       ELSE shortest_path' = InOrder(Append(shortest_path, from)) /\ pc' = "done"
    /\ UNCHANGED <<query, search, u, todo, path_cost>>

Step ==
    \/ SameVertex \/ Start
    \/ PopStale \/ Settle \/ RunDry \/ Relax \/ Relaxed
    \/ NoRoute \/ StartTrace \/ Trace

(* The function has returned.                                              *)
Returned == pc = "done" /\ UNCHANGED vars

Next == Step \/ Returned

(* A sequential function runs until it returns.                            *)
Spec == Init /\ [][Next]_vars /\ WF_vars(Step)

-----------------------------------------------------------------------------
Known == DOMAIN dist_to

Settled == {x \in Known : <<x, dist_to[x]>> \notin pq}

(***************************************************************************)
(* TypeOK: the map and the queue hold vertices of the query graph, and the *)
(* cost is a number, or the float maximum, once the function has returned. *)
(***************************************************************************)
TypeOK ==
    /\ edges \in Graphs
    /\ <<from, to>> \in Queries
    /\ pc \in {"start", "pop", "relax", "answer", "trace", "done"}
    /\ Known \subseteq Vertices
    /\ dist_to \in [Known -> Nat]
    /\ DOMAIN previous_node \subseteq Known
    /\ previous_node \in [DOMAIN previous_node -> Vertices]
    /\ pq \in SUBSET (Vertices \X Nat)
    /\ u \in Vertices \cup {NoNode}
    /\ todo \in SUBSET (Vertices \X Nat)
    /\ prev \in Vertices \cup {NoNode}
    /\ shortest_path \in Seq(Vertices)
    /\ path_cost \in Nat \cup {Infinity, Unset}
    /\ pc = "done" => path_cost # Unset

(***************************************************************************)
(* The invariant of the search, in named parts.                            *)
(***************************************************************************)

(* Rooted: a search has its root at distance 0, and there is none for a    *)
(* query from a vertex to itself.                                          *)
Rooted ==
    IF pc = "start" \/ from = to
    THEN pc \in {"start", "done"} /\ Known = {} /\ pq = {}
    ELSE from \in Known /\ dist_to[from] = 0

(* QueueSound: an entry left behind is never below its vertex's distance.  *)
QueueSound == \A e \in pq : e[1] \in Known /\ dist_to[e[1]] <= e[2]

(* SettledFirst: what was taken off the queue is no farther than what      *)
(* waits, and the vertex being relaxed is the farthest taken.              *)
SettledFirst ==
    /\ \A x \in Settled, y \in Known \ Settled : dist_to[x] <= dist_to[y]
    /\ pc = "relax" =>
            /\ u \in Settled
            /\ todo \subseteq ForwardEdges(edges, u)
            /\ \A x \in Settled : dist_to[x] <= dist_to[u]

(* SettledRelaxed: every edge of a settled vertex has been relaxed, but    *)
(* for those of u the loop has yet to reach and those of the goal.         *)
SettledRelaxed ==
    \A x \in Settled \ {to} : \A e \in ForwardEdges(edges, x) :
        \/ pc = "relax" /\ x = u /\ e \in todo
        \/ e[1] \in Known /\ dist_to[e[1]] <= dist_to[x] + e[2]

(* GoalLast: the search goes on until the goal is settled or nothing waits. *)
GoalLast ==
    /\ pc \in {"pop", "relax"} => to \notin Settled
    /\ pc \in {"answer", "trace", "done"} => to \in Settled \/ Known \subseteq Settled

(* PreviousExact: the previous vertex is settled, and an edge of just the  *)
(* difference of the two distances leads from it.                          *)
PreviousExact ==
    \A x \in Known \ {from} :
        /\ x \in DOMAIN previous_node
        /\ previous_node[x] \in Settled
        /\ <<x, dist_to[x] - dist_to[previous_node[x]]>> \in ForwardEdges(edges, previous_node[x])

(* Acyclic: previous vertices never lead round in a circle.                *)
Acyclic ==
    \A S \in SUBSET (Known \ {from}) : S # {} => \E x \in S : previous_node[x] \notin S

(* IsWay: s leads from the goal back over previous_node, meets no vertex   *)
(* twice and does not go on beyond the start.                              *)
IsWay(s) ==
    /\ Len(s) > 0 /\ s[1] = to
    /\ IsInjective(s)
    /\ \A i \in 1 .. Len(s) : s[i] \in Known
    /\ \A i \in 1 .. Len(s) - 1 : s[i] # from /\ s[i + 1] = previous_node[s[i]]

(* Walked: the route is such a way, all of it and in order at the end, and *)
(* its cost is the goal's distance.                                        *)
Walked ==
    /\ pc = "trace" =>
        /\ IsWay(shortest_path)
        /\ prev = Last(shortest_path) /\ prev # from
        /\ path_cost = dist_to[to]
    /\ pc \notin {"trace", "done"} => shortest_path = <<>>
    /\ pc = "done" =>
        IF from = to THEN shortest_path = <<from>> /\ path_cost = 0
        ELSE IF to \notin Known THEN shortest_path = <<>> /\ path_cost = Infinity
        ELSE /\ IsWay(Reverse(shortest_path))
             /\ Last(Reverse(shortest_path)) = from
             /\ path_cost = dist_to[to]

(***************************************************************************)
(* SearchInv: what the search and the walk back over previous_node rest    *)
(* on, in every order of the steps.                                        *)
(***************************************************************************)
SearchInv ==
    /\ TypeOK
    /\ Rooted
    /\ QueueSound
    /\ SettledFirst
    /\ SettledRelaxed
    /\ GoalLast
    /\ PreviousExact
    /\ Acyclic
    /\ Walked

-----------------------------------------------------------------------------
(* The promise this function is to keep.                                   *)
Promise == INSTANCE ShortestPathQuery WITH
    answered      <- pc = "done",
    shortest_path <- IF pc = "done" THEN shortest_path ELSE <<>>,
    path_cost     <- IF pc = "done" THEN path_cost ELSE Unset

(***************************************************************************)
(* KeepsPromise: the one-sided search implements ShortestPathQuery too, so *)
(* the two algorithms are interchangeable behind ShortestPath's            *)
(* constructor.                                                            *)
(***************************************************************************)
KeepsPromise == Promise!Spec

(***************************************************************************)
(* AnswersAtLast: and it does answer, since lazy deletion empties the      *)
(* queue and the walk back over previous_node meets the start.             *)
(***************************************************************************)
AnswersAtLast == Promise!Answers
=============================================================================
