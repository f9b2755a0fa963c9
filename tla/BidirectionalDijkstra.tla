------------------------ MODULE BidirectionalDijkstra -----------------------
(***************************************************************************)
(* ShortestPath::BidirectionalDijkstra (source_files/ShortestPath.cpp).    *)
(*                                                                         *)
(* Two Dijkstra searches take turns, one forward from queryG.from and one  *)
(* backward from queryG.to.  They run the same code on their own maps and  *)
(* queue, so the state is indexed by the side: dist_to[Fwd] is the code's  *)
(* dist_to, dist_to[Bwd] its dist_to_2, and so on.  A map is a function on *)
(* the keys it holds.  The priority queue is a set of <<vertex, priority>> *)
(* pairs: a vertex is pushed again when its distance improves and its old  *)
(* pairs stay behind until they are popped and thrown away.                *)
(*                                                                         *)
(* Which of several least pairs is on top of the heap, and the order of    *)
(* the edges in an adjacency list, are left open: any of them may be next. *)
(* Costs are naturals; the rounding of float sums is not modelled.         *)
(***************************************************************************)
EXTENDS WeightedGraphs, SequencesExt

CONSTANTS
    Vertices,   \* every vertex of the query graph, the virtual ones included
    Graphs,     \* the query graphs considered, each a set of weighted edges
    Queries,    \* the <<from, to>> pairs considered
    NoNode,     \* the code's -1
    Unset,      \* the contents of the caller's uninitialized cost variable
    Walks       \* the priced walks that answers are compared with

ASSUME VerticesAssumption == IsFiniteSet(Vertices)
ASSUME GraphsAssumption == Graphs \subseteq SUBSET (Vertices \X Vertices \X Nat)
ASSUME QueriesAssumption == Queries \subseteq Vertices \X Vertices
ASSUME WalksAssumption == Walks \subseteq [at : Seq(Vertices), cost : Seq(Nat)]
ASSUME NoNodeAssumption == NoNode \notin Vertices
ASSUME UnsetAssumption == Unset \notin Nat \cup {Infinity}

Fwd == "forward"
Bwd == "backward"
Side == {Fwd, Bwd}
Other(d) == IF d = Fwd THEN Bwd ELSE Fwd

(* map[key] = value, whether the key is new or not.                        *)
Put(map, key, value) ==
    [k \in DOMAIN map \cup {key} |-> IF k = key THEN value ELSE map[k]]

VARIABLES
    edges, from, to,      \* the query graph and the query, never written
    pc,                   \* where the function is
    side,                 \* the search whose half of the loop body is running
    dist_to,              \* per side: distances found so far
    previous_node,        \* per side: the vertex before, on the way to the root
    pq,                   \* per side: the priority queue
    u,                    \* the vertex whose edges are being relaxed
    todo,                 \* those of its edges that are still to be relaxed
    common_node,          \* best meeting point of the two searches
    current_best_dist,    \* cost of the best route through a meeting point
    prev,                 \* cursor that walks back from the meeting point
    trail,                \* per side: the vertices the cursor has met
    shortest_path,        \* out parameter: the route
    path_cost             \* out parameter: its cost

query == <<edges, from, to>>
search == <<dist_to, previous_node, pq>>
meeting == <<common_node, current_best_dist>>
answer == <<shortest_path, path_cost>>
vars == <<query, pc, side, search, u, todo, meeting, prev, trail, answer>>

-----------------------------------------------------------------------------
Root(d) == IF d = Fwd THEN from ELSE to

(* A slip: the backward search follows edges the way they point.           *)
OutEdgesOneWay(d, x) == ForwardEdges(edges, x)

OutEdges(d, x) == IF d = Fwd THEN ForwardEdges(edges, x) ELSE BackwardEdges(edges, x)

(* A slip: a meeting point that only ties replaces the one found first.    *)
NoDearer(cost, best) == best # Infinity => cost <= best

Cheaper(cost, best) == best # Infinity => cost < best

(* A slip: a heap without its comparator.                                  *)
IsAnyEntry(d, e) == e \in pq[d]

(* priority_queue::top(): some pair of least priority.                     *)
IsTop(d, e) == e \in pq[d] /\ \A f \in pq[d] : e[2] <= f[2]

(* A slip: no lazy deletion.                                               *)
NeverStale(d, e) == TRUE

(* "good value": the pair carries the distance its vertex has now.         *)
IsGood(d, e) == e[2] = dist_to[d][e[1]]

(* A slip: look at the pair on top and leave it there.                     *)
Peek(d, e) == pq

(* priority_queue::pop() of the pair on top.                               *)
Pop(d, e) == [pq EXCEPT ![d] = @ \ {e}]

(* A slip: stop where the two searches first meet.                         *)
NotMetYet(e, f) == common_node = NoNode

(* The outer loop goes on: both queues hold something, and the distances   *)
(* of the vertices on top do not yet add up to the best cost found.        *)
MayImprove(e, f) == Cheaper(dist_to[Fwd][e[1]] + dist_to[Bwd][f[1]], current_best_dist)

(* Relaxing an edge to v improves v when v is new or the way is shorter.   *)
Improves(d, v, length) == v \notin DOMAIN dist_to[d] \/ length < dist_to[d][v]

-----------------------------------------------------------------------------
Init ==
    /\ edges \in Graphs
    /\ \E q \in Queries : from = q[1] /\ to = q[2]
    /\ pc = "start"
    /\ side = Fwd
    /\ dist_to = [d \in Side |-> <<>>]
    /\ previous_node = [d \in Side |-> <<>>]
    /\ pq = [d \in Side |-> {}]
    /\ u = NoNode
    /\ todo = {}
    /\ common_node = NoNode
    /\ current_best_dist = Infinity
    /\ prev = NoNode
    /\ trail = [d \in Side |-> <<>>]
    /\ shortest_path = <<>>
    /\ path_cost = Unset

(* The s->s route is {s} and costs 0.                                      *)
SameVertex ==
    /\ pc = "start"
    /\ from = to
    /\ shortest_path' = <<from>>
    /\ path_cost' = 0
    /\ pc' = "done"
    /\ UNCHANGED <<query, side, search, u, todo, meeting, prev, trail>>

Start ==
    /\ pc = "start"
    /\ from # to
    /\ dist_to' = [d \in Side |-> [x \in {Root(d)} |-> 0]]
    /\ pq' = [d \in Side |-> {<<Root(d), 0>>}]
    /\ pc' = "test"
    /\ UNCHANGED <<query, side, previous_node, u, todo, meeting, prev, trail, answer>>

(* while (!pq.empty() && !pq_2.empty() && ... < current_best_dist)         *)
EnterLoop ==
    /\ pc = "test"
    /\ \E e \in pq[Fwd], f \in pq[Bwd] :
        IsTop(Fwd, e) /\ IsTop(Bwd, f) /\ MayImprove(e, f)
    /\ side' = Fwd
    /\ pc' = "pop"
    /\ UNCHANGED <<query, search, u, todo, meeting, prev, trail, answer>>

LeaveLoop ==
    /\ pc = "test"
    /\ \/ pq[Fwd] = {}
       \/ pq[Bwd] = {}
       \/ \E e \in pq[Fwd], f \in pq[Bwd] :
            IsTop(Fwd, e) /\ IsTop(Bwd, f) /\ ~MayImprove(e, f)
    /\ pc' = "answer"
    /\ UNCHANGED <<query, side, search, u, todo, meeting, prev, trail, answer>>

(* Lazy deletion: a pair that no longer carries its vertex's distance.     *)
PopStale ==
    /\ pc = "pop"
    /\ \E e \in pq[side] :
        /\ IsTop(side, e)
        /\ ~IsGood(side, e)
        /\ pq' = Pop(side, e)
    /\ UNCHANGED <<query, pc, side, dist_to, previous_node, u, todo, meeting, prev, trail, answer>>

(* The vertex on top is final: take it and fetch the edges to relax.       *)
Settle ==
    /\ pc = "pop"
    /\ \E e \in pq[side] :
        /\ IsTop(side, e)
        /\ IsGood(side, e)
        /\ pq' = Pop(side, e)
        /\ u' = e[1]
        /\ todo' = OutEdges(side, e[1])
    /\ pc' = "relax"
    /\ UNCHANGED <<query, side, dist_to, previous_node, meeting, prev, trail, answer>>

(* Only stale pairs were left (u == -1): break.                            *)
RunDry ==
    /\ pc = "pop"
    /\ pq[side] = {}
    /\ pc' = "answer"
    /\ UNCHANGED <<query, side, search, u, todo, meeting, prev, trail, answer>>

(* Relax one edge of u to v, then see whether the other search has been at *)
(* v and the two together make a better route.                             *)
Relax ==
    /\ pc = "relax"
    /\ \E edge \in todo :
        LET v      == edge[1]
            length == dist_to[side][u] + edge[2]
            dist   == IF Improves(side, v, length) THEN length ELSE dist_to[side][v]
            other  == dist_to[Other(side)]
            better == v \in DOMAIN other /\ Cheaper(dist + other[v], current_best_dist)
        IN  /\ todo' = todo \ {edge}
            /\ IF Improves(side, v, length)
               THEN /\ dist_to' = [dist_to EXCEPT ![side] = Put(@, v, length)]
                    /\ pq' = [pq EXCEPT ![side] = @ \cup {<<v, length>>}]
                    /\ previous_node' = [previous_node EXCEPT ![side] = Put(@, v, u)]
               ELSE UNCHANGED search
            /\ common_node' = IF better THEN v ELSE common_node
            /\ current_best_dist' = IF better THEN dist + other[v] ELSE current_best_dist
    /\ UNCHANGED <<query, pc, side, u, prev, trail, answer>>

(* The forward half of the loop body is followed by the backward half, the *)
(* backward half by the loop test.                                         *)
Relaxed ==
    /\ pc = "relax"
    /\ todo = {}
    /\ IF side = Fwd
       THEN side' = Bwd /\ pc' = "pop"
       ELSE side' = side /\ pc' = "test"
    /\ UNCHANGED <<query, search, u, todo, meeting, prev, trail, answer>>

NoRoute ==
    /\ pc = "answer"
    /\ common_node = NoNode
    /\ path_cost' = Infinity
    /\ pc' = "done"
    /\ UNCHANGED <<query, side, search, u, todo, meeting, prev, trail, shortest_path>>

StartTrace ==
    /\ pc = "answer"
    /\ common_node # NoNode
    /\ path_cost' = current_best_dist
    /\ side' = Fwd
    /\ prev' = common_node
    /\ pc' = "trace"
    /\ UNCHANGED <<query, search, u, todo, meeting, trail, shortest_path>>

(* prev = previous_node[prev] until the root has been met; nothing is      *)
(* walked when the meeting point is the root itself.                       *)
Trace ==
    /\ pc = "trace"
    /\ prev # Root(side)
    /\ prev' = previous_node[side][prev]
    /\ trail' = [trail EXCEPT ![side] = Append(@, prev')]
    /\ UNCHANGED <<query, pc, side, search, u, todo, meeting, answer>>

StartBackwardTrace ==
    /\ pc = "trace"
    /\ side = Fwd
    /\ prev = Root(Fwd)
    /\ side' = Bwd
    /\ prev' = common_node
    /\ UNCHANGED <<query, pc, search, u, todo, meeting, trail, answer>>

(* Reverse the forward trail, add the meeting point and the backward trail. *)
Combine ==
    /\ pc = "trace"
    /\ side = Bwd
    /\ prev = Root(Bwd)
    /\ shortest_path' = Reverse(trail[Fwd]) \o <<common_node>> \o trail[Bwd]
    /\ pc' = "done"
    /\ UNCHANGED <<query, side, search, u, todo, meeting, prev, trail, path_cost>>

Step ==
    \/ SameVertex \/ Start
    \/ EnterLoop \/ LeaveLoop
    \/ PopStale \/ Settle \/ RunDry \/ Relax \/ Relaxed
    \/ NoRoute \/ StartTrace \/ Trace \/ StartBackwardTrace \/ Combine

(* The function has returned.                                              *)
Returned == pc = "done" /\ UNCHANGED vars

Next == Step \/ Returned

(* A sequential function runs until it returns.                            *)
Spec == Init /\ [][Next]_vars /\ WF_vars(Step)

-----------------------------------------------------------------------------
Known(d) == DOMAIN dist_to[d]

Queued(d, x) == <<x, dist_to[d][x]>> \in pq[d]

Settled(d) == {x \in Known(d) : ~Queued(d, x)}

(* An edge of u that the loop over u's edges has not reached yet.          *)
Pending(d, x, e) == pc = "relax" /\ d = side /\ x = u /\ e \in todo

(***************************************************************************)
(* TypeOK: the maps and queues hold vertices of the query graph, and the   *)
(* cost is a number, or the float maximum, once the function has returned. *)
(***************************************************************************)
TypeOK ==
    /\ edges \in Graphs
    /\ <<from, to>> \in Queries
    /\ pc \in {"start", "test", "pop", "relax", "answer", "trace", "done"}
    /\ side \in Side
    /\ DOMAIN dist_to = Side /\ DOMAIN previous_node = Side
    /\ \A d \in Side :
        /\ Known(d) \subseteq Vertices
        /\ dist_to[d] \in [Known(d) -> Nat]
        /\ DOMAIN previous_node[d] \subseteq Known(d)
        /\ previous_node[d] \in [DOMAIN previous_node[d] -> Vertices]
    /\ pq \in [Side -> SUBSET (Vertices \X Nat)]
    /\ u \in Vertices \cup {NoNode}
    /\ todo \in SUBSET (Vertices \X Nat)
    /\ common_node \in Vertices \cup {NoNode}
    /\ current_best_dist \in Nat \cup {Infinity}
    /\ prev \in Vertices \cup {NoNode}
    /\ trail \in [Side -> Seq(Vertices)]
    /\ shortest_path \in Seq(Vertices)
    /\ path_cost \in Nat \cup {Infinity, Unset}
    /\ pc = "done" => path_cost # Unset

-----------------------------------------------------------------------------
(***************************************************************************)
(* The inductive invariant of the two searches, in named parts.            *)
(***************************************************************************)

(* Rooted: once started, each side knows its root, at distance 0.          *)
Rooted ==
    pc # "start" /\ from # to =>
        \A d \in Side : Root(d) \in Known(d) /\ dist_to[d][Root(d)] = 0

(* QueueSound: an entry left behind by lazy deletion is never below its    *)
(* vertex's distance, so looking the distance up through a stale top of    *)
(* the heap, as the loop test does, errs on the safe side only.            *)
QueueSound ==
    \A d \in Side : \A e \in pq[d] :
        e[1] \in Known(d) /\ dist_to[d][e[1]] <= e[2]

(* SettledFirst: no vertex that was taken off a queue is farther from the  *)
(* root than one that still waits, and the vertex being relaxed is the     *)
(* farthest one taken.                                                     *)
SettledFirst ==
    /\ \A d \in Side : \A x \in Settled(d), y \in Known(d) \ Settled(d) :
            dist_to[d][x] <= dist_to[d][y]
    /\ pc = "relax" =>
            /\ u \in Settled(side)
            /\ todo \subseteq OutEdges(side, u)
            /\ \A x \in Settled(side) : dist_to[side][x] <= dist_to[side][u]

(* SettledRelaxed: every edge of a settled vertex has been relaxed, but    *)
(* for those of u the loop has yet to reach.                               *)
SettledRelaxed ==
    \A d \in Side : \A x \in Settled(d) : \A e \in OutEdges(d, x) :
        \/ Pending(d, x, e)
        \/ e[1] \in Known(d) /\ dist_to[d][e[1]] <= dist_to[d][x] + e[2]

(* MeetingIsBest: current_best_dist is the least cost over all vertices    *)
(* both searches know, although each relaxed edge looks at one vertex      *)
(* only, and common_node is a vertex with that cost.                       *)
MeetingIsBest ==
    /\ \A x \in Known(Fwd) \cap Known(Bwd) :
            /\ current_best_dist # Infinity
            /\ current_best_dist <= dist_to[Fwd][x] + dist_to[Bwd][x]
    /\ common_node = NoNode <=> current_best_dist = Infinity
    /\ common_node # NoNode =>
            /\ common_node \in Known(Fwd) \cap Known(Bwd)
            /\ current_best_dist = dist_to[Fwd][common_node] + dist_to[Bwd][common_node]

(* Exhausted: nothing waits on side d any more.                            *)
Exhausted(d) == Known(d) \subseteq Settled(d)

(* OutOfReach: what waits on the two sides is too far from the roots for a *)
(* route through two waiting vertices to beat the best one found.          *)
OutOfReach ==
    /\ current_best_dist # Infinity
    /\ \A x \in Known(Fwd) \ Settled(Fwd), y \in Known(Bwd) \ Settled(Bwd) :
            current_best_dist <= dist_to[Fwd][x] + dist_to[Bwd][y]

(* SearchOver: the searches stop only when one side is exhausted or when   *)
(* neither can contribute a better route.                                  *)
SearchOver ==
    pc \in {"answer", "trace", "done"} /\ from # to =>
        Exhausted(Fwd) \/ Exhausted(Bwd) \/ OutOfReach

(* Unstarted: a query from a vertex to itself never starts the searches.   *)
Unstarted ==
    pc = "start" \/ from = to =>
        /\ pc \in {"start", "done"}
        /\ common_node = NoNode
        /\ current_best_dist = Infinity
        /\ \A d \in Side :
            Known(d) = {} /\ DOMAIN previous_node[d] = {} /\ pq[d] = {}

(* Traced: the cursor is on a vertex of the side it walks on, and the cost *)
(* reported is the best one found.                                         *)
Traced ==
    /\ pc = "trace" => common_node # NoNode /\ prev \in Known(side)
    /\ pc \in {"trace", "done"} =>
            path_cost = IF from = to THEN 0 ELSE current_best_dist

(* PreviousIsExact: a vertex other than the root has a previous vertex,    *)
(* settled, whose distance plus the weight of an edge between the two is   *)
(* exactly the vertex's distance.  previous_node is written only when the  *)
(* distance is, so it would go stale if a settled vertex ever improved.    *)
PreviousIsExact ==
    \A d \in Side : \A x \in Known(d) \ {Root(d)} :
        /\ x \in DOMAIN previous_node[d]
        /\ LET p == previous_node[d][x]
           IN  /\ p \in Settled(d)
               /\ <<x, dist_to[d][x] - dist_to[d][p]>> \in OutEdges(d, p)

(***************************************************************************)
(* SearchInv: what the two searches keep between them, in every order of   *)
(* their steps.                                                            *)
(***************************************************************************)
SearchInv ==
    /\ TypeOK
    /\ Unstarted
    /\ Rooted
    /\ QueueSound
    /\ SettledFirst
    /\ SettledRelaxed
    /\ MeetingIsBest
    /\ SearchOver
    /\ Traced
    /\ PreviousIsExact

-----------------------------------------------------------------------------
(***************************************************************************)
(* NoCheaperWalk: when the function returns, no walk from "from" to "to"   *)
(* is cheaper than path_cost, and path_cost is the float maximum only if   *)
(* there is no walk at all.                                                *)
(***************************************************************************)
NoCheaperWalk ==
    pc = "done" => \A k \in Walks : IsPricedWalk(edges, k, from, to) =>
        path_cost # Infinity /\ path_cost <= k.cost[Len(k.cost)]

(***************************************************************************)
(* RouteInv: what the walk back over the two previous_node maps rests on.  *)
(***************************************************************************)

(* Acyclic: the previous vertices of one side never lead round in a circle *)
(* that misses the root.                                                   *)
Acyclic ==
    \A d \in Side : \A S \in SUBSET (Known(d) \ {Root(d)}) :
        S # {} => \E x \in S : previous_node[d][x] \notin S

(* Half: S is settled, holds the vertex before the meeting point and, with *)
(* a vertex, the one before it: it holds the whole way back to the root.   *)
Half(d, S) ==
    /\ S \subseteq Settled(d)
    /\ common_node # Root(d) => previous_node[d][common_node] \in S
    /\ \A x \in S \ {Root(d)} : previous_node[d][x] \in S
    /\ Range(trail[d]) \subseteq S

(* Apart: the ways from the meeting point to the two roots share no        *)
(* vertex, however much the searches have settled since it was found.      *)
Apart ==
    common_node # NoNode =>
        \E S \in SUBSET Settled(Fwd), T \in SUBSET Settled(Bwd) :
            Half(Fwd, S) /\ Half(Bwd, T) /\ S \cap T = {}

(* The meeting point and the vertices that the cursor has met on a side.   *)
Way(d) == <<common_node>> \o trail[d]

(* Walked: what the cursor has met is the way over previous_node, repeats  *)
(* no vertex, and gets no farther from the root.                           *)
Walked ==
    common_node # NoNode => \A d \in Side :
        /\ IsInjective(Way(d))
        /\ \A i \in 1 .. Len(trail[d]) :
            Way(d)[i] # Root(d) /\ Way(d)[i + 1] = previous_node[d][Way(d)[i]]
        /\ \A i \in 1 .. Len(Way(d)) :
            Way(d)[i] \in Known(d) /\ dist_to[d][Way(d)[i]] <= dist_to[d][common_node]

(* Halted: a side's walk has come to its root.                             *)
Halted(d) == Last(Way(d)) = Root(d)

(* Untraced: before the walk back there is no trail, and no route before   *)
(* the end; the sides are walked one after the other, and the route is     *)
(* both of them.                                                           *)
Untraced ==
    /\ pc \notin {"trace", "done"} \/ common_node = NoNode => trail = [d \in Side |-> <<>>]
    /\ pc = "trace" =>
        /\ prev = Last(Way(side))
        /\ IF side = Fwd THEN trail[Bwd] = <<>> ELSE Halted(Fwd)
    /\ shortest_path =
        IF pc # "done" THEN <<>>
        ELSE IF from = to THEN <<from>>
        ELSE IF common_node = NoNode THEN <<>>
        ELSE Reverse(trail[Fwd]) \o <<common_node>> \o trail[Bwd]
    /\ pc = "done" /\ common_node # NoNode => Halted(Fwd) /\ Halted(Bwd)

RouteInv ==
    /\ Acyclic
    /\ Apart
    /\ Walked
    /\ Untraced

(***************************************************************************)
(* SettledIsFinal: a settled vertex keeps its distance and its previous    *)
(* vertex for good and is never queued again.                              *)
(***************************************************************************)
SettledKept ==
    \A d \in Side : \A x \in Settled(d) :
        /\ x \in Settled(d)'
        /\ dist_to'[d][x] = dist_to[d][x]
        /\ x # Root(d) => previous_node'[d][x] = previous_node[d][x]

SettledIsFinal == [][SettledKept]_vars

(* The promise this function is to keep.                                   *)
Promise == INSTANCE ShortestPathQuery WITH
    answered      <- pc = "done",
    shortest_path <- IF pc = "done" THEN shortest_path ELSE <<>>,
    path_cost     <- IF pc = "done" THEN path_cost ELSE Unset

(***************************************************************************)
(* KeepsPromise: the bidirectional search implements ShortestPathQuery: if *)
(* it answers, then with a walk of the query graph that costs what         *)
(* path_cost says and is the cheapest, although its two halves were found  *)
(* by two searches and common_node may have changed while they went on.    *)
(***************************************************************************)
KeepsPromise == Promise!Spec

(***************************************************************************)
(* AnswersAtLast: and it does answer: lazy deletion empties the queues,    *)
(* and the walk back over previous_node meets a root.                      *)
(***************************************************************************)
AnswersAtLast == Promise!Answers
=============================================================================
