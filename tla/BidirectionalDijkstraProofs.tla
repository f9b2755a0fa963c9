--------------------- MODULE BidirectionalDijkstraProofs --------------------
(***************************************************************************)
(* Proofs about BidirectionalDijkstra, for every value of its constants.   *)
(* IInv, which SearchInv follows from, is inductive; NoCheaperWalk follows *)
(* from it along any walk, RouteInv needs the additions further below, and *)
(* the refinement of ShortestPathQuery needs them both.                    *)
(***************************************************************************)
EXTENDS BidirectionalDijkstra, WeightedGraphsProofs

Searches ==
    /\ Unstarted
    /\ Rooted
    /\ QueueSound
    /\ SettledFirst
    /\ SettledRelaxed
    /\ MeetingIsBest
    /\ SearchOver
    /\ Traced

IInv == TypeOK /\ Searches /\ PreviousIsExact

-----------------------------------------------------------------------------
(* The edges of a vertex lead to vertices of the graph and cost a natural. *)
LEMMA OutEdgesType ==
    ASSUME TypeOK, NEW d \in Side, NEW x
    PROVE  OutEdges(d, x) \in SUBSET (Vertices \X Nat)
<1>1. edges \in SUBSET (Vertices \X Vertices \X Nat)
  BY GraphsAssumption DEF TypeOK
<1>2. QED
  BY <1>1 DEF OutEdges, ForwardEdges, BackwardEdges

(* What the type invariant says of one side.                               *)
LEMMA SideType ==
    ASSUME TypeOK, NEW d \in Side
    PROVE  /\ Root(d) \in Vertices
           /\ Known(d) \subseteq Vertices
           /\ \A x \in Known(d) : dist_to[d][x] \in Nat
           /\ \A e \in pq[d] : e = <<e[1], e[2]>> /\ e[1] \in Vertices /\ e[2] \in Nat
           /\ Other(d) \in Side /\ Other(d) # d
<1>1. <<from, to>> \in Vertices \X Vertices
  BY QueriesAssumption DEF TypeOK
<1>2. Root(d) \in Vertices
  BY <1>1 DEF Root
<1>3. QED
  BY <1>2 DEF TypeOK, Known, Side, Other, Fwd, Bwd

-----------------------------------------------------------------------------
LEMMA InitInv == Init => IInv
<1> SUFFICES ASSUME Init PROVE IInv
  OBVIOUS
<1>1. \A d \in Side : DOMAIN dist_to[d] = {} /\ DOMAIN previous_node[d] = {} /\ pq[d] = {}
  BY DEF Init
<1>2. <<from, to>> \in Queries
  BY QueriesAssumption DEF Init
<1>3. TypeOK
  BY <1>1, <1>2, NoNodeAssumption DEF Init, TypeOK, Side, Fwd, Bwd, Known
<1>4. Searches
  <2>1. \A d \in Side : Known(d) = {} /\ Settled(d) = {}
    BY <1>1 DEF Known, Settled
  <2>2. Unstarted
    BY <1>1, <2>1 DEF Init, Unstarted
  <2>3. Rooted /\ SearchOver /\ Traced
    BY DEF Init, Rooted, SearchOver, Traced
  <2>4. QueueSound /\ SettledFirst /\ SettledRelaxed
    BY <1>1, <2>1 DEF Init, QueueSound, SettledFirst, SettledRelaxed
  <2>5. MeetingIsBest
    BY <2>1 DEF Init, MeetingIsBest, Side
  <2>6. QED
    BY <2>2, <2>3, <2>4, <2>5 DEF Searches
<1>5. PreviousIsExact
  BY <1>1 DEF PreviousIsExact, Known
<1>6. QED
  BY <1>3, <1>4, <1>5 DEF IInv

-----------------------------------------------------------------------------
(* A step that leaves the maps, the queues and the meeting point alone and *)
(* is not in the middle of a relaxation keeps what is said of them.        *)
LEMMA SearchUntouched ==
    ASSUME IInv, UNCHANGED <<query, search, meeting>>,
           pc # "start", from # to, pc' \notin {"start", "relax"},
           pc = "relax" => todo = {}
    PROVE  /\ Unstarted' /\ Rooted' /\ QueueSound' /\ SettledFirst'
           /\ SettledRelaxed' /\ MeetingIsBest' /\ PreviousIsExact'
<1> USE DEF query, search, meeting
<1>1. \A d \in Side : /\ Known(d)' = Known(d)
                      /\ Settled(d)' = Settled(d)
                      /\ Root(d)' = Root(d)
                      /\ \A x : OutEdges(d, x)' = OutEdges(d, x)
  BY DEF Known, Settled, Queued, Root, OutEdges
<1>2. Unstarted'
  BY DEF Unstarted
<1>3. Rooted'
  BY <1>1 DEF IInv, Searches, Rooted
<1>4. QueueSound'
  BY <1>1 DEF IInv, Searches, QueueSound
<1>5. SettledFirst'
  BY <1>1 DEF IInv, Searches, SettledFirst
<1>6. SettledRelaxed'
  BY <1>1 DEF IInv, Searches, SettledRelaxed, Pending
<1>7. MeetingIsBest'
  BY <1>1 DEF IInv, Searches, MeetingIsBest, Side
<1>8. PreviousIsExact'
  BY <1>1 DEF IInv, PreviousIsExact
<1>9. QED
  BY <1>2, <1>3, <1>4, <1>5, <1>6, <1>7, <1>8

(* A query under way is between two vertices.                              *)
LEMMA UnderWay ==
    ASSUME IInv, pc \notin {"start", "done"}
    PROVE  from # to
BY DEF IInv, Searches, Unstarted

LEMMA SameVertexInv ==
    ASSUME IInv, SameVertex
    PROVE  IInv'
<1> USE DEF SameVertex, query, search, meeting
<1>1. \A d \in Side : /\ Known(d) = {} /\ Known(d)' = {}
                      /\ Settled(d)' = {}
                      /\ DOMAIN previous_node[d] = {} /\ pq[d] = {}
  BY DEF IInv, Searches, Unstarted, Known, Settled
<1>2. TypeOK'
  <2>1. from \in Vertices
    BY SideType, from = Root(Fwd) DEF Root, Side, IInv
  <2>2. shortest_path' \in Seq(Vertices)
    BY <2>1
  <2>3. path_cost' \in Nat \cup {Infinity, Unset} /\ path_cost' # Unset
    BY UnsetAssumption
  <2>4. QED
    BY <2>2, <2>3 DEF IInv, TypeOK, Known
<1>3. Unstarted' /\ Rooted' /\ SearchOver' /\ Traced'
  BY <1>1 DEF IInv, Searches, Unstarted, Rooted, SearchOver, Traced
<1>4. QueueSound' /\ SettledFirst' /\ SettledRelaxed' /\ PreviousIsExact'
  BY <1>1 DEF QueueSound, SettledFirst, SettledRelaxed, PreviousIsExact
<1>5. MeetingIsBest'
  BY <1>1 DEF IInv, Searches, Unstarted, MeetingIsBest, Side
<1>6. QED
  BY <1>2, <1>3, <1>4, <1>5 DEF IInv, Searches

LEMMA StartInv ==
    ASSUME IInv, Start
    PROVE  IInv'
<1> USE DEF Start, query, meeting, answer
<1>1. \A d \in Side : /\ Root(d) \in Vertices
                      /\ Root(d)' = Root(d)
                      /\ dist_to'[d] = [x \in {Root(d)} |-> 0]
                      /\ pq'[d] = {<<Root(d), 0>>}
                      /\ DOMAIN previous_node[d] = {}
                      /\ DOMAIN previous_node'[d] = {}
  BY SideType DEF IInv, Searches, Unstarted, Root
<1>2. \A d \in Side : Known(d)' = {Root(d)} /\ Settled(d)' = {}
  BY <1>1 DEF Known, Settled, Queued
<1>3. TypeOK'
  <2>1. DOMAIN dist_to' = Side /\ pq' \in [Side -> SUBSET (Vertices \X Nat)]
    BY <1>1
  <2>2. QED
    BY <1>1, <1>2, <2>1 DEF IInv, TypeOK, Known
<1>4. Unstarted' /\ SearchOver' /\ Traced'
  BY DEF Unstarted, SearchOver, Traced
<1>5. Rooted' /\ QueueSound'
  BY <1>1, <1>2 DEF Rooted, QueueSound
<1>6. SettledFirst' /\ SettledRelaxed' /\ PreviousIsExact'
  BY <1>1, <1>2 DEF SettledFirst, SettledRelaxed, PreviousIsExact
<1>7. MeetingIsBest'
  <2>1. Root(Fwd) # Root(Bwd) /\ Fwd \in Side /\ Bwd \in Side
    BY DEF Root, Side, Fwd, Bwd
  <2>2. common_node = NoNode /\ current_best_dist = Infinity
    BY DEF IInv, Searches, Unstarted
  <2>3. QED
    BY <1>2, <2>1, <2>2 DEF MeetingIsBest
<1>8. QED
  BY <1>3, <1>4, <1>5, <1>6, <1>7 DEF IInv, Searches

-----------------------------------------------------------------------------
(* The searches stop for a reason.                                         *)
LEMMA LeaveLoopStops ==
    ASSUME IInv, LeaveLoop
    PROVE  Exhausted(Fwd) \/ Exhausted(Bwd) \/ OutOfReach
<1>1. ASSUME NEW d \in Side, pq[d] = {}
      PROVE  Exhausted(d)
  BY <1>1 DEF Exhausted, Settled, Queued
<1>2. ASSUME NEW e \in pq[Fwd], NEW f \in pq[Bwd],
             IsTop(Fwd, e), IsTop(Bwd, f), ~MayImprove(e, f)
      PROVE  OutOfReach
  <2>1. Fwd \in Side /\ Bwd \in Side
    BY DEF Side
  <2>2. e[1] \in Known(Fwd) /\ e[2] \in Nat /\ dist_to[Fwd][e[1]] <= e[2]
    BY <2>1, SideType DEF IInv, Searches, QueueSound
  <2>3. f[1] \in Known(Bwd) /\ f[2] \in Nat /\ dist_to[Bwd][f[1]] <= f[2]
    BY <2>1, SideType DEF IInv, Searches, QueueSound
  <2>4. /\ current_best_dist \in Nat
        /\ current_best_dist # Infinity
        /\ current_best_dist <= dist_to[Fwd][e[1]] + dist_to[Bwd][f[1]]
    <3>1. current_best_dist \in Nat \cup {Infinity}
      BY DEF IInv, TypeOK
    <3>2. dist_to[Fwd][e[1]] \in Nat /\ dist_to[Bwd][f[1]] \in Nat
      BY <2>1, <2>2, <2>3, SideType DEF IInv
    <3>3. QED
      BY <1>2, <3>1, <3>2 DEF MayImprove, Cheaper
  <2>5. ASSUME NEW x \in Known(Fwd) \ Settled(Fwd), NEW y \in Known(Bwd) \ Settled(Bwd)
        PROVE  current_best_dist <= dist_to[Fwd][x] + dist_to[Bwd][y]
    <3>1. <<x, dist_to[Fwd][x]>> \in pq[Fwd] /\ <<y, dist_to[Bwd][y]>> \in pq[Bwd]
      BY DEF Settled, Queued
    <3>2. e[2] <= dist_to[Fwd][x] /\ f[2] <= dist_to[Bwd][y]
      BY <1>2, <3>1 DEF IsTop
    <3>3. /\ dist_to[Fwd][x] \in Nat /\ dist_to[Bwd][y] \in Nat
          /\ dist_to[Fwd][e[1]] \in Nat /\ dist_to[Bwd][f[1]] \in Nat
      BY <2>1, <2>2, <2>3, SideType DEF IInv
    <3>4. QED
      BY <2>2, <2>3, <2>4, <3>2, <3>3
  <2>6. QED
    BY <2>4, <2>5 DEF OutOfReach
<1>3. QED
  BY <1>1, <1>2 DEF LeaveLoop, Side

(* The steps that touch neither search: moves between phases and the walk  *)
(* back over the previous vertices.                                        *)
LEMMA PhaseInv ==
    ASSUME IInv,
           EnterLoop \/ LeaveLoop \/ RunDry \/ Relaxed \/ NoRoute
    PROVE  IInv'
<1> USE DEF EnterLoop, LeaveLoop, RunDry, Relaxed, NoRoute
<1>1. /\ UNCHANGED <<query, search, meeting>>
      /\ pc # "start" /\ pc # "done"
      /\ pc' \notin {"start", "relax"}
      /\ pc = "relax" => todo = {}
  OBVIOUS
<1>2. from # to
  BY <1>1, UnderWay
<1>3. /\ Unstarted' /\ Rooted' /\ QueueSound' /\ SettledFirst'
      /\ SettledRelaxed' /\ MeetingIsBest' /\ PreviousIsExact'
  BY <1>1, <1>2, SearchUntouched
<1>4. TypeOK'
  <2>1. NoRoute => path_cost' = Infinity /\ Infinity # Unset
    BY UnsetAssumption
  <2>2. pc' = "done" => NoRoute
    OBVIOUS
  <2>3. QED
    BY <2>1, <2>2 DEF IInv, TypeOK, Known, query, search, meeting, answer, Side
<1>5. Traced'
  BY <1>2 DEF IInv, Searches, MeetingIsBest, Traced, query, meeting
<1>6. SearchOver'
  <2>1. \A d \in Side : Exhausted(d)' = Exhausted(d)
    BY DEF Exhausted, Known, Settled, Queued, search
  <2>2. OutOfReach' = OutOfReach
    BY DEF OutOfReach, Known, Settled, Queued, search, meeting
  <2>3. RunDry => Exhausted(side) /\ side \in Side
    BY DEF IInv, TypeOK, Exhausted, Settled, Queued
  <2>4. CASE LeaveLoop
    BY <2>1, <2>2, <2>4, LeaveLoopStops DEF SearchOver, Side
  <2>5. CASE RunDry
    BY <2>1, <2>2, <2>3, <2>5 DEF SearchOver, Side
  <2>6. CASE NoRoute
    BY <2>1, <2>2, <2>6, <1>2 DEF IInv, Searches, SearchOver, Side
  <2>7. CASE EnterLoop \/ Relaxed
    BY <2>7 DEF SearchOver
  <2>8. QED
    BY <2>4, <2>5, <2>6, <2>7
<1>7. QED
  BY <1>3, <1>4, <1>5, <1>6 DEF IInv, Searches

LEMMA TraceInv ==
    ASSUME IInv,
           StartTrace \/ Trace \/ StartBackwardTrace \/ Combine
    PROVE  IInv'
<1> USE DEF StartTrace, Trace, StartBackwardTrace, Combine
<1>1. /\ UNCHANGED <<query, search, meeting>>
      /\ pc \in {"answer", "trace"} /\ pc' \in {"trace", "done"}
  OBVIOUS
<1>2. from # to
  BY <1>1, UnderWay
<1>3. /\ Unstarted' /\ Rooted' /\ QueueSound' /\ SettledFirst'
      /\ SettledRelaxed' /\ MeetingIsBest' /\ PreviousIsExact'
  BY <1>1, <1>2, SearchUntouched
<1>4. SearchOver'
  <2>1. \A d \in Side : Exhausted(d)' = Exhausted(d)
    BY DEF Exhausted, Known, Settled, Queued, search
  <2>2. OutOfReach' = OutOfReach
    BY DEF OutOfReach, Known, Settled, Queued, search, meeting
  <2>3. QED
    BY <1>1, <1>2, <2>1, <2>2 DEF IInv, Searches, SearchOver, Side
<1>5. /\ common_node \in Vertices
      /\ common_node \in Known(Fwd) /\ common_node \in Known(Bwd)
      /\ current_best_dist \in Nat
  BY SideType DEF IInv, Searches, Traced, TypeOK, MeetingIsBest, Side
<1>6. Trace => prev' \in Known(side) /\ prev' \in Vertices
  <2>1. Trace => side \in Side /\ prev \in Known(side) \ {Root(side)}
    BY DEF IInv, TypeOK, Searches, Traced
  <2>2. Trace => prev' \in Settled(side)
    BY <2>1 DEF IInv, PreviousIsExact
  <2>3. QED
    BY <2>1, <2>2, SideType DEF Settled, IInv
<1>7. \A d \in Side : Known(d)' = Known(d)
  BY DEF Known, search
<1>8. Traced'
  <2>1. pc' = "trace" => prev' \in DOMAIN dist_to'[side']
    BY <1>5, <1>6 DEF Known, search
  <2>2. common_node' # NoNode
    BY <1>5, NoNodeAssumption DEF meeting
  <2>3. path_cost' = current_best_dist
    BY <1>2 DEF IInv, Searches, Traced, answer
  <2>4. QED
    BY <1>2, <2>1, <2>2, <2>3 DEF Traced, Known, query, meeting
<1>9. TypeOK'
  <2>1. trail' \in [Side -> Seq(Vertices)]
    <3>1. trail \in [Side -> Seq(Vertices)] /\ side \in Side
      BY DEF IInv, TypeOK
    <3>2. CASE Trace
      <4>1. Append(trail[side], prev') \in Seq(Vertices)
        BY <1>6, <3>1, <3>2
      <4>2. trail' = [trail EXCEPT ![side] = Append(trail[side], prev')]
        BY <3>2
      <4>3. QED
        BY <3>1, <4>1, <4>2
    <3>3. CASE ~Trace
      BY <3>1, <3>3
    <3>4. QED
      BY <3>2, <3>3
  <2>2. shortest_path' \in Seq(Vertices)
    <3>1. ASSUME NEW s \in Seq(Vertices)
          PROVE  Reverse(s) \in Seq(Vertices)
      BY DEF Reverse
    <3>2. trail[Fwd] \in Seq(Vertices) /\ trail[Bwd] \in Seq(Vertices)
      BY DEF IInv, TypeOK, Side
    <3>3. Reverse(trail[Fwd]) \o <<common_node>> \o trail[Bwd] \in Seq(Vertices)
      <4>1. <<common_node>> \in Seq(Vertices)
        BY <1>5
      <4>2. QED
        BY <3>1, <3>2, <4>1
    <3>4. QED
      BY <3>3 DEF IInv, TypeOK, answer
  <2>3. path_cost' \in Nat \cup {Infinity, Unset} /\ path_cost' # Unset
    BY <1>2, <1>5, UnsetAssumption DEF IInv, Searches, Traced, answer
  <2>4. prev' \in Vertices \cup {NoNode} /\ side' \in Side
    BY <1>5, <1>6 DEF IInv, TypeOK, Side
  <2>5. QED
    BY <1>1, <2>1, <2>2, <2>3, <2>4, <1>7 DEF IInv, TypeOK, Known, query, search, meeting
<1>10. QED
  BY <1>3, <1>4, <1>8, <1>9 DEF IInv, Searches

-----------------------------------------------------------------------------
(* Throwing away a stale entry changes no settled set.                     *)
LEMMA PopStaleInv ==
    ASSUME IInv, PopStale
    PROVE  IInv'
<1> USE DEF PopStale, Pop, query, meeting, answer
<1>1. PICK e \in pq[side] : /\ IsTop(side, e) /\ ~IsGood(side, e)
                            /\ pq' = [pq EXCEPT ![side] = @ \ {e}]
  BY Zenon
<1>2. side \in Side /\ from # to
  BY UnderWay DEF IInv, TypeOK
<1>3. e = <<e[1], e[2]>>
  BY <1>2, SideType DEF IInv
<1>4. \A d \in Side : pq'[d] \subseteq pq[d]
  BY <1>1, <1>2 DEF IInv, TypeOK
<1>5. ASSUME NEW d \in Side
      PROVE  Known(d)' = Known(d) /\ Settled(d)' = Settled(d) /\ Root(d)' = Root(d)
  <2>1. Known(d)' = Known(d) /\ Root(d)' = Root(d)
    BY DEF Known, Root
  <2>2. \A x \in Known(d) : Queued(d, x)' <=> Queued(d, x)
    BY <1>1, <1>2, <1>3 DEF Queued, IsGood, IInv, TypeOK
  <2>3. QED
    BY <2>1, <2>2 DEF Settled
<1>6. TypeOK'
  <2>1. pq' \in [Side -> SUBSET (Vertices \X Nat)]
    BY <1>1 DEF IInv, TypeOK
  <2>2. QED
    BY <2>1 DEF IInv, TypeOK, Known
<1>7. Unstarted' /\ Traced' /\ SearchOver'
  BY <1>2 DEF Unstarted, Traced, SearchOver
<1>8. Rooted' /\ QueueSound'
  BY <1>2, <1>4, <1>5 DEF IInv, Searches, Rooted, QueueSound
<1>9. SettledFirst' /\ MeetingIsBest'
  BY <1>5 DEF IInv, Searches, SettledFirst, MeetingIsBest, Side
<1>10. \A d \in Side : \A x : OutEdges(d, x)' = OutEdges(d, x)
  BY DEF OutEdges
<1>11. SettledRelaxed'
  BY <1>5, <1>10 DEF IInv, Searches, SettledRelaxed, Pending
<1>12. PreviousIsExact'
  BY <1>5, <1>10 DEF IInv, PreviousIsExact
<1>13. QED
  BY <1>6, <1>7, <1>8, <1>9, <1>11, <1>12 DEF IInv, Searches

(* Settling the vertex on top adds it to the settled ones: nothing that    *)
(* waits is nearer, and none of its edges has been relaxed yet.            *)
LEMMA SettleInv ==
    ASSUME IInv, Settle
    PROVE  IInv'
<1> USE DEF Settle, Pop, query, meeting, answer
<1>1. PICK e \in pq[side] : /\ IsTop(side, e) /\ IsGood(side, e)
                            /\ pq' = [pq EXCEPT ![side] = @ \ {e}]
                            /\ u' = e[1]
                            /\ todo' = OutEdges(side, e[1])
  BY Zenon
<1>2. side \in Side /\ from # to
  BY UnderWay DEF IInv, TypeOK
<1>3. e = <<e[1], e[2]>> /\ e[1] \in Known(side) /\ e[1] \in Vertices
  BY <1>2, SideType DEF IInv, Searches, QueueSound
<1>4. e = <<u', dist_to[side][u']>> /\ u' \in Known(side) /\ u' \notin Settled(side)
  BY <1>1, <1>3 DEF IsGood, Settled, Queued
<1>5. \A d \in Side : pq'[d] \subseteq pq[d]
  BY <1>1, <1>2 DEF IInv, TypeOK
<1>6. \A d \in Side : Known(d)' = Known(d) /\ Root(d)' = Root(d)
                      /\ \A x : OutEdges(d, x)' = OutEdges(d, x)
  BY DEF Known, Root, OutEdges
<1>7. \A d \in Side : Settled(d)' = IF d = side THEN Settled(d) \cup {u'} ELSE Settled(d)
  BY <1>1, <1>2, <1>4, <1>6 DEF Settled, Queued, IInv, TypeOK
<1>8. TypeOK'
  <2>1. pq' \in [Side -> SUBSET (Vertices \X Nat)]
    BY <1>1 DEF IInv, TypeOK
  <2>2. todo' \in SUBSET (Vertices \X Nat) /\ u' \in Vertices
    BY <1>1, <1>2, <1>3, OutEdgesType DEF IInv
  <2>3. QED
    BY <2>1, <2>2 DEF IInv, TypeOK, Known
<1>9. Unstarted' /\ Traced' /\ SearchOver'
  BY <1>2 DEF Unstarted, Traced, SearchOver
<1>10. Rooted' /\ QueueSound'
  BY <1>2, <1>5, <1>6 DEF IInv, Searches, Rooted, QueueSound
<1>11. MeetingIsBest'
  BY <1>6 DEF IInv, Searches, MeetingIsBest, Side
<1>12. SettledFirst'
  <2>1. \A y \in Known(side) \ Settled(side) : dist_to[side][u'] <= dist_to[side][y]
    BY <1>1, <1>4 DEF IsTop, Settled, Queued
  <2>2. \A x \in Settled(side) : dist_to[side][x] <= dist_to[side][u']
    BY <1>2, <1>4 DEF IInv, Searches, SettledFirst
  <2>3. dist_to[side][u'] <= dist_to[side][u']
    BY <1>2, <1>4, SideType DEF IInv
  <2>4. \A d \in Side : \A x \in Settled(d)', y \in Known(d) \ Settled(d)' :
            dist_to[d][x] <= dist_to[d][y]
    BY <1>7, <2>1 DEF IInv, Searches, SettledFirst
  <2>5. QED
    BY <1>1, <1>2, <1>6, <1>7, <2>2, <2>3, <2>4 DEF SettledFirst
<1>13. SettledRelaxed'
  <2>1. ASSUME NEW d \in Side, NEW x \in Settled(d)', NEW f \in OutEdges(d, x)
        PROVE  \/ d = side /\ x = u' /\ f \in todo'
               \/ f[1] \in Known(d) /\ dist_to[d][f[1]] <= dist_to[d][x] + f[2]
    <3>1. CASE x \in Settled(d)
      BY <3>1 DEF IInv, Searches, SettledRelaxed, Pending
    <3>2. CASE x \notin Settled(d)
      BY <1>1, <1>7, <3>2
    <3>3. QED
      BY <3>1, <3>2
  <2>2. QED
    BY <1>6, <2>1 DEF SettledRelaxed, Pending
<1>14. PreviousIsExact'
  BY <1>6, <1>7 DEF IInv, PreviousIsExact
<1>15. QED
  BY <1>8, <1>9, <1>10, <1>11, <1>12, <1>13, <1>14 DEF IInv, Searches

-----------------------------------------------------------------------------
(* Writing one key of a map.                                               *)
LEMMA PutType ==
    ASSUME NEW S, NEW T, NEW f \in [S -> T], NEW k, NEW val \in T
    PROVE  Put(f, k, val) \in [S \cup {k} -> T]
BY DEF Put

(* What relaxing an edge to v does: v stays as it was or comes nearer over *)
(* a settled vertex, and v becomes the meeting point if that is cheaper.   *)
Reaches(v) ==
    /\ \A d \in Side :
        /\ Settled(d)' = Settled(d) /\ Known(d)' \subseteq Known(d) \cup {v}
        /\ \A x \in Known(d) : dist_to'[d][x] \in Nat /\ dist_to'[d][x] <= dist_to[d][x]
        /\ \A x \in Known(d) \ {Root(d)} :
            x # v => previous_node'[d][x] = previous_node[d][x]
        /\ v \in Known(d)' \ {Root(d)} =>
            \/ v \in Known(d) /\ previous_node'[d][v] = previous_node[d][v]
            \/ /\ v \notin Settled(d) /\ previous_node'[d][v] \in Settled(d)
               /\ v \in Known(d) => dist_to'[d][v] < dist_to[d][v]
    /\ \/ common_node' = v /\ Cheaper(current_best_dist', current_best_dist)
       \/ common_node' = common_node /\ current_best_dist' = current_best_dist

(* Relaxing an edge: the vertex at its end either stays as it was or gets  *)
(* a shorter distance, and then it was not settled.  The settled sets do   *)
(* not change.                                                             *)
LEMMA RelaxInv ==
    ASSUME IInv, Relax
    PROVE  IInv' /\ SettledKept /\ \E v \in Vertices : Reaches(v)
<1> USE DEF Relax
<1>1. /\ side \in Side /\ from # to /\ pc = "relax" /\ pc' = "relax"
      /\ UNCHANGED <<edges, from, to, side, u, prev, trail, shortest_path, path_cost>>
  BY UnderWay DEF IInv, TypeOK, query, answer
<1> DEFINE o == Other(side)
<1>2. o \in Side /\ o # side /\ \A d \in Side : d = side \/ d = o
  BY <1>1, SideType DEF IInv, Side, Other
<1>3. PICK edge \in todo :
        LET v      == edge[1]
            length == dist_to[side][u] + edge[2]
            dist   == IF Improves(side, v, length) THEN length ELSE dist_to[side][v]
            other  == dist_to[Other(side)]
            better == v \in DOMAIN other /\ Cheaper(dist + other[v], current_best_dist)
        IN  /\ todo' = todo \ {edge}
            /\ IF Improves(side, v, length)
               THEN /\ dist_to' = [dist_to EXCEPT ![side] = Put(@, v, length)]
                    /\ pq' = [pq EXCEPT ![side] = @ \cup {<<v, length>>}]
                    /\ previous_node' = [previous_node EXCEPT ![side] = Put(@, v, u)]
               ELSE UNCHANGED search
            /\ common_node' = IF better THEN v ELSE common_node
            /\ current_best_dist' = IF better THEN dist + other[v] ELSE current_best_dist
  BY Zenon
<1> DEFINE v == edge[1]
           w == edge[2]
           length == dist_to[side][u] + w
           dist == IF Improves(side, v, length) THEN length ELSE dist_to[side][v]
           improves == v \notin Known(side) \/ length < dist_to[side][v]
           better == v \in Known(o) /\ Cheaper(dist + dist_to[o][v], current_best_dist)
<1>4. /\ u \in Settled(side) /\ u \in Known(side) /\ u \in Vertices
      /\ dist_to[side][u] \in Nat
      /\ edge = <<v, w>> /\ edge \in OutEdges(side, u)
      /\ v \in Vertices /\ w \in Nat /\ length \in Nat
      /\ dist_to[side][u] <= length
  <2>1. u \in Settled(side) /\ edge \in OutEdges(side, u)
    BY <1>1 DEF IInv, Searches, SettledFirst
  <2>2. u \in Known(side) /\ u \in Vertices /\ dist_to[side][u] \in Nat
    BY <1>1, <2>1, SideType DEF Settled, IInv
  <2>3. edge = <<v, w>> /\ v \in Vertices /\ w \in Nat
    BY <1>1, <2>1, OutEdgesType DEF IInv
  <2>4. QED
    BY <2>1, <2>2, <2>3
<1>5. /\ dist_to'[o] = dist_to[o] /\ pq'[o] = pq[o] /\ previous_node'[o] = previous_node[o]
      /\ DOMAIN dist_to' = Side /\ DOMAIN previous_node' = Side
      /\ todo' = todo \ {edge}
  BY <1>1, <1>2, <1>3 DEF search, IInv, TypeOK
<1> HIDE DEF v, w, length, better
<1>7. /\ improves =>
            /\ dist_to'[side] = Put(dist_to[side], v, length)
            /\ pq'[side] = pq[side] \cup {<<v, length>>}
            /\ previous_node'[side] = Put(previous_node[side], v, u)
            /\ dist = length
      /\ ~improves =>
            /\ dist_to'[side] = dist_to[side]
            /\ pq'[side] = pq[side]
            /\ previous_node'[side] = previous_node[side]
            /\ v \in Known(side) /\ dist = dist_to[side][v] /\ dist <= length
  <2>1. Improves(side, v, length) <=> improves
    BY DEF Improves, Known
  <2>2. CASE improves
    BY <1>1, <1>3, <2>1, <2>2 DEF IInv, TypeOK, v, w, length
  <2>3. CASE ~improves
    <3>1. v \in Known(side) /\ dist_to[side][v] \in Nat /\ ~(length < dist_to[side][v])
      BY <1>1, <2>3, SideType DEF IInv
    <3>2. dist = dist_to[side][v]
      BY <2>1, <2>3
    <3>3. UNCHANGED search
      BY <1>3, <2>1, <2>3 DEF v, w, length
    <3>4. QED
      BY <1>4, <2>3, <3>1, <3>2, <3>3 DEF search
  <2>4. QED
    BY <2>2, <2>3
<1>8. dist \in Nat /\ dist <= length
  BY <1>1, <1>4, <1>7, SideType DEF IInv
<1>9. /\ Known(side)' = Known(side) \cup {v} /\ Known(o)' = Known(o)
      /\ dist_to'[side][v] = dist
      /\ \A x \in Known(side) \ {v} : dist_to'[side][x] = dist_to[side][x]
  BY <1>1, <1>5, <1>7 DEF Known, Put
<1> HIDE DEF dist
<1>10. improves =>
         /\ v \notin Settled(side)
         /\ v \in Known(side) => dist < dist_to[side][v]
  <2>1. v \in Settled(side) => v \in Known(side) /\ dist_to[side][v] <= dist_to[side][u]
    BY <1>1 DEF IInv, Searches, SettledFirst, Settled
  <2>2. v \in Known(side) => dist_to[side][v] \in Nat
    BY <1>1, SideType DEF IInv
  <2>3. QED
    BY <1>4, <1>7, <2>1, <2>2
<1>11. \A d \in Side : \A x \in Known(d) :
         x \in Known(d)' /\ dist_to'[d][x] \in Nat /\ dist_to'[d][x] <= dist_to[d][x]
  <2>1. \A d \in Side : \A x \in Known(d) : dist_to[d][x] \in Nat
    BY SideType DEF IInv
  <2>2. v \in Known(side) => dist <= dist_to[side][v]
    <3>1. v \in Known(side) => dist_to[side][v] \in Nat
      BY <1>1, <2>1
    <3>2. CASE improves
      BY <1>8, <1>10, <3>1, <3>2
    <3>3. CASE ~improves
      BY <1>7, <1>8, <3>1, <3>3
    <3>4. QED
      BY <3>2, <3>3
  <2>3. QED
    BY <1>1, <1>2, <1>5, <1>8, <1>9, <2>1, <2>2
<1>12. \A d \in Side : /\ Settled(d)' = Settled(d)
                       /\ \A x \in Settled(d) : dist_to'[d][x] = dist_to[d][x]
  <2>1. Settled(o)' = Settled(o) /\ \A x \in Settled(o) : dist_to'[o][x] = dist_to[o][x]
    BY <1>5, <1>9 DEF Settled, Queued
  <2>2. CASE improves
    <3>1. \A x \in Known(side) \ {v} : Queued(side, x)' <=> Queued(side, x)
      BY <1>1, <1>7, <1>9, <2>2 DEF Queued
    <3>2. Queued(side, v)'
      BY <1>1, <1>7, <1>9, <2>2 DEF Queued
    <3>3. Settled(side)' = Settled(side)
      <4>1. \A x \in Known(side)' : x \in Settled(side)' <=> x \in Settled(side)
        BY <1>1, <1>9, <1>10, <2>2, <3>1, <3>2 DEF Settled
      <4>2. Settled(side) \subseteq Known(side)'
        BY <1>1, <1>9 DEF Settled
      <4>3. Settled(side)' \subseteq Known(side)'
        BY DEF Settled
      <4>4. QED
        BY <4>1, <4>2, <4>3
    <3>4. QED
      <4>1. \A x \in Settled(side) : x \in Known(side) \ {v}
        BY <1>10, <2>2 DEF Settled
      <4>2. QED
        BY <1>1, <1>2, <1>9, <2>1, <3>3, <4>1
  <2>3. CASE ~improves
    BY <1>1, <1>2, <1>7, <1>9, <2>1, <2>3 DEF Settled, Queued
  <2>4. QED
    BY <2>2, <2>3
<1>13. \A d \in Side : Root(d)' = Root(d) /\ \A x : OutEdges(d, x)' = OutEdges(d, x)
  BY <1>1 DEF Root, OutEdges
<1>14. /\ better => common_node' = v /\ current_best_dist' = dist + dist_to[o][v]
       /\ ~better => common_node' = common_node /\ current_best_dist' = current_best_dist
  BY <1>3 DEF v, w, length, dist, better, Known
<1>15. TypeOK'
  <2>1. dist_to'[side] \in [Known(side) \cup {v} -> Nat]
    <3>1. dist_to[side] \in [Known(side) -> Nat]
      BY <1>1 DEF IInv, TypeOK
    <3>2. CASE improves
      <4>1. Put(dist_to[side], v, length) \in [Known(side) \cup {v} -> Nat]
        BY <1>4, <3>1, PutType, Zenon
      <4>2. QED
        BY <1>7, <3>2, <4>1
    <3>3. CASE ~improves
      BY <1>7, <3>1, <3>3
    <3>4. QED
      BY <3>2, <3>3
  <2>2. /\ DOMAIN previous_node'[side] \subseteq Known(side) \cup {v}
        /\ previous_node'[side] \in [DOMAIN previous_node'[side] -> Vertices]
    <3>1. /\ DOMAIN previous_node[side] \subseteq Known(side)
          /\ previous_node[side] \in [DOMAIN previous_node[side] -> Vertices]
      BY <1>1 DEF IInv, TypeOK
    <3>2. CASE improves
      <4>1. previous_node'[side] \in [DOMAIN previous_node[side] \cup {v} -> Vertices]
        <5>1. Put(previous_node[side], v, u) \in [DOMAIN previous_node[side] \cup {v} -> Vertices]
          BY <1>4, <3>1, PutType, Zenon
        <5>2. QED
          BY <1>7, <3>2, <5>1
      <4>2. QED
        BY <3>1, <4>1
    <3>3. CASE ~improves
      BY <1>7, <3>1, <3>3
    <3>4. QED
      BY <3>2, <3>3
  <2>3. pq' \in [Side -> SUBSET (Vertices \X Nat)]
    <3>1. <<v, length>> \in Vertices \X Nat
      BY <1>4
    <3>2. pq \in [Side -> SUBSET (Vertices \X Nat)]
      BY DEF IInv, TypeOK
    <3>3. pq' = pq \/ pq' = [pq EXCEPT ![side] = @ \cup {<<v, length>>}]
      BY <1>3 DEF v, w, length, search
    <3>4. QED
      BY <1>1, <3>1, <3>2, <3>3
  <2>4. dist_to[o] \in [Known(o) -> Nat]
    BY <1>2 DEF IInv, TypeOK
  <2>5. common_node' \in Vertices \cup {NoNode} /\ current_best_dist' \in Nat \cup {Infinity}
    BY <1>4, <1>8, <1>14, <2>4 DEF IInv, TypeOK, better
  <2>6. todo' \in SUBSET (Vertices \X Nat)
    BY <1>5 DEF IInv, TypeOK
  <2>7. \A d \in Side :
        /\ Known(d)' \subseteq Vertices
        /\ dist_to'[d] \in [Known(d)' -> Nat]
        /\ DOMAIN previous_node'[d] \subseteq Known(d)'
        /\ previous_node'[d] \in [DOMAIN previous_node'[d] -> Vertices]
    <3>1. /\ Known(side) \cup {v} \subseteq Vertices
          /\ DOMAIN dist_to'[side] = Known(side) \cup {v}
      BY <1>1, <1>4, <2>1, SideType DEF IInv
    <3>2. /\ DOMAIN dist_to'[o] = Known(o) /\ Known(o) \subseteq Vertices
          /\ DOMAIN previous_node[o] \subseteq Known(o)
          /\ previous_node[o] \in [DOMAIN previous_node[o] -> Vertices]
      BY <1>2, <1>5 DEF IInv, TypeOK, Known
    <3>3. QED
      BY <1>2, <1>5, <2>1, <2>2, <2>4, <3>1, <3>2 DEF Known
  <2>8. QED
    BY <1>1, <1>5, <2>3, <2>5, <2>6, <2>7 DEF IInv, TypeOK
<1>16. Unstarted' /\ Traced' /\ SearchOver'
  BY <1>1 DEF Unstarted, Traced, SearchOver
<1>17. Rooted'
  <2>1. \A d \in Side : Root(d) \in Known(d) /\ dist_to[d][Root(d)] = 0
    BY <1>1 DEF IInv, Searches, Rooted
  <2>2. QED
    BY <1>1, <1>11, <1>13, <2>1 DEF Rooted
<1>18. QueueSound'
  <2>1. ASSUME NEW d \in Side, NEW e \in pq'[d]
        PROVE  e[1] \in Known(d)' /\ dist_to'[d][e[1]] <= e[2]
    <3>1. CASE e \in pq[d]
      <4>1. /\ e[1] \in Known(d) /\ dist_to[d][e[1]] <= e[2] /\ e[2] \in Nat
            /\ dist_to[d][e[1]] \in Nat
        BY <3>1, SideType DEF IInv, Searches, QueueSound
      <4>2. QED
        BY <1>11, <4>1
    <3>2. CASE e \notin pq[d]
      <4>1. d = side /\ e = <<v, length>> /\ dist = length
        BY <1>2, <1>5, <1>7, <3>2
      <4>2. QED
        BY <1>1, <1>8, <1>9, <4>1
    <3>3. QED
      BY <3>1, <3>2
  <2>2. QED
    BY <2>1 DEF QueueSound
<1>19. SettledFirst'
  <2>1. ASSUME NEW d \in Side, NEW x \in Settled(d), NEW y \in Known(d)' \ Settled(d)
        PROVE  dist_to'[d][x] <= dist_to'[d][y]
    <3>1. dist_to'[d][x] = dist_to[d][x] /\ x \in Known(d) /\ dist_to[d][x] \in Nat
      BY <1>12, SideType DEF IInv, Settled
    <3>2. CASE d = side /\ y = v /\ improves
      <4>1. dist_to[side][x] <= dist_to[side][u]
        BY <1>1, <3>2 DEF IInv, Searches, SettledFirst
      <4>2. QED
        BY <1>4, <1>7, <1>9, <3>1, <3>2, <4>1
    <3>3. CASE ~(d = side /\ y = v /\ improves)
      <4>1. y \in Known(d) /\ dist_to'[d][y] = dist_to[d][y]
        BY <1>1, <1>2, <1>5, <1>7, <1>9, <3>3
      <4>2. QED
        BY <3>1, <4>1 DEF IInv, Searches, SettledFirst
    <3>4. QED
      BY <3>2, <3>3
  <2>2. u \in Settled(side) /\ todo' \subseteq OutEdges(side, u)
    BY <1>1, <1>4, <1>5 DEF IInv, Searches, SettledFirst
  <2>3. \A x \in Settled(side) : dist_to'[side][x] <= dist_to'[side][u]
    BY <1>1, <1>4, <1>12 DEF IInv, Searches, SettledFirst
  <2>4. QED
    BY <1>1, <1>12, <1>13, <2>1, <2>2, <2>3 DEF SettledFirst
<1>20. SettledRelaxed'
  <2>1. ASSUME NEW d \in Side, NEW x \in Settled(d), NEW e \in OutEdges(d, x)
        PROVE  \/ d = side /\ x = u /\ e \in todo'
               \/ e[1] \in Known(d)' /\ dist_to'[d][e[1]] <= dist_to'[d][x] + e[2]
    <3>1. /\ dist_to'[d][x] = dist_to[d][x] /\ x \in Known(d) /\ dist_to[d][x] \in Nat
          /\ e[2] \in Nat
      BY <1>12, SideType, OutEdgesType DEF IInv, Settled
    <3>2. CASE e[1] \in Known(d) /\ dist_to[d][e[1]] <= dist_to[d][x] + e[2]
      <4>1. dist_to[d][e[1]] \in Nat
        BY <3>2, SideType DEF IInv
      <4>2. QED
        BY <1>11, <3>1, <3>2, <4>1
    <3>3. CASE d = side /\ x = u /\ e \in todo
      <4>1. CASE e = edge
        BY <1>1, <1>4, <1>8, <1>9, <3>1, <3>3, <4>1 DEF length, v, w
      <4>2. CASE e # edge
        BY <1>5, <3>3, <4>2
      <4>3. QED
        BY <4>1, <4>2
    <3>4. QED
      BY <3>2, <3>3 DEF IInv, Searches, SettledRelaxed, Pending
  <2>2. QED
    BY <1>1, <1>12, <1>13, <2>1 DEF SettledRelaxed, Pending
<1>21. MeetingIsBest'
  <2> DEFINE Sum(x) == dist_to[Fwd][x] + dist_to[Bwd][x]
             both == Known(Fwd) \cap Known(Bwd)
  <2>1. /\ \A x \in both : current_best_dist # Infinity /\ current_best_dist <= Sum(x)
        /\ common_node = NoNode <=> current_best_dist = Infinity
        /\ common_node # NoNode => common_node \in both /\ current_best_dist = Sum(common_node)
        /\ current_best_dist \in Nat \cup {Infinity}
    BY DEF IInv, Searches, MeetingIsBest, TypeOK
  <2>2. /\ \A x \in both : Sum(x) \in Nat /\ Sum(x) = dist_to[side][x] + dist_to[o][x]
        /\ both = Known(side) \cap Known(o)
    BY <1>2, <1>1, SideType DEF IInv, Side, Fwd, Bwd
  <2>3. Known(Fwd)' \cap Known(Bwd)' = (Known(side) \cup {v}) \cap Known(o)
    BY <1>1, <1>2, <1>9 DEF Side, Fwd, Bwd
  <2>4. \A x \in (Known(side) \cup {v}) \cap Known(o) :
            dist_to'[Fwd][x] + dist_to'[Bwd][x] = dist_to'[side][x] + dist_to[o][x]
    <3>1. \A x \in Known(side) \cup {v} : dist_to'[side][x] \in Nat
      BY <1>1, <1>8, <1>9, <1>11
    <3>2. \A x \in Known(o) : dist_to[o][x] \in Nat
      BY <1>2, SideType DEF IInv
    <3>3. (side = Fwd /\ o = Bwd) \/ (side = Bwd /\ o = Fwd)
      BY <1>1, <1>2 DEF Side
    <3>4. QED
      BY <1>5, <3>1, <3>2, <3>3
  <2>5. v \in Known(o) => dist + dist_to[o][v] \in Nat
    BY <1>2, <1>8, SideType DEF IInv
  <2>6. /\ current_best_dist' \in Nat \cup {Infinity}
        /\ current_best_dist # Infinity =>
               current_best_dist' # Infinity /\ current_best_dist' <= current_best_dist
        /\ v \in Known(o) =>
               current_best_dist' # Infinity /\ current_best_dist' <= dist + dist_to[o][v]
    <3>1. Infinity \notin Nat
      BY InfinityAssumption
    <3>2. QED
      BY <1>14, <2>1, <2>5, <3>1 DEF better, Cheaper
  <2>7. ASSUME NEW x \in (Known(side) \cup {v}) \cap Known(o)
        PROVE  /\ current_best_dist' # Infinity
               /\ current_best_dist' <= dist_to'[side][x] + dist_to[o][x]
    <3>1. CASE x = v
      BY <1>9, <2>6, <3>1
    <3>2. CASE x # v
      BY <1>9, <2>1, <2>2, <2>6, <3>2
    <3>3. QED
      BY <3>1, <3>2
  <2>8. CASE better
    <3>1. /\ common_node' = v /\ common_node' # NoNode
          /\ v \in (Known(side) \cup {v}) \cap Known(o)
          /\ current_best_dist' = dist_to'[side][v] + dist_to[o][v]
      BY <1>4, <1>9, <1>14, <2>8, NoNodeAssumption DEF better
    <3>2. QED
      BY <2>3, <2>4, <2>7, <3>1 DEF MeetingIsBest
  <2>9. CASE ~better
    <3>1. common_node' = common_node /\ current_best_dist' = current_best_dist
      BY <1>14, <2>9
    <3>2. ASSUME common_node # NoNode
          PROVE  /\ common_node \in (Known(side) \cup {v}) \cap Known(o)
                 /\ current_best_dist = dist_to'[side][common_node] + dist_to[o][common_node]
      <4>1. /\ common_node \in Known(side) /\ common_node \in Known(o)
            /\ current_best_dist = dist_to[side][common_node] + dist_to[o][common_node]
            /\ current_best_dist \in Nat
        BY <2>1, <2>2, <3>2
      <4>2. dist_to'[side][common_node] = dist_to[side][common_node]
        <5>1. /\ dist_to'[side][common_node] \in Nat /\ dist_to[side][common_node] \in Nat
              /\ dist_to[o][common_node] \in Nat
              /\ dist_to'[side][common_node] <= dist_to[side][common_node]
          BY <1>1, <1>2, <1>11, <4>1, SideType DEF IInv
        <5>2. current_best_dist <= dist_to'[side][common_node] + dist_to[o][common_node]
          BY <2>7, <3>1, <4>1
        <5>3. QED
          BY <4>1, <5>1, <5>2
      <4>3. QED
        BY <4>1, <4>2
    <3>3. QED
      BY <2>1, <2>3, <2>4, <2>7, <3>1, <3>2 DEF MeetingIsBest
  <2>10. QED
    BY <2>8, <2>9
<1>22. PreviousIsExact'
  <2>1. ASSUME NEW d \in Side, NEW x \in Known(d)' \ {Root(d)}
        PROVE  /\ x \in DOMAIN previous_node'[d]
               /\ previous_node'[d][x] \in Settled(d)
               /\ <<x, dist_to'[d][x] - dist_to'[d][previous_node'[d][x]]>>
                      \in OutEdges(d, previous_node'[d][x])
    <3>1. CASE d = side /\ x = v /\ improves
      <4>1. x \in DOMAIN previous_node'[d] /\ previous_node'[d][x] = u
        BY <1>7, <3>1 DEF Put
      <4>2. dist_to'[d][x] - dist_to'[d][u] = w
        BY <1>1, <1>4, <1>7, <1>9, <1>12, <3>1 DEF length
      <4>3. QED
        BY <1>4, <3>1, <4>1, <4>2
    <3>2. CASE ~(d = side /\ x = v /\ improves)
      <4>1. x \in Known(d) /\ dist_to'[d][x] = dist_to[d][x]
        BY <1>1, <1>2, <1>5, <1>7, <1>9, <3>2
      <4>2. /\ x \in DOMAIN previous_node[d]
            /\ previous_node[d][x] \in Settled(d)
            /\ <<x, dist_to[d][x] - dist_to[d][previous_node[d][x]]>>
                   \in OutEdges(d, previous_node[d][x])
        BY <4>1 DEF IInv, PreviousIsExact
      <4>3. x \in DOMAIN previous_node'[d] /\ previous_node'[d][x] = previous_node[d][x]
        BY <1>2, <1>5, <1>7, <3>2, <4>2 DEF Put
      <4>4. QED
        BY <1>12, <4>1, <4>2, <4>3
    <3>3. QED
      BY <3>1, <3>2
  <2>2. QED
    <3>1. \A d \in Side : \A x \in Known(d)' \ {Root(d)'} :
            /\ x \in DOMAIN previous_node'[d]
            /\ previous_node'[d][x] \in Settled(d)'
            /\ <<x, dist_to'[d][x] - dist_to'[d][previous_node'[d][x]]>>
                   \in OutEdges(d, previous_node[d][x])'
      BY <1>1, <1>12, <1>13, <2>1 DEF OutEdges
    <3>2. QED
      BY <3>1 DEF PreviousIsExact
<1>23. SettledKept
  <2>1. ASSUME NEW d \in Side, NEW x \in Settled(d), x # Root(d)
        PROVE  previous_node'[d][x] = previous_node[d][x]
    <3>1. x \in DOMAIN previous_node[d]
      BY <2>1 DEF IInv, PreviousIsExact, Settled
    <3>2. CASE d = side /\ improves
      BY <1>7, <1>10, <3>1, <3>2 DEF Put
    <3>3. CASE ~(d = side /\ improves)
      BY <1>2, <1>5, <1>7, <3>3
    <3>4. QED
      BY <3>2, <3>3
  <2>2. QED
    BY <1>12, <2>1 DEF SettledKept
<1>24. Reaches(v)
  <2>1. ASSUME NEW d \in Side, NEW x \in Known(d) \ {Root(d)}, x # v
        PROVE  previous_node'[d][x] = previous_node[d][x]
    <3>1. x \in DOMAIN previous_node[d]
      BY <2>1 DEF IInv, PreviousIsExact
    <3>2. QED
      BY <1>2, <1>5, <1>7, <2>1, <3>1 DEF Put
  <2>2. ASSUME NEW d \in Side, v \in Known(d)' \ {Root(d)}
        PROVE  \/ v \in Known(d) /\ previous_node'[d][v] = previous_node[d][v]
               \/ /\ v \notin Settled(d) /\ previous_node'[d][v] \in Settled(d)
                  /\ v \in Known(d) => dist_to'[d][v] < dist_to[d][v]
    <3>1. CASE d = side /\ improves
      <4>1. previous_node'[d][v] = u
        BY <1>7, <3>1 DEF Put
      <4>2. QED
        BY <1>4, <1>9, <1>10, <3>1, <4>1
    <3>2. CASE ~(d = side /\ improves)
      BY <1>2, <1>5, <1>7, <1>9, <2>2, <3>2
    <3>3. QED
      BY <3>1, <3>2
  <2>3. \/ common_node' = v /\ Cheaper(current_best_dist', current_best_dist)
        \/ common_node' = common_node /\ current_best_dist' = current_best_dist
    BY <1>14 DEF better
  <2>4. \A d \in Side : Known(d)' \subseteq Known(d) \cup {v}
    BY <1>2, <1>9
  <2>5. QED
    BY <1>11, <1>12, <2>1, <2>2, <2>3, <2>4 DEF Reaches
<1>25. QED
  BY <1>4, <1>15, <1>16, <1>17, <1>18, <1>19, <1>20, <1>21, <1>22, <1>23, <1>24
     DEF IInv, Searches

-----------------------------------------------------------------------------
LEMMA NextInv == IInv /\ [Next]_vars => IInv'
<1> SUFFICES ASSUME IInv, [Next]_vars PROVE IInv'
  OBVIOUS
<1>1. CASE SameVertex
  BY <1>1, SameVertexInv
<1>2. CASE Start
  BY <1>2, StartInv
<1>3. CASE EnterLoop \/ LeaveLoop \/ RunDry \/ Relaxed \/ NoRoute
  BY <1>3, PhaseInv
<1>4. CASE PopStale
  BY <1>4, PopStaleInv
<1>5. CASE Settle
  BY <1>5, SettleInv
<1>6. CASE Relax
  BY <1>6, RelaxInv
<1>7. CASE StartTrace \/ Trace \/ StartBackwardTrace \/ Combine
  BY <1>7, TraceInv
<1>8. CASE UNCHANGED vars
  <2> USE <1>8 DEF vars, query, search, meeting, answer
  <2>1. TypeOK'
    BY DEF IInv, TypeOK, Known
  <2>2. \A d \in Side : /\ Known(d)' = Known(d) /\ Settled(d)' = Settled(d)
                        /\ Root(d)' = Root(d) /\ Exhausted(d)' = Exhausted(d)
                        /\ \A x : OutEdges(d, x)' = OutEdges(d, x)
    BY DEF Known, Settled, Queued, Root, Exhausted, OutEdges
  <2>3. Unstarted' /\ Rooted' /\ QueueSound'
    BY <2>2 DEF IInv, Searches, Unstarted, Rooted, QueueSound
  <2>4. SettledFirst' /\ SettledRelaxed'
    BY <2>2 DEF IInv, Searches, TypeOK, SettledFirst, SettledRelaxed, Pending
  <2>5. MeetingIsBest' /\ SearchOver' /\ Traced'
    BY <2>2 DEF IInv, Searches, TypeOK, MeetingIsBest, SearchOver, OutOfReach, Traced, Side
  <2>6. PreviousIsExact'
    BY <2>2 DEF IInv, PreviousIsExact
  <2>7. QED
    BY <2>1, <2>3, <2>4, <2>5, <2>6 DEF IInv, Searches
<1>9. QED
  BY <1>1, <1>2, <1>3, <1>4, <1>5, <1>6, <1>7, <1>8 DEF Next, Step, Returned

(* The inductive invariant holds of every behaviour.                       *)
THEOREM Invariant == Spec => []IInv
BY InitInv, NextInv, PTL DEF Spec

(* The maps, the queues, the cursor, the route and the cost have their     *)
(* types in every graph: the function never follows a previous vertex that *)
(* is not there, and never returns with the cost unset.                    *)
THEOREM TypeCorrect == Spec => []TypeOK
<1>1. IInv => TypeOK
  BY DEF IInv
<1>2. QED
  BY <1>1, Invariant, PTL

(* The facts the two searches keep between them, in every graph.           *)
THEOREM SearchCorrect == Spec => []SearchInv
<1>1. IInv => SearchInv
  BY DEF IInv, Searches, SearchInv
<1>2. QED
  BY <1>1, Invariant, PTL

(* The previous vertices always describe shortest ways to the root.        *)
THEOREM PreviousExact == Spec => []PreviousIsExact
<1>1. IInv => PreviousIsExact
  BY DEF IInv
<1>2. QED
  BY <1>1, Invariant, PTL

-----------------------------------------------------------------------------
(* The priced walks of the query graph's vertices.                         *)
Priced == [at : Seq(Vertices), cost : Seq(Nat)]

(* What is known of a priced walk: every vertex and every cost has its     *)
(* type, and consecutive vertices are joined by an edge.                   *)
LEMMA WalkFacts ==
    ASSUME TypeOK, NEW k \in Priced, IsPricedWalk(edges, k, from, to)
    PROVE  /\ Len(k.at) \in Nat \ {0} /\ Len(k.cost) = Len(k.at)
           /\ k.at[1] = from /\ k.at[Len(k.at)] = to /\ k.cost[1] = 0
           /\ \A i \in 1 .. Len(k.at) : k.at[i] \in Vertices /\ k.cost[i] \in Nat
           /\ \A i \in 1 .. Len(k.at) - 1 :
                /\ k.cost[i] <= k.cost[i + 1]
                /\ <<k.at[i + 1], k.cost[i + 1] - k.cost[i]>> \in OutEdges(Fwd, k.at[i])
                /\ <<k.at[i], k.cost[i + 1] - k.cost[i]>> \in OutEdges(Bwd, k.at[i + 1])
<1>1. k.at \in Seq(Vertices) /\ k.cost \in Seq(Nat)
  BY DEF Priced
<1>2. /\ Len(k.at) > 0 /\ Len(k.cost) = Len(k.at)
      /\ k.at[1] = from /\ k.at[Len(k.at)] = to /\ k.cost[1] = 0
      /\ \A i \in 1 .. Len(k.at) - 1 :
            <<k.at[i], k.at[i + 1], k.cost[i + 1] - k.cost[i]>> \in edges
  BY DEF IsPricedWalk
<1>3. /\ Len(k.at) \in Nat \ {0}
      /\ \A i \in 1 .. Len(k.at) : k.at[i] \in Vertices /\ k.cost[i] \in Nat
  BY <1>1, <1>2
<1>4. edges \in SUBSET (Vertices \X Vertices \X Nat)
  BY GraphsAssumption DEF TypeOK
<1>5. ASSUME NEW i \in 1 .. Len(k.at) - 1
      PROVE  /\ k.cost[i] <= k.cost[i + 1]
             /\ <<k.at[i + 1], k.cost[i + 1] - k.cost[i]>> \in OutEdges(Fwd, k.at[i])
             /\ <<k.at[i], k.cost[i + 1] - k.cost[i]>> \in OutEdges(Bwd, k.at[i + 1])
  <2> DEFINE hop == <<k.at[i], k.at[i + 1], k.cost[i + 1] - k.cost[i]>>
  <2>1. hop \in edges
    BY <1>2
  <2>2. k.cost[i + 1] - k.cost[i] \in Nat
    BY <1>4, <2>1
  <2>3. k.cost[i] \in Nat /\ k.cost[i + 1] \in Nat
    BY <1>3
  <2>4. <<k.at[i + 1], k.cost[i + 1] - k.cost[i]>> \in ForwardEdges(edges, k.at[i])
    BY <2>1 DEF ForwardEdges
  <2>5. <<k.at[i], k.cost[i + 1] - k.cost[i]>> \in BackwardEdges(edges, k.at[i + 1])
    BY <2>1 DEF BackwardEdges
  <2>6. QED
    BY <2>2, <2>3, <2>4, <2>5 DEF OutEdges, Fwd, Bwd
<1>6. QED
  BY <1>2, <1>3, <1>5

-----------------------------------------------------------------------------
(* Once the searches are over, each edge of a settled vertex is relaxed.   *)
LEMMA AllRelaxed ==
    ASSUME IInv, pc = "done"
    PROVE  \A d \in Side : \A x \in Settled(d) : \A y, w :
              <<y, w>> \in OutEdges(d, x) =>
                  y \in Known(d) /\ dist_to[d][y] <= dist_to[d][x] + w
BY DEF IInv, Searches, SettledRelaxed, Pending

(* Forward along a walk: unless the goal itself is settled within the      *)
(* walk's cost, some vertex of the walk waits within its cost.             *)
LEMMA ForwardAlong ==
    ASSUME IInv, pc = "done", from # to,
           NEW k \in Priced, IsPricedWalk(edges, k, from, to),
           \A m \in 1 .. Len(k.at) :
               ~(/\ k.at[m] \in Known(Fwd) \ Settled(Fwd)
                 /\ dist_to[Fwd][k.at[m]] <= k.cost[m])
    PROVE  to \in Known(Fwd) /\ dist_to[Fwd][to] <= k.cost[Len(k.at)]
<1> DEFINE n == Len(k.at)
           Near(i) == k.at[i] \in Settled(Fwd) /\ dist_to[Fwd][k.at[i]] <= k.cost[i]
           T == {i \in 1 .. n : ~Near(i)}
<1>1. /\ n \in Nat \ {0} /\ k.at[1] = from /\ k.at[n] = to /\ k.cost[1] = 0
      /\ \A i \in 1 .. n : k.cost[i] \in Nat
      /\ \A i \in 1 .. n - 1 :
            <<k.at[i + 1], k.cost[i + 1] - k.cost[i]>> \in OutEdges(Fwd, k.at[i])
  BY WalkFacts DEF IInv
<1>2. Fwd \in Side
  BY DEF Side
<1>3. ASSUME NEW i \in 1 .. n, Near(i), i < n
      PROVE  Near(i + 1)
  <2>1. i \in 1 .. n - 1 /\ i + 1 \in 1 .. n
    BY <1>1, <1>3
  <2>2. /\ k.at[i + 1] \in Known(Fwd)
        /\ dist_to[Fwd][k.at[i + 1]]
               <= dist_to[Fwd][k.at[i]] + (k.cost[i + 1] - k.cost[i])
    BY <1>1, <1>2, <1>3, <2>1, AllRelaxed
  <2>3. dist_to[Fwd][k.at[i + 1]] \in Nat /\ dist_to[Fwd][k.at[i]] \in Nat
    BY <1>2, <1>3, <2>2, SideType DEF Settled, IInv
  <2>4. dist_to[Fwd][k.at[i + 1]] <= k.cost[i + 1]
    <3> DEFINE here  == dist_to[Fwd][k.at[i]]
               there == dist_to[Fwd][k.at[i + 1]]
               paid  == k.cost[i]
               pays  == k.cost[i + 1]
    <3>1. paid \in Nat /\ pays \in Nat
      BY <1>1, <2>1
    <3>2. here \in Nat /\ there \in Nat /\ there <= here + (pays - paid) /\ here <= paid
      BY <1>3, <2>2, <2>3
    <3> HIDE DEF here, there, paid, pays
    <3>3. there <= pays
      BY <3>1, <3>2
    <3>4. QED
      BY <3>3 DEF there, pays
  <2>5. QED
    BY <2>1, <2>2, <2>4
<1>4. Near(1)
  <2>1. from = Root(Fwd) /\ from \in Known(Fwd) /\ dist_to[Fwd][from] = 0
    BY <1>2 DEF IInv, Searches, Rooted, Root
  <2>2. QED
    BY <1>1, <2>1
<1>5. ASSUME T # {}
      PROVE  FALSE
  <2>1. PICK m \in T : \A l \in T : m <= l
    BY <1>1, <1>5, LeastNatural, T \subseteq Nat
  <2>2. m # 1
    BY <1>4, <2>1
  <2>3. m - 1 \in 1 .. n /\ m - 1 \notin T /\ m - 1 < n /\ (m - 1) + 1 = m
    BY <1>1, <2>1, <2>2
  <2>4. Near(m - 1)
    BY <2>3
  <2>5. Near((m - 1) + 1)
    BY <1>3, <2>3, <2>4
  <2>6. QED
    BY <2>1, <2>3, <2>5
<1>6. n \in 1 .. n /\ n \notin T
  BY <1>1, <1>5
<1>7. Near(n)
  BY <1>6
<1>8. QED
  BY <1>1, <1>7 DEF Settled

(* Backward along a walk: either the start is known within the walk's      *)
(* cost, or some vertex of the walk waits within what is left of the cost, *)
(* and everything after it is known within what is left.                   *)
LEMMA BackwardAlong ==
    ASSUME IInv, pc = "done", from # to,
           NEW k \in Priced, IsPricedWalk(edges, k, from, to)
    PROVE  LET n == Len(k.at)
               Left(i) == k.cost[n] - k.cost[i]
               Near(i) == k.at[i] \in Known(Bwd) /\ dist_to[Bwd][k.at[i]] <= Left(i)
           IN  \/ Near(1)
               \/ \E m \in 1 .. n : /\ k.at[m] \notin Settled(Bwd)
                                    /\ \A i \in m .. n : Near(i)
<1> DEFINE n == Len(k.at)
           Left(i) == k.cost[n] - k.cost[i]
           Near(i) == k.at[i] \in Known(Bwd) /\ dist_to[Bwd][k.at[i]] <= Left(i)
           Back(j) == n - j
           T == {j \in 0 .. n - 1 : ~(Near(n - j) /\ k.at[n - j] \in Settled(Bwd))}
<1>1. /\ n \in Nat \ {0} /\ k.at[1] = from /\ k.at[n] = to /\ k.cost[1] = 0
      /\ \A i \in 1 .. n : k.cost[i] \in Nat
      /\ \A i \in 1 .. n - 1 :
            <<k.at[i], k.cost[i + 1] - k.cost[i]>> \in OutEdges(Bwd, k.at[i + 1])
  BY WalkFacts DEF IInv
<1>2. Bwd \in Side
  BY DEF Side
<1>3. ASSUME NEW i \in 1 .. n - 1, Near(i + 1), k.at[i + 1] \in Settled(Bwd)
      PROVE  Near(i)
  <2>1. /\ k.at[i] \in Known(Bwd)
        /\ dist_to[Bwd][k.at[i]] <= dist_to[Bwd][k.at[i + 1]] + (k.cost[i + 1] - k.cost[i])
    BY <1>1, <1>2, <1>3, AllRelaxed
  <2>2. dist_to[Bwd][k.at[i]] \in Nat /\ dist_to[Bwd][k.at[i + 1]] \in Nat
    BY <1>2, <1>3, <2>1, SideType DEF IInv
  <2>3. k.cost[i] \in Nat /\ k.cost[i + 1] \in Nat /\ k.cost[n] \in Nat
    BY <1>1
  <2>4. dist_to[Bwd][k.at[i + 1]] <= k.cost[n] - k.cost[i + 1]
    BY <1>3
  <2>5. dist_to[Bwd][k.at[i]] <= k.cost[n] - k.cost[i]
    <3> DEFINE here == dist_to[Bwd][k.at[i]]
               next == dist_to[Bwd][k.at[i + 1]]
               b == k.cost[i]
               c == k.cost[i + 1]
               t == k.cost[n]
    <3>1. here <= next + (c - b) /\ next <= t - c
      BY <2>1, <2>4
    <3>2. here \in Nat /\ next \in Nat /\ b \in Nat /\ c \in Nat /\ t \in Nat
      BY <2>2, <2>3
    <3> HIDE DEF here, next, b, c, t
    <3>3. here <= t - b
      BY <3>1, <3>2
    <3>4. QED
      BY <3>3 DEF here, b, t
  <2>6. QED
    BY <2>1, <2>5
<1>4. Near(n)
  <2>1. to = Root(Bwd) /\ to \in Known(Bwd) /\ dist_to[Bwd][to] = 0
    BY <1>2 DEF IInv, Searches, Rooted, Root, Fwd, Bwd
  <2>2. QED
    BY <1>1, <2>1
<1> HIDE DEF n
<1>5. CASE T = {}
  <2>1. n - 1 \in 0 .. n - 1 /\ n - (n - 1) = 1
    BY <1>1
  <2>2. Near(n - (n - 1))
    BY <1>5, <2>1
  <2>3. QED
    BY <2>1, <2>2 DEF n
<1>6. CASE T # {}
  <2>1. PICK j \in T : \A l \in T : j <= l
    BY <1>1, <1>6, LeastNatural, T \subseteq Nat
  <2> DEFINE m == n - j
  <2>2. m \in 1 .. n /\ j \in 0 .. n - 1
    BY <1>1, <2>1
  <2>3. \A i \in m + 1 .. n : Near(i) /\ k.at[i] \in Settled(Bwd)
    <3>1. ASSUME NEW i \in m + 1 .. n
          PROVE  Near(i) /\ k.at[i] \in Settled(Bwd)
      <4>1. n - i \in 0 .. n - 1 /\ n - (n - i) = i /\ n - i < j
        BY <1>1, <2>2
      <4>2. n - i \notin T
        BY <2>1, <2>2, <4>1
      <4>3. Near(n - (n - i)) /\ k.at[n - (n - i)] \in Settled(Bwd)
        BY <4>1, <4>2
      <4>4. QED
        BY <4>1, <4>3
    <3>2. QED
      BY <3>1
  <2>4. Near(m)
    <3>1. CASE m = n
      BY <1>4, <3>1
    <3>2. CASE m # n
      <4>1. m \in 1 .. n - 1 /\ m + 1 \in m + 1 .. n
        BY <1>1, <2>2, <3>2
      <4>2. QED
        BY <1>3, <2>3, <4>1
    <3>3. QED
      BY <3>1, <3>2
  <2>5. k.at[m] \notin Settled(Bwd)
    BY <2>1, <2>4
  <2>6. \A i \in m .. n : Near(i)
    <3>1. \A i \in m .. n : i = m \/ i \in m + 1 .. n
      BY <1>1, <2>2
    <3>2. QED
      BY <2>3, <2>4, <3>1
  <2>7. QED
    BY <2>2, <2>5, <2>6 DEF n
<1>7. QED
  BY <1>5, <1>6

-----------------------------------------------------------------------------
(* No walk beats current_best_dist once the searches are over: wherever    *)
(* the first waiting vertex forward and the last one backward lie on the   *)
(* walk, either a vertex known to both sides or the rule that stopped the  *)
(* loop bounds the walk's cost from below.                                 *)
LEMMA BestIsLeast ==
    ASSUME IInv, pc = "done", from # to,
           NEW k \in Priced, IsPricedWalk(edges, k, from, to)
    PROVE  current_best_dist # Infinity /\ current_best_dist <= k.cost[Len(k.cost)]
<1> DEFINE n == Len(k.at)
           total == k.cost[n]
<1>1. /\ n \in Nat \ {0} /\ Len(k.cost) = n
      /\ k.at[1] = from /\ k.at[n] = to /\ k.cost[1] = 0
      /\ \A i \in 1 .. n : k.cost[i] \in Nat
  BY WalkFacts DEF IInv
<1>2. Fwd \in Side /\ Bwd \in Side
  BY DEF Side
<1>3. total \in Nat
  BY <1>1
<1>4. ASSUME NEW y \in Known(Fwd) \cap Known(Bwd),
             dist_to[Fwd][y] + dist_to[Bwd][y] <= total
      PROVE  current_best_dist # Infinity /\ current_best_dist <= total
  <2>1. dist_to[Fwd][y] \in Nat /\ dist_to[Bwd][y] \in Nat
    BY <1>2, SideType DEF IInv
  <2>2. /\ current_best_dist # Infinity
        /\ current_best_dist <= dist_to[Fwd][y] + dist_to[Bwd][y]
    BY DEF IInv, Searches, MeetingIsBest
  <2>3. current_best_dist \in Nat
    BY <2>2 DEF IInv, TypeOK
  <2>4. QED
    BY <1>3, <1>4, <2>1, <2>2, <2>3
<1>5. /\ from \in Known(Fwd) /\ dist_to[Fwd][from] = 0
      /\ to \in Known(Bwd) /\ dist_to[Bwd][to] = 0
  BY <1>2 DEF IInv, Searches, Rooted, Root, Fwd, Bwd
<1>6. CASE \A m \in 1 .. n : ~(/\ k.at[m] \in Known(Fwd) \ Settled(Fwd)
                                /\ dist_to[Fwd][k.at[m]] <= k.cost[m])
  <2>1. to \in Known(Fwd) /\ dist_to[Fwd][to] <= total
    BY <1>6, ForwardAlong
  <2>2. dist_to[Fwd][to] \in Nat
    BY <1>2, <2>1, SideType DEF IInv
  <2>3. dist_to[Fwd][to] + dist_to[Bwd][to] <= total
    BY <1>3, <1>5, <2>1, <2>2
  <2>4. QED
    BY <1>1, <1>4, <1>5, <2>1, <2>3
<1>7. CASE k.at[1] \in Known(Bwd) /\ dist_to[Bwd][k.at[1]] <= total - k.cost[1]
  <2>1. dist_to[Bwd][from] \in Nat
    BY <1>1, <1>2, <1>7, SideType DEF IInv
  <2>2. dist_to[Fwd][from] + dist_to[Bwd][from] <= total
    BY <1>1, <1>3, <1>5, <1>7, <2>1
  <2>3. QED
    BY <1>1, <1>4, <1>5, <1>7, <2>2
<1>8. ASSUME NEW f \in 1 .. n,
             k.at[f] \in Known(Fwd) \ Settled(Fwd),
             dist_to[Fwd][k.at[f]] <= k.cost[f],
             NEW m \in 1 .. n,
             k.at[m] \notin Settled(Bwd),
             \A i \in m .. n : /\ k.at[i] \in Known(Bwd)
                              /\ dist_to[Bwd][k.at[i]] <= total - k.cost[i]
      PROVE  current_best_dist # Infinity /\ current_best_dist <= total
  <2>1. k.cost[f] \in Nat /\ k.cost[m] \in Nat /\ dist_to[Fwd][k.at[f]] \in Nat
    BY <1>1, <1>2, <1>8, SideType DEF IInv
  <2>2. CASE m <= f
    <3>1. f \in m .. n
      BY <1>1, <2>2
    <3>2. /\ k.at[f] \in Known(Bwd) /\ dist_to[Bwd][k.at[f]] <= total - k.cost[f]
      BY <1>8, <3>1
    <3>3. dist_to[Bwd][k.at[f]] \in Nat
      BY <1>2, <3>2, SideType DEF IInv
    <3>4. dist_to[Fwd][k.at[f]] + dist_to[Bwd][k.at[f]] <= total
      <4> HIDE DEF total
      <4> DEFINE there == dist_to[Fwd][k.at[f]]
                 back  == dist_to[Bwd][k.at[f]]
                 paid  == k.cost[f]
      <4>1. /\ there \in Nat /\ back \in Nat /\ paid \in Nat /\ total \in Nat
            /\ there <= paid /\ back <= total - paid
        BY <1>3, <1>8, <2>1, <3>2, <3>3
      <4> HIDE DEF there, back, paid
      <4>2. there + back <= total
        BY <4>1
      <4>3. QED
        BY <4>2 DEF there, back
    <3>5. QED
      BY <1>4, <1>8, <3>2, <3>4
  <2>3. CASE f <= m
    <3>1. k.cost[f] <= k.cost[m]
      <4>1. edges \subseteq Vertices \X Vertices \X Nat
        BY GraphsAssumption DEF IInv, TypeOK
      <4>2. QED
        BY <2>3, <4>1, PricesGrow DEF Priced
    <3>2. m \in m .. n
      BY <1>1
    <3>3. /\ k.at[m] \in Known(Bwd) \ Settled(Bwd)
          /\ dist_to[Bwd][k.at[m]] <= total - k.cost[m]
      BY <1>8, <3>2
    <3>4. dist_to[Bwd][k.at[m]] \in Nat
      BY <1>2, <3>3, SideType DEF IInv
    <3>5. ~Exhausted(Fwd) /\ ~Exhausted(Bwd)
      BY <1>8, <3>3 DEF Exhausted
    <3>6. OutOfReach
      BY <3>5 DEF IInv, Searches, SearchOver
    <3>7. /\ current_best_dist # Infinity
          /\ current_best_dist <= dist_to[Fwd][k.at[f]] + dist_to[Bwd][k.at[m]]
      BY <1>8, <3>3, <3>6 DEF OutOfReach
    <3>8. current_best_dist \in Nat
      BY <3>7 DEF IInv, TypeOK
    <3>9. current_best_dist <= total
      <4> DEFINE p == dist_to[Fwd][k.at[f]]
                 q == dist_to[Bwd][k.at[m]]
                 b == k.cost[f]
                 c == k.cost[m]
      <4>1. current_best_dist <= p + q /\ p <= b /\ b <= c /\ q <= total - c
        BY <1>8, <3>1, <3>3, <3>7
      <4>2. p \in Nat /\ q \in Nat /\ b \in Nat /\ c \in Nat
        BY <2>1, <3>4
      <4> HIDE DEF p, q, b, c, total
      <4>3. QED
        BY <1>3, <3>8, <4>1, <4>2
    <3>10. QED
      BY <3>7, <3>9
  <2>4. m <= f \/ f <= m
    BY <1>1
  <2>5. QED
    BY <2>2, <2>3, <2>4
<1>9. CASE ~(\A m \in 1 .. n : ~(/\ k.at[m] \in Known(Fwd) \ Settled(Fwd)
                                 /\ dist_to[Fwd][k.at[m]] <= k.cost[m]))
  <2>1. PICK f \in 1 .. n : /\ k.at[f] \in Known(Fwd) \ Settled(Fwd)
                            /\ dist_to[Fwd][k.at[f]] <= k.cost[f]
    BY <1>9, Zenon
  <2>2. CASE \E m \in 1 .. n :
               /\ k.at[m] \notin Settled(Bwd)
               /\ \A i \in m .. n : /\ k.at[i] \in Known(Bwd)
                                    /\ dist_to[Bwd][k.at[i]] <= total - k.cost[i]
    <3>1. current_best_dist # Infinity /\ current_best_dist <= total
      BY <1>8, <2>1, <2>2, Zenon
    <3>2. QED
      BY <1>1, <3>1
  <2>3. \/ k.at[1] \in Known(Bwd) /\ dist_to[Bwd][k.at[1]] <= total - k.cost[1]
        \/ \E m \in 1 .. n :
               /\ k.at[m] \notin Settled(Bwd)
               /\ \A i \in m .. n : /\ k.at[i] \in Known(Bwd)
                                    /\ dist_to[Bwd][k.at[i]] <= total - k.cost[i]
    BY BackwardAlong
  <2>4. QED
    BY <1>7, <2>2, <2>3
<1>10. QED
  BY <1>1, <1>6, <1>9

(* path_cost is no more than the cost of any walk between the two vertices *)
(* and is the float maximum only when there is none, in every graph with   *)
(* costs that are not negative: the early stop of the two searches, the    *)
(* loop test through stale entries and ties never lose the best route.     *)
THEOREM Optimal == Spec => []NoCheaperWalk
<1>1. IInv => NoCheaperWalk
  <2> SUFFICES ASSUME IInv, pc = "done", NEW k \in Walks, IsPricedWalk(edges, k, from, to)
               PROVE  path_cost # Infinity /\ path_cost <= k.cost[Len(k.cost)]
    BY DEF NoCheaperWalk
  <2> k \in Priced
    BY WalksAssumption DEF Priced
  <2>1. CASE from = to
    <3>1. path_cost = 0
      BY <2>1 DEF IInv, Searches, Traced
    <3>2. k.cost[Len(k.cost)] \in Nat
      BY WalkFacts DEF IInv
    <3>3. QED
      BY <3>1, <3>2, InfinityAssumption
  <2>2. CASE from # to
    <3>1. path_cost = current_best_dist
      BY <2>2 DEF IInv, Searches, Traced
    <3>2. QED
      BY <2>2, <3>1, BestIsLeast
  <2>3. QED
    BY <2>1, <2>2
<1>2. QED
  BY <1>1, Invariant, PTL

-----------------------------------------------------------------------------
(* A settled vertex keeps its distance and its previous vertex: nothing    *)
(* relaxed later, on either side, reaches it at a lower cost.              *)
LEMMA SettledStep ==
    ASSUME IInv, [Next]_vars
    PROVE  SettledKept
<1>1. CASE Relax
  BY <1>1, RelaxInv
<1>2. CASE SameVertex \/ Start
  <2>1. \A d \in Side : Settled(d) = {}
    BY <1>2 DEF SameVertex, Start, IInv, Searches, Unstarted, Settled
  <2>2. QED
    BY <2>1 DEF SettledKept
<1>3. CASE PopStale \/ Settle
  <2>1. UNCHANGED <<dist_to, previous_node>>
    BY <1>3 DEF PopStale, Settle
  <2>2. \A d \in Side : pq'[d] \subseteq pq[d]
    BY <1>3 DEF PopStale, Settle, Pop, IInv, TypeOK
  <2>3. QED
    BY <2>1, <2>2 DEF SettledKept, Settled, Known, Queued
<1>4. CASE ~(Relax \/ SameVertex \/ Start \/ PopStale \/ Settle)
  <2>1. UNCHANGED search
    BY <1>4 DEF Next, Step, Returned, EnterLoop, LeaveLoop, RunDry, Relaxed, NoRoute,
       StartTrace, Trace, StartBackwardTrace, Combine, vars
  <2>2. QED
    BY <2>1 DEF SettledKept, Settled, Known, Queued, search
<1>5. QED
  BY <1>1, <1>2, <1>3, <1>4

THEOREM SettledFinal == Spec => SettledIsFinal
<1>1. IInv /\ [Next]_vars => [SettledKept]_vars
  BY SettledStep
<1>2. QED
  BY <1>1, Invariant, PTL DEF Spec, SettledIsFinal

-----------------------------------------------------------------------------
(***************************************************************************)
(* The walk back over the two maps: RouteInv, which is inductive given the *)
(* invariant above.                                                        *)
(***************************************************************************)
LEMMA RouteInit == Init => RouteInv
<1> SUFFICES ASSUME Init PROVE RouteInv
  OBVIOUS
<1>1. \A d \in Side : Known(d) = {}
  BY DEF Init, Known
<1>2. QED
  BY <1>1 DEF Init, RouteInv, Acyclic, Apart, Walked, Untraced

(* No circle appears where no previous vertex is written.                  *)
LEMMA AcyclicKept ==
    ASSUME Acyclic, UNCHANGED <<from, to, dist_to, previous_node>>
    PROVE  Acyclic'
<1>1. \A d \in Side : Known(d)' = Known(d) /\ Root(d)' = Root(d)
  BY DEF Known, Root
<1>2. QED
  BY <1>1 DEF Acyclic

(* The two ways stay apart while the meeting point and the vertices before *)
(* it stay, and nothing new is met.                                        *)
LEMMA ApartKept ==
    ASSUME Apart, SettledKept,
           UNCHANGED <<from, to, common_node, trail>>,
           \A d \in Side : common_node \notin {NoNode, Root(d)} =>
                previous_node'[d][common_node] = previous_node[d][common_node]
    PROVE  Apart'
<1> SUFFICES ASSUME common_node # NoNode
             PROVE  \E S \in SUBSET (Settled(Fwd)'), T \in SUBSET (Settled(Bwd)') :
                        Half(Fwd, S)' /\ Half(Bwd, T)' /\ S \cap T = {}
  BY DEF Apart
<1>1. PICK S \in SUBSET Settled(Fwd), T \in SUBSET Settled(Bwd) :
            Half(Fwd, S) /\ Half(Bwd, T) /\ S \cap T = {}
  BY DEF Apart
<1>2. ASSUME NEW d \in Side, NEW R \in SUBSET Settled(d), Half(d, R)
      PROVE  R \in SUBSET (Settled(d)') /\ Half(d, R)'
  <2>1. \A x \in R : x \in Settled(d)' /\ (x # Root(d) => previous_node'[d][x] = previous_node[d][x])
    BY DEF SettledKept
  <2>2. Root(d)' = Root(d)
    BY DEF Root
  <2>3. QED
    BY <1>2, <2>1, <2>2 DEF Half
<1>3. QED
  BY <1>1, <1>2 DEF Side

(* Before the walk back starts, the way is the meeting point alone.        *)
LEMMA WalkedFresh ==
    ASSUME IInv', trail' = [d \in Side |-> <<>>]
    PROVE  Walked'
<1> SUFFICES ASSUME common_node' # NoNode, NEW d \in Side
             PROVE  /\ IsInjective(Way(d)')
                    /\ \A i \in 1 .. Len(trail'[d]) :
                        /\ Way(d)'[i] # Root(d)'
                        /\ Way(d)'[i + 1] = previous_node'[d][Way(d)'[i]]
                    /\ \A i \in 1 .. Len(Way(d)') :
                        /\ Way(d)'[i] \in Known(d)'
                        /\ dist_to'[d][Way(d)'[i]] <= dist_to'[d][common_node']
  BY DEF Walked
<1>1. trail'[d] = <<>> /\ Way(d)' = <<common_node'>>
  BY DEF Way
<1>2. common_node' \in Known(d)' /\ dist_to'[d][common_node'] \in Nat
  BY DEF IInv, Searches, MeetingIsBest, Side, TypeOK
<1>3. IsInjective(Way(d)')
  BY <1>1 DEF IsInjective
<1>4. QED
  BY <1>1, <1>2, <1>3

(* The steps of the search that do not relax an edge.                      *)
LEMMA RouteSearch ==
    ASSUME IInv, IInv', RouteInv, SettledKept,
           SameVertex \/ Start \/ EnterLoop \/ LeaveLoop \/ PopStale \/ Settle \/ RunDry
               \/ Relaxed \/ NoRoute
    PROVE  RouteInv'
<1> USE DEF query, search, meeting, answer
<1>1. UNCHANGED <<from, to, previous_node, meeting, trail>>
  <2>1. CASE SameVertex \/ Start \/ EnterLoop \/ LeaveLoop
    BY <2>1 DEF SameVertex, Start, EnterLoop, LeaveLoop
  <2>2. CASE PopStale \/ Settle
    BY <2>2 DEF PopStale, Settle
  <2>3. CASE RunDry \/ Relaxed \/ NoRoute
    <3>1. CASE RunDry
      BY <3>1 DEF RunDry
    <3>2. CASE Relaxed \/ NoRoute
      BY <3>2 DEF Relaxed, NoRoute
    <3>3. QED
      BY <2>3, <3>1, <3>2
  <2>4. QED
    BY <2>1, <2>2, <2>3
<1>2. pc \notin {"trace", "done"} /\ pc' # "trace" /\ trail = [d \in Side |-> <<>>]
  BY DEF SameVertex, Start, EnterLoop, LeaveLoop, PopStale, Settle, RunDry, Relaxed, NoRoute,
     RouteInv, Untraced
<1>3. Acyclic'
  <2>1. CASE Start
    <3>1. \A d \in Side : Known(d)' = {Root(d)'}
      BY <1>1, <2>1 DEF Start, Known, Root
    <3>2. QED
      BY <3>1 DEF Acyclic
  <2>2. CASE ~Start
    <3>1. UNCHANGED dist_to
      BY <2>2 DEF SameVertex, EnterLoop, LeaveLoop, PopStale, Settle, RunDry, Relaxed, NoRoute
    <3>2. QED
      BY <1>1, <3>1, AcyclicKept DEF RouteInv
  <2>3. QED
    BY <2>1, <2>2
<1>4. Apart'
  BY <1>1, ApartKept DEF RouteInv
<1>5. Walked'
  BY <1>1, <1>2, WalkedFresh
<1>6. Untraced'
  <2>1. CASE pc' # "done"
    <3>1. shortest_path' = shortest_path
      BY <2>1 DEF SameVertex, Start, EnterLoop, LeaveLoop, PopStale, Settle, RunDry, Relaxed,
         NoRoute
    <3>2. QED
      BY <1>1, <1>2, <2>1, <3>1 DEF RouteInv, Untraced
  <2>2. CASE pc' = "done"
    <3>1. common_node' = NoNode /\ trail' = [d \in Side |-> <<>>]
      BY <1>1, <1>2, <2>2 DEF SameVertex, Start, EnterLoop, LeaveLoop, PopStale, Settle, RunDry,
         Relaxed, NoRoute, IInv, Searches, Unstarted
    <3>2. shortest_path' = IF from = to THEN <<from>> ELSE <<>>
      BY <1>2, <2>2, UnderWay DEF SameVertex, Start, EnterLoop, LeaveLoop, PopStale, Settle,
         RunDry, Relaxed, NoRoute, RouteInv, Untraced
    <3>3. QED
      BY <1>1, <2>2, <3>1, <3>2 DEF Untraced
  <2>3. QED
    BY <2>1, <2>2
<1>7. QED
  BY <1>3, <1>4, <1>5, <1>6 DEF RouteInv

(* A vertex that comes nearer is no vertex's previous one, so writing its  *)
(* own closes no circle.                                                   *)
LEMMA RelaxAcyclic ==
    ASSUME IInv, Acyclic, UNCHANGED <<from, to>>, NEW v, Reaches(v)
    PROVE  Acyclic'
<1> SUFFICES ASSUME NEW d \in Side, NEW S \in SUBSET (Known(d)' \ {Root(d)}), S # {}
             PROVE  \E x \in S : previous_node'[d][x] \notin S
  BY DEF Acyclic, Root
<1>1. /\ Settled(d)' = Settled(d) /\ Known(d)' \subseteq Known(d) \cup {v}
      /\ \A x \in Known(d) \ {Root(d)} : x # v => previous_node'[d][x] = previous_node[d][x]
  BY DEF Reaches
<1>2. \A x \in Known(d) \ {Root(d)} : previous_node[d][x] \in Settled(d)
  BY DEF IInv, PreviousIsExact
<1>3. CASE S \subseteq Known(d) /\ (v \in S => previous_node'[d][v] = previous_node[d][v])
  <2>1. PICK x \in S : previous_node[d][x] \notin S
    BY <1>3 DEF Acyclic
  <2>2. QED
    BY <1>1, <1>3, <2>1
<1>4. CASE v \in S /\ v \notin Settled(d) /\ previous_node'[d][v] \in Settled(d)
  <2>1. CASE S = {v}
    BY <1>4, <2>1
  <2>2. CASE S # {v}
    <3>1. S \ {v} # {} /\ S \ {v} \subseteq Known(d) \ {Root(d)}
      BY <1>1, <1>4, <2>2
    <3>2. PICK x \in S \ {v} : previous_node[d][x] \notin S \ {v}
      BY <3>1 DEF Acyclic
    <3>3. previous_node[d][x] # v
      BY <1>2, <1>4, <3>1
    <3>4. QED
      BY <1>1, <3>1, <3>2, <3>3
  <2>3. QED
    BY <2>1, <2>2
<1>5. v \in S => \/ v \in Known(d) /\ previous_node'[d][v] = previous_node[d][v]
                 \/ v \notin Settled(d) /\ previous_node'[d][v] \in Settled(d)
  BY DEF Reaches
<1>6. v \notin S => S \subseteq Known(d)
  BY <1>1
<1>7. v \in S /\ v \in Known(d) => S \subseteq Known(d)
  BY <1>1
<1>8. QED
  BY <1>3, <1>4, <1>5, <1>6, <1>7

(* The previous vertex is settled, and no farther from the root.           *)
Nearer ==
    \A d \in Side : \A x \in Known(d) \ {Root(d)} :
        /\ previous_node[d][x] \in Settled(d)
        /\ previous_node[d][x] \in Known(d)
        /\ dist_to[d][previous_node[d][x]] <= dist_to[d][x]

LEMMA NearerHolds == IInv => Nearer
<1> SUFFICES ASSUME IInv, NEW d \in Side, NEW x \in Known(d) \ {Root(d)}
             PROVE  /\ previous_node[d][x] \in Settled(d)
                    /\ previous_node[d][x] \in Known(d)
                    /\ dist_to[d][previous_node[d][x]] <= dist_to[d][x]
  BY DEF Nearer
<1> DEFINE p == previous_node[d][x]
<1>1. p \in Settled(d) /\ <<x, dist_to[d][x] - dist_to[d][p]>> \in OutEdges(d, p)
  BY DEF IInv, PreviousIsExact
<1>2. p \in Known(d)
  BY <1>1 DEF Settled
<1>3. dist_to[d][x] - dist_to[d][p] \in Nat
  BY <1>1, OutEdgesType DEF IInv
<1>4. dist_to[d][x] \in Nat /\ dist_to[d][p] \in Nat
  BY <1>2, SideType DEF IInv
<1> HIDE DEF p
<1>5. dist_to[d][p] <= dist_to[d][x]
  BY <1>3, <1>4
<1>6. QED
  BY <1>1, <1>2, <1>5 DEF p

LEMMA NearerNext == IInv' => Nearer'
BY NearerHolds, PTL

(* A new meeting point is cheaper than every vertex that both searches     *)
(* have settled, so no vertex is settled and nearer than it on both sides. *)
LEMMA RelaxApart ==
    ASSUME IInv, IInv', Apart, SettledKept, UNCHANGED <<from, to, trail>>,
           trail = [d \in Side |-> <<>>], NEW v, Reaches(v)
    PROVE  Apart'
<1>1. /\ \A d \in Side : Settled(d)' = Settled(d)
      /\ \A d \in Side : \A x \in Settled(d) : dist_to'[d][x] = dist_to[d][x]
      /\ \A d \in Side : Root(d)' = Root(d)
  BY DEF Reaches, SettledKept, Root
<1>2. \A d \in Side : \A x \in Known(d)' : dist_to'[d][x] \in Nat
  BY DEF IInv, TypeOK
<1>3. Fwd \in Side /\ Bwd \in Side /\ \A d \in Side : d = Fwd \/ d = Bwd
  BY DEF Side
<1>4. CASE common_node' = v /\ Cheaper(current_best_dist', current_best_dist)
  <2> SUFFICES ASSUME common_node' # NoNode
               PROVE  \E S \in SUBSET (Settled(Fwd)'), T \in SUBSET (Settled(Bwd)') :
                          Half(Fwd, S)' /\ Half(Bwd, T)' /\ S \cap T = {}
    BY DEF Apart
  <2> DEFINE H(d) == {x \in Settled(d) : dist_to'[d][x] <= dist_to'[d][v]}
  <2>1. \A d \in Side : v \in Known(d)'
    BY <1>3, <1>4 DEF IInv, Searches, MeetingIsBest
  <2>2. ASSUME NEW d \in Side, NEW x \in Known(d)' \ {Root(d)}, dist_to'[d][x] <= dist_to'[d][v]
        PROVE  previous_node'[d][x] \in H(d)
    <3> DEFINE p == previous_node'[d][x]
    <3>1. p \in Settled(d) /\ p \in Known(d)' /\ dist_to'[d][p] <= dist_to'[d][x]
      BY <1>1, NearerNext DEF Nearer
    <3>2. dist_to'[d][p] \in Nat /\ dist_to'[d][x] \in Nat /\ dist_to'[d][v] \in Nat
      BY <1>2, <2>1, <3>1
    <3>3. dist_to'[d][p] <= dist_to'[d][v]
      <4> HIDE DEF p
      <4>1. QED
        BY <2>2, <3>1, <3>2
    <3>4. QED
      BY <3>1, <3>3
  <2>3. ASSUME NEW d \in Side, NEW S, S = H(d)
        PROVE  S \in SUBSET (Settled(d)') /\ Half(d, S)'
    <3>1. S \subseteq Settled(d)'
      BY <1>1, <2>3
    <3>2. common_node' # Root(d)' => previous_node'[d][common_node'] \in S
      BY <1>1, <1>2, <1>4, <2>1, <2>2, <2>3
    <3>3. \A x \in S \ {Root(d)'} : previous_node'[d][x] \in S
      <4>1. \A x \in S : x \in Known(d)' /\ dist_to'[d][x] <= dist_to'[d][v]
        BY <2>3, <3>1 DEF Settled
      <4>2. \A x \in Known(d)' \ {Root(d)} :
                dist_to'[d][x] <= dist_to'[d][v] => previous_node'[d][x] \in S
        BY <2>2, <2>3
      <4>3. QED
        BY <1>1, <4>1, <4>2
    <3>4. Range(trail'[d]) \subseteq S
      BY DEF Range
    <3>5. QED
      BY <3>1, <3>2, <3>3, <3>4 DEF Half
  <2>4. ASSUME NEW x \in H(Fwd) \cap H(Bwd)
        PROVE  FALSE
    <3>1. x \in Settled(Fwd) /\ x \in Settled(Bwd) /\ x \in Known(Fwd) \cap Known(Bwd)
      BY DEF Settled
    <3>2. /\ current_best_dist # Infinity
          /\ current_best_dist <= dist_to[Fwd][x] + dist_to[Bwd][x]
      BY <3>1 DEF IInv, Searches, MeetingIsBest
    <3>3. current_best_dist' < current_best_dist
      BY <1>4, <3>2 DEF Cheaper
    <3>4. current_best_dist' = dist_to'[Fwd][v] + dist_to'[Bwd][v]
      BY <1>4 DEF IInv, Searches, MeetingIsBest
    <3>5. /\ dist_to[Fwd][x] <= dist_to'[Fwd][v] /\ dist_to[Bwd][x] <= dist_to'[Bwd][v]
          /\ dist_to[Fwd][x] \in Nat /\ dist_to[Bwd][x] \in Nat
      BY <1>1, <1>3, <3>1, SideType DEF IInv
    <3>6. dist_to'[Fwd][v] \in Nat /\ dist_to'[Bwd][v] \in Nat /\ current_best_dist \in Nat
      BY <1>2, <1>3, <2>1, <3>2 DEF IInv, TypeOK
    <3> DEFINE a == dist_to'[Fwd][v]
               b == dist_to'[Bwd][v]
               p == dist_to[Fwd][x]
               q == dist_to[Bwd][x]
    <3> HIDE DEF a, b, p, q
    <3>7. a \in Nat /\ b \in Nat /\ p \in Nat /\ q \in Nat /\ p <= a /\ q <= b
      BY <3>5, <3>6 DEF a, b, p, q
    <3>8. a + b < current_best_dist /\ current_best_dist <= p + q /\ current_best_dist \in Nat
      BY <3>2, <3>3, <3>4, <3>6 DEF a, b, p, q
    <3>9. QED
      BY <3>7, <3>8
  <2>5. H(Fwd) \cap H(Bwd) = {}
    <3> HIDE DEF H
    <3>1. QED
      BY <2>4
  <2> HIDE DEF H
  <2>6. PICK S, T : S = H(Fwd) /\ T = H(Bwd)
    OBVIOUS
  <2>7. S \in SUBSET (Settled(Fwd)') /\ Half(Fwd, S)'
    BY <1>3, <2>3, <2>6
  <2>8. T \in SUBSET (Settled(Bwd)') /\ Half(Bwd, T)'
    BY <1>3, <2>3, <2>6
  <2>9. QED
    BY <2>5, <2>6, <2>7, <2>8
<1>5. CASE common_node' = common_node /\ current_best_dist' = current_best_dist
  <2>1. ASSUME NEW d \in Side, common_node \notin {NoNode, Root(d)}
        PROVE  previous_node'[d][common_node] = previous_node[d][common_node]
    <3>1. /\ common_node \in Known(d) /\ common_node \in Known(d)'
          /\ \A e \in Side : common_node \in Known(e) /\ common_node \in Known(e)'
      BY <1>3, <1>5, <2>1 DEF IInv, Searches, MeetingIsBest
    <3>2. CASE common_node # v
      BY <2>1, <3>1, <3>2 DEF Reaches
    <3>3. CASE common_node = v /\ previous_node'[d][v] # previous_node[d][v]
      <4>1. dist_to'[d][v] < dist_to[d][v]
        BY <1>1, <2>1, <3>1, <3>3 DEF Reaches
      <4>2. \A e \in Side : /\ dist_to'[e][v] <= dist_to[e][v]
                            /\ dist_to'[e][v] \in Nat /\ dist_to[e][v] \in Nat
        BY <3>1, <3>3, SideType DEF Reaches, IInv
      <4>3. /\ dist_to'[Fwd][v] \in Nat /\ dist_to[Fwd][v] \in Nat
            /\ dist_to'[Bwd][v] \in Nat /\ dist_to[Bwd][v] \in Nat
            /\ dist_to'[Fwd][v] <= dist_to[Fwd][v] /\ dist_to'[Bwd][v] <= dist_to[Bwd][v]
            /\ \/ dist_to'[Fwd][v] < dist_to[Fwd][v]
               \/ dist_to'[Bwd][v] < dist_to[Bwd][v]
        BY <1>3, <4>1, <4>2
      <4>4. /\ current_best_dist' = dist_to'[Fwd][v] + dist_to'[Bwd][v]
            /\ current_best_dist = dist_to[Fwd][v] + dist_to[Bwd][v]
        BY <1>5, <2>1, <3>3 DEF IInv, Searches, MeetingIsBest
      <4> DEFINE a == dist_to'[Fwd][v]
                 b == dist_to'[Bwd][v]
                 p == dist_to[Fwd][v]
                 q == dist_to[Bwd][v]
      <4> HIDE DEF a, b, p, q
      <4>5. /\ a \in Nat /\ b \in Nat /\ p \in Nat /\ q \in Nat
            /\ a <= p /\ b <= q /\ (a < p \/ b < q)
        BY <4>3 DEF a, b, p, q
      <4>6. a + b = p + q
        BY <1>5, <4>4 DEF a, b, p, q
      <4>7. FALSE
        BY <4>5, <4>6
      <4>8. QED
        BY <4>7
    <3>4. QED
      BY <3>2, <3>3
  <2>2. QED
    BY <1>5, <2>1, ApartKept
<1>6. QED
  BY <1>4, <1>5 DEF Reaches

LEMMA RouteRelax ==
    ASSUME IInv, IInv', RouteInv, SettledKept, Relax
    PROVE  RouteInv'
<1>1. /\ UNCHANGED <<from, to, trail, shortest_path>>
      /\ pc = "relax" /\ pc' = "relax" /\ trail = [d \in Side |-> <<>>]
  BY DEF Relax, query, answer, RouteInv, Untraced
<1>2. PICK v \in Vertices : Reaches(v)
  BY RelaxInv
<1>3. Acyclic'
  BY <1>1, <1>2, RelaxAcyclic DEF RouteInv
<1>4. Apart'
  BY <1>1, <1>2, RelaxApart DEF RouteInv
<1>5. Walked'
  BY <1>1, WalkedFresh
<1>6. Untraced'
  BY <1>1 DEF RouteInv, Untraced
<1>7. QED
  BY <1>3, <1>4, <1>5, <1>6 DEF RouteInv

-----------------------------------------------------------------------------
(* What stands where on the way that the cursor has walked.                *)
LEMMA WayIs ==
    ASSUME IInv, common_node # NoNode, NEW d \in Side
    PROVE  /\ Way(d) \in Seq(Vertices) /\ Len(Way(d)) = Len(trail[d]) + 1
           /\ Way(d)[1] = common_node
           /\ \A i \in 1 .. Len(trail[d]) : Way(d)[i + 1] = trail[d][i]
           /\ Last(Way(d)) = Way(d)[Len(trail[d]) + 1]
BY DEF IInv, TypeOK, Way, Last

(* The cursor steps to a vertex that is not on the way yet, or else the    *)
(* previous vertices would lead round in a circle.                         *)
LEMMA NextOnTheWay ==
    ASSUME IInv, RouteInv, Trace, NEW y, y = previous_node[side][prev]
    PROVE  /\ prev = Last(Way(side)) /\ prev \in Known(side) \ {Root(side)}
           /\ y \in Settled(side) /\ y \in Vertices
           /\ y \notin Range(Way(side))
           /\ dist_to[side][y] <= dist_to[side][common_node]
<1> DEFINE way == Way(side)
           n == Len(trail[side]) + 1
<1>1. common_node # NoNode /\ prev \in Known(side) \ {Root(side)} /\ side \in Side
  BY DEF Trace, IInv, TypeOK, Searches, Traced
<1>2. way \in Seq(Vertices) /\ Len(way) = n /\ n \in Nat \ {0} /\ Last(way) = way[n]
  BY <1>1, WayIs DEF IInv, TypeOK
<1>3. prev = way[n] /\ prev = Last(way)
  BY <1>2 DEF Trace, RouteInv, Untraced
<1>4. /\ \A i \in 1 .. n - 1 : way[i] # Root(side) /\ way[i + 1] = previous_node[side][way[i]]
      /\ \A i \in 1 .. n : way[i] \in Known(side) /\ dist_to[side][way[i]] <= dist_to[side][common_node]
  <2>1. /\ \A i \in 1 .. Len(trail[side]) :
              way[i] # Root(side) /\ way[i + 1] = previous_node[side][way[i]]
        /\ \A i \in 1 .. Len(way) :
              way[i] \in Known(side) /\ dist_to[side][way[i]] <= dist_to[side][common_node]
    BY <1>1 DEF RouteInv, Walked
  <2>2. n - 1 = Len(trail[side])
    BY <1>1 DEF IInv, TypeOK
  <2>3. QED
    BY <1>2, <2>1, <2>2
<1>5. y \in Settled(side) /\ y \in Known(side) /\ dist_to[side][y] <= dist_to[side][prev]
  BY <1>1, NearerHolds DEF Nearer
<1>6. dist_to[side][y] <= dist_to[side][common_node]
  <2>1. dist_to[side][prev] <= dist_to[side][common_node]
    BY <1>2, <1>3, <1>4
  <2>2. /\ dist_to[side][y] \in Nat /\ dist_to[side][prev] \in Nat
        /\ dist_to[side][common_node] \in Nat
    BY <1>1, <1>5, SideType DEF IInv, Searches, MeetingIsBest, Side
  <2>3. QED
    BY <1>5, <2>1, <2>2
<1> HIDE DEF way, n
<1>7. ASSUME NEW j \in 1 .. n, way[j] = y
      PROVE  FALSE
  <2> DEFINE S == {way[i] : i \in j .. n}
  <2>1. j \in Nat /\ j <= n
    BY <1>2
  <2>2. S \in SUBSET (Known(side) \ {Root(side)})
    <3>1. ASSUME NEW i \in j .. n
          PROVE  way[i] \in Known(side) \ {Root(side)}
      <4>1. i \in 1 .. n /\ (i = n \/ i \in 1 .. n - 1)
        BY <1>2, <2>1
      <4>2. QED
        BY <1>1, <1>3, <1>4, <4>1
    <3>2. QED
      BY <3>1
  <2>3. way[n] \in S /\ way[j] \in S
    BY <1>2, <2>1
  <2>4. PICK x \in S : previous_node[side][x] \notin S
    BY <1>1, <2>2, <2>3 DEF RouteInv, Acyclic
  <2>5. PICK i \in j .. n : x = way[i]
    OBVIOUS
  <2>6. CASE i = n
    BY <1>3, <1>7, <2>3, <2>4, <2>5, <2>6
  <2>7. CASE i < n
    <3>1. i \in 1 .. n - 1 /\ i + 1 \in j .. n
      BY <1>2, <2>1, <2>7
    <3>2. way[i + 1] \in S
      BY <3>1
    <3>3. way[i + 1] = previous_node[side][way[i]]
      BY <1>4, <3>1
    <3>4. QED
      BY <2>4, <2>5, <3>2, <3>3
  <2>8. QED
    BY <1>2, <2>1, <2>6, <2>7
<1>8. y \notin Range(way)
  BY <1>2, <1>7 DEF Range
<1>9. y \in Vertices
  BY <1>1, <1>5 DEF IInv, TypeOK
<1>10. QED
  BY <1>1, <1>3, <1>5, <1>6, <1>8, <1>9 DEF way

(* The way grows by that vertex, on the side that is being walked.         *)
LEMMA WayGrows ==
    ASSUME IInv, RouteInv, Trace, NEW y, y = previous_node[side][prev]
    PROVE  /\ Way(side)' = Append(Way(side), y)
           /\ trail'[side] = Append(trail[side], y)
           /\ \A d \in Side \ {side} : Way(d)' = Way(d) /\ trail'[d] = trail[d]
<1> USE DEF Trace, query, search, meeting, answer
<1>1. /\ side \in Side /\ trail \in [Side -> Seq(Vertices)] /\ common_node \in Vertices
      /\ y \in Vertices
  BY NextOnTheWay DEF IInv, TypeOK, Searches, Traced
<1>2. trail'[side] = Append(trail[side], y) /\ \A d \in Side \ {side} : trail'[d] = trail[d]
  BY <1>1
<1>3. side' = side /\ common_node' = common_node
  OBVIOUS
<1>4. <<common_node>> \o Append(trail[side], y) = Append(<<common_node>> \o trail[side], y)
  BY <1>1
<1>5. QED
  BY <1>2, <1>3, <1>4 DEF Way

LEMMA RouteTrace ==
    ASSUME IInv, IInv', RouteInv, Trace
    PROVE  RouteInv'
<1> USE DEF query, search, meeting, answer
<1>1. /\ UNCHANGED <<from, to, pc, side, dist_to, previous_node, pq, common_node, shortest_path>>
      /\ pc = "trace" /\ side \in Side /\ common_node # NoNode
  BY DEF Trace, IInv, TypeOK, Searches, Traced
<1>2. PICK y : y = previous_node[side][prev]
  OBVIOUS
<1>3. /\ prev = Last(Way(side)) /\ prev \in Known(side) \ {Root(side)}
      /\ y \in Settled(side) /\ y \in Vertices /\ y \notin Range(Way(side))
      /\ dist_to[side][y] <= dist_to[side][common_node]
  BY <1>2, NextOnTheWay
<1>4. /\ Way(side)' = Append(Way(side), y)
      /\ trail'[side] = Append(trail[side], y)
      /\ \A d \in Side \ {side} : Way(d)' = Way(d) /\ trail'[d] = trail[d]
  BY <1>2, WayGrows
<1>5. /\ Way(side) \in Seq(Vertices) /\ Len(Way(side)) = Len(trail[side]) + 1
      /\ Way(side)[1] = common_node /\ trail[side] \in Seq(Vertices)
      /\ \A i \in 1 .. Len(trail[side]) : Way(side)[i + 1] = trail[side][i]
      /\ Last(Way(side)) = Way(side)[Len(trail[side]) + 1]
  BY <1>1, WayIs DEF IInv, TypeOK
<1>6. Acyclic'
  BY <1>1, AcyclicKept DEF RouteInv
<1>7. \A d \in Side : /\ Settled(d)' = Settled(d) /\ Known(d)' = Known(d) /\ Root(d)' = Root(d)
                      /\ dist_to'[d] = dist_to[d] /\ previous_node'[d] = previous_node[d]
  BY <1>1 DEF Settled, Known, Queued, Root
<1>8. Apart'
  <2>1. PICK S \in SUBSET Settled(Fwd), T \in SUBSET Settled(Bwd) :
              Half(Fwd, S) /\ Half(Bwd, T) /\ S \cap T = {}
    BY <1>1 DEF RouteInv, Apart
  <2>2. ASSUME NEW d \in Side, NEW R, Half(d, R)
        PROVE  Half(d, R)'
    <3>1. Range(trail'[d]) \subseteq R
      <4>1. CASE d = side
        <5>1. prev \in R \/ prev = common_node
          BY <1>3, <1>5, <2>2, <4>1 DEF Half, Range
        <5>2. y \in R
          BY <1>2, <1>3, <2>2, <4>1, <5>1 DEF Half
        <5>3. Range(Append(trail[side], y)) = Range(trail[side]) \cup {y}
          BY <1>3, <1>5, AddedRange
        <5>4. Range(trail'[d]) = Range(trail[d]) \cup {y}
          BY <1>4, <4>1, <5>3
        <5>5. QED
          BY <2>2, <5>2, <5>4 DEF Half
      <4>2. CASE d # side
        BY <1>4, <2>2, <4>2 DEF Half
      <4>3. QED
        BY <4>1, <4>2
    <3>2. QED
      BY <1>1, <1>7, <2>2, <3>1 DEF Half
  <2>3. S \in SUBSET (Settled(Fwd)') /\ T \in SUBSET (Settled(Bwd)')
    BY <1>7 DEF Side
  <2>4. QED
    BY <2>1, <2>2, <2>3 DEF Apart, Side
<1>9. Walked'
  <2> SUFFICES ASSUME NEW d \in Side
               PROVE  /\ IsInjective(Way(d)')
                      /\ \A i \in 1 .. Len(trail'[d]) :
                          /\ Way(d)'[i] # Root(d)
                          /\ Way(d)'[i + 1] = previous_node[d][Way(d)'[i]]
                      /\ \A i \in 1 .. Len(Way(d)') :
                          /\ Way(d)'[i] \in Known(d)
                          /\ dist_to[d][Way(d)'[i]] <= dist_to[d][common_node]
    BY <1>1, <1>7 DEF Walked
  <2>1. /\ IsInjective(Way(d))
        /\ \A i \in 1 .. Len(trail[d]) :
            Way(d)[i] # Root(d) /\ Way(d)[i + 1] = previous_node[d][Way(d)[i]]
        /\ \A i \in 1 .. Len(Way(d)) :
            Way(d)[i] \in Known(d) /\ dist_to[d][Way(d)[i]] <= dist_to[d][common_node]
    BY <1>1 DEF RouteInv, Walked
  <2>2. CASE d # side
    BY <1>4, <2>1, <2>2
  <2>3. CASE d = side
    <3> DEFINE way == Way(side)
               n == Len(way)
               new == Append(way, y)
    <3>1. IsInjective(new)
      BY <1>3, <1>5, <2>1, <2>3, AddedOnce
    <3>2. /\ n \in Nat \ {0} /\ Len(new) = n + 1 /\ new[n + 1] = y
          /\ \A i \in 1 .. n : new[i] = way[i]
          /\ Len(trail'[side]) = n /\ Len(trail[side]) = n - 1
          /\ way[n] = prev
      BY <1>3, <1>4, <1>5
    <3>3. y \in Known(side)
      BY <1>3 DEF Settled
    <3>4. /\ \A i \in 1 .. n - 1 : way[i] # Root(side) /\ way[i + 1] = previous_node[side][way[i]]
          /\ \A i \in 1 .. n : way[i] \in Known(side) /\ dist_to[side][way[i]] <= dist_to[side][common_node]
      BY <2>1, <2>3, <3>2
    <3>5. new = Way(d)' /\ Len(trail'[d]) = n
      BY <1>1, <1>4, <2>3, <3>2
    <3> HIDE DEF way, n, new
    <3>6. ASSUME NEW i \in 1 .. n
          PROVE  new[i] # Root(side) /\ new[i + 1] = previous_node[side][new[i]]
      <4>1. CASE i = n
        BY <1>2, <1>3, <3>2, <4>1
      <4>2. CASE i # n
        <5>1. i \in 1 .. n - 1 /\ i + 1 \in 1 .. n
          BY <3>2, <4>2
        <5>2. QED
          BY <3>2, <3>4, <5>1
      <4>3. QED
        BY <4>1, <4>2
    <3>7. ASSUME NEW i \in 1 .. n + 1
          PROVE  new[i] \in Known(side) /\ dist_to[side][new[i]] <= dist_to[side][common_node]
      <4>1. CASE i = n + 1
        BY <1>3, <3>2, <3>3, <4>1
      <4>2. CASE i # n + 1
        <5>1. i \in 1 .. n
          BY <3>2, <4>2
        <5>2. QED
          BY <3>2, <3>4, <5>1
      <4>3. QED
        BY <4>1, <4>2
    <3>8. QED
      BY <2>3, <3>1, <3>2, <3>5, <3>6, <3>7
  <2>4. QED
    BY <2>2, <2>3
<1>10. Untraced'
  <2>1. prev' = Last(Way(side)')
    <3>1. prev' = y
      BY <1>2 DEF Trace
    <3>2. QED
      BY <1>3, <1>4, <1>5, <3>1 DEF Last
  <2>2. IF side = Fwd THEN trail'[Bwd] = <<>> ELSE Halted(Fwd)'
    <3>1. IF side = Fwd THEN trail[Bwd] = <<>> ELSE Halted(Fwd)
      BY <1>1 DEF RouteInv, Untraced
    <3>2. Fwd # Bwd /\ Fwd \in Side /\ Bwd \in Side /\ (side = Fwd \/ side = Bwd)
      BY <1>1 DEF Side, Fwd, Bwd
    <3>3. QED
      BY <1>4, <1>7, <3>1, <3>2 DEF Halted
  <2>3. shortest_path' = <<>>
    BY <1>1 DEF RouteInv, Untraced
  <2>4. QED
    BY <1>1, <2>1, <2>2, <2>3 DEF Untraced
<1>11. QED
  BY <1>6, <1>8, <1>9, <1>10 DEF RouteInv

(* The steps that start, turn and end the walk back, and a step of none.   *)
LEMMA RouteTurn ==
    ASSUME IInv, IInv', RouteInv, SettledKept,
           StartTrace \/ StartBackwardTrace \/ Combine \/ UNCHANGED vars
    PROVE  RouteInv'
<1> USE DEF query, search, meeting, answer
<1>1. UNCHANGED <<from, to, dist_to, previous_node, pq, common_node, trail>>
  BY DEF StartTrace, StartBackwardTrace, Combine, vars
<1>2. \A d \in Side : /\ Root(d)' = Root(d) /\ Known(d)' = Known(d)
                      /\ Way(d)' = Way(d) /\ Halted(d)' = Halted(d)
  BY <1>1 DEF Root, Known, Way, Halted
<1>3. Fwd \in Side /\ Bwd \in Side /\ \A d \in Side : d = Fwd \/ d = Bwd
  BY DEF Side
<1>4. Acyclic'
  BY <1>1, AcyclicKept DEF RouteInv
<1>5. Apart'
  BY <1>1, ApartKept DEF RouteInv
<1>6. Walked'
  <2> SUFFICES ASSUME common_node # NoNode, NEW d \in Side
               PROVE  /\ IsInjective(Way(d))
                      /\ \A i \in 1 .. Len(trail[d]) :
                          /\ Way(d)[i] # Root(d)
                          /\ Way(d)[i + 1] = previous_node[d][Way(d)[i]]
                      /\ \A i \in 1 .. Len(Way(d)) :
                          /\ Way(d)[i] \in Known(d)
                          /\ dist_to[d][Way(d)[i]] <= dist_to[d][common_node]
    BY <1>1, <1>2 DEF Walked
  <2>1. QED
    BY DEF RouteInv, Walked
<1>7. Untraced'
  <2>1. ASSUME common_node # NoNode, NEW d \in Side, trail[d] = <<>>
        PROVE  Last(Way(d)) = common_node
    BY <2>1, WayIs
  <2>2. CASE StartTrace
    <3>1. /\ pc = "answer" /\ pc' = "trace" /\ side' = Fwd /\ common_node # NoNode
          /\ prev' = common_node /\ shortest_path' = shortest_path
      BY <2>2 DEF StartTrace
    <3>2. trail = [d \in Side |-> <<>>] /\ shortest_path = <<>>
      BY <3>1 DEF RouteInv, Untraced
    <3>3. Last(Way(Fwd)) = common_node /\ trail[Bwd] = <<>>
      BY <1>3, <2>1, <3>1, <3>2
    <3>4. QED
      BY <1>1, <1>2, <1>3, <3>1, <3>2, <3>3 DEF Untraced
  <2>3. CASE StartBackwardTrace
    <3>1. /\ pc = "trace" /\ pc' = pc /\ side = Fwd /\ side' = Bwd /\ common_node # NoNode
          /\ prev = Root(Fwd) /\ prev' = common_node /\ shortest_path' = shortest_path
      BY <2>3 DEF StartBackwardTrace, IInv, Searches, Traced
    <3>2. /\ prev = Last(Way(Fwd)) /\ trail[Bwd] = <<>> /\ shortest_path = <<>>
      BY <3>1 DEF RouteInv, Untraced
    <3>3. Last(Way(Bwd)) = common_node /\ Halted(Fwd) /\ Fwd # Bwd
      BY <1>3, <2>1, <3>1, <3>2 DEF Halted, Fwd, Bwd
    <3>4. QED
      BY <1>1, <1>2, <1>3, <3>1, <3>2, <3>3 DEF Untraced
  <2>4. CASE Combine
    <3>1. /\ pc = "trace" /\ pc' = "done" /\ side = Bwd /\ common_node # NoNode
          /\ prev = Root(Bwd)
          /\ shortest_path' = Reverse(trail[Fwd]) \o <<common_node>> \o trail[Bwd]
      BY <2>4 DEF Combine, IInv, Searches, Traced
    <3>2. /\ prev = Last(Way(Bwd)) /\ Halted(Fwd) /\ Fwd # Bwd
      BY <3>1 DEF RouteInv, Untraced, Fwd, Bwd
    <3>3. from # to /\ Halted(Bwd)
      BY <3>1, <3>2 DEF Halted, IInv, Searches, Unstarted
    <3>4. QED
      BY <1>1, <1>2, <1>3, <3>1, <3>2, <3>3 DEF Untraced
  <2>5. CASE UNCHANGED vars
    BY <2>5 DEF vars, RouteInv, Untraced, Halted, Way, Root
  <2>6. QED
    BY <2>2, <2>3, <2>4, <2>5
<1>8. QED
  BY <1>4, <1>5, <1>6, <1>7 DEF RouteInv

LEMMA RouteStep ==
    ASSUME IInv, IInv', RouteInv, [Next]_vars
    PROVE  RouteInv'
<1>1. SettledKept
  BY SettledStep
<1>2. CASE \/ SameVertex \/ Start \/ EnterLoop \/ LeaveLoop \/ PopStale \/ Settle \/ RunDry
           \/ Relaxed \/ NoRoute
  BY <1>1, <1>2, RouteSearch
<1>3. CASE Relax
  BY <1>1, <1>3, RouteRelax
<1>4. CASE Trace
  BY <1>4, RouteTrace
<1>5. CASE StartTrace \/ StartBackwardTrace \/ Combine \/ UNCHANGED vars
  BY <1>1, <1>5, RouteTurn
<1>6. QED
  BY <1>2, <1>3, <1>4, <1>5 DEF Next, Step, Returned

(* Every step of the walk back leads nearer to a root over a vertex not    *)
(* met before, and the ways to the two roots stay apart although settled   *)
(* vertices of the two searches overlap.                                   *)
THEOREM RouteInvariant == Spec => []RouteInv
<1>1. IInv /\ RouteInv /\ IInv' /\ [Next]_vars => RouteInv'
  BY RouteStep
<1>2. QED
  BY <1>1, RouteInit, Invariant, PTL DEF Spec

-----------------------------------------------------------------------------
(* Two ways from the meeting point c, the first turned round and the other *)
(* put behind it.                                                          *)
LEMMA Spliced ==
    ASSUME NEW V, NEW c \in V, NEW s \in Seq(V), NEW t \in Seq(V)
    PROVE  /\ Reverse(s) \o <<c>> \o t \in Seq(V)
           /\ Len(Reverse(s) \o <<c>> \o t) = Len(s) + 1 + Len(t)
           /\ \A i \in 1 .. Len(s) : (Reverse(s) \o <<c>> \o t)[i] = s[Len(s) + 1 - i]
           /\ (Reverse(s) \o <<c>> \o t)[Len(s) + 1] = c
           /\ \A i \in 1 .. Len(t) : (Reverse(s) \o <<c>> \o t)[Len(s) + 1 + i] = t[i]
<1> DEFINE m == Len(s)
           n == Len(t)
           w == Reverse(s)
           x == w \o <<c>>
           r == x \o t
<1>1. m \in Nat /\ n \in Nat
  OBVIOUS
<1>2. w \in Seq(V) /\ Len(w) = m /\ \A i \in 1 .. m : w[i] = s[m + 1 - i]
  BY DEF Reverse
<1>3. <<c>> \in Seq(V) /\ Len(<<c>>) = 1 /\ <<c>>[1] = c
  OBVIOUS
<1>4. /\ x \in Seq(V) /\ Len(x) = m + 1
      /\ \A i \in 1 .. m + 1 : x[i] = IF i <= m THEN w[i] ELSE <<c>>[i - m]
  <2> HIDE DEF w, m
  <2>1. QED
    BY <1>2, <1>3, ConcatProperties
<1>5. /\ r \in Seq(V) /\ Len(r) = m + 1 + n
      /\ \A i \in 1 .. m + 1 + n : r[i] = IF i <= m + 1 THEN x[i] ELSE t[i - (m + 1)]
  <2>1. x \in Seq(V) /\ Len(x) = m + 1
    BY <1>4, Zenon
  <2> HIDE DEF x, m
  <2>2. /\ x \o t \in Seq(V) /\ Len(x \o t) = Len(x) + Len(t)
        /\ \A i \in 1 .. Len(x) + Len(t) :
              (x \o t)[i] = IF i <= Len(x) THEN x[i] ELSE t[i - Len(x)]
    BY <2>1, ConcatProperties
  <2>3. QED
    BY <2>1, <2>2, Zenon
<1> HIDE DEF m, n, w, x, r
<1>6. \A i \in 1 .. m : r[i] = s[m + 1 - i]
  BY <1>1, <1>2, <1>4, <1>5
<1>7. r[m + 1] = c
  <2>1. m + 1 \in 1 .. m + 1 /\ m + 1 \in 1 .. m + 1 + n /\ (m + 1) - m = 1 /\ ~(m + 1 <= m)
    BY <1>1
  <2>2. QED
    BY <1>3, <1>4, <1>5, <2>1
<1>8. \A i \in 1 .. n : r[m + 1 + i] = t[i]
  <2>1. ASSUME NEW i \in 1 .. n PROVE r[m + 1 + i] = t[i]
    <3> DEFINE j == m + 1 + i
    <3>1. j \in 1 .. m + 1 + n /\ ~(j <= m + 1) /\ j - (m + 1) = i
      BY <1>1
    <3> HIDE DEF j
    <3>2. r[j] = t[i]
      BY <1>5, <3>1
    <3>3. QED
      BY <3>2 DEF j
  <2>2. QED
    BY <2>1
<1>9. QED
  BY <1>5, <1>6, <1>7, <1>8 DEF r, x, w, m, n

(* Where the vertices of the route stand on the two ways.                  *)
LEMMA RouteIs ==
    ASSUME IInv, RouteInv, pc = "done", common_node # NoNode,
           NEW m \in Nat, m = Len(trail[Fwd]), NEW n \in Nat, n = Len(trail[Bwd])
    PROVE  /\ shortest_path \in Seq(Vertices) /\ Len(shortest_path) = m + 1 + n
           /\ Len(Way(Fwd)) = m + 1 /\ Len(Way(Bwd)) = n + 1
           /\ \A i \in 1 .. m + 1 : shortest_path[i] = Way(Fwd)[m + 2 - i]
           /\ \A i \in 0 .. n : shortest_path[m + 1 + i] = Way(Bwd)[1 + i]
           /\ Way(Fwd)[1] = common_node /\ Way(Bwd)[1] = common_node
           /\ Way(Fwd)[m + 1] = from /\ Way(Bwd)[n + 1] = to
<1> DEFINE s == trail[Fwd]
           t == trail[Bwd]
           c == common_node
           r == shortest_path
           A == Way(Fwd)
           B == Way(Bwd)
<1>1. from # to /\ c \in Vertices
  BY DEF IInv, TypeOK, Searches, Unstarted
<1>2. r = Reverse(s) \o <<c>> \o t
  BY <1>1 DEF RouteInv, Untraced
<1>3. s \in Seq(Vertices) /\ t \in Seq(Vertices) /\ m = Len(s) /\ n = Len(t)
  BY DEF IInv, TypeOK, Side
<1>4. /\ Len(A) = m + 1 /\ Len(B) = n + 1
      /\ A[1] = c /\ \A i \in 1 .. m : A[i + 1] = s[i]
      /\ B[1] = c /\ \A i \in 1 .. n : B[i + 1] = t[i]
      /\ A[m + 1] = from /\ B[n + 1] = to
  <2>1. Halted(Fwd) /\ Halted(Bwd)
    BY DEF RouteInv, Untraced
  <2>2. Fwd \in Side /\ Bwd \in Side /\ Root(Fwd) = from /\ Root(Bwd) = to
    BY DEF Side, Root, Fwd, Bwd
  <2>3. /\ Len(A) = m + 1 /\ A[1] = c /\ \A i \in 1 .. m : A[i + 1] = s[i]
        /\ A[m + 1] = from
    BY <2>1, <2>2, WayIs DEF Halted
  <2>4. /\ Len(B) = n + 1 /\ B[1] = c /\ \A i \in 1 .. n : B[i + 1] = t[i]
        /\ B[n + 1] = to
    BY <2>1, <2>2, WayIs DEF Halted
  <2>5. QED
    BY <2>3, <2>4
<1>5. /\ r \in Seq(Vertices) /\ Len(r) = m + 1 + n
      /\ \A i \in 1 .. m : r[i] = s[m + 1 - i]
      /\ r[m + 1] = c
      /\ \A i \in 1 .. n : r[m + 1 + i] = t[i]
  <2> DEFINE spliced == Reverse(s) \o <<c>> \o t
  <2> HIDE DEF r, s, t, c
  <2>1. /\ spliced \in Seq(Vertices) /\ Len(spliced) = Len(s) + 1 + Len(t)
        /\ \A i \in 1 .. Len(s) : spliced[i] = s[Len(s) + 1 - i]
        /\ spliced[Len(s) + 1] = c
        /\ \A i \in 1 .. Len(t) : spliced[Len(s) + 1 + i] = t[i]
    BY <1>1, <1>3, Spliced, SMTT(20)
  <2>2. r = spliced
    BY <1>2
  <2> HIDE DEF spliced
  <2>3. QED
    BY <1>3, <2>1, <2>2
<1> HIDE DEF r, s, t, c, A, B
<1>6. ASSUME NEW i \in 1 .. m + 1 PROVE r[i] = A[m + 2 - i]
  <2>1. CASE i = m + 1
    <3>1. m + 2 - i = 1
      BY <2>1
    <3>2. QED
      BY <1>4, <1>5, <2>1, <3>1
  <2>2. CASE i # m + 1
    <3> DEFINE j == m + 1 - i
    <3>1. i \in 1 .. m /\ j \in 1 .. m /\ j + 1 = m + 2 - i
      BY <2>2
    <3> HIDE DEF j
    <3>2. r[i] = s[j] /\ A[j + 1] = s[j]
      BY <1>4, <1>5, <3>1 DEF j
    <3>3. QED
      BY <3>1, <3>2
  <2>3. QED
    BY <2>1, <2>2
<1>7. ASSUME NEW i \in 0 .. n PROVE r[m + 1 + i] = B[1 + i]
  <2>1. CASE i = 0
    <3>1. m + 1 + i = m + 1 /\ 1 + i = 1
      BY <2>1
    <3>2. QED
      BY <1>4, <1>5, <3>1
  <2>2. CASE i # 0
    <3>1. i \in 1 .. n /\ i + 1 = 1 + i
      BY <2>2
    <3>2. r[m + 1 + i] = t[i] /\ B[i + 1] = t[i]
      BY <1>4, <1>5, <3>1
    <3>3. QED
      BY <3>1, <3>2
  <2>3. QED
    BY <2>1, <2>2
<1>8. QED
  BY <1>4, <1>5, <1>6, <1>7 DEF r, A, B, c

LEMMA RouteOnce ==
    ASSUME IInv, RouteInv, pc = "done"
    PROVE  IsInjective(shortest_path)
<1>1. CASE common_node = NoNode
  <2>1. shortest_path = <<from>> \/ shortest_path = <<>>
    BY <1>1 DEF RouteInv, Untraced
  <2>2. QED
    BY <2>1 DEF IsInjective
<1>2. CASE common_node # NoNode
  <2> DEFINE r == shortest_path
             A == Way(Fwd)
             B == Way(Bwd)
  <2>1. PICK m \in Nat, n \in Nat : m = Len(trail[Fwd]) /\ n = Len(trail[Bwd])
    <3>1. trail \in [Side -> Seq(Vertices)]
      BY DEF IInv, TypeOK
    <3>2. trail[Fwd] \in Seq(Vertices) /\ trail[Bwd] \in Seq(Vertices)
      BY <3>1 DEF Side
    <3>3. Len(trail[Fwd]) \in Nat /\ Len(trail[Bwd]) \in Nat
      BY <3>2, LenProperties
    <3>4. QED
      BY <3>3
  <2>2. /\ r \in Seq(Vertices) /\ Len(r) = m + 1 + n /\ Len(A) = m + 1 /\ Len(B) = n + 1
        /\ \A i \in 1 .. m + 1 : r[i] = A[m + 2 - i]
        /\ \A i \in 0 .. n : r[m + 1 + i] = B[1 + i]
    BY <1>2, <2>1, RouteIs
  <2>3. /\ \A i, j \in 1 .. m + 1 : A[i] = A[j] => i = j
        /\ \A i, j \in 1 .. n + 1 : B[i] = B[j] => i = j
    <3>1. /\ IsInjective(A) /\ IsInjective(B)
          /\ A \in Seq(Vertices) /\ B \in Seq(Vertices)
      BY <1>2, WayIs DEF RouteInv, Walked, Side
    <3> HIDE DEF A, B, r
    <3>2. DOMAIN A = 1 .. m + 1 /\ DOMAIN B = 1 .. n + 1
      BY <2>2, <3>1
    <3>3. QED
      BY <3>1, <3>2 DEF IsInjective
  <2>4. PICK S, T : /\ Range(trail[Fwd]) \subseteq S /\ Range(trail[Bwd]) \subseteq T
                    /\ S \cap T = {}
    BY <1>2 DEF RouteInv, Apart, Half
  <2>5. /\ \A i \in 1 .. m : A[i + 1] \in S
        /\ \A i \in 1 .. n : B[i + 1] \in T
    <3>1. /\ \A i \in 1 .. m : A[i + 1] = trail[Fwd][i]
          /\ \A i \in 1 .. n : B[i + 1] = trail[Bwd][i]
          /\ trail[Fwd] \in Seq(Vertices) /\ trail[Bwd] \in Seq(Vertices)
      BY <1>2, <2>1, WayIs DEF IInv, TypeOK, Side
    <3>2. /\ \A i \in 1 .. m : trail[Fwd][i] \in S
          /\ \A i \in 1 .. n : trail[Bwd][i] \in T
      BY <2>1, <2>4, <3>1 DEF Range
    <3> HIDE DEF A, B
    <3>3. QED
      BY <3>1, <3>2
  <2> HIDE DEF r, A, B
  <2>6. ASSUME NEW i \in 1 .. m + 1 + n, NEW j \in 1 .. m + 1 + n, i < j, r[i] = r[j]
        PROVE  FALSE
    <3>1. CASE j <= m + 1
      <4>1. /\ i \in 1 .. m + 1 /\ j \in 1 .. m + 1
            /\ m + 2 - i \in 1 .. m + 1 /\ m + 2 - j \in 1 .. m + 1 /\ m + 2 - i # m + 2 - j
        BY <2>6, <3>1
      <4>2. A[m + 2 - i] = A[m + 2 - j]
        BY <2>2, <2>6, <4>1
      <4>3. QED
        BY <2>3, <4>1, <4>2
    <3>2. CASE m + 1 <= i
      <4> DEFINE e == i - (m + 1)
                 f == j - (m + 1)
      <4>1. /\ e \in 0 .. n /\ f \in 0 .. n /\ m + 1 + e = i /\ m + 1 + f = j
            /\ 1 + e \in 1 .. n + 1 /\ 1 + f \in 1 .. n + 1 /\ 1 + e # 1 + f
        BY <2>6, <3>2
      <4> HIDE DEF e, f
      <4>2. r[m + 1 + e] = B[1 + e] /\ r[m + 1 + f] = B[1 + f]
        BY <2>2, <4>1
      <4>3. B[1 + e] = B[1 + f]
        BY <2>6, <4>1, <4>2
      <4>4. QED
        BY <2>3, <4>1, <4>3
    <3>3. CASE i <= m /\ m + 1 < j
      <4> DEFINE e == m + 1 - i
                 f == j - (m + 1)
      <4>1. /\ e \in 1 .. m /\ e + 1 = m + 2 - i /\ i \in 1 .. m + 1
            /\ f \in 1 .. n /\ f \in 0 .. n /\ m + 1 + f = j /\ f + 1 = 1 + f
        BY <2>6, <3>3
      <4> HIDE DEF e, f
      <4>2. A[e + 1] \in S /\ B[f + 1] \in T
        BY <2>5, <4>1
      <4>3. r[i] = A[e + 1]
        BY <2>2, <4>1
      <4>4. r[m + 1 + f] = B[1 + f]
        BY <2>2, <4>1
      <4>5. r[j] = B[f + 1]
        BY <4>1, <4>4
      <4>6. QED
        BY <2>4, <2>6, <4>2, <4>3, <4>5
    <3>4. QED
      BY <2>6, <3>1, <3>2, <3>3
  <2>7. DOMAIN r = 1 .. m + 1 + n
    BY <2>2
  <2>8. \A i, j \in 1 .. m + 1 + n : r[i] = r[j] => i = j
    <3>1. ASSUME NEW i \in 1 .. m + 1 + n, NEW j \in 1 .. m + 1 + n, r[i] = r[j]
          PROVE  i = j
      <4>1. ~(i < j) /\ ~(j < i)
        BY <2>6, <3>1
      <4>2. QED
        BY <4>1
    <3>2. QED
      BY <3>1
  <2>9. QED
    BY <2>7, <2>8 DEF IsInjective, r
<1>3. QED
  BY <1>1, <1>2

-----------------------------------------------------------------------------
(* Two vertices that follow one another on a way are joined by an edge     *)
(* whose weight is the difference of their distances.                      *)
LEMMA WayHop ==
    ASSUME IInv, RouteInv, common_node # NoNode, NEW d \in Side
    PROVE  \A i \in 1 .. Len(trail[d]) :
                <<Way(d)[i], dist_to[d][Way(d)[i]] - dist_to[d][Way(d)[i + 1]]>>
                    \in OutEdges(d, Way(d)[i + 1])
<1> SUFFICES ASSUME NEW i \in 1 .. Len(trail[d])
             PROVE  <<Way(d)[i], dist_to[d][Way(d)[i]] - dist_to[d][Way(d)[i + 1]]>>
                        \in OutEdges(d, Way(d)[i + 1])
  OBVIOUS
<1> DEFINE x == Way(d)[i]
           y == Way(d)[i + 1]
<1>1. Len(trail[d]) \in Nat /\ Len(Way(d)) = Len(trail[d]) + 1
  BY WayIs DEF IInv, TypeOK
<1>2. i \in 1 .. Len(Way(d))
  BY <1>1
<1>3. x # Root(d) /\ y = previous_node[d][x] /\ x \in Known(d)
  BY <1>2 DEF RouteInv, Walked
<1> HIDE DEF x, y
<1>4. <<x, dist_to[d][x] - dist_to[d][y]>> \in OutEdges(d, y)
  BY <1>3 DEF IInv, PreviousIsExact
<1>5. QED
  BY <1>4 DEF x, y

(* The route is a walk of the query graph that costs what the two searches *)
(* together paid for the meeting point.                                    *)
LEMMA RoutePriced ==
    ASSUME IInv, RouteInv, pc = "done", common_node # NoNode
    PROVE  \E k \in Priced :
                /\ IsPricedWalk(edges, k, from, to)
                /\ k.at = shortest_path
                /\ k.cost[Len(k.cost)] = current_best_dist
<1> DEFINE r == shortest_path
           A == Way(Fwd)
           B == Way(Bwd)
           D(x) == dist_to[Fwd][x]
           E(x) == dist_to[Bwd][x]
           best == current_best_dist
<1>1. PICK m \in Nat, n \in Nat : m = Len(trail[Fwd]) /\ n = Len(trail[Bwd])
  <2>1. trail \in [Side -> Seq(Vertices)]
    BY DEF IInv, TypeOK
  <2>2. trail[Fwd] \in Seq(Vertices) /\ trail[Bwd] \in Seq(Vertices)
    BY <2>1 DEF Side
  <2>3. Len(trail[Fwd]) \in Nat /\ Len(trail[Bwd]) \in Nat
    BY <2>2, LenProperties
  <2>4. QED
    BY <2>3
<1> DEFINE q == [i \in 1 .. m + 1 + n |-> IF i <= m + 1 THEN D(r[i]) ELSE best - E(r[i])]
           Hop(i) == <<r[i], r[i + 1], q[i + 1] - q[i]>> \in edges
<1>2. /\ r \in Seq(Vertices) /\ Len(r) = m + 1 + n /\ Len(A) = m + 1 /\ Len(B) = n + 1
      /\ \A i \in 1 .. m + 1 : r[i] = A[m + 2 - i]
      /\ \A i \in 0 .. n : r[m + 1 + i] = B[1 + i]
      /\ A[m + 1] = from /\ B[n + 1] = to /\ A[1] = common_node /\ B[1] = common_node
  BY <1>1, RouteIs
<1>3. /\ Fwd \in Side /\ Bwd \in Side
      /\ common_node \in Known(Fwd) /\ common_node \in Known(Bwd)
      /\ best = D(common_node) + E(common_node)
  BY DEF Side, IInv, Searches, MeetingIsBest
<1>4. /\ \A i \in 1 .. m + 1 : D(A[i]) \in Nat
      /\ \A i \in 1 .. n + 1 : E(B[i]) \in Nat /\ E(B[i]) <= E(common_node)
      /\ D(common_node) \in Nat /\ E(common_node) \in Nat
  <2>1. /\ \A i \in 1 .. m + 1 : A[i] \in Known(Fwd)
        /\ \A i \in 1 .. n + 1 : B[i] \in Known(Bwd) /\ E(B[i]) <= E(common_node)
    BY <1>2, <1>3 DEF RouteInv, Walked
  <2>2. /\ \A x \in Known(Fwd) : D(x) \in Nat
        /\ \A x \in Known(Bwd) : E(x) \in Nat
    BY <1>3, SideType DEF IInv
  <2> HIDE DEF A, B, D, E
  <2>3. QED
    BY <1>3, <2>1, <2>2
<1>5. D(from) = 0 /\ E(to) = 0
  <2>1. from # to
    BY DEF IInv, Searches, Unstarted
  <2>2. QED
    BY <2>1 DEF IInv, Searches, Rooted, Root, Side, Fwd, Bwd
<1>6. /\ \A i \in 1 .. m : <<A[i + 1], A[i], D(A[i]) - D(A[i + 1])>> \in edges
      /\ \A i \in 1 .. n : <<B[i], B[i + 1], E(B[i]) - E(B[i + 1])>> \in edges
  <2>1. /\ \A i \in 1 .. m : <<A[i], D(A[i]) - D(A[i + 1])>> \in ForwardEdges(edges, A[i + 1])
        /\ \A i \in 1 .. n : <<B[i], E(B[i]) - E(B[i + 1])>> \in BackwardEdges(edges, B[i + 1])
    BY <1>1, <1>3, WayHop DEF OutEdges, Fwd, Bwd
  <2>2. \A x, y, w : /\ <<x, w>> \in ForwardEdges(edges, y) => <<y, x, w>> \in edges
                     /\ <<x, w>> \in BackwardEdges(edges, y) => <<x, y, w>> \in edges
    <3>1. edges \in SUBSET (Vertices \X Vertices \X Nat)
      BY GraphsAssumption DEF IInv, TypeOK
    <3>2. QED
      BY <3>1 DEF ForwardEdges, BackwardEdges
  <2> HIDE DEF A, B, D, E
  <2>3. QED
    BY <2>1, <2>2
<1> HIDE DEF A, B, D, E, r, best
<1>7. /\ \A i \in 1 .. m + 1 : q[i] = D(r[i])
      /\ \A i \in 0 .. n : q[m + 1 + i] = best - E(B[1 + i])
  <2>1. \A i \in 1 .. m + 1 : i \in 1 .. m + 1 + n /\ q[i] = D(r[i])
    OBVIOUS
  <2>2. ASSUME NEW i \in 0 .. n PROVE q[m + 1 + i] = best - E(B[1 + i])
    <3>1. CASE i = 0
      <4>1. m + 1 + i = m + 1 /\ 1 + i = 1 /\ m + 1 \in 1 .. m + 1
        BY <3>1
      <4>2. q[m + 1] = D(common_node)
        BY <1>2, <2>1, <3>1, <4>1
      <4>3. D(common_node) = best - E(common_node)
        BY <1>3, <1>4
      <4> HIDE DEF q
      <4>4. QED
        BY <1>2, <4>1, <4>2, <4>3
    <3>2. CASE i # 0
      <4> DEFINE j == m + 1 + i
      <4>1. j \in 1 .. m + 1 + n /\ ~(j <= m + 1)
        BY <3>2
      <4>2. r[j] = B[1 + i]
        BY <1>2
      <4> HIDE DEF j
      <4>3. q[j] = best - E(r[j])
        BY <4>1
      <4>4. QED
        BY <4>2, <4>3 DEF j
    <3>3. QED
      BY <3>1, <3>2
  <2> HIDE DEF q
  <2>3. QED
    BY <2>1, <2>2
<1>8. DOMAIN q = 1 .. m + 1 + n
  OBVIOUS
<1>9. \A i \in 1 .. m + 1 + n : i \in 1 .. m + 1 \/ \E j \in 0 .. n : i = m + 1 + j
  <2>1. ASSUME NEW i \in 1 .. m + 1 + n, i \notin 1 .. m + 1
        PROVE  i - (m + 1) \in 0 .. n /\ i = m + 1 + (i - (m + 1))
    BY <2>1
  <2>2. QED
    BY <2>1
<1> HIDE DEF q
<1>10. ASSUME NEW i \in 1 .. m + 1 + n PROVE q[i] \in Nat
  <2>1. CASE i \in 1 .. m + 1
    <3>1. m + 2 - i \in 1 .. m + 1
      BY <2>1
    <3>2. r[i] = A[m + 2 - i]
      BY <1>2, <2>1
    <3>3. QED
      BY <1>4, <1>7, <2>1, <3>1, <3>2
  <2>2. ASSUME NEW j \in 0 .. n, i = m + 1 + j PROVE q[i] \in Nat
    <3>1. 1 + j \in 1 .. n + 1
      OBVIOUS
    <3>2. /\ E(B[1 + j]) \in Nat /\ E(B[1 + j]) <= E(common_node)
          /\ E(common_node) \in Nat /\ D(common_node) \in Nat
      BY <1>4, <3>1
    <3>3. best - E(B[1 + j]) \in Nat
      BY <1>3, <3>2
    <3>4. q[m + 1 + j] = best - E(B[1 + j])
      BY <1>7
    <3>5. QED
      BY <2>2, <3>3, <3>4
  <2>3. QED
    BY <1>9, <2>1, <2>2
<1>11. ASSUME NEW i \in 1 .. m PROVE Hop(i)
  <2> DEFINE j == m + 1 - i
  <2>1. /\ j \in 1 .. m /\ i \in 1 .. m + 1 /\ i + 1 \in 1 .. m + 1
        /\ m + 2 - i = j + 1 /\ m + 2 - (i + 1) = j
    OBVIOUS
  <2>2. r[i] = A[m + 2 - i] /\ r[i + 1] = A[m + 2 - (i + 1)]
    BY <1>2, <2>1
  <2> HIDE DEF j
  <2>3. r[i] = A[j + 1] /\ r[i + 1] = A[j]
    BY <2>1, <2>2
  <2>4. q[i] = D(r[i]) /\ q[i + 1] = D(r[i + 1])
    BY <1>7, <2>1
  <2>5. <<A[j + 1], A[j], D(A[j]) - D(A[j + 1])>> \in edges
    BY <1>6, <2>1
  <2>6. QED
    BY <2>3, <2>4, <2>5
<1>12. ASSUME NEW i \in m + 1 .. m + n PROVE Hop(i)
  <2> DEFINE j == i - m
  <2>1. /\ j \in 1 .. n /\ j - 1 \in 0 .. n /\ j \in 0 .. n
        /\ m + 1 + (j - 1) = i /\ m + 1 + j = i + 1 /\ 1 + (j - 1) = j /\ 1 + j = j + 1
        /\ j \in 1 .. n + 1 /\ j + 1 \in 1 .. n + 1
    OBVIOUS
  <2> HIDE DEF j
  <2>2. /\ r[m + 1 + (j - 1)] = B[1 + (j - 1)] /\ r[m + 1 + j] = B[1 + j]
    BY <1>2, <2>1
  <2>3. r[i] = B[j] /\ r[i + 1] = B[j + 1]
    BY <2>1, <2>2
  <2>4. /\ q[m + 1 + (j - 1)] = best - E(B[1 + (j - 1)])
        /\ q[m + 1 + j] = best - E(B[1 + j])
    BY <1>7, <2>1
  <2>5. q[i] = best - E(B[j]) /\ q[i + 1] = best - E(B[j + 1])
    BY <2>1, <2>4
  <2>6. E(B[j]) \in Nat /\ E(B[j + 1]) \in Nat /\ best \in Nat
    BY <1>3, <1>4, <2>1
  <2>7. (best - E(B[j + 1])) - (best - E(B[j])) = E(B[j]) - E(B[j + 1])
    <3> DEFINE e == E(B[j])
               f == E(B[j + 1])
    <3> HIDE DEF e, f
    <3>1. (best - f) - (best - e) = e - f
      BY <2>6 DEF e, f
    <3>2. QED
      BY <3>1 DEF e, f
  <2>8. <<B[j], B[j + 1], E(B[j]) - E(B[j + 1])>> \in edges
    BY <1>6, <2>1
  <2>9. QED
    BY <2>3, <2>5, <2>7, <2>8
<1> DEFINE k == [at |-> r, cost |-> q]
<1>13. q \in Seq(Nat) /\ Len(q) = m + 1 + n
  <2>1. q = [i \in 1 .. m + 1 + n |-> q[i]]
    BY DEF q
  <2>2. q \in [1 .. m + 1 + n -> Nat]
    BY <1>10, <2>1
  <2>3. m + 1 + n \in Nat
    OBVIOUS
  <2>4. q \in Seq(Nat)
    BY <2>2, <2>3
  <2>5. QED
    BY <1>8, <2>3, <2>4
<1>14. r[1] = from /\ r[m + 1 + n] = to /\ q[1] = 0 /\ q[m + 1 + n] = best
  <2>1. 1 \in 1 .. m + 1 /\ m + 2 - 1 = m + 1 /\ n \in 0 .. n /\ 1 + n = n + 1
    OBVIOUS
  <2>2. r[1] = A[m + 2 - 1] /\ r[m + 1 + n] = B[1 + n]
    BY <1>2, <2>1
  <2>3. r[1] = from /\ r[m + 1 + n] = to
    BY <1>2, <2>1, <2>2
  <2>4. q[1] = D(r[1]) /\ q[m + 1 + n] = best - E(B[1 + n])
    BY <1>7, <2>1
  <2>5. best \in Nat
    BY <1>3, <1>4
  <2>6. QED
    BY <1>2, <1>5, <2>1, <2>3, <2>4, <2>5
<1>15. \A i \in 1 .. (m + 1 + n) - 1 : Hop(i)
  <2> HIDE DEF Hop
  <2>1. \A i \in 1 .. (m + 1 + n) - 1 : i \in 1 .. m \/ i \in m + 1 .. m + n
    OBVIOUS
  <2>2. QED
    BY <1>11, <1>12, <2>1
<1>16. k \in Priced /\ k.at = r /\ k.cost = q
  BY <1>2, <1>13 DEF Priced
<1>17. IsPricedWalk(edges, k, from, to)
  <2> DEFINE l == m + 1 + n
  <2>1. l \in Nat /\ l > 0
    OBVIOUS
  <2>2. \A i \in 1 .. l - 1 : Hop(i)
    BY <1>15
  <2>3. /\ k.at = r /\ k.cost = q /\ Len(r) = l /\ Len(q) = l
        /\ r[1] = from /\ r[l] = to /\ q[1] = 0
    BY <1>2, <1>13, <1>14, <1>16
  <2> HIDE DEF l, k
  <2>4. QED
    BY <2>1, <2>2, <2>3 DEF IsPricedWalk
<1>18. k.cost[Len(k.cost)] = best
  BY <1>13, <1>14
<1>19. QED
  BY <1>16, <1>17, <1>18 DEF r, best

(* An answer is right when the function returns: a walk of least cost with *)
(* that cost, or the float maximum and no route when there is no walk.     *)
Right ==
    \/ /\ path_cost # Infinity
       /\ IsWalk(edges, shortest_path, from, to)
       /\ IsInjective(shortest_path)
       /\ WalkCost(edges, shortest_path) = path_cost
       /\ path_cost = ShortestCost(Vertices, edges, from, to)
    \/ /\ ShortestCost(Vertices, edges, from, to) = Infinity
       /\ path_cost = Infinity
       /\ shortest_path = <<>>

RightAtLast == pc = "done" => Right

LEMMA AnswerRight == IInv /\ RouteInv => RightAtLast
<1> SUFFICES ASSUME IInv, RouteInv, pc = "done" PROVE Right
  BY DEF RightAtLast
<1>1. edges \subseteq Vertices \X Vertices \X Nat /\ from \in Vertices /\ to \in Vertices
  BY GraphsAssumption, QueriesAssumption DEF IInv, TypeOK
<1>2. ASSUME from # to, NEW p \in Seq(Vertices), IsWalk(edges, p, from, to)
      PROVE  current_best_dist # Infinity /\ current_best_dist <= WalkCost(edges, p)
  <2>1. PICK k \in Priced : /\ IsPricedWalk(edges, k, from, to)
                            /\ k.cost[Len(k.cost)] = WalkCost(edges, p)
    BY <1>1, <1>2, PricedAtCost DEF Priced
  <2>2. QED
    BY <1>2, <2>1, BestIsLeast
<1>3. CASE from = to
  <2> DEFINE p == <<from>>
  <2>1. path_cost = 0 /\ common_node = NoNode
    BY <1>3 DEF IInv, Searches, Traced, Unstarted
  <2>2. shortest_path = p
    BY <1>3 DEF RouteInv, Untraced
  <2>3. p \in Seq(Vertices) /\ Len(p) = 1 /\ p[1] = from /\ p[1] = to /\ IsInjective(p)
    BY <1>1, <1>3 DEF IsInjective
  <2>4. IsWalk(edges, p, from, to)
    BY <2>3 DEF IsWalk
  <2> HIDE DEF p
  <2>5. WalkCost(edges, p) = 0
    BY <1>1, <2>3, <2>4, CostsPrice DEF WalkCost
  <2>6. ASSUME NEW w \in Seq(Vertices), IsWalk(edges, w, from, to)
        PROVE  WalkCost(edges, p) <= WalkCost(edges, w)
    <3>1. WalkCost(edges, w) \in Nat
      BY <1>1, <2>6, WalkCostType
    <3>2. QED
      BY <2>5, <3>1
  <2>7. ShortestCost(Vertices, edges, from, to) = WalkCost(edges, p)
    BY <1>1, <2>3, <2>4, <2>6, ShortestOf, VerticesAssumption
  <2>8. QED
    BY <2>1, <2>2, <2>3, <2>4, <2>5, <2>7, InfinityAssumption DEF Right
<1>4. CASE from # to /\ common_node # NoNode
  <2> DEFINE p == shortest_path
  <2>1. PICK k \in Priced : /\ IsPricedWalk(edges, k, from, to)
                            /\ k.at = p
                            /\ k.cost[Len(k.cost)] = current_best_dist
    BY <1>4, RoutePriced
  <2>2. /\ IsWalk(edges, p, from, to) /\ WalkCost(edges, p) \in Nat
        /\ WalkCost(edges, p) <= current_best_dist
    BY <1>1, <2>1, CheapestPrice DEF Priced
  <2>3. p \in Seq(Vertices) /\ IsInjective(p)
    BY RouteOnce DEF IInv, TypeOK
  <2>4. current_best_dist # Infinity /\ current_best_dist <= WalkCost(edges, p)
    BY <1>2, <1>4, <2>2, <2>3
  <2>5. current_best_dist \in Nat
    BY <2>4 DEF IInv, TypeOK
  <2>6. WalkCost(edges, p) = current_best_dist
    <3> DEFINE w == WalkCost(edges, p)
    <3>1. w \in Nat /\ w <= current_best_dist /\ current_best_dist <= w
      BY <2>2, <2>4
    <3> HIDE DEF w
    <3>2. w = current_best_dist
      BY <2>5, <3>1
    <3>3. QED
      BY <3>2 DEF w
  <2>7. \A w \in Seq(Vertices) : IsWalk(edges, w, from, to) =>
            WalkCost(edges, p) <= WalkCost(edges, w)
    BY <1>2, <1>4, <2>6
  <2>8. ShortestCost(Vertices, edges, from, to) = WalkCost(edges, p)
    BY <1>1, <2>2, <2>3, <2>7, ShortestOf, VerticesAssumption
  <2>9. path_cost = current_best_dist
    BY <1>4 DEF IInv, Searches, Traced
  <2>10. QED
    BY <2>2, <2>3, <2>4, <2>6, <2>8, <2>9 DEF Right
<1>5. CASE from # to /\ common_node = NoNode
  <2>1. current_best_dist = Infinity /\ path_cost = Infinity /\ shortest_path = <<>>
    BY <1>5 DEF IInv, Searches, MeetingIsBest, Traced, RouteInv, Untraced
  <2>2. \A p \in Seq(Vertices) : ~IsWalk(edges, p, from, to)
    BY <1>2, <1>5, <2>1
  <2>3. ShortestCost(Vertices, edges, from, to) = Infinity
    BY <1>1, <2>2, ShortestOfNone, VerticesAssumption
  <2>4. QED
    BY <2>1, <2>3 DEF Right
<1>6. QED
  BY <1>3, <1>4, <1>5

LEMMA AnswerRightNext == IInv' /\ RouteInv' => RightAtLast'
BY AnswerRight, PTL

(* The promise speaks of the same walks and costs.                         *)
LEMMA SameReference ==
    /\ \A E, p, s, t : Promise!IsWalk(E, p, s, t) <=> IsWalk(E, p, s, t)
    /\ \A E, p : Promise!WalkCost(E, p) = WalkCost(E, p)
    /\ \A V, E, s, t : Promise!ShortestCost(V, E, s, t) = ShortestCost(V, E, s, t)
    /\ \A p : Promise!IsInjective(p) <=> IsInjective(p)
<1>1. \A E, x, y : Promise!Weights(E, x, y) = Weights(E, x, y)
  BY DEF Weights, Promise!Weights
<1>2. \A S : Promise!Least(S) = Least(S)
  BY DEF Least, Promise!Least
<1>3. \A E, p : Promise!CostsAlong(E, p) = CostsAlong(E, p)
  BY <1>1, <1>2 DEF CostsAlong, Promise!CostsAlong
<1>4. \A E, p : Promise!WalkCost(E, p) = WalkCost(E, p)
  BY <1>3 DEF WalkCost, Promise!WalkCost
<1>5. \A E, p, s, t : Promise!IsWalk(E, p, s, t) <=> IsWalk(E, p, s, t)
  BY <1>1 DEF IsWalk, Promise!IsWalk
<1>6. \A V : Promise!Cardinality(V) = Cardinality(V)
  BY DEF Cardinality, Promise!Cardinality
<1>7. \A V, E, s : Promise!SimpleWalksFrom(V, E, s) = SimpleWalksFrom(V, E, s)
  BY <1>6 DEF SimpleWalksFrom, Promise!SimpleWalksFrom, Longer, Promise!Longer, Onward,
     Promise!Onward, Weights, Promise!Weights, Range, Promise!Range
<1>8. \A V, E, s, t : Promise!SimpleWalks(V, E, s, t) = SimpleWalks(V, E, s, t)
  BY <1>6, <1>7 DEF SimpleWalks, Promise!SimpleWalks
<1>9. \A V, E, s, t : Promise!ShortestCost(V, E, s, t) = ShortestCost(V, E, s, t)
  BY <1>2, <1>4, <1>8 DEF ShortestCost, Promise!ShortestCost
<1>10. \A p : Promise!IsInjective(p) <=> IsInjective(p)
  BY DEF IsInjective, Promise!IsInjective
<1>11. QED
  BY <1>4, <1>5, <1>9, <1>10

(* A step of the search is a step of the promise, or none it can see.      *)
LEMMA PromiseStep ==
    ASSUME IInv, IInv', RouteInv', [Next]_vars
    PROVE  [Promise!Next]_(Promise!vars)
<1> USE DEF query, search, meeting, answer
<1>1. CASE pc = "done"
  <2>1. UNCHANGED vars
    BY <1>1 DEF Next, Step, Returned, vars, SameVertex, Start, EnterLoop, LeaveLoop, PopStale, Settle,
       RunDry, Relax, Relaxed, NoRoute, StartTrace, Trace, StartBackwardTrace, Combine
  <2>2. QED
    BY <2>1 DEF vars, Promise!vars
<1>2. CASE pc # "done"
  <2>1. UNCHANGED <<edges, from, to>>
    BY DEF Next, Step, Returned, vars, SameVertex, Start, EnterLoop, LeaveLoop, PopStale, Settle,
       RunDry, Relax, Relaxed, NoRoute, StartTrace, Trace, StartBackwardTrace, Combine
  <2>2. CASE pc' # "done"
    BY <1>2, <2>1, <2>2 DEF Promise!vars
  <2>3. CASE pc' = "done"
    <3>1. Right'
      BY <2>3, AnswerRightNext DEF RightAtLast
    <3>2. \/ /\ path_cost' # Infinity
             /\ Promise!IsWalk(edges', shortest_path', from', to')
             /\ Promise!IsInjective(shortest_path')
             /\ Promise!WalkCost(edges', shortest_path') = path_cost'
             /\ path_cost' = Promise!ShortestCost(Vertices, edges', from', to')
          \/ /\ Promise!ShortestCost(Vertices, edges', from', to') = Infinity
             /\ path_cost' = Infinity
             /\ shortest_path' = <<>>
      BY <3>1, SameReference DEF Right
    <3>3. Promise!AnswerRoute \/ Promise!AnswerNoRoute
      BY <2>1, <2>3, <3>2 DEF Promise!AnswerRoute, Promise!AnswerNoRoute
    <3>4. QED
      BY <1>2, <2>1, <2>3, <3>3 DEF Promise!Next, Promise!Answer
  <2>4. QED
    BY <2>2, <2>3
<1>3. QED
  BY <1>1, <1>2

(* The two searches and the walk back together keep the promise made to    *)
(* the caller: in every query graph with costs that are not negative, what *)
(* is answered is a cheapest walk that repeats no vertex, though vertices  *)
(* tie where edges cost nothing, with its cost; and only if there is none  *)
(* an empty route at the float maximum.                                    *)
THEOREM PromiseKept == Spec => KeepsPromise
<1>1. Init => Promise!Init
  BY DEF Init, Promise!Init
<1>2. IInv /\ IInv' /\ RouteInv' /\ [Next]_vars => [Promise!Next]_(Promise!vars)
  BY PromiseStep
<1>3. QED
  BY <1>1, <1>2, Invariant, RouteInvariant, PTL DEF Spec, KeepsPromise, Promise!Spec
=============================================================================
