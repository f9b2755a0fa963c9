------------------------ MODULE SimpleDijkstraProofs ------------------------
(***************************************************************************)
(* Proofs about SimpleDijkstra, for every value of its constants: the      *)
(* invariant the run checks is inductive, and with it the search keeps the *)
(* promise of ShortestPathQuery.                                           *)
(***************************************************************************)
EXTENDS SimpleDijkstra, WeightedGraphsProofs

(* SearchInv without the types, which are proved first.                    *)
Searches ==
    /\ Rooted
    /\ QueueSound
    /\ SettledFirst
    /\ SettledRelaxed
    /\ GoalLast
    /\ PreviousExact
    /\ Acyclic
    /\ Walked

IInv == TypeOK /\ Searches

-----------------------------------------------------------------------------
(* The edges of a vertex lead to vertices of the graph and cost a natural. *)
LEMMA EdgesType ==
    ASSUME TypeOK
    PROVE  /\ edges \subseteq Vertices \X Vertices \X Nat
           /\ from \in Vertices /\ to \in Vertices
           /\ \A x : ForwardEdges(edges, x) \in SUBSET (Vertices \X Nat)
           /\ \A x, y, w : <<y, w>> \in ForwardEdges(edges, x) <=> <<x, y, w>> \in edges
           /\ \A x \in Known : dist_to[x] \in Nat /\ x \in Vertices
<1>1. edges \in SUBSET (Vertices \X Vertices \X Nat)
  BY GraphsAssumption DEF TypeOK
<1>2. <<from, to>> \in Vertices \X Vertices
  BY QueriesAssumption DEF TypeOK
<1>3. \A x : ForwardEdges(edges, x) \in SUBSET (Vertices \X Nat)
  BY <1>1 DEF ForwardEdges
<1>4. \A x, y, w : <<y, w>> \in ForwardEdges(edges, x) <=> <<x, y, w>> \in edges
  <2>1. ASSUME NEW x, NEW y, NEW w, <<x, y, w>> \in edges
        PROVE  <<y, w>> \in ForwardEdges(edges, x)
    <3> DEFINE e == <<x, y, w>>
    <3>1. e \in edges /\ e[1] = x /\ e[2] = y /\ e[3] = w
      BY <2>1
    <3> HIDE DEF e
    <3>2. QED
      BY <3>1 DEF ForwardEdges
  <2>2. ASSUME NEW x, NEW y, NEW w, <<y, w>> \in ForwardEdges(edges, x)
        PROVE  <<x, y, w>> \in edges
    BY <1>1, <2>2 DEF ForwardEdges
  <2>3. QED
    BY <2>1, <2>2
<1>5. \A x \in Known : dist_to[x] \in Nat /\ x \in Vertices
  BY DEF TypeOK
<1>6. QED
  BY <1>1, <1>2, <1>3, <1>4, <1>5

-----------------------------------------------------------------------------
LEMMA InitInv == Init => IInv
<1> SUFFICES ASSUME Init PROVE IInv
  OBVIOUS
<1>1. DOMAIN dist_to = {} /\ DOMAIN previous_node = {} /\ pq = {} /\ Known = {} /\ Settled = {}
  BY DEF Init, Known, Settled
<1>2. <<from, to>> \in Queries
  BY QueriesAssumption DEF Init
<1>3. TypeOK
  BY <1>1, <1>2, NoNodeAssumption DEF Init, TypeOK
<1>4. Searches
  BY <1>1 DEF Init, Searches, Rooted, QueueSound, SettledFirst, SettledRelaxed, GoalLast,
     PreviousExact, Acyclic, Walked
<1>5. QED
  BY <1>3, <1>4 DEF IInv

(* What does not depend on the phase is kept where the maps and the queue  *)
(* are.                                                                    *)
LEMMA SearchUntouched ==
    ASSUME IInv, UNCHANGED <<query, search>>
    PROVE  /\ Known' = Known /\ Settled' = Settled
           /\ QueueSound' /\ PreviousExact' /\ Acyclic'
           /\ \A s : IsWay(s)' <=> IsWay(s)
<1> USE DEF query, search
<1>1. Known' = Known /\ Settled' = Settled
  BY DEF Known, Settled
<1>2. QueueSound' /\ PreviousExact' /\ Acyclic'
  BY <1>1 DEF IInv, Searches, QueueSound, PreviousExact, Acyclic
<1>3. \A s : IsWay(s)' <=> IsWay(s)
  BY <1>1 DEF IsWay
<1>4. QED
  BY <1>1, <1>2, <1>3

LEMMA SameVertexInv ==
    ASSUME IInv, SameVertex
    PROVE  IInv'
<1> USE DEF SameVertex, query, search
<1>1. /\ UNCHANGED <<edges, from, to, dist_to, previous_node, pq, u, todo, prev>>
      /\ pc = "start" /\ pc' = "done" /\ from = to
      /\ shortest_path' = <<from>> /\ path_cost' = 0
  OBVIOUS
<1>2. Known' = Known /\ Settled' = Settled /\ QueueSound' /\ PreviousExact' /\ Acyclic'
  BY <1>1, SearchUntouched
<1>3. Known = {} /\ Settled = {}
  BY <1>1 DEF IInv, Searches, Rooted, Settled
<1>4. from \in Vertices /\ 0 # Unset
  BY EdgesType, UnsetAssumption DEF IInv
<1>5. TypeOK'
  BY <1>1, <1>2, <1>4 DEF IInv, TypeOK
<1>6. Rooted'
  BY <1>1, <1>2 DEF IInv, Searches, Rooted
<1>7. SettledFirst' /\ SettledRelaxed' /\ GoalLast' /\ Walked'
  BY <1>1, <1>2, <1>3 DEF SettledFirst, SettledRelaxed, GoalLast, Walked
<1>8. QED
  BY <1>2, <1>5, <1>6, <1>7 DEF IInv, Searches

LEMMA StartInv ==
    ASSUME IInv, Start
    PROVE  IInv'
<1> USE DEF Start, query, search, answer
<1>1. /\ UNCHANGED <<edges, from, to, previous_node, u, todo, prev, shortest_path, path_cost>>
      /\ pc = "start" /\ pc' = "pop" /\ from # to
      /\ dist_to' = [x \in {from} |-> 0] /\ pq' = {<<from, 0>>}
  OBVIOUS
<1>2. Known' = {from} /\ Settled' = {}
  BY <1>1 DEF Known, Settled
<1>3. Known = {} /\ DOMAIN previous_node = {}
  BY <1>1 DEF IInv, TypeOK, Searches, Rooted
<1>4. from \in Vertices
  BY EdgesType DEF IInv
<1>5. TypeOK'
  BY <1>1, <1>2, <1>3, <1>4 DEF IInv, TypeOK
<1>6. Rooted' /\ QueueSound'
  BY <1>1, <1>2 DEF Rooted, QueueSound
<1>7. SettledFirst' /\ SettledRelaxed' /\ GoalLast' /\ PreviousExact' /\ Acyclic'
  BY <1>1, <1>2 DEF SettledFirst, SettledRelaxed, GoalLast, PreviousExact, Acyclic
<1>8. Walked'
  BY <1>1 DEF IInv, Searches, Walked
<1>9. QED
  BY <1>5, <1>6, <1>7, <1>8 DEF IInv, Searches

(* The steps that only move the function on.                               *)
LEMMA PhaseInv ==
    ASSUME IInv, RunDry \/ Relaxed \/ NoRoute
    PROVE  IInv'
<1> USE DEF query, search, answer
<1>1. UNCHANGED <<edges, from, to, dist_to, previous_node, pq, u, todo, prev, shortest_path>>
  BY DEF RunDry, Relaxed, NoRoute
<1>2. Known' = Known /\ Settled' = Settled /\ QueueSound' /\ PreviousExact' /\ Acyclic'
  BY <1>1, SearchUntouched
<1>3. /\ pc \in {"pop", "relax", "answer"} /\ pc' \in {"pop", "answer", "done"}
      /\ pc' = "done" => path_cost' = Infinity /\ to \notin Known
      /\ pc' # "done" => path_cost' = path_cost
  BY DEF RunDry, Relaxed, NoRoute, Known
<1>4. TypeOK'
  BY <1>1, <1>2, <1>3, UnsetAssumption DEF IInv, TypeOK
<1>5. Rooted'
  BY <1>1, <1>2, <1>3 DEF IInv, Searches, Rooted
<1>6. SettledFirst'
  BY <1>1, <1>2, <1>3 DEF IInv, Searches, SettledFirst
<1>7. SettledRelaxed'
  <2>1. pc = "relax" => todo = {}
    BY DEF RunDry, Relaxed, NoRoute
  <2>2. QED
    BY <1>1, <1>2, <2>1 DEF IInv, Searches, SettledRelaxed
<1>8. GoalLast'
  <2>1. CASE RunDry
    <3>1. Known \subseteq Settled
      BY <2>1 DEF RunDry, Settled
    <3>2. QED
      BY <1>2, <2>1, <3>1 DEF GoalLast, RunDry
  <2>2. CASE Relaxed \/ NoRoute
    BY <1>1, <1>2, <2>2 DEF Relaxed, NoRoute, IInv, Searches, GoalLast
  <2>3. QED
    BY <2>1, <2>2
<1>9. Walked'
  <2>1. shortest_path = <<>> /\ from # to
    BY <1>3 DEF IInv, Searches, Walked, Rooted
  <2>2. QED
    BY <1>1, <1>2, <1>3, <2>1 DEF Walked
<1>10. QED
  BY <1>2, <1>4, <1>5, <1>6, <1>7, <1>8, <1>9 DEF IInv, Searches

LEMMA PopStaleInv ==
    ASSUME IInv, PopStale
    PROVE  IInv'
<1> USE DEF PopStale, query, search, answer
<1>1. /\ UNCHANGED <<edges, from, to, pc, dist_to, previous_node, u, todo, prev, shortest_path, path_cost>>
      /\ pc = "pop"
  OBVIOUS
<1>2. PICK e \in pq : e[2] # dist_to[e[1]] /\ pq' = pq \ {e}
  BY DEF IsGood
<1>3. Known' = Known
  BY <1>1 DEF Known
<1>4. Settled' = Settled
  BY <1>1, <1>2, <1>3 DEF Settled
<1>5. TypeOK'
  BY <1>1, <1>2, <1>3 DEF IInv, TypeOK
<1>6. Rooted' /\ QueueSound'
  BY <1>1, <1>2, <1>3 DEF IInv, Searches, Rooted, QueueSound
<1>7. SettledFirst' /\ SettledRelaxed' /\ GoalLast' /\ PreviousExact' /\ Acyclic' /\ Walked'
  BY <1>1, <1>3, <1>4 DEF IInv, Searches, SettledFirst, SettledRelaxed, GoalLast, PreviousExact,
     Acyclic, Walked
<1>8. QED
  BY <1>5, <1>6, <1>7 DEF IInv, Searches

LEMMA SettleInv ==
    ASSUME IInv, Settle
    PROVE  IInv'
<1> USE DEF Settle, query, answer
<1>1. /\ UNCHANGED <<edges, from, to, dist_to, previous_node, prev, shortest_path, path_cost>>
      /\ pc = "pop"
  OBVIOUS
<1>2. PICK e \in pq :
        /\ \A f \in pq : e[2] <= f[2]
        /\ e[2] = dist_to[e[1]]
        /\ pq' = pq \ {e}
        /\ u' = e[1]
        /\ IF e[1] = to THEN todo' = {} /\ pc' = "answer"
           ELSE todo' = ForwardEdges(edges, e[1]) /\ pc' = "relax"
  BY DEF IsTop, IsGood, IsGoal
<1> DEFINE x == e[1]
<1>3. x \in Known /\ x \in Vertices /\ e = <<x, dist_to[x]>> /\ dist_to[x] \in Nat
  <2>1. e \in Vertices \X Nat /\ e[1] \in Known
    BY <1>2 DEF IInv, TypeOK, Searches, QueueSound
  <2>2. QED
    BY <1>2, <2>1
<1> HIDE DEF x
<1>4. Known' = Known /\ Settled' = Settled \cup {x} /\ x \notin Settled
  BY <1>1, <1>2, <1>3 DEF Known, Settled
<1>5. \A y \in Known \ Settled : dist_to[x] <= dist_to[y]
  BY <1>2, <1>3 DEF Settled
<1>6. \A y \in Settled : dist_to[y] <= dist_to[x]
  BY <1>3, <1>4 DEF IInv, Searches, SettledFirst
<1>7. TypeOK'
  <2>1. todo' \in SUBSET (Vertices \X Nat) /\ u' \in Vertices /\ pc' \in {"relax", "answer"}
    BY <1>2, <1>3, EdgesType DEF IInv, x
  <2>2. pq' \in SUBSET (Vertices \X Nat)
    BY <1>2 DEF IInv, TypeOK
  <2>3. QED
    BY <1>1, <1>4, <2>1, <2>2 DEF IInv, TypeOK
<1>8. Rooted' /\ QueueSound'
  BY <1>1, <1>2, <1>4 DEF IInv, Searches, Rooted, QueueSound
<1>9. SettledFirst'
  <2>1. ASSUME NEW y \in Settled', NEW z \in Known' \ Settled'
        PROVE  dist_to'[y] <= dist_to'[z]
    BY <1>1, <1>4, <1>5 DEF IInv, Searches, SettledFirst
  <2>2. ASSUME pc' = "relax"
        PROVE  /\ u' \in Settled' /\ todo' \subseteq ForwardEdges(edges', u')
               /\ \A y \in Settled' : dist_to'[y] <= dist_to'[u']
    <3>1. u' = x /\ todo' = ForwardEdges(edges, x)
      BY <1>2, <2>2 DEF x
    <3>2. QED
      BY <1>1, <1>3, <1>4, <1>6, <3>1
  <2>3. QED
    BY <2>1, <2>2 DEF SettledFirst
<1>10. SettledRelaxed'
  <2> SUFFICES ASSUME NEW y \in Settled' \ {to}, NEW f \in ForwardEdges(edges, y)
               PROVE  \/ pc' = "relax" /\ y = u' /\ f \in todo'
                      \/ f[1] \in Known' /\ dist_to'[f[1]] <= dist_to'[y] + f[2]
    BY <1>1 DEF SettledRelaxed
  <2>1. CASE y = x
    BY <1>2, <2>1 DEF x
  <2>2. CASE y # x
    BY <1>1, <1>4, <2>2 DEF IInv, Searches, SettledRelaxed
  <2>3. QED
    BY <2>1, <2>2
<1>11. GoalLast'
  BY <1>1, <1>2, <1>4 DEF IInv, Searches, GoalLast, x
<1>12. PreviousExact' /\ Acyclic'
  BY <1>1, <1>4 DEF IInv, Searches, PreviousExact, Acyclic
<1>13. Walked'
  BY <1>1, <1>2 DEF IInv, Searches, Walked
<1>14. QED
  BY <1>7, <1>8, <1>9, <1>10, <1>11, <1>12, <1>13 DEF IInv, Searches

-----------------------------------------------------------------------------
LEMMA RelaxInv ==
    ASSUME IInv, Relax
    PROVE  IInv'
<1> USE DEF query, search, answer
<1>1. /\ UNCHANGED <<edges, from, to, pc, u, prev, shortest_path, path_cost>>
      /\ pc = "relax"
  BY DEF Relax
<1>2. PICK edge \in todo :
        /\ todo' = todo \ {edge}
        /\ IF Improves(edge[1], dist_to[u] + edge[2])
           THEN /\ dist_to' = Put(dist_to, edge[1], dist_to[u] + edge[2])
                /\ pq' = pq \cup {<<edge[1], dist_to[u] + edge[2]>>}
                /\ previous_node' = Put(previous_node, edge[1], u)
           ELSE UNCHANGED search
  BY DEF Relax
<1> DEFINE v == edge[1]
           w == edge[2]
<1>3. /\ u \in Settled /\ u \in Known /\ dist_to[u] \in Nat /\ u \in Vertices
      /\ edge = <<v, w>> /\ v \in Vertices /\ w \in Nat
      /\ edge \in ForwardEdges(edges, u)
      /\ to \notin Settled /\ from # to
  <2>1. u \in Settled /\ todo \subseteq ForwardEdges(edges, u) /\ to \notin Settled /\ from # to
    BY <1>1 DEF IInv, Searches, SettledFirst, GoalLast, Rooted
  <2>2. u \in Known
    BY <2>1 DEF Settled
  <2>3. edge \in Vertices \X Nat
    BY <1>2 DEF IInv, TypeOK
  <2>4. QED
    BY <1>2, <2>1, <2>2, <2>3, EdgesType DEF IInv
<1> DEFINE length == dist_to[u] + w
<1>4. length \in Nat /\ dist_to[u] <= length
  BY <1>3
<1>5. \A x \in Settled : dist_to[x] \in Nat /\ dist_to[x] <= length
  <2>1. \A x \in Settled : dist_to[x] <= dist_to[u] /\ dist_to[x] \in Nat
    BY <1>1, EdgesType DEF IInv, Searches, SettledFirst, Settled
  <2> HIDE DEF length
  <2>2. QED
    BY <1>3, <1>4, <2>1
<1>6. CASE ~Improves(v, length)
  <2>1. UNCHANGED <<dist_to, previous_node, pq>> /\ todo' = todo \ {edge}
    BY <1>2, <1>6
  <2>2. /\ Known' = Known /\ Settled' = Settled /\ QueueSound' /\ PreviousExact' /\ Acyclic'
    BY <1>1, <2>1, SearchUntouched
  <2>3. v \in Known /\ dist_to[v] <= length
    <3>1. v \in Known /\ ~(length < dist_to[v])
      BY <1>6 DEF Improves, Known
    <3>2. dist_to[v] \in Nat
      BY <3>1, EdgesType DEF IInv
    <3> HIDE DEF v, length
    <3>3. QED
      BY <1>4, <3>1, <3>2
  <2>4. TypeOK'
    BY <1>1, <2>1, <2>2 DEF IInv, TypeOK
  <2>5. Rooted' /\ SettledFirst' /\ GoalLast' /\ Walked'
    BY <1>1, <2>1, <2>2 DEF IInv, Searches, Rooted, SettledFirst, GoalLast, Walked
  <2>6. SettledRelaxed'
    <3> SUFFICES ASSUME NEW y \in Settled \ {to}, NEW f \in ForwardEdges(edges, y)
                 PROVE  \/ y = u /\ f \in todo'
                        \/ f[1] \in Known /\ dist_to[f[1]] <= dist_to[y] + f[2]
      BY <1>1, <2>1, <2>2 DEF SettledRelaxed
    <3>1. CASE y = u /\ f = edge
      BY <1>3, <2>3, <3>1
    <3>2. CASE ~(y = u /\ f = edge)
      BY <2>1, <3>2 DEF IInv, Searches, SettledRelaxed
    <3>3. QED
      BY <3>1, <3>2
  <2>7. QED
    BY <2>2, <2>4, <2>5, <2>6 DEF IInv, Searches
<1>7. CASE Improves(v, length)
  <2>1. /\ dist_to' = Put(dist_to, v, length)
        /\ pq' = pq \cup {<<v, length>>}
        /\ previous_node' = Put(previous_node, v, u)
    BY <1>2, <1>7
  <2> HIDE DEF length, v, w
  <2>2. /\ Known' = Known \cup {v} /\ dist_to' \in [Known' -> Nat]
        /\ dist_to'[v] = length
        /\ \A x \in Known : x # v => dist_to'[x] = dist_to[x]
    <3>1. dist_to \in [Known -> Nat]
      BY DEF IInv, TypeOK
    <3>2. /\ dist_to' \in [Known \cup {v} -> Nat] /\ dist_to'[v] = length
          /\ \A x \in Known : x # v => dist_to'[x] = dist_to[x]
      <4>1. /\ Put(dist_to, v, length) \in [Known \cup {v} -> Nat]
            /\ Put(dist_to, v, length)[v] = length
            /\ \A x \in Known : x # v => Put(dist_to, v, length)[x] = dist_to[x]
        BY <1>4, <3>1 DEF Put
      <4>2. QED
        BY <2>1, <4>1, Zenon
    <3>3. Known' = Known \cup {v}
      BY <3>2 DEF Known
    <3>4. QED
      BY <3>2, <3>3
  <2>3. /\ DOMAIN previous_node' = DOMAIN previous_node \cup {v}
        /\ previous_node' \in [DOMAIN previous_node' -> Vertices]
        /\ previous_node'[v] = u
        /\ \A x \in DOMAIN previous_node : x # v => previous_node'[x] = previous_node[x]
    <3>1. previous_node \in [DOMAIN previous_node -> Vertices]
      BY DEF IInv, TypeOK
    <3>2. /\ previous_node' \in [DOMAIN previous_node \cup {v} -> Vertices]
          /\ previous_node'[v] = u
          /\ \A x \in DOMAIN previous_node : x # v => previous_node'[x] = previous_node[x]
      <4>1. /\ Put(previous_node, v, u) \in [DOMAIN previous_node \cup {v} -> Vertices]
            /\ Put(previous_node, v, u)[v] = u
            /\ \A x \in DOMAIN previous_node : x # v =>
                    Put(previous_node, v, u)[x] = previous_node[x]
        BY <1>3, <3>1 DEF Put
      <4>2. QED
        BY <2>1, <4>1, Zenon
    <3>3. QED
      BY <3>2
  <2>4. v \notin Settled /\ v # from
    <3>1. v \in Known => length < dist_to[v]
      BY <1>7 DEF Improves, Known
    <3>2. v \in Settled => v \in Known
      BY DEF Settled
    <3>3. from \in Known /\ dist_to[from] = 0
      BY <1>1, <1>3 DEF IInv, Searches, Rooted
    <3>4. QED
      BY <1>4, <1>5, <3>1, <3>2, <3>3
  <2>5. \A x \in Known : /\ dist_to'[x] \in Nat /\ dist_to[x] \in Nat /\ dist_to'[x] <= dist_to[x]
    <3>1. ASSUME NEW x \in Known
          PROVE  dist_to'[x] \in Nat /\ dist_to[x] \in Nat /\ dist_to'[x] <= dist_to[x]
      <4>1. dist_to[x] \in Nat
        BY EdgesType DEF IInv
      <4>2. x = v => length < dist_to[x]
        BY <1>7 DEF Improves, Known
      <4>3. QED
        BY <1>4, <2>2, <4>1, <4>2
    <3>2. QED
      BY <3>1
  <2>6. Settled' = Settled
    <3>1. \A x \in Known : x # v => (<<x, dist_to'[x]>> \in pq' <=> <<x, dist_to[x]>> \in pq)
      BY <2>1, <2>2
    <3>2. <<v, dist_to'[v]>> \in pq'
      BY <2>1, <2>2
    <3>3. QED
      BY <2>2, <2>4, <3>1, <3>2 DEF Settled
  <2>7. \A x \in Settled : x \in Known /\ dist_to'[x] = dist_to[x]
    BY <2>2, <2>4 DEF Settled
  <2>8. TypeOK'
    <3>1. pq' \in SUBSET (Vertices \X Nat)
      BY <1>3, <1>4, <2>1 DEF IInv, TypeOK
    <3>2. Known' \subseteq Vertices /\ DOMAIN previous_node' \subseteq Known'
      BY <1>3, <2>2, <2>3 DEF IInv, TypeOK
    <3>3. todo' \in SUBSET (Vertices \X Nat)
      BY <1>2 DEF IInv, TypeOK
    <3>4. QED
      BY <1>1, <2>2, <2>3, <3>1, <3>2, <3>3 DEF IInv, TypeOK
  <2>9. Rooted'
    BY <1>1, <1>3, <2>2, <2>4 DEF IInv, Searches, Rooted
  <2>10. QueueSound'
    <3> SUFFICES ASSUME NEW e \in pq'
                 PROVE  e[1] \in Known' /\ dist_to'[e[1]] <= e[2]
      BY DEF QueueSound
    <3>1. CASE e = <<v, length>>
      BY <1>4, <2>2, <3>1
    <3>2. CASE e \in pq
      <4>1. e[1] \in Known /\ dist_to[e[1]] <= e[2] /\ e[2] \in Nat
        BY <3>2 DEF IInv, Searches, QueueSound, TypeOK
      <4>2. QED
        BY <2>2, <2>5, <4>1
    <3>3. QED
      BY <2>1, <3>1, <3>2
  <2>11. SettledFirst'
    <3>1. ASSUME NEW x \in Settled, NEW y \in Known' \ Settled
          PROVE  dist_to'[x] <= dist_to'[y]
      <4>1. CASE y = v
        BY <1>5, <2>2, <2>7, <4>1
      <4>2. CASE y # v
        <5>1. y \in Known \ Settled /\ dist_to'[y] = dist_to[y]
          BY <2>2, <4>2
        <5>2. QED
          BY <2>7, <5>1 DEF IInv, Searches, SettledFirst
      <4>3. QED
        BY <4>1, <4>2
    <3>2. \A x \in Settled : dist_to'[x] <= dist_to'[u]
      BY <1>1, <1>3, <2>7 DEF IInv, Searches, SettledFirst
    <3>3. todo' \subseteq ForwardEdges(edges, u)
      BY <1>1, <1>2 DEF IInv, Searches, SettledFirst
    <3>4. QED
      BY <1>1, <1>3, <2>6, <3>1, <3>2, <3>3 DEF SettledFirst
  <2>12. SettledRelaxed'
    <3> SUFFICES ASSUME NEW y \in Settled \ {to}, NEW f \in ForwardEdges(edges, y)
                 PROVE  \/ y = u /\ f \in todo'
                        \/ f[1] \in Known' /\ dist_to'[f[1]] <= dist_to'[y] + f[2]
      BY <1>1, <2>6 DEF SettledRelaxed
    <3>1. CASE y = u /\ f = edge
      <4>1. f[1] = v /\ f[2] = w /\ length = dist_to[u] + w
        BY <1>3, <3>1 DEF v, w, length
      <4>2. QED
        BY <1>3, <1>4, <2>2, <2>7, <3>1, <4>1
    <3>2. CASE ~(y = u /\ f = edge)
      <4>1. \/ y = u /\ f \in todo
            \/ f[1] \in Known /\ dist_to[f[1]] <= dist_to[y] + f[2]
        BY DEF IInv, Searches, SettledRelaxed
      <4>2. y = u /\ f \in todo => f \in todo'
        BY <1>2, <3>2
      <4>3. CASE f[1] \in Known /\ dist_to[f[1]] <= dist_to[y] + f[2]
        <5>1. /\ dist_to'[f[1]] \in Nat /\ dist_to[f[1]] \in Nat
              /\ dist_to'[f[1]] <= dist_to[f[1]]
          BY <2>5, <4>3
        <5>2. f[2] \in Nat /\ dist_to[y] \in Nat /\ dist_to'[y] = dist_to[y]
          <6>1. f \in Vertices \X Nat
            BY EdgesType DEF IInv
          <6>2. QED
            BY <1>5, <2>7, <6>1
        <5>3. f[1] \in Known'
          BY <2>2, <4>3
        <5> DEFINE p == dist_to'[f[1]]
                   q == dist_to[f[1]]
                   r == dist_to[y]
                   s == f[2]
        <5> HIDE DEF p, q, r, s
        <5>4. p \in Nat /\ q \in Nat /\ r \in Nat /\ s \in Nat /\ p <= q /\ q <= r + s
          BY <4>3, <5>1, <5>2 DEF p, q, r, s
        <5>5. p <= r + s
          BY <5>4
        <5>6. QED
          BY <5>2, <5>3, <5>5 DEF p, r, s
      <4>4. QED
        BY <4>1, <4>2, <4>3
    <3>3. QED
      BY <3>1, <3>2
  <2>13. GoalLast' /\ Walked'
    BY <1>1, <1>3, <2>6 DEF IInv, Searches, GoalLast, Walked
  <2>14. PreviousExact'
    <3> SUFFICES ASSUME NEW x \in Known' \ {from}
                 PROVE  /\ x \in DOMAIN previous_node'
                        /\ previous_node'[x] \in Settled
                        /\ <<x, dist_to'[x] - dist_to'[previous_node'[x]]>>
                                \in ForwardEdges(edges, previous_node'[x])
      <4>1. edges' = edges /\ from' = from
        BY <1>1
      <4>2. QED
        BY <2>6, <4>1, Zenon DEF PreviousExact
    <3>1. CASE x = v
      <4>1. previous_node'[x] = u /\ dist_to'[x] = length /\ dist_to'[u] = dist_to[u]
        BY <1>3, <2>2, <2>3, <2>7, <3>1
      <4>2. length - dist_to[u] = w
        BY <1>3 DEF length
      <4>3. QED
        BY <1>3, <2>3, <3>1, <4>1, <4>2
    <3>2. CASE x # v
      <4>1. x \in Known \ {from}
        BY <2>2, <3>2
      <4>2. /\ x \in DOMAIN previous_node /\ previous_node[x] \in Settled
            /\ <<x, dist_to[x] - dist_to[previous_node[x]]>>
                    \in ForwardEdges(edges, previous_node[x])
        BY <4>1 DEF IInv, Searches, PreviousExact
      <4>3. previous_node'[x] = previous_node[x] /\ dist_to'[x] = dist_to[x]
        BY <2>2, <2>3, <3>2, <4>1, <4>2
      <4>4. dist_to'[previous_node[x]] = dist_to[previous_node[x]]
        BY <2>7, <4>2
      <4>5. QED
        BY <2>3, <4>2, <4>3, <4>4
    <3>3. QED
      BY <3>1, <3>2
  <2>15. Acyclic'
    <3> SUFFICES ASSUME NEW S \in SUBSET (Known' \ {from}), S # {}
                 PROVE  \E x \in S : previous_node'[x] \notin S
      BY <1>1 DEF Acyclic
    <3>1. \A x \in Known \ {from} : /\ x \in DOMAIN previous_node
                                    /\ previous_node[x] \in Settled
      BY DEF IInv, Searches, PreviousExact
    <3>2. CASE S = {v}
      BY <1>3, <2>3, <2>4, <3>2
    <3>3. CASE S # {v}
      <4>1. S \ {v} \in SUBSET (Known \ {from}) /\ S \ {v} # {}
        BY <2>2, <3>3
      <4>2. PICK x \in S \ {v} : previous_node[x] \notin S \ {v}
        BY <4>1 DEF IInv, Searches, Acyclic
      <4>3. previous_node[x] # v /\ previous_node'[x] = previous_node[x]
        BY <2>3, <2>4, <3>1, <4>1, <4>2
      <4>4. QED
        BY <4>2, <4>3
    <3>4. QED
      BY <3>2, <3>3
  <2>16. QED
    BY <2>8, <2>9, <2>10, <2>11, <2>12, <2>13, <2>14, <2>15 DEF IInv, Searches
<1>8. QED
  BY <1>6, <1>7

-----------------------------------------------------------------------------
LEMMA ReverseTwice ==
    ASSUME NEW V, NEW s \in Seq(V)
    PROVE  /\ Reverse(s) \in Seq(V) /\ Len(Reverse(s)) = Len(s)
           /\ \A i \in 1 .. Len(s) : Reverse(s)[i] = s[Len(s) + 1 - i]
           /\ Reverse(Reverse(s)) = s
<1> DEFINE n == Len(s)
           r == Reverse(s)
           b == Reverse(r)
<1>1. n \in Nat /\ \A i \in 1 .. n : s[i] \in V
  OBVIOUS
<1>2. /\ r \in Seq(V) /\ Len(r) = n /\ \A i \in 1 .. n : r[i] = s[n + 1 - i]
  BY DEF Reverse
<1>3. s = [i \in 1 .. n |-> s[i]]
  OBVIOUS
<1> HIDE DEF n, r
<1>4. b = [i \in 1 .. n |-> r[(n - i) + 1]]
  BY <1>2 DEF Reverse
<1>5. \A i \in 1 .. n : r[(n - i) + 1] = s[i]
  <2>1. ASSUME NEW i \in 1 .. n PROVE r[(n - i) + 1] = s[i]
    <3> DEFINE j == (n - i) + 1
    <3>1. j \in 1 .. n /\ n + 1 - j = i
      BY <1>1
    <3> HIDE DEF j
    <3>2. r[j] = s[i]
      BY <1>2, <3>1
    <3>3. QED
      BY <3>2 DEF j
  <2>2. QED
    BY <2>1
<1>6. b = s
  BY <1>3, <1>4, <1>5
<1>7. QED
  BY <1>2, <1>6 DEF r, n

LEMMA StartTraceInv ==
    ASSUME IInv, StartTrace
    PROVE  IInv'
<1> USE DEF StartTrace, query, search
<1>1. /\ UNCHANGED <<edges, from, to, dist_to, previous_node, pq, u, todo>>
      /\ pc = "answer" /\ pc' = "trace" /\ to \in Known
      /\ shortest_path' = <<to>> /\ path_cost' = dist_to[to] /\ prev' = to
  BY DEF Known
<1>2. /\ Known' = Known /\ Settled' = Settled /\ QueueSound' /\ PreviousExact' /\ Acyclic'
      /\ \A s : IsWay(s)' <=> IsWay(s)
  BY <1>1, SearchUntouched
<1>3. to \in Vertices /\ dist_to[to] \in Nat /\ from # to
  BY <1>1, EdgesType DEF IInv, Searches, Rooted
<1>4. TypeOK'
  BY <1>1, <1>2, <1>3 DEF IInv, TypeOK
<1>5. Rooted' /\ SettledFirst' /\ SettledRelaxed' /\ GoalLast'
  BY <1>1, <1>2, <1>3 DEF IInv, Searches, Rooted, SettledFirst, SettledRelaxed, GoalLast
<1>6. IsWay(<<to>>)
  BY <1>1 DEF IsWay, IsInjective
<1>7. Walked'
  <2>1. IsWay(shortest_path')
    BY <1>1, <1>6
  <2>2. IsWay(shortest_path)'
    BY <1>1, <2>1 DEF IsWay, Known
  <2>3. Last(<<to>>) = to
    BY DEF Last
  <2>4. QED
    BY <1>1, <1>3, <2>2, <2>3 DEF Walked
<1>8. QED
  BY <1>2, <1>4, <1>5, <1>7 DEF IInv, Searches

(* The cursor steps to a vertex that is not on the way yet, or else the    *)
(* previous vertices would lead round in a circle.                         *)
LEMMA NextOnTheWay ==
    ASSUME IInv, pc = "trace", NEW y, y = previous_node[prev]
    PROVE  /\ y \in Known /\ y \in Vertices /\ IsWay(Append(shortest_path, y))
           /\ Append(shortest_path, y) \in Seq(Vertices)
           /\ Last(Append(shortest_path, y)) = y
<1> DEFINE way == shortest_path
           n == Len(way)
           new == Append(way, y)
<1>1. /\ IsWay(way) /\ prev = Last(way) /\ prev # from /\ way \in Seq(Vertices)
  BY DEF IInv, TypeOK, Searches, Walked
<1>2. /\ n \in Nat \ {0} /\ prev = way[n] /\ way[1] = to /\ IsInjective(way)
      /\ \A i \in 1 .. n : way[i] \in Known
      /\ \A i \in 1 .. n - 1 : way[i] # from /\ way[i + 1] = previous_node[way[i]]
  BY <1>1 DEF IsWay, Last
<1>3. prev \in Known \ {from}
  BY <1>1, <1>2
<1>4. y \in Settled /\ y \in Known
  BY <1>3 DEF IInv, Searches, PreviousExact, Settled
<1>5. y \in Vertices
  BY <1>4, EdgesType DEF IInv
<1>6. ASSUME NEW j \in 1 .. n, way[j] = y
      PROVE  FALSE
  <2> HIDE DEF way, n
  <2> DEFINE S == {way[i] : i \in j .. n}
  <2>1. j \in Nat /\ j <= n
    BY <1>2
  <2>2. S \in SUBSET (Known \ {from})
    <3>1. ASSUME NEW i \in j .. n
          PROVE  way[i] \in Known \ {from}
      <4>1. i \in 1 .. n /\ (i = n \/ i \in 1 .. n - 1)
        BY <1>2, <2>1
      <4>2. QED
        BY <1>2, <1>3, <4>1
    <3>2. QED
      BY <3>1
  <2>3. way[n] \in S /\ way[j] \in S
    BY <1>2, <2>1
  <2>4. PICK x \in S : previous_node[x] \notin S
    BY <2>2, <2>3 DEF IInv, Searches, Acyclic
  <2>5. PICK i \in j .. n : x = way[i]
    OBVIOUS
  <2>6. CASE i = n
    BY <1>2, <1>6, <2>3, <2>4, <2>5, <2>6
  <2>7. CASE i < n
    <3>1. i \in 1 .. n - 1 /\ i + 1 \in j .. n
      BY <1>2, <2>1, <2>7
    <3>2. way[i + 1] \in S
      BY <3>1
    <3>3. way[i + 1] = previous_node[way[i]]
      BY <1>2, <3>1
    <3>4. QED
      BY <2>4, <2>5, <3>2, <3>3
  <2>8. QED
    BY <1>2, <2>1, <2>6, <2>7
<1>7. y \notin Range(way)
  <2>1. DOMAIN way = 1 .. n
    BY <1>1
  <2> HIDE DEF way, n
  <2>2. QED
    BY <1>6, <2>1 DEF Range
<1>8. IsInjective(new)
  BY <1>1, <1>2, <1>5, <1>7, AddedOnce
<1>9. /\ new \in Seq(Vertices) /\ Len(new) = n + 1 /\ new[n + 1] = y
      /\ \A i \in 1 .. n : new[i] = way[i]
  BY <1>1, <1>5
<1> HIDE DEF way, n, new
<1>10. \A i \in 1 .. n + 1 : new[i] \in Known
  BY <1>2, <1>4, <1>9
<1>11. ASSUME NEW i \in 1 .. n
       PROVE  new[i] # from /\ new[i + 1] = previous_node[new[i]]
  <2>1. CASE i = n
    BY <1>2, <1>3, <1>9, <2>1
  <2>2. CASE i # n
    <3>1. i \in 1 .. n - 1 /\ i + 1 \in 1 .. n
      BY <1>2, <2>2
    <3>2. QED
      BY <1>2, <1>9, <3>1
  <2>3. QED
    BY <2>1, <2>2
<1>12. IsWay(new) /\ Last(new) = y
  <2>1. n + 1 > 0 /\ (n + 1) - 1 = n /\ 1 \in 1 .. n
    BY <1>2
  <2>2. new[1] = to
    BY <1>2, <1>9, <2>1
  <2>3. QED
    BY <1>8, <1>9, <1>10, <1>11, <2>1, <2>2 DEF IsWay, Last
<1>13. QED
  BY <1>4, <1>5, <1>9, <1>12 DEF new, way

LEMMA TraceInv ==
    ASSUME IInv, Trace
    PROVE  IInv'
<1> USE DEF Trace, query, search
<1>1. /\ UNCHANGED <<edges, from, to, dist_to, previous_node, pq, u, todo, path_cost>>
      /\ pc = "trace" /\ prev' = previous_node[prev]
  OBVIOUS
<1>2. /\ Known' = Known /\ Settled' = Settled /\ QueueSound' /\ PreviousExact' /\ Acyclic'
      /\ \A s : IsWay(s)' <=> IsWay(s)
  BY <1>1, SearchUntouched
<1>3. PICK y, new : y = previous_node[prev] /\ new = Append(shortest_path, y)
  OBVIOUS
<1>4. /\ y \in Known /\ y \in Vertices /\ IsWay(new) /\ new \in Seq(Vertices) /\ Last(new) = y
  BY <1>1, <1>3, NextOnTheWay
<1>5. /\ from # to /\ to \in Known /\ path_cost = dist_to[to] /\ dist_to[to] \in Nat
  <2>1. from # to /\ path_cost = dist_to[to] /\ IsWay(shortest_path)
    BY <1>1 DEF IInv, Searches, Rooted, Walked
  <2>2. to \in Known
    BY <2>1 DEF IsWay, IInv, TypeOK
  <2>3. QED
    BY <2>1, <2>2, EdgesType DEF IInv
<1>6. CASE y # from
  <2>1. shortest_path' = new /\ pc' = "trace" /\ prev' = y
    BY <1>1, <1>3, <1>6
  <2>2. TypeOK'
    BY <1>1, <1>2, <1>4, <2>1 DEF IInv, TypeOK
  <2>3. IsWay(shortest_path)'
    BY <1>2, <1>4, <2>1 DEF IsWay, Known
  <2>4. Walked'
    BY <1>1, <1>4, <1>5, <1>6, <2>1, <2>3 DEF Walked
  <2>5. Rooted' /\ SettledFirst' /\ SettledRelaxed' /\ GoalLast'
    BY <1>1, <1>2, <1>5, <2>1 DEF IInv, Searches, Rooted, SettledFirst, SettledRelaxed, GoalLast
  <2>6. QED
    BY <1>2, <2>2, <2>4, <2>5 DEF IInv, Searches
<1>7. CASE y = from
  <2>1. shortest_path' = Reverse(new) /\ pc' = "done" /\ prev' = y
    BY <1>1, <1>3, <1>7 DEF InOrder
  <2>2. Reverse(new) \in Seq(Vertices) /\ Reverse(Reverse(new)) = new
    BY <1>4, ReverseTwice
  <2>3. TypeOK'
    BY <1>1, <1>2, <1>4, <1>5, <2>1, <2>2, UnsetAssumption DEF IInv, TypeOK
  <2>4. Reverse(shortest_path') = new
    BY <2>1, <2>2
  <2>5. IsWay(Reverse(shortest_path))'
    BY <1>1, <1>2, <1>4, <2>4 DEF IsWay, Known
  <2>6. Walked'
    BY <1>1, <1>2, <1>4, <1>5, <1>7, <2>1, <2>4, <2>5 DEF Walked
  <2>7. Rooted' /\ SettledFirst' /\ SettledRelaxed' /\ GoalLast'
    BY <1>1, <1>2, <1>5, <2>1 DEF IInv, Searches, Rooted, SettledFirst, SettledRelaxed, GoalLast
  <2>8. QED
    BY <1>2, <2>3, <2>6, <2>7 DEF IInv, Searches
<1>8. QED
  BY <1>6, <1>7

LEMMA NextInv == IInv /\ [Next]_vars => IInv'
<1> SUFFICES ASSUME IInv, [Next]_vars PROVE IInv'
  OBVIOUS
<1>1. CASE UNCHANGED vars
  <2>1. /\ Known' = Known /\ Settled' = Settled /\ QueueSound' /\ PreviousExact' /\ Acyclic'
    BY <1>1, SearchUntouched DEF vars
  <2>2. TypeOK' /\ Rooted' /\ SettledFirst' /\ SettledRelaxed' /\ GoalLast'
    BY <1>1, <2>1 DEF vars, query, search, answer, IInv, TypeOK, Searches, Rooted,
       SettledFirst, SettledRelaxed, GoalLast
  <2>3. Walked'
    BY <1>1, <2>1 DEF vars, query, search, answer, IInv, Searches, Walked, IsWay
  <2>4. QED
    BY <2>1, <2>2, <2>3 DEF IInv, Searches
<1>2. QED
  BY <1>1, SameVertexInv, StartInv, PopStaleInv, SettleInv, PhaseInv, RelaxInv, StartTraceInv,
     TraceInv DEF Next, Step, Returned

(* The inductive invariant holds of every behaviour.                       *)
THEOREM Invariant == Spec => []IInv
BY InitInv, NextInv, PTL DEF Spec

(* The maps, the queue, the cursor, the route and the cost have their      *)
(* types in every graph, and the cost is set whenever the function returns. *)
THEOREM TypeCorrect == Spec => []TypeOK
<1>1. IInv => TypeOK
  BY DEF IInv
<1>2. QED
  BY <1>1, Invariant, PTL

(* What the search and the walk back over previous_node rest on holds in   *)
(* every graph, free edges and ties included.                              *)
THEOREM SearchCorrect == Spec => []SearchInv
<1>1. IInv => SearchInv
  BY DEF IInv, Searches, SearchInv
<1>2. QED
  BY <1>1, Invariant, PTL

(* When the function returns no walk to the goal is cheaper than what was  *)
(* found: it would leave the settled vertices at some point, and from      *)
(* there on it cannot cost less than the goal does.                        *)
LEMMA NoCheaper ==
    ASSUME IInv, pc = "done", from # to,
           NEW k \in [at : Seq(Vertices), cost : Seq(Nat)], IsPricedWalk(edges, k, from, to)
    PROVE  to \in Known /\ dist_to[to] <= k.cost[Len(k.cost)]
<1> DEFINE n == Len(k.at)
           Inner == Settled \ {to}
           Reached == {i \in 1 .. n : k.at[i] \in Known /\ dist_to[k.at[i]] <= k.cost[i]}
           Left == {i \in 1 .. n : k.at[i] \notin Inner}
<1>1. /\ edges \subseteq Vertices \X Vertices \X Nat
      /\ \A x, y, w : <<y, w>> \in ForwardEdges(edges, x) <=> <<x, y, w>> \in edges
      /\ \A x \in Known : dist_to[x] \in Nat
  BY EdgesType DEF IInv
<1>2. /\ n \in Nat \ {0} /\ Len(k.cost) = n
      /\ k.at[1] = from /\ k.at[n] = to /\ k.cost[1] = 0
      /\ \A i \in 1 .. n : k.at[i] \in Vertices /\ k.cost[i] \in Nat
      /\ \A i \in 1 .. n - 1 :
            <<k.at[i], k.at[i + 1], k.cost[i + 1] - k.cost[i]>> \in edges
  <2>1. edges \subseteq Vertices \X Vertices \X Nat
    BY <1>1
  <2>2. /\ Len(k.at) \in Nat \ {0} /\ Len(k.cost) = Len(k.at)
        /\ k.at[1] = from /\ k.at[Len(k.at)] = to /\ k.cost[1] = 0
        /\ \A i \in 1 .. Len(k.at) : k.at[i] \in Vertices /\ k.cost[i] \in Nat
        /\ \A i \in 1 .. Len(k.at) - 1 :
            /\ k.cost[i] <= k.cost[i + 1]
            /\ k.cost[i + 1] - k.cost[i] \in Nat
            /\ <<k.at[i], k.at[i + 1], k.cost[i + 1] - k.cost[i]>> \in edges
    BY <2>1, PricedFacts
  <2>3. QED
    BY <2>2
<1>3. from \in Known /\ dist_to[from] = 0
  BY DEF IInv, Searches, Rooted
<1>4. \A i \in 1 .. n - 1 : i \in Reached /\ k.at[i] \in Inner => i + 1 \in Reached
  <2> SUFFICES ASSUME NEW i \in 1 .. n - 1, i \in Reached, k.at[i] \in Inner
               PROVE  i + 1 \in Reached
    OBVIOUS
  <2> DEFINE x == k.at[i]
             y == k.at[i + 1]
             a == k.cost[i]
             b == k.cost[i + 1]
  <2>1. i + 1 \in 1 .. n /\ i \in 1 .. n
    BY <1>2
  <2>2. <<x, y, b - a>> \in edges /\ a \in Nat /\ b \in Nat
    BY <1>2, <2>1
  <2>3. <<y, b - a>> \in ForwardEdges(edges, x)
    BY <1>1, <2>2
  <2>4. x \in Settled \ {to} /\ x \in Known /\ dist_to[x] <= a
    OBVIOUS
  <2>5. y \in Known /\ dist_to[y] <= dist_to[x] + (b - a)
    BY <2>3, <2>4 DEF IInv, Searches, SettledRelaxed
  <2>6. dist_to[x] \in Nat /\ dist_to[y] \in Nat
    BY <1>1, <2>4, <2>5
  <2>7. y \in Known /\ dist_to[y] <= b
    <3> DEFINE dx == dist_to[x]
               dy == dist_to[y]
    <3>1. a \in Nat /\ b \in Nat /\ dx \in Nat /\ dy \in Nat /\ dx <= a /\ dy <= dx + (b - a)
      BY <2>2, <2>4, <2>5, <2>6
    <3> HIDE DEF a, b, dx, dy
    <3>2. dy <= b
      BY <3>1
    <3>3. QED
      BY <2>5, <3>2 DEF dy
  <2>8. QED
    BY <2>1, <2>7
<1>5. Left \subseteq Nat /\ n \in Left
  BY <1>2
<1>6. PICK m \in Left : \A i \in Left : m <= i
  BY <1>5, LeastNatural
<1>7. m \in 1 .. n /\ k.at[m] \notin Inner
  BY <1>6
<1>8. \A i \in 1 .. m - 1 : k.at[i] \in Inner
  <2> SUFFICES ASSUME NEW i \in 1 .. m - 1, k.at[i] \notin Inner PROVE FALSE
    OBVIOUS
  <2>1. i \in 1 .. n /\ ~(m <= i)
    BY <1>2, <1>7
  <2>2. i \in Left
    BY <2>1
  <2>3. QED
    BY <1>6, <2>1, <2>2
<1>9. \A i \in 1 .. m : i \in Reached
  <2>1. 1 \in Reached
    BY <1>2, <1>3
  <2>2. \A i \in 1 .. m - 1 : i \in Reached => i + 1 \in Reached
    BY <1>2, <1>4, <1>7, <1>8
  <2> HIDE DEF Reached
  <2>3. m \in Nat
    BY <1>2, <1>7
  <2>4. QED
    BY <2>1, <2>2, <2>3, UpTo
<1> DEFINE z == k.at[m]
<1>10. z \in Known /\ dist_to[z] <= k.cost[m]
  <2>1. m \in 1 .. m
    BY <1>2, <1>7
  <2>2. m \in Reached
    BY <1>9, <2>1
  <2>3. QED
    BY <2>2
<1>11. k.cost[m] <= k.cost[n]
  <2>1. n \in 1 .. n /\ m <= n
    BY <1>2, <1>7
  <2>2. QED
    BY <1>1, <1>7, <2>1, PricesGrow
<1>12. k.cost[m] \in Nat /\ k.cost[n] \in Nat /\ dist_to[z] \in Nat
  BY <1>1, <1>2, <1>7, <1>10
<1>13. to \in Known /\ dist_to[to] <= dist_to[z]
  <2>1. CASE z = to
    BY <1>10, <1>12, <2>1
  <2>2. CASE z # to
    <3>1. z \notin Settled
      BY <1>7, <2>2
    <3>2. to \in Settled
      BY <1>10, <3>1 DEF IInv, Searches, GoalLast
    <3>3. to \in Known
      BY <3>2 DEF Settled
    <3>4. QED
      BY <1>10, <3>1, <3>2, <3>3 DEF IInv, Searches, SettledFirst
  <2>3. QED
    BY <2>1, <2>2
<1>14. dist_to[to] \in Nat
  BY <1>1, <1>13
<1>15. QED
  <2> HIDE DEF z
  <2>1. dist_to[to] <= k.cost[n]
    BY <1>10, <1>11, <1>12, <1>13, <1>14
  <2>2. QED
    BY <1>2, <1>13, <2>1

(* The route read off previous_node is a walk that repeats no vertex, and  *)
(* the distances of its vertices are what it costs to get to each of them. *)
LEMMA RoutePriced ==
    ASSUME IInv, pc = "done", from # to, to \in Known
    PROVE  \E k \in [at : Seq(Vertices), cost : Seq(Nat)] :
             /\ IsPricedWalk(edges, k, from, to)
             /\ k.at = shortest_path /\ IsInjective(k.at)
             /\ k.cost[Len(k.cost)] = dist_to[to]
<1> DEFINE r == shortest_path
           w == Reverse(r)
           n == Len(r)
           q == [i \in 1 .. n |-> dist_to[r[i]]]
           k == [at |-> r, cost |-> q]
<1>1. /\ \A x, y, c : <<y, c>> \in ForwardEdges(edges, x) <=> <<x, y, c>> \in edges
      /\ \A x \in Known : dist_to[x] \in Nat
  BY EdgesType DEF IInv
<1>2. r \in Seq(Vertices) /\ n \in Nat
  BY DEF IInv, TypeOK
<1>3. IsWay(w) /\ Last(w) = from
  BY DEF IInv, Searches, Walked
<1>4. w \in Seq(Vertices) /\ Len(w) = n /\ \A i \in 1 .. n : w[i] = r[n + 1 - i]
  BY <1>2, ReverseTwice
<1>5. /\ n > 0 /\ w[1] = to /\ w[n] = from
      /\ \A i, j \in 1 .. n : w[i] = w[j] => i = j
      /\ \A i \in 1 .. n : w[i] \in Known
      /\ \A i \in 1 .. n - 1 : w[i] # from /\ w[i + 1] = previous_node[w[i]]
  BY <1>2, <1>3, <1>4 DEF IsWay, Last, IsInjective
<1>6. \A i \in 1 .. n : r[i] = w[n + 1 - i]
  <2> SUFFICES ASSUME NEW i \in 1 .. n PROVE r[i] = w[n + 1 - i]
    OBVIOUS
  <2> HIDE DEF w, n
  <2>1. n + 1 - i \in 1 .. n /\ n + 1 - (n + 1 - i) = i
    BY <1>2
  <2>2. QED
    BY <1>4, <2>1
<1>7. r[1] = from /\ r[n] = to
  <2> HIDE DEF w, n
  <2>1. 1 \in 1 .. n /\ n \in 1 .. n /\ n + 1 - 1 = n /\ n + 1 - n = 1
    BY <1>2, <1>5
  <2>2. QED
    BY <1>5, <1>6, <2>1
<1>8. \A i \in 1 .. n : r[i] \in Known
  <2> HIDE DEF w, n
  <2>1. \A i \in 1 .. n : n + 1 - i \in 1 .. n
    BY <1>2
  <2>2. QED
    BY <1>5, <1>6, <2>1
<1>9. IsInjective(r)
  <2> SUFFICES ASSUME NEW i \in 1 .. n, NEW j \in 1 .. n, r[i] = r[j] PROVE i = j
    BY <1>2 DEF IsInjective
  <2> HIDE DEF w, n
  <2>1. n + 1 - i \in 1 .. n /\ n + 1 - j \in 1 .. n
    BY <1>2
  <2>2. n + 1 - i = n + 1 - j
    BY <1>5, <1>6, <2>1
  <2>3. QED
    BY <1>2, <2>2
<1>10. \A i \in 1 .. n - 1 : <<r[i], r[i + 1], dist_to[r[i + 1]] - dist_to[r[i]]>> \in edges
  <2> SUFFICES ASSUME NEW i \in 1 .. n - 1
               PROVE  <<r[i], r[i + 1], dist_to[r[i + 1]] - dist_to[r[i]]>> \in edges
    OBVIOUS
  <2> DEFINE j == n - i
  <2> HIDE DEF w, n
  <2>1. /\ j \in 1 .. n - 1 /\ n + 1 - (i + 1) = j /\ n + 1 - i = j + 1
        /\ i \in 1 .. n /\ i + 1 \in 1 .. n
    BY <1>2
  <2>2. r[i + 1] = w[j] /\ r[i] = w[j + 1]
    BY <1>6, <2>1
  <2>3. r[i + 1] # from /\ r[i] = previous_node[r[i + 1]]
    BY <1>5, <2>1, <2>2
  <2>4. r[i + 1] \in Known \ {from}
    BY <1>8, <2>1, <2>3
  <2>5. <<r[i + 1], dist_to[r[i + 1]] - dist_to[r[i]]>> \in ForwardEdges(edges, r[i])
    BY <2>3, <2>4 DEF IInv, Searches, PreviousExact
  <2>6. QED
    BY <1>1, <2>5
<1>11. q \in Seq(Nat) /\ Len(q) = n /\ \A i \in 1 .. n : q[i] = dist_to[r[i]]
  BY <1>1, <1>2, <1>8
<1>12. q[1] = 0 /\ q[n] = dist_to[to]
  <2>1. dist_to[from] = 0
    BY DEF IInv, Searches, Rooted
  <2>2. QED
    BY <1>2, <1>5, <1>7, <1>11, <2>1
<1>13. \A i \in 1 .. n - 1 : <<r[i], r[i + 1], q[i + 1] - q[i]>> \in edges
  <2> HIDE DEF n, q
  <2>1. \A i \in 1 .. n - 1 : i \in 1 .. n /\ i + 1 \in 1 .. n
    BY <1>2
  <2>2. QED
    BY <1>10, <1>11, <2>1
<1>14. k \in [at : Seq(Vertices), cost : Seq(Nat)] /\ k.at = r /\ k.cost = q
  BY <1>2, <1>11
<1> HIDE DEF k, q
<1>15. IsPricedWalk(edges, k, from, to)
  BY <1>5, <1>7, <1>11, <1>12, <1>13, <1>14 DEF IsPricedWalk
<1>16. QED
  BY <1>9, <1>11, <1>12, <1>14, <1>15

(* An answer is right when the function returns: a walk of least cost with *)
(* that cost, or the float maximum and no route when there is no walk.     *)
Right ==
    \/ /\ path_cost # Infinity
       /\ IsWalk(edges, shortest_path, from, to)
       /\ IsInjective(shortest_path)
       /\ WalkCost(edges, shortest_path) = path_cost
       /\ path_cost = ShortestCost(Vertices, edges, from, to)
    \/ /\ ShortestCost(Vertices, edges, from, to) = Infinity
       /\ path_cost = Infinity
       /\ shortest_path = <<>>

RightAtLast == pc = "done" => Right

LEMMA AnswerRight == IInv => RightAtLast
<1> SUFFICES ASSUME IInv, pc = "done" PROVE Right
  BY DEF RightAtLast
<1>1. edges \subseteq Vertices \X Vertices \X Nat /\ from \in Vertices /\ to \in Vertices
  BY EdgesType DEF IInv
<1>2. CASE from = to
  <2>1. shortest_path = <<from>> /\ path_cost = 0
    BY <1>2 DEF IInv, Searches, Walked
  <2>2. IsInjective(shortest_path)
    BY <2>1 DEF IsInjective
  <2>3. QED
    BY <1>1, <1>2, <2>1, <2>2, StayingIsFree, VerticesAssumption, InfinityAssumption DEF Right
<1>3. CASE from # to /\ to \in Known
  <2> DEFINE c == dist_to[to]
  <2>1. path_cost = c /\ c \in Nat
    BY <1>3, EdgesType DEF IInv, Searches, Walked
  <2>2. PICK k \in [at : Seq(Vertices), cost : Seq(Nat)] :
             /\ IsPricedWalk(edges, k, from, to)
             /\ k.at = shortest_path /\ IsInjective(k.at)
             /\ k.cost[Len(k.cost)] = c
    BY <1>3, RoutePriced
  <2>3. \A l \in [at : Seq(Vertices), cost : Seq(Nat)] :
            IsPricedWalk(edges, l, from, to) => c <= l.cost[Len(l.cost)]
    BY <1>3, NoCheaper
  <2> HIDE DEF c
  <2>4. /\ IsWalk(edges, k.at, from, to) /\ WalkCost(edges, k.at) = c
        /\ ShortestCost(Vertices, edges, from, to) = c
    BY <1>1, <2>1, <2>2, <2>3, CheapestRoute, VerticesAssumption
  <2>5. QED
    BY <2>1, <2>2, <2>4, InfinityAssumption DEF Right
<1>4. CASE from # to /\ to \notin Known
  <2>1. shortest_path = <<>> /\ path_cost = Infinity
    BY <1>4 DEF IInv, Searches, Walked
  <2>2. \A l \in [at : Seq(Vertices), cost : Seq(Nat)] : ~IsPricedWalk(edges, l, from, to)
    BY <1>4, NoCheaper
  <2>3. ShortestCost(Vertices, edges, from, to) = Infinity
    BY <1>1, <2>2, NoRouteAtAll, VerticesAssumption
  <2>4. QED
    BY <2>1, <2>3 DEF Right
<1>5. QED
  BY <1>2, <1>3, <1>4

LEMMA AnswerRightNext == IInv' => RightAtLast'
BY AnswerRight, PTL

(* The promise speaks of the same walks and costs.                         *)
LEMMA SameReference ==
    /\ \A E, p, s, t : Promise!IsWalk(E, p, s, t) <=> IsWalk(E, p, s, t)
    /\ \A E, p : Promise!WalkCost(E, p) = WalkCost(E, p)
    /\ \A V, E, s, t : Promise!ShortestCost(V, E, s, t) = ShortestCost(V, E, s, t)
    /\ \A p : Promise!IsInjective(p) <=> IsInjective(p)
<1>1. \A E, x, y : Promise!Weights(E, x, y) = Weights(E, x, y)
  BY DEF Weights, Promise!Weights
<1>2. \A S : Promise!Least(S) = Least(S)
  BY DEF Least, Promise!Least
<1>3. \A E, p : Promise!CostsAlong(E, p) = CostsAlong(E, p)
  BY <1>1, <1>2 DEF CostsAlong, Promise!CostsAlong
<1>4. \A E, p : Promise!WalkCost(E, p) = WalkCost(E, p)
  BY <1>3 DEF WalkCost, Promise!WalkCost
<1>5. \A E, p, s, t : Promise!IsWalk(E, p, s, t) <=> IsWalk(E, p, s, t)
  BY <1>1 DEF IsWalk, Promise!IsWalk
<1>6. \A V : Promise!Cardinality(V) = Cardinality(V)
  BY DEF Cardinality, Promise!Cardinality
<1>7. \A V, E, s : Promise!SimpleWalksFrom(V, E, s) = SimpleWalksFrom(V, E, s)
  BY <1>6 DEF SimpleWalksFrom, Promise!SimpleWalksFrom, Longer, Promise!Longer, Onward,
     Promise!Onward, Weights, Promise!Weights, Range, Promise!Range
<1>8. \A V, E, s, t : Promise!SimpleWalks(V, E, s, t) = SimpleWalks(V, E, s, t)
  BY <1>6, <1>7 DEF SimpleWalks, Promise!SimpleWalks
<1>9. \A V, E, s, t : Promise!ShortestCost(V, E, s, t) = ShortestCost(V, E, s, t)
  BY <1>2, <1>4, <1>8 DEF ShortestCost, Promise!ShortestCost
<1>10. \A p : Promise!IsInjective(p) <=> IsInjective(p)
  BY DEF IsInjective, Promise!IsInjective
<1>11. QED
  BY <1>4, <1>5, <1>9, <1>10

(* A step of the search is a step of the promise, or none it can see.      *)
LEMMA PromiseStep ==
    ASSUME IInv', [Next]_vars
    PROVE  [Promise!Next]_(Promise!vars)
<1> USE DEF query, search, answer
<1>1. CASE pc = "done"
  <2>1. UNCHANGED vars
    BY <1>1 DEF Next, Step, Returned, vars, SameVertex, Start, PopStale, Settle, RunDry,
       Relax, Relaxed, NoRoute, StartTrace, Trace
  <2>2. QED
    BY <2>1 DEF vars, Promise!vars
<1>2. CASE pc # "done"
  <2>1. UNCHANGED <<edges, from, to>>
    BY DEF Next, Step, Returned, vars, SameVertex, Start, PopStale, Settle, RunDry,
       Relax, Relaxed, NoRoute, StartTrace, Trace
  <2>2. CASE pc' # "done"
    BY <1>2, <2>1, <2>2 DEF Promise!vars
  <2>3. CASE pc' = "done"
    <3>1. Right'
      BY <2>3, AnswerRightNext DEF RightAtLast
    <3>2. \/ /\ path_cost' # Infinity
             /\ Promise!IsWalk(edges', shortest_path', from', to')
             /\ Promise!IsInjective(shortest_path')
             /\ Promise!WalkCost(edges', shortest_path') = path_cost'
             /\ path_cost' = Promise!ShortestCost(Vertices, edges', from', to')
          \/ /\ Promise!ShortestCost(Vertices, edges', from', to') = Infinity
             /\ path_cost' = Infinity
             /\ shortest_path' = <<>>
      BY <3>1, SameReference DEF Right
    <3>3. Promise!AnswerRoute \/ Promise!AnswerNoRoute
      BY <2>1, <2>3, <3>2 DEF Promise!AnswerRoute, Promise!AnswerNoRoute
    <3>4. QED
      BY <1>2, <2>1, <2>3, <3>3 DEF Promise!Next, Promise!Answer
  <2>4. QED
    BY <2>2, <2>3
<1>3. QED
  BY <1>1, <1>2

(* The one-sided search keeps the same promise as the two-sided one, so    *)
(* they are interchangeable behind ShortestPath's constructor in every     *)
(* query graph with costs that are not negative.                           *)
THEOREM PromiseKept == Spec => KeepsPromise
<1>1. Init => Promise!Init
  BY DEF Init, Promise!Init
<1>2. IInv' /\ [Next]_vars => [Promise!Next]_(Promise!vars)
  BY PromiseStep
<1>3. QED
  BY <1>1, <1>2, Invariant, PTL DEF Spec, KeepsPromise, Promise!Spec
=============================================================================
