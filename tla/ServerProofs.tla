---------------------------- MODULE ServerProofs ----------------------------
(***************************************************************************)
(* Proofs about Server: for every road graph that AddEdge can build, every *)
(* answer GetNearestEdge may give and every message, a route that is sent  *)
(* serves the query, and a query is refused for a fault that it has.       *)
(***************************************************************************)
EXTENDS Server, WeightedGraphsProofs

(***************************************************************************)
(* The tokens of a message.                                                *)
(***************************************************************************)

(* A token starts at every symbol that follows a delimiter, or nothing,    *)
(* and goes on to the last symbol before a delimiter, or to the end.       *)
LEMMA TokenEnds ==
    ASSUME NEW S, NEW d, d \notin S, NEW str \in Seq(S \cup {d}),
           NEW i \in 1 .. Len(str), str[i] # d
    PROVE  \E j \in i .. Len(str) :
             /\ j = Len(str) \/ str[j + 1] = d
             /\ \A n \in i .. j : str[n] # d
<1> DEFINE L == Len(str)
           T == {j \in i .. L : j = L \/ str[j + 1] = d}
<1>1. L \in Nat
  OBVIOUS
<1> HIDE DEF L
<1>2. T \subseteq Nat /\ L \in T
  BY <1>1 DEF L
<1> HIDE DEF T
<1>3. PICK m \in T : \A j \in T : m <= j
  BY <1>2, LeastNatural
<1>4. m \in i .. L /\ (m = L \/ str[m + 1] = d)
  BY <1>3 DEF T
<1> DEFINE Good == {n \in 1 .. L : n < i \/ str[n] # d}
<1>5. \A n \in i .. m : n \in Good
  <2> DEFINE Gaps == {n \in i .. m : str[n] = d}
  <2> SUFFICES ASSUME Gaps # {} PROVE FALSE
    BY <1>1, <1>4
  <2>1. Gaps \subseteq Nat
    BY <1>1 DEF L
  <2> HIDE DEF Gaps
  <2>2. PICK g \in Gaps : TRUE
    OBVIOUS
  <2>3. g \in i .. m /\ str[g] = d
    BY <2>2 DEF Gaps
  <2>4. g # i
    BY <2>3
  <2>5. g - 1 \in i .. L /\ g - 1 + 1 = g /\ ~(m <= g - 1)
    BY <1>1, <1>4, <2>3, <2>4 DEF L
  <2>6. g - 1 \in T
    BY <2>3, <2>5 DEF T
  <2>7. QED
    BY <1>3, <2>5, <2>6
<1>6. \A n \in i .. m : str[n] # d
  BY <1>1, <1>4, <1>5 DEF L
<1>7. QED
  BY <1>4, <1>6 DEF L

(* A message is cut into tokens that are not empty and hold no delimiter.  *)
LEMMA TokensOf ==
    ASSUME NEW S, NEW d, d \notin S, NEW str \in Seq(S \cup {d})
    PROVE  Tokenize(str, d) \in Seq(Seq(S) \ {<<>>})
<1> DEFINE L == Len(str)
           IsInside(i, j) == \A n \in i .. j : str[n] # d
           Begins(i) == IsInside(i, i) /\ (i = 1 \/ str[i - 1] = d)
           pos(i) == CHOOSE j \in i .. L : (j = L \/ str[j + 1] = d) /\ IsInside(i, j)
           token(i) == SubSeq(str, i, pos(i))
           Gets(f, m) == f = [i \in 0 .. m |->
                                IF i = 0 THEN <<>>
                                ELSE IF Begins(i) THEN Append(f[i - 1], token(i))
                                ELSE f[i - 1]]
           Tokens == Seq(S) \ {<<>>}
           T == {m \in 0 .. L : ~\E f : Gets(f, m)}
<1>1. L \in Nat
  OBVIOUS
<1>2. \A i \in 1 .. L : Begins(i) => token(i) \in Tokens
  <2> SUFFICES ASSUME NEW i \in 1 .. L, Begins(i) PROVE token(i) \in Tokens
    OBVIOUS
  <2> DEFINE q == pos(i)
  <2>1. str[i] # d
    BY <1>1
  <2>2. \E j \in i .. L : (j = L \/ str[j + 1] = d) /\ IsInside(i, j)
    BY <2>1, TokenEnds
  <2>3. q \in i .. L /\ IsInside(i, q)
    BY <2>2
  <2> HIDE DEF q
  <2>4. q \in Int /\ i \in Int /\ i <= q /\ \A n \in i .. q : str[n] \in S
    BY <1>1, <2>3
  <2>5. SubSeq(str, i, q) \in Seq(S) /\ Len(SubSeq(str, i, q)) = q - i + 1
    BY <2>4, SubSeqProperties
  <2>6. SubSeq(str, i, q) # <<>>
    BY <2>4, <2>5
  <2>7. QED
    BY <2>5, <2>6 DEF q
<1> HIDE DEF Begins, token, Tokens
<1>3. T = {}
  <2> SUFFICES ASSUME T # {} PROVE FALSE
    OBVIOUS
  <2>1. PICK m \in T : \A j \in T : m <= j
    <3> HIDE DEF T
    <3>1. T \subseteq Nat
      BY <1>1 DEF T
    <3>2. QED
      BY <3>1, LeastNatural
  <2>2. m # 0
    <3> DEFINE f == [i \in 0 .. 0 |-> <<>>]
    <3>1. Gets(f, 0)
      OBVIOUS
    <3>2. QED
      BY <3>1
  <2>3. m \in 1 .. L /\ m - 1 \in 0 .. L /\ ~(m <= m - 1)
    BY <1>1, <2>2
  <2>4. PICK g : Gets(g, m - 1)
    <3>1. m - 1 \notin T
      <4> HIDE DEF T
      <4>1. QED
        BY <2>1, <2>3
    <3>2. QED
      BY <2>3, <3>1
  <2> DEFINE h(i) == IF i = 0 THEN <<>>
                     ELSE IF Begins(i) THEN Append(g[i - 1], token(i))
                     ELSE g[i - 1]
             f == [i \in 0 .. m |-> h(i)]
  <2>5. \A i \in 0 .. m - 1 : f[i] = g[i]
    <3>1. \A i \in 0 .. m - 1 : g[i] = h(i)
      BY <2>4
    <3>2. \A i \in 0 .. m - 1 : i \in 0 .. m
      BY <2>3
    <3>3. QED
      BY <3>1, <3>2
  <2>6. \A i \in 0 .. m : i # 0 => f[i - 1] = g[i - 1]
    <3> HIDE DEF f
    <3>1. QED
      BY <2>3, <2>5
  <2>7. Gets(f, m)
    BY <2>6
  <2>8. QED
    BY <2>1, <2>7
<1>4. \E f : Gets(f, L)
  <2>1. L \in 0 .. L
    BY <1>1
  <2>2. QED
    BY <1>3, <2>1
<1> DEFINE g == CHOOSE f : Gets(f, L)
<1>5. Tokenize(str, d) = g[L]
  BY Zenon DEF Tokenize, Begins, token
<1>6. Gets(g, L)
  BY <1>4, Zenon
<1> HIDE DEF g
<1> DEFINE Good == {n \in 1 .. L + 1 : g[n - 1] \in Seq(Tokens)}
<1>7. 1 \in Good
  <2>1. 1 - 1 = 0 /\ 0 \in 0 .. L /\ 1 \in 1 .. L + 1
    BY <1>1
  <2>2. g[0] = <<>>
    BY <1>6, <2>1
  <2>3. g[0] \in Seq(Tokens)
    BY <2>2, EmptySeq
  <2>4. QED
    BY <2>1, <2>3
<1>8. \A n \in 1 .. L + 1 - 1 : n \in Good => n + 1 \in Good
  <2> SUFFICES ASSUME NEW n \in 1 .. L + 1 - 1, n \in Good PROVE n + 1 \in Good
    OBVIOUS
  <2>1. n \in 1 .. L /\ n \in 0 .. L /\ n # 0 /\ n + 1 \in 1 .. L + 1 /\ n + 1 - 1 = n
    BY <1>1
  <2>2. g[n - 1] \in Seq(Tokens)
    OBVIOUS
  <2>3. g[n] = IF Begins(n) THEN Append(g[n - 1], token(n)) ELSE g[n - 1]
    BY <1>6, <2>1
  <2>4. g[n] \in Seq(Tokens)
    BY <1>2, <2>1, <2>2, <2>3
  <2>5. QED
    BY <2>1, <2>4
<1>9. L + 1 \in Nat
  BY <1>1
<1> HIDE DEF Good
<1>10. \A n \in 1 .. L + 1 : n \in Good
  <2> DEFINE w == L + 1
  <2>1. w \in Nat /\ \A n \in 1 .. w - 1 : n \in Good => n + 1 \in Good
    BY <1>8, <1>9
  <2> HIDE DEF w
  <2>2. \A n \in 1 .. w : n \in Good
    BY <1>7, <2>1, UpTo
  <2>3. QED
    BY <2>2 DEF w
<1>11. L + 1 \in Good
  BY <1>1, <1>10
<1>12. g[L] \in Seq(Tokens)
  <2>1. L + 1 - 1 = L
    BY <1>1
  <2>2. QED
    BY <1>11, <2>1 DEF Good
<1>13. QED
  BY <1>5, <1>12 DEF Tokens

(***************************************************************************)
(* The query graph of a leg.                                               *)
(***************************************************************************)
Sound(info) ==
    /\ info.edge \in Reported(adjacency_lists)
    /\ info.clamped_ratio \in 0 .. RatioSteps

(* Whatever list it was reported from, an edge joins two neighbours.       *)
LEMMA ReportedJoins ==
    ASSUME NEW x \in Reported(adjacency_lists)
    PROVE  /\ x.u \in Nodes /\ x.v \in Nodes /\ x.w \in Nat
           /\ x.v \in Adjacent(adjacency_lists, x.u)
           /\ x.u \in Adjacent(adjacency_lists, x.v)
<1>1. PICK A \in Nodes : \E y \in Elements(adjacency_lists[A]) :
         x = IF y.edge_type = BACKWARD_EDGE THEN Edge(y.v, A, y.w, y.edge_type)
             ELSE Edge(A, y.v, y.w, y.edge_type)
  BY DEF Reported
<1> PICK y \in Elements(adjacency_lists[A]) :
         x = IF y.edge_type = BACKWARD_EDGE THEN Edge(y.v, A, y.w, y.edge_type)
             ELSE Edge(A, y.v, y.w, y.edge_type)
  BY <1>1
<1>2. y \in AdjListElements(Nodes, Nat)
  BY <1>1, RoadsAssumption DEF Elements
<1>3. y.v \in Nodes /\ y.w \in Nat
  BY <1>2 DEF AdjListElements
<1>4. y.v \in Adjacent(adjacency_lists, A)
  BY <1>1 DEF Adjacent
<1>5. A \in Adjacent(adjacency_lists, y.v)
  BY <1>1, <1>3, <1>4, RoadsAssumption
<1>6. QED
  BY <1>1, <1>3, <1>4, <1>5 DEF Edge

LEMMA BackCostsType ==
    ASSUME NEW x \in Reported(adjacency_lists)
    PROVE  BackCosts(adjacency_lists, x) \subseteq Nat
<1> DEFINE list == adjacency_lists[x.v]
           found == {j \in DOMAIN list : list[j].v = x.u /\ list[j].edge_type = FORWARD_EDGE}
           e3 == FindForwardEdge(adjacency_lists, x.v, x.u)
<1>1. x.u \in Nodes /\ x.v \in Nodes /\ x.w \in Nat
  BY ReportedJoins
<1>2. list \in Seq(AdjListElements(Nodes, Nat))
  BY <1>1, RoadsAssumption
<1>3. e3.w \in Nat
  <2>1. CASE found = {}
    <3>1. e3 = Edge(x.v, x.u, 0, NULL_EDGE)
      BY <2>1, Zenon DEF FindForwardEdge
    <3>2. QED
      BY <3>1 DEF Edge
  <2>2. CASE found # {}
    <3>1. found \subseteq Nat
      BY <1>2
    <3>2. Least(found) \in found
      <4> HIDE DEF found
      <4>1. QED
        BY <2>2, <3>1, LeastOf
    <3>3. list[Least(found)] \in AdjListElements(Nodes, Nat)
      <4>1. Least(found) \in 1 .. Len(list)
        <5>1. Least(found) \in DOMAIN list
          BY <3>2, Zenon
        <5> HIDE DEF list, found
        <5>2. QED
          BY <1>2, <5>1
      <4> HIDE DEF list, found
      <4>2. QED
        BY <1>2, <4>1, ElementOfSeq
    <3>4. list[Least(found)].w \in Nat
      <4> HIDE DEF list, found
      <4>1. QED
        BY <3>3 DEF AdjListElements
    <3>5. e3.w = list[Least(found)].w
      BY <2>2 DEF FindForwardEdge, Edge
    <3>6. QED
      BY <3>4, <3>5, Zenon
  <2>3. QED
    BY <2>1, <2>2
<1>4. QED
  BY <1>1, <1>3 DEF BackCosts

(* The placeholders of the two virtual nodes are no nodes.                 *)
LEMMA VerticesAre ==
    /\ IsFiniteSet(Vertices)
    /\ from \in Vertices /\ to \in Vertices /\ from # to
    /\ from \notin Nodes /\ to \notin Nodes /\ Nodes \subseteq Vertices
    /\ Vertices = Nodes \cup {from, to}
<1>1. N \in Nat
  BY ServerAssumption
<1>2. IsFiniteSet(Nodes)
  BY <1>1, FS_Interval DEF Nodes
<1>3. IsFiniteSet(Vertices)
  <2>1. IsFiniteSet({from, to})
    <3>1. IsFiniteSet({from}) /\ IsFiniteSet({to})
      BY FS_Singleton
    <3>2. {from, to} = {from} \cup {to}
      OBVIOUS
    <3>3. QED
      BY <3>1, <3>2, FS_Union
  <2>2. QED
    BY <1>2, <2>1, FS_Union DEF Vertices
<1>4. QED
  BY <1>1, <1>3 DEF Vertices, Nodes, from, to

LEMMA Products == \A x, y \in Nat : x * y \in Nat
OBVIOUS

LEMMA RoadEdgesType ==
    /\ RoadEdges(adjacency_lists) \subseteq Vertices \X Vertices \X Nat
    /\ \A x \in RoadEdges(adjacency_lists) :
        x[1] \in Nodes /\ x[2] \in Adjacent(adjacency_lists, x[1])
<1> SUFFICES ASSUME NEW x \in RoadEdges(adjacency_lists)
             PROVE  /\ x \in Vertices \X Vertices \X Nat
                    /\ x[1] \in Nodes /\ x[2] \in Adjacent(adjacency_lists, x[1])
  OBVIOUS
<1>1. PICK y \in TravelGraph(adjacency_lists) : x = <<y[1], y[2], RatioSteps * y[3]>>
  BY DEF RoadEdges
<1>2. DOMAIN adjacency_lists = Nodes
  BY RoadsAssumption
<1>3. PICK A \in Nodes : \E z \in Elements(GetForwardEdges(adjacency_lists, A)) :
         y = <<A, z.v, z.w>>
  BY <1>2 DEF TravelGraph
<1> PICK z \in Elements(GetForwardEdges(adjacency_lists, A)) : y = <<A, z.v, z.w>>
  BY <1>3
<1>4. z \in Elements(adjacency_lists[A])
  BY <1>3 DEF Elements, GetForwardEdges
<1>5. z \in AdjListElements(Nodes, Nat)
  BY <1>3, <1>4, RoadsAssumption DEF Elements
<1>6. z.v \in Nodes /\ z.w \in Nat
  BY <1>5 DEF AdjListElements
<1>7. z.v \in Adjacent(adjacency_lists, A)
  BY <1>4 DEF Adjacent
<1>8. x = <<A, z.v, RatioSteps * z.w>>
  BY <1>1, <1>3
<1>9. RatioSteps * z.w \in Nat
  BY <1>6, RatioStepsAssumption, Products
<1>10. QED
  BY <1>3, <1>6, <1>7, <1>8, <1>9, VerticesAre

(* Every virtual edge joins vertices of the query graph, at a cost that is *)
(* not negative.                                                           *)
LEMMA VirtualEdgesType ==
    ASSUME NEW info1, Sound(info1), NEW info2, Sound(info2)
    PROVE  VirtualEdges(adjacency_lists, info1, info2) \subseteq Vertices \X Vertices \X Nat
<1> DEFINE e1 == info1.edge
           e2 == info2.edge
           r1 == info1.clamped_ratio
           r2 == info2.clamped_ratio
           All == Vertices \X Vertices \X Nat
           same_edge == e1.u = e2.v /\ e1.v = e2.u
           equal_edge == e1.u = e2.u /\ e1.v = e2.v
<1>1. /\ e1 \in Reported(adjacency_lists) /\ e2 \in Reported(adjacency_lists)
      /\ r1 \in 0 .. RatioSteps /\ r2 \in 0 .. RatioSteps /\ RatioSteps \in Nat
  BY RatioStepsAssumption DEF Sound
<1>2. /\ e1.u \in Vertices /\ e1.v \in Vertices /\ e1.w \in Nat
      /\ e2.u \in Vertices /\ e2.v \in Vertices /\ e2.w \in Nat
      /\ from \in Vertices /\ to \in Vertices
  BY <1>1, ReportedJoins, VerticesAre
<1>3. BackCosts(adjacency_lists, e1) \subseteq Nat /\ BackCosts(adjacency_lists, e2) \subseteq Nat
  BY <1>1, BackCostsType
<1>4. /\ r1 \in Nat /\ r2 \in Nat /\ RatioSteps - r1 \in Nat /\ RatioSteps - r2 \in Nat
      /\ TurnRatio(r2, same_edge) \in 0 .. RatioSteps
  BY <1>1 DEF TurnRatio
<1>5. ASSUME NEW A \in Vertices, NEW B \in Vertices, NEW w \in Nat, NEW back \in Nat,
             NEW s1 \in 0 .. RatioSteps, NEW s2 \in 0 .. RatioSteps
      PROVE  TwoWayPieces(A, B, s1, s2, w, back) \subseteq All
  <2> DEFINE first  == IF s1 < s2 THEN from ELSE to
             second == IF s1 < s2 THEN to ELSE from
             lo     == IF s1 < s2 THEN s1 ELSE s2
             hi     == IF s1 < s2 THEN s2 ELSE s1
  <2>1. lo \in Nat /\ hi - lo \in Nat /\ RatioSteps - hi \in Nat
    BY <1>1
  <2>2. first \in Vertices /\ second \in Vertices
    BY <1>2
  <2> HIDE DEF lo, hi, first, second
  <2>3. /\ lo * w \in Nat /\ lo * back \in Nat
        /\ (hi - lo) * w \in Nat /\ (hi - lo) * back \in Nat
        /\ (RatioSteps - hi) * w \in Nat /\ (RatioSteps - hi) * back \in Nat
    BY <2>1, Products
  <2>4. {<<A, first, lo * w>>, <<first, A, lo * back>>,
         <<first, second, (hi - lo) * w>>, <<second, first, (hi - lo) * back>>,
         <<second, B, (RatioSteps - hi) * w>>, <<B, second, (RatioSteps - hi) * back>>} \subseteq All
    BY <2>2, <2>3
  <2>5. {<<from, to, 0>>} \subseteq All
    BY <1>2
  <2>6. QED
    BY <2>4, <2>5 DEF TwoWayPieces, first, second, lo, hi
<1>6. CASE equal_edge \/ same_edge
  <2>1. CASE BackCosts(adjacency_lists, e1) = {}
    <3>1. OneWayPieces(e1.u, e1.v, r1, r2, e1.w) \subseteq All
      <4>1. (RatioSteps - r1) * e1.w \in Nat /\ r2 * e1.w \in Nat
        BY <1>2, <1>4, Products
      <4>2. r1 < r2 => (r2 - r1) * e1.w \in Nat
        <5>1. r1 < r2 => r2 - r1 \in Nat
          BY <1>4
        <5>2. QED
          BY <1>2, <5>1, Products
      <4> HIDE DEF e1, e2, r1, r2
      <4>3. CASE r1 = r2
        <5>1. OneWayPieces(e1.u, e1.v, r1, r2, e1.w) = {<<from, to, 0>>}
          BY <1>4, <4>3 DEF OneWayPieces
        <5>2. QED
          BY <1>2, <5>1
      <4>4. CASE r1 < r2
        BY <1>2, <1>4, <4>2, <4>4 DEF OneWayPieces
      <4>5. CASE r1 > r2
        BY <1>2, <1>4, <4>1, <4>5 DEF OneWayPieces
      <4>6. QED
        BY <1>4, <4>3, <4>4, <4>5
    <3>2. QED
      BY <1>6, <2>1, <3>1 DEF VirtualEdges
  <2>2. CASE BackCosts(adjacency_lists, e1) # {}
    <3>1. \A back \in BackCosts(adjacency_lists, e1) :
            TwoWayPieces(e1.u, e1.v, r1, TurnRatio(r2, same_edge), e1.w, back) \subseteq All
      BY <1>1, <1>2, <1>3, <1>4, <1>5
    <3>2. QED
      BY <1>6, <2>2, <3>1 DEF VirtualEdges
  <2>3. QED
    BY <2>1, <2>2
<1>7. CASE ~(equal_edge \/ same_edge)
  <2>1. {<<from, e1.v, (RatioSteps - r1) * e1.w>>, <<e2.u, to, r2 * e2.w>>} \subseteq All
    BY <1>2, <1>4, Products
  <2>2. \A back \in BackCosts(adjacency_lists, e1) : <<from, e1.u, r1 * back>> \in All
    BY <1>2, <1>3, <1>4, Products
  <2>3. \A back \in BackCosts(adjacency_lists, e2) :
            <<e2.v, to, (RatioSteps - r2) * back>> \in All
    BY <1>2, <1>3, <1>4, Products
  <2>4. VirtualEdges(adjacency_lists, info1, info2) =
            {<<from, e1.v, (RatioSteps - r1) * e1.w>>, <<e2.u, to, r2 * e2.w>>}
             \cup {<<from, e1.u, r1 * back>> : back \in BackCosts(adjacency_lists, e1)}
             \cup {<<e2.v, to, (RatioSteps - r2) * back>> : back \in BackCosts(adjacency_lists, e2)}
    BY <1>7 DEF VirtualEdges
  <2>5. QED
    BY <2>1, <2>2, <2>3, <2>4
<1>8. QED
  BY <1>6, <1>7

LEMMA LegType ==
    ASSUME NEW info1, Sound(info1), NEW info2, Sound(info2)
    PROVE  Leg(info1, info2) \subseteq Vertices \X Vertices \X Nat
BY RoadEdgesType, VirtualEdgesType DEF Leg, QueryEdges

(* From places that no road joins there is no way to drive: what the roads *)
(* lead to from the first place stays on its side, virtual nodes included. *)
LEMMA NoWayOut ==
    ASSUME NEW info1, Sound(info1), NEW info2, Sound(info2),
           ~AreConnected(info1.edge.u, info2.edge.u)
    PROVE  ShortestCost(Vertices, Leg(info1, info2), from, to) = Infinity
<1> DEFINE e1 == info1.edge
           e2 == info2.edge
           edges == Leg(info1, info2)
<1>1. /\ e1.u \in Nodes /\ e1.v \in Nodes /\ e2.u \in Nodes /\ e2.v \in Nodes
      /\ e1.v \in Adjacent(adjacency_lists, e1.u) /\ e1.u \in Adjacent(adjacency_lists, e1.v)
      /\ e2.v \in Adjacent(adjacency_lists, e2.u) /\ e2.u \in Adjacent(adjacency_lists, e2.v)
  BY ReportedJoins DEF Sound
<1>2. PICK S \in SUBSET Nodes : Closed(S) /\ e1.u \in S /\ e2.u \notin S
  BY DEF AreConnected
<1>3. e1.v \in S /\ e2.v \notin S
  BY <1>1, <1>2 DEF Closed
<1> DEFINE Side == S \cup {from}
<1>4. \A x \in RoadEdges(adjacency_lists) : x[1] \in Side => x[2] \in Side
  BY <1>2, RoadEdgesType, VerticesAre DEF Closed
<1>5. \A x \in VirtualEdges(adjacency_lists, info1, info2) : x[1] \in Side => x[2] \in Side
  <2>1. ~(e1.u = e2.u /\ e1.v = e2.v) /\ ~(e1.u = e2.v /\ e1.v = e2.u)
    BY <1>2, <1>3
  <2>2. \A x \in VirtualEdges(adjacency_lists, info1, info2) :
            x[2] = e1.v \/ x[2] = e1.u \/ x[1] = e2.u \/ x[1] = e2.v
    BY <2>1 DEF VirtualEdges
  <2>3. e2.u \notin Side /\ e2.v \notin Side
    BY <1>1, <1>2, <1>3, VerticesAre
  <2>4. QED
    BY <1>2, <1>3, <2>2, <2>3
<1>6. \A x \in edges : x[1] \in Side => x[2] \in Side
  BY <1>4, <1>5 DEF Leg, QueryEdges
<1>7. edges \subseteq Vertices \X Vertices \X Nat
  BY LegType
<1>8. from \in Side /\ to \notin Side
  BY <1>2, VerticesAre
<1> HIDE DEF edges, Side
<1>9. ASSUME NEW p \in Seq(Vertices), IsWalk(edges, p, from, to) PROVE FALSE
  <2> DEFINE n == Len(p)
             Inside == {i \in 1 .. n : p[i] \in Side}
  <2>1. /\ n \in Nat /\ n > 0 /\ p[1] = from /\ p[n] = to
        /\ \A i \in 1 .. n - 1 : Weights(edges, p[i], p[i + 1]) # {}
    <3>1. n \in Nat
      BY <1>9
    <3>2. QED
      BY <1>9, <3>1 DEF IsWalk
  <2>2. 1 \in Inside
    BY <1>8, <2>1
  <2>3. \A i \in 1 .. n - 1 : i \in Inside => i + 1 \in Inside
    <3> SUFFICES ASSUME NEW i \in 1 .. n - 1, i \in Inside PROVE i + 1 \in Inside
      OBVIOUS
    <3>1. i + 1 \in 1 .. n
      BY <2>1
    <3>2. PICK w : <<p[i], p[i + 1], w>> \in edges
      <4>1. PICK w : w \in Weights(edges, p[i], p[i + 1])
        BY <2>1
      <4>2. QED
        BY <1>7, <4>1, WeightsAre
    <3>3. p[i + 1] \in Side
      BY <1>6, <3>2
    <3>4. QED
      BY <3>1, <3>3
  <2> HIDE DEF Inside
  <2>4. \A i \in 1 .. n : i \in Inside
    BY <2>1, <2>2, <2>3, UpTo
  <2>5. n \in Inside
    BY <2>1, <2>4
  <2>6. QED
    BY <1>8, <2>1, <2>5 DEF Inside
<1>10. ShortestCost(Vertices, edges, from, to) = Infinity
  BY <1>9, ShortestOfNone, VerticesAre
<1>11. QED
  BY <1>10 DEF edges

(* A route of a leg goes from one virtual node to the other, which differ. *)
LEMMA RouteShape ==
    ASSUME NEW info1, NEW info2, NEW p \in LeastRoutes(info1, info2)
    PROVE  p \in Seq(Vertices) /\ Len(p) >= 2 /\ p[1] = from /\ p[Len(p)] = to
<1>1. p \in SimpleWalks(Vertices, Leg(info1, info2), from, to)
  BY DEF LeastRoutes
<1>2. p \in Seq(Vertices) /\ IsWalk(Leg(info1, info2), p, from, to)
  BY <1>1, SimpleWalksAre, VerticesAre
<1>3. Len(p) > 0 /\ p[1] = from /\ p[Len(p)] = to /\ Len(p) \in Nat
  BY <1>2 DEF IsWalk
<1>4. Len(p) # 1
  BY <1>3, VerticesAre
<1>5. Len(p) >= 2
  <2> DEFINE n == Len(p)
  <2>1. n \in Nat /\ n > 0 /\ n # 1
    BY <1>3, <1>4
  <2> HIDE DEF n
  <2>2. n >= 2
    BY <2>1
  <2>3. QED
    BY <2>2 DEF n
<1>6. QED
  BY <1>2, <1>3, <1>5

(* There is a least-cost route as soon as there is a route at all.         *)
LEMMA RoutesAreThere ==
    ASSUME NEW info1, Sound(info1), NEW info2, Sound(info2)
    PROVE  LeastRoutes(info1, info2) = {}
             <=> ShortestCost(Vertices, Leg(info1, info2), from, to) = Infinity
<1> DEFINE edges == Leg(info1, info2)
           walks == SimpleWalks(Vertices, edges, from, to)
           costs == {WalkCost(edges, p) : p \in walks}
<1>1. edges \subseteq Vertices \X Vertices \X Nat
  BY LegType
<1>2. CASE walks = {}
  BY <1>2 DEF ShortestCost, LeastRoutes
<1>3. CASE walks # {}
  <2>1. \A p \in walks : p \in Seq(Vertices) /\ IsWalk(edges, p, from, to)
    BY SimpleWalksAre, VerticesAre
  <2>2. costs \subseteq Nat /\ costs # {}
    <3> HIDE DEF edges, walks
    <3>1. QED
      BY <1>1, <1>3, <2>1, WalkCostType
  <2>3. Least(costs) \in costs
    <3> HIDE DEF costs
    <3>1. QED
      BY <2>2, LeastOf
  <2>4. ShortestCost(Vertices, edges, from, to) = Least(costs)
    BY <1>3 DEF ShortestCost
  <2>5. ShortestCost(Vertices, edges, from, to) # Infinity
    BY <2>2, <2>3, <2>4, InfinityAssumption
  <2>6. LeastRoutes(info1, info2) # {}
    BY <2>3, <2>4 DEF LeastRoutes
  <2>7. QED
    BY <2>5, <2>6
<1>4. QED
  BY <1>2, <1>3
(***************************************************************************)
(* IInv: what the handler has done so far matches the message.             *)
(***************************************************************************)
Tokens == Seq(Int \cup Words) \ {<<>>}

FoundInfos == {Nearest(place, j) : place \in Area, j \in 0 .. Tries - 1}

Points == {x.projected_point : x \in FoundInfos} \cup [node : Nodes]

(* The coordinates are the numbers the tokens begin with, from the first   *)
(* on, and are all on the map.                                             *)
Parsed ==
    /\ message \in Seq(Tokens)
    /\ coordinates \in Seq(Area)
    /\ 2 * Len(coordinates) <= Len(message)
    /\ \A j \in 1 .. Len(coordinates) :
        /\ message[2 * j - 1][1] \notin Words /\ message[2 * j][1] \notin Words
        /\ coordinates[j] = <<message[2 * j - 1][1], message[2 * j][1]>>

(* Coordinates were snapped in order, each at the first radius at which    *)
(* there was a road; up to the radius that is tried now there is none.     *)
SnappedInOrder ==
    /\ k \in 0 .. Tries - 1
    /\ nearest_edges_info \in Seq(FoundInfos)
    /\ Len(nearest_edges_info) <= Len(coordinates)
    /\ \A j \in 1 .. Len(nearest_edges_info) :
        /\ Radii(coordinates[j]) # {}
        /\ nearest_edges_info[j] = InfoAt(coordinates[j])
    /\ pc = "snap" => \A j \in 0 .. k - 1 : ~Nearest(Here, j).edge_found

(* Cut at these points the route falls into one stretch for each leg.      *)
CutInto(cut, n, path) ==
    /\ cut[1] = 1
    /\ cut[n + 1] = Len(path)
    /\ \A j \in 1 .. n :
        cut[j] < cut[j + 1] /\ DrivesLeg(SubSeq(path, cut[j], cut[j + 1]), j)

RoutedInOrder ==
    /\ legs \in Nat
    /\ path_coordinates \in Seq(Points)
    /\ legs = 0 => path_coordinates = <<>>
    /\ legs > 0 =>
        /\ legs < Len(nearest_edges_info)
        /\ \E cut \in [1 .. legs + 1 -> 1 .. Len(path_coordinates)] :
               CutInto(cut, legs, path_coordinates)

(* Each stage begins when the one before is complete.                      *)
InStage ==
    /\ pc \in {"idle", "parse", "snap", "route", "send", "crashed"}
    /\ pc \in {"parse", "snap", "route", "send"} => reply = NoReply
    /\ pc = "parse" =>
        /\ coordinates = <<>> \/ (WellFormed(message) /\ 2 * Len(coordinates) < Len(message))
        /\ nearest_edges_info = <<>> /\ k = 0
    /\ pc \in {"parse", "snap"} => legs = 0
    /\ pc \in {"snap", "route", "send"} =>
        WellFormed(message) /\ 2 * Len(coordinates) = Len(message)
    /\ pc = "snap" => Len(nearest_edges_info) < Len(coordinates)
    /\ pc \in {"route", "send"} => Len(nearest_edges_info) = Len(coordinates)
    /\ pc = "route" => legs < Len(nearest_edges_info) - 1
    /\ pc = "send" => legs = Len(nearest_edges_info) - 1

IInv ==
    /\ Parsed
    /\ SnappedInOrder
    /\ RoutedInOrder
    /\ InStage
    /\ RouteServesTheQuery
    /\ RefusedForAReason

LEMMA InitInv == Init => IInv
<1> SUFFICES ASSUME Init PROVE IInv
  OBVIOUS
<1>1. /\ pc = "idle" /\ message = <<>> /\ coordinates = <<>> /\ k = 0
      /\ nearest_edges_info = <<>> /\ legs = 0 /\ path_coordinates = <<>> /\ reply = NoReply
  BY DEF Init
<1>2. Parsed
  BY <1>1 DEF Parsed
<1>3. SnappedInOrder
  BY <1>1, ServerAssumption DEF SnappedInOrder
<1>4. RoutedInOrder
  BY <1>1 DEF RoutedInOrder
<1>5. InStage
  BY <1>1 DEF InStage
<1>6. RouteServesTheQuery /\ RefusedForAReason
  BY <1>1 DEF RouteServesTheQuery, RefusedForAReason, Answered
<1>7. QED
  BY <1>2, <1>3, <1>4, <1>5, <1>6 DEF IInv

(* What a place is snapped to is what was found at the first radius at     *)
(* which there was a road.                                                 *)
LEMMA InfoIsSound ==
    ASSUME NEW place \in Area, Radii(place) # {}
    PROVE  /\ InfoAt(place) \in FoundInfos /\ Sound(InfoAt(place))
           /\ Least(Radii(place)) \in Radii(place)
           /\ \A j \in Radii(place) : Least(Radii(place)) <= j
<1>1. Radii(place) \subseteq Nat
  BY DEF Radii
<1>2. /\ Least(Radii(place)) \in Radii(place)
      /\ \A j \in Radii(place) : Least(Radii(place)) <= j
  BY <1>1, LeastOf
<1>3. Least(Radii(place)) \in 0 .. Tries - 1 /\ Nearest(place, Least(Radii(place))).edge_found
  BY <1>2 DEF Radii
<1>4. InfoAt(place) \in FoundInfos
  BY <1>3 DEF InfoAt, FoundInfos
<1>5. Sound(InfoAt(place))
  BY <1>3, NearestAssumption DEF Sound, InfoAt
<1>6. QED
  BY <1>2, <1>4, <1>5

(* When all coordinates are parsed they are the places the query names.    *)
LEMMA AllParsed ==
    ASSUME Parsed, WellFormed(message), 2 * Len(coordinates) = Len(message)
    PROVE  /\ Len(coordinates) \in Nat /\ Len(coordinates) >= 2
           /\ DOMAIN Places(message) = 1 .. Len(coordinates)
           /\ Len(Places(message)) = Len(coordinates)
           /\ \A j \in 1 .. Len(coordinates) :
                Places(message)[j] = coordinates[j] /\ coordinates[j] \in Area
           /\ Proper(message)
<1> DEFINE n == Len(coordinates)
           m == Len(message)
<1>1. n \in Nat /\ m \in Nat /\ m = 2 * n /\ m >= 4
  BY DEF Parsed, WellFormed
<1>2. \A j \in 1 .. n :
        /\ message[2 * j - 1][1] \notin Words /\ message[2 * j][1] \notin Words
        /\ coordinates[j] = <<message[2 * j - 1][1], message[2 * j][1]>>
        /\ coordinates[j] \in Area
  <2>1. \A j \in 1 .. n : coordinates[j] \in Area
    BY ElementOfSeq DEF Parsed
  <2>2. QED
    BY <2>1 DEF Parsed
<1>3. DOMAIN message = 1 .. m
  BY DEF Parsed
<1> HIDE DEF n, m
<1>4. n >= 2 /\ m \div 2 = n
  BY <1>1
<1>5. Places(message) = [j \in 1 .. n |-> <<message[2 * j - 1][1], message[2 * j][1]>>]
  BY <1>4 DEF Places, m
<1>6. /\ DOMAIN Places(message) = 1 .. n /\ Len(Places(message)) = n
      /\ \A j \in 1 .. n : Places(message)[j] = coordinates[j] /\ coordinates[j] \in Area
  BY <1>1, <1>2, <1>5
<1>7. \A j \in 1 .. m : message[j][1] \notin Words
  <2> SUFFICES ASSUME NEW j \in 1 .. m PROVE message[j][1] \notin Words
    OBVIOUS
  <2>1. PICK i \in 1 .. n : j = 2 * i - 1 \/ j = 2 * i
    <3>1. j % 2 = 0 => j \div 2 \in 1 .. n /\ j = 2 * (j \div 2)
      BY <1>1
    <3>2. j % 2 # 0 => (j + 1) \div 2 \in 1 .. n /\ j = 2 * ((j + 1) \div 2) - 1
      BY <1>1
    <3>3. QED
      BY <3>1, <3>2
  <2>2. QED
    BY <1>2, <2>1
<1>8. TwoCoordinates(message)
  <2>1. n \in 2 .. m /\ m = 2 * n
    BY <1>1, <1>4
  <2>2. QED
    BY <2>1 DEF TwoCoordinates, m
<1>9. Proper(message)
  BY <1>3, <1>6, <1>7, <1>8 DEF Proper
<1>10. QED
  BY <1>1, <1>4, <1>6, <1>9 DEF n

(* The points the coordinates were snapped to are those the query asks     *)
(* for, and all of them can be reached from a road.                        *)
LEMMA AllSnapped ==
    ASSUME Parsed, SnappedInOrder, WellFormed(message), 2 * Len(coordinates) = Len(message)
    PROVE  /\ Len(nearest_edges_info) \in Nat
           /\ \A j \in 1 .. Len(nearest_edges_info) :
                Infos[j] = nearest_edges_info[j] /\ Sound(nearest_edges_info[j])
           /\ Len(nearest_edges_info) = Len(coordinates) => Reachable
<1>1. /\ DOMAIN Places(message) = 1 .. Len(coordinates) /\ Len(coordinates) \in Nat
      /\ \A j \in 1 .. Len(coordinates) :
            Places(message)[j] = coordinates[j] /\ coordinates[j] \in Area
  BY AllParsed
<1>2. /\ Len(nearest_edges_info) \in Nat /\ Len(nearest_edges_info) <= Len(coordinates)
      /\ \A j \in 1 .. Len(nearest_edges_info) :
            /\ Radii(coordinates[j]) # {}
            /\ nearest_edges_info[j] = InfoAt(coordinates[j])
  BY DEF SnappedInOrder
<1>3. \A j \in 1 .. Len(nearest_edges_info) : j \in 1 .. Len(coordinates)
  BY <1>1, <1>2
<1>4. \A j \in 1 .. Len(nearest_edges_info) :
            Infos[j] = nearest_edges_info[j] /\ Sound(nearest_edges_info[j])
  BY <1>1, <1>2, <1>3, InfoIsSound DEF Infos
<1>5. Len(nearest_edges_info) = Len(coordinates) => Reachable
  BY <1>1, <1>2 DEF Reachable
<1>6. QED
  BY <1>2, <1>4, <1>5

(* An error that is sent has to have a reason in the query.                *)
Excused(text) ==
    CASE text = "format" -> ~TwoCoordinates(message)
      [] text \in {"number", "invalid"} -> ~Proper(message)
      [] text = "farOff" -> ~Reachable
      [] text = "isolated" ->
             Reachable => \E j \in 1 .. Len(Places(message)) - 1 : ~HasLeg(j)
      [] text = "noPath" ->
             Reachable /\ \E j \in 1 .. Len(Places(message)) - 1 : ~HasLeg(j)

(* What a query asks for does not change while it is handled.              *)
LEMMA SameQuery ==
    ASSUME message' = message
    PROVE  /\ Infos' = Infos
           /\ \A stretch, j : DrivesLeg(stretch, j)' <=> DrivesLeg(stretch, j)
           /\ \A cut, n, path : CutInto(cut, n, path)' <=> CutInto(cut, n, path)
           /\ \A text : Excused(text)' <=> Excused(text)
<1>1. Infos' = Infos
  BY DEF Infos
<1>2. \A stretch, j : DrivesLeg(stretch, j)' <=> DrivesLeg(stretch, j)
  BY <1>1 DEF DrivesLeg
<1>3. \A cut, n, path : CutInto(cut, n, path)' <=> CutInto(cut, n, path)
  BY <1>2 DEF CutInto
<1>4. \A j : HasLeg(j)' <=> HasLeg(j)
  BY <1>1 DEF HasLeg
<1>5. Reachable' <=> Reachable
  BY DEF Reachable
<1>6. \A text : Excused(text)' <=> Excused(text)
  BY <1>4, <1>5 DEF Excused
<1>7. QED
  BY <1>1, <1>2, <1>3, <1>6

LEMMA ErrorInv ==
    ASSUME IInv, pc # "idle", NEW text, Error(text), Excused(text)
    PROVE  IInv'
<1>1. /\ reply' = [error |-> text] /\ pc' = "idle"
      /\ message' = message /\ coordinates' = coordinates /\ k' = k
      /\ nearest_edges_info' = nearest_edges_info /\ legs' = legs
      /\ path_coordinates' = path_coordinates
  BY DEF Error, Return, work
<1>2. Parsed'
  BY <1>1 DEF IInv, Parsed
<1>3. SnappedInOrder'
  BY <1>1 DEF IInv, SnappedInOrder
<1>4. RoutedInOrder'
  BY <1>1, SameQuery DEF IInv, RoutedInOrder
<1>5. InStage'
  BY <1>1 DEF InStage
<1>6. DOMAIN reply' = {"error"} /\ reply'.error = text
  BY <1>1
<1>7. RouteServesTheQuery'
  BY <1>6 DEF RouteServesTheQuery
<1>8. RefusedForAReason'
  <2>1. Excused(text)'
    BY <1>1, SameQuery
  <2>2. (Answered /\ DOMAIN reply = {"error"} => Excused(reply.error))'
    BY <1>6, <2>1
  <2>3. QED
    BY <2>2 DEF RefusedForAReason, Excused
<1>9. QED
  BY <1>2, <1>3, <1>4, <1>5, <1>7, <1>8 DEF IInv

LEMMA RejectFormatInv ==
    ASSUME IInv, RejectFormat
    PROVE  IInv'
<1>1. pc # "idle" /\ ~WellFormed(message)
  BY DEF RejectFormat
<1>2. ~TwoCoordinates(message)
  <2>1. Len(message) \in Nat
    BY DEF IInv, Parsed
  <2>2. ASSUME NEW n \in 2 .. Len(message), Len(message) = 2 * n PROVE FALSE
    BY <1>1, <2>1, <2>2 DEF WellFormed
  <2>3. QED
    BY <2>2 DEF TwoCoordinates
<1>3. Excused("format")
  BY <1>2 DEF Excused
<1>4. Error("format")
  BY DEF RejectFormat
<1>5. QED
  BY <1>1, <1>3, <1>4, ErrorInv

(* The tokens that are parsed next.                                        *)
LEMMA NextTokens ==
    ASSUME IInv, pc = "parse", WellFormed(message)
    PROVE  LET n == Len(coordinates) + 1
           IN  /\ n \in 1 .. Len(message) \div 2
               /\ 2 * n - 1 \in 1 .. Len(message) /\ 2 * n \in 1 .. Len(message)
               /\ Lat = message[2 * n - 1][1] /\ Lng = message[2 * n][1]
               /\ Lat \in Int \cup Words /\ Lng \in Int \cup Words
<1> DEFINE c == Len(coordinates)
           m == Len(message)
           n == c + 1
<1>1. c \in Nat /\ m \in Nat /\ m >= 4 /\ m % 2 = 0 /\ 2 * c <= m
  BY DEF IInv, Parsed, WellFormed
<1>2. 2 * c < m
  <2>1. coordinates = <<>> \/ 2 * c < m
    BY DEF IInv, InStage
  <2>2. CASE coordinates = <<>>
    BY <1>1, <2>2
  <2>3. QED
    BY <2>1, <2>2
<1> HIDE DEF c, m
<1>3. /\ n \in 1 .. m \div 2 /\ 2 * n - 1 = 2 * c + 1 /\ 2 * n = 2 * c + 2
      /\ 2 * n - 1 \in 1 .. m /\ 2 * n \in 1 .. m
  BY <1>1, <1>2
<1>4. \A j \in 1 .. m : message[j] \in Tokens
  BY ElementOfSeq DEF IInv, Parsed, m
<1>5. \A j \in 1 .. m : Head(message[j]) = message[j][1] /\ message[j][1] \in Int \cup Words
  <2> SUFFICES ASSUME NEW j \in 1 .. m
               PROVE  Head(message[j]) = message[j][1] /\ message[j][1] \in Int \cup Words
    OBVIOUS
  <2>1. message[j] \in Seq(Int \cup Words) /\ message[j] # <<>>
    BY <1>4 DEF Tokens
  <2>2. QED
    BY <2>1
<1>6. Lat = message[2 * n - 1][1] /\ Lng = message[2 * n][1]
  BY <1>3, <1>5 DEF Lat, Lng, stod, c
<1>7. QED
  BY <1>3, <1>5, <1>6 DEF c, m

LEMMA RejectWordInv ==
    ASSUME IInv, RejectWord
    PROVE  IInv'
<1>1. pc = "parse" /\ pc # "idle" /\ WellFormed(message) /\ ~Convertible
  BY DEF RejectWord
<1> DEFINE n == Len(coordinates) + 1
<1>2. /\ 2 * n - 1 \in 1 .. Len(message) /\ 2 * n \in 1 .. Len(message)
      /\ Lat = message[2 * n - 1][1] /\ Lng = message[2 * n][1]
  BY <1>1, NextTokens
<1>3. DOMAIN message = 1 .. Len(message)
  BY DEF IInv, Parsed
<1>4. ~Proper(message)
  <2> HIDE DEF n
  <2>1. \E j \in DOMAIN message : message[j][1] \in Words
    BY <1>1, <1>2, <1>3 DEF Convertible
  <2>2. QED
    BY <2>1 DEF Proper
<1>5. Excused("number")
  BY <1>4 DEF Excused
<1>6. Error("number")
  BY DEF RejectWord
<1>7. QED
  BY <1>1, <1>5, <1>6, ErrorInv

LEMMA RejectPlaceInv ==
    ASSUME IInv, RejectPlace
    PROVE  IInv'
<1>1. pc = "parse" /\ pc # "idle" /\ WellFormed(message) /\ Convertible /\ ~Validate(Lat, Lng)
  BY DEF RejectPlace
<1> DEFINE n == Len(coordinates) + 1
<1>2. /\ n \in 1 .. Len(message) \div 2
      /\ Lat = message[2 * n - 1][1] /\ Lng = message[2 * n][1]
      /\ Lat \in Int \cup Words /\ Lng \in Int \cup Words
  BY <1>1, NextTokens
<1>3. Lat \in Int /\ Lng \in Int
  BY <1>1, <1>2 DEF Convertible
<1>4. <<Lat, Lng>> \notin Area
  BY <1>1, <1>3, ServerAssumption DEF Area, Validate
<1>5. n \in DOMAIN Places(message) /\ Places(message)[n] = <<Lat, Lng>>
  <2> HIDE DEF n
  <2>1. QED
    BY <1>2 DEF Places
<1>6. ~Proper(message)
  BY <1>4, <1>5 DEF Proper
<1>7. Excused("invalid")
  BY <1>6 DEF Excused
<1>8. Error("invalid")
  BY DEF RejectPlace
<1>9. QED
  BY <1>1, <1>7, <1>8, ErrorInv

LEMMA ParsePlaceInv ==
    ASSUME IInv, ParsePlace
    PROVE  IInv'
<1> DEFINE c == Len(coordinates)
           n == c + 1
           m == Len(message)
           here == <<Lat, Lng>>
<1>1. /\ pc = "parse" /\ WellFormed(message) /\ Convertible /\ Validate(Lat, Lng)
      /\ coordinates' = Append(coordinates, here)
      /\ pc' = IF 2 * Len(coordinates') = Len(message) THEN "snap" ELSE "parse"
      /\ message' = message /\ k' = k /\ nearest_edges_info' = nearest_edges_info
      /\ legs' = legs /\ path_coordinates' = path_coordinates /\ reply' = reply
  BY DEF ParsePlace
<1>2. /\ n \in 1 .. m \div 2 /\ 2 * n - 1 \in 1 .. m /\ 2 * n \in 1 .. m
      /\ Lat = message[2 * n - 1][1] /\ Lng = message[2 * n][1]
      /\ Lat \in Int \cup Words /\ Lng \in Int \cup Words
  BY <1>1, NextTokens
<1>3. Lat \in Int /\ Lng \in Int /\ Lat \notin Words /\ Lng \notin Words
  BY <1>1, <1>2 DEF Convertible
<1>4. here \in Area
  BY <1>1, <1>3, ServerAssumption DEF Area, Validate
<1>5. coordinates \in Seq(Area) /\ c \in Nat /\ m \in Nat
  BY DEF IInv, Parsed
<1>6. /\ coordinates' \in Seq(Area) /\ Len(coordinates') = n
      /\ coordinates'[n] = here /\ \A j \in 1 .. c : coordinates'[j] = coordinates[j]
  BY <1>1, <1>4, <1>5, AppendProperties
<1>7. 2 * n <= m
  <2> HIDE DEF m, n
  <2>1. QED
    BY <1>2, <1>5
<1>8. Parsed'
  <2>1. ASSUME NEW j \in 1 .. n
        PROVE  /\ message[2 * j - 1][1] \notin Words /\ message[2 * j][1] \notin Words
               /\ coordinates'[j] = <<message[2 * j - 1][1], message[2 * j][1]>>
    <3>1. CASE j = n
      BY <1>2, <1>3, <1>6, <3>1
    <3>2. CASE j # n
      <4>1. j \in 1 .. c
        BY <1>5, <3>2
      <4>2. QED
        BY <1>6, <4>1 DEF IInv, Parsed
    <3>3. QED
      BY <3>1, <3>2
  <2>2. message' \in Seq(Tokens) /\ 2 * Len(coordinates') <= Len(message')
    BY <1>1, <1>6, <1>7 DEF IInv, Parsed
  <2>3. \A j \in 1 .. Len(coordinates') :
            /\ message'[2 * j - 1][1] \notin Words /\ message'[2 * j][1] \notin Words
            /\ coordinates'[j] = <<message'[2 * j - 1][1], message'[2 * j][1]>>
    BY <1>1, <1>6, <2>1
  <2>4. QED
    BY <1>6, <2>2, <2>3 DEF Parsed
<1>9. nearest_edges_info = <<>> /\ k = 0 /\ legs = 0 /\ reply = NoReply
  BY <1>1 DEF IInv, InStage
<1>10. SnappedInOrder'
  <2>1. k' \in 0 .. Tries - 1 /\ nearest_edges_info' = <<>> /\ k' = 0
    BY <1>1, <1>9 DEF IInv, SnappedInOrder
  <2>2. QED
    BY <1>5, <1>6, <2>1 DEF SnappedInOrder
<1>11. RoutedInOrder'
  BY <1>1, <1>9 DEF IInv, RoutedInOrder
<1>12. InStage'
  <2>1. WellFormed(message') /\ 2 * Len(coordinates') <= Len(message')
    BY <1>1, <1>6, <1>7
  <2>2. CASE 2 * Len(coordinates') = Len(message)
    BY <1>1, <1>5, <1>6, <1>9, <2>1, <2>2 DEF InStage
  <2>3. CASE 2 * Len(coordinates') # Len(message)
    <3>1. 2 * Len(coordinates') < Len(message')
      BY <1>1, <1>5, <1>6, <1>7, <2>3
    <3>2. QED
      BY <1>1, <1>9, <2>1, <2>3, <3>1 DEF InStage
  <2>4. QED
    BY <2>2, <2>3
<1>13. RouteServesTheQuery' /\ RefusedForAReason'
  BY <1>1 DEF RouteServesTheQuery, RefusedForAReason, Answered
<1>14. QED
  BY <1>8, <1>10, <1>11, <1>12, <1>13 DEF IInv

(* The place that is looked up now, and what was found there.              *)
LEMMA HereIs ==
    ASSUME IInv, pc = "snap"
    PROVE  /\ Len(nearest_edges_info) + 1 \in 1 .. Len(coordinates)
           /\ Here \in Area /\ k \in 0 .. Tries - 1
           /\ e.edge_found \in BOOLEAN
           /\ e.edge_found => Radii(Here) # {} /\ e = InfoAt(Here) /\ e \in FoundInfos
           /\ ~e.edge_found /\ k + 1 >= Tries => Radii(Here) = {}
<1>1. Len(nearest_edges_info) + 1 \in 1 .. Len(coordinates)
  <2> DEFINE n == Len(nearest_edges_info)
             c == Len(coordinates)
  <2>1. n \in Nat /\ c \in Nat /\ n < c
    BY DEF IInv, InStage, SnappedInOrder, Parsed
  <2> HIDE DEF n, c
  <2>2. n + 1 \in 1 .. c
    BY <2>1
  <2>3. QED
    BY <2>2 DEF n, c
<1>2. Here \in Area
  BY <1>1, ElementOfSeq DEF Here, IInv, Parsed
<1>3. k \in 0 .. Tries - 1 /\ \A j \in 0 .. k - 1 : ~Nearest(Here, j).edge_found
  BY DEF IInv, SnappedInOrder
<1>4. e.edge_found \in BOOLEAN
  BY <1>2, <1>3, NearestAssumption DEF e
<1>5. ASSUME e.edge_found
      PROVE  Radii(Here) # {} /\ e = InfoAt(Here) /\ e \in FoundInfos
  <2>1. k \in Radii(Here)
    BY <1>3, <1>5 DEF Radii, e
  <2> DEFINE least == Least(Radii(Here))
  <2>2. least \in Radii(Here) /\ least <= k
    BY <1>2, <2>1, InfoIsSound
  <2>3. least \in 0 .. Tries - 1 /\ Nearest(Here, least).edge_found
    BY <2>2 DEF Radii
  <2>4. least = k
    <3> HIDE DEF least
    <3>1. least \in 0 .. k - 1 \/ least = k
      BY <1>3, <2>2, <2>3
    <3>2. QED
      BY <1>3, <2>3, <3>1
  <2>5. e = InfoAt(Here)
    BY <2>4 DEF e, InfoAt
  <2>6. QED
    BY <1>2, <1>3, <2>1, <2>5 DEF FoundInfos, e
<1>6. ASSUME ~e.edge_found, k + 1 >= Tries PROVE Radii(Here) = {}
  <2>1. \A j \in 0 .. Tries - 1 : j \in 0 .. k - 1 \/ j = k
    BY <1>3, <1>6, ServerAssumption
  <2>2. QED
    BY <1>3, <1>6, <2>1 DEF Radii, e
<1>7. QED
  BY <1>1, <1>2, <1>3, <1>4, <1>5, <1>6

LEMMA WidenInv ==
    ASSUME IInv, Widen
    PROVE  IInv'
<1>1. /\ pc = "snap" /\ ~e.edge_found /\ k + 1 < Tries /\ k' = k + 1
      /\ pc' = pc /\ message' = message /\ coordinates' = coordinates
      /\ nearest_edges_info' = nearest_edges_info /\ legs' = legs
      /\ path_coordinates' = path_coordinates /\ reply' = reply
  BY DEF Widen, NextRadius
<1>2. Parsed'
  BY <1>1 DEF IInv, Parsed
<1>3. Here' = Here
  BY <1>1 DEF Here
<1>4. k \in 0 .. Tries - 1 /\ \A j \in 0 .. k - 1 : ~Nearest(Here, j).edge_found
  BY <1>1 DEF IInv, SnappedInOrder
<1>5. \A j \in 0 .. k' - 1 : ~Nearest(Here, j).edge_found
  <2>1. \A j \in 0 .. k' - 1 : j \in 0 .. k - 1 \/ j = k
    BY <1>1, <1>4
  <2>2. QED
    BY <1>1, <1>4, <2>1 DEF e
<1>6. k' \in 0 .. Tries - 1
  BY <1>1, <1>4, ServerAssumption
<1>7. SnappedInOrder'
  BY <1>1, <1>3, <1>5, <1>6 DEF IInv, SnappedInOrder
<1>8. RoutedInOrder'
  BY <1>1, SameQuery DEF IInv, RoutedInOrder
<1>9. InStage'
  BY <1>1 DEF IInv, InStage
<1>10. RouteServesTheQuery' /\ RefusedForAReason'
  BY <1>1 DEF RouteServesTheQuery, RefusedForAReason, Answered
<1>11. QED
  BY <1>2, <1>7, <1>8, <1>9, <1>10 DEF IInv

LEMMA SnapInv ==
    ASSUME IInv, Snap
    PROVE  IInv'
<1> DEFINE n == Len(nearest_edges_info)
           infos == nearest_edges_info
<1>1. /\ pc = "snap" /\ e.edge_found /\ infos' = Append(infos, e) /\ k' = 0
      /\ pc' = IF Len(infos') = Len(coordinates) THEN "route" ELSE "snap"
      /\ message' = message /\ coordinates' = coordinates /\ legs' = legs
      /\ path_coordinates' = path_coordinates /\ reply' = reply
  BY DEF Snap, Snapped
<1>2. /\ n + 1 \in 1 .. Len(coordinates) /\ Here \in Area
      /\ Radii(Here) # {} /\ e = InfoAt(Here) /\ e \in FoundInfos
  BY <1>1, HereIs
<1>3. infos \in Seq(FoundInfos) /\ n \in Nat /\ Len(coordinates) \in Nat
  BY DEF IInv, SnappedInOrder, Parsed
<1>4. /\ infos' \in Seq(FoundInfos) /\ Len(infos') = n + 1
      /\ infos'[n + 1] = e /\ \A j \in 1 .. n : infos'[j] = infos[j]
  BY <1>1, <1>2, <1>3, AppendProperties
<1>5. Parsed'
  BY <1>1 DEF IInv, Parsed
<1>6. ASSUME NEW j \in 1 .. n + 1
      PROVE  Radii(coordinates[j]) # {} /\ infos'[j] = InfoAt(coordinates[j])
  <2>1. CASE j = n + 1
    BY <1>2, <1>4, <2>1 DEF Here
  <2>2. CASE j # n + 1
    <3>1. j \in 1 .. n
      BY <1>3, <2>2
    <3>2. QED
      BY <1>4, <3>1 DEF IInv, SnappedInOrder
  <2>3. QED
    BY <2>1, <2>2
<1>7. SnappedInOrder'
  <2>1. k' \in 0 .. Tries - 1 /\ \A j \in 0 .. k' - 1 : FALSE
    BY <1>1, ServerAssumption
  <2>2. \A j \in 1 .. Len(infos') :
            Radii(coordinates'[j]) # {} /\ infos'[j] = InfoAt(coordinates'[j])
    BY <1>1, <1>4, <1>6
  <2>3. Len(infos') <= Len(coordinates')
    BY <1>1, <1>2, <1>3, <1>4
  <2>4. QED
    BY <1>4, <2>1, <2>2, <2>3 DEF SnappedInOrder
<1>8. legs = 0
  BY <1>1 DEF IInv, InStage
<1>9. RoutedInOrder'
  BY <1>1, <1>8 DEF IInv, RoutedInOrder
<1>10. InStage'
  <2>1. WellFormed(message') /\ 2 * Len(coordinates') = Len(message') /\ reply' = NoReply
    BY <1>1 DEF IInv, InStage
  <2>2. CASE Len(infos') = Len(coordinates)
    <3>1. Len(coordinates') >= 2
      <4>1. Parsed /\ WellFormed(message) /\ 2 * Len(coordinates) = Len(message)
        BY <1>1, <2>1 DEF IInv
      <4>2. Len(coordinates) >= 2
        BY <4>1, AllParsed
      <4>3. QED
        BY <1>1, <4>2
    <3>2. legs' < Len(infos') - 1
      BY <1>1, <1>3, <1>8, <2>2, <3>1
    <3>3. QED
      BY <1>1, <1>8, <2>1, <2>2, <3>2 DEF InStage
  <2>3. CASE Len(infos') # Len(coordinates)
    <3>1. Len(infos') < Len(coordinates')
      BY <1>1, <1>2, <1>3, <1>4, <2>3
    <3>2. QED
      BY <1>1, <1>8, <2>1, <2>3, <3>1 DEF InStage
  <2>4. QED
    BY <2>2, <2>3
<1>11. RouteServesTheQuery' /\ RefusedForAReason'
  BY <1>1 DEF RouteServesTheQuery, RefusedForAReason, Answered
<1>12. QED
  BY <1>5, <1>7, <1>9, <1>10, <1>11 DEF IInv

LEMMA RejectIsolatedInv ==
    ASSUME IInv, RejectIsolated
    PROVE  IInv'
<1> DEFINE n == Len(nearest_edges_info)
<1>1. pc = "snap" /\ pc # "idle" /\ e.edge_found /\ ~Joined
  BY DEF RejectIsolated, Snapped
<1>2. /\ n + 1 \in 1 .. Len(coordinates) /\ Here \in Area
      /\ Radii(Here) # {} /\ e = InfoAt(Here)
  BY <1>1, HereIs
<1>3. /\ Parsed /\ SnappedInOrder /\ WellFormed(message)
      /\ 2 * Len(coordinates) = Len(message)
  BY <1>1 DEF IInv, InStage
<1>4. /\ Len(coordinates) \in Nat
      /\ DOMAIN Places(message) = 1 .. Len(coordinates)
      /\ Len(Places(message)) = Len(coordinates)
      /\ \A j \in 1 .. Len(coordinates) : Places(message)[j] = coordinates[j]
  BY <1>3, AllParsed
<1>5. n \in Nat /\ \A j \in 1 .. n : Infos[j] = nearest_edges_info[j] /\ Sound(nearest_edges_info[j])
  BY <1>3, AllSnapped
<1>6. /\ nearest_edges_info # <<>>
      /\ ~AreConnected(Last(nearest_edges_info).edge.u, e.edge.u)
  BY <1>1 DEF Joined
<1>7. n \in 1 .. n /\ Last(nearest_edges_info) = nearest_edges_info[n]
  <2>1. nearest_edges_info \in Seq(FoundInfos)
    BY <1>3 DEF SnappedInOrder
  <2>2. n # 0
    BY <1>6, <2>1
  <2>3. QED
    BY <1>5, <2>2 DEF Last
<1>8. Infos[n + 1] = e /\ Sound(e)
  <2>1. Places(message)[n + 1] = Here /\ n + 1 \in DOMAIN Places(message)
    BY <1>2, <1>4 DEF Here
  <2>2. Infos[n + 1] = InfoAt(Here)
    BY <2>1 DEF Infos
  <2>3. QED
    BY <1>2, <2>2, InfoIsSound
<1>9. /\ Sound(Infos[n]) /\ Sound(Infos[n + 1])
      /\ ~AreConnected(Infos[n].edge.u, Infos[n + 1].edge.u)
  BY <1>5, <1>6, <1>7, <1>8
<1>10. ~HasLeg(n)
  BY <1>9, NoWayOut DEF HasLeg
<1>11. n \in 1 .. Len(Places(message)) - 1
  <2> DEFINE c == Len(coordinates)
  <2>1. n \in Nat /\ c \in Nat /\ n \in 1 .. n /\ n + 1 \in 1 .. c
    BY <1>2, <1>4, <1>5, <1>7
  <2> HIDE DEF n, c
  <2>2. n \in 1 .. c - 1
    BY <2>1
  <2>3. QED
    BY <1>4, <2>2 DEF c
<1>12. Excused("isolated")
  <2>1. \E j \in 1 .. Len(Places(message)) - 1 : ~HasLeg(j)
    BY <1>10, <1>11
  <2>2. QED
    BY <2>1 DEF Excused
<1>13. Error("isolated")
  BY DEF RejectIsolated
<1>14. QED
  BY <1>1, <1>12, <1>13, ErrorInv

(* Where the handler gives up there is no road within any radius.          *)
LEMMA FarOff ==
    ASSUME IInv, GivenUp
    PROVE  pc = "snap" /\ pc # "idle" /\ ~Reachable
<1>1. pc = "snap" /\ ~e.edge_found /\ k + 1 >= Tries
  BY DEF GivenUp
<1>2. Len(nearest_edges_info) + 1 \in 1 .. Len(coordinates) /\ Radii(Here) = {}
  BY <1>1, HereIs
<1>3. Parsed /\ WellFormed(message) /\ 2 * Len(coordinates) = Len(message)
  BY <1>1 DEF IInv, InStage
<1>4. /\ DOMAIN Places(message) = 1 .. Len(coordinates)
      /\ \A j \in 1 .. Len(coordinates) : Places(message)[j] = coordinates[j]
  BY <1>3, AllParsed
<1>5. QED
  BY <1>1, <1>2, <1>4 DEF Reachable, Here

LEMMA RejectFarOffInv ==
    ASSUME IInv, RejectFarOff
    PROVE  IInv'
<1>1. GivenUp /\ Error("farOff")
  BY DEF RejectFarOff
<1>2. pc # "idle" /\ Excused("farOff")
  BY <1>1, FarOff DEF Excused
<1>3. QED
  BY <1>1, <1>2, ErrorInv

LEMMA ReadUnsetNodeInv ==
    ASSUME IInv, ReadUnsetNode
    PROVE  IInv'
<1>1. GivenUp
  BY DEF ReadUnsetNode
<1>2. pc # "idle" /\ Excused("isolated")
  BY <1>1, FarOff DEF Excused
<1>3. CASE Error("isolated")
  BY <1>2, <1>3, ErrorInv
<1>4. CASE pc' = "crashed" /\ UNCHANGED <<message, work, reply>>
  <2>1. /\ message' = message /\ coordinates' = coordinates /\ k' = k
        /\ nearest_edges_info' = nearest_edges_info /\ legs' = legs
        /\ path_coordinates' = path_coordinates /\ pc' = "crashed"
    BY <1>4 DEF work
  <2>2. Parsed'
    BY <2>1 DEF IInv, Parsed
  <2>3. SnappedInOrder'
    BY <2>1 DEF IInv, SnappedInOrder
  <2>4. RoutedInOrder'
    BY <2>1, SameQuery DEF IInv, RoutedInOrder
  <2>5. InStage'
    BY <2>1 DEF InStage
  <2>6. RouteServesTheQuery' /\ RefusedForAReason'
    BY <2>1 DEF RouteServesTheQuery, RefusedForAReason, Answered
  <2>7. QED
    BY <2>2, <2>3, <2>4, <2>5, <2>6 DEF IInv
<1>5. QED
  BY <1>3, <1>4 DEF ReadUnsetNode

LEMMA RejectNoPathInv ==
    ASSUME IInv, RejectNoPath
    PROVE  IInv'
<1> DEFINE n == Len(nearest_edges_info)
<1>1. pc = "route" /\ pc # "idle" /\ LeastRoutes(Info1, Info2) = {}
  BY DEF RejectNoPath
<1>2. /\ Parsed /\ SnappedInOrder /\ WellFormed(message)
      /\ 2 * Len(coordinates) = Len(message)
      /\ n = Len(coordinates) /\ legs \in Nat /\ legs < n - 1
  BY <1>1 DEF IInv, InStage, RoutedInOrder
<1>3. /\ n \in Nat /\ Reachable
      /\ \A j \in 1 .. n : Infos[j] = nearest_edges_info[j] /\ Sound(nearest_edges_info[j])
  BY <1>2, AllSnapped
<1>4. Len(Places(message)) = n
  BY <1>2, AllParsed
<1>5. /\ legs + 1 \in 1 .. n /\ legs + 1 + 1 \in 1 .. n /\ legs + 1 + 1 = legs + 2
      /\ legs + 1 \in 1 .. n - 1
  <2> HIDE DEF n
  <2>1. QED
    BY <1>2, <1>3
<1>6. /\ Sound(Info1) /\ Sound(Info2)
      /\ Infos[legs + 1] = Info1 /\ Infos[legs + 1 + 1] = Info2
  BY <1>3, <1>5 DEF Info1, Info2
<1>7. ~HasLeg(legs + 1)
  BY <1>1, <1>6, RoutesAreThere DEF HasLeg
<1>8. Excused("noPath")
  <2>1. \E j \in 1 .. Len(Places(message)) - 1 : ~HasLeg(j)
    BY <1>4, <1>5, <1>7
  <2>2. QED
    BY <1>3, <2>1 DEF Excused
<1>9. Error("noPath")
  BY DEF RejectNoPath
<1>10. QED
  BY <1>1, <1>8, <1>9, ErrorInv

LEMMA StretchOf ==
    ASSUME NEW S, NEW s \in Seq(S), NEW t \in Seq(S), NEW a \in Nat \ {0}, NEW b \in Nat,
           b <= Len(s), Len(t) = b - a + 1, \A i \in 1 .. Len(t) : s[a + i - 1] = t[i]
    PROVE  SubSeq(s, a, b) = t
<1> DEFINE n == Len(s)
           m == Len(t)
           r == SubSeq(s, a, b)
<1>1. n \in Nat /\ m \in Nat /\ \A i \in 1 .. n : s[i] \in S
  BY ElementOfSeq
<1>2. b <= n /\ m = b - a + 1 /\ \A i \in 1 .. m : s[a + i - 1] = t[i]
  OBVIOUS
<1> HIDE DEF n, m
<1>3. \A i \in a .. b : s[i] \in S
  BY <1>1, <1>2
<1>4. /\ r \in Seq(S) /\ Len(r) = IF a <= b THEN b - a + 1 ELSE 0
      /\ \A i \in 1 .. b - a + 1 : r[i] = s[a + i - 1]
  BY <1>3, SubSeqProperties
<1>5. Len(r) = m
  BY <1>1, <1>2, <1>4
<1>6. \A i \in 1 .. m : r[i] = t[i]
  BY <1>2, <1>4
<1> HIDE DEF r
<1>7. r = t
  BY <1>4, <1>5, <1>6, SeqEqual DEF m
<1>8. QED
  BY <1>7 DEF r

(* A stretch depends on no more than its own part of a route.              *)
LEMMA SameStretch ==
    ASSUME NEW S, NEW s \in Seq(S), NEW t \in Seq(S), NEW a \in Nat \ {0}, NEW b \in Nat,
           a <= b, b <= Len(s), b <= Len(t), \A i \in a .. b : s[i] = t[i]
    PROVE  SubSeq(s, a, b) = SubSeq(t, a, b)
<1> DEFINE r == SubSeq(t, a, b)
           n == Len(t)
<1>1. n \in Nat /\ b <= n /\ \A i \in 1 .. n : t[i] \in S
  BY ElementOfSeq
<1> HIDE DEF n
<1>2. \A i \in a .. b : t[i] \in S
  BY <1>1
<1>3. /\ r \in Seq(S) /\ Len(r) = b - a + 1
      /\ \A i \in 1 .. b - a + 1 : r[i] = t[a + i - 1]
  BY <1>2, SubSeqProperties
<1> HIDE DEF r
<1>4. \A i \in 1 .. b - a + 1 : a + i - 1 \in a .. b
  OBVIOUS
<1>5. \A i \in 1 .. Len(r) : s[a + i - 1] = r[i]
  BY <1>3, <1>4
<1>6. SubSeq(s, a, b) = r
  BY <1>3, <1>5, StretchOf
<1>7. QED
  BY <1>6 DEF r

LEMMA PointOf ==
    ASSUME NEW x \in Vertices, NEW info1 \in FoundInfos, NEW info2 \in FoundInfos
    PROVE  /\ GetCoordinate(x, info1, info2) \in Points
           /\ GetCoordinate(from, info1, info2) = info1.projected_point
           /\ GetCoordinate(to, info1, info2) = info2.projected_point
<1>1. info1.projected_point \in Points /\ info2.projected_point \in Points
  BY DEF Points
<1>2. \A y \in Nodes : [node |-> y] \in Points
  BY DEF Points
<1>3. x = from \/ x = to \/ x \in Nodes
  BY VerticesAre
<1>4. from # to /\ from \notin Nodes /\ to \notin Nodes
  BY VerticesAre
<1>5. QED
  BY <1>1, <1>2, <1>3, <1>4 DEF GetCoordinate

(* The places of one more leg fit on to the route so far: a route that     *)
(* falls into a stretch for each of n legs, with the point where the next  *)
(* one begins left out, and the places of that one, falls into n + 1.      *)
LEMMA OneLegMore ==
    ASSUME NEW n \in Nat, n > 0, NEW path \in Seq(Points),
           NEW cut \in [1 .. n + 1 -> 1 .. Len(path)], CutInto(cut, n, path),
           NEW places \in Seq(Points), Len(places) >= 2, places[1] = path[Len(path)],
           DrivesLeg(places, n + 1)
    PROVE  \E more \in [1 .. n + 2 -> 1 .. Len(Front(path) \o places)] :
               CutInto(more, n + 1, Front(path) \o places)
<1> DEFINE m == Len(path)
           l == Len(places)
           front == SubSeq(path, 1, m - 1)
           new == Front(path) \o places
           more == [i \in 1 .. n + 2 |-> IF i = n + 2 THEN m - 1 + l ELSE cut[i]]
<1>1. m \in Nat /\ l \in Nat /\ l >= 2 /\ \A i \in 1 .. m : path[i] \in Points
  BY ElementOfSeq
<1>2. /\ \A i \in 1 .. n + 1 : cut[i] \in 1 .. m
      /\ cut[1] = 1 /\ cut[n + 1] = m
      /\ \A j \in 1 .. n :
            cut[j] < cut[j + 1] /\ DrivesLeg(SubSeq(path, cut[j], cut[j + 1]), j)
  BY DEF CutInto
<1>3. m >= 1
  <2> HIDE DEF m
  <2>1. 1 \in 1 .. n + 1
    OBVIOUS
  <2>2. 1 \in 1 .. m
    BY <1>2, <2>1
  <2>3. QED
    BY <1>1, <2>2
<1>4. /\ front \in Seq(Points) /\ Len(front) = m - 1
      /\ \A i \in 1 .. m - 1 : front[i] = path[i]
  <2> HIDE DEF m
  <2>1. \A i \in 1 .. m - 1 : path[i] \in Points
    BY <1>1
  <2>2. m - 1 \in Int /\ (m - 1) - 1 + 1 = m - 1 /\ (1 <= m - 1 \/ m - 1 = 0)
    BY <1>1, <1>3
  <2>3. /\ front \in Seq(Points)
        /\ Len(front) = IF 1 <= m - 1 THEN (m - 1) - 1 + 1 ELSE 0
        /\ \A i \in 1 .. (m - 1) - 1 + 1 : front[i] = path[1 + i - 1]
    BY <2>1, <2>2, SubSeqProperties
  <2>4. Len(front) = m - 1
    BY <2>2, <2>3
  <2>5. \A i \in 1 .. m - 1 : 1 + i - 1 = i
    OBVIOUS
  <2>6. QED
    BY <2>2, <2>3, <2>4, <2>5
<1>5. new = front \o places
  BY DEF Front
<1> HIDE DEF front, new
<1>6. /\ new \in Seq(Points) /\ Len(new) = m - 1 + l
      /\ \A i \in 1 .. m - 1 : new[i] = front[i]
      /\ \A i \in 1 .. l : new[m - 1 + i] = places[i]
  <2> HIDE DEF m, l
  <2>1. /\ new \in Seq(Points) /\ Len(new) = Len(front) + Len(places)
        /\ \A i \in 1 .. Len(front) + Len(places) :
              new[i] = IF i <= Len(front) THEN front[i] ELSE places[i - Len(front)]
    BY <1>4, <1>5, ConcatProperties
  <2>2. \A i \in 1 .. m - 1 + l : new[i] = IF i <= m - 1 THEN front[i] ELSE places[i - (m - 1)]
    BY <1>4, <2>1 DEF l
  <2>3. \A i \in 1 .. m - 1 : i \in 1 .. m - 1 + l /\ i <= m - 1
    BY <1>1, <1>3
  <2>5. \A i \in 1 .. m - 1 : new[i] = front[i]
    BY <2>2, <2>3
  <2>6. \A i \in 1 .. l : new[m - 1 + i] = places[i]
    <3> SUFFICES ASSUME NEW i \in 1 .. l PROVE new[m - 1 + i] = places[i]
      OBVIOUS
    <3> DEFINE x == m - 1 + i
    <3>1. x \in 1 .. m - 1 + l /\ ~(x <= m - 1) /\ x - (m - 1) = i
      BY <1>1, <1>3
    <3> HIDE DEF x
    <3>2. new[x] = places[i]
      BY <2>2, <3>1
    <3>3. QED
      BY <3>2 DEF x
  <2>7. QED
    BY <1>4, <2>1, <2>5, <2>6 DEF l
<1>7. \A i \in 1 .. m : new[i] = path[i]
  <2> HIDE DEF l
  <2>1. new[m - 1 + 1] = places[1]
    <3>1. 1 \in 1 .. l
      BY <1>1
    <3>2. QED
      BY <1>6, <3>1, Zenon
  <2>2. places[1] = path[m]
    OBVIOUS
  <2> HIDE DEF m
  <2>3. new[m] = path[m]
    <3>1. m - 1 + 1 = m
      BY <1>1
    <3>2. QED
      BY <2>1, <2>2, <3>1
  <2>4. \A i \in 1 .. m : i \in 1 .. m - 1 \/ i = m
    BY <1>1
  <2>5. QED
    BY <1>4, <1>6, <2>3, <2>4
<1>8. places \in Seq(Points) /\ path \in Seq(Points) /\ l = Len(places) /\ m = Len(path)
  OBVIOUS
<1> HIDE DEF m, l
<1>9. /\ more \in [1 .. n + 2 -> 1 .. Len(new)]
      /\ more[n + 2] = m - 1 + l /\ \A i \in 1 .. n + 1 : more[i] = cut[i]
  <2>1. \A i \in 1 .. n + 1 : i \in 1 .. n + 2 /\ i # n + 2
    OBVIOUS
  <2>2. \A i \in 1 .. n + 2 : i = n + 2 \/ i \in 1 .. n + 1
    OBVIOUS
  <2>3. \A x \in 1 .. m : x \in 1 .. m - 1 + l
    BY <1>1
  <2>4. m - 1 + l \in 1 .. m - 1 + l
    BY <1>1, <1>3
  <2>5. n + 2 \in 1 .. n + 2
    OBVIOUS
  <2>6. QED
    BY <1>2, <1>6, <2>1, <2>2, <2>3, <2>4, <2>5
<1> HIDE DEF more
<1>10. ASSUME NEW j \in 1 .. n
       PROVE  more[j] < more[j + 1] /\ DrivesLeg(SubSeq(new, more[j], more[j + 1]), j)
  <2> DEFINE a == cut[j]
             b == cut[j + 1]
  <2>1. j \in 1 .. n + 1 /\ j + 1 \in 1 .. n + 1
    OBVIOUS
  <2>2. a \in 1 .. m /\ b \in 1 .. m /\ a < b /\ DrivesLeg(SubSeq(path, a, b), j)
    BY <1>2, <2>1
  <2>3. more[j] = a /\ more[j + 1] = b
    BY <1>9, <2>1
  <2> HIDE DEF a, b
  <2>4. /\ a \in Nat \ {0} /\ b \in Nat /\ a <= b /\ b <= m /\ b <= Len(new)
        /\ \A i \in a .. b : new[i] = path[i]
    <3>1. \A i \in a .. b : i \in 1 .. m
      BY <1>1, <2>2
    <3>2. b <= Len(new)
      BY <1>1, <1>6, <2>2
    <3>3. \A i \in a .. b : new[i] = path[i]
      BY <1>7, <3>1
    <3>4. a \in Nat \ {0} /\ b \in Nat /\ a <= b /\ b <= m
      BY <1>1, <2>2
    <3>5. QED
      BY <3>2, <3>3, <3>4
  <2>5. SubSeq(new, a, b) = SubSeq(path, a, b)
    BY <1>6, <1>8, <2>4, SameStretch
  <2>6. QED
    BY <2>2, <2>3, <2>5
<1>11. more[n + 1] < more[n + 2] /\ DrivesLeg(SubSeq(new, more[n + 1], more[n + 2]), n + 1)
  <2> DEFINE b == m - 1 + l
  <2>1. more[n + 1] = m /\ more[n + 2] = b
    BY <1>2, <1>9
  <2>2. m \in Nat \ {0} /\ b \in Nat /\ m < b /\ l = b - m + 1
    BY <1>1, <1>3
  <2>3. b <= Len(new)
    BY <1>1, <1>6
  <2>4. \A i \in 1 .. l : new[m + i - 1] = places[i]
    <3>1. \A i \in 1 .. l : m + i - 1 = m - 1 + i
      BY <1>1
    <3>2. QED
      BY <1>6, <3>1
  <2> HIDE DEF b
  <2>5. SubSeq(new, m, b) = places
    <3>1. Len(places) = b - m + 1 /\ \A i \in 1 .. Len(places) : new[m + i - 1] = places[i]
      BY <2>2, <2>4 DEF l
    <3>2. new \in Seq(Points) /\ places \in Seq(Points)
      BY <1>6
    <3>3. QED
      BY <2>2, <2>3, <3>1, <3>2, StretchOf
  <2>6. QED
    BY <2>1, <2>2, <2>5
<1>12. CutInto(more, n + 1, new)
  <2>1. n + 1 + 1 = n + 2 /\ 1 \in 1 .. n + 1
    OBVIOUS
  <2>2. more[1] = 1 /\ more[n + 2] = Len(new)
    BY <1>2, <1>6, <1>9, <2>1
  <2>3. \A j \in 1 .. n + 1 : j \in 1 .. n \/ (j = n + 1 /\ j + 1 = n + 2)
    OBVIOUS
  <2>4. \A j \in 1 .. n + 1 :
            more[j] < more[j + 1] /\ DrivesLeg(SubSeq(new, more[j], more[j + 1]), j)
    BY <1>10, <1>11, <2>3
  <2>5. QED
    BY <2>1, <2>2, <2>4 DEF CutInto
<1>13. QED
  BY <1>9, <1>12 DEF new

(* The first leg is a route of one stretch.                                *)
LEMMA FirstLeg ==
    ASSUME NEW places \in Seq(Points), Len(places) >= 2, DrivesLeg(places, 1)
    PROVE  \E cut \in [1 .. 2 -> 1 .. Len(places)] : CutInto(cut, 1, places)
<1> DEFINE l == Len(places)
           cut == [i \in 1 .. 2 |-> IF i = 1 THEN 1 ELSE l]
<1>1. l \in Nat /\ l >= 2
  OBVIOUS
<1> HIDE DEF l
<1>2. cut \in [1 .. 2 -> 1 .. l] /\ cut[1] = 1 /\ cut[2] = l
  BY <1>1
<1> HIDE DEF cut
<1>3. SubSeq(places, 1, l) = places
  BY SubSeqFull DEF l
<1>4. \A j \in 1 .. 1 : j = 1 /\ j + 1 = 2
  OBVIOUS
<1>5. CutInto(cut, 1, places)
  <2>1. cut[1] = 1 /\ cut[1 + 1] = Len(places)
    BY <1>2 DEF l
  <2>2. \A j \in 1 .. 1 : cut[j] < cut[j + 1] /\ DrivesLeg(SubSeq(places, cut[j], cut[j + 1]), j)
    <3>1. cut[1] < cut[2]
      BY <1>1, <1>2
    <3>2. SubSeq(places, cut[1], cut[2]) = places
      BY <1>2, <1>3
    <3>3. DrivesLeg(SubSeq(places, cut[1], cut[2]), 1)
      BY <3>2
    <3>4. QED
      BY <1>4, <3>1, <3>3
  <2>3. QED
    BY <2>1, <2>2 DEF CutInto
<1>6. QED
  BY <1>2, <1>5 DEF l

LEMMA TravelLegInv ==
    ASSUME IInv, TravelLeg
    PROVE  IInv'
<1> DEFINE n == Len(nearest_edges_info)
<1>1. PICK sp \in LeastRoutes(Info1, Info2) :
        path_coordinates' = DropJoint(path_coordinates) \o
            [j \in DOMAIN sp |-> GetCoordinate(sp[j], Info1, Info2)]
  BY DEF TravelLeg
<1> DEFINE places == [j \in DOMAIN sp |-> GetCoordinate(sp[j], Info1, Info2)]
           l == Len(sp)
<1>2. /\ pc = "route" /\ legs' = legs + 1
      /\ pc' = IF legs' = n - 1 THEN "send" ELSE "route"
      /\ message' = message /\ coordinates' = coordinates /\ k' = k
      /\ nearest_edges_info' = nearest_edges_info /\ reply' = reply
  BY DEF TravelLeg
<1>3. /\ Parsed /\ SnappedInOrder /\ WellFormed(message)
      /\ 2 * Len(coordinates) = Len(message)
      /\ n = Len(coordinates) /\ legs \in Nat /\ legs < n - 1 /\ reply = NoReply
  BY <1>2 DEF IInv, InStage, RoutedInOrder
<1>4. /\ n \in Nat
      /\ \A j \in 1 .. n : Infos[j] = nearest_edges_info[j] /\ nearest_edges_info[j] \in FoundInfos
  <2>1. nearest_edges_info \in Seq(FoundInfos)
    BY <1>3 DEF SnappedInOrder
  <2>2. QED
    BY <1>3, <2>1, AllSnapped, ElementOfSeq
<1>5. legs + 1 \in 1 .. n /\ legs + 1 + 1 \in 1 .. n /\ legs + 1 + 1 = legs + 2
  <2> HIDE DEF n
  <2>1. QED
    BY <1>3, <1>4
<1>6. /\ Info1 \in FoundInfos /\ Info2 \in FoundInfos
      /\ Infos[legs + 1] = Info1 /\ Infos[legs + 1 + 1] = Info2
  BY <1>4, <1>5 DEF Info1, Info2
<1>7. /\ sp \in Seq(Vertices) /\ l >= 2 /\ l \in Nat /\ DOMAIN sp = 1 .. l
      /\ sp[1] = from /\ sp[l] = to /\ \A j \in 1 .. l : sp[j] \in Vertices
  BY RouteShape, ElementOfSeq
<1>8. /\ places \in Seq(Points) /\ Len(places) = l
      /\ places[1] = Info1.projected_point
  <2>1. \A j \in 1 .. l : GetCoordinate(sp[j], Info1, Info2) \in Points
    BY <1>6, <1>7, PointOf
  <2>2. places \in Seq(Points) /\ Len(places) = l
    <3> HIDE DEF l
    <3>1. QED
      BY <1>7, <2>1
  <2>3. 1 \in 1 .. l
    <3> HIDE DEF l
    <3>1. QED
      BY <1>7
  <2>4. places[1] = Info1.projected_point
    BY <1>6, <1>7, <2>3, PointOf, VerticesAre
  <2>5. QED
    BY <2>2, <2>4
<1>9. DrivesLeg(places, legs + 1)
  BY <1>6 DEF DrivesLeg
<1> HIDE DEF places, l
<1>10. path_coordinates \in Seq(Points)
  BY DEF IInv, RoutedInOrder
<1>11. /\ path_coordinates' \in Seq(Points)
       /\ \E cut \in [1 .. legs + 2 -> 1 .. Len(path_coordinates')] :
              CutInto(cut, legs + 1, path_coordinates')
  <2>1. CASE legs = 0
    <3>1. path_coordinates = <<>>
      BY <2>1 DEF IInv, RoutedInOrder
    <3>2. path_coordinates' = places
      BY <1>1, <1>8, <2>1, <3>1 DEF DropJoint, places
    <3>3. \E cut \in [1 .. 2 -> 1 .. Len(places)] : CutInto(cut, 1, places)
      <4>1. Len(places) >= 2 /\ DrivesLeg(places, 1)
        BY <1>7, <1>8, <1>9, <2>1
      <4>2. QED
        BY <1>8, <4>1, FirstLeg
    <3>4. legs + 2 = 2 /\ legs + 1 = 1
      BY <2>1
    <3>5. QED
      BY <1>8, <3>2, <3>3, <3>4
  <2>2. CASE legs # 0
    <3> DEFINE path == path_coordinates
               m == Len(path)
    <3>1. legs > 0
      BY <1>3, <2>2
    <3>2. PICK cut \in [1 .. legs + 1 -> 1 .. m] : CutInto(cut, legs, path)
      BY <3>1 DEF IInv, RoutedInOrder
    <3>3. path' = Front(path) \o places
      BY <1>1, <3>1 DEF DropJoint, places
    <3> DEFINE a == cut[legs]
    <3>4. /\ a \in 1 .. m /\ cut[legs + 1] = m /\ a < m /\ m \in Nat
          /\ DrivesLeg(SubSeq(path, a, m), legs)
      <4>1. legs \in 1 .. legs /\ legs \in 1 .. legs + 1
        BY <1>3, <3>1
      <4>2. QED
        BY <1>10, <3>2, <4>1 DEF CutInto
    <3>5. Infos[legs + 1] = Info1 /\ legs \in 1 .. n /\ Infos[legs] \in FoundInfos
      <4>1. legs \in 1 .. n
        <5> HIDE DEF n
        <5>1. QED
          BY <1>3, <1>4, <3>1
      <4>2. QED
        BY <1>4, <1>6, <4>1
    <3>6. PICK p \in LeastRoutes(Infos[legs], Info1) :
            SubSeq(path, a, m) = [j \in DOMAIN p |-> GetCoordinate(p[j], Infos[legs], Info1)]
      BY <3>4, <3>5 DEF DrivesLeg
    <3> DEFINE q == Len(p)
               last == SubSeq(path, a, m)
    <3>7. q \in Nat /\ q >= 2 /\ DOMAIN p = 1 .. q /\ p[q] = to
      BY RouteShape
    <3>8. \A i \in 1 .. m : path[i] \in Points
      BY <1>10, ElementOfSeq
    <3> HIDE DEF a, m, q
    <3>9. Len(last) = m - a + 1 /\ \A i \in 1 .. m - a + 1 : last[i] = path[a + i - 1]
      <4>1. a \in Int /\ m \in Int /\ a <= m /\ \A i \in a .. m : path[i] \in Points
        BY <3>4, <3>8
      <4>2. QED
        BY <4>1, SubSeqProperties
    <3>10. Len(last) = q /\ \A i \in 1 .. q : last[i] = GetCoordinate(p[i], Infos[legs], Info1)
      BY <3>6, <3>7
    <3> HIDE DEF last
    <3>11. last[q] = Info1.projected_point
      <4>1. q \in 1 .. q
        BY <3>7
      <4>2. QED
        BY <1>6, <3>5, <3>7, <3>10, <4>1, PointOf, VerticesAre
    <3>12. last[q] = path[m]
      <4>1. q \in 1 .. m - a + 1 /\ a + q - 1 = m
        <5>1. q = m - a + 1
          BY <3>9, <3>10
        <5>2. QED
          BY <3>4, <3>7, <5>1
      <4>2. QED
        BY <3>9, <4>1
    <3>13. places[1] = path[Len(path)]
      BY <1>8, <3>11, <3>12 DEF m
    <3>14. \E more \in [1 .. legs + 2 -> 1 .. Len(Front(path) \o places)] :
               CutInto(more, legs + 1, Front(path) \o places)
      <4>1. Len(places) >= 2
        BY <1>7, <1>8
      <4>2. cut \in [1 .. legs + 1 -> 1 .. Len(path)]
        BY <3>2 DEF m
      <4>3. QED
        BY <1>3, <1>8, <1>9, <1>10, <3>1, <3>2, <3>13, <4>1, <4>2, OneLegMore
    <3>15. Front(path) \o places \in Seq(Points)
      <4>1. Front(path) \in Seq(Points)
        <5>1. m - 1 \in Int /\ \A i \in 1 .. m - 1 : path[i] \in Points
          BY <3>4, <3>8
        <5>2. SubSeq(path, 1, m - 1) \in Seq(Points)
          BY <5>1, SubSeqProperties
        <5>3. QED
          BY <5>2 DEF Front, m
      <4>2. QED
        BY <1>8, <4>1, ConcatProperties
    <3>16. QED
      BY <3>3, <3>14, <3>15
  <2>3. QED
    BY <2>1, <2>2
<1>12. Parsed'
  BY <1>2 DEF IInv, Parsed
<1>13. SnappedInOrder'
  BY <1>2 DEF IInv, SnappedInOrder
<1>14. RoutedInOrder'
  <2>1. /\ legs' \in Nat /\ legs' # 0 /\ legs' + 1 = legs + 2 /\ legs' = legs + 1
        /\ legs' < Len(nearest_edges_info')
    <3> HIDE DEF n
    <3>1. legs' < n
      BY <1>2, <1>3, <1>4
    <3>2. QED
      BY <1>2, <1>3, <3>1 DEF n
  <2>2. \E cut \in [1 .. legs' + 1 -> 1 .. Len(path_coordinates')] :
              CutInto(cut, legs', path_coordinates')
    BY <1>11, <2>1
  <2>3. \E cut \in [1 .. legs' + 1 -> 1 .. Len(path_coordinates')] :
              CutInto(cut, legs, path_coordinates)'
    BY <1>2, <2>2, SameQuery
  <2>4. QED
    BY <1>11, <2>1, <2>3 DEF RoutedInOrder
<1>15. InStage'
  <2>1. WellFormed(message') /\ 2 * Len(coordinates') = Len(message') /\ reply' = NoReply
        /\ Len(nearest_edges_info') = Len(coordinates')
    BY <1>2, <1>3
  <2>2. legs' < n - 1 \/ legs' = n - 1
    <3> HIDE DEF n
    <3>1. QED
      BY <1>2, <1>3, <1>4
  <2>3. QED
    BY <1>2, <2>1, <2>2 DEF InStage
<1>16. RouteServesTheQuery' /\ RefusedForAReason'
  BY <1>2 DEF RouteServesTheQuery, RefusedForAReason, Answered
<1>17. QED
  BY <1>12, <1>13, <1>14, <1>15, <1>16 DEF IInv

LEMMA SendInv ==
    ASSUME IInv, Send
    PROVE  IInv'
<1> DEFINE n == Len(nearest_edges_info)
<1>1. /\ pc = "send" /\ reply' = [route |-> path_coordinates] /\ pc' = "idle"
      /\ message' = message /\ coordinates' = coordinates /\ k' = k
      /\ nearest_edges_info' = nearest_edges_info /\ legs' = legs
      /\ path_coordinates' = path_coordinates
  BY DEF Send, work
<1>2. /\ Parsed /\ SnappedInOrder /\ WellFormed(message)
      /\ 2 * Len(coordinates) = Len(message)
      /\ n = Len(coordinates) /\ legs \in Nat /\ legs = n - 1
  BY <1>1 DEF IInv, InStage, RoutedInOrder
<1>3. n >= 2 /\ n \in Nat /\ Len(Places(message)) = n /\ Proper(message)
  BY <1>2, AllParsed
<1>4. legs > 0 /\ legs + 1 = n
  <2> HIDE DEF n
  <2>1. QED
    BY <1>2, <1>3
<1>5. PICK cut \in [1 .. legs + 1 -> 1 .. Len(path_coordinates)] :
        CutInto(cut, legs, path_coordinates)
  BY <1>4 DEF IInv, RoutedInOrder
<1>6. RouteServesTheQuery'
  <2>1. /\ cut \in [1 .. n -> 1 .. Len(path_coordinates)]
        /\ cut[1] = 1 /\ cut[n] = Len(path_coordinates)
        /\ \A j \in 1 .. n - 1 :
             /\ cut[j] < cut[j + 1]
             /\ DrivesLeg(SubSeq(path_coordinates, cut[j], cut[j + 1]), j)
    BY <1>2, <1>4, <1>5 DEF CutInto
  <2>2. /\ cut[1] = 1 /\ cut[n] = Len(path_coordinates)
        /\ \A j \in 1 .. n - 1 :
             /\ cut[j] < cut[j + 1]
             /\ DrivesLeg(SubSeq(path_coordinates, cut[j], cut[j + 1]), j)'
    BY <1>1, <2>1, SameQuery
  <2>3. /\ reply'.route = path_coordinates /\ Len(Places(message)') = n /\ Proper(message)'
    BY <1>1, <1>3
  <2>4. QED
    BY <1>1, <2>1, <2>2, <2>3 DEF RouteServesTheQuery
<1>7. RefusedForAReason'
  <2>1. DOMAIN reply' # {"error"}
    BY <1>1
  <2>2. QED
    BY <2>1 DEF RefusedForAReason
<1>8. Parsed'
  BY <1>1 DEF IInv, Parsed
<1>9. SnappedInOrder'
  BY <1>1 DEF IInv, SnappedInOrder
<1>10. RoutedInOrder'
  BY <1>1, SameQuery DEF IInv, RoutedInOrder
<1>11. InStage'
  BY <1>1 DEF InStage
<1>12. QED
  BY <1>6, <1>7, <1>8, <1>9, <1>10, <1>11 DEF IInv

LEMMA ReceiveInv ==
    ASSUME IInv, Receive
    PROVE  IInv'
<1>1. /\ pc' = "parse" /\ reply' = NoReply /\ coordinates' = <<>> /\ k' = 0
      /\ nearest_edges_info' = <<>> /\ legs' = 0 /\ path_coordinates' = <<>>
  BY DEF Receive
<1>2. message' \in Seq(Tokens)
  <2>1. PICK msg \in Messages : message' = Tokenize(msg, Blank)
    BY DEF Receive
  <2>2. msg \in Seq((Int \cup Words) \cup {Blank}) /\ Blank \notin Int \cup Words
    BY ServerAssumption
  <2>3. QED
    BY <2>1, <2>2, TokensOf DEF Tokens
<1>3. Parsed'
  BY <1>1, <1>2 DEF Parsed
<1>4. SnappedInOrder'
  BY <1>1, ServerAssumption DEF SnappedInOrder
<1>5. RoutedInOrder'
  BY <1>1 DEF RoutedInOrder
<1>6. InStage'
  BY <1>1 DEF InStage
<1>7. RouteServesTheQuery' /\ RefusedForAReason'
  BY <1>1 DEF RouteServesTheQuery, RefusedForAReason, Answered
<1>8. QED
  BY <1>3, <1>4, <1>5, <1>6, <1>7 DEF IInv

LEMMA NextInv == IInv /\ [Next]_vars => IInv'
<1> SUFFICES ASSUME IInv, [Next]_vars PROVE IInv'
  OBVIOUS
<1>1. CASE UNCHANGED vars
  <2>1. /\ message' = message /\ coordinates' = coordinates /\ k' = k
        /\ nearest_edges_info' = nearest_edges_info /\ legs' = legs
        /\ path_coordinates' = path_coordinates /\ pc' = pc /\ reply' = reply
    BY <1>1 DEF vars, work
  <2>2. Parsed'
    BY <2>1 DEF IInv, Parsed
  <2>3. Here' = Here
    BY <2>1 DEF Here
  <2>4. SnappedInOrder'
    BY <2>1, <2>3 DEF IInv, SnappedInOrder
  <2>5. RoutedInOrder'
    BY <2>1, SameQuery DEF IInv, RoutedInOrder
  <2>6. InStage'
    BY <2>1 DEF IInv, InStage
  <2>7. RouteServesTheQuery'
    <3>1. \A stretch, j : DrivesLeg(stretch, j)' <=> DrivesLeg(stretch, j)
      BY <2>1, SameQuery
    <3>2. QED
      BY <2>1, <3>1 DEF IInv, RouteServesTheQuery, Answered
  <2>8. RefusedForAReason'
    <3>1. Answered /\ DOMAIN reply = {"error"} => Excused(reply.error)
      BY DEF IInv, RefusedForAReason, Excused
    <3>2. (Answered /\ DOMAIN reply = {"error"} => Excused(reply.error))'
      BY <2>1, <3>1, SameQuery DEF Answered
    <3>3. QED
      BY <3>2 DEF RefusedForAReason, Excused
  <2>9. QED
    BY <2>2, <2>4, <2>5, <2>6, <2>7, <2>8 DEF IInv
<1>2. CASE Receive
  BY <1>2, ReceiveInv
<1>3. CASE RejectFormat \/ RejectWord \/ RejectPlace \/ ParsePlace
  BY <1>3, RejectFormatInv, RejectWordInv, RejectPlaceInv, ParsePlaceInv
<1>4. CASE Widen \/ RejectIsolated \/ Snap \/ RejectFarOff \/ ReadUnsetNode
  BY <1>4, WidenInv, RejectIsolatedInv, SnapInv, RejectFarOffInv, ReadUnsetNodeInv
<1>5. CASE RejectNoPath \/ TravelLeg \/ Send
  BY <1>5, RejectNoPathInv, TravelLegInv, SendInv
<1>6. QED
  BY <1>1, <1>2, <1>3, <1>4, <1>5 DEF Next, Handle

THEOREM Invariant == Spec => []IInv
BY InitInv, NextInv, PTL DEF Spec

(* The handler never gets ahead of itself, in whatever order coordinates   *)
(* are near roads or far from them: what it has parsed, snapped and routed *)
(* fits the message it handles.                                            *)
THEOREM TypeCorrect == Spec => []TypeOK
<1>1. ASSUME IInv PROVE TypeOK
  <2>1. \A j \in DOMAIN message : message[j] # <<>> /\ Blank \notin Range(message[j])
    <3> SUFFICES ASSUME NEW j \in DOMAIN message
                 PROVE  message[j] # <<>> /\ Blank \notin Range(message[j])
      OBVIOUS
    <3>1. message[j] \in Tokens
      BY <1>1 DEF IInv, Parsed
    <3>2. Range(message[j]) \subseteq Int \cup Words
      BY <3>1 DEF Tokens, Range
    <3>3. QED
      BY <3>1, <3>2, ServerAssumption DEF Tokens
  <2>2. DOMAIN nearest_edges_info = 1 .. Len(nearest_edges_info)
    BY <1>1 DEF IInv, SnappedInOrder
  <2>3. legs = 0 \/ legs < Len(nearest_edges_info)
    BY <1>1 DEF IInv, RoutedInOrder
  <2>4. QED
    BY <1>1, <2>1, <2>2, <2>3 DEF IInv, InStage, Parsed, SnappedInOrder, TypeOK
<1>2. QED
  BY <1>1, Invariant, PTL

(* A route that is sent drives every leg of the query at the least cost,   *)
(* in order, and passes every point where two legs meet once.              *)
THEOREM RoutesServe == Spec => []RouteServesTheQuery
<1>1. IInv => RouteServesTheQuery
  BY DEF IInv
<1>2. QED
  BY <1>1, Invariant, PTL

(* An error names a fault the query has: a query is refused as isolated or *)
(* without a path only if some leg of it cannot be driven, or a coordinate *)
(* is near no road at all.                                                 *)
THEOREM RefusalsAreDue == Spec => []RefusedForAReason
<1>1. IInv => RefusedForAReason
  BY DEF IInv
<1>2. QED
  BY <1>1, Invariant, PTL
=============================================================================
