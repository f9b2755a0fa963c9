--------------------------- MODULE QueryLegProofs ---------------------------
(***************************************************************************)
(* Proofs about QueryLeg: for every number of nodes, every roads that      *)
(* AddEdge joins them by and every two places on these roads, the virtual  *)
(* nodes bring no nodes nearer to each other, and the least cost from one  *)
(* virtual node to the other is that of driving from place to place.       *)
(***************************************************************************)
EXTENDS QueryLeg, WeightedGraphsProofs

-----------------------------------------------------------------------------
(* The adjacency lists, seen as which elements there are: u's list has one *)
(* that leads to v at cost w and bears the mark t.                         *)

Marks == {FORWARD_EDGE, BACKWARD_EDGE, DOUBLE_WAY_EDGE}

Lists == [Nodes -> Seq(AdjListElements(Nodes, Nat))]

Listed(lists, u, v, w, t) ==
    \E k \in DOMAIN lists[u] :
        lists[u][k].v = v /\ lists[u][k].w = w /\ lists[u][k].edge_type = t

(* What is written at the one end of a road stands at its other end too.   *)
Mirrored(lists) ==
    \A u, v \in Nodes : \A w \in Nat :
        /\ Listed(lists, u, v, w, FORWARD_EDGE) <=> Listed(lists, v, u, w, BACKWARD_EDGE)
        /\ Listed(lists, u, v, w, DOUBLE_WAY_EDGE) => Listed(lists, v, u, w, DOUBLE_WAY_EDGE)

LEMMA MarksDiffer ==
    /\ FORWARD_EDGE # BACKWARD_EDGE /\ FORWARD_EDGE # DOUBLE_WAY_EDGE
    /\ BACKWARD_EDGE # DOUBLE_WAY_EDGE
    /\ NULL_EDGE \notin Marks
BY DEF FORWARD_EDGE, BACKWARD_EDGE, DOUBLE_WAY_EDGE, NULL_EDGE, Marks

LEMMA ListedType ==
    ASSUME NEW lists \in Lists, NEW u \in Nodes, NEW v, NEW w, NEW t, Listed(lists, u, v, w, t)
    PROVE  v \in Nodes /\ w \in Nat /\ t \in Marks
<1>1. PICK k \in DOMAIN lists[u] :
        lists[u][k].v = v /\ lists[u][k].w = w /\ lists[u][k].edge_type = t
  BY DEF Listed
<1>2. lists[u] \in Seq(AdjListElements(Nodes, Nat))
  BY DEF Lists
<1>3. lists[u][k] \in AdjListElements(Nodes, Nat)
  BY <1>2
<1>4. QED
  BY <1>1, <1>3 DEF AdjListElements, Marks

LEMMA PushBackLists ==
    ASSUME NEW lists \in Lists, NEW u \in Nodes, NEW e \in AdjListElements(Nodes, Nat)
    PROVE  /\ PushBack(lists, u, e) \in Lists
           /\ \A x \in Nodes : \A v, w, t :
                Listed(PushBack(lists, u, e), x, v, w, t) <=>
                    \/ Listed(lists, x, v, w, t)
                    \/ x = u /\ e.v = v /\ e.w = w /\ e.edge_type = t
<1> DEFINE list == lists[u]
           longer == Append(list, e)
<1>1. list \in Seq(AdjListElements(Nodes, Nat))
  BY DEF Lists
<1> HIDE DEF list
<1>2. /\ longer \in Seq(AdjListElements(Nodes, Nat))
      /\ DOMAIN longer = (DOMAIN list) \cup {Len(list) + 1}
      /\ longer[Len(list) + 1] = e
      /\ \A k \in DOMAIN list : longer[k] = list[k]
  BY <1>1
<1> HIDE DEF longer
<1>3. PushBack(lists, u, e) = [lists EXCEPT ![u] = longer]
  BY DEF PushBack, longer, list
<1>4. PushBack(lists, u, e) \in Lists
  BY <1>2, <1>3 DEF Lists
<1>5. DOMAIN lists = Nodes
  BY DEF Lists
<1>6. ASSUME NEW x \in Nodes, NEW v, NEW w, NEW t
      PROVE  Listed(PushBack(lists, u, e), x, v, w, t) <=>
                 \/ Listed(lists, x, v, w, t)
                 \/ x = u /\ e.v = v /\ e.w = w /\ e.edge_type = t
  <2>1. CASE x = u
    <3>1. PushBack(lists, u, e)[x] = longer /\ lists[x] = list
      BY <1>3, <1>5, <2>1 DEF list
    <3>2. QED
      BY <1>2, <2>1, <3>1 DEF Listed
  <2>2. CASE x # u
    <3>1. PushBack(lists, u, e)[x] = lists[x]
      BY <1>3, <1>5, <2>2
    <3>2. QED
      BY <2>2, <3>1 DEF Listed
  <2>3. QED
    BY <2>1, <2>2
<1>7. QED
  BY <1>4, <1>6

LEMMA AddEdgeLists ==
    ASSUME NEW lists \in Lists, Mirrored(lists), NEW c \in RoadCalls
    PROVE  LET added == AddEdge(lists, c.u, c.v, c.w, c.double_way, c.is_startpoint)
           IN  added \in Lists /\ Mirrored(added)
<1> DEFINE mark == IF c.double_way THEN DOUBLE_WAY_EDGE ELSE FORWARD_EDGE
           near == AdjListElement(c.v, c.w, mark, c.is_startpoint)
           far == AdjListElement(c.u, c.w, FarMark(c.double_way), c.is_startpoint)
           first == PushBack(lists, c.u, near)
           added == PushBack(first, c.v, far)
<1>1. c.u \in Nodes /\ c.v \in Nodes /\ c.w \in Nat /\ c.double_way \in BOOLEAN /\ c.is_startpoint \in BOOLEAN
  BY DEF RoadCalls
<1>2. /\ near \in AdjListElements(Nodes, Nat) /\ far \in AdjListElements(Nodes, Nat)
      /\ near.v = c.v /\ near.w = c.w /\ near.edge_type = mark
      /\ far.v = c.u /\ far.w = c.w /\ far.edge_type = FarMark(c.double_way)
  BY <1>1 DEF AdjListElement, AdjListElements, FarMark
<1>3. \/ mark = DOUBLE_WAY_EDGE /\ FarMark(c.double_way) = DOUBLE_WAY_EDGE
      \/ mark = FORWARD_EDGE /\ FarMark(c.double_way) = BACKWARD_EDGE
  BY <1>1 DEF FarMark
<1>4. added = AddEdge(lists, c.u, c.v, c.w, c.double_way, c.is_startpoint)
  BY DEF AddEdge
<1> HIDE DEF near, far, mark
<1>5. /\ first \in Lists
      /\ \A x \in Nodes : \A v, w, t :
            Listed(first, x, v, w, t) <=>
                \/ Listed(lists, x, v, w, t)
                \/ x = c.u /\ v = c.v /\ w = c.w /\ t = mark
  BY <1>1, <1>2, PushBackLists
<1> HIDE DEF first
<1>6. /\ added \in Lists
      /\ \A x \in Nodes : \A v, w, t :
            Listed(added, x, v, w, t) <=>
                \/ Listed(first, x, v, w, t)
                \/ x = c.v /\ v = c.u /\ w = c.w /\ t = FarMark(c.double_way)
  BY <1>1, <1>2, <1>5, PushBackLists
<1> HIDE DEF added
<1>7. Mirrored(added)
  BY <1>3, <1>5, <1>6, MarksDiffer DEF Mirrored
<1>8. QED
  BY <1>4, <1>6, <1>7

-----------------------------------------------------------------------------
(* What can be travelled, and what may be reported.                        *)

LEMMA TravelIs ==
    ASSUME NEW lists \in Lists
    PROVE  /\ \A e \in TravelGraph(lists) :
                /\ e = <<e[1], e[2], e[3]>>
                /\ e[1] \in Nodes /\ e[2] \in Nodes /\ e[3] \in Nat
           /\ \A u \in Nodes : \A v, w :
                <<u, v, w>> \in TravelGraph(lists) <=>
                    \/ Listed(lists, u, v, w, FORWARD_EDGE)
                    \/ Listed(lists, u, v, w, DOUBLE_WAY_EDGE)
<1>1. DOMAIN lists = Nodes
  BY DEF Lists
<1>2. ASSUME NEW e \in TravelGraph(lists)
      PROVE  /\ e = <<e[1], e[2], e[3]>> /\ e[1] \in Nodes
             /\ \/ Listed(lists, e[1], e[2], e[3], FORWARD_EDGE)
                \/ Listed(lists, e[1], e[2], e[3], DOUBLE_WAY_EDGE)
  <2>1. PICK u \in Nodes : e \in {<<u, x.v, x.w>> : x \in Elements(GetForwardEdges(lists, u))}
    BY <1>1 DEF TravelGraph
  <2>2. PICK x \in Elements(GetForwardEdges(lists, u)) : e = <<u, x.v, x.w>>
    BY <2>1
  <2>3. PICK k \in DOMAIN lists[u] : lists[u][k].edge_type # BACKWARD_EDGE /\ x = lists[u][k]
    BY <2>2 DEF Elements, GetForwardEdges
  <2>4. Listed(lists, u, x.v, x.w, x.edge_type)
    BY <2>3 DEF Listed
  <2>5. x.edge_type = FORWARD_EDGE \/ x.edge_type = DOUBLE_WAY_EDGE
    BY <2>3, <2>4, ListedType DEF Marks
  <2>6. e[1] = u /\ e[2] = x.v /\ e[3] = x.w
    BY <2>2
  <2>7. QED
    BY <2>2, <2>4, <2>5, <2>6
<1>3. ASSUME NEW u \in Nodes, NEW v, NEW w, NEW t, Listed(lists, u, v, w, t), t # BACKWARD_EDGE
      PROVE  <<u, v, w>> \in TravelGraph(lists)
  <2>1. PICK k \in DOMAIN lists[u] :
          lists[u][k].v = v /\ lists[u][k].w = w /\ lists[u][k].edge_type = t
    BY <1>3 DEF Listed
  <2>2. lists[u][k] \in Elements(GetForwardEdges(lists, u))
    BY <1>3, <2>1 DEF Elements, GetForwardEdges
  <2>3. QED
    BY <1>1, <2>1, <2>2 DEF TravelGraph
<1>4. ASSUME NEW e \in TravelGraph(lists)
      PROVE  /\ e = <<e[1], e[2], e[3]>>
             /\ e[1] \in Nodes /\ e[2] \in Nodes /\ e[3] \in Nat
  BY <1>2, ListedType
<1>5. ASSUME NEW u \in Nodes, NEW v, NEW w, <<u, v, w>> \in TravelGraph(lists)
      PROVE  Listed(lists, u, v, w, FORWARD_EDGE) \/ Listed(lists, u, v, w, DOUBLE_WAY_EDGE)
  <2> DEFINE e == <<u, v, w>>
  <2>1. e[1] = u /\ e[2] = v /\ e[3] = w /\ e \in TravelGraph(lists)
    BY <1>5
  <2> HIDE DEF e
  <2>2. QED
    BY <1>2, <2>1
<1>6. QED
  BY <1>3, <1>4, <1>5, MarksDiffer

(* A reported edge leads from one of its nodes to the other and can be     *)
(* travelled; its type says whether it is open the other way too, unless   *)
(* the way back is a road of its own.                                      *)
LEMMA ReportedIs ==
    ASSUME NEW lists \in Lists, Mirrored(lists), NEW e \in Reported(lists)
    PROVE  /\ e.u \in Nodes /\ e.v \in Nodes /\ e.w \in Nat
           /\ <<e.u, e.v, e.w>> \in TravelGraph(lists)
           /\ e.type = DOUBLE_WAY_EDGE => Listed(lists, e.u, e.v, e.w, DOUBLE_WAY_EDGE)
           /\ e.type # DOUBLE_WAY_EDGE => Listed(lists, e.u, e.v, e.w, FORWARD_EDGE)
<1>1. PICK A \in Nodes :
        e \in {IF x.edge_type = BACKWARD_EDGE THEN Edge(x.v, A, x.w, x.edge_type)
               ELSE Edge(A, x.v, x.w, x.edge_type) :
                    x \in {y \in Elements(lists[A]) : y.is_startpoint}}
  BY DEF Reported
<1>2. PICK x \in Elements(lists[A]) :
        e = IF x.edge_type = BACKWARD_EDGE THEN Edge(x.v, A, x.w, x.edge_type)
            ELSE Edge(A, x.v, x.w, x.edge_type)
  BY <1>1
<1>3. Listed(lists, A, x.v, x.w, x.edge_type)
  BY <1>2 DEF Elements, Listed
<1>4. x.v \in Nodes /\ x.w \in Nat /\ x.edge_type \in Marks
  BY <1>3, ListedType
<1>5. CASE x.edge_type = BACKWARD_EDGE
  <2>1. e.u = x.v /\ e.v = A /\ e.w = x.w /\ e.type = BACKWARD_EDGE
    BY <1>2, <1>5 DEF Edge
  <2>2. Listed(lists, e.u, e.v, e.w, FORWARD_EDGE)
    BY <1>3, <1>4, <1>5, <2>1 DEF Mirrored
  <2>3. QED
    BY <1>4, <2>1, <2>2, TravelIs, MarksDiffer
<1>6. CASE x.edge_type # BACKWARD_EDGE
  <2>1. e.u = A /\ e.v = x.v /\ e.w = x.w /\ e.type = x.edge_type
    BY <1>2, <1>6 DEF Edge
  <2>2. Listed(lists, e.u, e.v, e.w, e.type) /\ (e.type = FORWARD_EDGE \/ e.type = DOUBLE_WAY_EDGE)
    BY <1>3, <1>4, <1>6, <2>1 DEF Marks
  <2>3. QED
    BY <1>4, <2>1, <2>2, TravelIs, MarksDiffer
<1>7. QED
  BY <1>5, <1>6

(* The one-way edge that is found is there, and if there is any it is found. *)
LEMMA FoundIs ==
    ASSUME NEW lists \in Lists, NEW u \in Nodes, NEW v
    PROVE  LET e == FindForwardEdge(lists, u, v)
           IN  /\ e.type # NULL_EDGE => Listed(lists, u, v, e.w, FORWARD_EDGE)
               /\ e.type = NULL_EDGE => \A w : ~Listed(lists, u, v, w, FORWARD_EDGE)
<1> DEFINE list == lists[u]
           found == {k \in DOMAIN list : list[k].v = v /\ list[k].edge_type = FORWARD_EDGE}
           e == FindForwardEdge(lists, u, v)
<1>1. list \in Seq(AdjListElements(Nodes, Nat))
  BY DEF Lists
<1>2. CASE found = {}
  <2>1. e = Edge(u, v, 0, NULL_EDGE)
    BY <1>2, Zenon DEF FindForwardEdge
  <2>2. e.type = NULL_EDGE
    BY <2>1 DEF Edge
  <2>3. \A w : ~Listed(lists, u, v, w, FORWARD_EDGE)
    BY <1>2 DEF Listed
  <2>4. QED
    BY <2>2, <2>3
<1>3. CASE found # {}
  <2>1. found \subseteq Nat
    BY <1>1
  <2>2. Least(found) \in found
    <3> HIDE DEF found
    <3>1. QED
      BY <1>3, <2>1, LeastOf
  <2> DEFINE k == Least(found)
             x == list[k]
  <2>3. k \in DOMAIN list /\ x.v = v /\ x.edge_type = FORWARD_EDGE
    BY <2>2, Zenon
  <2>4. e = Edge(u, x.v, x.w, x.edge_type)
    BY <1>3 DEF FindForwardEdge
  <2> HIDE DEF k, found
  <2>5. e.w = x.w /\ e.type = FORWARD_EDGE
    BY <2>3, <2>4 DEF Edge
  <2>6. Listed(lists, u, v, e.w, FORWARD_EDGE)
    BY <2>3, <2>5 DEF Listed
  <2>7. FORWARD_EDGE # NULL_EDGE
    BY DEF FORWARD_EDGE, NULL_EDGE
  <2>8. QED
    BY <2>5, <2>6, <2>7
<1>4. QED
  BY <1>2, <1>3

(* What it costs to drive a reported edge backwards is what some road back *)
(* costs; there is one such cost at most.                                  *)
LEMMA BackCostsAre ==
    ASSUME NEW lists \in Lists, Mirrored(lists), NEW e \in Reported(lists)
    PROVE  /\ \A back \in BackCosts(lists, e) :
                back \in Nat /\ <<e.v, e.u, back>> \in TravelGraph(lists)
           /\ BackCosts(lists, e) # {} => \E back \in Nat : BackCosts(lists, e) = {back}
<1>1. e.u \in Nodes /\ e.v \in Nodes /\ e.w \in Nat
  BY ReportedIs
<1>2. CASE e.type = DOUBLE_WAY_EDGE
  <2>1. BackCosts(lists, e) = {e.w}
    BY <1>2 DEF BackCosts
  <2>2. Listed(lists, e.v, e.u, e.w, DOUBLE_WAY_EDGE)
    BY <1>1, <1>2, ReportedIs DEF Mirrored
  <2>3. <<e.v, e.u, e.w>> \in TravelGraph(lists)
    BY <1>1, <2>2, TravelIs
  <2>4. QED
    BY <1>1, <2>1, <2>3
<1>3. CASE e.type # DOUBLE_WAY_EDGE
  <2> DEFINE e3 == FindForwardEdge(lists, e.v, e.u)
  <2>1. BackCosts(lists, e) = IF e3.type = NULL_EDGE THEN {} ELSE {e3.w}
    BY <1>3 DEF BackCosts
  <2>2. e3.type # NULL_EDGE => Listed(lists, e.v, e.u, e3.w, FORWARD_EDGE)
    BY <1>1, FoundIs
  <2> HIDE DEF e3
  <2>3. CASE e3.type = NULL_EDGE
    BY <2>1, <2>3
  <2>4. CASE e3.type # NULL_EDGE
    <3>1. e3.w \in Nat
      BY <1>1, <2>2, <2>4, ListedType
    <3>2. <<e.v, e.u, e3.w>> \in TravelGraph(lists)
      BY <1>1, <2>2, <2>4, TravelIs
    <3>3. QED
      BY <2>1, <2>4, <3>1, <3>2
  <2>5. QED
    BY <2>3, <2>4
<1>4. QED
  BY <1>2, <1>3

-----------------------------------------------------------------------------
(* The vertices and the edges of the query graph.                          *)

LEMMA VerticesAre ==
    /\ IsFiniteSet(Vertices) /\ IsFiniteSet(Nodes)
    /\ from \in Vertices /\ to \in Vertices /\ from # to
    /\ from \notin Nodes /\ to \notin Nodes /\ Nodes \subseteq Vertices
    /\ Vertices = Nodes \cup {from, to}
<1>1. N \in Nat
  BY RoadsAssumption
<1>2. IsFiniteSet(Nodes)
  BY <1>1, FS_Interval DEF Nodes
<1>3. IsFiniteSet({from, to})
  <2>1. IsFiniteSet({from}) /\ IsFiniteSet({to})
    BY FS_Singleton
  <2>2. {from, to} = {from} \cup {to}
    OBVIOUS
  <2>3. QED
    BY <2>1, <2>2, FS_Union
<1>4. IsFiniteSet(Vertices)
  BY <1>2, <1>3, FS_Union DEF Vertices
<1>5. QED
  BY <1>1, <1>2, <1>4 DEF Vertices, Nodes, from, to

LEMMA Products == \A x, y \in Nat : x * y \in Nat
OBVIOUS

LEMMA RoadEdgesAre ==
    ASSUME NEW lists \in Lists
    PROVE  /\ RoadEdges(lists) \subseteq Nodes \X Nodes \X Nat
           /\ \A u \in Nodes : \A v, w :
                <<u, v, w>> \in TravelGraph(lists) => <<u, v, RatioSteps * w>> \in RoadEdges(lists)
<1>1. ASSUME NEW x \in RoadEdges(lists) PROVE x \in Nodes \X Nodes \X Nat
  <2>1. PICK e \in TravelGraph(lists) : x = <<e[1], e[2], RatioSteps * e[3]>>
    BY DEF RoadEdges
  <2>2. e[1] \in Nodes /\ e[2] \in Nodes /\ e[3] \in Nat
    BY TravelIs
  <2>3. RatioSteps * e[3] \in Nat
    BY <2>2, RatioStepsAssumption, Products
  <2>4. QED
    BY <2>1, <2>2, <2>3
<1>2. ASSUME NEW u \in Nodes, NEW v, NEW w, <<u, v, w>> \in TravelGraph(lists)
      PROVE  <<u, v, RatioSteps * w>> \in RoadEdges(lists)
  <2> DEFINE e == <<u, v, w>>
  <2>1. e \in TravelGraph(lists) /\ e[1] = u /\ e[2] = v /\ e[3] = w
    BY <1>2
  <2> HIDE DEF e
  <2>2. QED
    BY <2>1 DEF RoadEdges
<1>3. QED
  BY <1>1, <1>2

-----------------------------------------------------------------------------
(* Pieces of a road.                                                       *)

(* How far along the road a virtual node is.                               *)
Place(p, r1, r2) == IF p = from THEN r1 ELSE r2

(* A piece of the road between A and B, open to B at cost w and back at    *)
(* cost back: from one end, or from one virtual node, to the other.        *)
Piece(x, y, c, A, B, w, back, r1, r2) ==
    \E p \in {from, to} :
        \/ x = A /\ y = p /\ c = Place(p, r1, r2) * w
        \/ x = p /\ y = A /\ c = Place(p, r1, r2) * back
        \/ x = p /\ y = B /\ c = (RatioSteps - Place(p, r1, r2)) * w
        \/ x = B /\ y = p /\ c = (RatioSteps - Place(p, r1, r2)) * back
        \/ \E q \in {from, to} :
             \/ /\ Place(p, r1, r2) <= Place(q, r1, r2)
                /\ x = p /\ y = q /\ c = (Place(q, r1, r2) - Place(p, r1, r2)) * w
             \/ /\ Place(q, r1, r2) <= Place(p, r1, r2)
                /\ x = p /\ y = q /\ c = (Place(p, r1, r2) - Place(q, r1, r2)) * back

LEMMA TwoWayPiecesAre ==
    ASSUME NEW A, NEW B, NEW w, NEW back, NEW r1 \in 0 .. RatioSteps, NEW r2 \in 0 .. RatioSteps
    PROVE  /\ r1 = r2 => TwoWayPieces(A, B, r1, r2, w, back) = {<<from, to, 0>>}
           /\ r1 < r2 => TwoWayPieces(A, B, r1, r2, w, back) =
                {<<A, from, r1 * w>>, <<from, A, r1 * back>>,
                 <<from, to, (r2 - r1) * w>>, <<to, from, (r2 - r1) * back>>,
                 <<to, B, (RatioSteps - r2) * w>>, <<B, to, (RatioSteps - r2) * back>>}
           /\ r2 < r1 => TwoWayPieces(A, B, r1, r2, w, back) =
                {<<A, to, r2 * w>>, <<to, A, r2 * back>>,
                 <<to, from, (r1 - r2) * w>>, <<from, to, (r1 - r2) * back>>,
                 <<from, B, (RatioSteps - r1) * w>>, <<B, from, (RatioSteps - r1) * back>>}
<1>1. RatioSteps \in Nat /\ r1 \in Nat /\ r2 \in Nat
  BY RatioStepsAssumption
<1>2. CASE r1 = r2
  <2>1. ~(r1 < r2) /\ ~(r2 < r1)
    BY <1>1, <1>2
  <2>2. QED
    BY <1>2, <2>1 DEF TwoWayPieces
<1>3. CASE r1 < r2
  <2>1. r1 # r2 /\ ~(r2 < r1)
    BY <1>1, <1>3
  <2>2. QED
    BY <1>3, <2>1, Zenon DEF TwoWayPieces
<1>4. CASE r2 < r1
  <2>1. r1 # r2 /\ ~(r1 < r2)
    BY <1>1, <1>4
  <2>2. QED
    BY <1>4, <2>1, Zenon DEF TwoWayPieces
<1>5. QED
  BY <1>1, <1>2, <1>3, <1>4

LEMMA PiecesOfTheRoad ==
    ASSUME NEW A, NEW B, NEW w \in Nat, NEW back \in Nat,
           NEW r1 \in 0 .. RatioSteps, NEW r2 \in 0 .. RatioSteps,
           NEW x \in TwoWayPieces(A, B, r1, r2, w, back)
    PROVE  Piece(x[1], x[2], x[3], A, B, w, back, r1, r2)
<1>1. RatioSteps \in Nat /\ r1 \in Nat /\ r2 \in Nat
  BY RatioStepsAssumption
<1>2. Place(from, r1, r2) = r1 /\ Place(to, r1, r2) = r2
  BY VerticesAre DEF Place
<1> DEFINE P(y, z, c) == Piece(y, z, c, A, B, w, back, r1, r2)
<1>3. ASSUME NEW p \in {from, to}, NEW r, Place(p, r1, r2) = r
      PROVE  /\ P(A, p, r * w) /\ P(p, A, r * back)
             /\ P(p, B, (RatioSteps - r) * w) /\ P(B, p, (RatioSteps - r) * back)
  BY <1>3, Zenon DEF Piece
<1>4. ASSUME NEW p \in {from, to}, NEW q \in {from, to}, NEW r, NEW s,
             Place(p, r1, r2) = r, Place(q, r1, r2) = s
      PROVE  /\ r <= s => P(p, q, (s - r) * w)
             /\ s <= r => P(p, q, (r - s) * back)
  BY <1>4, Zenon DEF Piece
<1> HIDE DEF P
<1>5. CASE r1 = r2
  <2>1. x[1] = from /\ x[2] = to /\ x[3] = 0
    BY <1>5, TwoWayPiecesAre
  <2>2. r1 <= r2 /\ (r2 - r1) * w = 0
    BY <1>1, <1>5
  <2>3. P(from, to, (r2 - r1) * w)
    BY <1>2, <1>4, <2>2
  <2>4. P(x[1], x[2], x[3])
    BY <2>1, <2>2, <2>3
  <2>5. QED
    BY <2>4 DEF P
<1>6. CASE r1 < r2
  <2>1. r1 <= r2
    BY <1>1, <1>6
  <2>2. \/ x = <<A, from, r1 * w>> \/ x = <<from, A, r1 * back>>
        \/ x = <<from, to, (r2 - r1) * w>> \/ x = <<to, from, (r2 - r1) * back>>
        \/ x = <<to, B, (RatioSteps - r2) * w>> \/ x = <<B, to, (RatioSteps - r2) * back>>
    BY <1>6, TwoWayPiecesAre
  <2>3. /\ P(A, from, r1 * w) /\ P(from, A, r1 * back)
        /\ P(to, B, (RatioSteps - r2) * w) /\ P(B, to, (RatioSteps - r2) * back)
    BY <1>2, <1>3
  <2>4. P(from, to, (r2 - r1) * w) /\ P(to, from, (r2 - r1) * back)
    BY <1>2, <1>4, <2>1
  <2>5. P(x[1], x[2], x[3])
    BY <2>2, <2>3, <2>4
  <2>6. QED
    BY <2>5 DEF P
<1>7. CASE r2 < r1
  <2>1. r2 <= r1
    BY <1>1, <1>7
  <2>2. \/ x = <<A, to, r2 * w>> \/ x = <<to, A, r2 * back>>
        \/ x = <<to, from, (r1 - r2) * w>> \/ x = <<from, to, (r1 - r2) * back>>
        \/ x = <<from, B, (RatioSteps - r1) * w>> \/ x = <<B, from, (RatioSteps - r1) * back>>
    BY <1>7, TwoWayPiecesAre
  <2>3. /\ P(A, to, r2 * w) /\ P(to, A, r2 * back)
        /\ P(from, B, (RatioSteps - r1) * w) /\ P(B, from, (RatioSteps - r1) * back)
    BY <1>2, <1>3
  <2>4. P(to, from, (r1 - r2) * w) /\ P(from, to, (r1 - r2) * back)
    BY <1>2, <1>4, <2>1
  <2>5. P(x[1], x[2], x[3])
    BY <2>2, <2>3, <2>4
  <2>6. QED
    BY <2>5 DEF P
<1>8. QED
  BY <1>1, <1>5, <1>6, <1>7

(* To go along a road in pieces costs what it costs to go along it at once. *)
LEMMA PiecesAdd ==
    ASSUME NEW w \in Nat, NEW r \in 0 .. RatioSteps
    PROVE  /\ r * w \in Nat /\ (RatioSteps - r) * w \in Nat /\ RatioSteps * w \in Nat
           /\ r * w + (RatioSteps - r) * w = RatioSteps * w
<1>1. RatioSteps \in Nat /\ r \in Nat /\ RatioSteps - r \in Nat
  BY RatioStepsAssumption
<1>2. r * w \in Nat /\ (RatioSteps - r) * w \in Nat /\ RatioSteps * w \in Nat
  BY <1>1, Products
<1>3. r * w + (RatioSteps - r) * w = RatioSteps * w
  BY <1>1
<1>4. QED
  BY <1>2, <1>3

LEMMA PiecesBetween ==
    ASSUME NEW w \in Nat, NEW r \in 0 .. RatioSteps, NEW s \in 0 .. RatioSteps, r <= s
    PROVE  /\ (s - r) * w \in Nat
           /\ r * w + (s - r) * w = s * w
           /\ (RatioSteps - s) * w + (s - r) * w = (RatioSteps - r) * w
<1>1. RatioSteps \in Nat /\ r \in Nat /\ s \in Nat /\ s - r \in Nat
  BY RatioStepsAssumption
<1>2. (s - r) * w \in Nat
  BY <1>1, Products
<1>3. r * w + (s - r) * w = s * w
  BY <1>1
<1>4. (RatioSteps - s) * w + (s - r) * w = (RatioSteps - r) * w
  BY <1>1
<1>5. QED
  BY <1>2, <1>3, <1>4

(* There is a walk from u to x that costs c at most.                       *)
Within(V, edges, u, x, c) ==
    \E l \in PricedWalks(V) : IsPricedWalk(edges, l, u, x) /\ Price(l) <= c

LEMMA WithinGrows ==
    ASSUME NEW V, NEW edges, edges \subseteq V \X V \X Nat, NEW u \in V, NEW x, NEW c \in Nat,
           Within(V, edges, u, x, c)
    PROVE  /\ \A d \in Nat : c <= d => Within(V, edges, u, x, d)
           /\ \A y, w : \A d \in Nat :
                <<x, y, w>> \in edges /\ c + w <= d => Within(V, edges, u, y, d)
<1>1. PICK l \in PricedWalks(V) : IsPricedWalk(edges, l, u, x) /\ Price(l) <= c
  BY DEF Within
<1>2. Price(l) \in Nat
  BY <1>1, PriceIsNatural
<1>3. ASSUME NEW d \in Nat, c <= d PROVE Within(V, edges, u, x, d)
  <2>1. Price(l) <= d
    BY <1>1, <1>2, <1>3
  <2>2. QED
    BY <1>1, <2>1 DEF Within
<1>4. ASSUME NEW y, NEW w, NEW d \in Nat, <<x, y, w>> \in edges, c + w <= d
      PROVE  Within(V, edges, u, y, d)
  <2>1. PICK m \in PricedWalks(V) : IsPricedWalk(edges, m, u, y) /\ Price(m) = Price(l) + w
    BY <1>1, <1>4, WalkOfOneEdgeMore
  <2>2. w \in Nat
    BY <1>4
  <2>3. Price(m) <= d
    BY <1>1, <1>2, <1>4, <2>1, <2>2
  <2>4. QED
    BY <2>1, <2>3 DEF Within
<1>5. QED
  BY <1>3, <1>4

(* Who stands on a piece of the road, having spent c, could have come to   *)
(* one of its ends and be on the way from there.                           *)
OnTheWay(edges, u, p, c, A, B, w, back, r1, r2) ==
    \E y \in Nat :
        \/ Within(Nodes, edges, u, A, y) /\ y + Place(p, r1, r2) * w <= c
        \/ Within(Nodes, edges, u, B, y) /\ y + (RatioSteps - Place(p, r1, r2)) * back <= c

Landed(edges, u, x, c, A, B, w, back, r1, r2) ==
    /\ x \in Nodes => Within(Nodes, edges, u, x, c)
    /\ x \in {from, to} => OnTheWay(edges, u, x, c, A, B, w, back, r1, r2)

(* However a walk goes on over a piece, the road would have done as well.  *)
LEMMA PieceTaken ==
    ASSUME NEW edges, edges \subseteq Nodes \X Nodes \X Nat,
           NEW A \in Nodes, NEW B \in Nodes, NEW w \in Nat, NEW back \in Nat,
           NEW r1 \in 0 .. RatioSteps, NEW r2 \in 0 .. RatioSteps,
           <<A, B, RatioSteps * w>> \in edges, <<B, A, RatioSteps * back>> \in edges,
           NEW u \in Nodes, NEW x, NEW y, NEW c \in Nat, NEW d \in Nat,
           Piece(x, y, d, A, B, w, back, r1, r2),
           Landed(edges, u, x, c, A, B, w, back, r1, r2)
    PROVE  Landed(edges, u, y, c + d, A, B, w, back, r1, r2)
<1> DEFINE P(p) == Place(p, r1, r2)
           S == RatioSteps
<1>1. ASSUME NEW p \in {from, to} PROVE p \notin Nodes /\ P(p) \in 0 .. S
  BY VerticesAre DEF Place
<1>2. ASSUME NEW p \in {from, to}, x = A, y = p, d = P(p) * w
      PROVE  Landed(edges, u, y, c + d, A, B, w, back, r1, r2)
  <2>1. Within(Nodes, edges, u, A, c)
    BY <1>2 DEF Landed
  <2>2. c + P(p) * w <= c + d
    BY <1>2
  <2>3. QED
    BY <1>1, <1>2, <2>1, <2>2 DEF Landed, OnTheWay
<1>3. ASSUME NEW p \in {from, to}, x = B, y = p, d = (S - P(p)) * back
      PROVE  Landed(edges, u, y, c + d, A, B, w, back, r1, r2)
  <2>1. Within(Nodes, edges, u, B, c)
    BY <1>3 DEF Landed
  <2>2. c + (S - P(p)) * back <= c + d
    BY <1>3
  <2>3. QED
    BY <1>1, <1>3, <2>1, <2>2 DEF Landed, OnTheWay
<1>4. ASSUME NEW p \in {from, to}, x = p
      PROVE  \E z \in Nat :
               \/ Within(Nodes, edges, u, A, z) /\ z + P(p) * w <= c
               \/ Within(Nodes, edges, u, B, z) /\ z + (S - P(p)) * back <= c
  BY <1>4 DEF Landed, OnTheWay
<1>5. ASSUME NEW p \in {from, to}, x = p, y = A, d = P(p) * back
      PROVE  Landed(edges, u, y, c + d, A, B, w, back, r1, r2)
  <2>1. PICK z \in Nat :
           \/ Within(Nodes, edges, u, A, z) /\ z + P(p) * w <= c
           \/ Within(Nodes, edges, u, B, z) /\ z + (S - P(p)) * back <= c
    BY <1>4, <1>5
  <2> DEFINE a == P(p) * w
             b == P(p) * back
             f == (S - P(p)) * back
             t == S * back
  <2>2. a \in Nat /\ b \in Nat /\ f \in Nat /\ t \in Nat /\ b + f = t /\ d = b
    BY <1>1, <1>5, PiecesAdd
  <2>3. <<B, A, t>> \in edges
    OBVIOUS
  <2>4. \/ Within(Nodes, edges, u, A, z) /\ z + a <= c
        \/ Within(Nodes, edges, u, B, z) /\ z + f <= c
    BY <2>1
  <2> HIDE DEF a, b, f, t
  <2>5. Within(Nodes, edges, u, A, c + d)
    <3>1. CASE Within(Nodes, edges, u, A, z) /\ z + a <= c
      <4>1. z <= c + d
        BY <2>2, <3>1
      <4>2. QED
        BY <3>1, <4>1, WithinGrows
    <3>2. CASE Within(Nodes, edges, u, B, z) /\ z + f <= c
      <4>1. z + t <= c + d
        BY <2>2, <3>2
      <4>2. QED
        BY <2>3, <3>2, <4>1, WithinGrows
    <3>3. QED
      BY <2>4, <3>1, <3>2
  <2>6. QED
    BY <1>1, <1>5, <2>5 DEF Landed
<1>6. ASSUME NEW p \in {from, to}, x = p, y = B, d = (S - P(p)) * w
      PROVE  Landed(edges, u, y, c + d, A, B, w, back, r1, r2)
  <2>1. PICK z \in Nat :
           \/ Within(Nodes, edges, u, A, z) /\ z + P(p) * w <= c
           \/ Within(Nodes, edges, u, B, z) /\ z + (S - P(p)) * back <= c
    BY <1>4, <1>6
  <2> DEFINE a == P(p) * w
             b == (S - P(p)) * w
             f == (S - P(p)) * back
             t == S * w
  <2>2. a \in Nat /\ b \in Nat /\ f \in Nat /\ t \in Nat /\ a + b = t /\ d = b
    BY <1>1, <1>6, PiecesAdd
  <2>3. <<A, B, t>> \in edges
    OBVIOUS
  <2>4. \/ Within(Nodes, edges, u, A, z) /\ z + a <= c
        \/ Within(Nodes, edges, u, B, z) /\ z + f <= c
    BY <2>1
  <2> HIDE DEF a, b, f, t
  <2>5. Within(Nodes, edges, u, B, c + d)
    <3>1. CASE Within(Nodes, edges, u, A, z) /\ z + a <= c
      <4>1. z + t <= c + d
        BY <2>2, <3>1
      <4>2. QED
        BY <2>3, <3>1, <4>1, WithinGrows
    <3>2. CASE Within(Nodes, edges, u, B, z) /\ z + f <= c
      <4>1. z <= c + d
        BY <2>2, <3>2
      <4>2. QED
        BY <3>2, <4>1, WithinGrows
    <3>3. QED
      BY <2>4, <3>1, <3>2
  <2>6. QED
    BY <1>1, <1>6, <2>5 DEF Landed
<1>7. ASSUME NEW p \in {from, to}, NEW q \in {from, to}, P(p) <= P(q),
             x = p, y = q, d = (P(q) - P(p)) * w
      PROVE  Landed(edges, u, y, c + d, A, B, w, back, r1, r2)
  <2>1. PICK z \in Nat :
           \/ Within(Nodes, edges, u, A, z) /\ z + P(p) * w <= c
           \/ Within(Nodes, edges, u, B, z) /\ z + (S - P(p)) * back <= c
    BY <1>4, <1>7
  <2> DEFINE a == P(p) * w
             aq == P(q) * w
             f == (S - P(p)) * back
             fq == (S - P(q)) * back
             g == (P(q) - P(p)) * back
  <2>2. a \in Nat /\ aq \in Nat /\ f \in Nat /\ fq \in Nat /\ g \in Nat
    BY <1>1, <1>7, PiecesAdd, PiecesBetween
  <2>3. a + d = aq /\ fq + g = f
    BY <1>1, <1>7, PiecesBetween
  <2>4. \/ Within(Nodes, edges, u, A, z) /\ z + a <= c
        \/ Within(Nodes, edges, u, B, z) /\ z + f <= c
    BY <2>1
  <2>5. \/ Within(Nodes, edges, u, A, z) /\ z + aq <= c + d
        \/ Within(Nodes, edges, u, B, z) /\ z + fq <= c + d
    <3> HIDE DEF a, aq, f, fq, g
    <3>1. z + a <= c => z + aq <= c + d
      BY <2>2, <2>3
    <3>2. z + f <= c => z + fq <= c + d
      BY <2>2, <2>3
    <3>3. QED
      BY <2>4, <3>1, <3>2
  <2>6. OnTheWay(edges, u, y, c + d, A, B, w, back, r1, r2)
    BY <1>7, <2>5 DEF OnTheWay
  <2>7. QED
    BY <1>1, <1>7, <2>6 DEF Landed
<1>8. ASSUME NEW p \in {from, to}, NEW q \in {from, to}, P(q) <= P(p),
             x = p, y = q, d = (P(p) - P(q)) * back
      PROVE  Landed(edges, u, y, c + d, A, B, w, back, r1, r2)
  <2>1. PICK z \in Nat :
           \/ Within(Nodes, edges, u, A, z) /\ z + P(p) * w <= c
           \/ Within(Nodes, edges, u, B, z) /\ z + (S - P(p)) * back <= c
    BY <1>4, <1>8
  <2> DEFINE a == P(p) * w
             aq == P(q) * w
             f == (S - P(p)) * back
             fq == (S - P(q)) * back
             g == (P(p) - P(q)) * w
  <2>2. a \in Nat /\ aq \in Nat /\ f \in Nat /\ fq \in Nat /\ g \in Nat
    BY <1>1, <1>8, PiecesAdd, PiecesBetween
  <2>3. aq + g = a /\ f + d = fq
    BY <1>1, <1>8, PiecesBetween
  <2>4. \/ Within(Nodes, edges, u, A, z) /\ z + a <= c
        \/ Within(Nodes, edges, u, B, z) /\ z + f <= c
    BY <2>1
  <2>5. \/ Within(Nodes, edges, u, A, z) /\ z + aq <= c + d
        \/ Within(Nodes, edges, u, B, z) /\ z + fq <= c + d
    <3> HIDE DEF a, aq, f, fq, g
    <3>1. z + a <= c => z + aq <= c + d
      BY <2>2, <2>3
    <3>2. z + f <= c => z + fq <= c + d
      BY <2>2, <2>3
    <3>3. QED
      BY <2>4, <3>1, <3>2
  <2>6. OnTheWay(edges, u, y, c + d, A, B, w, back, r1, r2)
    BY <1>8, <2>5 DEF OnTheWay
  <2>7. QED
    BY <1>1, <1>8, <2>6 DEF Landed
<1>9. QED
  BY <1>2, <1>3, <1>5, <1>6, <1>7, <1>8, Zenon DEF Piece

LEMMA WithinNothing ==
    ASSUME NEW V, NEW edges, NEW u \in V
    PROVE  Within(V, edges, u, u, 0)
<1>1. PICK l \in PricedWalks(V) : IsPricedWalk(edges, l, u, u) /\ Price(l) = 0
  BY WalkOfNoEdge
<1>2. Price(l) <= 0
  BY <1>1
<1>3. QED
  BY <1>1, <1>2 DEF Within

LEMMA RoadTaken ==
    ASSUME NEW edges, edges \subseteq Nodes \X Nodes \X Nat,
           NEW A, NEW B, NEW w, NEW back, NEW r1, NEW r2,
           NEW u \in Nodes, NEW x, NEW y, NEW c \in Nat, NEW d,
           <<x, y, d>> \in edges, Landed(edges, u, x, c, A, B, w, back, r1, r2)
    PROVE  Landed(edges, u, y, c + d, A, B, w, back, r1, r2)
<1>1. x \in Nodes /\ y \in Nodes /\ d \in Nat
  OBVIOUS
<1>2. Within(Nodes, edges, u, x, c)
  BY <1>1 DEF Landed
<1>3. c + d \in Nat /\ c + d <= c + d
  BY <1>1
<1>4. Within(Nodes, edges, u, y, c + d)
  BY <1>2, <1>3, WithinGrows
<1>5. y \notin {from, to}
  BY <1>1, VerticesAre
<1>6. QED
  BY <1>4, <1>5 DEF Landed

(* A walk from node to node that goes over roads and over pieces of one    *)
(* road costs no less than the roads alone.                                *)
LEMMA PiecesAreNoShortcut ==
    ASSUME NEW edges, edges \subseteq Nodes \X Nodes \X Nat,
           NEW more, more \subseteq Vertices \X Vertices \X Nat,
           NEW A \in Nodes, NEW B \in Nodes, NEW w \in Nat, NEW back \in Nat,
           NEW r1 \in 0 .. RatioSteps, NEW r2 \in 0 .. RatioSteps,
           <<A, B, RatioSteps * w>> \in edges, <<B, A, RatioSteps * back>> \in edges,
           \A e \in more : e \in edges \/ Piece(e[1], e[2], e[3], A, B, w, back, r1, r2),
           NEW u \in Nodes, NEW v \in Nodes,
           NEW k \in PricedWalks(Vertices), IsPricedWalk(more, k, u, v)
    PROVE  Within(Nodes, edges, u, v, Price(k))
<1> DEFINE S == {s \in Vertices \X Nat : Landed(edges, u, s[1], s[2], A, B, w, back, r1, r2)}
<1>1. \A x \in Vertices : \A c \in Nat :
        <<x, c>> \in S <=> Landed(edges, u, x, c, A, B, w, back, r1, r2)
  OBVIOUS
<1>2. <<u, 0>> \in S
  <2>1. Within(Nodes, edges, u, u, 0)
    BY WithinNothing
  <2>2. u \in Vertices /\ u \notin {from, to} /\ 0 \in Nat
    BY VerticesAre
  <2>3. Landed(edges, u, u, 0, A, B, w, back, r1, r2)
    BY <2>1, <2>2 DEF Landed
  <2>4. QED
    BY <1>1, <2>2, <2>3
<1> HIDE DEF S
<1>3. ASSUME NEW x \in Vertices, NEW y \in Vertices, NEW c \in Nat, NEW d \in Nat,
             <<x, c>> \in S, <<x, y, d>> \in more
      PROVE  <<y, c + d>> \in S
  <2>1. Landed(edges, u, x, c, A, B, w, back, r1, r2)
    BY <1>1, <1>3
  <2>2. <<x, y, d>> \in edges \/ Piece(x, y, d, A, B, w, back, r1, r2)
    <3> DEFINE e == <<x, y, d>>
    <3>1. e \in more /\ e[1] = x /\ e[2] = y /\ e[3] = d
      BY <1>3
    <3> HIDE DEF e
    <3>2. e \in edges \/ Piece(x, y, d, A, B, w, back, r1, r2)
      BY <3>1
    <3>3. QED
      BY <3>2 DEF e
  <2>3. Landed(edges, u, y, c + d, A, B, w, back, r1, r2)
    BY <2>1, <2>2, PieceTaken, RoadTaken
  <2>4. c + d \in Nat
    OBVIOUS
  <2>5. QED
    BY <1>1, <2>3, <2>4
<1>4. <<v, Price(k)>> \in S
  <2>1. \A x, y \in Vertices : \A c, d \in Nat :
          <<x, c>> \in S /\ <<x, y, d>> \in more => <<y, c + d>> \in S
    BY <1>3
  <2>2. QED
    BY <1>2, <2>1, ArrivesIn
<1>5. Price(k) \in Nat /\ v \in Vertices
  BY PriceIsNatural, VerticesAre
<1>6. Landed(edges, u, v, Price(k), A, B, w, back, r1, r2)
  BY <1>1, <1>4, <1>5
<1>7. QED
  BY <1>6 DEF Landed

(* A walk from node to node does not go over a virtual node that nothing   *)
(* leads to, or one that nothing leads from.                               *)
LEMMA LooseEndsAreNoShortcut ==
    ASSUME NEW edges, edges \subseteq Nodes \X Nodes \X Nat,
           NEW more, more \subseteq Vertices \X Vertices \X Nat,
           \A e \in more : e \in edges \/ e[1] = from \/ e[2] = to,
           \A e \in more : e[1] # to /\ e[2] # from,
           NEW u \in Nodes, NEW v \in Nodes,
           NEW k \in PricedWalks(Vertices), IsPricedWalk(more, k, u, v)
    PROVE  Within(Nodes, edges, u, v, Price(k))
<1> DEFINE S == {s \in Vertices \X Nat : s[1] = to \/ (s[1] \in Nodes /\ Within(Nodes, edges, u, s[1], s[2]))}
<1>1. \A x \in Vertices : \A c \in Nat :
        <<x, c>> \in S <=> x = to \/ (x \in Nodes /\ Within(Nodes, edges, u, x, c))
  OBVIOUS
<1>2. <<u, 0>> \in S
  <2>1. Within(Nodes, edges, u, u, 0)
    BY WithinNothing
  <2>2. u \in Vertices /\ 0 \in Nat
    BY VerticesAre
  <2>3. QED
    BY <1>1, <2>1, <2>2
<1> HIDE DEF S
<1>3. ASSUME NEW x \in Vertices, NEW y \in Vertices, NEW c \in Nat, NEW d \in Nat,
             <<x, c>> \in S, <<x, y, d>> \in more
      PROVE  <<y, c + d>> \in S
  <2>1. /\ <<x, y, d>> \in edges \/ y = to \/ x = from
        /\ x # to /\ y # from
    <3> DEFINE e == <<x, y, d>>
    <3>1. e \in more /\ e[1] = x /\ e[2] = y /\ e[3] = d
      BY <1>3
    <3> HIDE DEF e
    <3>2. (e \in edges \/ y = to \/ x = from) /\ x # to /\ y # from
      BY <3>1
    <3>3. QED
      BY <3>2 DEF e
  <2>2. x \in Nodes /\ Within(Nodes, edges, u, x, c) /\ x # from
    BY <1>1, <1>3, <2>1, VerticesAre
  <2>3. c + d \in Nat /\ c + d <= c + d
    OBVIOUS
  <2>4. CASE y = to
    BY <1>1, <2>3, <2>4
  <2>5. CASE <<x, y, d>> \in edges
    <3>1. Within(Nodes, edges, u, y, c + d)
      BY <2>2, <2>3, <2>5, WithinGrows
    <3>2. y \in Nodes
      BY <2>5
    <3>3. QED
      BY <1>1, <2>3, <3>1, <3>2
  <2>6. QED
    BY <2>1, <2>2, <2>4, <2>5
<1>4. <<v, Price(k)>> \in S
  <2>1. \A x, y \in Vertices : \A c, d \in Nat :
          <<x, c>> \in S /\ <<x, y, d>> \in more => <<y, c + d>> \in S
    BY <1>3
  <2>2. QED
    BY <1>2, <2>1, ArrivesIn
<1>5. Price(k) \in Nat /\ v \in Vertices /\ v # to
  BY PriceIsNatural, VerticesAre
<1>6. QED
  BY <1>1, <1>4, <1>5

-----------------------------------------------------------------------------
(* The virtual edges, case by case.                                        *)

(* Both points are on one road, reported from one end or from both.        *)
Shared(e1, e2) == (e1.u = e2.u /\ e1.v = e2.v) \/ (e1.u = e2.v /\ e1.v = e2.u)

(* How far along the road of e1 the second point lies.                     *)
SecondRatio(e1, info2) ==
    TurnRatio(info2.clamped_ratio, e1.u = info2.edge.v /\ e1.v = info2.edge.u)

(* The virtual edges between the ends of two different roads.              *)
LooseEnds(lists, e1, e2, r1, r2) ==
    {<<from, e1.v, (RatioSteps - r1) * e1.w>>, <<e2.u, to, r2 * e2.w>>}
        \cup {<<from, e1.u, r1 * back>> : back \in BackCosts(lists, e1)}
        \cup {<<e2.v, to, (RatioSteps - r2) * back>> : back \in BackCosts(lists, e2)}

LEMMA InfosAre ==
    ASSUME NEW lists, NEW info \in NearestEdgeInfos(lists)
    PROVE  info.edge \in Reported(lists) /\ info.clamped_ratio \in 0 .. RatioSteps
BY DEF NearestEdgeInfos

LEMMA SecondRatioType ==
    ASSUME NEW lists, NEW e1, NEW info2 \in NearestEdgeInfos(lists)
    PROVE  SecondRatio(e1, info2) \in 0 .. RatioSteps
<1>1. info2.clamped_ratio \in 0 .. RatioSteps /\ RatioSteps \in Nat
  BY InfosAre, RatioStepsAssumption
<1> DEFINE r == info2.clamped_ratio
<1>2. r \in 0 .. RatioSteps /\ RatioSteps - r \in 0 .. RatioSteps
  <2>1. r \in 0 .. RatioSteps /\ RatioSteps \in Nat
    BY <1>1
  <2> HIDE DEF r
  <2>2. QED
    BY <2>1
<1>3. QED
  BY <1>2 DEF SecondRatio, TurnRatio

LEMMA VirtualEdgesAre ==
    ASSUME NEW lists, NEW info1, NEW info2
    PROVE  LET e1 == info1.edge
               e2 == info2.edge
               r1 == info1.clamped_ratio
               r2 == info2.clamped_ratio
           IN  /\ Shared(e1, e2) /\ BackCosts(lists, e1) = {} =>
                    VirtualEdges(lists, info1, info2) = OneWayPieces(e1.u, e1.v, r1, r2, e1.w)
               /\ \A back : Shared(e1, e2) /\ BackCosts(lists, e1) = {back} =>
                    VirtualEdges(lists, info1, info2) =
                        TwoWayPieces(e1.u, e1.v, r1, SecondRatio(e1, info2), e1.w, back)
               /\ ~Shared(e1, e2) =>
                    VirtualEdges(lists, info1, info2) = LooseEnds(lists, e1, e2, r1, r2)
<1> DEFINE e1 == info1.edge
           e2 == info2.edge
           r1 == info1.clamped_ratio
           r2 == info2.clamped_ratio
<1>1. ASSUME Shared(e1, e2), BackCosts(lists, e1) = {}
      PROVE  VirtualEdges(lists, info1, info2) = OneWayPieces(e1.u, e1.v, r1, r2, e1.w)
  BY <1>1, Zenon DEF VirtualEdges, Shared
<1>2. ASSUME NEW back, Shared(e1, e2), BackCosts(lists, e1) = {back}
      PROVE  VirtualEdges(lists, info1, info2) =
                 TwoWayPieces(e1.u, e1.v, r1, SecondRatio(e1, info2), e1.w, back)
  <2> DEFINE P(b) == TwoWayPieces(e1.u, e1.v, r1, SecondRatio(e1, info2), e1.w, b)
  <2>1. BackCosts(lists, e1) # {}
    BY <1>2
  <2>2. VirtualEdges(lists, info1, info2) = UNION {P(b) : b \in BackCosts(lists, e1)}
    BY <1>2, <2>1, Zenon DEF VirtualEdges, Shared, SecondRatio
  <2> HIDE DEF P
  <2>3. UNION {P(b) : b \in BackCosts(lists, e1)} = P(back)
    BY <1>2
  <2>4. QED
    BY <2>2, <2>3 DEF P
<1>3. ASSUME ~Shared(e1, e2)
      PROVE  VirtualEdges(lists, info1, info2) = LooseEnds(lists, e1, e2, r1, r2)
  BY <1>3, Zenon DEF VirtualEdges, Shared, LooseEnds
<1>4. QED
  BY <1>1, <1>2, <1>3

LEMMA OneWayPiecesAre ==
    ASSUME NEW A, NEW B, NEW w, NEW r1 \in 0 .. RatioSteps, NEW r2 \in 0 .. RatioSteps
    PROVE  /\ r1 = r2 => OneWayPieces(A, B, r1, r2, w) = {<<from, to, 0>>}
           /\ r1 < r2 => OneWayPieces(A, B, r1, r2, w) = {<<from, to, (r2 - r1) * w>>}
           /\ r2 < r1 => OneWayPieces(A, B, r1, r2, w) =
                {<<from, B, (RatioSteps - r1) * w>>, <<A, to, r2 * w>>}
<1>1. RatioSteps \in Nat /\ r1 \in Nat /\ r2 \in Nat
  BY RatioStepsAssumption
<1>2. CASE r1 = r2
  <2>1. ~(r1 < r2) /\ ~(r1 > r2)
    BY <1>1, <1>2
  <2>2. QED
    BY <1>2, <2>1 DEF OneWayPieces
<1>3. CASE r1 < r2
  <2>1. r1 # r2 /\ ~(r1 > r2) /\ ~(r2 < r1)
    BY <1>1, <1>3
  <2>2. QED
    BY <1>3, <2>1 DEF OneWayPieces
<1>4. CASE r2 < r1
  <2>1. r1 # r2 /\ ~(r1 < r2) /\ r1 > r2
    BY <1>1, <1>4
  <2>2. QED
    BY <1>4, <2>1 DEF OneWayPieces
<1>5. QED
  BY <1>1, <1>2, <1>3, <1>4

(* Edges that lead from the first point or to the second, none the other   *)
(* way round.                                                              *)
FromOrTo == {e \in Vertices \X Vertices \X Nat :
                (e[1] = from \/ e[2] = to) /\ e[1] # to /\ e[2] # from}

LEMMA FromOrToAre ==
    /\ \A B \in Nodes : \A c \in Nat : <<from, B, c>> \in FromOrTo /\ <<B, to, c>> \in FromOrTo
    /\ \A c \in Nat : <<from, to, c>> \in FromOrTo
<1>1. ASSUME NEW x \in Vertices, NEW y \in Vertices, NEW c \in Nat,
             x = from \/ y = to, x # to, y # from
      PROVE  <<x, y, c>> \in FromOrTo
  <2> DEFINE e == <<x, y, c>>
  <2>1. e \in Vertices \X Vertices \X Nat /\ e[1] = x /\ e[2] = y
    OBVIOUS
  <2> HIDE DEF e
  <2>2. e \in FromOrTo
    BY <1>1, <2>1 DEF FromOrTo
  <2>3. QED
    BY <2>2 DEF e
<1>2. QED
  BY <1>1, VerticesAre

LEMMA OneWayPiecesType ==
    ASSUME NEW A \in Nodes, NEW B \in Nodes, NEW w \in Nat,
           NEW r1 \in 0 .. RatioSteps, NEW r2 \in 0 .. RatioSteps
    PROVE  OneWayPieces(A, B, r1, r2, w) \subseteq FromOrTo
<1>1. RatioSteps \in Nat /\ r1 \in Nat /\ r2 \in Nat
  BY RatioStepsAssumption
<1>2. CASE r1 = r2
  BY <1>2, FromOrToAre, OneWayPiecesAre
<1>3. CASE r1 < r2
  <2>1. (r2 - r1) * w \in Nat
    BY <1>1, <1>3, PiecesBetween
  <2>2. <<from, to, (r2 - r1) * w>> \in FromOrTo
    BY <2>1, FromOrToAre
  <2>3. QED
    BY <1>3, <2>2, OneWayPiecesAre
<1>4. CASE r2 < r1
  <2>1. (RatioSteps - r1) * w \in Nat /\ r2 * w \in Nat
    BY PiecesAdd
  <2>2. <<from, B, (RatioSteps - r1) * w>> \in FromOrTo /\ <<A, to, r2 * w>> \in FromOrTo
    BY <2>1, FromOrToAre
  <2>3. QED
    BY <1>4, <2>2, OneWayPiecesAre
<1>5. QED
  BY <1>1, <1>2, <1>3, <1>4

LEMMA LooseEndsType ==
    ASSUME NEW lists \in Lists, Mirrored(lists),
           NEW e1 \in Reported(lists), NEW e2 \in Reported(lists),
           NEW r1 \in 0 .. RatioSteps, NEW r2 \in 0 .. RatioSteps
    PROVE  LooseEnds(lists, e1, e2, r1, r2) \subseteq FromOrTo
<1>1. /\ e1.u \in Nodes /\ e1.v \in Nodes /\ e1.w \in Nat
      /\ e2.u \in Nodes /\ e2.v \in Nodes /\ e2.w \in Nat
  BY ReportedIs
<1>2. <<from, e1.v, (RatioSteps - r1) * e1.w>> \in FromOrTo
  <2>1. (RatioSteps - r1) * e1.w \in Nat
    BY <1>1, PiecesAdd
  <2>2. QED
    BY <1>1, <2>1, FromOrToAre
<1>3. <<e2.u, to, r2 * e2.w>> \in FromOrTo
  <2>1. r2 * e2.w \in Nat
    BY <1>1, PiecesAdd
  <2>2. QED
    BY <1>1, <2>1, FromOrToAre
<1>4. ASSUME NEW back \in BackCosts(lists, e1)
      PROVE  <<from, e1.u, r1 * back>> \in FromOrTo
  <2>1. r1 * back \in Nat
    BY BackCostsAre, PiecesAdd
  <2>2. QED
    BY <1>1, <2>1, FromOrToAre
<1>5. ASSUME NEW back \in BackCosts(lists, e2)
      PROVE  <<e2.v, to, (RatioSteps - r2) * back>> \in FromOrTo
  <2>1. (RatioSteps - r2) * back \in Nat
    BY BackCostsAre, PiecesAdd
  <2>2. QED
    BY <1>1, <2>1, FromOrToAre
<1>6. QED
  BY <1>2, <1>3, <1>4, <1>5, Zenon DEF LooseEnds

LEMMA TwoWayPiecesType ==
    ASSUME NEW A \in Nodes, NEW B \in Nodes, NEW w \in Nat, NEW back \in Nat,
           NEW r1 \in 0 .. RatioSteps, NEW r2 \in 0 .. RatioSteps
    PROVE  TwoWayPieces(A, B, r1, r2, w, back) \subseteq Vertices \X Vertices \X Nat
<1>1. RatioSteps \in Nat /\ r1 \in Nat /\ r2 \in Nat
  BY RatioStepsAssumption
<1>2. A \in Vertices /\ B \in Vertices /\ from \in Vertices /\ to \in Vertices
  BY VerticesAre
<1>3. /\ r1 * w \in Nat /\ r1 * back \in Nat /\ (RatioSteps - r1) * w \in Nat
      /\ (RatioSteps - r1) * back \in Nat
  BY PiecesAdd
<1>4. /\ r2 * w \in Nat /\ r2 * back \in Nat /\ (RatioSteps - r2) * w \in Nat
      /\ (RatioSteps - r2) * back \in Nat
  BY PiecesAdd
<1>5. CASE r1 = r2
  BY <1>2, <1>5, TwoWayPiecesAre
<1>6. CASE r1 < r2
  <2>1. (r2 - r1) * w \in Nat /\ (r2 - r1) * back \in Nat
    BY <1>1, <1>6, PiecesBetween
  <2>2. {<<A, from, r1 * w>>, <<from, A, r1 * back>>,
         <<from, to, (r2 - r1) * w>>, <<to, from, (r2 - r1) * back>>,
         <<to, B, (RatioSteps - r2) * w>>, <<B, to, (RatioSteps - r2) * back>>}
            \subseteq Vertices \X Vertices \X Nat
    BY <1>2, <1>3, <1>4, <2>1
  <2>3. QED
    BY <1>6, <2>2, TwoWayPiecesAre
<1>7. CASE r2 < r1
  <2>1. (r1 - r2) * w \in Nat /\ (r1 - r2) * back \in Nat
    BY <1>1, <1>7, PiecesBetween
  <2>2. {<<A, to, r2 * w>>, <<to, A, r2 * back>>,
         <<to, from, (r1 - r2) * w>>, <<from, to, (r1 - r2) * back>>,
         <<from, B, (RatioSteps - r1) * w>>, <<B, from, (RatioSteps - r1) * back>>}
            \subseteq Vertices \X Vertices \X Nat
    BY <1>2, <1>3, <1>4, <2>1
  <2>3. QED
    BY <1>7, <2>2, TwoWayPiecesAre
<1>8. QED
  BY <1>1, <1>5, <1>6, <1>7

LEMMA VirtualEdgesType ==
    ASSUME NEW lists \in Lists, Mirrored(lists),
           NEW info1 \in NearestEdgeInfos(lists), NEW info2 \in NearestEdgeInfos(lists)
    PROVE  VirtualEdges(lists, info1, info2) \subseteq Vertices \X Vertices \X Nat
<1> DEFINE e1 == info1.edge
           e2 == info2.edge
           r1 == info1.clamped_ratio
           r2 == info2.clamped_ratio
           r3 == SecondRatio(e1, info2)
<1>1. /\ e1 \in Reported(lists) /\ e2 \in Reported(lists)
      /\ r1 \in 0 .. RatioSteps /\ r2 \in 0 .. RatioSteps /\ r3 \in 0 .. RatioSteps
  BY InfosAre, SecondRatioType
<1>2. e1.u \in Nodes /\ e1.v \in Nodes /\ e1.w \in Nat
  BY <1>1, ReportedIs
<1>3. CASE Shared(e1, e2) /\ BackCosts(lists, e1) = {}
  <2>1. OneWayPieces(e1.u, e1.v, r1, r2, e1.w) \subseteq FromOrTo
    BY <1>1, <1>2, OneWayPiecesType
  <2>2. QED
    BY <1>3, <2>1, VirtualEdgesAre DEF FromOrTo
<1>4. CASE Shared(e1, e2) /\ BackCosts(lists, e1) # {}
  <2>1. PICK back \in Nat : BackCosts(lists, e1) = {back}
    BY <1>1, <1>4, BackCostsAre
  <2>2. TwoWayPieces(e1.u, e1.v, r1, r3, e1.w, back) \subseteq Vertices \X Vertices \X Nat
    BY <1>1, <1>2, TwoWayPiecesType
  <2>3. QED
    BY <1>4, <2>1, <2>2, VirtualEdgesAre
<1>5. CASE ~Shared(e1, e2)
  <2>1. LooseEnds(lists, e1, e2, r1, r2) \subseteq FromOrTo
    BY <1>1, LooseEndsType
  <2>2. QED
    BY <1>5, <2>1, VirtualEdgesAre DEF FromOrTo
<1>6. QED
  BY <1>3, <1>4, <1>5

(* A walk of the query graph from node to node costs no less than some     *)
(* walk over the roads alone.                                              *)
LEMMA PointsAreNoShortcut ==
    ASSUME NEW lists \in Lists, Mirrored(lists),
           NEW info1 \in NearestEdgeInfos(lists), NEW info2 \in NearestEdgeInfos(lists),
           NEW u \in Nodes, NEW v \in Nodes,
           NEW k \in PricedWalks(Vertices),
           IsPricedWalk(QueryEdges(lists, info1, info2), k, u, v)
    PROVE  Within(Nodes, RoadEdges(lists), u, v, Price(k))
<1> DEFINE e1 == info1.edge
           e2 == info2.edge
           r1 == info1.clamped_ratio
           r2 == info2.clamped_ratio
           r3 == SecondRatio(e1, info2)
           roads == RoadEdges(lists)
           virtual == VirtualEdges(lists, info1, info2)
           more == roads \cup virtual
<1>1. /\ e1 \in Reported(lists) /\ e2 \in Reported(lists)
      /\ r1 \in 0 .. RatioSteps /\ r2 \in 0 .. RatioSteps /\ r3 \in 0 .. RatioSteps
  BY InfosAre, SecondRatioType
<1>2. /\ e1.u \in Nodes /\ e1.v \in Nodes /\ e1.w \in Nat
      /\ <<e1.u, e1.v, e1.w>> \in TravelGraph(lists)
  BY <1>1, ReportedIs
<1>3. roads \subseteq Nodes \X Nodes \X Nat /\ Nodes \subseteq Vertices
  BY RoadEdgesAre, VerticesAre
<1>4. more \subseteq Vertices \X Vertices \X Nat
  BY <1>3, VirtualEdgesType
<1>5. IsPricedWalk(more, k, u, v)
  BY DEF QueryEdges
<1>6. CASE Shared(e1, e2) /\ BackCosts(lists, e1) # {}
  <2>1. PICK back \in Nat : BackCosts(lists, e1) = {back}
    BY <1>1, <1>6, BackCostsAre
  <2>2. virtual = TwoWayPieces(e1.u, e1.v, r1, r3, e1.w, back)
    BY <1>6, <2>1, VirtualEdgesAre
  <2>3. <<e1.u, e1.v, RatioSteps * e1.w>> \in roads
    BY <1>2, RoadEdgesAre
  <2>4. <<e1.v, e1.u, RatioSteps * back>> \in roads
    BY <1>1, <1>2, <2>1, BackCostsAre, RoadEdgesAre
  <2>5. \A e \in more : e \in roads \/ Piece(e[1], e[2], e[3], e1.u, e1.v, e1.w, back, r1, r3)
    <3> HIDE DEF roads, virtual
    <3>1. \A e \in virtual : Piece(e[1], e[2], e[3], e1.u, e1.v, e1.w, back, r1, r3)
      BY <1>1, <1>2, <2>1, <2>2, PiecesOfTheRoad
    <3>2. QED
      BY <3>1
  <2> HIDE DEF roads, more, e1, e2, r1, r2, r3
  <2>6. QED
    BY <1>1, <1>2, <1>3, <1>4, <1>5, <2>3, <2>4, <2>5, PiecesAreNoShortcut DEF roads
<1>7. CASE ~(Shared(e1, e2) /\ BackCosts(lists, e1) # {})
  <2>1. virtual \subseteq FromOrTo
    <3>1. CASE Shared(e1, e2) /\ BackCosts(lists, e1) = {}
      BY <1>1, <1>2, <3>1, VirtualEdgesAre, OneWayPiecesType
    <3>2. CASE ~Shared(e1, e2)
      BY <1>1, <3>2, VirtualEdgesAre, LooseEndsType
    <3>3. QED
      BY <1>7, <3>1, <3>2
  <2>2. \A e \in roads : e[1] # to /\ e[2] # from
    <3> HIDE DEF roads
    <3>1. QED
      BY <1>3, VerticesAre
  <2> HIDE DEF virtual, roads, e1, e2, r1, r2, r3
  <2>3. \A e \in more : e \in roads \/ e[1] = from \/ e[2] = to
    BY <2>1 DEF FromOrTo
  <2>4. \A e \in more : e[1] # to /\ e[2] # from
    BY <2>1, <2>2 DEF FromOrTo
  <2> HIDE DEF more
  <2>5. QED
    BY <1>3, <1>4, <1>5, <2>3, <2>4, LooseEndsAreNoShortcut DEF roads
<1>8. QED
  BY <1>6, <1>7

-----------------------------------------------------------------------------
(* The invariant: the roads are written at both their ends, and a leg is   *)
(* asked for only when all roads are there, of which it reports two.       *)
LegPosed ==
    /\ calls = <<>> /\ considered = Len(RoadOptions)
    /\ info_1 \in NearestEdgeInfos(adjacency_lists)
    /\ info_2 \in NearestEdgeInfos(adjacency_lists)
    /\ virtual_edges = VirtualEdges(adjacency_lists, info_1, info_2)

LegInv ==
    /\ adjacency_lists \in Lists /\ Mirrored(adjacency_lists)
    /\ calls \in Seq(RoadCalls)
    /\ considered \in 0 .. Len(RoadOptions)
    /\ Asked => LegPosed

LEMMA LegInvInit == Init => LegInv
<1> SUFFICES ASSUME Init PROVE LegInv
  OBVIOUS
<1>1. adjacency_lists = [u \in Nodes |-> <<>>]
  BY DEF Init, EmptyLists
<1>2. adjacency_lists \in Lists
  BY <1>1 DEF Lists
<1>3. \A u \in Nodes : DOMAIN adjacency_lists[u] = {}
  BY <1>1
<1>4. Mirrored(adjacency_lists)
  BY <1>3 DEF Mirrored, Listed
<1>5. Len(RoadOptions) \in Nat
  BY RoadsAssumption
<1>6. considered \in 0 .. Len(RoadOptions) /\ calls \in Seq(RoadCalls)
  BY <1>5 DEF Init
<1>7. ~Asked
  BY DEF Init, Asked
<1>8. QED
  BY <1>2, <1>4, <1>6, <1>7 DEF LegInv

LEMMA LegInvNext == LegInv /\ [Next]_vars => LegInv'
<1> SUFFICES ASSUME LegInv, [Next]_vars PROVE LegInv'
  OBVIOUS
<1> USE DEF LegInv
<1>1. CASE ChooseRoad
  <2>1. considered \in Nat /\ considered < Len(RoadOptions) /\ Len(RoadOptions) \in Nat
    BY <1>1, RoadsAssumption DEF ChooseRoad
  <2>2. considered + 1 \in 1 .. Len(RoadOptions)
    BY <2>1
  <2>3. RoadOptions[considered + 1] \in SUBSET Seq(RoadCalls)
    BY <2>2, RoadsAssumption, ElementOfSeq
  <2>4. calls' \in Seq(RoadCalls) /\ considered' \in 0 .. Len(RoadOptions)
    BY <1>1, <2>2, <2>3 DEF ChooseRoad
  <2>5. ~Asked'
    BY <1>1, <2>1 DEF ChooseRoad, Asked, LegPosed
  <2>6. UNCHANGED adjacency_lists
    BY <1>1 DEF ChooseRoad
  <2>7. QED
    BY <2>4, <2>5, <2>6
<1>2. CASE AddRoad
  <2>1. Head(calls) \in RoadCalls /\ calls' \in Seq(RoadCalls)
    BY <1>2, HeadTailProperties DEF AddRoad
  <2>2. adjacency_lists' \in Lists /\ Mirrored(adjacency_lists')
    BY <1>2, <2>1, AddEdgeLists DEF AddRoad
  <2>3. considered' = considered /\ ~Asked'
    BY <1>2 DEF AddRoad, Asked, LegPosed
  <2>4. Mirrored(adjacency_lists)'
    BY <2>2 DEF Mirrored, Listed
  <2>5. QED
    BY <2>1, <2>2, <2>3, <2>4
<1>3. CASE Construct
  <2>1. UNCHANGED <<adjacency_lists, calls, considered>>
    BY <1>3 DEF Construct
  <2>2. /\ calls' = <<>> /\ considered' = Len(RoadOptions)
        /\ info_1' \in NearestEdgeInfos(adjacency_lists)
        /\ info_2' \in NearestEdgeInfos(adjacency_lists)
        /\ virtual_edges' = VirtualEdges(adjacency_lists, info_1', info_2')
    BY <1>3 DEF Construct
  <2>3. LegPosed'
    BY <2>1, <2>2 DEF LegPosed
  <2>4. QED
    BY <2>1, <2>3
<1>4. CASE UNCHANGED vars
  BY <1>4 DEF vars, Asked, LegPosed
<1>5. QED
  BY <1>1, <1>2, <1>3, <1>4 DEF Next

(* The road graph is kept in adjacency lists of the type that AddEdge      *)
(* gives them and every road is written at both its ends, whatever calls   *)
(* of AddEdge build it; the query graph is made from two edges that this   *)
(* road graph reports.                                                     *)
THEOREM LegInvariant == Spec => []LegInv
BY LegInvInit, LegInvNext, PTL DEF Spec

LEMMA NoShortcutsHolds ==
    ASSUME LegInv PROVE NoShortcuts
<1> SUFFICES ASSUME Asked, NEW u \in Nodes, NEW v \in Nodes
             PROVE  ShortestCost(Vertices, Edges, u, v) =
                        ShortestCost(Nodes, RoadEdges(adjacency_lists), u, v)
  BY DEF NoShortcuts
<1> DEFINE roads == RoadEdges(adjacency_lists)
<1>1. /\ adjacency_lists \in Lists /\ Mirrored(adjacency_lists)
      /\ info_1 \in NearestEdgeInfos(adjacency_lists)
      /\ info_2 \in NearestEdgeInfos(adjacency_lists)
      /\ virtual_edges = VirtualEdges(adjacency_lists, info_1, info_2)
  BY DEF LegInv, LegPosed
<1>2. Edges = QueryEdges(adjacency_lists, info_1, info_2) /\ Edges = roads \cup virtual_edges
  BY <1>1 DEF Edges, QueryEdges
<1>3. roads \subseteq Nodes \X Nodes \X Nat
  BY <1>1, RoadEdgesAre
<1>4. Edges \subseteq Vertices \X Vertices \X Nat
  BY <1>1, <1>2, <1>3, VirtualEdgesType, VerticesAre
<1>5. ASSUME NEW k \in PricedWalks(Vertices), IsPricedWalk(Edges, k, u, v)
      PROVE  \E l \in PricedWalks(Nodes) : IsPricedWalk(roads, l, u, v) /\ Price(l) <= Price(k)
  <2>1. Within(Nodes, roads, u, v, Price(k))
    BY <1>1, <1>2, <1>5, PointsAreNoShortcut
  <2>2. QED
    BY <2>1 DEF Within
<1>6. ASSUME NEW k \in PricedWalks(Nodes), IsPricedWalk(roads, k, u, v)
      PROVE  \E l \in PricedWalks(Vertices) : IsPricedWalk(Edges, l, u, v) /\ Price(l) <= Price(k)
  <2>1. k \in PricedWalks(Vertices) /\ IsPricedWalk(Edges, k, u, v)
    BY <1>2, <1>6, WalksOfMore, VerticesAre
  <2>2. Price(k) \in Nat
    BY <1>3, <1>6, PriceIsNatural
  <2>3. Price(k) <= Price(k)
    BY <2>2
  <2>4. QED
    BY <2>1, <2>3
<1> HIDE DEF roads
<1>7. u \in Vertices \cap Nodes /\ IsFiniteSet(Vertices) /\ IsFiniteSet(Nodes)
  BY VerticesAre
<1>8. Undercut(Vertices, Edges, Nodes, roads, u, v) /\ Undercut(Nodes, roads, Vertices, Edges, u, v)
  BY <1>5, <1>6 DEF Undercut
<1>9. ShortestCost(Vertices, Edges, u, v) = ShortestCost(Nodes, roads, u, v)
  BY <1>3, <1>4, <1>7, <1>8, SameLeastCost
<1>10. QED
  BY <1>9 DEF roads

(* Whatever the roads and wherever the two points of a leg lie on them,    *)
(* the virtual nodes bring no two nodes nearer to each other.              *)
THEOREM PointsBringNoShortcuts == Spec => []NoShortcuts
<1>1. LegInv => NoShortcuts
  BY NoShortcutsHolds
<1>2. QED
  BY LegInvariant, <1>1, PTL

-----------------------------------------------------------------------------
(* The roads between two nodes, when there is one at most each way.        *)

LEMMA OnlyOneRoad ==
    ASSUME NoParallelRoads, NEW u \in Nodes, NEW v,
           NEW w, NEW t, Listed(adjacency_lists, u, v, w, t), t # BACKWARD_EDGE,
           NEW w2, NEW t2, Listed(adjacency_lists, u, v, w2, t2), t2 # BACKWARD_EDGE
    PROVE  w = w2 /\ t = t2
<1> DEFINE list == adjacency_lists[u]
<1>1. PICK j \in DOMAIN list : list[j].v = v /\ list[j].w = w /\ list[j].edge_type = t
  BY DEF Listed
<1>2. PICK k \in DOMAIN list : list[k].v = v /\ list[k].w = w2 /\ list[k].edge_type = t2
  BY DEF Listed
<1>3. j \in DOMAIN GetForwardEdges(adjacency_lists, u) /\ k \in DOMAIN GetForwardEdges(adjacency_lists, u)
  BY <1>1, <1>2 DEF GetForwardEdges
<1>4. j = k
  BY <1>1, <1>2, <1>3 DEF NoParallelRoads
<1>5. QED
  BY <1>1, <1>2, <1>4

LEMMA OneWayThere ==
    ASSUME adjacency_lists \in Lists, NoParallelRoads, NEW u \in Nodes, NEW v,
           NEW w, <<u, v, w>> \in TravelGraph(adjacency_lists),
           NEW w2, <<u, v, w2>> \in TravelGraph(adjacency_lists)
    PROVE  w = w2
<1>1. \/ Listed(adjacency_lists, u, v, w, FORWARD_EDGE)
      \/ Listed(adjacency_lists, u, v, w, DOUBLE_WAY_EDGE)
  BY TravelIs
<1>2. \/ Listed(adjacency_lists, u, v, w2, FORWARD_EDGE)
      \/ Listed(adjacency_lists, u, v, w2, DOUBLE_WAY_EDGE)
  BY TravelIs
<1>3. QED
  BY <1>1, <1>2, OnlyOneRoad, MarksDiffer

(* The constructor finds every way back there is.                          *)
LEMMA EveryWayBack ==
    ASSUME adjacency_lists \in Lists, Mirrored(adjacency_lists), NoParallelRoads,
           NEW e \in Reported(adjacency_lists),
           NEW back, <<e.v, e.u, back>> \in TravelGraph(adjacency_lists)
    PROVE  back \in BackCosts(adjacency_lists, e)
<1> DEFINE L(u, v, w, t) == Listed(adjacency_lists, u, v, w, t)
<1>1. /\ e.u \in Nodes /\ e.v \in Nodes /\ e.w \in Nat
      /\ e.type = DOUBLE_WAY_EDGE => L(e.u, e.v, e.w, DOUBLE_WAY_EDGE)
      /\ e.type # DOUBLE_WAY_EDGE => L(e.u, e.v, e.w, FORWARD_EDGE)
  BY ReportedIs
<1>2. L(e.v, e.u, back, FORWARD_EDGE) \/ L(e.v, e.u, back, DOUBLE_WAY_EDGE)
  BY <1>1, TravelIs
<1>3. CASE e.type = DOUBLE_WAY_EDGE
  <2>1. L(e.v, e.u, e.w, DOUBLE_WAY_EDGE)
    BY <1>1, <1>3 DEF Mirrored
  <2>2. back = e.w
    BY <1>1, <1>2, <2>1, OnlyOneRoad, MarksDiffer
  <2>3. QED
    BY <1>3, <2>2 DEF BackCosts
<1>4. CASE e.type # DOUBLE_WAY_EDGE
  <2>1. ~L(e.v, e.u, back, DOUBLE_WAY_EDGE)
    <3>1. SUFFICES ASSUME L(e.v, e.u, back, DOUBLE_WAY_EDGE) PROVE FALSE
      OBVIOUS
    <3>2. back \in Nat
      BY <1>1, <3>1, ListedType
    <3>3. L(e.u, e.v, back, DOUBLE_WAY_EDGE)
      BY <1>1, <3>1, <3>2 DEF Mirrored
    <3>4. L(e.u, e.v, e.w, FORWARD_EDGE)
      BY <1>1, <1>4
    <3>5. QED
      BY <1>1, <3>3, <3>4, OnlyOneRoad, MarksDiffer
  <2>2. L(e.v, e.u, back, FORWARD_EDGE)
    BY <1>2, <2>1
  <2> DEFINE e3 == FindForwardEdge(adjacency_lists, e.v, e.u)
  <2>3. e3.type # NULL_EDGE /\ L(e.v, e.u, e3.w, FORWARD_EDGE)
    BY <1>1, <2>2, FoundIs
  <2>4. BackCosts(adjacency_lists, e) = IF e3.type = NULL_EDGE THEN {} ELSE {e3.w}
    BY <1>4 DEF BackCosts
  <2> HIDE DEF e3
  <2>5. back = e3.w
    BY <1>1, <2>2, <2>3, OnlyOneRoad, MarksDiffer
  <2>6. QED
    BY <2>3, <2>4, <2>5
<1>5. QED
  BY <1>3, <1>4

(* The roads between the ends of a reported edge: the edge itself and, if  *)
(* it is open the other way too, the way back.                             *)
LEMMA RoadsOfEdge ==
    ASSUME adjacency_lists \in Lists, Mirrored(adjacency_lists), NoParallelRoads, NoLoops,
           NEW e \in Reported(adjacency_lists)
    PROVE  /\ e.u # e.v
           /\ <<e.u, e.v, e.w>> \in TravelGraph(adjacency_lists)
           /\ \A back \in BackCosts(adjacency_lists, e) :
                <<e.v, e.u, back>> \in TravelGraph(adjacency_lists)
           /\ \A f \in TravelGraph(adjacency_lists) :
                {f[1], f[2]} = {e.u, e.v} =>
                    \/ f[1] = e.u /\ f[2] = e.v /\ f[3] = e.w
                    \/ f[1] = e.v /\ f[2] = e.u /\ f[3] \in BackCosts(adjacency_lists, e)
<1> DEFINE T == TravelGraph(adjacency_lists)
<1>1. e.u \in Nodes /\ e.v \in Nodes /\ e.w \in Nat /\ <<e.u, e.v, e.w>> \in T
  BY ReportedIs
<1>2. \A back \in BackCosts(adjacency_lists, e) : <<e.v, e.u, back>> \in T
  BY BackCostsAre
<1>3. e.u # e.v
  <2> DEFINE g == <<e.u, e.v, e.w>>
  <2>1. g \in T /\ g[1] = e.u /\ g[2] = e.v
    BY <1>1
  <2> HIDE DEF g
  <2>2. QED
    BY <2>1 DEF NoLoops
<1>4. ASSUME NEW f \in T, {f[1], f[2]} = {e.u, e.v}
      PROVE  \/ f[1] = e.u /\ f[2] = e.v /\ f[3] = e.w
             \/ f[1] = e.v /\ f[2] = e.u /\ f[3] \in BackCosts(adjacency_lists, e)
  <2>1. f = <<f[1], f[2], f[3]>>
    BY TravelIs
  <2>2. (f[1] = e.u /\ f[2] = e.v) \/ (f[1] = e.v /\ f[2] = e.u)
    BY <1>3, <1>4
  <2>3. CASE f[1] = e.u /\ f[2] = e.v
    <3>1. <<e.u, e.v, f[3]>> \in T
      BY <2>1, <2>3
    <3>2. f[3] = e.w
      BY <1>1, <3>1, OneWayThere
    <3>3. QED
      BY <2>3, <3>2
  <2>4. CASE f[1] = e.v /\ f[2] = e.u
    <3>1. <<e.v, e.u, f[3]>> \in T
      BY <2>1, <2>4
    <3>2. f[3] \in BackCosts(adjacency_lists, e)
      BY <3>1, EveryWayBack
    <3>3. QED
      BY <2>4, <3>2
  <2>5. QED
    BY <2>2, <2>3, <2>4
<1>5. QED
  BY <1>1, <1>2, <1>3, <1>4

-----------------------------------------------------------------------------
(* The terrain, for two points of the roads.                               *)

(* A point lies on the road of e, r steps away from where e begins.        *)
LiesAt(e, info, r) ==
    /\ info.clamped_ratio \in 0 .. RatioSteps
    /\ {info.edge.u, info.edge.v} = {e.u, e.v}
    /\ r = IF e.u = info.edge.u THEN info.clamped_ratio ELSE RatioSteps - info.clamped_ratio

(* The pieces between a point and the ends of its road.                    *)
Cut(p, A, B, w, backs, r) ==
    {<<A, p, r * w>>, <<p, B, (RatioSteps - r) * w>>}
        \cup {<<B, p, (RatioSteps - r) * back>> : back \in backs}
        \cup {<<p, A, r * back>> : back \in backs}

LEMMA AlongIs ==
    ASSUME NEW e, NEW info, NEW r, LiesAt(e, info, r), e.u # e.v
    PROVE  /\ r \in 0 .. RatioSteps
           /\ \A f : f[1] = e.u => Along(f, info) = r
           /\ \A f : f[1] = e.v => Along(f, info) = RatioSteps - r
           /\ RatioSteps - (RatioSteps - r) = r
           /\ \A f : OnRoad(f, info) <=> {f[1], f[2]} = {e.u, e.v}
<1> DEFINE c == info.clamped_ratio
           a == info.edge.u
<1>0. {a, info.edge.v} = {e.u, e.v}
  BY DEF LiesAt
<1>1. /\ c \in 0 .. RatioSteps /\ RatioSteps \in Nat
      /\ r = IF e.u = a THEN c ELSE RatioSteps - c
      /\ e.u = a <=> e.v # a
  <2>1. e.u = a <=> e.v # a
    BY <1>0
  <2>2. QED
    BY <2>1, RatioStepsAssumption DEF LiesAt
<1>2. /\ \A f : f[1] = e.u => Along(f, info) = IF e.u = a THEN c ELSE RatioSteps - c
      /\ \A f : f[1] = e.v => Along(f, info) = IF e.v = a THEN c ELSE RatioSteps - c
  BY DEF Along
<1>3. \A f : OnRoad(f, info) <=> {f[1], f[2]} = {e.u, e.v}
  BY DEF OnRoad, LiesAt
<1> HIDE DEF c, a
<1>4. r \in 0 .. RatioSteps /\ RatioSteps - (RatioSteps - r) = r
  BY <1>1
<1>5. \A f : f[1] = e.u => Along(f, info) = r
  BY <1>1, <1>2
<1>6. (IF e.v = a THEN c ELSE RatioSteps - c) = RatioSteps - r
  BY <1>1
<1>7. \A f : f[1] = e.v => Along(f, info) = RatioSteps - r
  BY <1>2, <1>6
<1>8. QED
  BY <1>3, <1>4, <1>5, <1>7

LEMMA CutEdgesAre ==
    ASSUME adjacency_lists \in Lists, Mirrored(adjacency_lists), NoParallelRoads, NoLoops,
           NEW e \in Reported(adjacency_lists), NEW p, NEW info, NEW r, LiesAt(e, info, r)
    PROVE  CutEdges(p, info) = Cut(p, e.u, e.v, e.w, BackCosts(adjacency_lists, e), r)
<1> DEFINE T == TravelGraph(adjacency_lists)
           backs == BackCosts(adjacency_lists, e)
           pieces(f) == {<<f[1], p, Along(f, info) * f[3]>>,
                         <<p, f[2], (RatioSteps - Along(f, info)) * f[3]>>}
           all == Cut(p, e.u, e.v, e.w, backs, r)
<1>1. /\ e.u # e.v /\ <<e.u, e.v, e.w>> \in T
      /\ \A back \in backs : <<e.v, e.u, back>> \in T
      /\ \A f \in T : {f[1], f[2]} = {e.u, e.v} =>
            \/ f[1] = e.u /\ f[2] = e.v /\ f[3] = e.w
            \/ f[1] = e.v /\ f[2] = e.u /\ f[3] \in backs
  BY RoadsOfEdge
<1>2. /\ \A f : f[1] = e.u => Along(f, info) = r
      /\ \A f : f[1] = e.v => Along(f, info) = RatioSteps - r
      /\ RatioSteps - (RatioSteps - r) = r
      /\ \A f : OnRoad(f, info) <=> {f[1], f[2]} = {e.u, e.v}
  BY <1>1, AlongIs
<1>3. CutEdges(p, info) = UNION {pieces(f) : f \in {g \in T : OnRoad(g, info)}}
  BY DEF CutEdges
<1>4. ASSUME NEW f, f[1] = e.u, f[2] = e.v, f[3] = e.w
      PROVE  pieces(f) = {<<e.u, p, r * e.w>>, <<p, e.v, (RatioSteps - r) * e.w>>}
  BY <1>2, <1>4
<1>5. ASSUME NEW f, NEW back, f[1] = e.v, f[2] = e.u, f[3] = back
      PROVE  pieces(f) = {<<e.v, p, (RatioSteps - r) * back>>, <<p, e.u, r * back>>}
  BY <1>2, <1>5
<1> HIDE DEF T, backs, pieces
<1>6. ASSUME NEW f \in T, OnRoad(f, info) PROVE pieces(f) \subseteq all
  <2>1. CASE f[1] = e.u /\ f[2] = e.v /\ f[3] = e.w
    BY <1>4, <2>1 DEF Cut
  <2>2. CASE f[1] = e.v /\ f[2] = e.u /\ f[3] \in backs
    <3>1. pieces(f) = {<<e.v, p, (RatioSteps - r) * f[3]>>, <<p, e.u, r * f[3]>>}
      BY <1>5, <2>2
    <3>2. QED
      BY <2>2, <3>1 DEF Cut
  <2>3. QED
    BY <1>1, <1>2, <1>6, <2>1, <2>2
<1>7. ASSUME NEW u, NEW v, NEW w, <<u, v, w>> \in T, {u, v} = {e.u, e.v}
      PROVE  \E f \in T : OnRoad(f, info) /\ f[1] = u /\ f[2] = v /\ f[3] = w
  <2> DEFINE f == <<u, v, w>>
  <2>1. f \in T /\ f[1] = u /\ f[2] = v /\ f[3] = w
    BY <1>7
  <2> HIDE DEF f
  <2>2. QED
    BY <1>2, <1>7, <2>1
<1>8. {<<e.u, p, r * e.w>>, <<p, e.v, (RatioSteps - r) * e.w>>} \subseteq CutEdges(p, info)
  <2>1. PICK f \in T : OnRoad(f, info) /\ f[1] = e.u /\ f[2] = e.v /\ f[3] = e.w
    BY <1>1, <1>7
  <2>2. QED
    BY <1>3, <1>4, <2>1
<1>9. ASSUME NEW back \in backs
      PROVE  {<<e.v, p, (RatioSteps - r) * back>>, <<p, e.u, r * back>>} \subseteq CutEdges(p, info)
  <2>1. <<e.v, e.u, back>> \in T /\ {e.v, e.u} = {e.u, e.v}
    BY <1>1
  <2>2. PICK f \in T : OnRoad(f, info) /\ f[1] = e.v /\ f[2] = e.u /\ f[3] = back
    BY <1>7, <2>1
  <2>3. QED
    BY <1>3, <1>5, <2>2
<1>10. CutEdges(p, info) \subseteq all
  <2> HIDE DEF all
  <2>1. QED
    BY <1>3, <1>6
<1>11. all \subseteq CutEdges(p, info)
  BY <1>8, <1>9 DEF Cut
<1>12. QED
  BY <1>10, <1>11 DEF backs

(* A stretch that leads all the way, along the road or back.               *)
Straight(x, w, backs, r1, r2) ==
    /\ x = <<from, to, x[3]>>
    /\ \/ r1 <= r2 /\ x[3] = (r2 - r1) * w
       \/ r2 <= r1 /\ \E back \in backs : x[3] = (r1 - r2) * back

LEMMA DirectEdgesAre ==
    ASSUME adjacency_lists \in Lists, Mirrored(adjacency_lists), NoParallelRoads, NoLoops,
           NEW e \in Reported(adjacency_lists), NEW r1, NEW r2,
           LiesAt(e, info_1, r1), LiesAt(e, info_2, r2)
    PROVE  LET backs == BackCosts(adjacency_lists, e)
           IN  /\ r1 <= r2 => <<from, to, (r2 - r1) * e.w>> \in DirectEdges
               /\ r2 <= r1 => \A back \in backs : <<from, to, (r1 - r2) * back>> \in DirectEdges
               /\ \A x \in DirectEdges : Straight(x, e.w, backs, r1, r2)
<1> DEFINE T == TravelGraph(adjacency_lists)
           backs == BackCosts(adjacency_lists, e)
           span(f) == Along(f, info_2) - Along(f, info_1)
           direct(f) == OnRoad(f, info_1) /\ OnRoad(f, info_2) /\ Along(f, info_1) <= Along(f, info_2)
<1>1. /\ e.u # e.v /\ <<e.u, e.v, e.w>> \in T
      /\ \A back \in backs : <<e.v, e.u, back>> \in T
      /\ \A f \in T : {f[1], f[2]} = {e.u, e.v} =>
            \/ f[1] = e.u /\ f[2] = e.v /\ f[3] = e.w
            \/ f[1] = e.v /\ f[2] = e.u /\ f[3] \in backs
  BY RoadsOfEdge
<1>2. /\ r1 \in 0 .. RatioSteps
      /\ \A f : f[1] = e.u => Along(f, info_1) = r1
      /\ \A f : f[1] = e.v => Along(f, info_1) = RatioSteps - r1
      /\ \A f : OnRoad(f, info_1) <=> {f[1], f[2]} = {e.u, e.v}
  BY <1>1, AlongIs
<1>3. /\ r2 \in 0 .. RatioSteps
      /\ \A f : f[1] = e.u => Along(f, info_2) = r2
      /\ \A f : f[1] = e.v => Along(f, info_2) = RatioSteps - r2
      /\ \A f : OnRoad(f, info_2) <=> {f[1], f[2]} = {e.u, e.v}
  BY <1>1, AlongIs
<1>4. /\ (RatioSteps - r2) - (RatioSteps - r1) = r1 - r2
      /\ (RatioSteps - r1) <= (RatioSteps - r2) <=> r2 <= r1
  <2>1. RatioSteps \in Nat /\ r1 \in Nat /\ r2 \in Nat
    BY <1>2, <1>3, RatioStepsAssumption
  <2>2. QED
    BY <2>1
<1>5. DirectEdges = {<<from, to, span(f) * f[3]>> : f \in {g \in T : direct(g)}}
  BY DEF DirectEdges
<1>6. ASSUME NEW f, f[1] = e.u, f[2] = e.v
      PROVE  span(f) = r2 - r1 /\ (direct(f) <=> r1 <= r2)
  BY <1>2, <1>3, <1>6
<1>7. ASSUME NEW f, f[1] = e.v, f[2] = e.u
      PROVE  span(f) = r1 - r2 /\ (direct(f) <=> r2 <= r1)
  <2>1. {f[1], f[2]} = {e.u, e.v}
    BY <1>7
  <2>2. QED
    BY <1>2, <1>3, <1>4, <1>7, <2>1
<1>8. ASSUME NEW f, direct(f) PROVE {f[1], f[2]} = {e.u, e.v}
  BY <1>2, <1>8
<1> HIDE DEF T, backs, span, direct
<1>9. ASSUME r1 <= r2 PROVE <<from, to, (r2 - r1) * e.w>> \in DirectEdges
  <2> DEFINE f == <<e.u, e.v, e.w>>
  <2>1. f \in T /\ f[1] = e.u /\ f[2] = e.v /\ f[3] = e.w
    BY <1>1
  <2> HIDE DEF f
  <2>2. direct(f) /\ span(f) = r2 - r1
    BY <1>6, <1>9, <2>1
  <2>3. <<from, to, span(f) * f[3]>> \in DirectEdges
    BY <1>5, <2>1, <2>2
  <2>4. QED
    BY <2>1, <2>2, <2>3
<1>10. ASSUME r2 <= r1, NEW back \in backs PROVE <<from, to, (r1 - r2) * back>> \in DirectEdges
  <2> DEFINE f == <<e.v, e.u, back>>
  <2>1. f \in T /\ f[1] = e.v /\ f[2] = e.u /\ f[3] = back
    BY <1>1
  <2> HIDE DEF f
  <2>2. direct(f) /\ span(f) = r1 - r2
    BY <1>7, <1>10, <2>1
  <2>3. <<from, to, span(f) * f[3]>> \in DirectEdges
    BY <1>5, <2>1, <2>2
  <2>4. QED
    BY <2>1, <2>2, <2>3
<1>11. ASSUME NEW x \in DirectEdges
       PROVE  Straight(x, e.w, backs, r1, r2)
  <2>1. PICK f \in T : direct(f) /\ x = <<from, to, span(f) * f[3]>>
    BY <1>5
  <2>2. \/ f[1] = e.u /\ f[2] = e.v /\ f[3] = e.w
        \/ f[1] = e.v /\ f[2] = e.u /\ f[3] \in backs
    BY <1>1, <1>8, <2>1
  <2>3. x = <<from, to, x[3]>> /\ x[3] = span(f) * f[3]
    BY <2>1
  <2>4. CASE f[1] = e.u /\ f[2] = e.v /\ f[3] = e.w
    <3>1. span(f) = r2 - r1 /\ r1 <= r2
      BY <1>6, <2>1, <2>4
    <3>2. QED
      BY <2>3, <2>4, <3>1 DEF Straight
  <2>5. CASE f[1] = e.v /\ f[2] = e.u /\ f[3] \in backs
    <3>1. span(f) = r1 - r2 /\ r2 <= r1
      BY <1>7, <2>1, <2>5
    <3>2. QED
      BY <2>3, <2>5, <3>1 DEF Straight
  <2>6. QED
    BY <2>2, <2>4, <2>5
<1>12. QED
  BY <1>9, <1>10, <1>11 DEF backs

LEMMA NoDirectEdges ==
    ASSUME {info_1.edge.u, info_1.edge.v} # {info_2.edge.u, info_2.edge.v}
    PROVE  DirectEdges = {}
<1>1. \A f : ~(OnRoad(f, info_1) /\ OnRoad(f, info_2))
  BY DEF OnRoad
<1>2. QED
  BY <1>1, Zenon DEF DirectEdges

LEMMA BothLieThere ==
    ASSUME NEW lists, NEW info1 \in NearestEdgeInfos(lists), NEW info2 \in NearestEdgeInfos(lists)
    PROVE  LET e1 == info1.edge
               e2 == info2.edge
           IN  /\ LiesAt(e1, info1, info1.clamped_ratio)
               /\ LiesAt(e2, info2, info2.clamped_ratio)
               /\ Shared(e1, e2) /\ e1.u # e1.v => LiesAt(e1, info2, SecondRatio(e1, info2))
               /\ ~Shared(e1, e2) => {e1.u, e1.v} # {e2.u, e2.v}
<1> DEFINE e1 == info1.edge
           e2 == info2.edge
<1>1. info1.clamped_ratio \in 0 .. RatioSteps /\ info2.clamped_ratio \in 0 .. RatioSteps
  BY InfosAre
<1>2. LiesAt(e1, info1, info1.clamped_ratio) /\ LiesAt(e2, info2, info2.clamped_ratio)
  BY <1>1 DEF LiesAt
<1>3. ASSUME Shared(e1, e2), e1.u # e1.v PROVE LiesAt(e1, info2, SecondRatio(e1, info2))
  <2>1. {e2.u, e2.v} = {e1.u, e1.v}
    BY <1>3 DEF Shared
  <2>2. SecondRatio(e1, info2) = IF e1.u = e2.v /\ e1.v = e2.u THEN RatioSteps - info2.clamped_ratio
                                 ELSE info2.clamped_ratio
    BY DEF SecondRatio, TurnRatio
  <2>3. (e1.u = e2.v /\ e1.v = e2.u) <=> e1.u # e2.u
    BY <1>3 DEF Shared
  <2>4. QED
    BY <1>1, <2>1, <2>2, <2>3 DEF LiesAt
<1>4. ASSUME {e1.u, e1.v} = {e2.u, e2.v} PROVE Shared(e1, e2)
  <2> DEFINE a == e1.u
             b == e1.v
             c == e2.u
             d == e2.v
  <2>1. {a, b} = {c, d}
    BY <1>4
  <2> HIDE DEF a, b, c, d
  <2>2. (a = c /\ b = d) \/ (a = d /\ b = c)
    BY <2>1
  <2>3. QED
    BY <2>2 DEF Shared, a, b, c, d
<1>5. QED
  BY <1>2, <1>3, <1>4

-----------------------------------------------------------------------------
(* The query graph against the terrain.                                    *)

(* Edges serve for e if it is one of them, or if one of them leads all the *)
(* way for no more than e costs.                                           *)
Serve(edges, e) ==
    e \in edges \/ \E d \in Nat : d <= e[3] /\ <<from, to, d>> \in edges

LEMMA ServedAsWell ==
    ASSUME NEW edges, edges \subseteq Vertices \X Vertices \X Nat,
           NEW others, others \subseteq Vertices \X Vertices \X Nat,
           \A e \in edges : e[1] # to /\ e[2] # from => Serve(others, e),
           NEW k \in PricedWalks(Vertices), IsPricedWalk(edges, k, from, to), IsInjective(k.at)
    PROVE  \E l \in PricedWalks(Vertices) : IsPricedWalk(others, l, from, to) /\ Price(l) <= Price(k)
<1> DEFINE some == {e \in edges : e[1] # to /\ e[2] # from}
           W(x, c) == Within(Vertices, others, from, x, c)
           S == {s \in Vertices \X Nat : W(s[1], s[2]) \/ W(to, s[2])}
<1>1. \A x \in Vertices : \A c \in Nat : <<x, c>> \in S <=> W(x, c) \/ W(to, c)
  OBVIOUS
<1>2. <<from, 0>> \in S
  <2>1. W(from, 0) /\ from \in Vertices /\ 0 \in Nat
    BY WithinNothing, VerticesAre
  <2> HIDE DEF S, W
  <2>2. QED
    BY <1>1, <2>1
<1>3. IsPricedWalk(some, k, from, to)
  BY NeverBackNorOn
<1>4. some \subseteq Vertices \X Vertices \X Nat
  OBVIOUS
<1>5. ASSUME NEW x \in Vertices, NEW y \in Vertices, NEW c \in Nat, NEW d \in Nat,
             W(x, c), <<x, y, d>> \in others
      PROVE  W(y, c + d)
  <2>1. from \in Vertices /\ c + d \in Nat /\ c + d <= c + d
    BY VerticesAre
  <2>2. QED
    BY <1>5, <2>1, WithinGrows
<1>6. ASSUME NEW x \in Vertices, NEW c \in Nat, NEW d \in Nat, W(x, c), c <= d
       PROVE  W(x, d)
  <2>1. from \in Vertices
    BY VerticesAre
  <2>2. QED
    BY <1>6, <2>1, WithinGrows
<1>7. W(from, 0)
  BY WithinNothing, VerticesAre
<1> HIDE DEF S, W
<1>8. ASSUME NEW x \in Vertices, NEW y \in Vertices, NEW c \in Nat, NEW d \in Nat,
             <<x, c>> \in S, <<x, y, d>> \in some
      PROVE  <<y, c + d>> \in S
  <2>1. c + d \in Nat /\ c <= c + d /\ d <= c + d
    OBVIOUS
  <2>2. from \in Vertices /\ to \in Vertices
    BY VerticesAre
  <2>3. CASE W(to, c)
    <3>1. W(to, c + d)
      BY <1>6, <2>1, <2>2, <2>3
    <3>2. QED
      BY <1>1, <2>1, <3>1
  <2>4. CASE W(x, c)
    <3>1. \/ <<x, y, d>> \in others
          \/ \E b \in Nat : b <= d /\ <<from, to, b>> \in others
      <4> DEFINE e == <<x, y, d>>
      <4>1. e \in some /\ e[3] = d
        BY <1>8
      <4> HIDE DEF e
      <4>2. Serve(others, e)
        BY <4>1
      <4>3. QED
        BY <4>1, <4>2 DEF Serve, e
    <3>2. CASE <<x, y, d>> \in others
      <4>1. W(y, c + d)
        BY <1>5, <2>4, <3>2
      <4>2. QED
        BY <1>1, <2>1, <4>1
    <3>3. CASE \E b \in Nat : b <= d /\ <<from, to, b>> \in others
      <4>1. PICK b \in Nat : b <= d /\ <<from, to, b>> \in others
        BY <3>3
      <4>2. W(to, 0 + b)
        BY <1>5, <1>7, <2>2, <4>1
      <4>3. 0 + b = b /\ b <= c + d
        BY <4>1
      <4>4. W(to, c + d)
        BY <1>6, <2>1, <2>2, <4>2, <4>3
      <4>5. QED
        BY <1>1, <2>1, <4>4
    <3>4. QED
      BY <3>1, <3>2, <3>3
  <2>5. QED
    BY <1>1, <1>8, <2>3, <2>4
<1>9. <<to, Price(k)>> \in S
  <2>1. \A x, y \in Vertices : \A c, d \in Nat :
          <<x, c>> \in S /\ <<x, y, d>> \in some => <<y, c + d>> \in S
    BY <1>8
  <2> HIDE DEF some
  <2>2. QED
    BY <1>2, <1>3, <1>4, <2>1, ArrivesIn
<1>10. Price(k) \in Nat /\ to \in Vertices
  BY PriceIsNatural, VerticesAre
<1>11. W(to, Price(k))
  BY <1>1, <1>9, <1>10
<1>12. QED
  BY <1>11 DEF W, Within

LEMMA CutOneSide ==
    ASSUME NEW p, NEW A, NEW B, A # p, B # p, NEW w, NEW backs, NEW r, NEW x \in Cut(p, A, B, w, backs, r)
    PROVE  /\ x[2] # p => \/ x = <<p, B, (RatioSteps - r) * w>>
                          \/ \E back \in backs : x = <<p, A, r * back>>
           /\ x[1] # p => \/ x = <<A, p, r * w>>
                          \/ \E back \in backs : x = <<B, p, (RatioSteps - r) * back>>
<1>1. \/ x = <<A, p, r * w>> \/ x = <<p, B, (RatioSteps - r) * w>>
      \/ \E back \in backs : x = <<B, p, (RatioSteps - r) * back>>
      \/ \E back \in backs : x = <<p, A, r * back>>
  BY Zenon DEF Cut
<1>2. QED
  BY <1>1

(* The terrain of two points on different roads, and on one road whose     *)
(* direct stretches are given.                                             *)
Apart(lists, e1, e2, r1, r2) ==
    Cut(from, e1.u, e1.v, e1.w, BackCosts(lists, e1), r1)
        \cup Cut(to, e2.u, e2.v, e2.w, BackCosts(lists, e2), r2)

Together(A, B, w, backs, r1, r2, direct) ==
    Cut(from, A, B, w, backs, r1) \cup Cut(to, A, B, w, backs, r2) \cup direct

LEMMA ApartServed ==
    ASSUME NEW lists \in Lists, Mirrored(lists),
           NEW e1 \in Reported(lists), NEW e2 \in Reported(lists), NEW r1, NEW r2
    PROVE  /\ \A x \in LooseEnds(lists, e1, e2, r1, r2) : x \in Apart(lists, e1, e2, r1, r2)
           /\ \A x \in Apart(lists, e1, e2, r1, r2) :
                x[1] # to /\ x[2] # from => x \in LooseEnds(lists, e1, e2, r1, r2)
<1> DEFINE backs1 == BackCosts(lists, e1)
           backs2 == BackCosts(lists, e2)
<1>1. /\ e1.u # from /\ e1.v # from /\ e1.u # to /\ e1.v # to
      /\ e2.u # from /\ e2.v # from /\ e2.u # to /\ e2.v # to
  BY ReportedIs, VerticesAre
<1>2. LooseEnds(lists, e1, e2, r1, r2) \subseteq Apart(lists, e1, e2, r1, r2)
  BY Zenon DEF LooseEnds, Apart, Cut
<1>3. ASSUME NEW x \in Apart(lists, e1, e2, r1, r2), x[1] # to, x[2] # from
      PROVE  x \in LooseEnds(lists, e1, e2, r1, r2)
  <2>1. CASE x \in Cut(from, e1.u, e1.v, e1.w, backs1, r1)
    <3>1. \/ x = <<from, e1.v, (RatioSteps - r1) * e1.w>>
          \/ \E back \in backs1 : x = <<from, e1.u, r1 * back>>
      BY <1>1, <1>3, <2>1, CutOneSide
    <3>2. QED
      BY <3>1, Zenon DEF LooseEnds
  <2>2. CASE x \in Cut(to, e2.u, e2.v, e2.w, backs2, r2)
    <3>1. \/ x = <<e2.u, to, r2 * e2.w>>
          \/ \E back \in backs2 : x = <<e2.v, to, (RatioSteps - r2) * back>>
      BY <1>1, <1>3, <2>2, CutOneSide
    <3>2. QED
      BY <3>1, Zenon DEF LooseEnds
  <2>3. QED
    BY <1>3, <2>1, <2>2 DEF Apart
<1>4. QED
  BY <1>2, <1>3

(* What lies in the terrain of one road and may be gone over on the way.   *)
LEMMA TogetherAre ==
    ASSUME NEW A \in Nodes, NEW B \in Nodes, NEW w, NEW backs, NEW r1, NEW r2, NEW direct,
           NEW x \in Together(A, B, w, backs, r1, r2, direct), x[1] # to, x[2] # from
    PROVE  \/ x \in direct
           \/ x = <<from, B, (RatioSteps - r1) * w>>
           \/ x = <<A, to, r2 * w>>
           \/ \E back \in backs :
                x = <<from, A, r1 * back>> \/ x = <<B, to, (RatioSteps - r2) * back>>
<1>1. A # from /\ B # from /\ A # to /\ B # to
  BY VerticesAre
<1>2. CASE x \in Cut(from, A, B, w, backs, r1)
  <2>1. \/ x = <<from, B, (RatioSteps - r1) * w>>
        \/ \E back \in backs : x = <<from, A, r1 * back>>
    BY <1>1, <1>2, CutOneSide
  <2>2. QED
    BY <2>1
<1>3. CASE x \in Cut(to, A, B, w, backs, r2)
  <2>1. \/ x = <<A, to, r2 * w>>
        \/ \E back \in backs : x = <<B, to, (RatioSteps - r2) * back>>
    BY <1>1, <1>3, CutOneSide
  <2>2. QED
    BY <2>1
<1>4. QED
  BY <1>2, <1>3 DEF Together

(* A stretch of a road costs no less than a shorter one.                   *)
LEMMA ShorterStretch ==
    ASSUME NEW w \in Nat, NEW a \in Nat, NEW b \in Nat, a <= b
    PROVE  a * w <= b * w
<1>1. b - a \in Nat /\ (b - a) * w \in Nat
  BY Products
<1>2. a * w \in Nat /\ b * w \in Nat
  BY Products
<1>3. a * w + (b - a) * w = b * w
  OBVIOUS
<1>4. QED
  BY <1>1, <1>2, <1>3

LEMMA OneWayServed ==
    ASSUME NEW A \in Nodes, NEW B \in Nodes, NEW w \in Nat,
           NEW r1 \in 0 .. RatioSteps, NEW r2 \in 0 .. RatioSteps, NEW direct,
           r1 <= r2 => <<from, to, (r2 - r1) * w>> \in direct,
           \A x \in direct : x = <<from, to, x[3]>> /\ r1 <= r2 /\ x[3] = (r2 - r1) * w
    PROVE  LET pieces == OneWayPieces(A, B, r1, r2, w)
               terrain == Together(A, B, w, {}, r1, r2, direct)
           IN  /\ \A x \in pieces : Serve(terrain, x)
               /\ \A x \in terrain : x[1] # to /\ x[2] # from => Serve(pieces, x)
<1> DEFINE pieces == OneWayPieces(A, B, r1, r2, w)
           terrain == Together(A, B, w, {}, r1, r2, direct)
           d == (r2 - r1) * w
           a == (RatioSteps - r1) * w
           b == r2 * w
<1>1. RatioSteps \in Nat /\ r1 \in Nat /\ r2 \in Nat /\ r1 <= RatioSteps /\ r2 <= RatioSteps
  BY RatioStepsAssumption
<1>2. <<from, B, a>> \in terrain /\ <<A, to, b>> \in terrain
  BY DEF Together, Cut
<1>3. CASE r1 <= r2
  <2>1. <<from, to, d>> \in terrain
    BY <1>3 DEF Together
  <2>2. pieces = {<<from, to, d>>}
    <3>1. CASE r1 = r2
      <4>1. d = 0
        BY <1>1, <3>1
      <4>2. QED
        BY <3>1, <4>1, OneWayPiecesAre
    <3>2. CASE r1 < r2
      BY <3>2, OneWayPiecesAre
    <3>3. QED
      BY <1>1, <1>3, <3>1, <3>2
  <2>3. d \in Nat /\ d <= a /\ d <= b
    <3>1. r2 - r1 \in Nat /\ RatioSteps - r1 \in Nat /\ r2 - r1 <= RatioSteps - r1 /\ r2 - r1 <= r2
      BY <1>1, <1>3
    <3>2. QED
      BY <1>1, <3>1, ShorterStretch, Products
  <2>4. ASSUME NEW x \in terrain, x[1] # to, x[2] # from PROVE Serve(pieces, x)
    <3>1. \/ x = <<from, to, d>> \/ x = <<from, B, a>> \/ x = <<A, to, b>>
      BY <2>4, TogetherAre
    <3> HIDE DEF d, a, b, pieces
    <3>2. x[3] = d \/ x[3] = a \/ x[3] = b
      BY <3>1
    <3>3. d <= x[3]
      BY <2>3, <3>2
    <3>4. QED
      BY <2>2, <2>3, <3>3 DEF Serve
  <2>5. QED
    BY <2>1, <2>2, <2>4 DEF Serve
<1>4. CASE r2 < r1
  <2>1. pieces = {<<from, B, a>>, <<A, to, b>>}
    BY <1>4, OneWayPiecesAre
  <2>2. direct = {}
    BY <1>1, <1>4
  <2>3. ASSUME NEW x \in terrain, x[1] # to, x[2] # from PROVE x \in pieces
    BY <2>1, <2>2, <2>3, TogetherAre
  <2>4. QED
    BY <1>2, <2>1, <2>3 DEF Serve
<1>5. QED
  BY <1>1, <1>3, <1>4

LEMMA TwoWayServed ==
    ASSUME NEW A \in Nodes, NEW B \in Nodes, NEW w \in Nat, NEW back \in Nat,
           NEW r1 \in 0 .. RatioSteps, NEW r2 \in 0 .. RatioSteps, NEW direct,
           r1 <= r2 => <<from, to, (r2 - r1) * w>> \in direct,
           r2 <= r1 => <<from, to, (r1 - r2) * back>> \in direct,
           \A x \in direct :
               /\ x = <<from, to, x[3]>>
               /\ \/ r1 <= r2 /\ x[3] = (r2 - r1) * w
                  \/ r2 <= r1 /\ x[3] = (r1 - r2) * back
    PROVE  LET pieces == TwoWayPieces(A, B, r1, r2, w, back)
               terrain == Together(A, B, w, {back}, r1, r2, direct)
           IN  /\ \A x \in pieces : x[1] # to /\ x[2] # from => Serve(terrain, x)
               /\ \A x \in terrain : x[1] # to /\ x[2] # from => Serve(pieces, x)
<1> DEFINE pieces == TwoWayPieces(A, B, r1, r2, w, back)
           terrain == Together(A, B, w, {back}, r1, r2, direct)
           d == (r2 - r1) * w
           g == (r1 - r2) * back
           a == (RatioSteps - r1) * w
           b == r2 * w
           p == r1 * back
           q == (RatioSteps - r2) * back
<1>1. RatioSteps \in Nat /\ r1 \in Nat /\ r2 \in Nat /\ r1 <= RatioSteps /\ r2 <= RatioSteps
  BY RatioStepsAssumption
<1>2. /\ <<from, B, a>> \in terrain /\ <<A, to, b>> \in terrain
      /\ <<from, A, p>> \in terrain /\ <<B, to, q>> \in terrain
  BY DEF Together, Cut
<1>3. \A x \in direct : x \in terrain
  BY DEF Together
<1>4. a \in Nat /\ b \in Nat /\ p \in Nat /\ q \in Nat
  BY <1>1, Products
<1>5. ASSUME NEW x \in terrain, x[1] # to, x[2] # from
      PROVE  \/ x \in direct \/ x = <<from, B, a>> \/ x = <<A, to, b>>
             \/ x = <<from, A, p>> \/ x = <<B, to, q>>
  <2>1. \/ x \in direct
        \/ x = <<from, B, a>>
        \/ x = <<A, to, b>>
        \/ \E c \in {back} : x = <<from, A, r1 * c>> \/ x = <<B, to, (RatioSteps - r2) * c>>
    BY <1>5, TogetherAre
  <2>2. QED
    BY <2>1
<1>6. CASE r1 = r2
  <2>1. d = 0 /\ g = 0 /\ r1 <= r2 /\ r2 <= r1
    BY <1>1, <1>6
  <2>2. pieces = {<<from, to, 0>>}
    BY <1>6, TwoWayPiecesAre
  <2>3. <<from, to, 0>> \in terrain
    BY <1>3, <2>1
  <2>4. ASSUME NEW x \in terrain, x[1] # to, x[2] # from PROVE Serve(pieces, x)
    <3>1. \A y \in direct : y[3] = 0
      BY <2>1
    <3> HIDE DEF d, g, a, b, p, q, terrain, pieces
    <3>2. x[3] = 0 \/ x[3] = a \/ x[3] = b \/ x[3] = p \/ x[3] = q
      BY <1>5, <2>4, <3>1
    <3>3. 0 <= x[3]
      BY <1>4, <3>2
    <3>4. QED
      BY <2>2, <3>3 DEF Serve
  <2>5. QED
    BY <2>2, <2>3, <2>4 DEF Serve
<1>7. CASE r1 < r2
  <2>1. r1 <= r2 /\ ~(r2 <= r1)
    BY <1>1, <1>7
  <2>2. pieces = {<<A, from, r1 * w>>, <<from, A, p>>, <<from, to, d>>, <<to, from, (r2 - r1) * back>>,
                  <<to, B, (RatioSteps - r2) * w>>, <<B, to, q>>}
    BY <1>7, TwoWayPiecesAre
  <2>3. <<from, to, d>> \in terrain
    BY <1>3, <2>1
  <2>4. d \in Nat /\ d <= a /\ d <= b
    <3>1. r2 - r1 \in Nat /\ RatioSteps - r1 \in Nat /\ r2 - r1 <= RatioSteps - r1 /\ r2 - r1 <= r2
      BY <1>1, <2>1
    <3>2. QED
      BY <1>1, <3>1, ShorterStretch, Products
  <2>5. ASSUME NEW x \in pieces, x[1] # to, x[2] # from PROVE x \in terrain
    <3>1. x = <<from, A, p>> \/ x = <<from, to, d>> \/ x = <<B, to, q>>
      <4> HIDE DEF d, p, q
      <4>1. QED
        BY <2>2, <2>5
    <3>2. QED
      BY <1>2, <2>3, <3>1
  <2>6. ASSUME NEW x \in terrain, x[1] # to, x[2] # from PROVE Serve(pieces, x)
    <3>1. \A y \in direct : y = <<from, to, d>>
      BY <2>1
    <3> HIDE DEF d, g, a, b, p, q, terrain
    <3>2. \/ x = <<from, to, d>> \/ x = <<from, A, p>> \/ x = <<B, to, q>>
          \/ x = <<from, B, a>> \/ x = <<A, to, b>>
      BY <1>5, <2>6, <3>1
    <3>3. <<from, to, d>> \in pieces /\ <<from, A, p>> \in pieces /\ <<B, to, q>> \in pieces
      BY <2>2
    <3> HIDE DEF pieces
    <3>4. CASE x = <<from, B, a>> \/ x = <<A, to, b>>
      <4>1. d <= x[3]
        BY <2>4, <3>4
      <4>2. QED
        BY <2>4, <3>3, <4>1 DEF Serve
    <3>5. QED
      BY <3>2, <3>3, <3>4 DEF Serve
  <2>7. QED
    BY <2>5, <2>6 DEF Serve
<1>8. CASE r2 < r1
  <2>1. r2 <= r1 /\ ~(r1 <= r2)
    BY <1>1, <1>8
  <2>2. pieces = {<<A, to, b>>, <<to, A, r2 * back>>, <<to, from, (r1 - r2) * w>>, <<from, to, g>>,
                  <<from, B, a>>, <<B, from, (RatioSteps - r1) * back>>}
    BY <1>8, TwoWayPiecesAre
  <2>3. <<from, to, g>> \in terrain
    BY <1>3, <2>1
  <2>4. g \in Nat /\ g <= p /\ g <= q
    <3>1. r1 - r2 \in Nat /\ RatioSteps - r2 \in Nat /\ r1 - r2 <= RatioSteps - r2 /\ r1 - r2 <= r1
      BY <1>1, <2>1
    <3>2. QED
      BY <1>1, <3>1, ShorterStretch, Products
  <2>5. ASSUME NEW x \in pieces, x[1] # to, x[2] # from PROVE x \in terrain
    <3>1. x = <<A, to, b>> \/ x = <<from, to, g>> \/ x = <<from, B, a>>
      <4> HIDE DEF g, a, b
      <4>1. QED
        BY <2>2, <2>5
    <3>2. QED
      BY <1>2, <2>3, <3>1
  <2>6. ASSUME NEW x \in terrain, x[1] # to, x[2] # from PROVE Serve(pieces, x)
    <3>1. \A y \in direct : y = <<from, to, g>>
      BY <2>1
    <3> HIDE DEF d, g, a, b, p, q, terrain
    <3>2. \/ x = <<from, to, g>> \/ x = <<from, B, a>> \/ x = <<A, to, b>>
          \/ x = <<from, A, p>> \/ x = <<B, to, q>>
      BY <1>5, <2>6, <3>1
    <3>3. <<from, to, g>> \in pieces /\ <<from, B, a>> \in pieces /\ <<A, to, b>> \in pieces
      BY <2>2
    <3> HIDE DEF pieces
    <3>4. CASE x = <<from, A, p>> \/ x = <<B, to, q>>
      <4>1. g <= x[3]
        BY <2>4, <3>4
      <4>2. QED
        BY <2>4, <3>3, <4>1 DEF Serve
    <3>5. QED
      BY <3>2, <3>3, <3>4 DEF Serve
  <2>7. QED
    BY <2>5, <2>6 DEF Serve
<1>9. r1 = r2 \/ r1 < r2 \/ r2 < r1
  BY <1>1
<1>10. QED
  BY <1>6, <1>7, <1>8, <1>9, Zenon

(* The cost of each virtual edge is that of a stretch of the roads, and    *)
(* each stretch of the roads that a drive from point to point can begin or *)
(* end with is among the virtual edges, or is longer than one that leads   *)
(* all the way.                                                            *)
LEMMA VirtualEdgesServed ==
    ASSUME LegInv, Asked, NoParallelRoads, NoLoops
    PROVE  LET points == CutEdges(from, info_1) \cup CutEdges(to, info_2) \cup DirectEdges
           IN  /\ \A x \in virtual_edges : x[1] # to /\ x[2] # from => Serve(points, x)
               /\ \A x \in points : x[1] # to /\ x[2] # from => Serve(virtual_edges, x)
<1> DEFINE e1 == info_1.edge
           e2 == info_2.edge
           r1 == info_1.clamped_ratio
           r2 == info_2.clamped_ratio
           r3 == SecondRatio(e1, info_2)
           backs == BackCosts(adjacency_lists, e1)
           points == CutEdges(from, info_1) \cup CutEdges(to, info_2) \cup DirectEdges
<1>1. /\ adjacency_lists \in Lists /\ Mirrored(adjacency_lists)
      /\ info_1 \in NearestEdgeInfos(adjacency_lists)
      /\ info_2 \in NearestEdgeInfos(adjacency_lists)
      /\ virtual_edges = VirtualEdges(adjacency_lists, info_1, info_2)
  BY DEF LegInv, LegPosed
<1>2. /\ e1 \in Reported(adjacency_lists) /\ e2 \in Reported(adjacency_lists)
      /\ r1 \in 0 .. RatioSteps /\ r2 \in 0 .. RatioSteps /\ r3 \in 0 .. RatioSteps
  BY <1>1, InfosAre, SecondRatioType
<1>3. /\ e1.u \in Nodes /\ e1.v \in Nodes /\ e1.w \in Nat /\ e1.u # e1.v
      /\ <<e2.u, e2.v, e2.w>> \in TravelGraph(adjacency_lists)
  BY <1>1, <1>2, ReportedIs, RoadsOfEdge
<1>4. /\ LiesAt(e1, info_1, r1) /\ LiesAt(e2, info_2, r2)
      /\ Shared(e1, e2) => LiesAt(e1, info_2, r3)
      /\ ~Shared(e1, e2) => {e1.u, e1.v} # {e2.u, e2.v}
  BY <1>1, <1>3, BothLieThere
<1>5. CutEdges(from, info_1) = Cut(from, e1.u, e1.v, e1.w, backs, r1)
  BY <1>1, <1>2, <1>4, CutEdgesAre
<1>6. CASE ~Shared(e1, e2)
  <2>1. virtual_edges = LooseEnds(adjacency_lists, e1, e2, r1, r2)
    BY <1>1, <1>6, VirtualEdgesAre
  <2>2. DirectEdges = {}
    BY <1>4, <1>6, NoDirectEdges
  <2>3. CutEdges(to, info_2) = Cut(to, e2.u, e2.v, e2.w, BackCosts(adjacency_lists, e2), r2)
    BY <1>1, <1>2, <1>4, CutEdgesAre
  <2>4. points = Apart(adjacency_lists, e1, e2, r1, r2)
    BY <1>5, <2>2, <2>3 DEF Apart
  <2> HIDE DEF points, e1, e2, r1, r2
  <2>5. /\ \A x \in virtual_edges : x \in points
        /\ \A x \in points : x[1] # to /\ x[2] # from => x \in virtual_edges
    BY <1>1, <1>2, <2>1, <2>4, ApartServed
  <2>6. QED
    BY <2>5 DEF Serve, points
<1>7. ASSUME Shared(e1, e2)
      PROVE  /\ points = Together(e1.u, e1.v, e1.w, backs, r1, r3, DirectEdges)
             /\ r1 <= r3 => <<from, to, (r3 - r1) * e1.w>> \in DirectEdges
             /\ r3 <= r1 => \A back \in backs : <<from, to, (r1 - r3) * back>> \in DirectEdges
             /\ \A x \in DirectEdges : Straight(x, e1.w, backs, r1, r3)
  <2>1. CutEdges(to, info_2) = Cut(to, e1.u, e1.v, e1.w, backs, r3)
    BY <1>1, <1>2, <1>4, <1>7, CutEdgesAre
  <2>2. points = Together(e1.u, e1.v, e1.w, backs, r1, r3, DirectEdges)
    BY <1>5, <2>1 DEF Together
  <2>3. LiesAt(e1, info_1, r1) /\ LiesAt(e1, info_2, r3)
    BY <1>4, <1>7
  <2> HIDE DEF points, e1, r1, r3
  <2>4. /\ adjacency_lists \in Lists /\ Mirrored(adjacency_lists)
        /\ e1 \in Reported(adjacency_lists)
    BY <1>1, <1>2
  <2>5. /\ r1 <= r3 => <<from, to, (r3 - r1) * e1.w>> \in DirectEdges
        /\ r3 <= r1 => \A back \in backs : <<from, to, (r1 - r3) * back>> \in DirectEdges
    BY <2>3, <2>4, DirectEdgesAre
  <2>6. \A x \in DirectEdges : Straight(x, e1.w, backs, r1, r3)
    BY <2>3, <2>4, DirectEdgesAre
  <2>7. QED
    BY <2>2, <2>5, <2>6
<1>8. CASE Shared(e1, e2) /\ backs = {}
  <2>1. virtual_edges = OneWayPieces(e1.u, e1.v, r1, r2, e1.w)
    BY <1>1, <1>8, VirtualEdgesAre
  <2>2. r3 = r2
    <3>1. ~(e1.u = e2.v /\ e1.v = e2.u)
      <4>1. SUFFICES ASSUME e1.u = e2.v, e1.v = e2.u PROVE FALSE
        OBVIOUS
      <4>2. <<e1.v, e1.u, e2.w>> \in TravelGraph(adjacency_lists)
        BY <1>3, <4>1
      <4>3. e2.w \in backs
        BY <1>1, <1>2, <4>2, EveryWayBack
      <4>4. QED
        BY <1>8, <4>3
    <3>2. QED
      BY <3>1 DEF SecondRatio, TurnRatio
  <2>3. /\ points = Together(e1.u, e1.v, e1.w, {}, r1, r2, DirectEdges)
        /\ r1 <= r2 => <<from, to, (r2 - r1) * e1.w>> \in DirectEdges
        /\ \A x \in DirectEdges : x = <<from, to, x[3]>> /\ r1 <= r2 /\ x[3] = (r2 - r1) * e1.w
    <3> HIDE DEF points, e1, e2, r1, r2, r3, backs
    <3>1. QED
      BY <1>7, <1>8, <2>2 DEF Straight
  <2> HIDE DEF points, e1, e2, r1, r2, r3, backs
  <2>4. /\ \A x \in virtual_edges : Serve(points, x)
        /\ \A x \in points : x[1] # to /\ x[2] # from => Serve(virtual_edges, x)
    BY <1>2, <1>3, <2>1, <2>3, OneWayServed
  <2>5. QED
    BY <2>4 DEF points
<1>9. CASE Shared(e1, e2) /\ backs # {}
  <2>1. PICK back \in Nat : backs = {back}
    BY <1>1, <1>2, <1>9, BackCostsAre
  <2>2. virtual_edges = TwoWayPieces(e1.u, e1.v, r1, r3, e1.w, back)
    BY <1>1, <1>9, <2>1, VirtualEdgesAre
  <2> HIDE DEF points, e1, e2, r1, r2, r3, backs
  <2>3. /\ points = Together(e1.u, e1.v, e1.w, {back}, r1, r3, DirectEdges)
        /\ r1 <= r3 => <<from, to, (r3 - r1) * e1.w>> \in DirectEdges
        /\ r3 <= r1 => <<from, to, (r1 - r3) * back>> \in DirectEdges
        /\ \A x \in DirectEdges :
             /\ x = <<from, to, x[3]>>
             /\ \/ r1 <= r3 /\ x[3] = (r3 - r1) * e1.w
                \/ r3 <= r1 /\ x[3] = (r1 - r3) * back
    BY <1>7, <1>9, <2>1 DEF Straight
  <2>4. /\ \A x \in virtual_edges : x[1] # to /\ x[2] # from => Serve(points, x)
        /\ \A x \in points : x[1] # to /\ x[2] # from => Serve(virtual_edges, x)
    BY <1>2, <1>3, <2>2, <2>3, TwoWayServed
  <2>5. QED
    BY <2>4 DEF points
<1>10. QED
  BY <1>6, <1>8, <1>9

LEMMA AlongType ==
    ASSUME NEW info, info.clamped_ratio \in 0 .. RatioSteps, NEW e
    PROVE  Along(e, info) \in Nat /\ RatioSteps - Along(e, info) \in Nat
<1> DEFINE c == info.clamped_ratio
<1>1. c \in 0 .. RatioSteps /\ RatioSteps \in Nat
  BY RatioStepsAssumption
<1>2. Along(e, info) = c \/ Along(e, info) = RatioSteps - c
  BY DEF Along
<1> HIDE DEF c
<1>3. QED
  BY <1>1, <1>2

LEMMA CutEdgesType ==
    ASSUME adjacency_lists \in Lists, NEW info, info.clamped_ratio \in 0 .. RatioSteps,
           NEW p \in Vertices
    PROVE  CutEdges(p, info) \subseteq Vertices \X Vertices \X Nat
<1> DEFINE T == TravelGraph(adjacency_lists)
           pieces(f) == {<<f[1], p, Along(f, info) * f[3]>>,
                         <<p, f[2], (RatioSteps - Along(f, info)) * f[3]>>}
<1>1. CutEdges(p, info) = UNION {pieces(f) : f \in {g \in T : OnRoad(g, info)}}
  BY DEF CutEdges
<1>2. ASSUME NEW f \in T PROVE pieces(f) \subseteq Vertices \X Vertices \X Nat
  <2>1. f[1] \in Vertices /\ f[2] \in Vertices /\ f[3] \in Nat
    BY TravelIs, VerticesAre
  <2>2. Along(f, info) * f[3] \in Nat /\ (RatioSteps - Along(f, info)) * f[3] \in Nat
    BY <2>1, AlongType, Products
  <2>3. QED
    BY <2>1, <2>2
<1> HIDE DEF T, pieces
<1>3. QED
  BY <1>1, <1>2

LEMMA DirectEdgesType ==
    ASSUME adjacency_lists \in Lists,
           info_1.clamped_ratio \in 0 .. RatioSteps, info_2.clamped_ratio \in 0 .. RatioSteps
    PROVE  DirectEdges \subseteq Vertices \X Vertices \X Nat
<1>1. ASSUME NEW x \in DirectEdges PROVE x \in Vertices \X Vertices \X Nat
  <2>1. PICK f \in TravelGraph(adjacency_lists) :
          /\ Along(f, info_1) <= Along(f, info_2)
          /\ x = <<from, to, (Along(f, info_2) - Along(f, info_1)) * f[3]>>
    BY DEF DirectEdges
  <2>2. f[3] \in Nat
    BY TravelIs
  <2>3. Along(f, info_1) \in Nat /\ Along(f, info_2) \in Nat
    BY AlongType
  <2>4. Along(f, info_2) - Along(f, info_1) \in Nat
    BY <2>1, <2>3
  <2>5. (Along(f, info_2) - Along(f, info_1)) * f[3] \in Nat
    BY <2>2, <2>4, Products
  <2>6. QED
    BY <2>1, <2>5, VerticesAre
<1>2. QED
  BY <1>1

LEMMA LegCostsWhatItTakesHolds ==
    ASSUME LegInv PROVE LegCostsWhatItTakes
<1> SUFFICES ASSUME Asked, NoParallelRoads, NoLoops
             PROVE  ShortestCost(Vertices, Edges, from, to) = ShortestCost(Vertices, Terrain, from, to)
  BY DEF LegCostsWhatItTakes
<1> DEFINE roads == RoadEdges(adjacency_lists)
           points == CutEdges(from, info_1) \cup CutEdges(to, info_2) \cup DirectEdges
           All == Vertices \X Vertices \X Nat
<1>1. /\ adjacency_lists \in Lists /\ Mirrored(adjacency_lists)
      /\ info_1 \in NearestEdgeInfos(adjacency_lists)
      /\ info_2 \in NearestEdgeInfos(adjacency_lists)
      /\ virtual_edges = VirtualEdges(adjacency_lists, info_1, info_2)
  BY DEF LegInv, LegPosed
<1>2. Edges = roads \cup virtual_edges /\ Terrain = roads \cup points
  BY DEF Edges, Terrain
<1>3. info_1.clamped_ratio \in 0 .. RatioSteps /\ info_2.clamped_ratio \in 0 .. RatioSteps
  BY <1>1, InfosAre
<1>4. roads \subseteq All /\ virtual_edges \subseteq All
  BY <1>1, RoadEdgesAre, VirtualEdgesType, VerticesAre
<1>5. points \subseteq All
  BY <1>1, <1>3, CutEdgesType, DirectEdgesType, VerticesAre
<1>6. /\ \A x \in virtual_edges : x[1] # to /\ x[2] # from => Serve(points, x)
      /\ \A x \in points : x[1] # to /\ x[2] # from => Serve(virtual_edges, x)
  BY VirtualEdgesServed
<1> HIDE DEF roads, points
<1>7. /\ \A x : Serve(points, x) => Serve(Terrain, x)
      /\ \A x : Serve(virtual_edges, x) => Serve(Edges, x)
      /\ \A x \in roads : Serve(Terrain, x) /\ Serve(Edges, x)
  BY <1>2 DEF Serve
<1>8. /\ \A x \in Edges : x[1] # to /\ x[2] # from => Serve(Terrain, x)
      /\ \A x \in Terrain : x[1] # to /\ x[2] # from => Serve(Edges, x)
  BY <1>2, <1>6, <1>7
<1>9. Edges \subseteq All /\ Terrain \subseteq All
  BY <1>2, <1>4, <1>5
<1>10. Undercut(Vertices, Edges, Vertices, Terrain, from, to)
  BY <1>8, <1>9, ServedAsWell DEF Undercut
<1>11. Undercut(Vertices, Terrain, Vertices, Edges, from, to)
  BY <1>8, <1>9, ServedAsWell DEF Undercut
<1>12. from \in Vertices \cap Vertices /\ IsFiniteSet(Vertices)
  BY VerticesAre
<1>13. QED
  BY <1>9, <1>10, <1>11, <1>12, SameLeastCost

(* Whatever the roads and wherever the two points of a leg lie on them,    *)
(* the least cost from one virtual node to the other is that of driving    *)
(* from the one point to the other, as long as no two roads join the same  *)
(* nodes the same way and no road ends where it begins.                    *)
THEOREM LegsCostWhatTheyTake == Spec => []LegCostsWhatItTakes
<1>1. LegInv => LegCostsWhatItTakes
  BY LegCostsWhatItTakesHolds
<1>2. QED
  BY LegInvariant, <1>1, PTL
=============================================================================
