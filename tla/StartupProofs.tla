---------------------------- MODULE StartupProofs ----------------------------
(***************************************************************************)
(* For every nodes file, every ways file and every number of nodes: what   *)
(* the program serves is a graph read from two good files, and the label   *)
(* test that lets Server::OnMessage refuse a query is right about it.      *)
(***************************************************************************)
EXTENDS Startup, TLAPS, SequenceTheorems, FiniteSetTheorems

(* What module ConnectedComponentsProofs proves, for the loaded lists.     *)
Labelling == INSTANCE ConnectedComponentsProofs
    WITH adjacent <- [u \in Nodes |-> Adjacent(adjacency_lists, u)],
         pc <- components_pc

-----------------------------------------------------------------------------
(* The lists and what AddEdge does to them.                                *)

Lists == [Nodes -> Seq(AdjListElements(Nodes, Costs))]

SymmetricLists(lists) ==
    \A u, v \in Nodes : v \in Adjacent(lists, u) => u \in Adjacent(lists, v)

LEMMA AdjacentAreNodes ==
    ASSUME NEW lists \in Lists, NEW u \in Nodes
    PROVE  Adjacent(lists, u) \subseteq Nodes
<1> SUFFICES ASSUME NEW k \in DOMAIN lists[u]
             PROVE  lists[u][k].v \in Nodes
  BY DEF Adjacent, Elements
<1>1. lists[u] \in Seq(AdjListElements(Nodes, Costs))
  BY DEF Lists
<1>2. lists[u][k] \in AdjListElements(Nodes, Costs)
  BY <1>1
<1> QED
  BY <1>2 DEF AdjListElements

LEMMA PushBackEffect ==
    ASSUME NEW lists \in Lists, NEW u \in Nodes, NEW e \in AdjListElements(Nodes, Costs)
    PROVE  /\ PushBack(lists, u, e) \in Lists
           /\ \A x \in Nodes :
                  Adjacent(PushBack(lists, u, e), x) =
                      Adjacent(lists, x) \cup (IF x = u THEN {e.v} ELSE {})
<1>1. lists[u] \in Seq(AdjListElements(Nodes, Costs))
  BY DEF Lists
<1>2. Append(lists[u], e) \in Seq(AdjListElements(Nodes, Costs))
  BY <1>1
<1>3. PushBack(lists, u, e) \in Lists
  BY <1>2 DEF PushBack, Lists
<1>4. Elements(Append(lists[u], e)) = Elements(lists[u]) \cup {e}
  <2>1. /\ Len(Append(lists[u], e)) = Len(lists[u]) + 1
        /\ \A k \in 1 .. Len(lists[u]) : Append(lists[u], e)[k] = lists[u][k]
        /\ Append(lists[u], e)[Len(lists[u]) + 1] = e
    BY <1>1
  <2>2. /\ DOMAIN lists[u] = 1 .. Len(lists[u])
        /\ DOMAIN Append(lists[u], e) = 1 .. Len(lists[u]) + 1
        /\ Len(lists[u]) \in Nat
    BY <1>1, <1>2, <2>1
  <2> QED
    BY <2>1, <2>2 DEF Elements
<1>5. ASSUME NEW x \in Nodes
      PROVE  Adjacent(PushBack(lists, u, e), x) =
                 Adjacent(lists, x) \cup (IF x = u THEN {e.v} ELSE {})
  <2>1. CASE x = u
    <3>1. PushBack(lists, u, e)[x] = Append(lists[u], e)
      BY <2>1 DEF PushBack, Lists
    <3> QED
      BY <2>1, <3>1, <1>4 DEF Adjacent
  <2>2. CASE x # u
    BY <2>2 DEF PushBack, Lists, Adjacent
  <2> QED
    BY <2>1, <2>2
<1> QED
  BY <1>3, <1>5

LEMMA AddEdgeEffect ==
    ASSUME NEW lists \in Lists, SymmetricLists(lists),
           NEW u \in Nodes, NEW v \in Nodes, NEW w \in Costs,
           NEW double_way, NEW is_startpoint \in BOOLEAN
    PROVE  LET added == AddEdge(lists, u, v, w, double_way, is_startpoint)
           IN  added \in Lists /\ SymmetricLists(added)
<1> DEFINE near  == AdjListElement(v, w, IF double_way THEN DOUBLE_WAY_EDGE ELSE FORWARD_EDGE,
                                   is_startpoint)
           far   == AdjListElement(u, w, FarMark(double_way), is_startpoint)
           first == PushBack(lists, u, near)
           added == PushBack(first, v, far)
<1>1. /\ near \in AdjListElements(Nodes, Costs)
      /\ far \in AdjListElements(Nodes, Costs)
      /\ near.v = v
      /\ far.v = u
  BY DEF AdjListElement, AdjListElements, FarMark
<1>2. /\ first \in Lists
      /\ \A x \in Nodes :
             Adjacent(first, x) = Adjacent(lists, x) \cup (IF x = u THEN {v} ELSE {})
  <2> HIDE DEF near
  <2> QED
    BY <1>1, PushBackEffect
<1>3. /\ added \in Lists
      /\ \A x \in Nodes :
             Adjacent(added, x) = Adjacent(first, x) \cup (IF x = v THEN {u} ELSE {})
  <2> HIDE DEF far, first
  <2> QED
    BY <1>1, <1>2, PushBackEffect
<1>4. SymmetricLists(added)
  <2> HIDE DEF added, first
  <2> QED
    BY <1>2, <1>3 DEF SymmetricLists
<1>5. added = AddEdge(lists, u, v, w, double_way, is_startpoint)
  BY DEF AddEdge
<1> QED
  BY <1>3, <1>4, <1>5

-----------------------------------------------------------------------------
(* A line leads to at most two well-formed calls.                          *)

CallSet == [u : Nodes, v : Nodes, w : Costs, double_way : BOOLEAN, is_startpoint : BOOLEAN]

OneWaySet == {c \in CallSet : c.double_way = FALSE}

LEMMA CallsType ==
    ASSUME NEW way \in Ways
    PROVE  /\ Calls(way) \in Seq(CallSet)
           /\ Len(Calls(way)) \in 0 .. 2
           /\ Len(Calls(way)) = 2 => ~Calls(way)[1].double_way /\ ~Calls(way)[2].double_way
<1> DEFINE there(w) == Call(way.a, way.b, w, FALSE, way)
           back(w)  == Call(way.b, way.a, w, FALSE, way)
           When(open, call) == IF open THEN <<call>> ELSE <<>>
<1>1. /\ way.a \in Nodes /\ way.b \in Nodes /\ way.is_startpoint \in BOOLEAN
      /\ {way.duration, way.forward_duration, way.backward_duration} \subseteq Costs
  BY GraphLoadAssumption DEF Costs
<1>2. \A w \in Costs : there(w) \in OneWaySet /\ back(w) \in OneWaySet
  BY <1>1 DEF Call, CallSet, OneWaySet
<1>3. ASSUME NEW open1, NEW open2, NEW c1 \in OneWaySet, NEW c2 \in OneWaySet
      PROVE  LET calls == When(open1, c1) \o When(open2, c2)
             IN  calls \in Seq(OneWaySet) /\ Len(calls) \in 0 .. 2
  <2>1. \A open, c : c \in OneWaySet => /\ When(open, c) \in Seq(OneWaySet)
                                      /\ Len(When(open, c)) \in 0 .. 1
    OBVIOUS
  <2>2. /\ When(open1, c1) \in Seq(OneWaySet) /\ Len(When(open1, c1)) \in 0 .. 1
        /\ When(open2, c2) \in Seq(OneWaySet) /\ Len(When(open2, c2)) \in 0 .. 1
    BY <2>1
  <2> HIDE DEF When
  <2> QED
    BY <2>2, ConcatProperties
<1>4. OneWayCalls(way) \in Seq(OneWaySet) /\ Len(OneWayCalls(way)) \in 0 .. 2
  <2> DEFINE forward  == way.forward_mode # INACCESSIBLE
             backward == way.backward_mode # INACCESSIBLE
  <2>1. CASE Ferry(way)
    <3>1. there(way.duration) \in OneWaySet /\ back(way.duration) \in OneWaySet
      BY <1>1, <1>2
    <3>2. OneWayCalls(way) =
              When(forward, there(way.duration)) \o When(forward, back(way.duration))
      BY <2>1 DEF OneWayCalls
    <3>3. QED
      BY <3>1, <3>2, <1>3, Zenon
  <2>2. CASE ~Ferry(way)
    <3>1. there(way.forward_duration) \in OneWaySet /\ back(way.backward_duration) \in OneWaySet
      BY <1>1, <1>2
    <3>2. OneWayCalls(way) =
              When(forward, there(way.forward_duration)) \o When(backward, back(way.backward_duration))
      BY <2>2 DEF OneWayCalls
    <3>3. QED
      BY <3>1, <3>2, <1>3, Zenon
  <2> QED
    BY <2>1, <2>2
<1>5. CASE DoubleWay(way)
  BY <1>5, <1>1 DEF Calls, Call, CallSet
<1>6. CASE ~DoubleWay(way)
  <2>1. Calls(way) \in Seq(OneWaySet) /\ Len(Calls(way)) \in 0 .. 2
    BY <1>6, <1>4 DEF Calls
  <2>2. Calls(way) \in Seq(CallSet)
    BY <2>1 DEF OneWaySet
  <2>3. ASSUME Len(Calls(way)) = 2
        PROVE  ~Calls(way)[1].double_way /\ ~Calls(way)[2].double_way
    <3>1. Calls(way)[1] \in OneWaySet /\ Calls(way)[2] \in OneWaySet
      BY <2>1, <2>3
    <3> QED
      BY <3>1 DEF OneWaySet
  <2> QED
    BY <2>1, <2>2, <2>3
<1> QED
  BY <1>5, <1>6

LEMMA AddCallEffect ==
    ASSUME NEW lists \in Lists, SymmetricLists(lists), NEW c \in CallSet
    PROVE  AddCall(lists, c) \in Lists /\ SymmetricLists(AddCall(lists, c))
<1>1. /\ c.u \in Nodes /\ c.v \in Nodes /\ c.w \in Costs
      /\ c.is_startpoint \in BOOLEAN
  BY DEF CallSet
<1> QED
  BY <1>1, AddEdgeEffect DEF AddCall

LEMMA AddCallsEffect ==
    ASSUME NEW lists \in Lists, SymmetricLists(lists),
           NEW calls \in Seq(CallSet), Len(calls) \in 0 .. 2,
           Len(calls) = 2 => ~calls[1].double_way /\ ~calls[2].double_way
    PROVE  /\ AddCalls(lists, calls) \in Lists
           /\ SymmetricLists(AddCalls(lists, calls))
           /\ CountCalls(calls) \in 0 .. 2
<1>1. CASE Len(calls) = 0
  BY <1>1 DEF AddCalls, CountCalls
<1>2. CASE Len(calls) = 1
  <2>1. calls[1] \in CallSet
    BY <1>2
  <2>2. AddCalls(lists, calls) = AddCall(lists, calls[1])
    BY <1>2 DEF AddCalls
  <2>3. CountCalls(calls) \in 0 .. 2
    BY <1>2 DEF CountCalls, DirectedEdges
  <2> QED
    BY <2>1, <2>2, <2>3, AddCallEffect
<1>3. CASE Len(calls) = 2
  <2>1. calls[1] \in CallSet /\ calls[2] \in CallSet
    <3>1. 1 \in 1 .. Len(calls) /\ 2 \in 1 .. Len(calls)
      BY <1>3
    <3>2. QED
      BY <3>1, ElementOfSeq, Zenon
  <2>2. AddCalls(lists, calls) = AddCall(AddCall(lists, calls[1]), calls[2])
    BY <1>3 DEF AddCalls
  <2>3. CountCalls(calls) \in 0 .. 2
    BY <1>3 DEF CountCalls, DirectedEdges
  <2> QED
    BY <2>1, <2>2, <2>3, AddCallEffect
<1> QED
  BY <1>1, <1>2, <1>3

-----------------------------------------------------------------------------
(* The invariant.                                                          *)

LEMMA SameMachine ==
    /\ Labelling!Inv <=> Components!Inv
    /\ Labelling!Init <=> Components!Init
    /\ Labelling!Step <=> Components!Step
    /\ Labelling!AreConnectedIsExact <=> Components!AreConnectedIsExact
<1> USE DEF Labelling!Nodes, Components!Nodes, Labelling!Unvisited, Components!Unvisited,
            Labelling!Symmetric, Components!Symmetric,
            Labelling!Connected, Components!Connected, Labelling!Closed, Components!Closed,
            Labelling!AreConnected, Components!AreConnected
<1>1. Labelling!Inv <=> Components!Inv
  BY DEF Labelling!Inv, Components!Inv, Labelling!TypeOK, Components!TypeOK,
         Labelling!ScannedAreLabelled, Components!ScannedAreLabelled,
         Labelling!ExpandedAreClosed, Components!ExpandedAreClosed,
         Labelling!LabelsAreSound, Components!LabelsAreSound
<1>2. Labelling!Init <=> Components!Init
  BY DEF Labelling!Init, Components!Init
<1>3. Labelling!Step <=> Components!Step
  BY DEF Labelling!Step, Components!Step, Labelling!SkipNode, Components!SkipNode,
         Labelling!OpenComponent, Components!OpenComponent, Labelling!Expand, Components!Expand,
         Labelling!CloseComponent, Components!CloseComponent, Labelling!Return, Components!Return,
         Labelling!ToVisit, Components!ToVisit, Labelling!ToMark, Components!ToMark,
         Labelling!NextComponent, Components!NextComponent
<1>4. Labelling!AreConnectedIsExact <=> Components!AreConnectedIsExact
  BY DEF Labelling!AreConnectedIsExact, Components!AreConnectedIsExact
<1> QED
  BY <1>1, <1>2, <1>3, <1>4

LEMMA LabellingInit == Components!Init => Components!Inv
BY NAssumption, SameMachine, Labelling!InitInv

LEMMA LabellingStep == Components!Inv /\ Components!Step => Components!Inv'
<1>1. Components!Step => Labelling!Next
  BY SameMachine DEF Labelling!Next
<1>2. (Labelling!Inv)' <=> (Components!Inv)'
  BY SameMachine, PTL
<1> QED
  BY <1>1, <1>2, NAssumption, SameMachine, Labelling!NextInv

LEMMA LabellingExact == Components!Inv => Components!AreConnectedIsExact
BY NAssumption, SameMachine, Labelling!InvExact

LEMMA LabellingKeeps == Components!Inv /\ Components!Step => Components!LabelKept
<1>1. Labelling!LabelKept <=> Components!LabelKept
  BY DEF Labelling!LabelKept, Components!LabelKept, Labelling!Nodes, Components!Nodes,
         Labelling!Unvisited, Components!Unvisited
<1> QED
  BY <1>1, NAssumption, SameMachine, Labelling!StepKeeps

(***************************************************************************)
(* Nothing but the lists matters to the labelling before it begins.        *)
(***************************************************************************)
LEMMA NotBegun ==
    ASSUME Components!Init, UNCHANGED componentVars,
           adjacency_lists' \in Lists, SymmetricLists(adjacency_lists')
    PROVE  (Components!Init)'
<1>1. \A u \in Nodes : Adjacent(adjacency_lists', u) \subseteq Nodes
  BY AdjacentAreNodes
<1> QED
  BY <1>1 DEF Components!Init, componentVars, SymmetricLists, Components!Symmetric,
              Components!Nodes, Nodes, Components!Unvisited

LEMMA SymmetricNow == Components!TypeOK => SymmetricLists(adjacency_lists)
BY DEF Components!TypeOK, Components!Symmetric, Components!Nodes, Nodes, SymmetricLists

LEMMA InitInv == Init => Inv
<1> SUFFICES ASSUME Init PROVE Inv
  OBVIOUS
<1>1. adjacency_lists \in Lists /\ SymmetricLists(adjacency_lists)
  BY DEF Init, LoadInit, EmptyLists, Lists, SymmetricLists, Adjacent, Elements
<1>2. Components!Init
  <2>1. \A u \in Nodes : Adjacent(adjacency_lists, u) \subseteq Nodes
    BY <1>1, AdjacentAreNodes
  <2> QED
    BY <1>1, <2>1 DEF Init, Components!Init, SymmetricLists, Components!Symmetric,
                      Components!Nodes, Nodes
<1>3. Components!Inv
  BY <1>2, LabellingInit
<1>4. TypeOK
  BY <1>1, <1>2, <1>3 DEF Init, LoadInit, TypeOK, Lists, Components!Inv
<1>5. NoBadLines
  BY DEF Init, LoadInit, NoBadLines
<1> QED
  BY <1>3, <1>4, <1>5 DEF Inv

(***************************************************************************)
(* A step of loading: the labelling has not begun and does not begin.      *)
(***************************************************************************)
LEMMA LoadInv ==
    ASSUME Inv, pc \notin {"components", "serving"}, UNCHANGED componentVars,
           pc' \in {"nodes", "ways", "components", "exited"},
           nodes_file' \in Seq(NodeLines \cup {BadLine}),
           ways_file' \in Seq(Ways \cup {BadLine}),
           coordinates' \in [Nodes -> {Origin} \cup {line.at : line \in NodeLines}],
           adjacency_lists' \in Lists, SymmetricLists(adjacency_lists'),
           directed_edges_counter' \in 0 .. 2 * Len(ways_file')
    PROVE  TypeOK' /\ Components!Inv'
<1>1. (Components!Init)'
  BY NotBegun DEF Inv, TypeOK
<1>2. (Components!Init => Components!Inv)'
  BY LabellingInit, PTL
<1>3. Components!Inv'
  BY <1>1, <1>2
<1>4. TypeOK'
  BY <1>1, <1>3 DEF TypeOK, Lists, Components!Inv
<1> QED
  BY <1>3, <1>4

LEMMA LoadNextInv == Inv /\ Load => Inv'
<1> SUFFICES ASSUME Inv, Load PROVE Inv'
  OBVIOUS
<1>1. /\ nodes_file \in Seq(NodeLines \cup {BadLine})
      /\ ways_file \in Seq(Ways \cup {BadLine})
      /\ coordinates \in [Nodes -> {Origin} \cup {line.at : line \in NodeLines}]
      /\ adjacency_lists \in Lists
      /\ SymmetricLists(adjacency_lists)
      /\ directed_edges_counter \in 0 .. 2 * Len(ways_file)
  BY SymmetricNow DEF Inv, TypeOK, Lists
<1>2. UNCHANGED componentVars
  BY DEF Load
<1>3. CASE ReadNode
  <2>1. PICK line \in NodeLines :
          /\ nodes_file' = Append(nodes_file, line)
          /\ coordinates' = [coordinates EXCEPT ![line.node_id] = line.at]
    BY <1>3 DEF ReadNode, SetCoordinate
  <2>2. UNCHANGED <<pc, ways_file, adjacency_lists, directed_edges_counter>> /\ pc = "nodes"
    BY <1>3 DEF ReadNode
  <2>3. /\ nodes_file' \in Seq(NodeLines \cup {BadLine})
        /\ coordinates' \in [Nodes -> {Origin} \cup {l.at : l \in NodeLines}]
    BY <1>1, <2>1, GraphLoadAssumption
  <2>4. TypeOK' /\ Components!Inv'
    BY <1>1, <1>2, <2>2, <2>3, LoadInv
  <2>5. NoBadLines'
    <3>1. \A k \in DOMAIN nodes_file' : nodes_file'[k] # BadLine
      BY <1>1, <2>1, <2>2, GraphLoadAssumption DEF Inv, NoBadLines
    <3> QED
      BY <3>1, <2>2 DEF Inv, NoBadLines
  <2> QED
    BY <2>4, <2>5 DEF Inv
<1>4. CASE ReadWay
  <2>1. PICK way \in Ways :
          /\ ways_file' = Append(ways_file, way)
          /\ adjacency_lists' = AddCalls(adjacency_lists, Calls(way))
          /\ directed_edges_counter' = directed_edges_counter + CountCalls(Calls(way))
    BY <1>4 DEF ReadWay
  <2>2. UNCHANGED <<pc, nodes_file, coordinates>> /\ pc = "ways"
    BY <1>4 DEF ReadWay
  <2>3. /\ adjacency_lists' \in Lists
        /\ SymmetricLists(adjacency_lists')
        /\ CountCalls(Calls(way)) \in 0 .. 2
    BY <1>1, <2>1, CallsType, AddCallsEffect
  <2>4. /\ ways_file' \in Seq(Ways \cup {BadLine})
        /\ Len(ways_file') = Len(ways_file) + 1
        /\ Len(ways_file) \in Nat
    BY <1>1, <2>1
  <2>5. directed_edges_counter' \in 0 .. 2 * Len(ways_file')
    BY <1>1, <2>1, <2>3, <2>4
  <2>6. TypeOK' /\ Components!Inv'
    BY <1>1, <1>2, <2>2, <2>3, <2>4, <2>5, LoadInv
  <2>7. NoBadLines'
    <3>1. \A k \in DOMAIN ways_file' : ways_file'[k] # BadLine
      BY <1>1, <2>1, <2>2, GraphLoadAssumption DEF Inv, NoBadLines
    <3> QED
      BY <3>1, <2>2 DEF Inv, NoBadLines
  <2> QED
    BY <2>6, <2>7 DEF Inv
<1>5. CASE CloseNodes \/ CloseWays
  <2>1. /\ UNCHANGED <<nodes_file, ways_file, graphVars>>
        /\ pc \in {"nodes", "ways"}
        /\ pc' \in {"ways", "components"}
    BY <1>5 DEF CloseNodes, CloseWays
  <2>2. TypeOK' /\ Components!Inv'
    BY <1>1, <1>2, <2>1, LoadInv DEF graphVars
  <2> QED
    BY <2>1, <2>2 DEF Inv, NoBadLines
<1>6. CASE RefuseNode \/ RefuseWay
  <2>1. /\ pc \in {"nodes", "ways"}
        /\ pc' = "exited"
        /\ UNCHANGED graphVars
        /\ nodes_file' \in {nodes_file, Append(nodes_file, BadLine)}
        /\ ways_file' \in {ways_file, Append(ways_file, BadLine)}
    BY <1>6 DEF RefuseNode, RefuseWay, LeaveMain
  <2>2. /\ nodes_file' \in Seq(NodeLines \cup {BadLine})
        /\ ways_file' \in Seq(Ways \cup {BadLine})
        /\ Len(ways_file') \in Len(ways_file) .. Len(ways_file) + 1
        /\ Len(ways_file) \in Nat
    <3>1. /\ Append(nodes_file, BadLine) \in Seq(NodeLines \cup {BadLine})
          /\ Append(ways_file, BadLine) \in Seq(Ways \cup {BadLine})
          /\ Len(Append(ways_file, BadLine)) = Len(ways_file) + 1
          /\ Len(ways_file) \in Nat
      BY <1>1
    <3>2. nodes_file' \in Seq(NodeLines \cup {BadLine})
      BY <1>1, <2>1, <3>1, Zenon
    <3>3. ways_file' \in Seq(Ways \cup {BadLine})
      BY <1>1, <2>1, <3>1, Zenon
    <3>4. Len(ways_file') = Len(ways_file) \/ Len(ways_file') = Len(ways_file) + 1
      BY <2>1, <3>1, Zenon
    <3> QED
      BY <3>1, <3>2, <3>3, <3>4
  <2>3. directed_edges_counter' \in 0 .. 2 * Len(ways_file')
    BY <1>1, <2>1, <2>2 DEF graphVars
  <2>4. TypeOK' /\ Components!Inv'
    BY <1>1, <1>2, <2>1, <2>2, <2>3, LoadInv DEF graphVars
  <2> QED
    BY <2>1, <2>4 DEF Inv, NoBadLines
<1> QED
  BY <1>3, <1>4, <1>5, <1>6 DEF Load, LoadNext

LEMMA FindConnectedComponentsInv == Inv /\ FindConnectedComponents => Inv'
<1> SUFFICES ASSUME Inv, FindConnectedComponents PROVE Inv'
  OBVIOUS
<1>1. Components!Inv'
  BY LabellingStep DEF Inv, FindConnectedComponents
<1>2. pc = "components" /\ UNCHANGED loadVars
  BY DEF FindConnectedComponents
<1>3. TypeOK'
  BY <1>1, <1>2 DEF Inv, TypeOK, loadVars, Components!Inv
<1> QED
  BY <1>1, <1>2, <1>3 DEF Inv, NoBadLines, loadVars

LEMMA ServeInv == Inv /\ (Serve \/ UNCHANGED vars) => Inv'
<1> SUFFICES ASSUME Inv, Serve \/ UNCHANGED vars PROVE Inv'
  OBVIOUS
<1>1. /\ UNCHANGED <<nodes_file, ways_file, graphVars, componentVars>>
      /\ \/ pc = "components" /\ components_pc = "done" /\ pc' = "serving"
         \/ pc' = pc
  BY DEF Serve, vars, loadVars, graphVars
<1>2. Components!Inv' /\ (Components!Init <=> (Components!Init)')
  BY <1>1 DEF Inv, graphVars, componentVars, Components!Inv, Components!Init,
     Components!TypeOK, Components!Symmetric, Components!ScannedAreLabelled,
     Components!ExpandedAreClosed, Components!LabelsAreSound, Components!AreConnected,
     Components!Connected, Components!Closed
<1>3. TypeOK'
  BY <1>1, <1>2 DEF Inv, TypeOK, graphVars, componentVars, Components!Inv
<1> QED
  BY <1>1, <1>2, <1>3 DEF Inv, NoBadLines

LEMMA NextInv == Inv /\ [Next]_vars => Inv'
BY LoadNextInv, FindConnectedComponentsInv, ServeInv DEF Next, Settled

(***************************************************************************)
(* Invariant: the whole of start-up preserves Inv.                         *)
(***************************************************************************)
THEOREM Invariant == Spec => []Inv
BY InitInv, NextInv, PTL DEF Spec

(* The lists and labels are well formed from the first line on.            *)
THEOREM TypeCorrect == Spec => []TypeOK
BY Invariant, PTL DEF Inv

(* A graph that was loaded in part is never served.                        *)
THEOREM ServesGoodFiles == Spec => []NeverServesABadFile
<1>1. Inv => NeverServesABadFile
  BY DEF Inv, NoBadLines, NeverServesABadFile
<1> QED
  BY <1>1, Invariant, PTL

(* At every moment two nodes with one label are joined by loaded roads.    *)
THEOREM LabelsSound == Spec => []LabelsAreSound
<1>1. Inv => LabelsAreSound
  BY DEF Inv, Components!Inv, LabelsAreSound
<1> QED
  BY <1>1, Invariant, PTL

(* When the labelling has returned, AreConnected is right about every two  *)
(* nodes of the loaded graph.                                              *)
THEOREM LabelsExact == Spec => []AreConnectedIsExact
<1>1. Inv => AreConnectedIsExact
  BY LabellingExact DEF Inv, AreConnectedIsExact
<1> QED
  BY <1>1, Invariant, PTL

(* Loading comes before the first label, serving touches none, and the     *)
(* labelling leaves alone what is labelled.                                *)
THEOREM LabelsAreKept == Spec => LabelsStick
<1>1. Inv /\ [Next]_vars => [Components!LabelKept]_(Components!vars)
  <2> SUFFICES ASSUME Inv, [Next]_vars PROVE Components!LabelKept
    OBVIOUS
  <2>1. CASE UNCHANGED componentVars
    BY <2>1 DEF componentVars, Components!LabelKept
  <2>2. CASE FindConnectedComponents
    BY <2>2, LabellingKeeps DEF FindConnectedComponents, Inv
  <2> QED
    BY <2>1, <2>2 DEF Next, Load, Serve, Settled, vars
<1> QED
  BY <1>1, Invariant, PTL DEF Spec, LabelsStick, Components!LabelsStick

(***************************************************************************)
(* Two nodes with different labels have no route between them: a set of    *)
(* nodes that no adjacency leaves is left by no directed edge.             *)
(***************************************************************************)
LEMMA RoutesFollowLists ==
    ASSUME adjacency_lists \in Lists, NEW u \in Nodes, NEW v \in Nodes, Reaches(u, v)
    PROVE  Components!Connected(u, v)
<1> SUFFICES ASSUME NEW S \in SUBSET Nodes, Components!Closed(S), u \in S
             PROVE  v \in S
  BY DEF Components!Connected, Components!Nodes, Nodes
<1>1. ASSUME NEW e \in TravelGraph(adjacency_lists), e[1] \in S
      PROVE  e[2] \in S
  <2>0. PICK x \in Nodes :
          \E elem \in Elements(GetForwardEdges(adjacency_lists, x)) : e = <<x, elem.v, elem.w>>
    BY <1>1 DEF TravelGraph, Lists
  <2>1. PICK elem \in Elements(GetForwardEdges(adjacency_lists, x)) : e = <<x, elem.v, elem.w>>
    BY <2>0
  <2>2. elem \in Elements(adjacency_lists[x])
    BY DEF Elements, GetForwardEdges
  <2>3. x \in S /\ elem.v \in Adjacent(adjacency_lists, x)
    BY <1>1, <2>1, <2>2 DEF Adjacent
  <2>4. Adjacent(adjacency_lists, x) \subseteq S
    BY <2>3 DEF Components!Closed
  <2> QED
    BY <2>1, <2>3, <2>4
<1> QED
  BY <1>1 DEF Reaches

THEOREM RefusalSafe == Spec => []RefusalIsSafe
<1>1. Inv => RefusalIsSafe
  <2> SUFFICES ASSUME Inv, pc = "serving", NEW u \in Nodes, NEW v \in Nodes, Reaches(u, v)
               PROVE  Components!AreConnected(u, v)
    BY DEF RefusalIsSafe
  <2>1. Components!Connected(u, v)
    BY RoutesFollowLists DEF Inv, TypeOK, Lists
  <2>2. components_pc = "done" /\ Components!AreConnectedIsExact
    BY LabellingExact DEF Inv, TypeOK
  <2> QED
    BY <2>1, <2>2 DEF Components!AreConnectedIsExact, Components!Nodes, Nodes
<1> QED
  BY <1>1, Invariant, PTL

-----------------------------------------------------------------------------
(***************************************************************************)
(* Counting: how many elements of a list, or lines of a file, are in S.    *)
(***************************************************************************)
Tally(s, S) == Cardinality({k \in DOMAIN s : s[k] \in S})

One(condition) == IF condition THEN 1 ELSE 0

LEMMA TallyAppend ==
    ASSUME NEW X, NEW s \in Seq(X), NEW x \in X, NEW S
    PROVE  /\ Tally(s, S) \in Nat
           /\ Tally(Append(s, x), S) = Tally(s, S) + One(x \in S)
<1> DEFINE n == Len(s)
           t == Append(s, x)
           A == {k \in 1 .. n : s[k] \in S}
           B == {k \in 1 .. n + 1 : t[k] \in S}
<1>1. /\ n \in Nat /\ DOMAIN s = 1 .. n /\ DOMAIN t = 1 .. n + 1
      /\ t[n + 1] = x /\ \A k \in 1 .. n : t[k] = s[k]
  OBVIOUS
<1>2. Tally(s, S) = Cardinality(A) /\ Tally(t, S) = Cardinality(B)
  BY <1>1 DEF Tally
<1>3. IsFiniteSet(1 .. n) /\ A \subseteq 1 .. n
  BY <1>1, FS_Interval
<1>4. IsFiniteSet(A) /\ Cardinality(A) \in Nat
  BY <1>3, FS_Subset, FS_CardinalityType
<1> HIDE DEF t, n
<1>5. CASE x \in S
  <2>1. B = A \cup {n + 1} /\ n + 1 \notin A
    BY <1>1, <1>5
  <2>2. Cardinality(B) = Cardinality(A) + 1
    BY <1>4, <2>1, FS_AddElement
  <2>3. QED
    BY <1>2, <1>4, <1>5, <2>2 DEF One, t
<1>6. CASE x \notin S
  <2>1. B = A
    BY <1>1, <1>6
  <2>2. One(x \in S) = 0
    BY <1>6 DEF One
  <2> HIDE DEF A, B
  <2>3. Tally(t, S) = Cardinality(A)
    BY <1>2, <2>1
  <2>4. Tally(t, S) = Tally(s, S) + 0 /\ Tally(s, S) \in Nat
    BY <1>2, <1>4, <2>3
  <2>5. QED
    BY <2>2, <2>4 DEF t
<1>7. QED
  BY <1>5, <1>6

(* The elements that lead to v at cost w, and those that come from there.  *)
Leading(v, w) ==
    {e \in AdjListElements(Nodes, Costs) : e.v = v /\ e.w = w /\ e.edge_type # BACKWARD_EDGE}

Coming(v, w) ==
    {e \in AdjListElements(Nodes, Costs) : e.v = v /\ e.w = w /\ e.edge_type # FORWARD_EDGE}

LEMMA CopiesAreTallies ==
    ASSUME NEW lists \in Lists, NEW u \in Nodes, NEW v, NEW w
    PROVE  /\ Copies(GetForwardEdges(lists, u), v, w) = Tally(lists[u], Leading(v, w))
           /\ Copies(GetBackwardEdges(lists, u), v, w) = Tally(lists[u], Coming(v, w))
<1> DEFINE list == lists[u]
           f == GetForwardEdges(lists, u)
           b == GetBackwardEdges(lists, u)
<1>1. \A k \in DOMAIN list : list[k] \in AdjListElements(Nodes, Costs)
  BY DEF Lists
<1>2. /\ DOMAIN f = {j \in DOMAIN list : list[j].edge_type # BACKWARD_EDGE}
      /\ \A k \in DOMAIN f : f[k] = list[k]
      /\ DOMAIN b = {j \in DOMAIN list : list[j].edge_type # FORWARD_EDGE}
      /\ \A k \in DOMAIN b : b[k] = list[k]
  BY DEF GetForwardEdges, GetBackwardEdges
<1> HIDE DEF f, b
<1>3. {k \in DOMAIN f : f[k].v = v /\ f[k].w = w} = {k \in DOMAIN list : list[k] \in Leading(v, w)}
  BY <1>1, <1>2 DEF Leading
<1>4. {k \in DOMAIN b : b[k].v = v /\ b[k].w = w} = {k \in DOMAIN list : list[k] \in Coming(v, w)}
  BY <1>1, <1>2 DEF Coming
<1>5. Copies(f, v, w) = Tally(list, Leading(v, w)) /\ Copies(b, v, w) = Tally(list, Coming(v, w))
  BY <1>3, <1>4 DEF Copies, Tally
<1>6. QED
  BY <1>5 DEF f, b

LEMMA PushBackTally ==
    ASSUME NEW lists \in Lists, NEW x \in Nodes, NEW e \in AdjListElements(Nodes, Costs),
           NEW u \in Nodes, NEW S
    PROVE  /\ Tally(lists[u], S) \in Nat
           /\ Tally(PushBack(lists, x, e)[u], S) = Tally(lists[u], S) + One(x = u /\ e \in S)
<1>1. lists[u] \in Seq(AdjListElements(Nodes, Costs))
  BY DEF Lists
<1>2. PushBack(lists, x, e)[u] = IF x = u THEN Append(lists[u], e) ELSE lists[u]
  BY DEF PushBack, Lists
<1>3. Tally(lists[u], S) \in Nat /\ Tally(Append(lists[u], e), S) = Tally(lists[u], S) + One(e \in S)
  BY <1>1, TallyAppend
<1>4. CASE x = u
  BY <1>2, <1>3, <1>4 DEF One
<1>5. CASE x # u
  BY <1>2, <1>3, <1>5 DEF One
<1>6. QED
  BY <1>4, <1>5

(* How many ways from u to v at cost w one call of AddEdge opens.          *)
Opens(c, u, v, w) ==
    One(c.u = u /\ c.v = v /\ c.w = w) + One(c.double_way /\ c.v = u /\ c.u = v /\ c.w = w)

LEMMA OpensNat ==
    ASSUME NEW c, NEW u, NEW v, NEW w
    PROVE  Opens(c, u, v, w) \in Nat
BY DEF Opens, One

(* One call opens as many ways in u's list as it closes in v's.            *)
LEMMA AddCallTally ==
    ASSUME NEW lists \in Lists, NEW c \in CallSet,
           NEW u \in Nodes, NEW v \in Nodes, NEW w \in Costs
    PROVE  /\ Tally(lists[u], Leading(v, w)) \in Nat
           /\ Tally(lists[v], Coming(u, w)) \in Nat
           /\ Tally(AddCall(lists, c)[u], Leading(v, w)) =
                  Tally(lists[u], Leading(v, w)) + Opens(c, u, v, w)
           /\ Tally(AddCall(lists, c)[v], Coming(u, w)) =
                  Tally(lists[v], Coming(u, w)) + Opens(c, u, v, w)
<1> DEFINE near  == AdjListElement(c.v, c.w, IF c.double_way THEN DOUBLE_WAY_EDGE ELSE FORWARD_EDGE,
                                   c.is_startpoint)
           far   == AdjListElement(c.u, c.w, FarMark(c.double_way), c.is_startpoint)
           first == PushBack(lists, c.u, near)
           added == PushBack(first, c.v, far)
           L == Leading(v, w)
           C == Coming(u, w)
<1>1. /\ c.u \in Nodes /\ c.v \in Nodes /\ c.w \in Costs
      /\ c.double_way \in BOOLEAN /\ c.is_startpoint \in BOOLEAN
  BY DEF CallSet
<1>2. near \in AdjListElements(Nodes, Costs) /\ far \in AdjListElements(Nodes, Costs)
  BY <1>1 DEF AdjListElement, AdjListElements, FarMark
<1>3. /\ near \in L <=> c.v = v /\ c.w = w
      /\ far \in C <=> c.u = u /\ c.w = w
      /\ far \in L <=> c.u = v /\ c.w = w /\ c.double_way
      /\ near \in C <=> c.v = u /\ c.w = w /\ c.double_way
  <2>1. /\ near.v = c.v /\ near.w = c.w /\ far.v = c.u /\ far.w = c.w
        /\ near.edge_type # BACKWARD_EDGE /\ far.edge_type # FORWARD_EDGE
        /\ near.edge_type # FORWARD_EDGE <=> c.double_way
        /\ far.edge_type # BACKWARD_EDGE <=> c.double_way
    BY <1>1 DEF AdjListElement, FarMark, FORWARD_EDGE, BACKWARD_EDGE, DOUBLE_WAY_EDGE
  <2> HIDE DEF near, far
  <2>2. QED
    BY <1>2, <2>1 DEF Leading, Coming
<1>4. AddCall(lists, c) = added
  BY DEF AddCall, AddEdge
<1> HIDE DEF near, far, L, C
<1>5. first \in Lists
  BY <1>1, <1>2, PushBackEffect
<1>6. /\ Tally(lists[u], L) \in Nat
      /\ Tally(first[u], L) = Tally(lists[u], L) + One(c.u = u /\ near \in L)
  BY <1>1, <1>2, PushBackTally
<1>7. /\ Tally(lists[v], C) \in Nat
      /\ Tally(first[v], C) = Tally(lists[v], C) + One(c.u = v /\ near \in C)
  BY <1>1, <1>2, PushBackTally
<1> HIDE DEF first
<1>8. Tally(added[u], L) = Tally(first[u], L) + One(c.v = u /\ far \in L)
  BY <1>1, <1>2, <1>5, PushBackTally
<1>9. Tally(added[v], C) = Tally(first[v], C) + One(c.v = v /\ far \in C)
  BY <1>1, <1>2, <1>5, PushBackTally
<1> HIDE DEF added
<1>10. /\ One(c.u = u /\ near \in L) = One(c.u = u /\ c.v = v /\ c.w = w)
       /\ One(c.v = v /\ far \in C) = One(c.u = u /\ c.v = v /\ c.w = w)
       /\ One(c.v = u /\ far \in L) = One(c.double_way /\ c.v = u /\ c.u = v /\ c.w = w)
       /\ One(c.u = v /\ near \in C) = One(c.double_way /\ c.v = u /\ c.u = v /\ c.w = w)
  BY <1>3 DEF One
<1>11. /\ One(c.u = u /\ c.v = v /\ c.w = w) \in Nat
       /\ One(c.double_way /\ c.v = u /\ c.u = v /\ c.w = w) \in Nat
  BY DEF One
<1>12. Tally(added[u], L) = Tally(lists[u], L) + Opens(c, u, v, w)
  BY <1>6, <1>8, <1>10, <1>11 DEF Opens
<1>13. Tally(added[v], C) = Tally(lists[v], C) + Opens(c, u, v, w)
  BY <1>7, <1>9, <1>10, <1>11 DEF Opens
<1>14. QED
  BY <1>4, <1>6, <1>7, <1>12, <1>13 DEF L, C

(* The ways that the calls of one line open.                               *)
AllOpen(calls, u, v, w) ==
    CASE Len(calls) = 0 -> 0
      [] Len(calls) = 1 -> Opens(calls[1], u, v, w)
      [] Len(calls) = 2 -> Opens(calls[1], u, v, w) + Opens(calls[2], u, v, w)

LEMMA AddCallsTally ==
    ASSUME NEW lists \in Lists, SymmetricLists(lists),
           NEW calls \in Seq(CallSet), Len(calls) \in 0 .. 2,
           NEW u \in Nodes, NEW v \in Nodes, NEW w \in Costs
    PROVE  /\ Tally(lists[u], Leading(v, w)) \in Nat
           /\ Tally(lists[v], Coming(u, w)) \in Nat
           /\ Tally(AddCalls(lists, calls)[u], Leading(v, w)) =
                  Tally(lists[u], Leading(v, w)) + AllOpen(calls, u, v, w)
           /\ Tally(AddCalls(lists, calls)[v], Coming(u, w)) =
                  Tally(lists[v], Coming(u, w)) + AllOpen(calls, u, v, w)
<1>1. lists[u] \in Seq(AdjListElements(Nodes, Costs)) /\ lists[v] \in Seq(AdjListElements(Nodes, Costs))
  BY DEF Lists
<1>2. /\ Tally(lists[u], Leading(v, w)) \in Nat
      /\ Tally(lists[v], Coming(u, w)) \in Nat
  <2>1. \A s \in Seq(AdjListElements(Nodes, Costs)) : \A S : IsFiniteSet({k \in DOMAIN s : s[k] \in S})
    <3> SUFFICES ASSUME NEW s \in Seq(AdjListElements(Nodes, Costs)), NEW S
                 PROVE  IsFiniteSet({k \in DOMAIN s : s[k] \in S})
      OBVIOUS
    <3>1. IsFiniteSet(1 .. Len(s)) /\ DOMAIN s = 1 .. Len(s)
      BY FS_Interval
    <3>2. QED
      BY <3>1, FS_Subset
  <2>2. QED
    BY <1>1, <2>1, FS_CardinalityType DEF Tally
<1>3. CASE Len(calls) = 0
  <2>1. AddCalls(lists, calls) = lists /\ AllOpen(calls, u, v, w) = 0
    BY <1>3 DEF AddCalls, AllOpen
  <2>2. QED
    BY <1>2, <2>1
<1>4. CASE Len(calls) = 1
  <2>1. calls[1] \in CallSet
    BY <1>4
  <2>2. AddCalls(lists, calls) = AddCall(lists, calls[1]) /\ AllOpen(calls, u, v, w) = Opens(calls[1], u, v, w)
    BY <1>4 DEF AddCalls, AllOpen
  <2>3. QED
    BY <2>1, <2>2, AddCallTally
<1>5. CASE Len(calls) = 2
  <2>1. calls[1] \in CallSet /\ calls[2] \in CallSet
    <3>1. 1 \in 1 .. Len(calls) /\ 2 \in 1 .. Len(calls)
      BY <1>5
    <3>2. QED
      BY <3>1, ElementOfSeq, Zenon
  <2> DEFINE mid == AddCall(lists, calls[1])
             L   == Leading(v, w)
             C   == Coming(u, w)
  <2>2. /\ AddCalls(lists, calls) = AddCall(mid, calls[2])
        /\ AllOpen(calls, u, v, w) = Opens(calls[1], u, v, w) + Opens(calls[2], u, v, w)
    BY <1>5 DEF AddCalls, AllOpen
  <2>3. mid \in Lists
    BY <2>1, AddCallEffect
  <2>4. /\ Tally(mid[u], L) = Tally(lists[u], L) + Opens(calls[1], u, v, w)
        /\ Tally(mid[v], C) = Tally(lists[v], C) + Opens(calls[1], u, v, w)
    BY <2>1, AddCallTally
  <2> HIDE DEF mid
  <2>5. /\ Tally(AddCall(mid, calls[2])[u], L) = Tally(mid[u], L) + Opens(calls[2], u, v, w)
        /\ Tally(AddCall(mid, calls[2])[v], C) = Tally(mid[v], C) + Opens(calls[2], u, v, w)
    <3>1. ASSUME NEW c \in CallSet
          PROVE  /\ Tally(AddCall(mid, c)[u], L) = Tally(mid[u], L) + Opens(c, u, v, w)
                 /\ Tally(AddCall(mid, c)[v], C) = Tally(mid[v], C) + Opens(c, u, v, w)
      BY <2>3, AddCallTally
    <3>2. QED
      BY <2>1, <3>1
  <2>6. Opens(calls[1], u, v, w) \in Nat /\ Opens(calls[2], u, v, w) \in Nat
    BY OpensNat
  <2>7. Tally(lists[u], L) \in Nat /\ Tally(lists[v], C) \in Nat
    BY <1>2
  <2> HIDE DEF L, C
  <2>8. Tally(AddCall(mid, calls[2])[u], L) = Tally(lists[u], L) + AllOpen(calls, u, v, w)
    BY <2>2, <2>4, <2>5, <2>6, <2>7
  <2>9. Tally(AddCall(mid, calls[2])[v], C) = Tally(lists[v], C) + AllOpen(calls, u, v, w)
    BY <2>2, <2>4, <2>5, <2>6, <2>7
  <2>10. QED
    BY <1>2, <2>2, <2>8, <2>9 DEF L, C
<1>6. QED
  BY <1>2, <1>3, <1>4, <1>5

-----------------------------------------------------------------------------
(* What the steps of start-up leave of the files and of the graph.         *)
LEMMA StepsOfStartup ==
    ASSUME [Next]_vars
    PROVE  \/ UNCHANGED <<nodes_file, ways_file, coordinates, adjacency_lists>>
           \/ ReadNode \/ ReadWay \/ RefuseNode \/ RefuseWay
<1>1. CASE Load
  BY <1>1 DEF Load, LoadNext, CloseNodes, CloseWays, graphVars
<1>2. CASE FindConnectedComponents \/ Serve \/ UNCHANGED vars
  BY <1>2 DEF FindConnectedComponents, Serve, vars, loadVars, graphVars
<1>3. QED
  BY <1>1, <1>2 DEF Next, Settled

LEMMA InvLists == Inv => adjacency_lists \in Lists /\ SymmetricLists(adjacency_lists)
BY SymmetricNow DEF Inv, TypeOK, Lists

(* What one line adds to the tallies of the lists.                         *)
LEMMA ReadWayTally ==
    ASSUME NEW lists \in Lists, SymmetricLists(lists), NEW way \in Ways,
           NEW u \in Nodes, NEW v \in Nodes, NEW w \in Costs
    PROVE  /\ Tally(lists[u], Leading(v, w)) \in Nat
           /\ Tally(lists[v], Coming(u, w)) \in Nat
           /\ Tally(AddCalls(lists, Calls(way))[u], Leading(v, w)) =
                  Tally(lists[u], Leading(v, w)) + AllOpen(Calls(way), u, v, w)
           /\ Tally(AddCalls(lists, Calls(way))[v], Coming(u, w)) =
                  Tally(lists[v], Coming(u, w)) + AllOpen(Calls(way), u, v, w)
<1>1. Calls(way) \in Seq(CallSet) /\ Len(Calls(way)) \in 0 .. 2
  BY CallsType
<1>2. QED
  BY <1>1, AddCallsTally

LEMMA ReadWayLists ==
    ASSUME NEW lists \in Lists, SymmetricLists(lists), NEW way \in Ways
    PROVE  AddCalls(lists, Calls(way)) \in Lists
BY CallsType, AddCallsEffect

EndsAgree(lists) ==
    \A u, v \in Nodes : \A w \in Costs :
        Tally(lists[u], Leading(v, w)) = Tally(lists[v], Coming(u, w))

MirrorInv == EndsAgree(adjacency_lists)

LEMMA MirrorInvIsMirrored ==
    ASSUME adjacency_lists \in Lists
    PROVE  Mirrored <=> MirrorInv
BY CopiesAreTallies DEF Mirrored, MirrorInv, EndsAgree

LEMMA MirrorInit == Init => MirrorInv
<1> SUFFICES ASSUME Init, NEW u \in Nodes, NEW v \in Nodes, NEW w \in Costs
             PROVE  Tally(adjacency_lists[u], Leading(v, w)) = Tally(adjacency_lists[v], Coming(u, w))
  BY DEF MirrorInv, EndsAgree
<1>1. adjacency_lists[u] = <<>> /\ adjacency_lists[v] = <<>>
  BY DEF Init, LoadInit, EmptyLists
<1>2. \A S : Tally(<<>>, S) = Cardinality({})
  BY DEF Tally
<1>3. QED
  BY <1>1, <1>2

LEMMA MirrorNext == Inv /\ MirrorInv /\ [Next]_vars => MirrorInv'
<1> SUFFICES ASSUME Inv, EndsAgree(adjacency_lists), [Next]_vars
             PROVE  EndsAgree(adjacency_lists')
  BY DEF MirrorInv
<1>1. CASE ReadWay
  <2>1. PICK way \in Ways : adjacency_lists' = AddCalls(adjacency_lists, Calls(way))
    BY <1>1 DEF ReadWay
  <2>2. ASSUME NEW u \in Nodes, NEW v \in Nodes, NEW w \in Costs
        PROVE  Tally(adjacency_lists'[u], Leading(v, w)) = Tally(adjacency_lists'[v], Coming(u, w))
    <3>1. Tally(adjacency_lists[u], Leading(v, w)) = Tally(adjacency_lists[v], Coming(u, w))
      BY DEF EndsAgree
    <3>2. /\ Tally(adjacency_lists'[u], Leading(v, w)) =
                 Tally(adjacency_lists[u], Leading(v, w)) + AllOpen(Calls(way), u, v, w)
          /\ Tally(adjacency_lists'[v], Coming(u, w)) =
                 Tally(adjacency_lists[v], Coming(u, w)) + AllOpen(Calls(way), u, v, w)
      BY <2>1, InvLists, ReadWayTally
    <3>3. QED
      BY <3>1, <3>2
  <2>3. QED
    BY <2>2 DEF EndsAgree
<1>2. CASE adjacency_lists' = adjacency_lists
  BY <1>2
<1>3. QED
  BY <1>1, <1>2, StepsOfStartup DEF ReadNode, RefuseNode, RefuseWay, graphVars

(***************************************************************************)
(* Every edge is recorded at both of its ends, as often at one as at the   *)
(* other: the backward search has the edges the forward search has.        *)
(***************************************************************************)
THEOREM MirroredLists == Spec => []Mirrored
<1>1. Inv /\ MirrorInv => Mirrored
  BY InvLists, MirrorInvIsMirrored
<1>2. Spec => [](Inv /\ MirrorInv)
  BY InitInv, NextInv, MirrorInit, MirrorNext, PTL DEF Spec
<1>3. QED
  BY <1>1, <1>2, PTL

-----------------------------------------------------------------------------
(* What the calls of one line open is what the line says.                  *)
LEMMA OpenAlternatives ==
    ASSUME NEW c1, NEW c2, NEW u, NEW v, NEW w
    PROVE  /\ AllOpen(<<c1>> \o <<c2>>, u, v, w) = Opens(c1, u, v, w) + Opens(c2, u, v, w)
           /\ AllOpen(<<c1>> \o <<>>, u, v, w) = Opens(c1, u, v, w)
           /\ AllOpen(<<>> \o <<c2>>, u, v, w) = Opens(c2, u, v, w)
           /\ AllOpen(<<>> \o <<>>, u, v, w) = 0
<1>1. AllOpen(<<c1>> \o <<c2>>, u, v, w) = Opens(c1, u, v, w) + Opens(c2, u, v, w)
  <2> DEFINE s == <<c1>>
             t == <<c2>>
  <2>1. /\ s \in Seq({c1, c2}) /\ Len(s) = 1 /\ s[1] = c1
        /\ t \in Seq({c1, c2}) /\ Len(t) = 1 /\ t[1] = c2
    OBVIOUS
  <2> HIDE DEF s, t
  <2>2. Len(s \o t) = 2 /\ (s \o t)[1] = c1 /\ (s \o t)[2] = c2
    <3>1. /\ Len(s \o t) = Len(s) + Len(t)
          /\ \A k \in 1 .. Len(s) + Len(t) :
                 (s \o t)[k] = IF k <= Len(s) THEN s[k] ELSE t[k - Len(s)]
      BY <2>1, ConcatProperties
    <3>2. QED
      BY <2>1, <3>1
  <2>3. AllOpen(s \o t, u, v, w) = Opens(c1, u, v, w) + Opens(c2, u, v, w)
    BY <2>2 DEF AllOpen
  <2>4. QED
    BY <2>3 DEF s, t
<1>2. AllOpen(<<c1>> \o <<>>, u, v, w) = Opens(c1, u, v, w)
  <2>1. <<c1>> \o <<>> = <<c1>> /\ Len(<<c1>>) = 1 /\ <<c1>>[1] = c1
    OBVIOUS
  <2>2. QED
    BY <2>1 DEF AllOpen
<1>3. AllOpen(<<>> \o <<c2>>, u, v, w) = Opens(c2, u, v, w)
  <2>1. <<>> \o <<c2>> = <<c2>> /\ Len(<<c2>>) = 1 /\ <<c2>>[1] = c2
    OBVIOUS
  <2>2. QED
    BY <2>1 DEF AllOpen
<1>4. AllOpen(<<>> \o <<>>, u, v, w) = 0
  <2>1. <<>> \o <<>> = <<>> /\ Len(<<>>) = 0
    OBVIOUS
  <2>2. QED
    BY <2>1 DEF AllOpen
<1>5. QED
  BY <1>1, <1>2, <1>3, <1>4

LEMMA WayOpens ==
    ASSUME NEW way \in Ways, NEW u, NEW v, NEW w,
           OneWayFerry(way) => {way.a, way.b} # {u, v}
    PROVE  AllOpen(Calls(way), u, v, w) =
               One(Thereon(way, u, v, w)) + One(Backwards(way, u, v, w))
<1> DEFINE forward  == way.forward_mode # INACCESSIBLE
           backward == way.backward_mode # INACCESSIBLE
<1>1. CASE DoubleWay(way)
  <2> DEFINE cost == IF Ferry(way) THEN way.duration ELSE way.forward_duration
             c    == Call(way.a, way.b, cost, TRUE, way)
  <2>1. forward /\ backward /\ cost = IF Ferry(way) THEN way.duration ELSE way.backward_duration
    BY <1>1 DEF DoubleWay, Ferry, NoDuration
  <2>2. Calls(way) = <<c>>
    BY <1>1 DEF Calls
  <2>3. c.u = way.a /\ c.v = way.b /\ c.w = cost /\ c.double_way = TRUE
    BY DEF Call
  <2> HIDE DEF c
  <2>4. AllOpen(Calls(way), u, v, w) = Opens(c, u, v, w)
    BY <2>2 DEF AllOpen
  <2>5. /\ Thereon(way, u, v, w) <=> way.a = u /\ way.b = v /\ cost = w
        /\ Backwards(way, u, v, w) <=> way.b = u /\ way.a = v /\ cost = w
    BY <2>1 DEF Thereon, Backwards
  <2> HIDE DEF cost
  <2>6. Opens(c, u, v, w) = One(way.a = u /\ way.b = v /\ cost = w) + One(way.b = u /\ way.a = v /\ cost = w)
    BY <2>3 DEF Opens, One
  <2>7. QED
    BY <2>4, <2>5, <2>6 DEF One
<1>2. CASE ~DoubleWay(way) /\ ~Ferry(way)
  <2> DEFINE c1 == Call(way.a, way.b, way.forward_duration, FALSE, way)
             c2 == Call(way.b, way.a, way.backward_duration, FALSE, way)
  <2>1. Calls(way) = (IF forward THEN <<c1>> ELSE <<>>) \o (IF backward THEN <<c2>> ELSE <<>>)
    BY <1>2 DEF Calls, OneWayCalls
  <2>2. /\ Opens(c1, u, v, w) =
               IF way.a = u /\ way.b = v /\ way.forward_duration = w THEN 1 ELSE 0
        /\ Opens(c2, u, v, w) =
               IF way.b = u /\ way.a = v /\ way.backward_duration = w THEN 1 ELSE 0
    BY DEF Opens, One, Call
  <2>3. /\ Thereon(way, u, v, w) <=> forward /\ way.a = u /\ way.b = v /\ way.forward_duration = w
        /\ Backwards(way, u, v, w) <=> backward /\ way.b = u /\ way.a = v /\ way.backward_duration = w
    BY <1>2 DEF Thereon, Backwards
  <2>4. /\ One(Thereon(way, u, v, w)) = IF forward THEN Opens(c1, u, v, w) ELSE 0
        /\ One(Backwards(way, u, v, w)) = IF backward THEN Opens(c2, u, v, w) ELSE 0
    BY <2>2, <2>3 DEF One
  <2>5. Opens(c1, u, v, w) \in Nat /\ Opens(c2, u, v, w) \in Nat
    BY OpensNat
  <2> HIDE DEF c1, c2
  <2>6. /\ AllOpen(<<c1>> \o <<c2>>, u, v, w) = Opens(c1, u, v, w) + Opens(c2, u, v, w)
        /\ AllOpen(<<c1>> \o <<>>, u, v, w) = Opens(c1, u, v, w)
        /\ AllOpen(<<>> \o <<c2>>, u, v, w) = Opens(c2, u, v, w)
        /\ AllOpen(<<>> \o <<>>, u, v, w) = 0
    BY OpenAlternatives
  <2>7. CASE forward /\ backward
    <3>1. Calls(way) = <<c1>> \o <<c2>>
      BY <2>1, <2>7
    <3>2. QED
      BY <3>1, <2>7, <2>4, <2>6
  <2>8. CASE forward /\ ~backward
    <3>1. Calls(way) = <<c1>> \o <<>>
      BY <2>1, <2>8
    <3>2. QED
      BY <3>1, <2>8, <2>4, <2>5, <2>6
  <2>9. CASE ~forward /\ backward
    <3>1. Calls(way) = <<>> \o <<c2>>
      BY <2>1, <2>9
    <3>2. QED
      BY <3>1, <2>9, <2>4, <2>5, <2>6
  <2>10. CASE ~forward /\ ~backward
    <3>1. Calls(way) = <<>> \o <<>>
      BY <2>1, <2>10
    <3>2. QED
      BY <3>1, <2>10, <2>4, <2>6
  <2>11. QED
    BY <2>7, <2>8, <2>9, <2>10
<1>3. CASE ~DoubleWay(way) /\ Ferry(way)
  <2> DEFINE c1 == Call(way.a, way.b, way.duration, FALSE, way)
             c2 == Call(way.b, way.a, way.duration, FALSE, way)
  <2>1. Calls(way) = (IF forward THEN <<c1>> ELSE <<>>) \o (IF forward THEN <<c2>> ELSE <<>>)
    BY <1>3 DEF Calls, OneWayCalls
  <2>2. ~(way.a = u /\ way.b = v) /\ ~(way.b = u /\ way.a = v)
    BY <1>3 DEF OneWayFerry
  <2>3. Opens(c1, u, v, w) = 0 /\ Opens(c2, u, v, w) = 0
    BY <2>2 DEF Opens, One, Call
  <2>4. One(Thereon(way, u, v, w)) = 0 /\ One(Backwards(way, u, v, w)) = 0
    BY <2>2 DEF Thereon, Backwards, One
  <2> HIDE DEF c1, c2
  <2>5. /\ AllOpen(<<c1>> \o <<c2>>, u, v, w) = Opens(c1, u, v, w) + Opens(c2, u, v, w)
        /\ AllOpen(<<>> \o <<>>, u, v, w) = 0
    BY OpenAlternatives
  <2>6. CASE forward
    <3>1. Calls(way) = <<c1>> \o <<c2>>
      BY <2>1, <2>6
    <3>2. QED
      BY <3>1, <2>6, <2>3, <2>4, <2>5
  <2>7. CASE ~forward
    <3>1. Calls(way) = <<>> \o <<>>
      BY <2>1, <2>7
    <3>2. QED
      BY <3>1, <2>7, <2>4, <2>5
  <2>8. QED
    BY <2>6, <2>7
<1>4. QED
  BY <1>1, <1>2, <1>3

-----------------------------------------------------------------------------
(* The lines that go from u to v, there or backwards.                      *)
There(u, v, w) == {way \in Ways : Thereon(way, u, v, w)}
Back(u, v, w)  == {way \in Ways : Backwards(way, u, v, w)}

(* No line of the file is a one-way ferry between u and v.                 *)
Plain(file, u, v) ==
    \A k \in DOMAIN file :
        file[k] # BadLine /\ OneWayFerry(file[k]) => {file[k].a, file[k].b} # {u, v}

RoadsTallied(lists, file) ==
    \A u, v \in Nodes : \A w \in Costs :
        Plain(file, u, v) =>
            Tally(lists[u], Leading(v, w)) = Tally(file, There(u, v, w)) + Tally(file, Back(u, v, w))

RoadInv == RoadsTallied(adjacency_lists, ways_file)

LEMMA RoadInvIsRoadsAsRead ==
    ASSUME adjacency_lists \in Lists, ways_file \in Seq(Ways \cup {BadLine}), RoadInv
    PROVE  RoadsAsRead
<1> SUFFICES ASSUME NEW u \in Nodes, NEW v \in Nodes, NEW w \in Costs,
                    \A k \in Declared : OneWayFerry(ways_file[k]) =>
                        {ways_file[k].a, ways_file[k].b} # {u, v}
             PROVE  Copies(GetForwardEdges(adjacency_lists, u), v, w) =
                        Cardinality({k \in Declared : Thereon(ways_file[k], u, v, w)})
                      + Cardinality({k \in Declared : Backwards(ways_file[k], u, v, w)})
  BY DEF RoadsAsRead
<1>1. Plain(ways_file, u, v)
  BY DEF Plain, Declared
<1>2. \A k \in DOMAIN ways_file : ways_file[k] \in Ways <=> ways_file[k] # BadLine
  BY GraphLoadAssumption
<1>3. {k \in Declared : Thereon(ways_file[k], u, v, w)} =
          {k \in DOMAIN ways_file : ways_file[k] \in There(u, v, w)}
  BY <1>2 DEF Declared, There
<1>4. {k \in Declared : Backwards(ways_file[k], u, v, w)} =
          {k \in DOMAIN ways_file : ways_file[k] \in Back(u, v, w)}
  BY <1>2 DEF Declared, Back
<1>5. Tally(adjacency_lists[u], Leading(v, w)) =
          Tally(ways_file, There(u, v, w)) + Tally(ways_file, Back(u, v, w))
  BY <1>1 DEF RoadInv, RoadsTallied
<1>6. Copies(GetForwardEdges(adjacency_lists, u), v, w) = Tally(adjacency_lists[u], Leading(v, w))
  BY CopiesAreTallies
<1>7. QED
  BY <1>3, <1>4, <1>5, <1>6 DEF Tally

LEMMA PlainBefore ==
    ASSUME NEW file \in Seq(Ways \cup {BadLine}), NEW line, NEW u, NEW v,
           Plain(Append(file, line), u, v)
    PROVE  /\ Plain(file, u, v)
           /\ line # BadLine /\ OneWayFerry(line) => {line.a, line.b} # {u, v}
<1> DEFINE longer == Append(file, line)
<1>1. /\ Len(file) \in Nat /\ DOMAIN file = 1 .. Len(file) /\ DOMAIN longer = 1 .. Len(file) + 1
      /\ \A k \in 1 .. Len(file) : longer[k] = file[k]
      /\ longer[Len(file) + 1] = line
  OBVIOUS
<1>2. Plain(longer, u, v)
  OBVIOUS
<1> HIDE DEF longer
<1>3. Plain(file, u, v)
  <2> SUFFICES ASSUME NEW k \in DOMAIN file, file[k] # BadLine, OneWayFerry(file[k])
               PROVE  {file[k].a, file[k].b} # {u, v}
    BY DEF Plain
  <2>1. k \in DOMAIN longer /\ longer[k] = file[k]
    BY <1>1
  <2>2. QED
    BY <1>2, <2>1 DEF Plain
<1>4. Len(file) + 1 \in DOMAIN longer
  BY <1>1
<1>5. QED
  BY <1>1, <1>2, <1>3, <1>4 DEF Plain

LEMMA RoadInit == Init => RoadInv
<1> SUFFICES ASSUME Init, NEW u \in Nodes, NEW v \in Nodes, NEW w \in Costs
             PROVE  Tally(adjacency_lists[u], Leading(v, w)) =
                        Tally(ways_file, There(u, v, w)) + Tally(ways_file, Back(u, v, w))
  BY DEF RoadInv, RoadsTallied
<1>1. adjacency_lists[u] = <<>> /\ ways_file = <<>>
  BY DEF Init, LoadInit, EmptyLists
<1>2. \A S : Tally(<<>>, S) = 0
  BY FS_EmptySet DEF Tally
<1>3. QED
  BY <1>1, <1>2

LEMMA RoadNext == Inv /\ RoadInv /\ [Next]_vars => RoadInv'
<1> SUFFICES ASSUME Inv, RoadInv, [Next]_vars
             PROVE  RoadsTallied(adjacency_lists', ways_file')
  BY DEF RoadInv
<1>1. ways_file \in Seq(Ways \cup {BadLine}) /\ adjacency_lists \in Lists /\ SymmetricLists(adjacency_lists)
  BY InvLists DEF Inv, TypeOK
<1>2. CASE ReadWay
  <2>1. PICK way \in Ways : /\ ways_file' = Append(ways_file, way)
                            /\ adjacency_lists' = AddCalls(adjacency_lists, Calls(way))
    BY <1>2 DEF ReadWay
  <2>2. way # BadLine
    BY GraphLoadAssumption
  <2>3. ASSUME NEW u \in Nodes, NEW v \in Nodes, NEW w \in Costs, Plain(ways_file', u, v)
        PROVE  Tally(adjacency_lists'[u], Leading(v, w)) =
                   Tally(ways_file', There(u, v, w)) + Tally(ways_file', Back(u, v, w))
    <3> DEFINE T == There(u, v, w)
               B == Back(u, v, w)
               L == Leading(v, w)
    <3>1. Plain(ways_file, u, v) /\ (OneWayFerry(way) => {way.a, way.b} # {u, v})
      BY <1>1, <2>1, <2>2, <2>3, PlainBefore
    <3>2. Tally(adjacency_lists[u], L) = Tally(ways_file, T) + Tally(ways_file, B)
      BY <3>1 DEF RoadInv, RoadsTallied
    <3>3. /\ Tally(adjacency_lists[u], L) \in Nat
          /\ Tally(adjacency_lists'[u], L) = Tally(adjacency_lists[u], L) + AllOpen(Calls(way), u, v, w)
      BY <1>1, <2>1, ReadWayTally
    <3>4. AllOpen(Calls(way), u, v, w) = One(Thereon(way, u, v, w)) + One(Backwards(way, u, v, w))
      BY <3>1, WayOpens
    <3>5. One(way \in T) = One(Thereon(way, u, v, w)) /\ One(way \in B) = One(Backwards(way, u, v, w))
      BY DEF One, There, Back
    <3>6. way \in Ways \cup {BadLine}
      OBVIOUS
    <3>7. /\ Tally(ways_file, T) \in Nat
          /\ Tally(ways_file', T) = Tally(ways_file, T) + One(way \in T)
      BY <1>1, <2>1, <3>6, TallyAppend
    <3>8. /\ Tally(ways_file, B) \in Nat
          /\ Tally(ways_file', B) = Tally(ways_file, B) + One(way \in B)
      BY <1>1, <2>1, <3>6, TallyAppend
    <3>9. One(way \in T) \in Nat /\ One(way \in B) \in Nat
      BY DEF One
    <3> HIDE DEF T, B, L
    <3>10. Tally(adjacency_lists'[u], L) = Tally(ways_file', T) + Tally(ways_file', B)
      BY <3>2, <3>3, <3>4, <3>5, <3>7, <3>8, <3>9
    <3>11. QED
      BY <3>10 DEF T, B, L
  <2>4. QED
    BY <2>3 DEF RoadsTallied
<1>3. CASE RefuseWay
  <2>1. ways_file' = Append(ways_file, BadLine) /\ adjacency_lists' = adjacency_lists
    BY <1>3 DEF RefuseWay, graphVars
  <2>2. ASSUME NEW u \in Nodes, NEW v \in Nodes, NEW w \in Costs, Plain(ways_file', u, v)
        PROVE  Tally(adjacency_lists'[u], Leading(v, w)) =
                   Tally(ways_file', There(u, v, w)) + Tally(ways_file', Back(u, v, w))
    <3>1. Plain(ways_file, u, v)
      BY <1>1, <2>1, <2>2, PlainBefore
    <3>2. Tally(adjacency_lists[u], Leading(v, w)) =
              Tally(ways_file, There(u, v, w)) + Tally(ways_file, Back(u, v, w))
      BY <3>1 DEF RoadInv, RoadsTallied
    <3>3. BadLine \notin There(u, v, w) /\ BadLine \notin Back(u, v, w)
      BY GraphLoadAssumption DEF There, Back
    <3>4. \A S : BadLine \notin S => Tally(ways_file', S) = Tally(ways_file, S)
      <4> SUFFICES ASSUME NEW S, BadLine \notin S
                   PROVE  Tally(ways_file', S) = Tally(ways_file, S)
        OBVIOUS
      <4>1. BadLine \in Ways \cup {BadLine} /\ One(BadLine \in S) = 0
        BY DEF One
      <4>2. /\ Tally(ways_file, S) \in Nat
            /\ Tally(ways_file', S) = Tally(ways_file, S) + One(BadLine \in S)
        BY <1>1, <2>1, <4>1, TallyAppend
      <4>3. QED
        BY <4>1, <4>2
    <3>5. QED
      BY <2>1, <3>2, <3>3, <3>4
  <2>3. QED
    BY <2>2 DEF RoadsTallied
<1>4. CASE UNCHANGED <<ways_file, adjacency_lists>>
  BY <1>4 DEF RoadInv
<1>5. QED
  BY <1>2, <1>3, <1>4, StepsOfStartup DEF ReadNode, RefuseNode, graphVars

(* Every coordinate is the last one a line gave it.                        *)
LEMMA CoordinatesInit == Init => CoordinatesAsRead
BY DEF Init, LoadInit, CoordinatesAsRead

Named(file, u) == {k \in DOMAIN file : file[k] # BadLine /\ file[k].node_id = u}

LastNamed(file, u, at) ==
    IF Named(file, u) = {} THEN at = Origin
    ELSE \E k \in Named(file, u) : (\A j \in Named(file, u) : j <= k) /\ at = file[k].at

LEMMA CoordinatesLast == CoordinatesAsRead <=> \A u \in Nodes : LastNamed(nodes_file, u, coordinates[u])
BY DEF CoordinatesAsRead, LastNamed, Named

LEMMA NamedAppend ==
    ASSUME NEW file \in Seq(NodeLines \cup {BadLine}), NEW line, NEW u, NEW at
    PROVE  /\ line # BadLine /\ line.node_id = u => LastNamed(Append(file, line), u, line.at)
           /\ ~(line # BadLine /\ line.node_id = u) /\ LastNamed(file, u, at) =>
                  LastNamed(Append(file, line), u, at)
<1> DEFINE longer == Append(file, line)
           n == Len(file)
<1>1. /\ n \in Nat /\ DOMAIN file = 1 .. n /\ DOMAIN longer = 1 .. n + 1
      /\ \A k \in 1 .. n : longer[k] = file[k]
      /\ longer[n + 1] = line
  OBVIOUS
<1> HIDE DEF longer, n
<1>2. ASSUME line # BadLine, line.node_id = u
      PROVE  LastNamed(longer, u, line.at)
  <2>1. n + 1 \in Named(longer, u)
    BY <1>1, <1>2 DEF Named
  <2>2. \A j \in Named(longer, u) : j <= n + 1
    BY <1>1 DEF Named
  <2>3. QED
    BY <1>1, <2>1, <2>2 DEF LastNamed
<1>3. ASSUME ~(line # BadLine /\ line.node_id = u), LastNamed(file, u, at)
      PROVE  LastNamed(longer, u, at)
  <2>1. Named(longer, u) = Named(file, u)
    <3>1. \A k \in 1 .. n : k \in Named(longer, u) <=> k \in Named(file, u)
      BY <1>1 DEF Named
    <3>2. n + 1 \notin Named(longer, u) /\ n + 1 \notin Named(file, u)
      BY <1>1, <1>3 DEF Named
    <3>3. Named(longer, u) \subseteq 1 .. n + 1 /\ Named(file, u) \subseteq 1 .. n
      BY <1>1 DEF Named
    <3>4. \A k \in 1 .. n + 1 : k \in 1 .. n \/ k = n + 1
      BY <1>1
    <3>5. QED
      BY <3>1, <3>2, <3>3, <3>4
  <2>2. \A k \in Named(file, u) : longer[k] = file[k]
    BY <1>1 DEF Named
  <2>3. QED
    BY <1>3, <2>1, <2>2 DEF LastNamed
<1>4. QED
  BY <1>2, <1>3 DEF longer

LEMMA CoordinatesNext == Inv /\ CoordinatesAsRead /\ [Next]_vars => CoordinatesAsRead'
<1> SUFFICES ASSUME Inv, CoordinatesAsRead, [Next]_vars
             PROVE  \A u \in Nodes : LastNamed(nodes_file', u, coordinates'[u])
  BY DEF CoordinatesAsRead, LastNamed, Named
<1>1. /\ nodes_file \in Seq(NodeLines \cup {BadLine})
      /\ coordinates \in [Nodes -> {Origin} \cup {line.at : line \in NodeLines}]
  BY DEF Inv, TypeOK
<1>2. \A u \in Nodes : LastNamed(nodes_file, u, coordinates[u])
  BY CoordinatesLast
<1>3. CASE ReadNode
  <2>1. PICK line \in NodeLines : /\ nodes_file' = Append(nodes_file, line)
                                  /\ coordinates' = [coordinates EXCEPT ![line.node_id] = line.at]
    BY <1>3 DEF ReadNode, SetCoordinate
  <2>2. line # BadLine /\ line.node_id \in Nodes
    BY GraphLoadAssumption
  <2>3. ASSUME NEW u \in Nodes
        PROVE  LastNamed(nodes_file', u, coordinates'[u])
    <3>1. CASE line.node_id = u
      <4>1. coordinates'[u] = line.at
        BY <1>1, <2>1, <3>1
      <4>2. LastNamed(Append(nodes_file, line), u, line.at)
        BY <1>1, <2>2, <3>1, NamedAppend
      <4>3. QED
        BY <2>1, <4>1, <4>2
    <3>2. CASE line.node_id # u
      <4>1. coordinates'[u] = coordinates[u]
        BY <1>1, <2>1, <3>2
      <4>2. LastNamed(Append(nodes_file, line), u, coordinates[u])
        BY <1>1, <1>2, <3>2, NamedAppend
      <4>3. QED
        BY <2>1, <4>1, <4>2
    <3>3. QED
      BY <3>1, <3>2
  <2>4. QED
    BY <2>3
<1>4. CASE RefuseNode
  <2>1. nodes_file' = Append(nodes_file, BadLine) /\ coordinates' = coordinates
    BY <1>4 DEF RefuseNode, graphVars
  <2>2. \A u \in Nodes : LastNamed(Append(nodes_file, BadLine), u, coordinates[u])
    BY <1>1, <1>2, NamedAppend
  <2>3. QED
    BY <2>1, <2>2
<1>5. CASE UNCHANGED <<nodes_file, coordinates>>
  BY <1>2, <1>5
<1>6. QED
  BY <1>3, <1>4, <1>5, StepsOfStartup DEF ReadWay, RefuseWay, graphVars

(***************************************************************************)
(* After every line the graph is what the lines so far say: each node is   *)
(* where its last line puts it, and each road is open in the directions,   *)
(* at the costs and as often as the lines declare.                         *)
(***************************************************************************)
THEOREM LoadsAsRead == Spec => []GraphAsRead
<1>1. Inv /\ RoadInv /\ CoordinatesAsRead => GraphAsRead
  BY InvLists, RoadInvIsRoadsAsRead DEF Inv, TypeOK, GraphAsRead
<1>2. Spec => [](Inv /\ RoadInv)
  BY InitInv, NextInv, RoadInit, RoadNext, PTL DEF Spec
<1>3. Spec => [](Inv /\ CoordinatesAsRead)
  BY InitInv, NextInv, CoordinatesInit, CoordinatesNext, PTL DEF Spec
<1>4. QED
  BY <1>1, <1>2, <1>3, PTL
=============================================================================
