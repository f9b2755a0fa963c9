---------------------- MODULE ConnectedComponentsProofs ----------------------
(***************************************************************************)
(* For every number of nodes and every graph AddEdge can build: the labels *)
(* FindConnectedComponents leaves behind are the connected components, and *)
(* no label is ever changed.                                               *)
(***************************************************************************)
EXTENDS ConnectedComponents, TLAPS

(***************************************************************************)
(* A node is connected to itself and to its neighbours, and connection     *)
(* composes.                                                               *)
(***************************************************************************)
LEMMA ConnectedToItself == \A u \in Nodes : Connected(u, u)
BY DEF Connected

LEMMA ConnectedToNeighbour ==
    ASSUME NEW u \in Nodes, NEW v \in adjacent[u]
    PROVE  Connected(u, v)
BY DEF Connected, Closed

LEMMA ConnectedComposes ==
    ASSUME NEW u \in Nodes, NEW v \in Nodes, NEW w \in Nodes,
           Connected(u, v), Connected(v, w)
    PROVE  Connected(u, w)
BY DEF Connected

(***************************************************************************)
(* Whether two nodes are connected is a matter of the graph alone, which   *)
(* no step changes.                                                        *)
(***************************************************************************)
LEMMA ConnectedStays ==
    ASSUME NEW u \in Nodes, NEW v \in Nodes, adjacent' = adjacent
    PROVE  Connected(u, v)' <=> Connected(u, v)
BY DEF Connected, Closed

LEMMA InitInv == Init => Inv
<1> SUFFICES ASSUME Init PROVE Inv
  OBVIOUS
<1>1. TypeOK
  BY NAssumption DEF Init, TypeOK, Nodes, Unvisited
<1>2. ScannedAreLabelled
  BY DEF Init, ScannedAreLabelled, Nodes, Unvisited
<1>3. ExpandedAreClosed
  BY DEF Init, ExpandedAreClosed, Unvisited
<1>4. LabelsAreSound
  BY DEF Init, LabelsAreSound, Unvisited
<1> QED
  BY <1>1, <1>2, <1>3, <1>4 DEF Inv

(***************************************************************************)
(* A step that writes no label and no stack keeps the labels sound and the *)
(* expanded nodes closed.                                                  *)
(***************************************************************************)
LEMMA LabelsUntouched ==
    ASSUME Inv, adjacent' = adjacent,
           node_to_connected_component_id' = node_to_connected_component_id
    PROVE  LabelsAreSound'
<1> SUFFICES ASSUME NEW u \in Nodes, NEW v \in Nodes,
                    node_to_connected_component_id[u] # Unvisited, AreConnected(u, v)
             PROVE  Connected(u, v)'
  BY DEF LabelsAreSound, AreConnected
<1> QED
  BY ConnectedStays DEF Inv, LabelsAreSound

LEMMA SkipNodeInv == Inv /\ SkipNode => Inv'
<1> SUFFICES ASSUME Inv, SkipNode PROVE Inv'
  OBVIOUS
<1> USE NAssumption DEF Inv, SkipNode
<1>1. TypeOK'
  BY DEF TypeOK, Symmetric
<1>2. ScannedAreLabelled'
  BY DEF ScannedAreLabelled, TypeOK, Nodes
<1>3. ExpandedAreClosed'
  BY DEF ExpandedAreClosed, TypeOK
<1>4. LabelsAreSound'
  BY LabelsUntouched
<1> QED
  BY <1>1, <1>2, <1>3, <1>4

LEMMA OpenComponentInv == Inv /\ OpenComponent => Inv'
<1> SUFFICES ASSUME Inv, OpenComponent PROVE Inv'
  OBVIOUS
<1> USE NAssumption DEF Inv, OpenComponent
<1>0. /\ i \in Nodes
      /\ node_to_connected_component_id'[i] = current_component_id
      /\ \A u \in Nodes \ {i} :
             node_to_connected_component_id'[u] = node_to_connected_component_id[u]
  BY DEF TypeOK, Nodes
<1>1. TypeOK'
  BY <1>0 DEF TypeOK, Symmetric
<1>2. ScannedAreLabelled'
  BY <1>0 DEF ScannedAreLabelled, TypeOK, Nodes, Unvisited
<1>3. ExpandedAreClosed'
  <2>1. \A u \in stack' : node_to_connected_component_id'[u] = current_component_id'
    BY <1>0
  <2> SUFFICES ASSUME NEW u \in Nodes \ stack', node_to_connected_component_id'[u] # Unvisited,
                      NEW v \in adjacent[u]
               PROVE  node_to_connected_component_id'[v] = node_to_connected_component_id'[u]
    BY <2>1 DEF ExpandedAreClosed
  <2>2. u # i /\ node_to_connected_component_id[u] # Unvisited /\ stack = {} /\ v \in Nodes
    BY <1>0 DEF TypeOK
  <2>3. node_to_connected_component_id[v] = node_to_connected_component_id[u]
    BY <2>2 DEF ExpandedAreClosed
  <2> QED
    BY <2>2, <2>3, <1>0
<1>4. LabelsAreSound'
  <2> SUFFICES ASSUME NEW u \in Nodes, NEW v \in Nodes,
                      node_to_connected_component_id'[u] # Unvisited,
                      node_to_connected_component_id'[u] = node_to_connected_component_id'[v]
               PROVE  Connected(u, v)
    BY ConnectedStays DEF LabelsAreSound, AreConnected
  <2>1. CASE u = i /\ v = i
    BY <2>1, ConnectedToItself
  <2>2. CASE u # i /\ v # i
    BY <2>2, <1>0 DEF LabelsAreSound, AreConnected
  <2>3. CASE (u = i) # (v = i)
    (* the label of the component to come is on no node yet *)
    BY <2>3, <1>0 DEF ScannedAreLabelled
  <2> QED
    BY <2>1, <2>2, <2>3
<1> QED
  BY <1>1, <1>2, <1>3, <1>4

LEMMA ExpandInv == Inv /\ Expand => Inv'
<1> SUFFICES ASSUME Inv, Expand PROVE Inv'
  OBVIOUS
<1> USE DEF Inv
<1>0. PICK u \in stack :
        /\ stack' = (stack \ {u}) \cup ToVisit(u)
        /\ node_to_connected_component_id' =
               [v \in Nodes |-> IF v \in ToMark(u) THEN current_component_id
                                ELSE node_to_connected_component_id[v]]
  BY DEF Expand
<1>1. /\ pc = "expand"
      /\ UNCHANGED <<adjacent, pc, i, current_component_id>>
  BY DEF Expand
<1>2. /\ u \in Nodes
      /\ adjacent[u] \subseteq Nodes
      /\ node_to_connected_component_id[u] = current_component_id
      /\ current_component_id # Unvisited
  BY DEF TypeOK, ExpandedAreClosed, Unvisited
<1>3. \A v \in Nodes : v \in ToVisit(u) =>
          /\ v \in adjacent[u]
          /\ node_to_connected_component_id[v] = Unvisited
          /\ node_to_connected_component_id'[v] = current_component_id
  BY <1>0 DEF ToMark, ToVisit
<1>4. \A v \in Nodes : v \notin ToVisit(u) =>
          node_to_connected_component_id'[v] = node_to_connected_component_id[v]
  BY <1>0 DEF ToMark
<1>5. \A v \in adjacent[u] :
          v \notin ToVisit(u) => node_to_connected_component_id[v] = current_component_id
  (* a visited neighbour is on the stack, or was expanded and so has u's label *)
  <2> SUFFICES ASSUME NEW v \in adjacent[u], v \notin ToVisit(u), v \notin stack
               PROVE  node_to_connected_component_id[v] = current_component_id
    BY DEF ExpandedAreClosed
  <2>1. v \in Nodes /\ u \in adjacent[v] /\ node_to_connected_component_id[v] # Unvisited
    BY <1>2 DEF TypeOK, Symmetric, ToVisit
  <2> QED
    BY <2>1, <1>2 DEF ExpandedAreClosed
<1>6. TypeOK'
  <2>1. stack' \in SUBSET Nodes
    BY <1>0, <1>2 DEF TypeOK, ToVisit
  <2>2. node_to_connected_component_id'
            \in [Nodes -> {Unvisited} \cup 0 .. current_component_id]
    BY <1>0 DEF TypeOK
  <2> QED
    BY <2>1, <2>2, <1>1 DEF TypeOK, Symmetric
<1>7. ScannedAreLabelled'
  <2>1. \A v \in Nodes : v < i => node_to_connected_component_id'[v] # Unvisited
    BY <1>2, <1>3, <1>4 DEF ScannedAreLabelled
  <2>2. i \in Nodes
    BY <1>1, NAssumption DEF TypeOK, Nodes
  <2>3. node_to_connected_component_id'[i] = current_component_id
    BY <1>1, <1>3, <1>4, <2>2 DEF ScannedAreLabelled
  <2> QED
    BY <1>1, <2>1, <2>3 DEF ScannedAreLabelled
<1>8. ExpandedAreClosed'
  <2>1. \A v \in stack' : node_to_connected_component_id'[v] = current_component_id
    <3> SUFFICES ASSUME NEW v \in stack', v \notin ToVisit(u)
                 PROVE  node_to_connected_component_id'[v] = current_component_id
      BY <1>2, <1>3 DEF ToVisit
    <3>1. v \in stack /\ v \in Nodes
      BY <1>0 DEF TypeOK
    <3> QED
      BY <3>1, <1>4 DEF ExpandedAreClosed
  <2>2. ASSUME NEW x \in Nodes \ stack', node_to_connected_component_id'[x] # Unvisited,
               NEW v \in adjacent[x]
        PROVE  node_to_connected_component_id'[v] = node_to_connected_component_id'[x]
    <3>1. x \notin ToVisit(u) /\ v \in Nodes
      BY <1>0, <2>2 DEF TypeOK
    <3>2. CASE x = u
      BY <3>1, <3>2, <1>2, <1>3, <1>4, <1>5
    <3>3. CASE x # u
      <4>1. x \notin stack /\ node_to_connected_component_id[x] # Unvisited
        BY <3>1, <3>3, <1>0, <1>4, <2>2
      <4>2. node_to_connected_component_id[v] = node_to_connected_component_id[x]
        BY <4>1 DEF ExpandedAreClosed
      <4> QED
        BY <4>1, <4>2, <3>1, <1>3, <1>4
    <3> QED
      BY <3>2, <3>3
  <2> QED
    BY <1>1, <2>1, <2>2 DEF ExpandedAreClosed
<1>9. LabelsAreSound'
  <2> SUFFICES ASSUME NEW x \in Nodes, NEW y \in Nodes,
                      node_to_connected_component_id'[x] # Unvisited,
                      node_to_connected_component_id'[x] = node_to_connected_component_id'[y]
               PROVE  Connected(x, y)
    BY <1>1, ConnectedStays DEF LabelsAreSound, AreConnected
  <2>1. CASE x \notin ToVisit(u) /\ y \notin ToVisit(u)
    BY <2>1, <1>4 DEF LabelsAreSound, AreConnected
  <2>2. CASE x \in ToVisit(u) \/ y \in ToVisit(u)
    (* the way from x to y leads over u *)
    <3>1. ASSUME NEW z \in Nodes, node_to_connected_component_id'[z] = current_component_id
          PROVE  Connected(u, z) /\ Connected(z, u)
      <4>1. CASE z \in ToVisit(u)
        BY <4>1, <1>2, <1>3, ConnectedToNeighbour DEF TypeOK, Symmetric
      <4>2. CASE z \notin ToVisit(u)
        BY <4>2, <3>1, <1>2, <1>4 DEF LabelsAreSound, AreConnected
      <4> QED
        BY <4>1, <4>2
    <3>2. /\ node_to_connected_component_id'[x] = current_component_id
          /\ node_to_connected_component_id'[y] = current_component_id
      BY <2>2, <1>3
    <3> QED
      BY <3>1, <3>2, <1>2, ConnectedComposes
  <2> QED
    BY <2>1, <2>2
<1> QED
  BY <1>6, <1>7, <1>8, <1>9

LEMMA CloseComponentInv == Inv /\ CloseComponent => Inv'
<1> SUFFICES ASSUME Inv, CloseComponent PROVE Inv'
  OBVIOUS
<1> USE NAssumption DEF Inv, CloseComponent, NextComponent
<1>1. TypeOK'
  BY DEF TypeOK, Symmetric
<1>2. ScannedAreLabelled'
  BY DEF ScannedAreLabelled, TypeOK, Nodes, Unvisited
<1>3. ExpandedAreClosed'
  BY DEF ExpandedAreClosed, TypeOK
<1>4. LabelsAreSound'
  BY LabelsUntouched
<1> QED
  BY <1>1, <1>2, <1>3, <1>4

LEMMA ReturnInv == Inv /\ Return => Inv'
<1> SUFFICES ASSUME Inv, Return PROVE Inv'
  OBVIOUS
<1> USE NAssumption DEF Inv, Return
<1>1. TypeOK'
  BY DEF TypeOK, Symmetric
<1>2. ScannedAreLabelled'
  BY DEF ScannedAreLabelled, TypeOK
<1>3. ExpandedAreClosed'
  BY DEF ExpandedAreClosed, TypeOK
<1>4. LabelsAreSound'
  BY LabelsUntouched
<1> QED
  BY <1>1, <1>2, <1>3, <1>4

LEMMA NextInv == Inv /\ [Next]_vars => Inv'
<1> SUFFICES ASSUME Inv, [Next]_vars PROVE Inv'
  OBVIOUS
<1>1. CASE SkipNode
  BY <1>1, SkipNodeInv
<1>2. CASE OpenComponent
  BY <1>2, OpenComponentInv
<1>3. CASE Expand
  BY <1>3, ExpandInv
<1>4. CASE CloseComponent
  BY <1>4, CloseComponentInv
<1>5. CASE Return
  BY <1>5, ReturnInv
<1>6. CASE UNCHANGED vars
  <2>1. TypeOK' /\ ScannedAreLabelled' /\ ExpandedAreClosed'
    BY <1>6 DEF vars, Inv, TypeOK, Symmetric, ScannedAreLabelled, ExpandedAreClosed
  <2>2. LabelsAreSound'
    BY <1>6, LabelsUntouched DEF vars
  <2> QED
    BY <2>1, <2>2 DEF Inv
<1> QED
  BY <1>1, <1>2, <1>3, <1>4, <1>5, <1>6 DEF Next, Step, Returned

(***************************************************************************)
(* The invariant, and its parts by name.                                   *)
(***************************************************************************)
THEOREM Invariant == Spec => []Inv
BY InitInv, NextInv, PTL DEF Spec

(* Labels come in order, one per node at most, and the stack stays typed.  *)
THEOREM TypeCorrect == Spec => []TypeOK
BY Invariant, PTL DEF Inv

(* Two nodes with one label are connected, at every moment of the search.  *)
THEOREM LabelsSound == Spec => []LabelsAreSound
BY Invariant, PTL DEF Inv

(***************************************************************************)
(* Once the search has returned, equal labels and being connected are the  *)
(* same thing: the nodes with u's label are closed under edges, so         *)
(* whatever is connected to u has that label.                              *)
(***************************************************************************)
LEMMA InvExact == Inv => AreConnectedIsExact
<1> SUFFICES ASSUME Inv, pc = "done", NEW u \in Nodes, NEW v \in Nodes
             PROVE  AreConnected(u, v) <=> Connected(u, v)
  BY DEF AreConnectedIsExact
<1> USE DEF Inv
<1>1. stack = {} /\ \A x \in Nodes : node_to_connected_component_id[x] # Unvisited
  BY NAssumption DEF TypeOK, ScannedAreLabelled, Nodes
<1>2. AreConnected(u, v) => Connected(u, v)
  BY <1>1 DEF LabelsAreSound
<1>3. ASSUME Connected(u, v) PROVE AreConnected(u, v)
  <2> DEFINE S == {x \in Nodes : node_to_connected_component_id[x]
                                     = node_to_connected_component_id[u]}
  <2>1. S \in SUBSET Nodes /\ u \in S
    OBVIOUS
  <2>2. Closed(S)
    BY <1>1 DEF Closed, ExpandedAreClosed, TypeOK
  <2>3. v \in S
    BY <1>3, <2>1, <2>2 DEF Connected
  <2> QED
    BY <2>3 DEF AreConnected
<1> QED
  BY <1>2, <1>3

(***************************************************************************)
(* AreConnected tells exactly the pairs of nodes that roads join, for      *)
(* every graph: what Server::OnMessage relies on before it starts a        *)
(* search.                                                                 *)
(***************************************************************************)
THEOREM AreConnectedExact == Spec => []AreConnectedIsExact
BY Invariant, InvExact, PTL

(* A step of the labelling leaves alone what is labelled.                  *)
LEMMA StepKeeps == Inv /\ Step => LabelKept
<1> SUFFICES ASSUME Inv, Step,
                    NEW u \in Nodes, node_to_connected_component_id[u] # Unvisited
             PROVE  /\ node_to_connected_component_id'[u] = node_to_connected_component_id[u]
                    /\ u \notin stack => u \notin stack'
  BY DEF LabelKept
<1>1. CASE OpenComponent
  BY <1>1 DEF OpenComponent, Inv, TypeOK
<1>2. CASE Expand
  <2>1. PICK x \in stack :
          /\ stack' = (stack \ {x}) \cup ToVisit(x)
          /\ node_to_connected_component_id' =
                 [v \in Nodes |-> IF v \in ToMark(x) THEN current_component_id
                                  ELSE node_to_connected_component_id[v]]
    BY <1>2 DEF Expand
  <2> QED
    BY <2>1 DEF ToMark, ToVisit
<1>3. CASE SkipNode \/ CloseComponent \/ Return
  BY <1>3 DEF SkipNode, CloseComponent, Return
<1> QED
  BY <1>1, <1>2, <1>3 DEF Step

(* A label, once given, is never changed, and its node is never pushed     *)
(* again.                                                                  *)
THEOREM LabelsAreKept == Spec => LabelsStick
<1>1. Inv /\ [Next]_vars => [LabelKept]_vars
  BY StepKeeps DEF Next, Returned
<1> QED
  BY <1>1, Invariant, PTL DEF Spec, LabelsStick
=============================================================================
