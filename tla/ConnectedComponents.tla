------------------------ MODULE ConnectedComponents -------------------------
(***************************************************************************)
(* GraphStorage::FindConnectedComponents and AreConnected                  *)
(* (source_files/GraphStorage.cpp): label every node with the number of    *)
(* its connected component by an iterative depth-first search that ignores *)
(* the direction of edges.                                                 *)
(*                                                                         *)
(* The explicit stack holds a node at most once, because a node is marked  *)
(* when it is pushed.  It is a set here and any of its nodes may be on     *)
(* top: the order a stack and the adjacency lists impose is left open.     *)
(***************************************************************************)
EXTENDS NodeIds, FiniteSets

Unvisited == -1

VARIABLES
    adjacent,                        \* the neighbours of every node, never written
    pc,                              \* where the function is
    i,                               \* the node the outer loop looks at
    stack,                           \* nodes marked but not expanded
    node_to_connected_component_id,  \* the labels
    current_component_id             \* the label being given out

vars == <<adjacent, pc, i, stack, node_to_connected_component_id, current_component_id>>

(* A slip: a neighbour is pushed whether or not it was visited.            *)
PushAll(u) == adjacent[u]

(* The unvisited nodes adjacent to u.                                      *)
ToVisit(u) == {v \in adjacent[u] : node_to_connected_component_id[v] = Unvisited}

(* A slip: forget to open a new component.                                 *)
SameComponent == current_component_id

NextComponent == current_component_id + 1

(* A slip: a node is marked when it is expanded, not when it is pushed.    *)
MarkNone(u) == {}

ToMark(u) == ToVisit(u)

-----------------------------------------------------------------------------
(* Adjacency that AddEdge can build: every edge is recorded at both ends.  *)
Symmetric(adj) == \A u, v \in Nodes : v \in adj[u] => u \in adj[v]

Init ==
    /\ adjacent \in [Nodes -> SUBSET Nodes]
    /\ Symmetric(adjacent)
    /\ pc = "scan"
    /\ i = 0
    /\ stack = {}
    /\ node_to_connected_component_id = [u \in Nodes |-> Unvisited]
    /\ current_component_id = 0

(* We already visited this node, so continue.                              *)
SkipNode ==
    /\ pc = "scan"
    /\ i < N
    /\ node_to_connected_component_id[i] # Unvisited
    /\ i' = i + 1
    /\ UNCHANGED <<adjacent, pc, stack, node_to_connected_component_id, current_component_id>>

(* Push node i and mark it as visited.                                     *)
OpenComponent ==
    /\ pc = "scan"
    /\ i < N
    /\ node_to_connected_component_id[i] = Unvisited
    /\ stack' = {i}
    /\ node_to_connected_component_id' =
           [node_to_connected_component_id EXCEPT ![i] = current_component_id]
    /\ pc' = "expand"
    /\ UNCHANGED <<adjacent, i, current_component_id>>

(* Pop a node, push its unvisited neighbours and mark them.                *)
Expand ==
    /\ pc = "expand"
    /\ \E u \in stack :
        /\ stack' = (stack \ {u}) \cup ToVisit(u)
        /\ node_to_connected_component_id' =
               [v \in Nodes |-> IF v \in ToMark(u) THEN current_component_id
                                ELSE node_to_connected_component_id[v]]
    /\ UNCHANGED <<adjacent, pc, i, current_component_id>>

CloseComponent ==
    /\ pc = "expand"
    /\ stack = {}
    /\ current_component_id' = NextComponent
    /\ i' = i + 1
    /\ pc' = "scan"
    /\ UNCHANGED <<adjacent, stack, node_to_connected_component_id>>

Return ==
    /\ pc = "scan"
    /\ i = N
    /\ pc' = "done"
    /\ UNCHANGED <<adjacent, i, stack, node_to_connected_component_id, current_component_id>>

Step == SkipNode \/ OpenComponent \/ Expand \/ CloseComponent \/ Return

(* The function has returned; the labels are only read from now on.        *)
Returned == pc = "done" /\ UNCHANGED vars

Next == Step \/ Returned

(* A sequential function runs until it returns.                            *)
Spec == Init /\ [][Next]_vars /\ WF_vars(Step)

AreConnected(u, v) ==
    node_to_connected_component_id[u] = node_to_connected_component_id[v]

-----------------------------------------------------------------------------
(***************************************************************************)
(* Reference: two nodes are connected when no set of nodes that edges do   *)
(* not leave separates them.  Independent of labels and of any search.     *)
(***************************************************************************)
Closed(S) == \A u \in S : adjacent[u] \subseteq S

Connected(u, v) == \A S \in SUBSET Nodes : Closed(S) /\ u \in S => v \in S

(***************************************************************************)
(* TypeOK: labels are given out in order and at most one per node; the     *)
(* stack holds nodes that carry the label being given out.                 *)
(***************************************************************************)
TypeOK ==
    /\ adjacent \in [Nodes -> SUBSET Nodes]
    /\ Symmetric(adjacent)
    /\ pc \in {"scan", "expand", "done"}
    /\ i \in 0 .. N
    /\ node_to_connected_component_id \in [Nodes -> {Unvisited} \cup 0 .. current_component_id]
    /\ current_component_id \in 0 .. i
    /\ stack \in SUBSET Nodes
    /\ pc # "expand" => stack = {}
    /\ pc = "expand" => i < N
    /\ pc = "done" => i = N

(***************************************************************************)
(* ScannedAreLabelled: the outer loop leaves no node behind unvisited, and *)
(* the label of the component to come is on no node yet.                   *)
(***************************************************************************)
ScannedAreLabelled ==
    /\ \A u \in Nodes : u < i => node_to_connected_component_id[u] # Unvisited
    /\ pc # "expand" =>
           \A u \in Nodes : node_to_connected_component_id[u] # current_component_id
    /\ pc = "expand" =>
           node_to_connected_component_id[i] = current_component_id

(***************************************************************************)
(* ExpandedAreClosed: a labelled node that is off the stack has only       *)
(* neighbours with its own label, so a component is complete when the      *)
(* stack runs empty.                                                       *)
(***************************************************************************)
ExpandedAreClosed ==
    /\ \A u \in stack : node_to_connected_component_id[u] = current_component_id
    /\ \A u \in Nodes \ stack : node_to_connected_component_id[u] # Unvisited =>
        \A v \in adjacent[u] :
            node_to_connected_component_id[v] = node_to_connected_component_id[u]

(***************************************************************************)
(* LabelsAreSound: at every moment two nodes with one label are connected. *)
(***************************************************************************)
LabelsAreSound ==
    \A u, v \in Nodes :
        node_to_connected_component_id[u] # Unvisited /\ AreConnected(u, v) => Connected(u, v)

(***************************************************************************)
(* AreConnectedIsExact: once the labels are complete, AreConnected answers *)
(* yes exactly for the pairs of nodes a path of roads joins, whichever way *)
(* the roads may be driven.                                                *)
(***************************************************************************)
AreConnectedIsExact ==
    pc = "done" => \A u, v \in Nodes : AreConnected(u, v) <=> Connected(u, v)

(***************************************************************************)
(* LabelsStick: a label, once given, is never changed, so the stack never  *)
(* needs a node again.                                                     *)
(***************************************************************************)
LabelKept ==
    \A u \in Nodes : node_to_connected_component_id[u] # Unvisited =>
        /\ node_to_connected_component_id'[u] = node_to_connected_component_id[u]
        /\ u \notin stack => u \notin stack'

LabelsStick == [][LabelKept]_vars

-----------------------------------------------------------------------------
(***************************************************************************)
(* Inv: the inductive invariant.                                           *)
(***************************************************************************)
Inv ==
    /\ TypeOK
    /\ ScannedAreLabelled
    /\ ExpandedAreClosed
    /\ LabelsAreSound
=============================================================================
