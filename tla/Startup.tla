------------------------------- MODULE Startup -------------------------------
(***************************************************************************)
(* main.cpp as a whole: load the graph, label its connected components,    *)
(* and serve.  FindConnectedComponents is the state machine of module      *)
(* ConnectedComponents, run on the adjacency lists that were loaded.       *)
(***************************************************************************)
EXTENDS GraphLoad

VARIABLES
    components_pc,
    i,
    stack,
    node_to_connected_component_id,
    current_component_id

componentVars ==
    <<components_pc, i, stack, node_to_connected_component_id, current_component_id>>

vars == <<loadVars, componentVars>>

Components == INSTANCE ConnectedComponents
    WITH adjacent <- [u \in Nodes |-> Adjacent(adjacency_lists, u)],
         pc <- components_pc

-----------------------------------------------------------------------------
Init ==
    /\ LoadInit
    /\ components_pc = "scan"
    /\ i = 0
    /\ stack = {}
    /\ node_to_connected_component_id = [u \in Nodes |-> Components!Unvisited]
    /\ current_component_id = 0

Load == LoadNext /\ UNCHANGED componentVars

FindConnectedComponents ==
    /\ pc = "components"
    /\ UNCHANGED loadVars
    /\ Components!Step

(* Server(9090, G): from here on the graph is only read.                   *)
Serve ==
    /\ pc = "components"
    /\ components_pc = "done"
    /\ pc' = "serving"
    /\ UNCHANGED <<nodes_file, ways_file, graphVars, componentVars>>

(* main has returned, or server.run() goes on for ever.                    *)
Settled == pc \in {"exited", "serving"} /\ UNCHANGED vars

Next == Load \/ FindConnectedComponents \/ Serve \/ Settled

(* main runs on; the end of a file comes, and so may a line that is bad.   *)
Spec == Init /\ [][Next]_vars /\ WF_vars(Load \/ FindConnectedComponents \/ Serve)

-----------------------------------------------------------------------------
(***************************************************************************)
(* TypeOK: the lists hold elements that point to nodes, every line adds    *)
(* two directed edges at most, and no component is labelled before the     *)
(* ways are in.                                                            *)
(***************************************************************************)
TypeOK ==
    /\ pc \in {"nodes", "ways", "components", "serving", "exited"}
    /\ nodes_file \in Seq(NodeLines \cup {BadLine})
    /\ ways_file \in Seq(Ways \cup {BadLine})
    /\ coordinates \in [Nodes -> {Origin} \cup {line.at : line \in NodeLines}]
    /\ adjacency_lists \in [Nodes -> Seq(AdjListElements(Nodes, Costs))]
    /\ directed_edges_counter \in 0 .. 2 * Len(ways_file)
    /\ pc \notin {"components", "serving"} => Components!Init
    /\ pc = "serving" => components_pc = "done"
    /\ Components!TypeOK

(***************************************************************************)
(* NeverServesABadFile: a server that runs has read both files to their    *)
(* ends; no line of them was bad.  A graph that was loaded in part is      *)
(* never served.                                                           *)
(***************************************************************************)
NeverServesABadFile ==
    pc \in {"components", "serving"} =>
        /\ \A k \in DOMAIN nodes_file : nodes_file[k] # BadLine
        /\ \A k \in DOMAIN ways_file : ways_file[k] # BadLine

(* v can be driven to from u.                                              *)
Reaches(u, v) ==
    \A S \in SUBSET Nodes :
        u \in S /\ (\A e \in TravelGraph(adjacency_lists) : e[1] \in S => e[2] \in S) => v \in S

(***************************************************************************)
(* RefusalIsSafe: when the server says that two nodes are isolated from    *)
(* each other there is indeed no route between them, in either direction:  *)
(* "if 2 nodes belong in 2 different connected components, then the        *)
(* shortest path does not exist" (README.md).                              *)
(***************************************************************************)
RefusalIsSafe ==
    pc = "serving" =>
        \A u, v \in Nodes : Reaches(u, v) => Components!AreConnected(u, v)

(***************************************************************************)
(* LabelsAreSound: at every moment two nodes with one label are connected  *)
(* by roads that were loaded.                                              *)
(***************************************************************************)
LabelsAreSound == Components!LabelsAreSound

(***************************************************************************)
(* AreConnectedIsExact: once the labels are complete, AreConnected answers *)
(* yes exactly for the pairs of nodes a path of roads joins, whichever way *)
(* the roads may be driven.                                                *)
(***************************************************************************)
AreConnectedIsExact == Components!AreConnectedIsExact

(***************************************************************************)
(* LabelsStick: a label, once given, is never changed, and its node is not *)
(* pushed again, by any step of the program.                               *)
(***************************************************************************)
LabelsStick == Components!LabelsStick

(***************************************************************************)
(* Settles: loading and labelling come to an end: the program serves, or   *)
(* it has refused a line.                                                  *)
(***************************************************************************)
Settles == <>(pc \in {"serving", "exited"})

-----------------------------------------------------------------------------
(***************************************************************************)
(* Inv: the inductive invariant.                                           *)
(***************************************************************************)
NoBadLines ==
    pc # "exited" =>
        /\ \A k \in DOMAIN nodes_file : nodes_file[k] # BadLine
        /\ \A k \in DOMAIN ways_file : ways_file[k] # BadLine

Inv ==
    /\ TypeOK
    /\ NoBadLines
    /\ Components!Inv
=============================================================================
