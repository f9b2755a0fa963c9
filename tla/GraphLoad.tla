------------------------------ MODULE GraphLoad ------------------------------
(***************************************************************************)
(* main.cpp up to FindConnectedComponents: the nodes file and then the     *)
(* ways file are read line by line into the GraphStorage.  Every way       *)
(* becomes zero, one or two calls of AddEdge.  A line that does not parse  *)
(* ends the program before anything is served.                             *)
(*                                                                         *)
(* A file is the sequence of the lines read from it so far: the next line, *)
(* or the end of the file, is up to the environment.  A file that cannot   *)
(* be opened reads as an empty one.  MaxNodeLines and MaxWays bound the    *)
(* files.                                                                  *)
(***************************************************************************)
EXTENDS AdjacencyLists, NodeIds

LOCAL INSTANCE Functions

CONSTANTS
    NodeLines,     \* the lines a nodes file may hold: [node_id, at]
    Ways,          \* the lines a ways file may hold
    BadLine,       \* a line of either file that holds a token that is no number
    Origin,        \* the coordinate LatLng() of a node no line has set
    MaxNodeLines,
    MaxWays

ASSUME GraphLoadAssumption ==
    /\ \A line \in NodeLines : line.node_id \in Nodes
    /\ \A way \in Ways : {way.a, way.b} \subseteq Nodes /\ way.is_startpoint \in BOOLEAN
    /\ BadLine \notin NodeLines \cup Ways

VARIABLES
    pc,                      \* where main is
    nodes_file,              \* the lines of the nodes file read so far
    ways_file,               \* the lines of the ways file read so far
    coordinates,
    adjacency_lists,
    directed_edges_counter

loadVars ==
    <<pc, nodes_file, ways_file, coordinates, adjacency_lists, directed_edges_counter>>

graphVars == <<coordinates, adjacency_lists, directed_edges_counter>>

Costs == UNION {{way.duration, way.forward_duration, way.backward_duration} : way \in Ways}

-----------------------------------------------------------------------------
INACCESSIBLE == "INACCESSIBLE"

(* The duration of a way that is no ferry: the token "None".               *)
NoDuration == 0

Ferry(way) == way.duration # NoDuration

(* A slip: the two durations of an ordinary road are not compared.         *)
OpenBothWays(way) ==
    /\ way.forward_mode # INACCESSIBLE
    /\ way.backward_mode # INACCESSIBLE

DoubleWay(way) ==
    /\ way.forward_mode # INACCESSIBLE
    /\ way.backward_mode # INACCESSIBLE
    /\ way.duration > 0 \/ way.forward_duration = way.backward_duration

Call(u, v, w, double_way, way) ==
    [u |-> u, v |-> v, w |-> w, double_way |-> double_way,
     is_startpoint |-> way.is_startpoint]

(* The AddEdge calls of the else branch.  The second test of the ferry     *)
(* branch is on forward_mode, as in the code (main.cpp:74).                *)
OneWayCalls(way) ==
    LET there(w) == Call(way.a, way.b, w, FALSE, way)
        back(w)  == Call(way.b, way.a, w, FALSE, way)
        When(open, call) == IF open THEN <<call>> ELSE <<>>
        forward  == way.forward_mode # INACCESSIBLE
        backward == way.backward_mode # INACCESSIBLE
    IN  IF Ferry(way)
        THEN When(forward, there(way.duration)) \o When(forward, back(way.duration))
        ELSE When(forward, there(way.forward_duration)) \o When(backward, back(way.backward_duration))

(* All the AddEdge calls one line leads to.                                *)
Calls(way) ==
    IF DoubleWay(way)
    THEN <<Call(way.a, way.b, IF Ferry(way) THEN way.duration ELSE way.forward_duration,
                TRUE, way)>>
    ELSE OneWayCalls(way)

AddCall(lists, c) == AddEdge(lists, c.u, c.v, c.w, c.double_way, c.is_startpoint)

(* The lists after the (at most two) calls of one line.                    *)
AddCalls(lists, calls) ==
    CASE Len(calls) = 0 -> lists
      [] Len(calls) = 1 -> AddCall(lists, calls[1])
      [] Len(calls) = 2 -> AddCall(AddCall(lists, calls[1]), calls[2])

CountCalls(calls) ==
    CASE Len(calls) = 0 -> 0
      [] Len(calls) = 1 -> DirectedEdges(calls[1].double_way)
      [] Len(calls) = 2 -> DirectedEdges(calls[1].double_way) + DirectedEdges(calls[2].double_way)

-----------------------------------------------------------------------------
LoadInit ==
    /\ pc = "nodes"
    /\ nodes_file = <<>>
    /\ ways_file = <<>>
    /\ coordinates = [u \in Nodes |-> Origin]
    /\ adjacency_lists = EmptyLists(Nodes)
    /\ directed_edges_counter = 0

SetCoordinate(node_id, at) == [coordinates EXCEPT ![node_id] = at]

(* One line of the nodes file.                                             *)
ReadNode ==
    /\ pc = "nodes"
    /\ Len(nodes_file) < MaxNodeLines
    /\ \E line \in NodeLines :
        /\ nodes_file' = Append(nodes_file, line)
        /\ coordinates' = SetCoordinate(line.node_id, line.at)
    /\ UNCHANGED <<pc, ways_file, adjacency_lists, directed_edges_counter>>

(* The end of the nodes file: the KD tree is built from the coordinates.   *)
CloseNodes ==
    /\ pc = "nodes"
    /\ pc' = "ways"
    /\ UNCHANGED <<nodes_file, ways_file, graphVars>>

(* Parse one line of the ways file and add its edges.                      *)
ReadWay ==
    /\ pc = "ways"
    /\ Len(ways_file) < MaxWays
    /\ \E way \in Ways :
        /\ ways_file' = Append(ways_file, way)
        /\ adjacency_lists' = AddCalls(adjacency_lists, Calls(way))
        /\ directed_edges_counter' = directed_edges_counter + CountCalls(Calls(way))
    /\ UNCHANGED <<pc, nodes_file, coordinates>>

CloseWays ==
    /\ pc = "ways"
    /\ pc' = "components"
    /\ UNCHANGED <<nodes_file, ways_file, graphVars>>

(* A slip: a line that does not parse ends its loop, not the program.      *)
LeaveLoop == IF pc = "nodes" THEN "ways" ELSE "components"

LeaveMain == "exited"

(* A token that is no number: the line is printed and main returns.        *)
RefuseNode ==
    /\ pc = "nodes"
    /\ Len(nodes_file) < MaxNodeLines
    /\ nodes_file' = Append(nodes_file, BadLine)
    /\ pc' = LeaveMain
    /\ UNCHANGED <<ways_file, graphVars>>

RefuseWay ==
    /\ pc = "ways"
    /\ Len(ways_file) < MaxWays
    /\ ways_file' = Append(ways_file, BadLine)
    /\ pc' = LeaveMain
    /\ UNCHANGED <<nodes_file, graphVars>>

LoadNext == ReadNode \/ RefuseNode \/ CloseNodes \/ ReadWay \/ RefuseWay \/ CloseWays

-----------------------------------------------------------------------------
Declared == {k \in DOMAIN ways_file : ways_file[k] # BadLine}

(* The one-way ferries, which OneWayCalls does not treat as it treats other*)
(* ways.                                                                   *)
OneWayFerry(way) == Ferry(way) /\ ~DoubleWay(way)

(* What the line itself says: the cost of driving it from a to b, if it is *)
(* open that way, and from b to a.                                         *)
Thereon(way, u, v, w) ==
    /\ way.a = u /\ way.b = v
    /\ way.forward_mode # INACCESSIBLE
    /\ w = IF Ferry(way) THEN way.duration ELSE way.forward_duration

Backwards(way, u, v, w) ==
    /\ way.b = u /\ way.a = v
    /\ way.backward_mode # INACCESSIBLE
    /\ w = IF Ferry(way) THEN way.duration ELSE way.backward_duration

(***************************************************************************)
(* A node is where the last line that names it puts it, and a node that no *)
(* line names stays at the coordinate of LatLng().                         *)
(***************************************************************************)
CoordinatesAsRead ==
    \A u \in Nodes :
        LET named == {k \in DOMAIN nodes_file :
                         nodes_file[k] # BadLine /\ nodes_file[k].node_id = u}
        IN  IF named = {} THEN coordinates[u] = Origin
            ELSE \E k \in named : /\ \A j \in named : j <= k
                                  /\ coordinates[u] = nodes_file[k].at

(***************************************************************************)
(* The directed edges of the graph are the directions the lines read so    *)
(* far declare open, each at its cost and as often as it was declared; one *)
(* double-way element stands for both directions.  Edges that a one-way    *)
(* ferry may have touched are left out (main.cpp:74).                      *)
(***************************************************************************)
RoadsAsRead ==
    \A u, v \in Nodes : \A w \in Costs :
        (\A k \in Declared : OneWayFerry(ways_file[k]) => {ways_file[k].a, ways_file[k].b} # {u, v}) =>
            Copies(GetForwardEdges(adjacency_lists, u), v, w) =
                Cardinality({k \in Declared : Thereon(ways_file[k], u, v, w)})
              + Cardinality({k \in Declared : Backwards(ways_file[k], u, v, w)})

(***************************************************************************)
(* GraphAsRead: at every line the graph is what the lines so far say: the  *)
(* places of its nodes, and its edges, though which of one or two calls a  *)
(* line makes depends on five of its fields.                               *)
(***************************************************************************)
GraphAsRead == CoordinatesAsRead /\ RoadsAsRead

(***************************************************************************)
(* Mirrored: the two ends of every edge agree, so the backward search      *)
(* walks over exactly the edges the forward search walks over.             *)
(***************************************************************************)
Mirrored ==
    \A u, v \in Nodes : \A w \in Costs :
        Copies(GetForwardEdges(adjacency_lists, u), v, w) =
            Copies(GetBackwardEdges(adjacency_lists, v), u, w)

(***************************************************************************)
(* LinesBecomeEdges: "Add edges to the graph ... each line contains the    *)
(* (u, v, w) values" (main.cpp:42-44): a line that is open in some         *)
(* direction adds an edge between its nodes.  A ferry that is open only    *)
(* backwards does not.                                                     *)
(***************************************************************************)
LinesBecomeEdges ==
    \A k \in Declared :
        LET way == ways_file[k]
        IN  (way.forward_mode # INACCESSIBLE \/ way.backward_mode # INACCESSIBLE) =>
                way.b \in Adjacent(adjacency_lists, way.a)
=============================================================================
