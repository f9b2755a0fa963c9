-------------------------------- MODULE Server -------------------------------
(***************************************************************************)
(* Server::OnMessage (source_files/Server.cpp): what happens between a     *)
(* query that arrives and the one message that answers it.  The handler    *)
(* runs to completion on the only thread of the server, so messages are    *)
(* handled one after the other.                                            *)
(*                                                                         *)
(* GetNearestEdge and the shortest path search are taken at their word:    *)
(* the first by the constant Nearest, the second by what module            *)
(* ShortestPathQuery promises.  The labels are those that module           *)
(* ConnectedComponents computes.                                           *)
(***************************************************************************)
EXTENDS QueryGraph, SequencesExt, Util

CONSTANTS
    adjacency_lists,  \* the road graph, never written while the server runs
    Messages,         \* the queries that may arrive: sequences of symbols
    Blank,            \* the symbol between tokens
    Words,            \* the symbols that begin no number
    MaxLat, MaxLng,   \* 90 and 180: the ends of the world, in the model's units
    Nearest(_, _),    \* what GetNearestEdge(place, radius number k) returns
    Tries,            \* 100: how many radii are tried
    NoReply

ASSUME ServerAssumption ==
    /\ N \in Nat
    /\ Tries \in Nat \ {0}
    /\ MaxLat \in Nat /\ MaxLng \in Nat
    /\ Blank \notin Int \cup Words
    /\ Messages \subseteq Seq(Int \cup Words \cup {Blank})

(* What AddEdge built: every edge is recorded at both of its nodes.        *)
ASSUME RoadsAssumption ==
    /\ adjacency_lists \in [Nodes -> Seq(AdjListElements(Nodes, Nat))]
    /\ \A u, v \in Nodes :
        v \in Adjacent(adjacency_lists, u) => u \in Adjacent(adjacency_lists, v)

(* The coordinates that are on the map: LatLng::Validate lets them pass.   *)
Area == (1 - MaxLat .. MaxLat - 1) \X (1 - MaxLng .. MaxLng - 1)

(* GetNearestEdge finds an edge of the road graph, or none.                *)
ASSUME NearestAssumption ==
    \A place \in Area, j \in 0 .. Tries - 1 :
        LET found == Nearest(place, j)
        IN  /\ found.edge_found \in BOOLEAN
            /\ found.edge_found => /\ found.edge \in Reported(adjacency_lists)
                                  /\ found.clamped_ratio \in 0 .. RatioSteps

VARIABLES
    pc,                  \* where the handler is
    message,             \* the tokens of the query
    coordinates,         \* its coordinates, parsed and validated so far
    k,                   \* the number of the radius that is being tried
    nearest_edges_info,  \* what the coordinates were snapped to so far
    legs,                \* how many shortest paths have been computed
    path_coordinates,    \* the route so far
    reply                \* what was sent to the client

work == <<coordinates, k, nearest_edges_info, legs, path_coordinates>>
vars == <<pc, message, work, reply>>

-----------------------------------------------------------------------------
(***************************************************************************)
(* What the handler relies on.                                             *)
(***************************************************************************)
Closed(S) == \A u \in S : Adjacent(adjacency_lists, u) \subseteq S

(* GraphStorage::AreConnected, by AreConnectedExact of module              *)
(* ConnectedComponentsProofs.                                              *)
AreConnected(u, v) == \A S \in SUBSET Nodes : Closed(S) /\ u \in S => v \in S

Leg(info1, info2) == QueryEdges(adjacency_lists, info1, info2)

(* The routes ShortestPath may return for one leg.                         *)
LeastRoutes(info1, info2) ==
    LET edges == Leg(info1, info2)
        cost  == ShortestCost(Vertices, edges, from, to)
    IN  {p \in SimpleWalks(Vertices, edges, from, to) : WalkCost(edges, p) = cost}

(* QueryGraph::GetCoordinate: a node of the road graph is its own place.   *)
GetCoordinate(node, info1, info2) ==
    CASE node = from -> info1.projected_point
      [] node = to   -> info2.projected_point
      [] OTHER       -> [node |-> node]

(* LatLng::Validate.                                                       *)
Validate(lat, lng) == -MaxLat < lat /\ lat < MaxLat /\ -MaxLng < lng /\ lng < MaxLng

(* A slip: one coordinate more than is needed.                             *)
MoreThanFour(tokens) == Len(tokens) > 4 /\ Len(tokens) % 2 = 0

WellFormed(tokens) == Len(tokens) >= 4 /\ Len(tokens) % 2 = 0

-----------------------------------------------------------------------------
Init ==
    /\ pc = "idle"
    /\ message = <<>>
    /\ coordinates = <<>>
    /\ k = 0
    /\ nearest_edges_info = <<>>
    /\ legs = 0
    /\ path_coordinates = <<>>
    /\ reply = NoReply

(* A message arrives; the handler's variables are fresh.                   *)
Receive ==
    /\ pc = "idle"
    /\ \E msg \in Messages : message' = Tokenize(msg, Blank)
    /\ pc' = "parse"
    /\ reply' = NoReply
    /\ coordinates' = <<>>
    /\ k' = 0
    /\ nearest_edges_info' = <<>>
    /\ legs' = 0
    /\ path_coordinates' = <<>>

(* A slip: no return after an error was sent.                              *)
GoOn == pc

Return == "idle"

(* Server::Error, with a word for its text, and the return that follows    *)
(* every call of it.                                                       *)
Error(text) ==
    /\ reply' = [error |-> text]
    /\ pc' = Return
    /\ UNCHANGED <<message, work>>

RejectFormat ==
    /\ pc = "parse"
    /\ ~WellFormed(message)
    /\ Error("format")

(* The coordinate that is parsed next.                                     *)
Lat == stod(message[2 * Len(coordinates) + 1])
Lng == stod(message[2 * Len(coordinates) + 2])

Convertible == Lat \notin Words /\ Lng \notin Words

RejectWord ==
    /\ pc = "parse"
    /\ WellFormed(message)
    /\ ~Convertible
    /\ Error("number")

RejectPlace ==
    /\ pc = "parse"
    /\ WellFormed(message)
    /\ Convertible
    /\ ~Validate(Lat, Lng)
    /\ Error("invalid")

ParsePlace ==
    /\ pc = "parse"
    /\ WellFormed(message)
    /\ Convertible
    /\ Validate(Lat, Lng)
    /\ coordinates' = Append(coordinates, <<Lat, Lng>>)
    /\ pc' = IF 2 * Len(coordinates') = Len(message) THEN "snap" ELSE "parse"
    /\ UNCHANGED <<message, k, nearest_edges_info, legs, path_coordinates, reply>>

-----------------------------------------------------------------------------
Here == coordinates[Len(nearest_edges_info) + 1]

e == Nearest(Here, k)

(* A slip: the radius stays what it was.                                   *)
SameRadius == k

NextRadius == k + 1

(* No road within this radius: try a wider one.                            *)
Widen ==
    /\ pc = "snap"
    /\ ~e.edge_found
    /\ k + 1 < Tries
    /\ k' = NextRadius
    /\ UNCHANGED <<pc, message, coordinates, nearest_edges_info, legs, path_coordinates, reply>>

Snapped == pc = "snap" /\ e.edge_found

GivenUp == pc = "snap" /\ ~e.edge_found /\ k + 1 >= Tries

Joined ==
    nearest_edges_info # <<>> => AreConnected(Last(nearest_edges_info).edge.u, e.edge.u)

RejectIsolated ==
    /\ Snapped
    /\ ~Joined
    /\ Error("isolated")

Snap ==
    /\ Snapped
    /\ Joined
    /\ nearest_edges_info' = Append(nearest_edges_info, e)
    /\ k' = 0
    /\ pc' = IF Len(nearest_edges_info') = Len(coordinates) THEN "route" ELSE "snap"
    /\ UNCHANGED <<message, coordinates, legs, path_coordinates, reply>>

(* AreConnected is asked before edge_found is: for every coordinate but    *)
(* the first it reads the label of a node number that was never set.       *)
RejectFarOff ==
    /\ GivenUp
    /\ Error("farOff")

ReadUnsetNode ==
    /\ GivenUp
    /\ nearest_edges_info # <<>>
    /\ \/ Error("isolated")
       \/ pc' = "crashed" /\ UNCHANGED <<message, work, reply>>

-----------------------------------------------------------------------------
Info1 == nearest_edges_info[legs + 1]
Info2 == nearest_edges_info[legs + 2]

RejectNoPath ==
    /\ pc = "route"
    /\ LeastRoutes(Info1, Info2) = {}
    /\ Error("noPath")

(* A slip: the point where two legs meet stays in the route twice.         *)
KeepJoint(path) == path

(* The first point of a leg is the last of the leg before.                 *)
DropJoint(path) == IF legs > 0 THEN Front(path) ELSE path

TravelLeg ==
    /\ pc = "route"
    /\ \E sp \in LeastRoutes(Info1, Info2) :
        LET places == [j \in DOMAIN sp |-> GetCoordinate(sp[j], Info1, Info2)]
        IN  path_coordinates' = DropJoint(path_coordinates) \o places
    /\ legs' = legs + 1
    /\ pc' = IF legs' = Len(nearest_edges_info) - 1 THEN "send" ELSE "route"
    /\ UNCHANGED <<message, coordinates, k, nearest_edges_info, reply>>

Send ==
    /\ pc = "send"
    /\ reply' = [route |-> path_coordinates]
    /\ pc' = "idle"
    /\ UNCHANGED <<message, work>>

Handle ==
    \/ RejectFormat \/ RejectWord \/ RejectPlace \/ ParsePlace
    \/ Widen \/ RejectIsolated \/ Snap \/ RejectFarOff \/ ReadUnsetNode
    \/ RejectNoPath \/ TravelLeg \/ Send

Next == Receive \/ Handle

(* A handler that has begun runs on.                                       *)
Spec == Init /\ [][Next]_vars /\ WF_vars(Handle)

-----------------------------------------------------------------------------
(* What a query asks for, from its tokens alone: a token is worth what it  *)
(* begins with.                                                            *)
Answered == pc = "idle" /\ reply # NoReply

Places(tokens) == [j \in 1 .. Len(tokens) \div 2 |-> <<tokens[2 * j - 1][1], tokens[2 * j][1]>>]

TwoCoordinates(tokens) == \E n \in 2 .. Len(tokens) : Len(tokens) = 2 * n

Proper(tokens) ==
    /\ TwoCoordinates(tokens)
    /\ \A j \in DOMAIN tokens : tokens[j][1] \notin Words
    /\ \A j \in DOMAIN Places(tokens) : Places(tokens)[j] \in Area

Radii(place) == {j \in 0 .. Tries - 1 : Nearest(place, j).edge_found}

(* The point of a road that a place belongs to.                            *)
InfoAt(place) == Nearest(place, Least(Radii(place)))

Infos == [j \in DOMAIN Places(message) |-> InfoAt(Places(message)[j])]

Reachable == \A j \in DOMAIN Places(message) : Radii(Places(message)[j]) # {}

HasLeg(j) ==
    ShortestCost(Vertices, Leg(Infos[j], Infos[j + 1]), from, to) # Infinity

(* A stretch of a route that drives leg j, from snapped point to snapped   *)
(* point, at the least cost there is.                                      *)
DrivesLeg(stretch, j) ==
    \E p \in LeastRoutes(Infos[j], Infos[j + 1]) :
        stretch = [n \in DOMAIN p |-> GetCoordinate(p[n], Infos[j], Infos[j + 1])]

(***************************************************************************)
(* TypeOK: a message has at most one answer, and what the handler has      *)
(* parsed, snapped and routed never gets ahead of the stage before.        *)
(***************************************************************************)
TypeOK ==
    /\ pc \in {"idle", "parse", "snap", "route", "send", "crashed"}
    /\ \A j \in DOMAIN message : message[j] # <<>> /\ Blank \notin Range(message[j])
    /\ 2 * Len(coordinates) <= Len(message)
    /\ k \in 0 .. Tries - 1
    /\ Len(nearest_edges_info) <= Len(coordinates)
    /\ \A j \in DOMAIN nearest_edges_info : nearest_edges_info[j] = InfoAt(coordinates[j])
    /\ legs = 0 \/ legs < Len(nearest_edges_info)
    /\ pc \in {"parse", "snap", "route", "send"} => reply = NoReply

(***************************************************************************)
(* RouteServesTheQuery: a route that is sent is made of one stretch for    *)
(* every leg of the query, in order, each a least-cost drive between the   *)
(* points its coordinates were snapped to; neighbouring stretches share    *)
(* the point in between, which is in the route once.                       *)
(***************************************************************************)
RouteServesTheQuery ==
    Answered /\ DOMAIN reply = {"route"} =>
        /\ Proper(message)
        /\ LET n == Len(Places(message))
               route == reply.route
           IN  \E cut \in [1 .. n -> 1 .. Len(route)] :
                   /\ cut[1] = 1
                   /\ cut[n] = Len(route)
                   /\ \A j \in 1 .. n - 1 :
                       cut[j] < cut[j + 1] /\ DrivesLeg(SubSeq(route, cut[j], cut[j + 1]), j)

(***************************************************************************)
(* RefusedForAReason: a query whose coordinates are all near roads, and    *)
(* whose legs all have a route, is answered with a route; and an error     *)
(* names a fault the query has.  A coordinate that is near no road may be  *)
(* called isolated instead (Server.cpp:84).                                *)
(***************************************************************************)
RefusedForAReason ==
    Answered /\ DOMAIN reply = {"error"} =>
        LET n == Len(Places(message))
        IN  CASE reply.error = "format" -> ~TwoCoordinates(message)
              [] reply.error \in {"number", "invalid"} -> ~Proper(message)
              [] reply.error = "farOff" -> ~Reachable
              [] reply.error = "isolated" ->
                     Reachable => \E j \in 1 .. n - 1 : ~HasLeg(j)
              [] reply.error = "noPath" ->
                     Reachable /\ \E j \in 1 .. n - 1 : ~HasLeg(j)

(***************************************************************************)
(* EveryMessageIsAnswered: the handler comes to an end, however far the    *)
(* coordinates are from a road: with a reply, or by the read of the unset  *)
(* node; and there is no second reply before the next message.             *)
(***************************************************************************)
EveryMessageIsAnswered ==
    /\ pc = "parse" ~> Answered \/ pc = "crashed"
    /\ [][reply # NoReply => reply' = NoReply /\ pc = "idle"]_reply

(***************************************************************************)
(* FarOffIsSaid: "One or more of your given coordinates were not near      *)
(* roads" (Server.cpp:92) is the answer to a query with a coordinate for   *)
(* which no road was found; the handler does not stop at it, and does not  *)
(* call it isolated.                                                       *)
(***************************************************************************)
FarOffIsSaid ==
    /\ pc # "crashed"
    /\ Answered /\ reply = [error |-> "isolated"] => Reachable
=============================================================================
