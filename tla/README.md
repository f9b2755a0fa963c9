# Verification of route-planner-backend

TLA+ models of the route planner, from the bytes a client sends to the route it
is answered with; the TLC configurations that check them on small instances; and
TLAPS proofs of properties that hold for every graph, every pair of input files,
every query and every client. Paths are relative to `src/`; `websocketpp/` stands for
`header_files/websocketpp/`.

## The system

The program loads a road network from two text files, labels its connected
components, and then answers queries over a WebSocket: a query is a sequence of
coordinates, the answer the coordinates of a shortest route that visits them in
order, or an error text. The WebSocket library, websocketpp, is part of the
repository as source, makes up nine tenths of it, and is compiled into the
program; the network library below it (asio) is not part of it.

| Component | State it keeps | Operations |
|---|---|---|
| `main.cpp` (loader) | two open files, the graph under construction | read nodes, build the KD tree, read ways, label components, serve |
| `GraphStorage` | coordinates, adjacency lists, component labels | `SetCoordinate`, `AddEdge`, `CreateKDTree`, `FindConnectedComponents`; then read-only: `GetForwardEdges`, `GetBackwardEdges`, `FindForwardEdge`, `GetNearestEdge`, `AreConnected` |
| `KDTree` | node ids, as a binary tree in an array | `Create`, `RadiusSearch`, `NNSearch` |
| `QueryGraph` | at most six virtual edges on top of the graph | the constructor; `GetForwardEdges`, `GetBackwardEdges`, `GetCoordinate` |
| `ShortestPath` | the maps and queues of one search | `SimpleDijkstra`, `BidirectionalDijkstra` |
| `Server` | the graph, by reference; the locals of one message | `OnMessage`, `Error`, `OnOpen`, the constructor |
| `LatLng`, `Util` | two integers; none | projection, distance, `Validate`; `Tokenize` |
| websocketpp endpoint | handlers, timeouts and limits; the acceptor | `set_*`, `init_asio`, `listen`, `start_accept`, `handle_accept`, `create_connection`, `run` |
| websocketpp connection | its state, timers, queues, buffers, reads and writes in flight | the handshake, `handle_read_frame`, `send`, `write_frame`, `close`, `terminate`, and the handlers of every completion and timeout |
| http request | the lines read so far, the headers | `consume`, header lists, the uri, the response |
| frame processors | the header, key, message and code point being read | `consume`, `prepare_*`, validation |
| digests | - | SHA-1, base64, MD5 |

**Interaction.** `main` writes the graph and hands it to `Server` by constant
reference; from then on nothing writes it. `Server` registers two handlers and
calls `run()`, which is the one thread of the program: it runs the completion
handlers of reads, writes, timers and posted calls one after another. A handler
runs to its end before the next one begins, so two of them never touch a
variable at once; but *which* one comes next is up to the clients and the clock.
Between the call that starts a read, a write or a timer and its handler,
anything may happen, and the handler must find out what did.
`handle_read_frame` calls `OnMessage` for each message in its buffer, and
`OnMessage` calls `send` once, which queues the reply and posts a write.

What is hard here, listed at its line under `hazards` in `PROJECT.json`:

- *interleavings* of handlers: several posted writes, a message queued while a
  write is in flight, a close frame with messages behind it;
- *timeouts* that race the event they were set for: `cancel()` cannot recall a
  timer whose callback is already queued;
- *arrival*: bytes are cut into reads anywhere, in a delimiter, a header, a
  masking key, a code point, or behind the request;
- *orders* inside the searches (which entry is on top of a heap, which search
  meets which first) that a test fixes without knowing;
- *stale data* kept on purpose: lazy deletion in the queues of the searches, a
  meeting point chosen before the searches end, arrays that a recursion swaps;
- *partial failure*: a bad line in a file, the second of three legs without a
  route, a coordinate near no road, an accept that fails;
- *case analysis* that turns roads into directed edges and points on roads into
  virtual edges;
- *termination* and *liveness*: loops whose bound is not in their text, clients
  that stay silent.

## Modules

How they build on each other (`A <- B`: B extends or instantiates A):

    WeightedGraphs <- ShortestPathQuery <- BidirectionalDijkstra, SimpleDijkstra
    WeightedGraphs <- WeightedGraphsProofs <- the proofs about the searches and Server
    NodeIds <- ConnectedComponents; AdjacencyLists, NodeIds <- GraphLoad
    GraphLoad, ConnectedComponents <- Startup
    AdjacencyLists, WeightedGraphs <- QueryGraph <- QueryLeg
    QueryLeg, WeightedGraphsProofs <- QueryLegProofs
    QueryGraph, Util <- Server
    KDTree, AdjacencyLists <- NearestEdge
    Settings <- Connection <- Endpoint
    HttpHeaders <- Uri; Words, HttpHeaders <- Digests
    Uri, Digests <- HttpRequest <- ClientHandshake <- ClientRequests
    FrameHeaders, Utf8 <- FrameReader <- Hybi00
    ClientRequests, Hybi00 <- ReadPath

| Module | Models | Correspondence |
|---|---|---|
| `WeightedGraphs` | the adjacency that searches see | `ForwardEdges`, `BackwardEdges` on a set of edges; walks and least costs by enumeration are the reference |
| `ShortestPathQuery` | abstract: what a search promises its caller | one action, `Answer`; that it comes at all is promised apart, as `Answers` |
| `BidirectionalDijkstra` | `ShortestPath::BidirectionalDijkstra` | an action per step of the loops, for either side |
| `SimpleDijkstra` | `ShortestPath::SimpleDijkstra` | likewise, one side |
| `NodeIds` | the indices of `GraphStorage`'s vectors | `N` is the size they are created with |
| `AdjacencyLists` | `AddEdge` and the lists it makes | functions from nodes to sequences |
| `ConnectedComponents` | `FindConnectedComponents`, `AreConnected` | an action per branch of the two loops |
| `GraphLoad`, `Startup` | `main`, line by line; and as a whole | an action per kind of line and end of file; `Startup` composes it with the labelling of the lists that were loaded, and ends in serving |
| `QueryGraph`, `QueryLeg` | the constructor of `QueryGraph`; the graphs it can be given | roads are chosen for one pair of nodes after the other and handed to `AddEdge` call by call; then from two snapped points to virtual edges |
| `KDTree`, `NearestEdge` | the tree and its searches; `GetNearestEdge` on top of them | an action per call; recursions are recursive operators that pass on the arrays they share; the set of edges is a search tree in the order of the comparator as it is written |
| `Server`, `Util` | `OnMessage`, `Error`; `Tokenize` | an action per return statement and loop body |
| `Settings` | handlers, timeouts and limits, and how a connection gets them | `create_connection` and what it calls |
| `Connection` | `connection<config::asio>` with its transport | an action per completion handler, except `handle_read_frame`, which takes one per frame while it holds the thread |
| `Endpoint` | the constructor of `Server`, the asio endpoint, the loop of accepts | composes with `Connection`: one connection in detail, the others as accepts that come |
| `HttpHeaders`, `Uri`, `HttpRequest` | `http::parser`, `uri`, `processor`, the server's half of the handshake | a turn of `request::consume` is an action; lexical elements are functions from a position to the one behind it |
| `Words`, `Digests` | 32-bit words, SHA-1, base64, MD5 | functions on bytes, checked against the code's algorithm by the answers that clients accept |
| `FrameHeaders`, `Utf8`, `FrameReader` | `frame.hpp`, `utf8_validator.hpp`, the hybi13 processor | a turn of `consume`'s loop is an action |
| `Hybi00` | the processor of version 0 | likewise |
| `ClientHandshake` | the request that the library sends as a client and what it checks in the response | used as a client of the server |
| `ClientRequests` | requests of every kind, and the answer each deserves | the reference for the handshake |
| `ReadPath` | all of what is read, from the first byte to the last frame | composes `HttpRequest` with `FrameReader` and `Hybi00` |
| `WeightedGraphsProofs`, `BidirectionalDijkstraProofs`, `SimpleDijkstraProofs`, `ServerProofs`, `ConnectedComponentsProofs`, `StartupProofs`, `ConnectionProofs` | - | proofs |

`MC*` modules give constants their values for TLC. `map` in `PROJECT.json` names
the lines that each definition stands for. Definitions that no specification
uses are slips: plausible mistakes in place of the definition behind them.
`PROJECT.json` pairs each checked property with one under `mutants`, and with the
slip in place TLC finds the property violated.

### What is abstracted

- **Ties and orders.** Any entry of least priority may be on top of a heap, any
  node of the labelling's stack on top of it; `std::sort` leaves equal nodes in
  any order; handlers that are ready run in any order. What the code does is one
  of these.
- **Costs** are naturals and ratios multiples of `1 / RatioSteps`; in
  `NearestEdge` a ratio is a fraction. Distances are squares over small integer
  coordinates and a table of cosines. Rounding is left out.
- **Files** are sequences of lines, a line a record of the fields the branches
  look at, or `BadLine`. A file that cannot be opened reads as an empty one, as
  it does in the code.
- **A query** is a sequence of symbols: a number, a blank, or a word that `stod`
  throws on.
- `GetNearestEdge` enters `Server` as the constant operator `Nearest` and
  `QueryLeg` as the set of edges that it may report. The search enters `Server`
  as what `ShortestPathQuery` promises, which both searches are proved to keep, and
  the labels as what `AreConnectedExact` proves of them. The texts of the errors
  are words that stand for them.
- **The read of an unset node number** (`source_files/Server.cpp:84`) may find
  any label or end the process.
- **In `Connection`** a frame is what `consume` makes of it (a message, a ping, a
  close frame with a valid or an invalid code, junk); `FrameReader` is about how
  it comes to be one. A timer is armed, cancelled, run out (its callback queued)
  or handled. The two timers that are set and cancelled within one handler
  (post-init and shutdown) may run out before that handler is done: then the
  callback goes on where the handler would have.
- **In `ReadPath`** a frame is bytes. Of a request, a line is one symbol of the
  stream and each character of a delimiter another; within a line, a separator
  is a symbol and so is a run of other characters.
- **The final digest of version 0** is computed in full for the keys that the
  clients of the runs send (`FinalKeys`); SHA-1 likewise for theirs.

## Runs

All runs pass, except the four that are marked, which check one property that
the code does not have. Sizes are distinct states.

| Run | Question | Bounds, and why they are enough |
|---|---|---|
| `bidirectional` | Does the two-sided search implement `ShortestPathQuery` and come to an answer, and do the invariants its proof rests on hold, in every order of its steps? | All 4096 subsets of twelve candidate edges, three queries. The candidates hold ties, edges of cost 0, parallel edges, a loop back to the start and dead ends on both sides: stale entries, late improvements of the meeting point, an exhausted side and the early stop all occur |
| `simple_dijkstra` | Does the one-sided search keep the same promise, and the invariant its proof rests on? | Four vertices, nine candidate edges, all subsets |
| `startup` | Is what is served what the files say, and is it labelled exactly and for good? | Four nodes, up to two node lines and three ways of ten kinds, one at least for every branch of `main.cpp:57-84`; a bad line or the end of the file at every point; any node on top of the stack of the labelling. The ways make loops, cycles, stars and lines, one component or up to four; the labelling is proved for every graph. 212,099 states |
| `startup_ferries` (violation) | Does every line that is open some way add an edge? | as above |
| `query_leg` | Does a leg cost what it takes to drive, and do virtual nodes open no short cuts? | Three nodes, joined in pairs in every way on offer (two-way, one-way either way, two costs, parallel roads at different costs and at one, a road from a node to itself), points at either end and in the middle of any road, reported from either end |
| `kdtree` | Is the tree whole, do its searches miss no node, and is the place that `GetNearestEdge` reports the nearest? | Every set of up to six nodes on a grid of three by three, numbered upwards, downwards and from the middle, so both axes split and both arrays are swapped on one path; roads one-way, two-way, parallel, with equal ends and closed to departures; points on nodes, between and off the grid; radii that end on nodes and on splitting lines. The world is flat |
| `kdtree_duplicates` (violation) | And with several nodes at one place? | Three nodes on two places |
| `server` | Is every query answered once, and rightly? | A town with a one-way exit, an island, places found at the first, second and third of four radii and one found at none; queries of two and three coordinates with every fault in every position |
| `server_unset_node` (violation) | Is a place near no road always reported as such? | as above |
| `connection` | Whatever the order of reads, writes, posted calls and timers: are replies kept in order, is nothing sent behind a close frame, does a connection end once, is nobody forgotten? | Up to three frames of five kinds in reads of up to three, each timeout on or off; 105,244 states. Three frames are enough for a batch in flight, a message queued behind it and a close frame behind or before that; the safety properties are proved for any number |
| `read_path` | Are requests and frames answered and delivered as if they had arrived whole? | One good request with each line missing, doubled or replaced by each of the other values; requests of old clients and of the library's own; UTF-8 at every boundary of its table; every close code at a boundary; every fault of a frame; sizes around 125; cuts at every small size and around the end of the request; headers well below the limit, and above it; texts in several frames that end with a code point, and texts of old clients that are UTF-8; 260,999 states |
| `read_path_cut_text` (violation) | Is every text that is delivered UTF-8 to its end? | A text in two frames with a ping between them, whole or cut short inside its last code point |

Named bounds: `MaxNodeLines`, `MaxWays` (lengths of files), `Tries` (the code's
100 radii, 4 in the runs), `MaxNodes` (nodes of a tree), `RatioSteps` (2: both
ends of a road and the middle), `N`, `MaxFrames`, `MaxRead`; and the limits of the
library, 120 bytes of headers, 80 of a body and 130 of a message in place of its
16,000 and twice 32,000,000, so that clients reach them.

Deadlock is checked except where the system may stop: `query_leg` when its leg
is built, the runs of `NearestEdge` when their question is answered, those of
`Server` where the unset read may end the process, `connection` when the
connection is over or `listen` has thrown, `read_path` when all is read.

### What the properties say

- **Searches.** `KeepsPromise` (refinement): at most one answer per call, a route
  of least cost that visits no vertex twice, or none exactly when there is none.
  `AnswersAtLast`: there is one. `SearchInv` (types, what is settled and relaxed,
  predecessors of exactly the recorded cost, the best meeting point),
  `NoCheaperWalk`, `SettledIsFinal` and `RouteInv` (what the walk back over the
  two searches rests on) say how.
- **Labelling and loading.** `AreConnectedIsExact`, `LabelsAreSound`,
  `LabelsStick`; `GraphAsRead` and `Mirrored` (each edge at both its ends, with
  marks that mirror each other); `NeverServesABadFile`; `RefusalIsSafe` (nodes
  that a route joins are never called isolated); `Settles`.
- **Legs and places.** `LegCostsWhatItTakes`, `NoShortcuts`; `WellBuilt` (the
  tree holds every node once and splits by the axis of each level),
  `FindsAllWithin`, `FindsNearest`, `NearestOnTheNetwork`.
- **Queries.** `RouteServesTheQuery`, `RefusedForAReason`,
  `EveryMessageIsAnswered`.
- **Connections.** `OneOfEach` (the shared buffers have one user),
  `NoLostWakeup`, `RepliesInOrder`, `NothingAfterClose`, `EndsOnce` (with the
  right handler, and not forgotten before), `AlwaysAccepting`,
  `NoHandshakeForEver`.
- **Bytes.** `AnsweredOnItsMerits` (status, accepted key and subprotocols depend
  on the request and not on its reads, and the library's own client accepts
  what it is answered), `DeliversWhatWasSent`, `AnswersInFrames`, `ReadsToTheEnd`.

### Findings

1. `main.cpp:74` tests `forward_mode` where every other branch tests
   `backward_mode`: a ferry that is open only backwards gets no edge, and one that
   is open only forwards gets both (`LinesBecomeEdges`, run `startup_ferries`).
2. `source_files/KDTree.cpp:137` and `:180` collect the position of an element
   equal to the median where its node id belongs. With one node at a place that
   is never read; with two, the tree loses a node and holds another twice
   (`EveryNodeOnce`, run `kdtree_duplicates`).
3. `source_files/Server.cpp:84` reads `e.edge.u` before `e.edge_found` has been
   tested (`FarOffIsSaid`, run `server_unset_node`).
4. `websocketpp/processors/hybi13.hpp:515` asks the opcode of the *last* frame
   whether the message is a text, so a text in several frames may end inside a
   code point, against the comment there (`TextsAreUtf8`, run
   `read_path_cut_text`).

Seen while modelling, and not the subject of a run of their own. `DeliversWhatWasSent`
and `AnsweredOnItsMerits` are stated as the comments quoted here and in finding 4
have it - every text is UTF-8, the limit is one of the size of the headers - so
they do not hold for clients that meet finding 4 or one of the first two points.
Run `read_path` has no such clients: its texts in several frames end with a code
point, its old clients send UTF-8, and its requests are far from the limit or above
it.

- `websocketpp/processors/hybi00.hpp:290` delivers the text of an old client without
  a look at its bytes ("TODO: validation"), where the comment at line 300 speaks of
  "validating them for UTF8".
- `websocketpp/http/impl/request.hpp:70` counts a delimiter with each look at the
  buffer, found or not, three bytes with the zero at its end. A request below the
  limit ("Maximum size in bytes", `websocketpp/http/constants.hpp:64`) is refused
  with 431 when it comes in enough pieces, or in enough lines.
- `source_files/GraphStorage.cpp:172` looks for one-way edges only, where
  `GraphStorage.h:114` says "Returns edge if it exists": the way back along a
  one-way road is missed when it is a parallel road that is open both ways, or is
  priced by another one of several. `NoShortcuts` shows that it never makes a leg
  too cheap; `LegCostsWhatItTakes` leaves parallel roads out.
- An open handshake timer whose callback is queued when the response has been
  written ends a connection that is open, which `websocketpp/connection.hpp:486`
  calls a failed handshake. It is told as closed, once (`EndsOnce`).
- The eight bytes behind a request of version 0 must come with the read that
  ends it, or the answer is 500; `AnsweredOnItsMerits` allows for both.
- `handle_pre_init` of the asio transport calls back with its error and goes on
  to `post_init`; no `tcp_pre_init` handler of this program can set one.
- `terminate` writes `m_ec` of a connection that is closed already.
- `resume_reading` issues a read even when reading was not paused, and the pong
  timer is not cancelled by `terminate`; the server calls neither.
- Parameter lists of headers accept text behind a blank; a `Content-Length` is
  honoured in an upgrade request; `stod` takes a token that only begins with a
  number.
- `source_files/KDTree.cpp:349` measures the distance to the splitting meridian
  along the parallel of the source, longer than the way there nearer the pole:
  nodes inside the radius can be left out. At the radii the server uses these
  lie within metres of the rim; the run is in a flat world.
- A one-way road that ends where it begins is taken to be open both ways: the
  forward edge back that `source_files/QueryGraph.cpp:127` looks for is the road
  itself (`LegCostsWhatItTakes` leaves such roads out, by `NoLoops`; with them it
  does not hold).
- The comparator of the set in `GetNearestEdge` (`source_files/GraphStorage.cpp:87`)
  is not an ordering, yet it takes two edges for equal only if they join the
  same two nodes, so the nearest place is kept (`NearestOnTheNetwork`).
- The sum of sizes at `hybi13.hpp:435` could wrap on a platform with a small
  `size_t`; the queue of the searches grows with every improvement, not with
  every vertex (`source_files/ShortestPath.cpp:188`); the projection
  (`source_files/LatLng.cpp:49`) is done in degrees and compared in metres.

### Fairness

- The loader, the labelling, the searches, the handler of a query and the parsing
  of what has been read are sequential code on the only thread: they go on as
  long as they can take a step. That is weak fairness of their step relation, and
  nothing of a fair choice among the steps that are possible.
- `ReadPath` is weakly fair for `Next`: its property says what happens to bytes
  that do arrive.
- `Connection` is weakly fair for processing the frames of the buffer and for
  posted calls (the thread of `run()` takes what is queued), for time (`Timeout`),
  and, once the socket is shut down, for what is in flight to fail, as asio
  completes every operation on such a socket. Nothing is fair about a client: it
  may stay silent, or take no bytes, for ever. `NoHandshakeForEver` therefore
  rests on timers alone, and asks for the ones that are not disabled.
- Accepting is not fair: whether a client comes is up to the clients.

## Proofs

TLAPS checks these theorems for all values of the constants, under the
assumptions that the modules name and TLC evaluates:

- costs are naturals, a query is between vertices, `Infinity`, `NoNode`, `Unset`,
  `BadLine` and `Blank` are none of the values they are told apart from, `N`,
  `MaxFrames` and `MaxRead` are naturals, lines name nodes of the graph,
  `Disabled` are timeouts: what the code or the modelling takes for granted;
- `VerticesAssumption` of the searches: the vertices are finitely many. The
  reference, `ShortestCost`, is a least element of a finite set of walks;
- `RoadsAssumption` of `Server`: the lists hold elements that point to nodes, and
  the adjacency is symmetric. `StartupProofs` proves both of what `main` loads
  (`TypeCorrect`);
- `RoadsAssumption` of `QueryLeg`: `AddEdge` is called with nodes of the graph and
  naturals, in any order and as often as one likes;
- `NearestAssumption` of `Server`: for a place on the map `GetNearestEdge` reports
  an edge of the graph, from either of its ends, with a ratio of 0 to 1, or none.
  Run `kdtree` checks it of `GetNearestEdge` itself.

**`WeightedGraphsProofs`**: what the reference definitions mean. Walks and their
costs are recursive functions, which are first shown to exist (by the
library's theorems on functions over the naturals), and then to be what they stand
for. An induction has no theorem of the library to rest on here, as those take an
operator; the argument is the least length at which the claim were false.
`SimpleWalksAre`: the enumeration is exactly the walks that repeat no vertex; none
can have more vertices than there are. `ShortestOf`: the least cost of the
enumeration is the least cost of all walks, which cutting out cycles shows.

**`BidirectionalDijkstraProofs`**, for every finite set of vertices, every graph on
them and every query. `TypeOK` is not inductive: that `previous_node` is defined
where the trace follows it needs the shape of the search. `IInv` conjoins it with
the other parts of `SearchInv`. Its heart is that settled vertices are no farther
than waiting ones, that all their edges are relaxed, and that the best meeting
point is the best over *all* vertices both sides know although only heads of
relaxed edges are looked at. Theorems `TypeCorrect`, `SearchCorrect`,
`PreviousExact` and the action property `SettledFinal` follow from it, and two that
need more:

- `Optimal`: no walk is cheaper than the answer. Look at a walk: if one side is
  exhausted, its far end is known at no more than its cost; otherwise it has an
  edge from what the forward search has settled to what it has not, or passes from
  what one side has settled to what the other has, and there it passes a point
  where the best meeting cost is no larger.
- `RouteInvariant`: the walk back. Distances alone do not keep it from going round
  in a circle or the two halves from crossing, since an edge may cost nothing. It
  takes two facts about sets. `Acyclic`: a set of known vertices without the root
  has one whose previous vertex lies outside; a vertex that comes nearer is no
  vertex's previous one, so writing its own closes no circle. `Apart`: some set of
  settled vertices holds the whole way back on the forward side, another the one on
  the backward side, and they share nothing; when a meeting point is found it is
  cheaper than every vertex that both searches have settled, so none of those is
  nearer than it on both sides, and what is settled later does not matter.
  With `Walked` (the trail is that way and repeats nothing) and `Untraced` (what is
  empty until when), `RouteInv` is inductive relative to `IInv`.

`PromiseKept` is the refinement of `ShortestPathQuery`: every step is a stutter but
the one that returns, and at that one the two halves, reversed and joined, are a
walk of the recorded cost that repeats no vertex, which `Optimal` and `ShortestOf`
make the least.

**`SimpleDijkstraProofs`**: the same for the one-sided search, whose invariant has
the final distances of settled vertices where the other has meeting points.
Theorems `TypeCorrect`, `SearchCorrect`, `PromiseKept`.

**`ServerProofs`**, for every road graph, every answer `GetNearestEdge` may give and
every message. `IInv` says that what the handler has done matches the message:
`Parsed` (the coordinates are the numbers that the tokens begin with, all on the
map), `SnappedInOrder` (each at the first radius with a road, and there is none up
to the radius that is tried now), `RoutedInOrder` (cut at some points, the route
falls into one least-cost stretch per leg, neighbours sharing a point) and
`InStage` (each stage begins when the one before is complete). Theorems
`TypeCorrect`, `RoutesServe` (a route that is sent serves the query) and
`RefusalsAreDue` (an error that is sent names a fault that the query has). They
rest on lemmas about `Tokenize`, that the tokens of a message are nonempty and
hold no blank, and about joining routes.

**`QueryLegProofs`**, for every number of nodes, every sequence of calls of
`AddEdge`, every two edges that `GetNearestEdge` may report and every ratio. The
invariant is `LegInv`: what is written at one end of a road stands at the other
(`Mirrored`), and the virtual edges are what the constructor makes of two edges
that the lists report. That is enough; what has to be shown is about the two
graphs that a property compares. `SameLeastCost` of `WeightedGraphsProofs` says
when they agree: each walk of the one that repeats no vertex is undercut by a walk
of the other. `ArrivesIn` is the induction along a walk.

- `PointsBringNoShortcuts`: a walk between nodes of the road graph. If the points
  are on different roads, or on a road that is closed one way, nothing leads to the
  first virtual node or from the second, and the walk uses roads alone
  (`LooseEndsAreNoShortcut`). If they share a road that is open both ways, the walk
  may go over it in pieces and turn round on them: whoever stands on a piece could
  have come to one of its ends and be on the way from there at the same cost
  (`PieceTaken`), so the road at once would have done (`PiecesAreNoShortcut`).
- `LegsCostWhatTheyTake`: a walk from point to point that repeats no vertex enters
  its first vertex no more and does not leave its last (`NeverBackNorOn`). Of the
  edges that are left, each virtual one is a stretch of the roads, and each stretch
  of the roads is a virtual edge or no shorter than one that leads all the way
  (`VirtualEdgesServed`, in the cases of the constructor: two roads, a one-way road,
  a road that is open both ways). That the constructor finds every way back rests
  on `NoParallelRoads`, that a direction of a road can be told by where it begins on
  `NoLoops`; TLC shows what goes wrong without either.

**`ConnectedComponentsProofs`**, for every number of nodes and every symmetric
adjacency. Soundness of labels alone is not inductive: it needs that what is on
the stack carries the current label and that the label to come is on no node.
Theorems: `TypeCorrect`, `LabelsSound`, `AreConnectedExact` (when the search is
over, nodes with one label are closed under edges), `LabelsAreKept`.

**`StartupProofs`**, for every set of lines and all files. `Inv` adds to the
invariant of the labelling, taken over through the instance, that lists are well
formed and symmetric and that a bad line is in no file unless `main` has returned.
Theorems: `TypeCorrect`, `ServesGoodFiles`; `LabelsSound`, `LabelsExact` and
`LabelsAreKept`, which carry the theorems about the labelling over to the graph
that was loaded; and `RefusalSafe`, which joins the two components: every directed edge is in the adjacency the labels were computed from,
so a component is closed under driving. Two more are about counts, and are proved
by what one line adds to them:

- `MirroredLists`: one call of `AddEdge` adds to the list where an edge starts
  what it adds to the list where it ends, loops and double-way roads included
  (`AddCallTally`).
- `LoadsAsRead`: the calls a line leads to open what the line says, in each of the
  branches of `main.cpp:57-84` (`WayOpens`), so each road is open in the directions
  and at the costs that the lines declare, and as often; and each node is where the
  last line that names it puts it. `GraphAsRead` leaves out the pairs of nodes that a
  one-way ferry joins, where the code does something else (finding 1).

**`ConnectionProofs`**, for any number of frames in reads of any size, with or
without timeouts, and any number of clients. `IInv` has six parts, of which none
but the first is about one field:

- `Types`;
- `Control`: which read and which write can be in flight in each internal state,
  and what a connection cannot have before it is open. `OneOfEach` follows;
- `Ending`: a connection that is not closed has no shutdown timer; of a closed one
  either the end has been told, or exactly one shutdown timer has run out whose
  callback will tell the same;
- `Queue`: `NoLostWakeup` and `NothingAfterClose`, which need that the flag of a
  write stays set behind a close frame, and that the batch in flight ends as what
  was sent ends;
- `Waiting`: what an unfinished connection waits for in each state - a read, a
  write, a timer that has run out, a close frame that is queued or in flight. It
  makes the third conjunct of `EndsOnce` true: while the end has not been told,
  some handler holds the connection;
- `Accepting`: the loop of accepts, and that nothing happens to a connection before
  it is accepted.

Theorems: `ConnectionTypes`, `ConnectionOneOfEach`, `ConnectionNoLostWakeup`,
`ConnectionNothingAfterClose`, `ConnectionEndsOnce`, `ServerAccepts`, and
`ConnectionRepliesInOrder`, which `Types` is enough for: a step appends at most
one reply to what is sent and queued, with the next number, and a batch only
moves the line between the two.

Only model-checked:

- what needs fairness: `AnswersAtLast`, `Settles`, `EveryMessageIsAnswered`,
  `NoHandshakeForEver`, `ReadsToTheEnd`;
- `kdtree` and `read_path`: recursive operators, folds, and operations on bits,
  which the provers cannot look into. `SplitsByAxis` and the like are facts about
  what a recursion over the data returns.

## Not modelled

- **Rounding**: of sums of durations, coordinates, projections and distances. The
  models show the algorithms over exact numbers.
- **Undefined behaviour** after lines with too few fields or with node ids outside
  of the graph: nothing can be said of the program then.
- **Printing** (`LatLng::toString`, `Util::DoubleToString`, logging) and functions
  that are never called or instantiated.
- **Of websocketpp**, what this program does not use: TLS, the iostream, debug and
  stub transports, compression (the extension is compiled in its disabled form),
  connections in the role of a client and proxies, plain HTTP handlers and
  deferred responses, pausing, pings and closing by the application, `stop()`,
  and the locks and strands of programs with several threads. Base64 is never
  decoded; random numbers are for the masks of clients.
- **asio** and the operating system, other than what handlers can see: reads,
  writes and accepts that complete, in pieces or with an error, and timers.
- **A query that fills the machine**: allocation never fails in the models.
