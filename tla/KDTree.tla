-------------------------------- MODULE KDTree --------------------------------
(***************************************************************************)
(* The KD tree (source_files/KDTree.cpp): a balanced binary tree of node   *)
(* ids, kept in an array, that splits the nodes by latitude and longitude  *)
(* in turn.  It is built from two arrays of node ids, one sorted by each   *)
(* axis, and a third one to move ids into; the recursion shares all three  *)
(* and swaps two of them on its way down and back.                         *)
(*                                                                         *)
(* Axis 1 is the latitude, the code's x, and axis 2 the longitude, its y.  *)
(* Coordinates are small integers; distances and radii are kept as their   *)
(* squares, in a unit in which they are integers too.                      *)
(***************************************************************************)
EXTENDS Integers, SequencesExt

CONSTANTS
    Placements,   \* the vectors of coordinates that are considered
    Sources,      \* the points that are asked for
    Radii,        \* squares of the radii that are asked for
    Cosine(_)     \* Cosine(2 * lat): a degree of longitude at this latitude

NoNode == -1

ASSUME PlacementsAssumption ==
    \A p \in Placements : DOMAIN p = 0 .. Cardinality(DOMAIN p) - 1

VARIABLES
    coordinates,  \* node id -> <<lat, lng>>, not written after the nodes are read
    pc,           \* whether the tree is there
    kd_tree,      \* the tree: position -> node id, or NoNode
    source,       \* what was asked last,
    radius,       \* and within which radius (0 for a nearest neighbour),
    nodes         \* and the answer, a sequence of node ids

vars == <<coordinates, pc, kd_tree, source, radius, nodes>>

Nodes == DOMAIN coordinates

-----------------------------------------------------------------------------
Less(axis, p, q) ==
    p[axis] < q[axis] \/ (p[axis] = q[axis] /\ p[3 - axis] < q[3 - axis])

Square(x) == x * x

(* DistanceInMeters: longitudes shrink with the cosine of the latitude in  *)
(* the middle.                                                             *)
Distance(p, q) == Square(Cosine(0) * (p[1] - q[1])) + Square(Cosine(p[1] + q[1]) * (p[2] - q[2]))

(* The distance of p to the line through q that the tree splits at.        *)
DistanceToSplit(axis, p, q) == Distance([p EXCEPT ![axis] = q[axis]], p)

(* The largest n such that 2^n <= k: (int) (log(k) / log(2)).              *)
Log2(k) == CHOOSE n \in 0 .. k : 2 ^ n <= k /\ k < 2 ^ (n + 1)

(* The axis at which the tree splits at this depth.                        *)
Axis(depth) == 1 + (depth % 2)

Sort(axis) ==
    {order \in Permutations(Nodes) :
        \A i, j \in Nodes : i < j => ~Less(axis, coordinates[order[j]], coordinates[order[i]])}

-----------------------------------------------------------------------------
(***************************************************************************)
(* Create.  b holds the tree and the three arrays; by[1] is the code's     *)
(* sorted_indexes_xy and by[2] its sorted_indexes_yx.                      *)
(***************************************************************************)
Swap(b, axis) == [b EXCEPT !.by[axis] = b.temp, !.temp = b.by[axis]]

(* A slip: the arrays are left as the recursion had them.                  *)
LeaveSwapped(b, axis) == b

SwapBack(b, axis) == Swap(b, axis)

(* The other array, rearranged for the two subtrees: what is less than the *)
(* median, the median, what is greater.  Where a node is equal to the      *)
(* median it is its position that is written, not its id (KDTree.cpp:137). *)
Partition(b, axis, first, last, median) ==
    LET other     == b.by[3 - axis]
        at(k)     == coordinates[other[first + k - 1]]
        Ids(test(_)) ==
            LET ks == SelectSeq([k \in 1 .. last - first + 1 |-> k], test)
            IN  [k \in DOMAIN ks |-> other[first + ks[k] - 1]]
        equals    == SelectSeq([k \in 1 .. last - first + 1 |-> first + k - 1],
                               LAMBDA i : coordinates[other[i]] = median)
        section   == Ids(LAMBDA k : Less(axis, at(k), median))
                         \o equals
                         \o Ids(LAMBDA k : Less(axis, median, at(k)))
    IN  [b EXCEPT !.temp = [i \in DOMAIN @ |->
                               IF i \in first .. last THEN section[i - first + 1] ELSE @[i]]]

RECURSIVE CreateNode(_, _, _, _, _)
CreateNode(b, first, last, depth, index) ==
    LET axis   == Axis(depth)
        median == first + (last - first) \div 2
        here   == [b EXCEPT !.tree[index] = b.by[axis][median]]
        split  == Swap(Partition(here, axis, first, last, coordinates[here.tree[index]]), 3 - axis)
        left   == IF median # first
                  THEN CreateNode(split, first, median - 1, depth + 1, 2 * index + 1)
                  ELSE split
        right  == CreateNode(left, median + 1, last, depth + 1, 2 * index + 2)
    IN  IF first = last THEN here ELSE SwapBack(right, 3 - axis)

Size(n) == 2 ^ (Log2(n) + 1) - 1

Init ==
    /\ coordinates \in Placements
    /\ pc = "empty"
    /\ kd_tree = <<>>
    /\ source = <<>>
    /\ radius = 0
    /\ nodes = <<>>

(* std::sort may leave equal elements in any order.                        *)
Create ==
    /\ pc = "empty"
    /\ \/ Nodes = {} /\ UNCHANGED kd_tree
       \/ /\ Nodes # {}
          /\ \E xy \in Sort(1), yx \in Sort(2) :
              LET n == Cardinality(Nodes)
                  b == [tree |-> [index \in 0 .. Size(n) - 1 |-> NoNode],
                        by |-> <<xy, yx>>, temp |-> [i \in Nodes |-> 0]]
              IN  kd_tree' = CreateNode(b, 0, n - 1, 0, 0).tree
    /\ pc' = "built"
    /\ UNCHANGED <<coordinates, source, radius, nodes>>

-----------------------------------------------------------------------------
Missing(index) == index \notin DOMAIN kd_tree \/ kd_tree[index] = NoNode

(* A slip: a line that only touches the circle is taken to miss it.        *)
BeyondOrAt(distance, r) == distance >= r

Beyond(distance, r) == distance > r

RECURSIVE RadiusSearchRecursive(_, _, _)
RadiusSearchRecursive(p, r, index) ==
    LET node  == kd_tree[index]
        at    == coordinates[node]
        axis  == Axis(Log2(index + 1))
        here  == IF Distance(at, p) <= r THEN <<node>> ELSE <<>>
        left  == RadiusSearchRecursive(p, r, 2 * index + 1)
        right == RadiusSearchRecursive(p, r, 2 * index + 2)
    IN  CASE Missing(index) -> <<>>
          [] ~Missing(index) /\ ~Beyond(DistanceToSplit(axis, p, at), r) -> here \o left \o right
          [] ~Missing(index) /\ Beyond(DistanceToSplit(axis, p, at), r) ->
                here \o (IF p[axis] < at[axis] THEN left ELSE right)

RadiusSearch ==
    /\ pc = "built"
    /\ source' \in Sources
    /\ radius' \in Radii
    /\ nodes' = RadiusSearchRecursive(source', radius', 0)
    /\ pc' = "found"
    /\ UNCHANGED <<coordinates, kd_tree>>

(* The better of the nearest node so far and the one at hand.              *)
Better(best, node, distance) ==
    IF best.node = NoNode \/ distance < best.distance
    THEN [node |-> node, distance |-> distance] ELSE best

(* A slip: the half of the tree the point is not in is never looked at.    *)
StaysOnItsSide(distance, best) == FALSE

Crosses(distance, best) == distance < best.distance

RECURSIVE NNSearchRecursive(_, _, _)
NNSearchRecursive(p, best, index) ==
    LET node  == kd_tree[index]
        at    == coordinates[node]
        axis  == Axis(Log2(index + 1))
        near  == IF Less(axis, p, at) THEN 2 * index + 1 ELSE 2 * index + 2
        far   == IF Less(axis, p, at) THEN 2 * index + 2 ELSE 2 * index + 1
        once  == NNSearchRecursive(p, Better(best, node, Distance(at, p)), near)
    IN  IF Missing(index) THEN best
        ELSE IF Crosses(DistanceToSplit(axis, p, at), once) THEN NNSearchRecursive(p, once, far)
        ELSE once

NNSearch ==
    /\ pc = "built"
    /\ source' \in Sources
    /\ radius' = 0
    /\ nodes' = <<NNSearchRecursive(source', [node |-> NoNode, distance |-> 0], 0).node>>
    /\ pc' = "nearest"
    /\ UNCHANGED <<coordinates, kd_tree>>

(* The tree is only read from now on, so one question is as good as many.  *)
Next == Create \/ RadiusSearch \/ NNSearch

Spec == Init /\ [][Next]_vars

-----------------------------------------------------------------------------
Built == pc # "empty"

(* The indexes of the tree at or below index.                              *)
Below(index) ==
    {j \in DOMAIN kd_tree :
        \E up \in 0 .. Log2(j + 1) : (j + 1) \div 2 ^ up = index + 1}

(***************************************************************************)
(* EveryNodeOnce: the tree holds every node id exactly once, and nothing   *)
(* else: the positions in the tree are enough for a balanced tree of any   *)
(* size, and the arrays the recursion shares reach each subtree with that  *)
(* subtree's ids in them.                                                  *)
(***************************************************************************)
EveryNodeOnce ==
    Built => \A node \in Nodes : \E index \in DOMAIN kd_tree :
                /\ kd_tree[index] = node
                /\ \A other \in DOMAIN kd_tree : kd_tree[other] = node => other = index

(***************************************************************************)
(* SplitsByAxis: what is on the left of a node is less than it by the axis *)
(* of its level, latitude on even levels, longitude on odd ones; what is   *)
(* on the right is greater.                                                *)
(***************************************************************************)
SplitsByAxis ==
    Built => \A index \in DOMAIN kd_tree : \A j \in Below(index) \ {index} :
        ~Missing(j) =>
            LET at    == coordinates[kd_tree[index]]
                other == coordinates[kd_tree[j]]
                key(p) == IF Log2(index + 1) % 2 = 0 THEN p ELSE <<p[2], p[1]>>
                before(p, q) == \/ key(p)[1] < key(q)[1]
                                \/ key(p)[1] = key(q)[1] /\ key(p)[2] < key(q)[2]
            IN  IF j \in Below(2 * index + 1) THEN before(other, at) ELSE before(at, other)

(***************************************************************************)
(* WellBuilt: the tree is whole and split all the way down.                *)
(***************************************************************************)
WellBuilt == EveryNodeOnce /\ SplitsByAxis

(***************************************************************************)
(* FindsAllWithin: a search within a radius returns every node in the      *)
(* circle, and each of them once, however the tree splits the circle.      *)
(***************************************************************************)
FindsAllWithin ==
    pc = "found" =>
        /\ Range(nodes) = {node \in Nodes : Distance(coordinates[node], source) <= radius}
        /\ IsInjective(nodes)

(***************************************************************************)
(* FindsNearest: no node is nearer to the point asked for than the one     *)
(* that is returned, and one is returned.                                  *)
(***************************************************************************)
FindsNearest ==
    pc = "nearest" =>
        /\ Nodes # {} => nodes[1] \in Nodes
        /\ \A node \in Nodes :
            Distance(coordinates[nodes[1]], source) <= Distance(coordinates[node], source)
===============================================================================
