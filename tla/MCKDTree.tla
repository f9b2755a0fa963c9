------------------------------- MODULE MCKDTree -------------------------------
(***************************************************************************)
(* Nodes on a grid of three by three, and a few roads between them.        *)
(***************************************************************************)
EXTENDS NearestEdge

CONSTANT MaxNodes   \* the number of nodes, at most

Grid == {<<1, 1>>, <<1, 2>>, <<1, 3>>, <<2, 1>>, <<2, 2>>, <<2, 3>>, <<3, 1>>, <<3, 2>>, <<3, 3>>}

(* The ranks of the points of a set, from 0, by latitude.                  *)
Ranked(S) == [p \in S |-> Cardinality({q \in S : Less(1, q, p)})]

(* Every set of points, its nodes numbered upwards, downwards and from the *)
(* middle.                                                                 *)
MCPlacements ==
    UNION {LET n == Cardinality(S)
               rank == Ranked(S)
               Number(id(_)) == [i \in 0 .. n - 1 |-> CHOOSE p \in S : id(rank[p]) = i]
           IN  {Number(LAMBDA r : r), Number(LAMBDA r : n - 1 - r),
                Number(LAMBDA r : (r + n \div 2) % n)} :
               S \in {T \in SUBSET Grid : Cardinality(T) <= MaxNodes}}

(* Three nodes, two or three of them at one place.                         *)
MCDuplicates == [0 .. 2 -> {<<1, 1>>, <<2, 2>>}]

MCSources == {<<0, 2>>, <<1, 1>>, <<2, 2>>, <<2, 3>>, <<3, 1>>, <<4, 4>>}

MCRadii == {1, 2, 4}

(* Roads that each leave from the node before: one-way, the other way and  *)
(* both ways in turn, every fourth of them no place to start from; two     *)
(* one-way roads at different costs between the first node and the last,   *)
(* and one from the second to itself.                                      *)
Chain(n) ==
    FoldLeft(LAMBDA lists, u :
                 LET from == IF u % 2 = 0 THEN u - 1 ELSE u
                     to   == IF u % 2 = 0 THEN u ELSE u - 1
                 IN  AddEdge(lists, from, to, u, u % 3 = 0, u % 4 # 3),
             EmptyLists(0 .. n - 1), [u \in 1 .. n - 1 |-> u])

Ring(n) ==
    LET there == AddEdge(Chain(n), 0, n - 1, 7, FALSE, TRUE)
        back  == AddEdge(there, n - 1, 0, 8, FALSE, TRUE)
    IN  AddEdge(back, 1, 1, 9, FALSE, TRUE)

MCNetworks(n) == {IF n < 2 THEN Chain(n) ELSE Ring(n)}

MCNoRoads(n) == {EmptyLists(0 .. n - 1)}

(* A flat world: the distance is that of the plane.                        *)
Flat(s) == 1
===============================================================================
