------------------------------- MODULE NodeIds -------------------------------
(***************************************************************************)
(* The node ids of a graph: the indices of its vector of coordinates, of   *)
(* its adjacency lists and of its labels.                                  *)
(***************************************************************************)
EXTENDS Integers

CONSTANT N   \* coordinates.size(): the number of nodes

ASSUME NAssumption == N \in Nat

Nodes == 0 .. N - 1
=============================================================================
