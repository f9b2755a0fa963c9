---------------------------- MODULE MCQueryLeg ------------------------------
(***************************************************************************)
(* Three nodes.  A pair of them is not joined, or joined by a road that is *)
(* open both ways at one cost, one way only, or both ways at two costs.    *)
(***************************************************************************)
EXTENDS QueryLeg

Call(u, v, w, double_way) ==
    [u |-> u, v |-> v, w |-> w, double_way |-> double_way, is_startpoint |-> TRUE]

Joined(a, b) == {
    <<>>,
    <<Call(a, b, 1, TRUE)>>,
    <<Call(a, b, 1, FALSE)>>,
    <<Call(b, a, 2, FALSE)>>,
    <<Call(a, b, 1, FALSE), Call(b, a, 3, FALSE)>>}

(* Two roads between one pair of nodes.                                    *)
Doubled(a, b) == {
    <<Call(a, b, 1, TRUE), Call(a, b, 2, TRUE)>>,
    <<Call(a, b, 1, FALSE), Call(b, a, 2, TRUE)>>,
    <<Call(a, b, 1, FALSE), Call(a, b, 1, TRUE)>>}

(* A road from a node to itself.                                           *)
Loop(a) == {<<Call(a, a, 1, FALSE)>>}

(* A road that no point is snapped to: a ferry, say.                       *)
Link(a, b) == {
    <<>>,
    <<[Call(a, b, 3, TRUE) EXCEPT !.is_startpoint = FALSE]>>,
    <<[Call(b, a, 1, FALSE) EXCEPT !.is_startpoint = FALSE]>>}

MCRoadOptions == <<Joined(0, 1) \cup Doubled(0, 1), Joined(1, 2), Link(0, 2) \cup Loop(1)>>
=============================================================================
