----------------------------- MODULE MCStartup -----------------------------
(***************************************************************************)
(* Small files for Startup: four nodes, and one way of every kind the      *)
(* branches of main.cpp tell apart.                                        *)
(***************************************************************************)
EXTENDS Startup

Way(a, b, forward_mode, backward_mode, forward_duration, backward_duration, duration) ==
    [a |-> a, b |-> b, forward_mode |-> forward_mode, backward_mode |-> backward_mode,
     forward_duration |-> forward_duration, backward_duration |-> backward_duration,
     duration |-> duration, is_startpoint |-> duration = NoDuration]

MCWays == {
    Way(0, 1, "ROAD", "ROAD", 1, 1, NoDuration),         \* one double-way edge
    Way(0, 1, "ROAD", "ROAD", 1, 2, NoDuration),         \* two one-way edges
    Way(1, 2, "ROAD", INACCESSIBLE, 1, 1, NoDuration),
    Way(2, 3, "ROAD", INACCESSIBLE, 1, 1, NoDuration),
    Way(2, 0, INACCESSIBLE, "ROAD", 1, 2, NoDuration),
    Way(0, 2, "FERRY", "FERRY", 1, 2, 3),
    Way(1, 2, "FERRY", INACCESSIBLE, 1, 2, 3),
    Way(0, 2, INACCESSIBLE, "FERRY", 1, 2, 3),
    Way(0, 2, INACCESSIBLE, INACCESSIBLE, 1, 1, NoDuration),
    Way(1, 1, "ROAD", "ROAD", 2, 2, NoDuration)}         \* a loop

MCNodeLines == {[node_id |-> 0, at |-> "here"], [node_id |-> 0, at |-> "there"],
                [node_id |-> 2, at |-> "here"]}
=============================================================================
