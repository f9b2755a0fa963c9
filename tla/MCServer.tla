------------------------------ MODULE MCServer -------------------------------
(***************************************************************************)
(* A town of three nodes with a road that leads out of it one way, an      *)
(* island of two, and places near and far from their roads.                *)
(***************************************************************************)
EXTENDS Server

CONSTANT Word

MCLists ==
    AddEdge(AddEdge(AddEdge(EmptyLists(0 .. 4), 0, 1, 1, TRUE, TRUE),
                    1, 2, 1, FALSE, TRUE),
            3, 4, 1, TRUE, TRUE)

NotFound == [edge_found |-> FALSE]

Found(edge, clamped_ratio, point) ==
    [edge |-> edge, clamped_ratio |-> clamped_ratio, projected_point |-> [point |-> point],
     edge_found |-> TRUE]

(* The first radius at which a road is found, and what is found.           *)
MCNearest(place, radius) ==
    CASE place = <<0, 0>>  -> Found(Edge(0, 1, 1, DOUBLE_WAY_EDGE), 1, "town")
      [] place = <<-1, 0>> -> Found(Edge(1, 0, 1, DOUBLE_WAY_EDGE), 2, "end of town")
      [] place = <<0, 1>> /\ radius >= 1 -> Found(Edge(1, 2, 1, FORWARD_EDGE), 1, "way out")
      [] place = <<1, 0>> /\ radius >= 2 -> Found(Edge(3, 4, 1, DOUBLE_WAY_EDGE), 0, "island")
      [] OTHER -> NotFound

MCPlaces == {<<0, 0>>, <<-1, 0>>, <<0, 1>>, <<1, 0>>, <<1, 1>>}

Faulty == {<<2, 0>>, <<0, 3>>, <<-2, 1>>, <<0, -3>>, <<0, Word>>, <<Word, 0>>}

(* The tokens of a query, one blank after each.                            *)
Spaced(numbers) == FlattenSeq([j \in DOMAIN numbers |-> <<numbers[j], Blank>>])

MCMessages ==
    {<<>>, <<Blank>>, <<0>>, <<Blank, 0, Blank, Blank, 0, Blank, -1, Blank, Blank, 0, Word>>}
        \cup {Spaced(q) : q \in
            {<<0, 0>>, <<0, 0, 0>>, <<0, 0, 0, 1, 0>>}
            \cup {p \o q : p \in MCPlaces \cup Faulty, q \in MCPlaces \cup Faulty}
            \cup {p \o q \o r : p \in MCPlaces, q \in MCPlaces, r \in MCPlaces \cup {<<0, 3>>}}}
=============================================================================
