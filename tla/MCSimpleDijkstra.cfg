CONSTANTS
    a = a
    b = b
    c = c
    d = d
    Infinity = Infinity
    NoNode = NoNode
    Unset = Unset
    Vertices <- MCVertices
    Graphs <- MCGraphs
    Queries <- MCQueries
SPECIFICATION Spec
INVARIANTS
    SearchInv
PROPERTIES
    KeepsPromise
    AnswersAtLast
