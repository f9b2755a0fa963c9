CONSTANTS
    a = a
    b = b
    c = c
    d = d
    e = e
    x = x
    y = y
    Infinity = Infinity
    NoNode = NoNode
    Unset = Unset
    Vertices <- MCVertices
    Graphs <- MCGraphs
    Queries <- MCQueries
    Walks <- MCWalks
SPECIFICATION Spec
INVARIANTS
    SearchInv
    NoCheaperWalk
    RouteInv
PROPERTIES
    SettledIsFinal
    KeepsPromise
    AnswersAtLast
