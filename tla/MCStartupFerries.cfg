CONSTANTS
    N = 4
    NodeLines <- MCNodeLines
    Ways <- MCWays
    Origin = Origin
    BadLine = BadLine
    MaxNodeLines = 1
    MaxWays = 2
SPECIFICATION Spec
INVARIANTS
    LinesBecomeEdges
