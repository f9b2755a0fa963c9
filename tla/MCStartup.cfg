CONSTANTS
    N = 4
    NodeLines <- MCNodeLines
    Ways <- MCWays
    Origin = Origin
    BadLine = BadLine
    MaxNodeLines = 2
    MaxWays = 3
SPECIFICATION Spec
INVARIANTS
    TypeOK
    GraphAsRead
    Mirrored
    NeverServesABadFile
    RefusalIsSafe
    LabelsAreSound
    AreConnectedIsExact
PROPERTIES
    Settles
    LabelsStick
