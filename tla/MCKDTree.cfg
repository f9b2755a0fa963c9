CONSTANTS
    MaxNodes = 6
    Placements <- MCPlacements
    Sources <- MCSources
    Radii <- MCRadii
    Cosine <- Flat
    Networks <- MCNetworks
SPECIFICATION EdgeSpec
CHECK_DEADLOCK FALSE
INVARIANTS
    WellBuilt
    FindsAllWithin
    FindsNearest
    NearestOnTheNetwork
