CONSTANTS
    MaxNodes = 7
    Placements <- MCDuplicates
    Sources <- MCSources
    Radii <- MCRadii
    Cosine <- Flat
    Networks <- MCNoRoads
SPECIFICATION EdgeSpec
CHECK_DEADLOCK FALSE
INVARIANTS
    EveryNodeOnce
