CONSTANTS
    N = 3
    RatioSteps = 2
    RoadOptions <- MCRoadOptions
    Infinity = Infinity
SPECIFICATION Spec
CHECK_DEADLOCK FALSE
INVARIANTS
    LegCostsWhatItTakes
    NoShortcuts
