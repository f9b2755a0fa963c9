CONSTANTS
    N = 5
    RatioSteps = 2
    MaxLat = 2
    MaxLng = 3
    Tries = 4
    Word = Word
    Blank = Blank
    Words = {Word}
    Infinity = Infinity
    NoReply = NoReply
    adjacency_lists <- MCLists
    Messages <- MCMessages
    Nearest <- MCNearest
SPECIFICATION Spec
CHECK_DEADLOCK FALSE
INVARIANTS
    FarOffIsSaid
