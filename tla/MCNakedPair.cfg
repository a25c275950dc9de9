SPECIFICATION PairSpec
CONSTANTS
    PairSize = 3
    MaxTroubles = 3
INVARIANTS
    NoSpotSoldAhead
CHECK_DEADLOCK FALSE
