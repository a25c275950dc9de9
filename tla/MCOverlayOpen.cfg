SPECIFICATION EngineSpec
CONSTANTS
    Links = {o1, o2}
    Quantities <- MCQuantities
    Reports <- MCReports
    Attempts = 2
    LandBy = 1
    Lag = 1
    Window = 2
    Wanted = 2
INVARIANTS
    NeverOversold
    FlatMeansFlat
    HedgeIsWhatFilled
CHECK_DEADLOCK FALSE
