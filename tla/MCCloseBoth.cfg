SPECIFICATION BothSpec
CONSTANTS
    MaxAttempts = 2
    MaxWaits = 2
    MaxLagWaits = 1
    MaxSends = 2
    MinQty = 1
    Resend = FALSE
    Short = 2
    SendBy = 0
    LandBy = 1
    Lag = 1
    Window = 2
    MaxCrashes = 1
INVARIANTS
    OneAtATime
    FreshResolvedIsTrue
    ClosedIsFlat
    ExplainedIsOurs
    FreshNothingUnreported
CHECK_DEADLOCK FALSE
