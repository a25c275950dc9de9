SPECIFICATION FairCloseSpec
CONSTANTS
    MaxAttempts = 2
    MaxWaits = 2
    MaxLagWaits = 1
    MaxSends = 2
    MinQty = 1
    Resend = FALSE
    Short = 1
    SendBy = 0
    LandBy = 1
    Lag = 1
    Window = 2
    MaxCrashes = 1
PROPERTIES
    CloseEnds
CHECK_DEADLOCK FALSE
