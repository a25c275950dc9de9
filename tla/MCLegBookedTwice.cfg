SPECIFICATION DirectionalSpec
CONSTANTS
    Kinds <- SpotOnly
    MaxOrders <- SixSpotOrders
    OtherCoin = 0
    FaultKinds <- UnreadOnly
    MaxFaults = 1
    Stream = FALSE
INVARIANTS
    LotsAreBooked
CHECK_DEADLOCK FALSE
