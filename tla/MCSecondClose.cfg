SPECIFICATION DirectionalSpec
CONSTANTS
    Kinds <- SpotOnly
    MaxOrders <- FourSpotOrders
    OtherCoin = 2
    FaultKinds <- NoFaults
    MaxFaults = 0
    Stream = TRUE
INVARIANTS
    NoSecondClose
CHECK_DEADLOCK FALSE
