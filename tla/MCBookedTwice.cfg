SPECIFICATION DirectionalSpec
CONSTANTS
    Kinds <- LinearOnly
    MaxOrders <- FourOrders
    OtherCoin = 0
    FaultKinds <- NoFaults
    MaxFaults = 0
    Stream = FALSE
INVARIANTS
    HeldIsBooked
CHECK_DEADLOCK FALSE
