SPECIFICATION DirectionalFairSpec
CONSTANTS
    Kinds <- BothKinds
    MaxOrders <- FewOrders
    OtherCoin = 0
    FaultKinds <- AllFaults
    MaxFaults = 2
    Stream = TRUE
INVARIANTS
    EntriesAreKnown
    OneEntryAtATime
    NothingForgotten
PROPERTIES
    NakedIsDealtWith
CHECK_DEADLOCK FALSE
