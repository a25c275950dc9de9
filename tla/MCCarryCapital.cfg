SPECIFICATION FairCapital
CONSTANTS
    Carry <- TwoCycles
    Others <- OneOther
    Amount <- HalfEach
    Buffer = 0
    Ttl = 2
    MaxAge = 1
    Wealth = 3
    MaxTime = 3
    MaxFaults = 1
    MaxOrders = 2
INVARIANTS
    OrdersAreCovered
    HeldPairIsCovered
    KnownDollarsAreThere
PROPERTIES
    HoldsKeepThePromise
    HoldsAreGivenBack
CHECK_DEADLOCK FALSE
