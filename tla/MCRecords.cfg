SPECIFICATION MCSpec
CONSTANTS
    Links = {o1}
    Quantities <- MCQuantities
    Reports <- MCReports
    Attempts = 2
    LandBy = 1
    Lag = 1
    Window = 2
    PairSize = 3
    MaxTroubles = 3
    Records = {r1}
    CommitEvery = 3
    KeepDays = 1
    MaxRecords = 4
    LastDay = 4
    MaxRestarts = 1
    MaxDiskFails = 1
    Products = {linear}
    Levels <- OneLevel
    MaxLevels = 2
    Ticks <- TwoTicks
    NoTick = NoTick
    Frames <- SomeFrames
    MaxFaults = 2
INVARIANTS
    RecordsTypeOK
    StatusMatchesFill
    SentAtMostOnce
    NothingHidden
    LogTellsTheTruth
    NoFalseContradiction
    AnswerIsTrue
    NeverNakedShort
    ExposureIsKnown
    IntactVerifies
    TrustedIsReproduced
    EntriesNeedTheRecord
    EveryViewReproduced
PROPERTIES
    EvidenceIsKept
    ImplementsLog
    StoreIsALog
    EveryCallAnswers
    EveryStartDecides
    BrokenHedgeIsSeen
CHECK_DEADLOCK FALSE
