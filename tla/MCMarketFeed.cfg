SPECIFICATION FeedSpec
CONSTANTS
    Levels <- OneLevel
    MaxLevels = 2
    PingInterval = 4
    PongTimeout = 2
    Silence = 3
    ResyncTimeout = 1
    BookSilence = 2
    MaxBackoff = 2
    MaxFaults = 2
    MaxUpdates = 2
    MaxGaps = 1
    Capacity = 2
    Prompt = TRUE
INVARIANTS
    TroubleIsActedOn
PROPERTIES
    BookIsTrue
    FeedHeals
