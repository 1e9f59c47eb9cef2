CONSTANTS
    Leds = {0, 1}
    SleepTime <- MCSleepTime
    Blocks = {m1, m2}
    Prompt = TRUE
    MaxCount = 12
    ToneBlocks = {b1, b2, b3, b4}
    BlocksPerTone = 12
    PassesPerStep = 10
    CountRange = 64
    BLINK_PERIOD_MAX = 10
    FadeCount = 2
    FadePeriod <- MCPeriods
    Word = 65536
    MinPeriod = 2
    MaxPeriod = 256
    Longest = {1000, 100, 8, 7}
    IdRange = 7
    MaxLag = 6
SPECIFICATION Spec
INVARIANTS
    TypeOK
    HeapSuffices
    BlocksInOnePlace PlayedAsComposed
    LabelCurrent
    OffMeansOff
    FadeInRange
    DistinctInFlight
PROPERTIES
    EveryToggleLogged SentIsPrinted
    PlaysEveryTone
    BlinksUntilOff
    FadesForEver SweepsForEver
CHECK_DEADLOCK FALSE
