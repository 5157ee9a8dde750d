SPECIFICATION Spec

CONSTANTS
    FundingAssets = 2
    Interval = 3
    MaxCycle = 1
    MaxDelay = 1
    MaxFaults = 1
    RunImmediately = {TRUE, FALSE}
    MarketPrices <- MCPrices
    BasePrice = 100
    MockPrices = {104}
    FeedInterval = 2
    ServiceBps = 200
    ReasonableBps = 500
    OracleBps = 200
    MaxAge = 3
    MaxOpen = 2
    DailyAssets = 2
    DayLength = 3
    RetryDelay = 2
    MaxStarts = 3

INVARIANTS
    TypeOK
    GapBounded
    StartsAccounted

PROPERTIES
    FundingGoesOn
    PromptPriceAdvances
    FeedRecovers
