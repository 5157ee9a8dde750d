SPECIFICATION TradingSpec
CONSTANTS
    admin = admin
    settler = settler
    feeder = feeder
    trader = trader
    validator = validator
    gold = gold
    oil = oil
    MaxBlockTime = 4
    OracleAccounts <- MCValidators
    OracleAdmin = admin
    OracleSettlement = admin
    OracleAssets = {gold}
    ClosingPrices = {95, 100}
    FeedPrices = {100, 102, 104}
    Targets = {1}
    Stakes = {1, 3}
    MinStake = 2
    SlashAmount = 2
    SubmissionWindow = 1
    UpdateInterval = 1
    RealtimeMaxDeviation = 200
    MinValidatorsOptions = {2}
    MaxDeviationOptions = {}
    MaxPrices = 3
    MaxValidators = 2
    Accounts <- MCAccounts
    Admin = admin
    SettlementContract = settler
    OracleContract = feeder
    Assets = {gold, oil}
    Prices = {0, 100, 103}
    Dates = {0}
    LeverageOptions = {0, 20, 51}
    FundingInterval = 2
    MaxMarkets = 2
    MaxI128 = 1048575
    MaxU512 = 1900000000
    Users <- MCUsers
    Collaterals = {0, 7, 209000}
    Leverages = {0, 3, 10, 11}
    EntryPrices = {0, 999}
    ExitPrices = {50, 100, 899, 900, 999, 1099}
    FundingRates <- MCFundingRates
    MaxPositions = 2
    MaxPayments = 2
INVARIANTS MedianResistsOutliers ValidatorsBacked FeedIsPaced FundingPaced LossBelowCollateral ZeroSum LongsFallAtLiquidationPrice
PROPERTIES SubmissionsStand ResultStands ClosedForGood
CHECK_DEADLOCK FALSE
