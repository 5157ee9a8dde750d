SPECIFICATION OracleSpec
CONSTANTS
    admin = admin
    validator = validator
    gold = gold
    OracleAccounts <- MCAccounts
    OracleAdmin = admin
    OracleSettlement = admin
    OracleAssets = {gold}
    ClosingPrices = {100, 104}
    FeedPrices = {100, 102, 104}
    Targets = {1}
    Stakes = {1, 3}
    MinStake = 2
    SlashAmount = 2
    SubmissionWindow = 1
    UpdateInterval = 1
    RealtimeMaxDeviation = 200
    MinValidatorsOptions = {2}
    MaxDeviationOptions = {300}
    MaxPrices = 3
    MaxBlockTime = 3
    MaxValidators = 2
INVARIANTS FinalizedFromSubmissions
CHECK_DEADLOCK FALSE
