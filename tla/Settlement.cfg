SPECIFICATION Spec
CONSTANTS
    operator = operator
    other = other
    gold = gold
    housing = housing
    Accounts <- MCAccounts
    Admin = operator
    SettlementContract = operator
    Assets = {gold, housing}
    Prices = {1}
    Dates = {3}
    Targets = {3, 6}
    Day = 3
    MinGap = 2
    Genesis = 3
    MaxBlockTime = 6
    MaxMarkets = 4
    MaxBatch = 2
INVARIANTS TypeOK BatchesSpaced AssetKeepsTrading
CHECK_DEADLOCK FALSE
