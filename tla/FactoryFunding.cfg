SPECIFICATION FactorySpec
CONSTANTS
    admin = admin
    settler = settler
    feeder = feeder
    trader = trader
    gold = gold
    oil = oil
    Accounts <- MCAccounts
    Admin = admin
    SettlementContract = settler
    OracleContract = feeder
    Assets = {gold, oil}
    Prices = {0, 100, 103}
    Dates = {0}
    LeverageOptions = {0, 20, 51}
    FundingInterval = 2
    MaxMarkets = 2
    MaxBlockTime = 3
PROPERTIES FundingFollowsPremium
CHECK_DEADLOCK FALSE
