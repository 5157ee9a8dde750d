SPECIFICATION PositionSpec
CONSTANTS
    alice = alice
    bob = bob
    MaxI128 = 1048575
    MaxU512 = 1900000000
    Users <- MCUsers
    Collaterals = {7}
    Leverages = {10}
    EntryPrices = {999}
    ExitPrices = {899, 999, 1099}
    FundingRates <- MCFundingRates
    MaxPositions = 1
    MaxPayments = 1
INVARIANTS CloseIncludesFunding
CHECK_DEADLOCK FALSE
