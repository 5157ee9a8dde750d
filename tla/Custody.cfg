SPECIFICATION CustodySpec
CONSTANTS
    alice = alice
    bob = bob
    operator = operator
    manager = manager
    settler = settler
    Users <- MCUsers
    Accounts <- MCAccounts
    Admin = operator
    PositionManager = manager
    SettlementContract = settler
    Amounts = {0, 1, 2}
    MaxU512 = 3
    MaxI128 = 2
    MaxBlockTime = 3
    Providers <- MCPair
    LpAmounts = {1, 2}
    Results <- MCResults
    MinLiquidity = 2
    WithdrawalDelay = 1
    MaxPool = 5
    MaxTokens = 6
    MaxBooked = 3
    MaxRequests = 2
    Voters <- MCPair
    StakeAmounts = {1, 2}
    LockPeriods = {0, 2}
    Day = 1
    VotingDelay = 1
    VotingPeriod = 1
    MinStake = 2
    TotalSupply = 30
    MaxStaked = 4
    MaxProposals = 1
    MaxVotes = 6
    Farmers <- MCPair
    FarmAdmin = operator
    FarmAmounts = {0, 1, 2}
    RewardRates = {5}
    StartTimes = {0, 1}
    Precision = 10
    MaxFarmed = 3
    MaxChanges = 4
    MaxCreations = 2
INVARIANTS TypesOK LedgerBalanced CollateralBacked TotalsAddUp WithdrawalsHonoured DecisionsStand RewardsBacked
PROPERTIES LedgerSpec NobodyDiluted RewardsNeverLost
CHECK_DEADLOCK FALSE
