SPECIFICATION Spec
CONSTANTS
    alice = alice
    operator = operator
    manager = manager
    settler = settler
    Users <- MCUsers
    Accounts <- MCAccounts
    Admin = operator
    PositionManager = manager
    SettlementContract = settler
    Amounts = {0, 1, 2}
    MaxU512 = 3
    MaxI128 = 2
PROPERTIES InsuranceFundCoversUnderwater
CHECK_DEADLOCK FALSE
