SPECIFICATION SessionSpec
CONSTANTS
    a = a
    b = b
    None = None
    Users <- MCUsers
    Existing <- MCOne
    Mfa <- MCOne
    MaxSignIns = 1
    MaxLogouts = 1
    MaxPageCalls = 1
    MaxFaults = 1
    People <- MCUsers
    NoPerson = NoPerson
    PhoneTokens = {"t", "v"}
    NoToken = "none"
    MaxPushSignIns = 2
    MaxTokens = 3
    MaxPushFaults = 1
    MaxKills = 1
    MaxLinkTokens = 3
    MaxLinkFaults = 1
    Spendings = {"food"}
    Amounts = {1}
    Periods = {"monthly", "annual"}
    Options = {"1m", "1y"}
    Follows = {{"budgets"}, {"status"}, {"history"}, {"chart"}}
    MaxEvents = 2
INVARIANTS ClientsTypeOK  SpinnerHasCause ReturnsWithItsToken GoalsCurrent
PROPERTIES TokenReachesBackend ClientsSettle
CHECK_DEADLOCK FALSE
