SPECIFICATION AccountSpec
CONSTANTS
    Tried <- TriedSwitches
    MaxSettingsMoves = 2
    MaxUnanswered = 1
    MaxSecrets = 2
    MaxPresses = 5
    MaxElsewhere = 1
    MaxMfaFaults = 1
    SessionRows = {"s"}
    HouseholdRows = {"m", "i"}
    MaxOpenings = 2
    MaxConfirms = 2
    MaxListFaults = 1
    MaxElsewhereRows = 1
    MaxHouseholdPresses = 2
    MaxHouseholdFaults = 1
    MaxHouseholdElsewhere = 1
    People = {"ann", "bob"}
    MaxSignIns = 2
    MaxSignOuts = 1
    MaxCalls = 2
    MaxReloads = 1
    MaxPortalFaults = 1
    Tickets = {"t"}
    Technical = {"t"}
    Me = "me"
    Colleague = "colleague"
    MaxSupportWrites = 2
    MaxWritesElsewhere = 1
    MaxDeskReads = 1
    MaxPageReads = 2
    MaxSupportFaults = 1
INVARIANTS AccountTypeOK   ListedIsStored HouseholdIsStored DashboardNeedsSession NobodyForgotten
PROPERTIES AccountPagesSettle
CHECK_DEADLOCK FALSE
