SPECIFICATION PagesSpec
CONSTANTS
    Entries <- Links
    SameOrigin = FALSE
    MaxLoads = 1
    MaxFaults = 1
    Linked = {"a"}
    NewAccounts = {"n"}
    AccountLimit = 2
    MaxSubmits = 2
    MaxLostReplies = 1
    Threads = {"t", "u", "d"}
    Digests = {"d"}
    Recent = 8
    MaxExchanges = 2
    MaxMoves = 2
    Txns = {1, 2}
    Posted = {1, 2}
    Categories = {"food", "rent"}
    Views = {"all", "food"}
    PageSize = 1
    MaxPage = 2
    MaxAsks = 2
    MaxTurns = 1
INVARIANTS PagesTypeOK  RowsCurrent
PROPERTIES RedirectsSettle  InviteKept  LinkedWillShow AnswersFollowQuestions PagesSettle
CHECK_DEADLOCK FALSE
