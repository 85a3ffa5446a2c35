CONSTANTS
    Providers = {"p1"}
    Externals = {"e1", "e2", "e3", "e4", "e5", "e6", "e7", "e8"}
    Keys = {"k1", "k2", "k3", "k4", "k5", "k6", "k7", "k8"}
    Players = {"alice", "bob"}
    Currencies = {"BRL", "USD"}
    Rounds = {"r1"}
    NoRef = NoRef
    None = None
    Wallets <- OneWallet
    PlayerOf <- OneOwner
    CurrencyOf <- OneCurrency
    Opening <- Opening2
    MaxMoney = 4
    InitialDelay = 1
    MaxDelay = 2
    TTL = 2
    Requests <- SubmissionsRequests
    Command <- Submissions
    Workers = {}
    MaxClock = 3
    MaxAborts = 1
SPECIFICATION Spec
CONSTRAINT OneSubmissionScenario
INVARIANTS
    AppliedOnce
    RepliesKept
    LedgerInTimeOrder
