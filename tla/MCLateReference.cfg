CONSTANTS
    Providers = {"p1"}
    Externals = {"e1", "e2", "e3", "e4", "e5"}
    Keys = {"k1", "k2", "k3", "k4", "k5"}
    Players = {"alice", "bob"}
    Currencies = {"BRL", "USD"}
    Rounds = {"r1"}
    NoRef = NoRef
    None = None
    Wallets <- OneWallet
    PlayerOf <- OneOwner
    CurrencyOf <- OneCurrency
    Opening <- Opening2
    MaxMoney = 4
    InitialDelay = 1
    MaxDelay = 2
    TTL = 2
    Requests <- WaitingRequests
    Command <- Waiting
    Workers = {"worker1"}
    MaxClock = 5
    MaxAborts = 0
SPECIFICATION Spec
INVARIANTS
    NotFoundMeansNotProcessed
