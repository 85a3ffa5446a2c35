CONSTANTS
    Providers = {"p1"}
    Externals = {"e1", "e2", "e3", "e4", "e5"}
    Keys = {"k1", "k2", "k3", "k4", "k5"}
    Players = {"alice", "bob"}
    Currencies = {"BRL", "USD"}
    Rounds = {"r1"}
    NoRef = NoRef
    None = None
    Wallets <- OneWallet
    PlayerOf <- OneOwner
    CurrencyOf <- OneCurrency
    Opening <- Opening2
    MaxMoney = 4
    InitialDelay = 2
    MaxDelay = 4
    TTL = 3
    Requests <- WaitingRequests
    Command <- Waiting
    Workers = {"worker1", "worker2"}
    MaxClock = 5
    MaxAborts = 1
SPECIFICATION FairSpec
INVARIANTS
    NoLockCycle
    Serialised
PROPERTIES
    WaitsEnd
