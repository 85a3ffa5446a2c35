CONSTANTS
    Providers = {"p1"}
    Externals = {"e1", "e2", "e3", "e4", "e5", "e6", "e7", "e8"}
    Keys = {"k1", "k2", "k3", "k4", "k5", "k6", "k7", "k8"}
    Players = {"alice", "bob"}
    Currencies = {"BRL", "USD"}
    Rounds = {"r1"}
    NoRef = NoRef
    None = None
    Wallets <- TwoWallets
    PlayerOf <- TwoOwners
    CurrencyOf <- TwoCurrencies
    Opening <- Opening20
    MaxMoney = 4
    InitialDelay = 1
    MaxDelay = 2
    TTL = 4
    Requests <- ReferencesRequests
    Command <- References
    Workers = {"worker1"}
    MaxClock = 2
    MaxAborts = 0
SPECIFICATION Spec
CONSTRAINT OneReferenceScenario
INVARIANTS
    NoLostRace
    RowsLoadable
PROPERTIES
    ImplementsBook
