CONSTANTS
    Calls <- AllCalls
    Request <- AllRequests
    Mixes <- Scenarios
    None = None
    Malformed = {"garbled"}
    Invalid = {"negative"}
    Mismatched = {"foreign"}
    Referring = {"refund"}
    MaxAttempts = 2
    MaxFaults = 2
SPECIFICATION FairSpec
INVARIANTS
    AnswersTrue
    ReplayFlagTrue
    RefusalsStoreNothing
    ConflictsReal
PROPERTIES
    ClientsAreAnswered
CHECK_DEADLOCK FALSE
