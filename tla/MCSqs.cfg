CONSTANTS
    N = 4
    Group <- TwoGroups
    Id <- Resent
    Body <- Bodied
    Unreadable = {}
    Consumers = {c1, c2}
    None = None
    BatchSize = 2
    MaxReceive = 2
    MaxFaults = 1
SPECIFICATION Spec
SYMMETRY Symmetry
INVARIANTS
    HandledOnce
    NothingLost
    GroupOrder
