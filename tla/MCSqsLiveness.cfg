CONSTANTS
    N = 2
    Group <- OneGroup
    Id <- Distinct
    Body <- Distinct
    Unreadable = {2}
    Consumers = {c1, c2}
    None = None
    BatchSize = 2
    MaxReceive = 3
    MaxFaults = 2
SPECIFICATION FairSpec
PROPERTIES
    MessagesLeave
