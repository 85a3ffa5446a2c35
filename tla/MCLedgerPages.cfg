CONSTANTS
    Readers = {r1}
    Ids = {1, 2, 3, 4}
    MaxStamp = 3
    MaxBalance = 1
    Limits = {0, 1, 2, 3}
    MaxLimit = 2
    None = None
SPECIFICATION FairSpec
INVARIANTS WalkComplete WalkDescends NoFalseAlarm
PROPERTY WalksEnd
