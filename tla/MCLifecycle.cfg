CONSTANTS
    consumer = consumer
    publisher = publisher
    Loops = {consumer, publisher}
    Callers = {consumer, publisher}
    NoLoop = NoLoop
    MaxRuns = 1
    MinErrorDelay = 1
    MaxErrorDelay = 1
    Order <- MCOrder
    Requests = {q1}
SPECIFICATION LifeSpec
INVARIANTS PoolOutlivesWork NothingCutOff
PROPERTY ShutdownDrains
CHECK_DEADLOCK FALSE
