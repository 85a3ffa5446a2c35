CONSTANTS
    Loops = {l1}
    Callers = {c1, c2, c3}
    NoLoop = NoLoop
    MaxRuns = 2
    MinErrorDelay = 1
    MaxErrorDelay = 3
SPECIFICATION FairSpec
INVARIANTS WorkOutlivesStop OneLateStep SecondRunIsStopped
PROPERTIES StopReturns LoopGoesOn
CHECK_DEADLOCK FALSE
