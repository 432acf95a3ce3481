CONSTANTS
    Req = {r1, r2}
    Exchange = {e1}
    Call = {c1, c2}
    MaxJunk = 1
SPECIFICATION FairSpec
INVARIANT NothingWithoutChild
PROPERTIES
    EveryRequestSettles
    WorkerEnds
CHECK_DEADLOCK FALSE
