CONSTANTS
    Starter = {s1}
    Continuer = {q1}
    Streamable = {s1, q1}
    Key = {k1}
    Call = {c1, c2}
    Undeclared = {c2}
    None = None
    MaxPending = 2
    QueueCap = 2
    MaxDeltas = 2
SPECIFICATION FairSpec
INVARIANTS
    StreamsWhole
PROPERTIES
    UnrelayedRequestsEnd
    EveryCallAnswered
CHECK_DEADLOCK FALSE
