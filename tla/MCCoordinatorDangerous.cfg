CONSTANTS
    Starter = {s1}
    Continuer = {}
    Streamable = {s1}
    Key = {k1}
    Call = {c1}
    Undeclared = {}
    None = None
    MaxPending = 2
    QueueCap = 2
    MaxDeltas = 1
SPECIFICATION Spec
INVARIANT DangerousTurnsFail
CHECK_DEADLOCK FALSE
