CONSTANTS
    Starter = {s1}
    Continuer = {q1}
    Streamable = {}
    Key = {k1}
    Call = {c1, c2}
    Undeclared = {}
    None = None
    MaxPending = 2
    QueueCap = 1
    MaxDeltas = 0
SPECIFICATION Spec
INVARIANT ToolResponsesNameCalls
CHECK_DEADLOCK FALSE
