CONSTANTS
    Starter = {s1}
    Continuer = {q1, q2}
    Streamable = {q1}
    Key = {k1, k2}
    Call = {c1, c2, c3}
    Undeclared = {c3}
    None = None
    MaxPending = 2
    QueueCap = 1
    MaxDeltas = 0
SYMMETRY Symmetry
SPECIFICATION Spec
INVARIANTS
    TypeOK
    NoSignalMissed
    AnswersAreOwn
    SessionsHaveOwners
    PlainTurnsFail
PROPERTY AnsweredOnce
CHECK_DEADLOCK FALSE
