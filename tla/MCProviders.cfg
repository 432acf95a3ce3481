CONSTANTS
    Provider = {p1, p2}
    Update = {u1, u2}
    Prober = {h1}
    Rev = {r1, r2}
    Disabled = {r2}
    Key = {k1, k2}
    Absent = Absent
SYMMETRY Symmetry
SPECIFICATION Spec
INVARIANTS
    TypeOK
    ServedIsStored
    UpdatesAtomic
    StaleOnlyByOverlap
CHECK_DEADLOCK FALSE
