CONSTANTS
    Handler = {h1, h2}
    Token = {t1, t2}
    Installed = t1
    Session = {s1, s2}
    Key = {k1, k2}
    Field = {"limit"}
    Value = {v0, v1}
    Initial = v0
SPECIFICATION Spec
SYMMETRY Symmetry
INVARIANTS
    OneAdministrator
    WritesStay
