CONSTANTS
    Handler = {h1}
    Version = {v1, v2}
    Installed = v1
    Codex = {v1, v2}
    CodexOf <- OwnCodex
    Credential = {c1, c2}
    LoggedIn = c1
    MaxStops = 1
SPECIFICATION Spec
SYMMETRY Symmetry
VIEW View
INVARIANTS
    TypeOK
    OneVersion
    RunningHasRunner
    ImportAllOrNothing
    ServicesComeBack
