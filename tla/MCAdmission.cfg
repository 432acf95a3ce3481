CONSTANTS
    r1 = r1  r2 = r2  r3 = r3
    Req = {r1, r2, r3}
    Key = {k1}
    Routes = {"plain", "stream"}
    Policies <- TwoPolicies
    Unlimited = Unlimited
    GlobalConcurrency = 2
    RpmWindow = 1
    DayLength = 1
    LastTick = 1
    MaxTokens = 1
    DbMayFail = TRUE
SYMMETRY ReqSymmetry
SPECIFICATION Spec
INVARIANTS
    TypeOK
    LeaseAccounting
    GlobalConcurrencyHonoured
    KeyConcurrencyHonoured
    RequestBudgetHonoured
    DailyLimitHonoured
    TokenOverrunBounded
    LeaseReturned
    NoRowLeftInProgress
PROPERTIES
    SettledRowsFinal
    PoolRefined
CHECK_DEADLOCK FALSE
