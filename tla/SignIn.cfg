SPECIFICATION SignInSpec
CONSTANTS
    MaxTime = 4
    Caller = {c1, c2}
    Rate = 1
    Burst = 2
    Cost = 2
    IdleUntilFull = 2
    NoBucket = NoBucket
    Account = {a1, a2}
    Limit = 2
    Lockout = 2
    NoRecord = NoRecord
    Proc = {p1, p2}
    NoLogin = NoLogin
SYMMETRY Interchangeable
INVARIANT WithinRate
INVARIANT GuessBudget
PROPERTY ImplementsTokenBucket
PROPERTY ImplementsLockout
CHECK_DEADLOCK FALSE
