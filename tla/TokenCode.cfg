SPECIFICATION Spec
CONSTANTS
    Callers = {c1}
    Tasks = {t1, t2}
    Locks = {l1, l2}
    Keys = {login1, login2}
    AuthorizationCode = {login1, login2}
    Refreshing = {login1}
    c1 = c1
    l1 = l1
    l2 = l2
    login1 = login1
    login2 = login2
    t1 = t1
    t2 = t2
    NoTask = NoTask
    NoLock = NoLock
    MaxAttempts = 1
    MaxIssued = 1
    AccessToken <- FreshTokens
SYMMETRY Symmetry
INVARIANTS
    GrantOnce
    GrantHistoryBounded
