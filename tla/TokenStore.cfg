SPECIFICATION Spec
CONSTANTS
    Callers = {c1, c2}
    Tasks = {t1, t2}
    Locks = {l1}
    Keys = {service}
    AuthorizationCode = {}
    Refreshing = {}
    c1 = c1
    c2 = c2
    l1 = l1
    service = service
    t1 = t1
    t2 = t2
    NoTask = NoTask
    NoLock = NoLock
    MaxAttempts = 1
    MaxIssued = 2
    AccessToken <- StaticTokens
SYMMETRY Symmetry
INVARIANTS
    NoRejectedLease
