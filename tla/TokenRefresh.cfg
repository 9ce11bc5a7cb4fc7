SPECIFICATION Spec
CONSTANTS
    Callers = {c1, c2}
    Tasks = {t1}
    Locks = {l1}
    Keys = {service}
    AuthorizationCode = {}
    Refreshing = {service}
    c1 = c1
    c2 = c2
    l1 = l1
    service = service
    t1 = t1
    NoTask = NoTask
    NoLock = NoLock
    MaxAttempts = 1
    MaxIssued = 3
    AccessToken <- RepeatedTokens
SYMMETRY Symmetry
PROPERTIES
    StoreMovesForward
    ExpiresOnlyRejected
    ImplementsService
