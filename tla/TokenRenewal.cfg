SPECIFICATION Spec
CONSTANTS
    Callers = {c1, c2}
    Tasks = {t1, t2}
    Locks = {l1, l2}
    Keys = {service}
    AuthorizationCode = {}
    Refreshing = {service}
    c1 = c1
    c2 = c2
    l1 = l1
    l2 = l2
    service = service
    t1 = t1
    t2 = t2
    NoTask = NoTask
    NoLock = NoLock
    MaxAttempts = 1
    MaxIssued = 1
    AccessToken <- FreshTokens
SYMMETRY Symmetry
INVARIANTS
    TypeOK
    MutualExclusion
    SingleFlight
    NoOrphan
    PersistenceProtected
PROPERTIES
    CancelledOnlyIfAsked
