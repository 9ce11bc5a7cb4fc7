SPECIFICATION Spec
CONSTANTS
    Callers = {r1, r2}
    r1 = r1
    r2 = r2
    Keys = {bearer, apiKey}
    Bearer = bearer
    ApiKey = apiKey
    bearer = bearer
    apiKey = apiKey
    Alternatives <- SampleAlternatives
    MaxIssued <- SampleBounds
    AccessToken <- SampleTokens
SYMMETRY Symmetry
INVARIANTS
    TypeOK
    ReplayAvoidsRejected
    AtMostOneReplay
    AllOrNothing
    ResponseAccounted
PROPERTIES
    ReplayNotRefused
CHECK_DEADLOCK FALSE
