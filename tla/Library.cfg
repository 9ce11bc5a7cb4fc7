SPECIFICATION Spec
CONSTANTS
    Calls = {c1, c2}
    Codes = {k1, k2}
    Scopes = {s1}
    c1 = c1
    c2 = c2
    k1 = k1
    k2 = k2
    s1 = s1
    Requests <- SampleRequests
    Documents <- SampleDocuments
    MaxCodes = 1
    MaxTime = 3
    Times = {1, 2}
    Lifetimes = {0, 2}
    MaxText = 5
    MaxChunk = 2
    PathTokens <- SampleTokens
    Operations <- SampleOperations
    Answers <- SampleAnswers
    Optional = {"cbor"}
    MaxAdapters = 1
    Contracts <- SampleContracts
    Wallets <- SampleWallets
    Selections <- SampleSelections
    MaxClients = 2
SYMMETRY Symmetry
INVARIANTS
    CodePresentedOnce
    ConsumedBounded
    ExchangeVerified
    EventsOfWholeText
    NegotiatedDecodes
    BodyMatchesContentType
    ParametersArrive
    CredentialsIsolated
CHECK_DEADLOCK FALSE
