SPECIFICATION FairSpec
CONSTANTS
    Frames <- SampleFrames
    FirstId = id1
    NoId = NoId
    EmptyId = EmptyId
    BaseRetry = 1
    ConfiguredMax = 0
    Floor = 4
    Huge = 155
    MaxFrames = 3
    MaxFailures = 6
INVARIANTS
    TypeOK
    ResumesAfterLastId
    DeadlineOfThisConnection
    DelayBounded
    RecoversOnce
PROPERTIES
    BackoffEscalates
    AcloseSettles
CHECK_DEADLOCK FALSE
