SPECIFICATION FairSpec
CONSTANTS
    Sources = {s1, s2}
    Connections = {g1, g2, g3}
    s1 = s1
    s2 = s2
    g1 = g1
    g2 = g2
    g3 = g3
    NoConnection = NoConnection
    Patient = {s1, s2}
INVARIANTS
    ReadyMeansRunning
    ClientClosedLast
PROPERTIES
    ClosedStaysClosed
    AcloseReturns
