SPECIFICATION Spec
CONSTANTS
    Sources = {s1}
    Connections = {g1, g2}
    s1 = s1
    g1 = g1
    g2 = g2
    NoConnection = NoConnection
    Patient = {s1}
INVARIANTS
    CleanupCompletes
