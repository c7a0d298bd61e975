\* Readers and writers while two threads call Collect; Delete waits for it.
CONSTANTS
    Clients = {c1, c2}
    Collectors = {g1, g2}
    MaxNodes = 3
    Objects = {o1, o2}
    NULL = NULL
    SerialAcquire = TRUE
    SerialDelete = TRUE
SPECIFICATION Spec
SYMMETRY Symmetry
INVARIANTS
    TypeOK ProtectedStaysAllocated NeverFails ListsIntact NodeBoundOnce
    UnboundNodesInert NoObjectLost
PROPERTY ImplementsReclamation
