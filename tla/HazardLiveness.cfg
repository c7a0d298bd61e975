\* As HazardSerial, with memory for two nodes.
CONSTANTS
    Clients = {c1, c2}
    Collectors = {g1}
    MaxNodes = 2
    Objects = {o1, o2}
    NULL = NULL
    SerialAcquire = TRUE
    SerialDelete = TRUE
SPECIFICATION FairSpec
PROPERTY RetiredEventuallyDeleted
