\* Two nodes to collect while the client uses a third, again and again.
CONSTANTS
    Clients = {c1}
    Collectors = {g1}
    MaxNodes = 3
    Objects = {o1, o2}
    NULL = NULL
    SerialAcquire = TRUE
    SerialDelete = TRUE
SPECIFICATION FairSpec
PROPERTIES RetiredEventuallyDeleted NonBlocking
