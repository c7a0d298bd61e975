\* Delete pushes on the gc list while Collect removes its head.
CONSTANTS
    Clients = {c1}
    Collectors = {g1}
    MaxNodes = 2
    Objects = {o1, o2}
    NULL = NULL
    SerialAcquire = TRUE
    SerialDelete = FALSE
SPECIFICATION Spec
\* After a failed assertion the process is gone.
CHECK_DEADLOCK FALSE
INVARIANT ListsIntact
