\* Delete retires an object while Collect looks for hazard pointers.
CONSTANTS
    Clients = {c1, c2}
    Collectors = {g1}
    MaxNodes = 3
    Objects = {o1, o2}
    NULL = NULL
    SerialAcquire = TRUE
    SerialDelete = FALSE
SPECIFICATION Spec
\* After a failed assertion the process is gone.
CHECK_DEADLOCK FALSE
INVARIANT ProtectedStaysAllocated
