\* Three threads pop from the free list while nodes come back to it.
CONSTANTS
    Clients = {c1, c2, c3}
    Collectors = {}
    MaxNodes = 2
    Objects = {o1}
    NULL = NULL
    SerialAcquire = FALSE
    SerialDelete = TRUE
SPECIFICATION Spec
SYMMETRY Symmetry
CHECK_DEADLOCK FALSE
INVARIANT NodeBoundOnce
