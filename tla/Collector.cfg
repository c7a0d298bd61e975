\* Two lists that come and go, two registrations, and every way to stop.
CONSTANTS
    Clients = {c1, c2}
    Objects = {o1}
    NULL = NULL
    IdModulus = 3
    WrapIds = FALSE
SPECIFICATION FairSpec
INVARIANTS
    TypeOK
    CollectedListsAlive
    NeverAsserts
    NoLostSignal
    ThreadEndsFirst
PROPERTIES
    RetiredEventuallyCollected
    DeregisterReturns
    StopEndsThread
