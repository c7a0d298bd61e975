\* Posters, waiters and pollers in any mix, signals, an empty semaphore.
CONSTANTS
    Threads = {t1, t2, t3, t4}
    Interrupts = TRUE
    InitialState = FALSE
SPECIFICATION FairSpec
INVARIANTS
    TypeOK
    NoLostWakeup
PROPERTY ImplementsEventFlag
