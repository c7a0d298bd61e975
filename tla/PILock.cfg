\* Threads may die with the lock, and PI calls may report EINTR or EAGAIN.
CONSTANTS
    Threads = {t1, t2, t3, t4}
    NoTid = NoTid
SPECIFICATION FairSpec
INVARIANTS
    TypeOK
    MutualExclusion
    NoStrandedWaiter
    OwnerMayUnlock
    NeverFails
PROPERTIES
    OnlyOwnerReleases
    LockEventuallyAcquired
