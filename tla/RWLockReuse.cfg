\* A fu_read_modifiable_lock is locked again after unlock().
CONSTANTS
    Threads = {t1, t2}
    Interrupts = FALSE
    FreshLocks = FALSE
SPECIFICATION Spec
INVARIANT MutualExclusion
