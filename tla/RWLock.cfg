\* All three lock classes, signals, three threads.
CONSTANTS
    Threads = {t1, t2, t3}
    Interrupts = TRUE
    FreshLocks = TRUE
SPECIFICATION FairSpec
INVARIANTS
    TypeOK MutualExclusion ReadersCounted NoLostGateWakeup NoLostWriterWakeup
    NeverAborts UpgradeExcludesWriters
PROPERTIES
    ImplementsAbstract WriterEventuallyAdmitted GateEventuallyPassed
