--------------------------- MODULE AbstractRWLock ---------------------------
(***************************************************************************)
(* What fu_rw_lock promises its callers: any number of readers or one      *)
(* writer, and an upgrade that turns the only read lock into the write     *)
(* lock without a gap in which another thread could write.                 *)
(***************************************************************************)
CONSTANT Threads

VARIABLES
    readers,  \* threads with a read lock
    writers   \* threads with the write lock

vars == <<readers, writers>>

Init == readers = {} /\ writers = {}

AcquireRead(t) ==
    /\ writers = {} /\ t \notin readers
    /\ readers' = readers \cup {t}
    /\ UNCHANGED writers

ReleaseRead(t) ==
    /\ t \in readers
    /\ readers' = readers \ {t}
    /\ UNCHANGED writers

AcquireWrite(t) ==
    /\ readers = {} /\ writers = {}
    /\ writers' = {t}
    /\ UNCHANGED readers

ReleaseWrite(t) ==
    /\ writers = {t}
    /\ writers' = {}
    /\ UNCHANGED readers

Upgrade(t) ==
    /\ readers = {t} /\ writers = {}
    /\ readers' = {} /\ writers' = {t}

Next ==
    \E t \in Threads :
        \/ AcquireRead(t) \/ ReleaseRead(t)
        \/ AcquireWrite(t) \/ ReleaseWrite(t) \/ Upgrade(t)

Spec == Init /\ [][Next]_vars
=============================================================================
