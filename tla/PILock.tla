------------------------------- MODULE PILock -------------------------------
(***************************************************************************)
(* fu_lock (bdlock.cpp) on the priority-inheritance futex calls of         *)
(* bdfutex.cpp.  The kernel's half of the protocol is external and is      *)
(* modelled from the way the code uses it: the futex word holds the        *)
(* owner's thread id and the bits FUTEX_WAITERS and FUTEX_OWNER_DIED, and  *)
(* whoever waits is queued in the order of arrival (equal priorities).     *)
(***************************************************************************)
EXTENDS Integers, SequencesExt

CONSTANTS
    Threads,  \* the threads sharing one fu_lock
    NoTid     \* the thread id 0 of a free lock

ASSUME NoTidAssumption == NoTid \notin Threads

VARIABLES
    gate,    \* the futex word: owner's id and the two bits
    queue,   \* threads blocked in FUTEX_LOCK_PI, the next owner first
    pc,      \* next access of each thread
    aborted, \* TRUE once futex_critical_error has run
    retried  \* history: TRUE once a PI call has let EINTR or EAGAIN pass

vars == <<gate, queue, pc, aborted, retried>>

Word(tid, waiters, died) ==
    [tid |-> tid, waiters |-> waiters, died |-> died]

Free == Word(NoTid, FALSE, FALSE)

Labels == {"idle", "lk_cas", "lk_sys", "lk_blocked", "held", "ul_cas",
           "ul_sys", "thrown", "dead"}

\* Type invariant.  A word without an owner is 0, so that the exchange in
\* futex_lock_pi finds a lock that is free.
TypeOK ==
    /\ gate \in [tid : Threads \cup {NoTid}, waiters : BOOLEAN, died : BOOLEAN]
    /\ gate.tid = NoTid => gate = Free
    /\ pc \in [Threads -> Labels]
    /\ queue \in Seq(Threads)
    /\ {aborted, retried} \subseteq BOOLEAN

Init ==
    /\ gate = Free /\ queue = <<>>
    /\ pc = [t \in Threads |-> "idle"]
    /\ aborted = FALSE /\ retried = FALSE

Goto(t, label) == pc' = [pc EXCEPT ![t] = label]
Step(t, from, to) == pc[t] = from /\ Goto(t, to)

\* The kernel gives the lock to the first in the queue, whose FUTEX_LOCK_PI
\* then returns 0; t goes on at label.
HandOver(t, label, died) ==
    /\ queue # <<>>
    /\ gate' = Word(Head(queue), TRUE, died)
    /\ queue' = Tail(queue)
    /\ pc' = [pc EXCEPT ![t] = label, ![Head(queue)] = "held"]

-----------------------------------------------------------------------------
\* A caller enters lock().
CallLock(t) ==
    /\ Step(t, "idle", "lk_cas")
    /\ UNCHANGED <<gate, queue, aborted, retried>>

\* Mutant: a lock whose owner died is there for the taking.
MutUnlocked == gate = Free \/ gate.died

Unlocked == gate = Free

\* futex_lock_pi: compare-exchange 0 -> tid.
LockExchange(t) ==
    /\ \/ /\ Step(t, "lk_cas", "held")
          /\ Unlocked
          /\ gate' = Word(t, FALSE, FALSE)
       \/ Step(t, "lk_cas", "lk_sys") /\ ~Unlocked /\ UNCHANGED gate
    /\ UNCHANGED <<queue, aborted, retried>>

\* FUTEX_LOCK_PI: takes a free lock, or queues behind a live owner; the id of
\* a dead one (ESRCH) or the caller's own (EDEADLK) is a critical error.
LockSyscall(t) ==
    /\ pc[t] = "lk_sys"
    /\ \/ /\ gate.tid = NoTid
          /\ gate' = Word(t, FALSE, FALSE)
          /\ Goto(t, "held")
          /\ UNCHANGED <<queue, aborted, retried>>
       \/ /\ gate.tid # NoTid
          /\ gate.tid # t /\ pc[gate.tid] # "dead"
          /\ gate' = Word(gate.tid, TRUE, gate.died)
          /\ queue' = Append(queue, t)
          /\ Goto(t, "lk_blocked")
          /\ UNCHANGED aborted
       \/ /\ gate.tid # NoTid
          /\ gate.tid = t \/ pc[gate.tid] = "dead"
          /\ aborted' = TRUE
          /\ UNCHANGED <<gate, queue, pc>>
    /\ UNCHANGED retried

\* FUTEX_LOCK_PI fails with EINTR or EAGAIN: futex_lock_pi returns 0, "check
\* and possibly try again", and lock() returns to its caller all the same.
LockRetry(t) ==
    /\ \/ Step(t, "lk_sys", "held") /\ UNCHANGED queue
       \/ /\ Step(t, "lk_blocked", "held")
          /\ \E i \in 1..Len(queue) :
                 queue[i] = t /\ queue' = RemoveAt(queue, i)
    /\ retried' = TRUE
    /\ UNCHANGED <<gate, aborted>>

\* A caller enters unlock().
CallUnlock(t) ==
    /\ Step(t, "held", "ul_cas")
    /\ UNCHANGED <<gate, queue, aborted, retried>>

\* Mutant: unlock just clears the word.
MutOwned(t) == TRUE

\* The word is the thread's id, which makes the exchange succeed.
Owned(t) == gate = Word(t, FALSE, FALSE)

\* Mutant: FUTEX_WAITERS is not masked out.
MutOwnedContended(t) == FALSE

\* The word without FUTEX_WAITERS is the thread's id.
OwnedContended(t) == gate = Word(t, TRUE, FALSE)

\* Mutant: the exchange leaves FUTEX_WAITERS in the word.
MutDesired == Word(NoTid, TRUE, FALSE)

\* What the exchange stores.
desired == Free

\* futex_unlock_pi: compare-exchange tid -> 0; a word that is neither makes
\* unlock() throw.
UnlockExchange(t) ==
    /\ pc[t] = "ul_cas"
    /\ \/ Owned(t) /\ gate' = desired /\ Goto(t, "idle")
       \/ ~Owned(t) /\ OwnedContended(t) /\ Goto(t, "ul_sys") /\ UNCHANGED gate
       \/ /\ ~Owned(t) /\ ~OwnedContended(t)
          /\ Goto(t, "thrown")
          /\ UNCHANGED gate
    /\ UNCHANGED <<queue, aborted, retried>>

\* FUTEX_UNLOCK_PI by the owner.
UnlockSyscall(t) ==
    /\ pc[t] = "ul_sys"
    /\ \/ HandOver(t, "idle", FALSE)
       \/ queue = <<>> /\ gate' = Free /\ Goto(t, "idle") /\ UNCHANGED queue
    /\ UNCHANGED <<aborted, retried>>

\* FUTEX_UNLOCK_PI fails with EINTR or EAGAIN: unlock() returns as if it had
\* succeeded.
UnlockRetry(t) ==
    /\ Step(t, "ul_sys", "idle")
    /\ retried' = TRUE
    /\ UNCHANGED <<gate, queue, aborted>>

\* A thread ends while it has the lock; the kernel passes a contended lock on
\* and marks the word, an uncontended one keeps the dead thread's id.
Die(t) ==
    /\ pc[t] = "held"
    /\ \/ gate.tid = t /\ HandOver(t, "dead", TRUE)
       \/ /\ gate.tid # t \/ queue = <<>>
          /\ Goto(t, "dead")
          /\ UNCHANGED <<gate, queue>>
    /\ UNCHANGED <<aborted, retried>>

-----------------------------------------------------------------------------
\* The steps of the library's code and of the kernel on its behalf.
LibraryStep(t) ==
    LockExchange(t) \/ LockSyscall(t) \/ UnlockExchange(t) \/ UnlockSyscall(t)

\* The process is gone, or every thread has ended, thrown or waits for one
\* that has.
Stopped ==
    /\ \/ aborted
       \/ \A t \in Threads : pc[t] \in {"dead", "thrown", "lk_blocked"}
    /\ UNCHANGED vars

Next ==
    \/ /\ ~aborted
       /\ \E t \in Threads :
              \/ CallLock(t) \/ CallUnlock(t) \/ LibraryStep(t)
              \/ LockRetry(t) \/ UnlockRetry(t) \/ Die(t)
    \/ Stopped

Spec == Init /\ [][Next]_vars

\* A runnable thread is eventually scheduled, and whoever has the lock
\* eventually unlocks it.  Nothing makes a caller lock.
FairSpec ==
    /\ Spec
    /\ \A t \in Threads : /\ WF_vars(~aborted /\ LibraryStep(t))
                          /\ WF_vars(~aborted /\ CallUnlock(t))

-----------------------------------------------------------------------------
\* Threads to which lock() has returned and unlock() has not.
Holders == {t \in Threads : pc[t] \in {"held", "ul_cas", "ul_sys"}}

\* The lock is a mutex, also when threads die holding it: lock() has returned
\* to one thread at most, unless it returned on EINTR or EAGAIN.
MutualExclusion == ~retried => \A t, u \in Holders : t = u

\* While somebody sleeps in lock(), the word names an owner and says that there
\* are waiters.  Unless a PI call has failed, or the lock came to its owner by a
\* death, that owner has yet to call unlock() or to die, and either goes through
\* the kernel, which passes the lock on.  (After a death the owner's unlock()
\* throws, and the waiters are stranded: see OwnerMayUnlock.)
NoStrandedWaiter ==
    queue # <<>> =>
        /\ gate.tid \in Threads /\ gate.waiters
        /\ ~retried /\ ~gate.died => gate.tid \in Holders

\* unlock() throws "unlock attempted without prior locking" (bdlock.cpp:44) to
\* the thread that has the lock only if the lock came to it by a death: whoever
\* queues meanwhile, and whatever the PI calls report to others.
OwnerMayUnlock ==
    \A t \in Threads : pc[t] = "thrown" /\ gate.tid = t => gate.died

\* Only the owner's own unlock() or death takes the lock from it, whatever the
\* PI calls report: a thread that came back from lock() without the lock cannot
\* release it under its owner, and a dead owner nobody waited for keeps it.
OnlyOwnerReleases ==
    [][\A t \in Threads :
          gate.tid = t /\ gate'.tid # t
              => pc[t] \in {"held", "ul_cas", "ul_sys"} /\ pc'[t] # pc[t]]_vars

\* As long as nobody dies and no PI call fails, locking and unlocking raises no
\* error.
NeverFails ==
    ~retried /\ (\A t \in Threads : pc[t] # "dead") =>
        ~aborted /\ \A t \in Threads : pc[t] # "thrown"

\* Every call of lock() gets the lock, as long as nobody dies and no PI call
\* fails: the queue makes the lock fair.
LockEventuallyAcquired ==
    \A t \in Threads :
        pc[t] = "lk_cas" ~> \/ pc[t] = "held"
                            \/ retried
                            \/ \E u \in Threads : pc[u] = "dead"
=============================================================================
