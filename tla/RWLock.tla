------------------------------- MODULE RWLock -------------------------------
(***************************************************************************)
(* futex_rw_control (bdrwlock.cpp) with the lock classes that wrap it      *)
(* (bdrwlock.h) and the futex calls it makes (bdfutex.cpp).  Every atomic  *)
(* access of the code to gate or nreaders is one step, so threads          *)
(* interleave between any two of them.  A thread parked in the kernel by   *)
(* FUTEX_WAIT is a thread whose pc is "eg_parked" (on gate) or             *)
(* "wl_parked" (on nreaders); FUTEX_WAKE picks any of them.                *)
(***************************************************************************)
EXTENDS Integers, FiniteSets

CONSTANTS
    Threads,     \* the threads sharing one fu_rw_lock
    Interrupts,  \* TRUE if signals may interrupt FUTEX_WAIT (EINTR)
    FreshLocks   \* TRUE if every lock()..unlock() of a
                 \* fu_read_modifiable_lock uses a new instance of the class

ASSUME ThreadsAssumption == IsFiniteSet(Threads)
ASSUME FlagsAssumption == Interrupts \in BOOLEAN /\ FreshLocks \in BOOLEAN

VARIABLES
    gate,           \* int gate: 0 unlocked, 1 locked, 2 locked contended
    nreaders,       \* int nreaders: readers, less one when a writer counts
    pc,             \* next atomic access of each thread
    op,             \* futex_rw_control method the thread is executing
    lk,             \* lock class through which the thread is working
    expected,       \* local of enter_gate
    val_nreaders,   \* local of write_lock and of the modify methods
    write_modified, \* member of the thread's fu_read_modifiable_lock
    control         \* "live", "destroyed", or "aborted" (assert, abort())

words == <<gate, nreaders>>
locals == <<expected, val_nreaders>>
instance == <<lk, write_modified>>
vars == <<words, pc, op, instance, locals, control>>

Labels == {"idle", "held_read", "held_write",
           "eg_try", "eg_mark", "eg_wait", "eg_parked", "eg_retry",
           "lg_sub", "lg_store", "lg_wake", "rl_inc", "ru_dec", "ru_wake",
           "wl_dec", "wl_wait", "wl_parked", "wl_load", "wu_store",
           "tw_try", "tw_dec", "wm_dec", "wm_wake"}

Methods == {"none", "read_lock", "read_unlock", "write_lock", "write_unlock",
            "try_write_modify", "write_modify"}

Classes == {"none", "fu_read_lock", "fu_write_lock", "fu_read_modifiable_lock"}

\* Type invariant.  Its ranges are those the code comments on: gate "can only
\* be" 0, 1 or 2 (enter_gate), and nreaders never falls below -1 (read_unlock).
TypeOK ==
    /\ gate \in 0..2
    /\ nreaders \in -1..Cardinality(Threads)
    /\ pc \in [Threads -> Labels]
    /\ op \in [Threads -> Methods]
    /\ lk \in [Threads -> Classes]
    /\ expected \in [Threads -> 0..2]
    /\ val_nreaders \in [Threads -> 0..Cardinality(Threads)]
    /\ write_modified \in [Threads -> BOOLEAN]
    /\ control \in {"live", "destroyed", "aborted"}

Init ==
    /\ gate = 0 /\ nreaders = 0
    /\ pc = [t \in Threads |-> "idle"]
    /\ op = [t \in Threads |-> "none"]
    /\ lk = [t \in Threads |-> "none"]
    /\ expected = [t \in Threads |-> 0]
    /\ val_nreaders = [t \in Threads |-> 0]
    /\ write_modified = [t \in Threads |-> FALSE]
    /\ control = "live"

-----------------------------------------------------------------------------
(* Control transfer.                                                        *)

Goto(t, label) == pc' = [pc EXCEPT ![t] = label]
Step(t, from, to) == pc[t] = from /\ Goto(t, to)

\* Call of a futex_rw_control method: its first atomic access is at label.
Call(t, method, label) == op' = [op EXCEPT ![t] = method] /\ Goto(t, label)

\* Return from lock(), try_write_modify() or write_modify(): the caller is
\* in its critical section, which it believes to be of the given kind.
ReturnHolding(t, held) == Call(t, "none", held)

\* The thread is through enter_gate: where the calling method goes on.
AfterGate(t) == IF op[t] = "read_lock" THEN "rl_inc" ELSE "wl_dec"

\* Mutant: nobody is woken.
MutFutexWake(t, parked, woken, label) == Goto(t, label)

\* futex_wake(uaddr, 1): wakes one of the threads parked on the word, which
\* then continues at woken, or none; the caller continues at label.
FutexWake(t, parked, woken, label) ==
    LET sleepers == {w \in Threads : pc[w] = parked}
    IN  IF sleepers = {}
        THEN Goto(t, label)
        ELSE \E w \in sleepers : pc' = [pc EXCEPT ![t] = label, ![w] = woken]

\* FUTEX_WAIT interrupted by a signal: futex_wait swallows EINTR.
FutexInterrupt(t) ==
    /\ Interrupts
    /\ Step(t, "eg_parked", "eg_retry") \/ Step(t, "wl_parked", "wl_load")
    /\ UNCHANGED <<words, op, instance, locals, control>>

-----------------------------------------------------------------------------
(* The lock classes: lock() and unlock() and the two modify calls.          *)

\* lock() of the three classes; none of them looks at write_modified.
Lock(t) ==
    /\ pc[t] = "idle"
    /\ \E class \in Classes \ {"none"} :
           /\ lk' = [lk EXCEPT ![t] = class]
           /\ Call(t, IF class = "fu_write_lock" THEN "write_lock"
                                                 ELSE "read_lock", "eg_try")
    /\ UNCHANGED <<words, locals, write_modified, control>>

\* Mutant: unlock() forgets the write_modified flag.
MutUnlocksAsWriter(t) == lk[t] = "fu_write_lock"

\* unlock() of the three classes; only the modifiable one looks at its flag.
UnlocksAsWriter(t) ==
    \/ lk[t] = "fu_write_lock"
    \/ lk[t] = "fu_read_modifiable_lock" /\ write_modified[t]

Unlock(t) ==
    /\ pc[t] \in {"held_read", "held_write"}
    /\ IF UnlocksAsWriter(t) THEN Call(t, "write_unlock", "wu_store")
                             ELSE Call(t, "read_unlock", "ru_dec")
    /\ UNCHANGED <<words, instance, locals, control>>

\* fu_read_modifiable_lock::try_write_modify by a caller with a read lock:
\* returns true at once when the instance is marked as modified already.
TryWriteModify(t) ==
    /\ pc[t] = "held_read" /\ lk[t] = "fu_read_modifiable_lock"
    /\ IF write_modified[t] THEN ReturnHolding(t, "held_write")
                            ELSE Call(t, "try_write_modify", "tw_try")
    /\ UNCHANGED <<words, instance, locals, control>>

\* fu_read_modifiable_lock::write_modify by a caller with a read lock (with a
\* write lock it deadlocks: rule 5 of bdrwlock.h).
WriteModify(t) ==
    /\ pc[t] = "held_read" /\ lk[t] = "fu_read_modifiable_lock"
    /\ Call(t, "write_modify", "wm_dec")
    /\ UNCHANGED <<words, instance, locals, control>>

\* unlock() has returned.  The instance is kept for the next lock(), or the
\* next one is made by make_modifiable_lock() with write_modified = false.
Done(t) ==
    /\ op' = [op EXCEPT ![t] = "none"]
    /\ lk' = [lk EXCEPT ![t] = "none"]
    /\ write_modified' =
           [write_modified EXCEPT ![t] = IF FreshLocks THEN FALSE ELSE @]

-----------------------------------------------------------------------------
(* enter_gate                                                               *)

\* Compare-exchange 0 -> desired; a failure stores gate in expected.
EnterGateCas(t, from, desired) ==
    /\ pc[t] = from
    /\ \/ /\ gate = 0
          /\ gate' = desired
          /\ Goto(t, AfterGate(t))
          /\ UNCHANGED expected
       \/ /\ gate # 0
          /\ expected' = [expected EXCEPT ![t] = gate]
          /\ Goto(t, "eg_mark")
          /\ UNCHANGED gate
    /\ UNCHANGED <<nreaders, op, instance, val_nreaders, control>>

EnterGateTry(t) == EnterGateCas(t, "eg_try", 1)

\* "expected == 2 ||" compare-exchange expected -> 2; a failure overwrites
\* expected, which the code then resets to 0.
EnterGateMark(t) ==
    /\ pc[t] = "eg_mark"
    /\ \/ expected[t] = 2 /\ Goto(t, "eg_wait") /\ UNCHANGED gate
       \/ /\ expected[t] # 2 /\ gate = expected[t]
          /\ gate' = 2
          /\ Goto(t, "eg_wait")
       \/ /\ expected[t] # 2 /\ gate # expected[t]
          /\ Goto(t, "eg_retry")
          /\ UNCHANGED gate
    /\ expected' = [expected EXCEPT ![t] = 0]
    /\ UNCHANGED <<nreaders, op, instance, val_nreaders, control>>

\* futex_wait(gate, 2): parks if the word still holds 2, else EAGAIN.
EnterGateWait(t) ==
    /\ Step(t, "eg_wait", IF gate = 2 THEN "eg_parked" ELSE "eg_retry")
    /\ UNCHANGED <<words, op, instance, locals, control>>

\* Mutant: the loop takes the gate as if it were uncontended.
MutEnterGateRetry(t) == EnterGateCas(t, "eg_retry", 1)

\* The loop's condition.
EnterGateRetry(t) == EnterGateCas(t, "eg_retry", 2)

-----------------------------------------------------------------------------
(* leave_gate, the last thing read_lock and write_unlock do.                *)

\* Return from leave_gate and from the method that called it.
LeftGate(t) ==
    IF op[t] = "read_lock"
    THEN op' = [op EXCEPT ![t] = "none"] /\ UNCHANGED instance
    ELSE Done(t)

AfterLeave(t) == IF op[t] = "read_lock" THEN "held_read" ELSE "idle"

\* fetch_sub; only a result of 1 means that nobody waits.
LeaveGateSub(t) ==
    /\ pc[t] = "lg_sub"
    /\ gate' = gate - 1
    /\ \/ gate # 1 /\ Goto(t, "lg_store") /\ UNCHANGED <<op, instance>>
       \/ gate = 1 /\ Goto(t, AfterLeave(t)) /\ LeftGate(t)
    /\ UNCHANGED <<nreaders, locals, control>>

LeaveGateStore(t) ==
    /\ Step(t, "lg_store", "lg_wake")
    /\ gate' = 0
    /\ UNCHANGED <<nreaders, op, instance, locals, control>>

LeaveGateWake(t) ==
    /\ pc[t] = "lg_wake"
    /\ FutexWake(t, "eg_parked", "eg_retry", AfterLeave(t))
    /\ LeftGate(t)
    /\ UNCHANGED <<words, locals, control>>

-----------------------------------------------------------------------------
(* read_lock and read_unlock                                                *)

ReadLockInc(t) ==
    /\ Step(t, "rl_inc", "lg_sub")
    /\ nreaders' = nreaders + 1
    /\ UNCHANGED <<gate, op, instance, locals, control>>

\* Mutant: one reader is taken for none.
MutReadersRemain(count) == count > 0

\* What a count of readers, less one for the writer, says to a writer and to
\* a reader that leaves.
ReadersRemain(count) == count >= 0

\* sub_fetch; a negative result wakes the writer and must be exactly -1.
ReadUnlockDec(t) ==
    /\ pc[t] = "ru_dec"
    /\ nreaders' = nreaders - 1
    /\ \/ ReadersRemain(nreaders') /\ Goto(t, "idle") /\ Done(t)
       \/ /\ ~ReadersRemain(nreaders')
          /\ Goto(t, "ru_wake")
          /\ UNCHANGED <<op, instance>>
    /\ control' = IF nreaders' < -1 THEN "aborted" ELSE control
    /\ UNCHANGED <<gate, locals>>

ReadUnlockWake(t) ==
    /\ pc[t] = "ru_wake"
    /\ FutexWake(t, "wl_parked", "wl_load", "idle")
    /\ Done(t)
    /\ UNCHANGED <<words, locals, control>>

-----------------------------------------------------------------------------
(* write_lock, and the part of the modify methods that is the same code.    *)

\* The write lock is held: the method returns, and a modify method's caller
\* records it in write_modified.
WriterAdmitted(t) ==
    /\ ReturnHolding(t, "held_write")
    /\ write_modified' =
           IF op[t] = "write_lock" THEN write_modified
                                   ELSE [write_modified EXCEPT ![t] = TRUE]

\* The writer counts itself, or is back from futex_wait and reads the count:
\* it waits while there are readers.
WriteLockDec(t) ==
    /\ pc[t] = "wl_dec"
    /\ nreaders' = nreaders - 1
    /\ \/ /\ ReadersRemain(nreaders')
          /\ val_nreaders' = [val_nreaders EXCEPT ![t] = nreaders']
          /\ Goto(t, "wl_wait")
          /\ UNCHANGED <<op, write_modified>>
       \/ /\ ~ReadersRemain(nreaders')
          /\ WriterAdmitted(t)
          /\ UNCHANGED val_nreaders
    /\ UNCHANGED <<gate, lk, expected, control>>

\* futex_wait(&nreaders, val_nreaders): parks if the count has not moved.
WriteLockWait(t) ==
    /\ Step(t, "wl_wait",
            IF nreaders = val_nreaders[t] THEN "wl_parked" ELSE "wl_load")
    /\ UNCHANGED <<words, op, instance, locals, control>>

WriteLockLoad(t) ==
    /\ pc[t] = "wl_load"
    /\ \/ /\ ReadersRemain(nreaders)
          /\ val_nreaders' = [val_nreaders EXCEPT ![t] = nreaders]
          /\ Goto(t, "wl_wait")
          /\ UNCHANGED <<op, write_modified>>
       \/ /\ ~ReadersRemain(nreaders)
          /\ val_nreaders' = [val_nreaders EXCEPT ![t] = 0]
          /\ WriterAdmitted(t)
    /\ UNCHANGED <<words, lk, expected, control>>

WriteUnlockStore(t) ==
    /\ Step(t, "wu_store", "lg_sub")
    /\ nreaders' = 0
    /\ UNCHANGED <<gate, op, instance, locals, control>>

-----------------------------------------------------------------------------
(* try_write_modify and write_modify                                        *)

\* try_enter_gate; on failure the caller still has its read lock.
TryWriteModifyTry(t) ==
    /\ pc[t] = "tw_try"
    /\ \/ gate = 0 /\ gate' = 1 /\ Goto(t, "tw_dec") /\ UNCHANGED op
       \/ gate # 0 /\ ReturnHolding(t, "held_read") /\ UNCHANGED gate
    /\ UNCHANGED <<nreaders, instance, locals, control>>

\* The thread stops counting as a reader; its result is not looked at.
TryWriteModifyDec(t) ==
    /\ Step(t, "tw_dec", "wl_dec")
    /\ nreaders' = nreaders - 1
    /\ UNCHANGED <<gate, op, instance, locals, control>>

\* The read lock is given up before the gate is entered.
WriteModifyDec(t) ==
    /\ pc[t] = "wm_dec"
    /\ nreaders' = nreaders - 1
    /\ Goto(t, IF ReadersRemain(nreaders') THEN "eg_try" ELSE "wm_wake")
    /\ UNCHANGED <<gate, op, instance, locals, control>>

WriteModifyWake(t) ==
    /\ pc[t] = "wm_wake"
    /\ FutexWake(t, "wl_parked", "wl_load", "eg_try")
    /\ UNCHANGED <<words, op, instance, locals, control>>

-----------------------------------------------------------------------------
\* ~futex_rw_control, once no thread is in a call or in a critical section.
Destroy ==
    /\ \A t \in Threads : pc[t] = "idle"
    /\ IF nreaders # 0 \/ gate # 0
       THEN control' = "aborted" /\ UNCHANGED gate
       ELSE control' = "destroyed" /\ gate' = 1
    /\ UNCHANGED <<nreaders, pc, op, instance, locals>>

\* What the caller of the library decides to do.
ClientStep(t) == Lock(t) \/ TryWriteModify(t) \/ WriteModify(t)

\* The steps of the library's code.
LibraryStep(t) ==
    \/ EnterGateTry(t) \/ EnterGateMark(t) \/ EnterGateWait(t)
    \/ EnterGateRetry(t)
    \/ LeaveGateSub(t) \/ LeaveGateStore(t) \/ LeaveGateWake(t)
    \/ ReadLockInc(t) \/ ReadUnlockDec(t) \/ ReadUnlockWake(t)
    \/ WriteLockDec(t) \/ WriteLockWait(t) \/ WriteLockLoad(t)
    \/ WriteUnlockStore(t)
    \/ TryWriteModifyTry(t) \/ TryWriteModifyDec(t)
    \/ WriteModifyDec(t) \/ WriteModifyWake(t)

\* The process is gone (abort) or the lock is: nothing more happens.
Terminated == control # "live" /\ UNCHANGED vars

Next ==
    \/ /\ control = "live"
       /\ \/ \E t \in Threads : ClientStep(t) \/ Unlock(t) \/ LibraryStep(t)
                                    \/ FutexInterrupt(t)
          \/ Destroy
    \/ Terminated

Spec == Init /\ [][Next]_vars

\* A runnable thread is eventually scheduled, and a caller that has a lock
\* eventually unlocks it.  Nothing makes a caller lock or a signal arrive.
Fairness ==
    \A t \in Threads :
        /\ WF_vars(control = "live" /\ LibraryStep(t))
        /\ SF_vars(control = "live" /\ Unlock(t))

FairSpec == Spec /\ Fairness
-----------------------------------------------------------------------------
(* Who holds what.                                                          *)

\* Threads counted in nreaders as readers.
Readers ==
    {t \in Threads :
        \/ pc[t] \in {"held_read", "ru_dec", "tw_try", "tw_dec", "wm_dec"}
        \/ pc[t] \in {"lg_sub", "lg_store", "lg_wake"} /\ op[t] = "read_lock"}

\* Threads that have given their read lock for the write lock they wait for.
Upgrading ==
    {t \in Threads : /\ op[t] = "try_write_modify"
                     /\ pc[t] \in {"wl_dec", "wl_wait", "wl_parked", "wl_load"}}

\* Threads counted in nreaders as the writer, waiting or admitted.
Writers ==
    {t \in Threads :
        pc[t] \in {"wl_wait", "wl_parked", "wl_load", "held_write", "wu_store"}}

\* Threads with the write lock, until they start to give it back.
Admitted == {t \in Threads : pc[t] \in {"held_write", "wu_store"}}

\* Threads that have entered the gate and not left it.
GateHolders ==
    {t \in Threads :
        pc[t] \in {"rl_inc", "lg_sub", "lg_store", "wl_dec", "wl_wait",
                   "wl_parked", "wl_load", "held_write", "wu_store", "tw_dec"}}

-----------------------------------------------------------------------------
(* Properties.                                                              *)

\* A thread whose lock() on a fu_write_lock, or whose try_write_modify() or
\* write_modify(), has succeeded is alone: no other thread is in a read or in
\* a write critical section ("On success, it is safe to proceeed with the
\* write operation", bdrwlock.h:94).
MutualExclusion ==
    \A t, u \in Threads :
        pc[t] = "held_write" /\ t # u
            => pc[u] \notin {"held_read", "held_write"}

\* nreaders counts exactly: every thread between read_lock's increment and the
\* matching decrement once, less one for a writer that has passed the gate.
ReadersCounted == nreaders = Cardinality(Readers) - Cardinality(Writers)

\* No lost wake-up on gate: while a thread sleeps in enter_gate, either the
\* word says so (2), or some thread is about to store and wake, or an awake
\* thread is still in the loop that leaves the word at 2.
NoLostGateWakeup ==
    (\E t \in Threads : pc[t] = "eg_parked") =>
        \/ gate = 2
        \/ \E u \in Threads : pc[u] \in {"lg_store", "lg_wake", "eg_mark",
                                         "eg_wait", "eg_retry"}

\* No lost wake-up on nreaders: a writer sleeps only while readers remain, or
\* the last of them is about to wake it.
NoLostWriterWakeup ==
    \A t \in Threads :
        pc[t] = "wl_parked" =>
            \/ nreaders >= 0
            \/ \E u \in Threads : pc[u] \in {"ru_wake", "wm_wake"}

\* The assertion in read_unlock never fails, and the destructor, run when no
\* thread uses the lock, finds it as the constructor left it.
NeverAborts == control # "aborted"

\* From the moment try_write_modify has the gate until it returns, and all the
\* time before that as a reader, no other thread has the write lock: what the
\* caller read under its read lock is still true when it writes.
UpgradeExcludesWriters ==
    \A t \in Readers \cup Upgrading : Admitted \subseteq {t}

\* A writer that has passed the gate (one at a time can) is admitted once the
\* readers it found have left: later readers cannot keep it out.
WriterEventuallyAdmitted ==
    (\E t \in Threads :
         pc[t] \in {"wl_dec", "wl_wait", "wl_parked", "wl_load"})
        ~> \E t \in Threads : pc[t] = "held_write"

\* While threads stand at the gate, somebody is inside it or gets inside: the
\* gate does not stay open in front of sleepers.
GateEventuallyPassed ==
    (\E t \in Threads : pc[t] \in {"eg_try", "eg_mark", "eg_wait", "eg_parked",
                                   "eg_retry"})
        ~> GateHolders # {}

\* The lock implements the atomic reader-writer lock with upgrade.
Abstract == INSTANCE AbstractRWLock
    WITH readers <- Readers \cup Upgrading, writers <- Admitted
ImplementsAbstract == Abstract!Spec
=============================================================================
