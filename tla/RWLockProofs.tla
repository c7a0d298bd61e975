---------------------------- MODULE RWLockProofs ----------------------------
(***************************************************************************)
(* Proofs about RWLock, for any finite set of threads that lock a new      *)
(* fu_read_modifiable_lock each time (FreshLocks).                         *)
(***************************************************************************)
EXTENDS RWLock, FiniteSetTheorems, TLAPS

\* The groups of variables, and the operators that several actions share.
USE DEF words, locals, instance, Step, Call, EnterGateCas, ReadersRemain

-----------------------------------------------------------------------------
(* The inductive invariant.                                                 *)

\* Types of the variables, without the ranges that TypeOK gives.
Typed ==
    /\ gate \in Int
    /\ nreaders \in Int
    /\ pc \in [Threads -> Labels]
    /\ op \in [Threads -> Methods]
    /\ lk \in [Threads -> Classes]
    /\ expected \in [Threads -> Int]
    /\ val_nreaders \in [Threads -> Int]
    /\ write_modified \in [Threads -> BOOLEAN]
    /\ control \in {"live", "destroyed", "aborted"}

\* The method a thread executes is one that contains its next access.
MethodOf(t) ==
    /\ pc[t] \in {"idle", "held_read", "held_write"} => op[t] = "none"
    /\ pc[t] \in {"eg_try", "eg_mark", "eg_wait", "eg_parked", "eg_retry"}
          => op[t] \in {"read_lock", "write_lock", "write_modify"}
    /\ pc[t] = "rl_inc" => op[t] = "read_lock"
    /\ pc[t] \in {"lg_sub", "lg_store", "lg_wake"}
          => op[t] \in {"read_lock", "write_unlock"}
    /\ pc[t] \in {"wl_dec", "wl_wait", "wl_parked", "wl_load"}
          => op[t] \in {"write_lock", "write_modify", "try_write_modify"}
    /\ pc[t] \in {"tw_try", "tw_dec"} => op[t] = "try_write_modify"
    /\ pc[t] \in {"wm_dec", "wm_wake"} => op[t] = "write_modify"
    /\ pc[t] = "wu_store" => op[t] = "write_unlock"
    /\ pc[t] \in {"ru_dec", "ru_wake"} => op[t] = "read_unlock"

\* unlock() undoes what was locked: the class and the flag agree with it.
ClassOf(t) ==
    /\ op[t] \in {"read_lock", "try_write_modify", "write_modify"}
             \/ pc[t] = "held_read"
          => ~UnlocksAsWriter(t)
    /\ op[t] = "write_lock" => lk[t] = "fu_write_lock"
    /\ op[t] \in {"try_write_modify", "write_modify"}
          => lk[t] = "fu_read_modifiable_lock"
    /\ pc[t] = "held_write" => UnlocksAsWriter(t)
    /\ pc[t] = "idle" => ~write_modified[t]

Locals == \A t \in Threads : MethodOf(t) /\ ClassOf(t)

\* enter_gate never sleeps on the strength of an open gate.
ExpectedRange ==
    \A t \in Threads : /\ expected[t] \in 0..2
                       /\ pc[t] = "eg_mark" => expected[t] # 0

\* The gate is a mutex, and its word is 0 exactly when nobody is inside.
GateExclusive ==
    /\ gate \in 0..2
    /\ \A t, u \in GateHolders : t = u
    /\ \A t \in GateHolders : gate # 0
    /\ control = "live" /\ gate # 0 => GateHolders # {}

\* An admitted writer has seen the count reach -1, and it stays there.
AdmittedAlone == \A t \in Admitted : nreaders = -1

\* A writer reads a count of readers into val_nreaders.
ValRange == \A t \in Threads : val_nreaders[t] \in 0..Cardinality(Threads)

Inv ==
    /\ Typed
    /\ Locals
    /\ ExpectedRange
    /\ GateExclusive
    /\ ReadersCounted
    /\ AdmittedAlone
    /\ ValRange
    /\ NeverAborts

-----------------------------------------------------------------------------
(* Types and thread-local facts.                                            *)

\* What the return from unlock() leaves behind.
LEMMA DoneFrame ==
    ASSUME write_modified \in [Threads -> BOOLEAN],
           NEW t \in Threads, Done(t)
    PROVE  /\ op' = [op EXCEPT ![t] = "none"]
           /\ lk' = [lk EXCEPT ![t] = "none"]
           /\ write_modified' \in [Threads -> BOOLEAN]
<1> DEFINE flag == IF FreshLocks THEN FALSE ELSE write_modified[t]
<1>1. flag \in BOOLEAN
    OBVIOUS
<1>2. write_modified' = [write_modified EXCEPT ![t] = flag]
    BY DEF Done
<1> HIDE DEF flag
<1>3. write_modified' \in [Threads -> BOOLEAN]
    BY <1>1, <1>2
<1>4. QED
    BY <1>3 DEF Done

\* Every step keeps the types.
LEMMA TypedStep ==
    ASSUME Typed, [Next]_vars
    PROVE  Typed'
<1> USE DEF Typed, Labels, Methods, Classes
<1>1. ASSUME NEW t \in Threads, Lock(t)
      PROVE  Typed'
    BY <1>1 DEF Lock, Call, Goto
<1>2. ASSUME NEW t \in Threads, TryWriteModify(t)
      PROVE  Typed'
    BY <1>2 DEF TryWriteModify, Call, Goto, ReturnHolding
<1>3. ASSUME NEW t \in Threads, WriteModify(t)
      PROVE  Typed'
    BY <1>3 DEF WriteModify, Call, Goto
<1>4. ASSUME NEW t \in Threads, Unlock(t)
      PROVE  Typed'
    BY <1>4 DEF Unlock, Call, Goto, UnlocksAsWriter
<1>5. ASSUME NEW t \in Threads, EnterGateTry(t)
      PROVE  Typed'
    BY <1>5 DEF EnterGateTry, Goto, AfterGate
<1>6. ASSUME NEW t \in Threads, EnterGateMark(t)
      PROVE  Typed'
    BY <1>6 DEF EnterGateMark, Goto
<1>7. ASSUME NEW t \in Threads, EnterGateWait(t)
      PROVE  Typed'
    BY <1>7 DEF EnterGateWait, Goto
<1>8. ASSUME NEW t \in Threads, EnterGateRetry(t)
      PROVE  Typed'
    BY <1>8 DEF EnterGateRetry, Goto, AfterGate
<1>9. ASSUME NEW t \in Threads, LeaveGateSub(t)
      PROVE  Typed'
    BY <1>9, DoneFrame DEF LeaveGateSub, Goto, AfterLeave, LeftGate
<1>10. ASSUME NEW t \in Threads, LeaveGateStore(t)
      PROVE  Typed'
    BY <1>10 DEF LeaveGateStore, Goto
<1>11. ASSUME NEW t \in Threads, LeaveGateWake(t)
      PROVE  Typed'
    BY <1>11, DoneFrame
    DEF LeaveGateWake, FutexWake, Goto, AfterLeave, LeftGate
<1>12. ASSUME NEW t \in Threads, ReadLockInc(t)
      PROVE  Typed'
    BY <1>12 DEF ReadLockInc, Goto
<1>13. ASSUME NEW t \in Threads, ReadUnlockDec(t)
      PROVE  Typed'
    BY <1>13, DoneFrame DEF ReadUnlockDec, Goto
<1>14. ASSUME NEW t \in Threads, ReadUnlockWake(t)
      PROVE  Typed'
    BY <1>14, DoneFrame DEF ReadUnlockWake, FutexWake, Goto
<1>15. ASSUME NEW t \in Threads, WriteLockDec(t)
      PROVE  Typed'
  <2> USE <1>15 DEF WriteLockDec, Goto, WriterAdmitted, ReturnHolding
  <2>1. nreaders' \in Int
    OBVIOUS
  <2>2. pc' \in [Threads -> Labels] /\ op' \in [Threads -> Methods]
    OBVIOUS
  <2>3. val_nreaders' \in [Threads -> Int]
    BY <2>1
  <2>4. write_modified' \in [Threads -> BOOLEAN]
    OBVIOUS
  <2>5. QED
    BY <2>1, <2>2, <2>3, <2>4
<1>16. ASSUME NEW t \in Threads, WriteLockWait(t)
      PROVE  Typed'
    BY <1>16 DEF WriteLockWait, Goto
<1>17. ASSUME NEW t \in Threads, WriteLockLoad(t)
      PROVE  Typed'
  <2> USE <1>17 DEF WriteLockLoad, Goto, WriterAdmitted, ReturnHolding
  <2>1. nreaders' \in Int
    OBVIOUS
  <2>2. pc' \in [Threads -> Labels] /\ op' \in [Threads -> Methods]
    OBVIOUS
  <2>3. val_nreaders' \in [Threads -> Int]
    BY <2>1
  <2>4. write_modified' \in [Threads -> BOOLEAN]
    OBVIOUS
  <2>5. QED
    BY <2>1, <2>2, <2>3, <2>4
<1>18. ASSUME NEW t \in Threads, WriteUnlockStore(t)
      PROVE  Typed'
    BY <1>18 DEF WriteUnlockStore, Goto
<1>19. ASSUME NEW t \in Threads, TryWriteModifyTry(t)
      PROVE  Typed'
    BY <1>19 DEF TryWriteModifyTry, Goto, ReturnHolding
<1>20. ASSUME NEW t \in Threads, TryWriteModifyDec(t)
      PROVE  Typed'
    BY <1>20 DEF TryWriteModifyDec, Goto
<1>21. ASSUME NEW t \in Threads, WriteModifyDec(t)
      PROVE  Typed'
    BY <1>21 DEF WriteModifyDec, Goto
<1>22. ASSUME NEW t \in Threads, WriteModifyWake(t)
      PROVE  Typed'
    BY <1>22 DEF WriteModifyWake, FutexWake, Goto
<1>23. ASSUME NEW t \in Threads, FutexInterrupt(t)
      PROVE  Typed'
    BY <1>23 DEF FutexInterrupt, Goto
<1>24. ASSUME Destroy
      PROVE  Typed'
    BY <1>24 DEF Destroy
<1>25. CASE UNCHANGED vars
    BY <1>25 DEF vars
<1>26. QED
    BY <1>1, <1>2, <1>3, <1>4, <1>5, <1>6, <1>7, <1>8, <1>9,
       <1>10, <1>11, <1>12, <1>13, <1>14, <1>15, <1>16, <1>17, <1>18, <1>19,
       <1>20, <1>21, <1>22, <1>23, <1>24, <1>25
    DEF Next, ClientStep, LibraryStep, Terminated

\* Every step keeps method, class and flag of each thread in agreement.
LEMMA LocalsStep ==
    ASSUME FreshLocks, Typed, Locals, [Next]_vars
    PROVE  Locals'
<1> USE DEF Typed, Locals, MethodOf, ClassOf, UnlocksAsWriter
<1>1. ASSUME NEW t \in Threads, Lock(t)
      PROVE  Locals'
    BY <1>1 DEF Lock, Call, Goto
<1>2. ASSUME NEW t \in Threads, TryWriteModify(t)
      PROVE  Locals'
    BY <1>2 DEF TryWriteModify, Call, Goto, ReturnHolding
<1>3. ASSUME NEW t \in Threads, WriteModify(t)
      PROVE  Locals'
    BY <1>3 DEF WriteModify, Call, Goto
<1>4. ASSUME NEW t \in Threads, Unlock(t)
      PROVE  Locals'
    BY <1>4 DEF Unlock, Call, Goto, UnlocksAsWriter
<1>5. ASSUME NEW t \in Threads, EnterGateTry(t)
      PROVE  Locals'
    BY <1>5 DEF EnterGateTry, Goto, AfterGate
<1>6. ASSUME NEW t \in Threads, EnterGateMark(t)
      PROVE  Locals'
    BY <1>6 DEF EnterGateMark, Goto
<1>7. ASSUME NEW t \in Threads, EnterGateWait(t)
      PROVE  Locals'
    BY <1>7 DEF EnterGateWait, Goto
<1>8. ASSUME NEW t \in Threads, EnterGateRetry(t)
      PROVE  Locals'
    BY <1>8 DEF EnterGateRetry, Goto, AfterGate
<1>9. ASSUME NEW t \in Threads, LeaveGateSub(t)
      PROVE  Locals'
    BY <1>9 DEF LeaveGateSub, Goto, AfterLeave, LeftGate, Done
<1>10. ASSUME NEW t \in Threads, LeaveGateStore(t)
      PROVE  Locals'
    BY <1>10 DEF LeaveGateStore, Goto
<1>11. ASSUME NEW t \in Threads, LeaveGateWake(t)
      PROVE  Locals'
    BY <1>11 DEF LeaveGateWake, FutexWake, Goto, AfterLeave, LeftGate, Done
<1>12. ASSUME NEW t \in Threads, ReadLockInc(t)
      PROVE  Locals'
    BY <1>12 DEF ReadLockInc, Goto
<1>13. ASSUME NEW t \in Threads, ReadUnlockDec(t)
      PROVE  Locals'
    BY <1>13 DEF ReadUnlockDec, Goto, Done
<1>14. ASSUME NEW t \in Threads, ReadUnlockWake(t)
      PROVE  Locals'
    BY <1>14 DEF ReadUnlockWake, FutexWake, Goto, Done
<1>15. ASSUME NEW t \in Threads, WriteLockDec(t)
      PROVE  Locals'
    BY <1>15 DEF WriteLockDec, Goto, WriterAdmitted, ReturnHolding
<1>16. ASSUME NEW t \in Threads, WriteLockWait(t)
      PROVE  Locals'
    BY <1>16 DEF WriteLockWait, Goto
<1>17. ASSUME NEW t \in Threads, WriteLockLoad(t)
      PROVE  Locals'
    BY <1>17 DEF WriteLockLoad, Goto, WriterAdmitted, ReturnHolding
<1>18. ASSUME NEW t \in Threads, WriteUnlockStore(t)
      PROVE  Locals'
    BY <1>18 DEF WriteUnlockStore, Goto
<1>19. ASSUME NEW t \in Threads, TryWriteModifyTry(t)
      PROVE  Locals'
    BY <1>19 DEF TryWriteModifyTry, Goto, ReturnHolding
<1>20. ASSUME NEW t \in Threads, TryWriteModifyDec(t)
      PROVE  Locals'
    BY <1>20 DEF TryWriteModifyDec, Goto
<1>21. ASSUME NEW t \in Threads, WriteModifyDec(t)
      PROVE  Locals'
    BY <1>21 DEF WriteModifyDec, Goto
<1>22. ASSUME NEW t \in Threads, WriteModifyWake(t)
      PROVE  Locals'
    BY <1>22 DEF WriteModifyWake, FutexWake, Goto
<1>23. ASSUME NEW t \in Threads, FutexInterrupt(t)
      PROVE  Locals'
    BY <1>23 DEF FutexInterrupt, Goto
<1>24. ASSUME Destroy
      PROVE  Locals'
    BY <1>24 DEF Destroy
<1>25. CASE UNCHANGED vars
    BY <1>25 DEF vars
<1>26. QED
    BY <1>1, <1>2, <1>3, <1>4, <1>5, <1>6, <1>7, <1>8, <1>9,
       <1>10, <1>11, <1>12, <1>13, <1>14, <1>15, <1>16, <1>17, <1>18, <1>19,
       <1>20, <1>21, <1>22, <1>23, <1>24, <1>25
    DEF Next, ClientStep, LibraryStep, Terminated

\* Every step keeps expected a value of an occupied gate where it is used.
LEMMA ExpectedStep ==
    ASSUME Typed, ExpectedRange, GateExclusive, [Next]_vars
    PROVE  ExpectedRange'
<1> USE DEF Typed, ExpectedRange, GateExclusive
<1>1. ASSUME NEW t \in Threads, Lock(t)
      PROVE  ExpectedRange'
    BY <1>1 DEF Lock, Call, Goto
<1>2. ASSUME NEW t \in Threads, TryWriteModify(t)
      PROVE  ExpectedRange'
    BY <1>2 DEF TryWriteModify, Call, Goto, ReturnHolding
<1>3. ASSUME NEW t \in Threads, WriteModify(t)
      PROVE  ExpectedRange'
    BY <1>3 DEF WriteModify, Call, Goto
<1>4. ASSUME NEW t \in Threads, Unlock(t)
      PROVE  ExpectedRange'
    BY <1>4 DEF Unlock, Call, Goto, UnlocksAsWriter
<1>5. ASSUME NEW t \in Threads, EnterGateTry(t)
      PROVE  ExpectedRange'
    BY <1>5 DEF EnterGateTry, Goto, AfterGate
<1>6. ASSUME NEW t \in Threads, EnterGateMark(t)
      PROVE  ExpectedRange'
    BY <1>6 DEF EnterGateMark, Goto
<1>7. ASSUME NEW t \in Threads, EnterGateWait(t)
      PROVE  ExpectedRange'
    BY <1>7 DEF EnterGateWait, Goto
<1>8. ASSUME NEW t \in Threads, EnterGateRetry(t)
      PROVE  ExpectedRange'
    BY <1>8 DEF EnterGateRetry, Goto, AfterGate
<1>9. ASSUME NEW t \in Threads, LeaveGateSub(t)
      PROVE  ExpectedRange'
    BY <1>9, DoneFrame DEF LeaveGateSub, Goto, AfterLeave, LeftGate
<1>10. ASSUME NEW t \in Threads, LeaveGateStore(t)
      PROVE  ExpectedRange'
    BY <1>10 DEF LeaveGateStore, Goto
<1>11. ASSUME NEW t \in Threads, LeaveGateWake(t)
      PROVE  ExpectedRange'
    BY <1>11, DoneFrame
    DEF LeaveGateWake, FutexWake, Goto, AfterLeave, LeftGate
<1>12. ASSUME NEW t \in Threads, ReadLockInc(t)
      PROVE  ExpectedRange'
    BY <1>12 DEF ReadLockInc, Goto
<1>13. ASSUME NEW t \in Threads, ReadUnlockDec(t)
      PROVE  ExpectedRange'
    BY <1>13, DoneFrame DEF ReadUnlockDec, Goto
<1>14. ASSUME NEW t \in Threads, ReadUnlockWake(t)
      PROVE  ExpectedRange'
    BY <1>14, DoneFrame DEF ReadUnlockWake, FutexWake, Goto
<1>15. ASSUME NEW t \in Threads, WriteLockDec(t)
      PROVE  ExpectedRange'
    BY <1>15 DEF WriteLockDec, Goto, WriterAdmitted, ReturnHolding
<1>16. ASSUME NEW t \in Threads, WriteLockWait(t)
      PROVE  ExpectedRange'
    BY <1>16 DEF WriteLockWait, Goto
<1>17. ASSUME NEW t \in Threads, WriteLockLoad(t)
      PROVE  ExpectedRange'
    BY <1>17 DEF WriteLockLoad, Goto, WriterAdmitted, ReturnHolding
<1>18. ASSUME NEW t \in Threads, WriteUnlockStore(t)
      PROVE  ExpectedRange'
    BY <1>18 DEF WriteUnlockStore, Goto
<1>19. ASSUME NEW t \in Threads, TryWriteModifyTry(t)
      PROVE  ExpectedRange'
    BY <1>19 DEF TryWriteModifyTry, Goto, ReturnHolding
<1>20. ASSUME NEW t \in Threads, TryWriteModifyDec(t)
      PROVE  ExpectedRange'
    BY <1>20 DEF TryWriteModifyDec, Goto
<1>21. ASSUME NEW t \in Threads, WriteModifyDec(t)
      PROVE  ExpectedRange'
    BY <1>21 DEF WriteModifyDec, Goto
<1>22. ASSUME NEW t \in Threads, WriteModifyWake(t)
      PROVE  ExpectedRange'
    BY <1>22 DEF WriteModifyWake, FutexWake, Goto
<1>23. ASSUME NEW t \in Threads, FutexInterrupt(t)
      PROVE  ExpectedRange'
    BY <1>23 DEF FutexInterrupt, Goto
<1>24. ASSUME Destroy
      PROVE  ExpectedRange'
    BY <1>24 DEF Destroy
<1>25. CASE UNCHANGED vars
    BY <1>25 DEF vars
<1>26. QED
    BY <1>1, <1>2, <1>3, <1>4, <1>5, <1>6, <1>7, <1>8, <1>9,
       <1>10, <1>11, <1>12, <1>13, <1>14, <1>15, <1>16, <1>17, <1>18, <1>19,
       <1>20, <1>21, <1>22, <1>23, <1>24, <1>25
    DEF Next, ClientStep, LibraryStep, Terminated

-----------------------------------------------------------------------------
(* The gate.                                                                *)

\* Every step keeps the gate a mutex.
LEMMA GateStep ==
    ASSUME Typed, Locals, ExpectedRange, GateExclusive, control = "live",
           [Next]_vars
    PROVE  GateExclusive'
<1> USE DEF Typed, Locals, MethodOf, ExpectedRange, GateExclusive, GateHolders
<1>1. ASSUME NEW t \in Threads, Lock(t)
      PROVE  GateExclusive'
    BY <1>1 DEF Lock, Call, Goto
<1>2. ASSUME NEW t \in Threads, TryWriteModify(t)
      PROVE  GateExclusive'
    BY <1>2
    DEF TryWriteModify, Call, Goto, ReturnHolding, ClassOf, UnlocksAsWriter
<1>3. ASSUME NEW t \in Threads, WriteModify(t)
      PROVE  GateExclusive'
    BY <1>3 DEF WriteModify, Call, Goto
<1>4. ASSUME NEW t \in Threads, Unlock(t)
      PROVE  GateExclusive'
    BY <1>4 DEF Unlock, Call, Goto, UnlocksAsWriter, ClassOf
<1>5. ASSUME NEW t \in Threads, EnterGateTry(t)
      PROVE  GateExclusive'
    BY <1>5 DEF EnterGateTry, Goto, AfterGate
<1>6. ASSUME NEW t \in Threads, EnterGateMark(t)
      PROVE  GateExclusive'
    BY <1>6 DEF EnterGateMark, Goto
<1>7. ASSUME NEW t \in Threads, EnterGateWait(t)
      PROVE  GateExclusive'
    BY <1>7 DEF EnterGateWait, Goto
<1>8. ASSUME NEW t \in Threads, EnterGateRetry(t)
      PROVE  GateExclusive'
    BY <1>8 DEF EnterGateRetry, Goto, AfterGate
<1>9. ASSUME NEW t \in Threads, LeaveGateSub(t)
      PROVE  GateExclusive'
    BY <1>9, DoneFrame DEF LeaveGateSub, Goto, AfterLeave, LeftGate
<1>10. ASSUME NEW t \in Threads, LeaveGateStore(t)
      PROVE  GateExclusive'
    BY <1>10 DEF LeaveGateStore, Goto
<1>11. ASSUME NEW t \in Threads, LeaveGateWake(t)
      PROVE  GateExclusive'
    BY <1>11, DoneFrame
    DEF LeaveGateWake, FutexWake, Goto, AfterLeave, LeftGate
<1>12. ASSUME NEW t \in Threads, ReadLockInc(t)
      PROVE  GateExclusive'
    BY <1>12 DEF ReadLockInc, Goto
<1>13. ASSUME NEW t \in Threads, ReadUnlockDec(t)
      PROVE  GateExclusive'
    BY <1>13, DoneFrame DEF ReadUnlockDec, Goto
<1>14. ASSUME NEW t \in Threads, ReadUnlockWake(t)
      PROVE  GateExclusive'
    BY <1>14, DoneFrame DEF ReadUnlockWake, FutexWake, Goto
<1>15. ASSUME NEW t \in Threads, WriteLockDec(t)
      PROVE  GateExclusive'
    BY <1>15 DEF WriteLockDec, Goto, WriterAdmitted, ReturnHolding
<1>16. ASSUME NEW t \in Threads, WriteLockWait(t)
      PROVE  GateExclusive'
    BY <1>16 DEF WriteLockWait, Goto
<1>17. ASSUME NEW t \in Threads, WriteLockLoad(t)
      PROVE  GateExclusive'
    BY <1>17 DEF WriteLockLoad, Goto, WriterAdmitted, ReturnHolding
<1>18. ASSUME NEW t \in Threads, WriteUnlockStore(t)
      PROVE  GateExclusive'
    BY <1>18 DEF WriteUnlockStore, Goto
<1>19. ASSUME NEW t \in Threads, TryWriteModifyTry(t)
      PROVE  GateExclusive'
    BY <1>19 DEF TryWriteModifyTry, Goto, ReturnHolding
<1>20. ASSUME NEW t \in Threads, TryWriteModifyDec(t)
      PROVE  GateExclusive'
    BY <1>20 DEF TryWriteModifyDec, Goto
<1>21. ASSUME NEW t \in Threads, WriteModifyDec(t)
      PROVE  GateExclusive'
    BY <1>21 DEF WriteModifyDec, Goto
<1>22. ASSUME NEW t \in Threads, WriteModifyWake(t)
      PROVE  GateExclusive'
    BY <1>22 DEF WriteModifyWake, FutexWake, Goto
<1>23. ASSUME NEW t \in Threads, FutexInterrupt(t)
      PROVE  GateExclusive'
    BY <1>23 DEF FutexInterrupt, Goto
<1>24. ASSUME Destroy
      PROVE  GateExclusive'
    BY <1>24 DEF Destroy
<1>25. CASE UNCHANGED vars
    BY <1>25 DEF vars
<1>26. QED
    BY <1>1, <1>2, <1>3, <1>4, <1>5, <1>6, <1>7, <1>8, <1>9,
       <1>10, <1>11, <1>12, <1>13, <1>14, <1>15, <1>16, <1>17, <1>18, <1>19,
       <1>20, <1>21, <1>22, <1>23, <1>24, <1>25
    DEF Next, ClientStep, LibraryStep, Terminated

-----------------------------------------------------------------------------
(* The count of readers.                                                    *)

\* What the count says about the two sets it counts.
LEMMA CountFacts ==
    ASSUME Typed, GateExclusive, ReadersCounted
    PROVE  /\ IsFiniteSet(Readers) /\ IsFiniteSet(Writers)
           /\ Cardinality(Readers) \in Nat
           /\ Cardinality(Threads) \in Nat
           /\ nreaders \in -1..Cardinality(Threads)
           /\ \A t \in Writers : Writers = {t} /\ Cardinality(Writers) = 1
           /\ nreaders < 0 => nreaders = -1 /\ Readers = {} /\ Writers # {}
           /\ \A t \in Readers : Writers # {} => nreaders >= 0
           /\ \A t \in Readers : Writers = {} => nreaders >= 1
<1>1. Readers \in SUBSET Threads /\ Writers \in SUBSET Threads
    BY DEF Readers, Writers
<1>2. /\ IsFiniteSet(Readers) /\ IsFiniteSet(Writers)
      /\ Cardinality(Readers) <= Cardinality(Threads)
    BY <1>1, ThreadsAssumption, FS_Subset
<1>3. /\ Cardinality(Readers) \in Nat
      /\ Cardinality(Writers) \in Nat
      /\ Cardinality(Threads) \in Nat
    BY <1>2, ThreadsAssumption, FS_CardinalityType
<1>4. Cardinality(Readers) = 0 <=> Readers = {}
    BY <1>2, FS_EmptySet
<1>5. Cardinality(Writers) = 0 <=> Writers = {}
    BY <1>2, FS_EmptySet
<1>6. Writers \subseteq GateHolders
    BY DEF Writers, GateHolders
<1>7. \A t \in Writers : Writers = {t}
    BY <1>6 DEF GateExclusive
<1>8. \A t \in Writers : Cardinality(Writers) = 1
    BY <1>7, FS_Singleton
<1>9. Cardinality(Writers) \in {0, 1}
    BY <1>5, <1>8
<1>10. nreaders = Cardinality(Readers) - Cardinality(Writers)
    BY DEF ReadersCounted
<1>11. nreaders \in -1..Cardinality(Threads)
    BY <1>2, <1>3, <1>9, <1>10
<1>12. nreaders < 0 => nreaders = -1 /\ Readers = {} /\ Writers # {}
    BY <1>3, <1>4, <1>5, <1>9, <1>10
<1>13. \A t \in Readers : Writers # {} => nreaders >= 0
    BY <1>3, <1>4, <1>5, <1>9, <1>10
<1>14. \A t \in Readers : Writers = {} => nreaders >= 1
    BY <1>3, <1>4, <1>5, <1>9, <1>10
<1>15. QED
    BY <1>2, <1>3, <1>7, <1>8, <1>11, <1>12, <1>13, <1>14

\* The ways a step may change the count and the sets it counts.
CountSame ==
    nreaders' = nreaders /\ Readers' = Readers /\ Writers' = Writers
ReaderIn(t) ==
    /\ t \in GateHolders \ Writers
    /\ t \notin Readers /\ Readers' = Readers \cup {t}
    /\ nreaders' = nreaders + 1 /\ Writers' = Writers
ReaderOut(t) ==
    /\ t \in Readers /\ Readers' = Readers \ {t}
    /\ nreaders' = nreaders - 1 /\ Writers' = Writers
WriterIn(t) ==
    /\ t \in GateHolders \ Writers /\ Writers' = Writers \cup {t}
    /\ nreaders' = nreaders - 1 /\ Readers' = Readers
WriterOut(t) ==
    /\ t \in Admitted /\ Writers' = Writers \ {t}
    /\ nreaders' = 0 /\ Readers' = Readers

CountChange ==
    \/ CountSame
    \/ \E t \in Threads :
          ReaderIn(t) \/ ReaderOut(t) \/ WriterIn(t) \/ WriterOut(t)

\* Every step changes them in one of these ways.
LEMMA CountChangeStep ==
    ASSUME Typed, Locals, [Next]_vars
    PROVE  CountChange
<1> USE DEF Typed, Locals, MethodOf, Readers, Writers, Labels, Methods
<1>1. ASSUME NEW t \in Threads, Lock(t)
      PROVE  CountChange
  <2>1. CountSame
    BY <1>1 DEF Lock, Call, Goto, CountSame
  <2>2. QED
    BY <2>1 DEF CountChange
<1>2. ASSUME NEW t \in Threads, TryWriteModify(t)
      PROVE  CountChange
  <2>1. CountSame
    BY <1>2
    DEF TryWriteModify, Call, Goto, ReturnHolding, ClassOf, UnlocksAsWriter,
        CountSame
  <2>2. QED
    BY <2>1 DEF CountChange
<1>3. ASSUME NEW t \in Threads, WriteModify(t)
      PROVE  CountChange
  <2>1. CountSame
    BY <1>3 DEF WriteModify, Call, Goto, CountSame
  <2>2. QED
    BY <2>1 DEF CountChange
<1>4. ASSUME NEW t \in Threads, Unlock(t)
      PROVE  CountChange
  <2>1. CountSame
    BY <1>4 DEF Unlock, Call, Goto, UnlocksAsWriter, ClassOf, CountSame
  <2>2. QED
    BY <2>1 DEF CountChange
<1>5. ASSUME NEW t \in Threads, EnterGateTry(t)
      PROVE  CountChange
  <2>1. CountSame
    BY <1>5 DEF EnterGateTry, Goto, AfterGate, CountSame
  <2>2. QED
    BY <2>1 DEF CountChange
<1>6. ASSUME NEW t \in Threads, EnterGateMark(t)
      PROVE  CountChange
  <2>1. CountSame
    BY <1>6 DEF EnterGateMark, Goto, CountSame
  <2>2. QED
    BY <2>1 DEF CountChange
<1>7. ASSUME NEW t \in Threads, EnterGateWait(t)
      PROVE  CountChange
  <2>1. CountSame
    BY <1>7 DEF EnterGateWait, Goto, CountSame
  <2>2. QED
    BY <2>1 DEF CountChange
<1>8. ASSUME NEW t \in Threads, EnterGateRetry(t)
      PROVE  CountChange
  <2>1. CountSame
    BY <1>8 DEF EnterGateRetry, Goto, AfterGate, CountSame
  <2>2. QED
    BY <2>1 DEF CountChange
<1>9. ASSUME NEW t \in Threads, LeaveGateSub(t)
      PROVE  CountChange
  <2>1. CountSame
    BY <1>9, DoneFrame DEF LeaveGateSub, Goto, AfterLeave, LeftGate, CountSame
  <2>2. QED
    BY <2>1 DEF CountChange
<1>10. ASSUME NEW t \in Threads, LeaveGateStore(t)
      PROVE  CountChange
  <2>1. CountSame
    BY <1>10 DEF LeaveGateStore, Goto, CountSame
  <2>2. QED
    BY <2>1 DEF CountChange
<1>11. ASSUME NEW t \in Threads, LeaveGateWake(t)
      PROVE  CountChange
  <2>1. CountSame
    BY <1>11, DoneFrame
    DEF LeaveGateWake, FutexWake, Goto, AfterLeave, LeftGate, CountSame
  <2>2. QED
    BY <2>1 DEF CountChange
<1>12. ASSUME NEW t \in Threads, ReadLockInc(t)
      PROVE  CountChange
  <2>1. ReaderIn(t)
    BY <1>12 DEF ReadLockInc, Goto, ReaderIn, GateHolders
  <2>2. QED
    BY <2>1 DEF CountChange
<1>13. ASSUME NEW t \in Threads, ReadUnlockDec(t)
      PROVE  CountChange
  <2>1. ReaderOut(t)
    BY <1>13, DoneFrame DEF ReadUnlockDec, Goto, ReaderOut
  <2>2. QED
    BY <2>1 DEF CountChange
<1>14. ASSUME NEW t \in Threads, ReadUnlockWake(t)
      PROVE  CountChange
  <2>1. CountSame
    BY <1>14, DoneFrame DEF ReadUnlockWake, FutexWake, Goto, CountSame
  <2>2. QED
    BY <2>1 DEF CountChange
<1>15. ASSUME NEW t \in Threads, WriteLockDec(t)
      PROVE  CountChange
  <2>1. WriterIn(t)
    BY <1>15
    DEF WriteLockDec, Goto, WriterAdmitted, ReturnHolding, WriterIn,
        GateHolders
  <2>2. QED
    BY <2>1 DEF CountChange
<1>16. ASSUME NEW t \in Threads, WriteLockWait(t)
      PROVE  CountChange
  <2>1. CountSame
    BY <1>16 DEF WriteLockWait, Goto, CountSame
  <2>2. QED
    BY <2>1 DEF CountChange
<1>17. ASSUME NEW t \in Threads, WriteLockLoad(t)
      PROVE  CountChange
  <2>1. CountSame
    BY <1>17 DEF WriteLockLoad, Goto, WriterAdmitted, ReturnHolding, CountSame
  <2>2. QED
    BY <2>1 DEF CountChange
<1>18. ASSUME NEW t \in Threads, WriteUnlockStore(t)
      PROVE  CountChange
  <2>1. WriterOut(t)
    BY <1>18 DEF WriteUnlockStore, Goto, WriterOut, Admitted
  <2>2. QED
    BY <2>1 DEF CountChange
<1>19. ASSUME NEW t \in Threads, TryWriteModifyTry(t)
      PROVE  CountChange
  <2>1. CountSame
    BY <1>19 DEF TryWriteModifyTry, Goto, ReturnHolding, CountSame
  <2>2. QED
    BY <2>1 DEF CountChange
<1>20. ASSUME NEW t \in Threads, TryWriteModifyDec(t)
      PROVE  CountChange
  <2>1. ReaderOut(t)
    BY <1>20 DEF TryWriteModifyDec, Goto, ReaderOut
  <2>2. QED
    BY <2>1 DEF CountChange
<1>21. ASSUME NEW t \in Threads, WriteModifyDec(t)
      PROVE  CountChange
  <2>1. ReaderOut(t)
    BY <1>21 DEF WriteModifyDec, Goto, ReaderOut
  <2>2. QED
    BY <2>1 DEF CountChange
<1>22. ASSUME NEW t \in Threads, WriteModifyWake(t)
      PROVE  CountChange
  <2>1. CountSame
    BY <1>22 DEF WriteModifyWake, FutexWake, Goto, CountSame
  <2>2. QED
    BY <2>1 DEF CountChange
<1>23. ASSUME NEW t \in Threads, FutexInterrupt(t)
      PROVE  CountChange
  <2>1. CountSame
    BY <1>23 DEF FutexInterrupt, Goto, CountSame
  <2>2. QED
    BY <2>1 DEF CountChange
<1>24. ASSUME Destroy
      PROVE  CountChange
    BY <1>24 DEF Destroy, CountChange, CountSame
<1>25. CASE UNCHANGED vars
    BY <1>25 DEF vars, CountChange, CountSame
<1>26. QED
    BY <1>1, <1>2, <1>3, <1>4, <1>5, <1>6, <1>7, <1>8, <1>9,
       <1>10, <1>11, <1>12, <1>13, <1>14, <1>15, <1>16, <1>17, <1>18, <1>19,
       <1>20, <1>21, <1>22, <1>23, <1>24, <1>25
    DEF Next, ClientStep, LibraryStep, Terminated

\* Every step keeps the count exact.
LEMMA CountStep ==
    ASSUME Typed, Locals, GateExclusive, ReadersCounted, AdmittedAlone,
           [Next]_vars
    PROVE  ReadersCounted'
<1>1. CountChange
    BY CountChangeStep
<1>2. /\ nreaders = Cardinality(Readers) - Cardinality(Writers)
      /\ IsFiniteSet(Readers) /\ IsFiniteSet(Writers)
      /\ Cardinality(Readers) \in Nat
      /\ \A t \in Writers : Writers = {t} /\ Cardinality(Writers) = 1
      /\ nreaders \in Int
    BY CountFacts DEF ReadersCounted, Typed
<1>3. Cardinality(Writers) \in Nat
    BY <1>2, FS_CardinalityType
<1>4. CASE CountSame
    BY <1>2, <1>4 DEF CountSame, ReadersCounted
<1>5. ASSUME NEW t \in Threads, ReaderIn(t)
      PROVE  ReadersCounted'
  <2>1. Cardinality(Readers') = Cardinality(Readers) + 1
    BY <1>2, <1>5, FS_AddElement DEF ReaderIn
  <2>2. QED
    BY <1>2, <1>3, <1>5, <2>1 DEF ReaderIn, ReadersCounted
<1>6. ASSUME NEW t \in Threads, ReaderOut(t)
      PROVE  ReadersCounted'
  <2>1. Cardinality(Readers') = Cardinality(Readers) - 1
    BY <1>2, <1>6, FS_RemoveElement DEF ReaderOut
  <2>2. QED
    BY <1>2, <1>3, <1>6, <2>1 DEF ReaderOut, ReadersCounted
<1>7. ASSUME NEW t \in Threads, WriterIn(t)
      PROVE  ReadersCounted'
  <2>1. Cardinality(Writers') = Cardinality(Writers) + 1
    BY <1>2, <1>7, FS_AddElement DEF WriterIn
  <2>2. QED
    BY <1>2, <1>3, <1>7, <2>1 DEF WriterIn, ReadersCounted
<1>8. ASSUME NEW t \in Threads, WriterOut(t)
      PROVE  ReadersCounted'
  <2>1. t \in Writers /\ nreaders = -1
    BY <1>8 DEF WriterOut, Admitted, Writers, AdmittedAlone
  <2>2. Cardinality(Readers) = 0
    BY <1>2, <2>1
  <2>3. Writers' = {}
    BY <1>2, <1>8, <2>1 DEF WriterOut
  <2>4. Cardinality(Writers') = 0
    BY <2>3, FS_EmptySet
  <2>5. QED
    BY <1>8, <2>2, <2>4 DEF WriterOut, ReadersCounted
<1>9. QED
    BY <1>1, <1>4, <1>5, <1>6, <1>7, <1>8 DEF CountChange

\* A writer is admitted only by a step that leaves the count negative.
LEMMA AdmissionStep ==
    ASSUME Typed, Locals, [Next]_vars
    PROVE  \A a \in Admitted' : a \in Admitted \/ nreaders' < 0
<1> USE DEF Typed, Admitted, Labels, Methods
<1>1. ASSUME NEW t \in Threads, Lock(t)
      PROVE  \A a \in Admitted' : a \in Admitted \/ nreaders' < 0
    BY <1>1 DEF Lock, Call, Goto
<1>2. ASSUME NEW t \in Threads, TryWriteModify(t)
      PROVE  \A a \in Admitted' : a \in Admitted \/ nreaders' < 0
    BY <1>2
    DEF TryWriteModify, Call, Goto, ReturnHolding, Locals, MethodOf, ClassOf,
        UnlocksAsWriter
<1>3. ASSUME NEW t \in Threads, WriteModify(t)
      PROVE  \A a \in Admitted' : a \in Admitted \/ nreaders' < 0
    BY <1>3 DEF WriteModify, Call, Goto
<1>4. ASSUME NEW t \in Threads, Unlock(t)
      PROVE  \A a \in Admitted' : a \in Admitted \/ nreaders' < 0
    BY <1>4 DEF Unlock, Call, Goto, UnlocksAsWriter, Locals, MethodOf, ClassOf
<1>5. ASSUME NEW t \in Threads, EnterGateTry(t)
      PROVE  \A a \in Admitted' : a \in Admitted \/ nreaders' < 0
    BY <1>5 DEF EnterGateTry, Goto, AfterGate
<1>6. ASSUME NEW t \in Threads, EnterGateMark(t)
      PROVE  \A a \in Admitted' : a \in Admitted \/ nreaders' < 0
    BY <1>6 DEF EnterGateMark, Goto
<1>7. ASSUME NEW t \in Threads, EnterGateWait(t)
      PROVE  \A a \in Admitted' : a \in Admitted \/ nreaders' < 0
    BY <1>7 DEF EnterGateWait, Goto
<1>8. ASSUME NEW t \in Threads, EnterGateRetry(t)
      PROVE  \A a \in Admitted' : a \in Admitted \/ nreaders' < 0
    BY <1>8 DEF EnterGateRetry, Goto, AfterGate
<1>9. ASSUME NEW t \in Threads, LeaveGateSub(t)
      PROVE  \A a \in Admitted' : a \in Admitted \/ nreaders' < 0
    BY <1>9, DoneFrame DEF LeaveGateSub, Goto, AfterLeave, LeftGate
<1>10. ASSUME NEW t \in Threads, LeaveGateStore(t)
      PROVE  \A a \in Admitted' : a \in Admitted \/ nreaders' < 0
    BY <1>10 DEF LeaveGateStore, Goto
<1>11. ASSUME NEW t \in Threads, LeaveGateWake(t)
      PROVE  \A a \in Admitted' : a \in Admitted \/ nreaders' < 0
    BY <1>11, DoneFrame
    DEF LeaveGateWake, FutexWake, Goto, AfterLeave, LeftGate
<1>12. ASSUME NEW t \in Threads, ReadLockInc(t)
      PROVE  \A a \in Admitted' : a \in Admitted \/ nreaders' < 0
    BY <1>12 DEF ReadLockInc, Goto
<1>13. ASSUME NEW t \in Threads, ReadUnlockDec(t)
      PROVE  \A a \in Admitted' : a \in Admitted \/ nreaders' < 0
    BY <1>13, DoneFrame DEF ReadUnlockDec, Goto
<1>14. ASSUME NEW t \in Threads, ReadUnlockWake(t)
      PROVE  \A a \in Admitted' : a \in Admitted \/ nreaders' < 0
    BY <1>14, DoneFrame DEF ReadUnlockWake, FutexWake, Goto
<1>15. ASSUME NEW t \in Threads, WriteLockDec(t)
      PROVE  \A a \in Admitted' : a \in Admitted \/ nreaders' < 0
    BY <1>15 DEF WriteLockDec, Goto, WriterAdmitted, ReturnHolding
<1>16. ASSUME NEW t \in Threads, WriteLockWait(t)
      PROVE  \A a \in Admitted' : a \in Admitted \/ nreaders' < 0
    BY <1>16 DEF WriteLockWait, Goto
<1>17. ASSUME NEW t \in Threads, WriteLockLoad(t)
      PROVE  \A a \in Admitted' : a \in Admitted \/ nreaders' < 0
    BY <1>17 DEF WriteLockLoad, Goto, WriterAdmitted, ReturnHolding
<1>18. ASSUME NEW t \in Threads, WriteUnlockStore(t)
      PROVE  \A a \in Admitted' : a \in Admitted \/ nreaders' < 0
    BY <1>18 DEF WriteUnlockStore, Goto
<1>19. ASSUME NEW t \in Threads, TryWriteModifyTry(t)
      PROVE  \A a \in Admitted' : a \in Admitted \/ nreaders' < 0
    BY <1>19 DEF TryWriteModifyTry, Goto, ReturnHolding
<1>20. ASSUME NEW t \in Threads, TryWriteModifyDec(t)
      PROVE  \A a \in Admitted' : a \in Admitted \/ nreaders' < 0
    BY <1>20 DEF TryWriteModifyDec, Goto
<1>21. ASSUME NEW t \in Threads, WriteModifyDec(t)
      PROVE  \A a \in Admitted' : a \in Admitted \/ nreaders' < 0
    BY <1>21 DEF WriteModifyDec, Goto
<1>22. ASSUME NEW t \in Threads, WriteModifyWake(t)
      PROVE  \A a \in Admitted' : a \in Admitted \/ nreaders' < 0
    BY <1>22 DEF WriteModifyWake, FutexWake, Goto
<1>23. ASSUME NEW t \in Threads, FutexInterrupt(t)
      PROVE  \A a \in Admitted' : a \in Admitted \/ nreaders' < 0
    BY <1>23 DEF FutexInterrupt, Goto
<1>24. ASSUME Destroy
      PROVE  \A a \in Admitted' : a \in Admitted \/ nreaders' < 0
    BY <1>24 DEF Destroy
<1>25. CASE UNCHANGED vars
    BY <1>25 DEF vars
<1>26. QED
    BY <1>1, <1>2, <1>3, <1>4, <1>5, <1>6, <1>7, <1>8, <1>9,
       <1>10, <1>11, <1>12, <1>13, <1>14, <1>15, <1>16, <1>17, <1>18, <1>19,
       <1>20, <1>21, <1>22, <1>23, <1>24, <1>25
    DEF Next, ClientStep, LibraryStep, Terminated

\* An admitted writer stays alone: who could move the count is not there.
LEMMA AdmittedStep ==
    ASSUME Typed, Locals, GateExclusive, ReadersCounted, AdmittedAlone,
           GateExclusive', [Next]_vars
    PROVE  AdmittedAlone'
<1>1. ReadersCounted'
    BY CountStep
<1>2. Typed'
    BY TypedStep
<1>3. SUFFICES ASSUME NEW t \in Threads, t \in Admitted'
               PROVE  nreaders' = -1
    BY DEF AdmittedAlone, Admitted
<1>4. nreaders' < 0 => nreaders' = -1
  <2>1. /\ IsFiniteSet(Readers') /\ IsFiniteSet(Writers')
    <3>1. Readers' \in SUBSET Threads /\ Writers' \in SUBSET Threads
      BY DEF Readers, Writers
    <3>2. QED
      BY <3>1, ThreadsAssumption, FS_Subset
  <2>2. Cardinality(Readers') \in Nat
    BY <2>1, FS_CardinalityType
  <2>3. Writers' \subseteq GateHolders'
    BY DEF Writers, GateHolders
  <2>4. \A u \in Writers' : Writers' = {u}
    BY <2>3 DEF GateExclusive
  <2>5. t \in Writers'
    BY <1>3 DEF Admitted, Writers
  <2>6. Cardinality(Writers') = 1
    BY <2>4, <2>5, FS_Singleton
  <2>7. QED
    BY <1>1, <2>2, <2>6 DEF ReadersCounted
<1>5. CASE t \in Admitted
  <2>1. t \in Writers /\ t \in GateHolders /\ nreaders = -1
    BY <1>5 DEF Admitted, Writers, GateHolders, AdmittedAlone
  <2>2. nreaders < 0 => Readers = {}
    BY CountFacts
  <2>3. Readers = {} /\ Writers = {t}
    BY <2>1, <2>2, CountFacts
  <2>4. CountChange
    BY CountChangeStep
  <2>5. CASE CountSame
    BY <2>1, <2>5 DEF CountSame
  <2>6. ASSUME NEW u \in Threads, ReaderIn(u) \/ WriterIn(u)
        PROVE  FALSE
    BY <2>1, <2>6 DEF ReaderIn, WriterIn, GateExclusive
  <2>7. ASSUME NEW u \in Threads, ReaderOut(u)
        PROVE  FALSE
    BY <2>3, <2>7 DEF ReaderOut
  <2>8. ASSUME NEW u \in Threads, WriterOut(u)
        PROVE  FALSE
    BY <2>3, <2>8, <1>3 DEF WriterOut, Admitted, Writers
  <2>9. QED
    BY <2>4, <2>5, <2>6, <2>7, <2>8 DEF CountChange
<1>6. CASE t \notin Admitted
    BY <1>3, <1>4, <1>6, AdmissionStep
<1>7. QED
    BY <1>5, <1>6

\* Only the two places of write_lock that read the count store it.
LEMMA ValStep ==
    ASSUME Typed, ValRange, GateExclusive', ReadersCounted', [Next]_vars
    PROVE  ValRange'
<1>1. \/ val_nreaders' = val_nreaders
      \/ \E t \in Threads : WriteLockDec(t) \/ WriteLockLoad(t)
    BY DEF Next, ClientStep, LibraryStep, Terminated, vars, Lock,
           TryWriteModify, WriteModify, Unlock,
           EnterGateTry, EnterGateMark, EnterGateWait, EnterGateRetry,
           LeaveGateSub, LeaveGateStore, LeaveGateWake, ReadLockInc,
           ReadUnlockDec, ReadUnlockWake, WriteLockWait, WriteUnlockStore,
           TryWriteModifyTry, TryWriteModifyDec, WriteModifyDec,
           WriteModifyWake, FutexInterrupt, Destroy
<1>2. Typed'
    BY TypedStep
<1>3. nreaders' \in Int /\ nreaders' <= Cardinality(Threads)
  <2>1. Readers' \in SUBSET Threads /\ Writers' \in SUBSET Threads
    BY DEF Readers, Writers
  <2>2. /\ Cardinality(Readers') <= Cardinality(Threads)
        /\ IsFiniteSet(Readers') /\ IsFiniteSet(Writers')
    BY <2>1, ThreadsAssumption, FS_Subset
  <2>3. /\ Cardinality(Readers') \in Nat /\ Cardinality(Writers') \in Nat
        /\ Cardinality(Threads) \in Nat
    BY <2>2, ThreadsAssumption, FS_CardinalityType
  <2>4. QED
    BY <1>2, <2>2, <2>3 DEF ReadersCounted, Typed
<1>4. Cardinality(Threads) \in Nat
    BY ThreadsAssumption, FS_CardinalityType
<1>5. CASE val_nreaders' = val_nreaders
    BY <1>5 DEF ValRange
<1>6. ASSUME NEW t \in Threads, WriteLockDec(t)
      PROVE  ValRange'
  <2>1. CASE UNCHANGED val_nreaders
    BY <2>1 DEF ValRange
  <2>2. CASE /\ nreaders' >= 0
             /\ val_nreaders' = [val_nreaders EXCEPT ![t] = nreaders']
    BY <1>3, <1>4, <2>2 DEF ValRange, Typed
  <2>3. QED
    BY <1>6, <2>1, <2>2 DEF WriteLockDec
<1>7. ASSUME NEW t \in Threads, WriteLockLoad(t)
      PROVE  ValRange'
    BY <1>3, <1>4, <1>7 DEF WriteLockLoad, ValRange, Typed
<1>8. QED
    BY <1>1, <1>5, <1>6, <1>7

-----------------------------------------------------------------------------
(* The two places that abort.                                               *)

\* A reader that leaves has been counted, and an unused lock is as new.
LEMMA AbortStep ==
    ASSUME Typed, Locals, GateExclusive, ReadersCounted, NeverAborts,
           control = "live", [Next]_vars
    PROVE  NeverAborts'
<1>1. \/ control' = control
      \/ Destroy
      \/ \E t \in Threads : ReadUnlockDec(t)
    BY DEF Next, ClientStep, LibraryStep, Terminated, vars, Lock,
           TryWriteModify, WriteModify, Unlock,
           EnterGateTry, EnterGateMark, EnterGateWait, EnterGateRetry,
           LeaveGateSub, LeaveGateStore, LeaveGateWake, ReadLockInc,
           ReadUnlockWake, WriteLockDec, WriteLockWait, WriteLockLoad,
           WriteUnlockStore, TryWriteModifyTry, TryWriteModifyDec,
           WriteModifyDec, WriteModifyWake, FutexInterrupt
<1>2. ASSUME NEW t \in Threads, ReadUnlockDec(t)
      PROVE  NeverAborts'
  <2>1. t \in Readers
    BY <1>2 DEF ReadUnlockDec, Readers
  <2>2. nreaders \in Int /\ nreaders >= 0
    BY <2>1, CountFacts DEF Typed
  <2>3. QED
    BY <1>2, <2>2 DEF ReadUnlockDec, NeverAborts
<1>3. ASSUME Destroy
      PROVE  NeverAborts'
  <2>1. Readers = {} /\ Writers = {} /\ GateHolders = {}
    BY <1>3 DEF Destroy, Readers, Writers, GateHolders
  <2>2. nreaders = 0
    BY <2>1, FS_EmptySet DEF ReadersCounted
  <2>3. gate = 0
    BY <2>1 DEF GateExclusive
  <2>4. QED
    BY <1>3, <2>2, <2>3 DEF Destroy, NeverAborts
<1>4. QED
    BY <1>1, <1>2, <1>3 DEF NeverAborts

-----------------------------------------------------------------------------
(* Safety.                                                                  *)

\* The invariant holds of the lock that the constructor makes.
LEMMA InvInit ==
    ASSUME FreshLocks, Init
    PROVE  Inv
<1> USE DEF Init
<1>1. Typed
    BY DEF Typed, Labels, Methods, Classes
<1>2. Locals
    BY DEF Locals, MethodOf, ClassOf, UnlocksAsWriter
<1>3. ExpectedRange
    BY DEF ExpectedRange
<1>4. Readers = {} /\ Writers = {} /\ GateHolders = {} /\ Admitted = {}
    BY DEF Readers, Writers, GateHolders, Admitted
<1>5. GateExclusive /\ AdmittedAlone
    BY <1>4 DEF GateExclusive, AdmittedAlone
<1>6. ReadersCounted
    BY <1>4, FS_EmptySet DEF ReadersCounted
<1>7. ValRange
  <2>1. Cardinality(Threads) \in Nat
    BY ThreadsAssumption, FS_CardinalityType
  <2>2. QED
    BY <2>1 DEF ValRange
<1>8. QED
    BY <1>1, <1>2, <1>3, <1>5, <1>6, <1>7 DEF Inv, NeverAborts

\* Every step keeps the invariant.
LEMMA InvStep ==
    ASSUME FreshLocks, Inv, [Next]_vars
    PROVE  Inv'
<1>1. CASE UNCHANGED vars
    BY <1>1
    DEF vars, Inv, Typed, Locals, MethodOf, ClassOf, UnlocksAsWriter,
        ExpectedRange, GateExclusive, GateHolders, ReadersCounted, Readers,
        Writers, AdmittedAlone, Admitted, ValRange, NeverAborts
<1>2. CASE control = "live"
  <2>1. Typed' /\ Locals' /\ ExpectedRange' /\ GateExclusive'
    BY <1>2, TypedStep, LocalsStep, ExpectedStep, GateStep DEF Inv
  <2>2. ReadersCounted' /\ AdmittedAlone' /\ NeverAborts'
    BY <1>2, <2>1, CountStep, AdmittedStep, AbortStep DEF Inv
  <2>3. ValRange'
    BY <2>1, <2>2, ValStep DEF Inv
  <2>4. QED
    BY <2>1, <2>2, <2>3 DEF Inv
<1>3. QED
    BY <1>1, <1>2 DEF Next, Terminated

\* The invariant holds throughout.
LEMMA Invariance ==
    ASSUME FreshLocks
    PROVE  Spec => []Inv
<1>1. Init => Inv
    BY InvInit
<1>2. Inv /\ [Next]_vars => Inv'
    BY InvStep
<1>3. QED
    BY <1>1, <1>2, PTL DEF Spec

\* The variables keep their ranges: the gate word is 0, 1 or 2 and the count
\* of readers lies between -1 and the number of threads.
THEOREM TypeCorrect ==
    ASSUME FreshLocks
    PROVE  Spec => []TypeOK
<1>1. Inv => TypeOK
  <2> SUFFICES ASSUME Inv PROVE TypeOK
    OBVIOUS
  <2>1. nreaders \in -1..Cardinality(Threads)
    BY CountFacts DEF Inv
  <2>2. expected \in [Threads -> 0..2]
    <3>1. \A t \in Threads : expected[t] \in 0..2
      BY DEF Inv, ExpectedRange
    <3>2. expected \in [Threads -> Int]
      BY DEF Inv, Typed
    <3>3. QED
      BY <3>1, <3>2
  <2>3. val_nreaders \in [Threads -> 0..Cardinality(Threads)]
    BY DEF Inv, Typed, ValRange
  <2>4. gate \in 0..2
    BY DEF Inv, GateExclusive
  <2>5. QED
    BY <2>1, <2>2, <2>3, <2>4 DEF Inv, Typed, TypeOK
<1>2. QED
    BY <1>1, Invariance, PTL

\* A thread that has the write lock, however it came by it, is alone.
THEOREM WriterAlone ==
    ASSUME FreshLocks
    PROVE  Spec => []MutualExclusion
<1>1. Inv => MutualExclusion
  <2> SUFFICES ASSUME Inv, NEW t \in Threads, NEW u \in Threads,
                      pc[t] = "held_write", t # u
               PROVE  pc[u] \notin {"held_read", "held_write"}
    BY DEF MutualExclusion
  <2>1. t \in Writers /\ nreaders = -1
    BY DEF Inv, AdmittedAlone, Admitted, Writers
  <2>2. Readers = {} /\ Writers = {t}
    BY <2>1, CountFacts DEF Inv
  <2>3. QED
    BY <2>2 DEF Readers, Writers
<1>2. QED
    BY <1>1, Invariance, PTL

\* The count is exact in every state, between the atomic steps of any
\* number of lock, unlock and upgrade calls.
THEOREM CountExact ==
    ASSUME FreshLocks
    PROVE  Spec => []ReadersCounted
<1>1. Inv => ReadersCounted
    BY DEF Inv
<1>2. QED
    BY <1>1, Invariance, PTL

\* Neither the assertion in read_unlock nor the check in the destructor of an
\* unused lock can fail.
THEOREM AbortFree ==
    ASSUME FreshLocks
    PROVE  Spec => []NeverAborts
<1>1. Inv => NeverAborts
    BY DEF Inv
<1>2. QED
    BY <1>1, Invariance, PTL

\* What a reader has read stays true until it writes, if it came by the write
\* lock through try_write_modify.
THEOREM UpgradeSafe ==
    ASSUME FreshLocks
    PROVE  Spec => []UpgradeExcludesWriters
<1>1. Inv => UpgradeExcludesWriters
  <2> SUFFICES ASSUME Inv, NEW t \in Readers \cup Upgrading, NEW a \in Admitted
               PROVE  a = t
    BY DEF UpgradeExcludesWriters
  <2>1. Readers = {}
    BY CountFacts DEF Inv, AdmittedAlone
  <2>2. t \in GateHolders /\ a \in GateHolders
    BY <2>1 DEF Upgrading, Admitted, GateHolders
  <2>3. QED
    BY <2>2 DEF Inv, GateExclusive
<1>2. QED
    BY <1>1, Invariance, PTL

-----------------------------------------------------------------------------
(* No lost wake-up.                                                         *)

\* Whoever makes the gate word forget a sleeper is about to wake one.
LEMMA GateWakeupStep ==
    ASSUME Typed, NoLostGateWakeup, [Next]_vars
    PROVE  NoLostGateWakeup'
<1> USE DEF Typed, NoLostGateWakeup, Labels
<1>1. ASSUME NEW t \in Threads, Lock(t)
      PROVE  NoLostGateWakeup'
    BY <1>1 DEF Lock, Call, Goto
<1>2. ASSUME NEW t \in Threads, TryWriteModify(t)
      PROVE  NoLostGateWakeup'
    BY <1>2 DEF TryWriteModify, Call, Goto, ReturnHolding
<1>3. ASSUME NEW t \in Threads, WriteModify(t)
      PROVE  NoLostGateWakeup'
    BY <1>3 DEF WriteModify, Call, Goto
<1>4. ASSUME NEW t \in Threads, Unlock(t)
      PROVE  NoLostGateWakeup'
    BY <1>4 DEF Unlock, Call, Goto, UnlocksAsWriter
<1>5. ASSUME NEW t \in Threads, EnterGateTry(t)
      PROVE  NoLostGateWakeup'
    BY <1>5 DEF EnterGateTry, Goto, AfterGate
<1>6. ASSUME NEW t \in Threads, EnterGateMark(t)
      PROVE  NoLostGateWakeup'
    BY <1>6 DEF EnterGateMark, Goto
<1>7. ASSUME NEW t \in Threads, EnterGateWait(t)
      PROVE  NoLostGateWakeup'
    BY <1>7 DEF EnterGateWait, Goto
<1>8. ASSUME NEW t \in Threads, EnterGateRetry(t)
      PROVE  NoLostGateWakeup'
    BY <1>8 DEF EnterGateRetry, Goto, AfterGate
<1>9. ASSUME NEW t \in Threads, LeaveGateSub(t)
      PROVE  NoLostGateWakeup'
    BY <1>9, DoneFrame DEF LeaveGateSub, Goto, AfterLeave, LeftGate
<1>10. ASSUME NEW t \in Threads, LeaveGateStore(t)
      PROVE  NoLostGateWakeup'
    BY <1>10 DEF LeaveGateStore, Goto
<1>11. ASSUME NEW t \in Threads, LeaveGateWake(t)
      PROVE  NoLostGateWakeup'
    BY <1>11, DoneFrame
    DEF LeaveGateWake, FutexWake, Goto, AfterLeave, LeftGate
<1>12. ASSUME NEW t \in Threads, ReadLockInc(t)
      PROVE  NoLostGateWakeup'
    BY <1>12 DEF ReadLockInc, Goto
<1>13. ASSUME NEW t \in Threads, ReadUnlockDec(t)
      PROVE  NoLostGateWakeup'
    BY <1>13, DoneFrame DEF ReadUnlockDec, Goto
<1>14. ASSUME NEW t \in Threads, ReadUnlockWake(t)
      PROVE  NoLostGateWakeup'
    BY <1>14, DoneFrame DEF ReadUnlockWake, FutexWake, Goto
<1>15. ASSUME NEW t \in Threads, WriteLockDec(t)
      PROVE  NoLostGateWakeup'
    BY <1>15 DEF WriteLockDec, Goto, WriterAdmitted, ReturnHolding
<1>16. ASSUME NEW t \in Threads, WriteLockWait(t)
      PROVE  NoLostGateWakeup'
    BY <1>16 DEF WriteLockWait, Goto
<1>17. ASSUME NEW t \in Threads, WriteLockLoad(t)
      PROVE  NoLostGateWakeup'
    BY <1>17 DEF WriteLockLoad, Goto, WriterAdmitted, ReturnHolding
<1>18. ASSUME NEW t \in Threads, WriteUnlockStore(t)
      PROVE  NoLostGateWakeup'
    BY <1>18 DEF WriteUnlockStore, Goto
<1>19. ASSUME NEW t \in Threads, TryWriteModifyTry(t)
      PROVE  NoLostGateWakeup'
    BY <1>19 DEF TryWriteModifyTry, Goto, ReturnHolding
<1>20. ASSUME NEW t \in Threads, TryWriteModifyDec(t)
      PROVE  NoLostGateWakeup'
    BY <1>20 DEF TryWriteModifyDec, Goto
<1>21. ASSUME NEW t \in Threads, WriteModifyDec(t)
      PROVE  NoLostGateWakeup'
    BY <1>21 DEF WriteModifyDec, Goto
<1>22. ASSUME NEW t \in Threads, WriteModifyWake(t)
      PROVE  NoLostGateWakeup'
    BY <1>22 DEF WriteModifyWake, FutexWake, Goto
<1>23. ASSUME NEW t \in Threads, FutexInterrupt(t)
      PROVE  NoLostGateWakeup'
    BY <1>23 DEF FutexInterrupt, Goto
<1>24. ASSUME Destroy
      PROVE  NoLostGateWakeup'
    BY <1>24 DEF Destroy
<1>25. CASE UNCHANGED vars
    BY <1>25 DEF vars
<1>26. QED
    BY <1>1, <1>2, <1>3, <1>4, <1>5, <1>6, <1>7, <1>8, <1>9,
       <1>10, <1>11, <1>12, <1>13, <1>14, <1>15, <1>16, <1>17, <1>18, <1>19,
       <1>20, <1>21, <1>22, <1>23, <1>24, <1>25
    DEF Next, ClientStep, LibraryStep, Terminated

\* Only a reader that finds a writer waiting takes the count below 0, and it
\* wakes the one writer there can be.
LEMMA WriterWakeupStep ==
    ASSUME Typed, GateExclusive, ValRange, NoLostWriterWakeup, [Next]_vars
    PROVE  NoLostWriterWakeup'
<1> USE DEF Typed, GateExclusive, ValRange, NoLostWriterWakeup, Labels
<1>1. ASSUME NEW t \in Threads, Lock(t)
      PROVE  NoLostWriterWakeup'
    BY <1>1 DEF Lock, Call, Goto
<1>2. ASSUME NEW t \in Threads, TryWriteModify(t)
      PROVE  NoLostWriterWakeup'
    BY <1>2 DEF TryWriteModify, Call, Goto, ReturnHolding
<1>3. ASSUME NEW t \in Threads, WriteModify(t)
      PROVE  NoLostWriterWakeup'
    BY <1>3 DEF WriteModify, Call, Goto
<1>4. ASSUME NEW t \in Threads, Unlock(t)
      PROVE  NoLostWriterWakeup'
    BY <1>4 DEF Unlock, Call, Goto, UnlocksAsWriter
<1>5. ASSUME NEW t \in Threads, EnterGateTry(t)
      PROVE  NoLostWriterWakeup'
    BY <1>5 DEF EnterGateTry, Goto, AfterGate
<1>6. ASSUME NEW t \in Threads, EnterGateMark(t)
      PROVE  NoLostWriterWakeup'
    BY <1>6 DEF EnterGateMark, Goto
<1>7. ASSUME NEW t \in Threads, EnterGateWait(t)
      PROVE  NoLostWriterWakeup'
    BY <1>7 DEF EnterGateWait, Goto
<1>8. ASSUME NEW t \in Threads, EnterGateRetry(t)
      PROVE  NoLostWriterWakeup'
    BY <1>8 DEF EnterGateRetry, Goto, AfterGate
<1>9. ASSUME NEW t \in Threads, LeaveGateSub(t)
      PROVE  NoLostWriterWakeup'
    BY <1>9, DoneFrame DEF LeaveGateSub, Goto, AfterLeave, LeftGate
<1>10. ASSUME NEW t \in Threads, LeaveGateStore(t)
      PROVE  NoLostWriterWakeup'
    BY <1>10 DEF LeaveGateStore, Goto
<1>11. ASSUME NEW t \in Threads, LeaveGateWake(t)
      PROVE  NoLostWriterWakeup'
    BY <1>11, DoneFrame
    DEF LeaveGateWake, FutexWake, Goto, AfterLeave, LeftGate
<1>12. ASSUME NEW t \in Threads, ReadLockInc(t)
      PROVE  NoLostWriterWakeup'
    BY <1>12 DEF ReadLockInc, Goto
<1>13. ASSUME NEW t \in Threads, ReadUnlockDec(t)
      PROVE  NoLostWriterWakeup'
    BY <1>13, DoneFrame DEF ReadUnlockDec, Goto
<1>14. ASSUME NEW t \in Threads, ReadUnlockWake(t)
      PROVE  NoLostWriterWakeup'
  <2>1. \A u, v \in Threads : pc[u] = "wl_parked" /\ pc[v] = "wl_parked"
             => u = v
    BY DEF GateHolders
  <2>2. QED
    BY <1>14, <2>1, DoneFrame DEF ReadUnlockWake, FutexWake, Goto
<1>15. ASSUME NEW t \in Threads, WriteLockDec(t)
      PROVE  NoLostWriterWakeup'
  <2>1. \A u \in Threads : pc[u] # "wl_parked"
    BY <1>15 DEF WriteLockDec, GateHolders
  <2>2. QED
    BY <1>15, <2>1 DEF WriteLockDec, Goto, WriterAdmitted, ReturnHolding
<1>16. ASSUME NEW t \in Threads, WriteLockWait(t)
      PROVE  NoLostWriterWakeup'
    BY <1>16 DEF WriteLockWait, Goto
<1>17. ASSUME NEW t \in Threads, WriteLockLoad(t)
      PROVE  NoLostWriterWakeup'
    BY <1>17 DEF WriteLockLoad, Goto, WriterAdmitted, ReturnHolding
<1>18. ASSUME NEW t \in Threads, WriteUnlockStore(t)
      PROVE  NoLostWriterWakeup'
    BY <1>18 DEF WriteUnlockStore, Goto
<1>19. ASSUME NEW t \in Threads, TryWriteModifyTry(t)
      PROVE  NoLostWriterWakeup'
    BY <1>19 DEF TryWriteModifyTry, Goto, ReturnHolding
<1>20. ASSUME NEW t \in Threads, TryWriteModifyDec(t)
      PROVE  NoLostWriterWakeup'
  <2>1. \A u \in Threads : pc[u] # "wl_parked"
    BY <1>20 DEF TryWriteModifyDec, GateHolders
  <2>2. QED
    BY <1>20, <2>1 DEF TryWriteModifyDec, Goto
<1>21. ASSUME NEW t \in Threads, WriteModifyDec(t)
      PROVE  NoLostWriterWakeup'
    BY <1>21 DEF WriteModifyDec, Goto
<1>22. ASSUME NEW t \in Threads, WriteModifyWake(t)
      PROVE  NoLostWriterWakeup'
  <2>1. \A u, v \in Threads : pc[u] = "wl_parked" /\ pc[v] = "wl_parked"
             => u = v
    BY DEF GateHolders
  <2>2. QED
    BY <1>22, <2>1 DEF WriteModifyWake, FutexWake, Goto
<1>23. ASSUME NEW t \in Threads, FutexInterrupt(t)
      PROVE  NoLostWriterWakeup'
    BY <1>23 DEF FutexInterrupt, Goto
<1>24. ASSUME Destroy
      PROVE  NoLostWriterWakeup'
    BY <1>24 DEF Destroy
<1>25. CASE UNCHANGED vars
    BY <1>25 DEF vars
<1>26. QED
    BY <1>1, <1>2, <1>3, <1>4, <1>5, <1>6, <1>7, <1>8, <1>9,
       <1>10, <1>11, <1>12, <1>13, <1>14, <1>15, <1>16, <1>17, <1>18, <1>19,
       <1>20, <1>21, <1>22, <1>23, <1>24, <1>25
    DEF Next, ClientStep, LibraryStep, Terminated

\* A thread asleep in enter_gate is never forgotten.
THEOREM GateWakeup == Spec => []NoLostGateWakeup
<1>1. Init => NoLostGateWakeup /\ Typed
    BY DEF Init, NoLostGateWakeup, Typed, Labels, Methods, Classes
<1>2. NoLostGateWakeup /\ Typed /\ [Next]_vars => (NoLostGateWakeup /\ Typed)'
    BY TypedStep, GateWakeupStep
<1>3. QED
    BY <1>1, <1>2, PTL DEF Spec

\* A writer asleep in write_lock or in a modify method is never forgotten.
THEOREM WriterWakeup ==
    ASSUME FreshLocks
    PROVE  Spec => []NoLostWriterWakeup
<1>1. Init => NoLostWriterWakeup
    BY DEF Init, NoLostWriterWakeup
<1>2. Inv /\ NoLostWriterWakeup /\ [Next]_vars => NoLostWriterWakeup'
    BY WriterWakeupStep DEF Inv
<1>3. QED
    BY <1>1, <1>2, Invariance, PTL DEF Spec
-----------------------------------------------------------------------------
(* The implementation of AbstractRWLock.                                    *)

\* The two ways a step may leave the abstract lock.
AbstractSame ==
    Readers' \cup Upgrading' = Readers \cup Upgrading /\ Admitted' = Admitted

AbstractStep == AbstractSame \/ Abstract!Next

\* Every step is a step of the abstract lock or leaves it as it is.
LEMMA AbstractStepLemma ==
    ASSUME Typed, Locals, GateExclusive, ReadersCounted, [Next]_vars
    PROVE  AbstractStep
<1> USE DEF Typed, Locals, MethodOf, Readers, Upgrading, Admitted, Labels,
            Methods
<1>1. ASSUME NEW t \in Threads, Lock(t)
      PROVE  AbstractStep
  <2>1. AbstractSame
    BY <1>1 DEF Lock, Call, Goto, AbstractSame
  <2>2. QED
    BY <2>1 DEF AbstractStep
<1>2. ASSUME NEW t \in Threads, TryWriteModify(t)
      PROVE  AbstractStep
  <2>1. AbstractSame
    BY <1>2
    DEF TryWriteModify, Call, Goto, ReturnHolding, ClassOf, UnlocksAsWriter,
        AbstractSame
  <2>2. QED
    BY <2>1 DEF AbstractStep
<1>3. ASSUME NEW t \in Threads, WriteModify(t)
      PROVE  AbstractStep
  <2>1. AbstractSame
    BY <1>3 DEF WriteModify, Call, Goto, AbstractSame
  <2>2. QED
    BY <2>1 DEF AbstractStep
<1>4. ASSUME NEW t \in Threads, Unlock(t)
      PROVE  AbstractStep
  <2>1. AbstractSame
    BY <1>4 DEF Unlock, Call, Goto, UnlocksAsWriter, ClassOf, AbstractSame
  <2>2. QED
    BY <2>1 DEF AbstractStep
<1>5. ASSUME NEW t \in Threads, EnterGateTry(t)
      PROVE  AbstractStep
  <2>1. AbstractSame
    BY <1>5 DEF EnterGateTry, Goto, AfterGate, AbstractSame
  <2>2. QED
    BY <2>1 DEF AbstractStep
<1>6. ASSUME NEW t \in Threads, EnterGateMark(t)
      PROVE  AbstractStep
  <2>1. AbstractSame
    BY <1>6 DEF EnterGateMark, Goto, AbstractSame
  <2>2. QED
    BY <2>1 DEF AbstractStep
<1>7. ASSUME NEW t \in Threads, EnterGateWait(t)
      PROVE  AbstractStep
  <2>1. AbstractSame
    BY <1>7 DEF EnterGateWait, Goto, AbstractSame
  <2>2. QED
    BY <2>1 DEF AbstractStep
<1>8. ASSUME NEW t \in Threads, EnterGateRetry(t)
      PROVE  AbstractStep
  <2>1. AbstractSame
    BY <1>8 DEF EnterGateRetry, Goto, AfterGate, AbstractSame
  <2>2. QED
    BY <2>1 DEF AbstractStep
<1>9. ASSUME NEW t \in Threads, LeaveGateSub(t)
      PROVE  AbstractStep
  <2>1. AbstractSame
    BY <1>9, DoneFrame
    DEF LeaveGateSub, Goto, AfterLeave, LeftGate, AbstractSame
  <2>2. QED
    BY <2>1 DEF AbstractStep
<1>10. ASSUME NEW t \in Threads, LeaveGateStore(t)
      PROVE  AbstractStep
  <2>1. AbstractSame
    BY <1>10 DEF LeaveGateStore, Goto, AbstractSame
  <2>2. QED
    BY <2>1 DEF AbstractStep
<1>11. ASSUME NEW t \in Threads, LeaveGateWake(t)
      PROVE  AbstractStep
  <2>1. AbstractSame
    BY <1>11, DoneFrame
    DEF LeaveGateWake, FutexWake, Goto, AfterLeave, LeftGate,
        AbstractSame
  <2>2. QED
    BY <2>1 DEF AbstractStep
<1>12. ASSUME NEW t \in Threads, ReadLockInc(t)
      PROVE  AbstractStep
  <2>1. Admitted = {}
    BY <1>12 DEF ReadLockInc, GateExclusive, GateHolders, Admitted
  <2>2. Abstract!AcquireRead(t)
    BY <1>12, <2>1 DEF ReadLockInc, Goto, Admitted, Abstract!AcquireRead
  <2>3. QED
    BY <2>2 DEF AbstractStep, Abstract!Next
<1>13. ASSUME NEW t \in Threads, ReadUnlockDec(t)
      PROVE  AbstractStep
  <2>1. Abstract!ReleaseRead(t)
    BY <1>13, DoneFrame DEF ReadUnlockDec, Goto, Abstract!ReleaseRead
  <2>2. QED
    BY <2>1 DEF AbstractStep, Abstract!Next
<1>14. ASSUME NEW t \in Threads, ReadUnlockWake(t)
      PROVE  AbstractStep
  <2>1. AbstractSame
    BY <1>14, DoneFrame DEF ReadUnlockWake, FutexWake, Goto, AbstractSame
  <2>2. QED
    BY <2>1 DEF AbstractStep
<1>15. ASSUME NEW t \in Threads, WriteLockDec(t)
      PROVE  AbstractStep
  <2>1. Admitted = {} /\ Upgrading \subseteq {t}
    BY <1>15 DEF WriteLockDec, GateExclusive, GateHolders
  <2>2. CASE pc'[t] = "wl_wait"
    <3>1. AbstractSame
      BY <1>15, <2>2
      DEF WriteLockDec, Goto, WriterAdmitted, ReturnHolding, AbstractSame
    <3>2. QED
      BY <3>1 DEF AbstractStep
  <2>3. CASE pc'[t] = "held_write"
    <3>1. Readers = {}
      <4>1. Writers = {}
        BY <1>15 DEF WriteLockDec, GateExclusive, GateHolders, Writers
      <4>2. nreaders \in Int /\ nreaders < 1
        BY <1>15, <2>3 DEF WriteLockDec, Goto
      <4>3. QED
        BY <4>1, <4>2, CountFacts
    <3>2. Readers' = {} /\ Upgrading' = {} /\ Admitted' = {t}
      BY <1>15, <2>1, <2>3, <3>1
      DEF WriteLockDec, Goto, WriterAdmitted, ReturnHolding
    <3>3. CASE op[t] = "try_write_modify"
      <4>1. Upgrading = {t}
        BY <1>15, <2>1, <3>3 DEF WriteLockDec
      <4>2. Abstract!Upgrade(t)
        BY <2>1, <3>1, <3>2, <4>1 DEF Abstract!Upgrade
      <4>3. QED
        BY <4>2 DEF AbstractStep, Abstract!Next
    <3>4. CASE op[t] # "try_write_modify"
      <4>1. Upgrading = {}
        BY <2>1, <3>4
      <4>2. Abstract!AcquireWrite(t)
        BY <2>1, <3>1, <3>2, <4>1 DEF Abstract!AcquireWrite
      <4>3. QED
        BY <4>2 DEF AbstractStep, Abstract!Next
    <3>5. QED
      BY <3>3, <3>4
  <2>4. QED
    BY <1>15, <2>2, <2>3 DEF WriteLockDec, Goto, WriterAdmitted, ReturnHolding
<1>16. ASSUME NEW t \in Threads, WriteLockWait(t)
      PROVE  AbstractStep
  <2>1. AbstractSame
    BY <1>16 DEF WriteLockWait, Goto, AbstractSame
  <2>2. QED
    BY <2>1 DEF AbstractStep
<1>17. ASSUME NEW t \in Threads, WriteLockLoad(t)
      PROVE  AbstractStep
  <2>1. Admitted = {} /\ Upgrading \subseteq {t}
    BY <1>17 DEF WriteLockLoad, GateExclusive, GateHolders
  <2>2. CASE pc'[t] = "wl_wait"
    <3>1. AbstractSame
      BY <1>17, <2>2
      DEF WriteLockLoad, Goto, WriterAdmitted, ReturnHolding, AbstractSame
    <3>2. QED
      BY <3>1 DEF AbstractStep
  <2>3. CASE pc'[t] = "held_write"
    <3>1. Readers = {}
      <4>1. nreaders \in Int /\ nreaders < 0
        BY <1>17, <2>3 DEF WriteLockLoad, Goto
      <4>2. QED
        BY <4>1, CountFacts
    <3>2. Readers' = {} /\ Upgrading' = {} /\ Admitted' = {t}
      BY <1>17, <2>1, <2>3, <3>1
      DEF WriteLockLoad, Goto, WriterAdmitted, ReturnHolding
    <3>3. CASE op[t] = "try_write_modify"
      <4>1. Upgrading = {t}
        BY <1>17, <2>1, <3>3 DEF WriteLockLoad
      <4>2. Abstract!Upgrade(t)
        BY <2>1, <3>1, <3>2, <4>1 DEF Abstract!Upgrade
      <4>3. QED
        BY <4>2 DEF AbstractStep, Abstract!Next
    <3>4. CASE op[t] # "try_write_modify"
      <4>1. Upgrading = {}
        BY <2>1, <3>4
      <4>2. Abstract!AcquireWrite(t)
        BY <2>1, <3>1, <3>2, <4>1 DEF Abstract!AcquireWrite
      <4>3. QED
        BY <4>2 DEF AbstractStep, Abstract!Next
    <3>5. QED
      BY <3>3, <3>4
  <2>4. QED
    BY <1>17, <2>2, <2>3 DEF WriteLockLoad, Goto, WriterAdmitted, ReturnHolding
<1>18. ASSUME NEW t \in Threads, WriteUnlockStore(t)
      PROVE  AbstractStep
  <2>1. Admitted = {t} /\ Admitted' = {}
    BY <1>18 DEF WriteUnlockStore, Goto, GateExclusive, GateHolders
  <2>2. Abstract!ReleaseWrite(t)
    BY <1>18, <2>1 DEF WriteUnlockStore, Goto, Abstract!ReleaseWrite
  <2>3. QED
    BY <2>2 DEF AbstractStep, Abstract!Next
<1>19. ASSUME NEW t \in Threads, TryWriteModifyTry(t)
      PROVE  AbstractStep
  <2>1. AbstractSame
    BY <1>19 DEF TryWriteModifyTry, Goto, ReturnHolding, AbstractSame
  <2>2. QED
    BY <2>1 DEF AbstractStep
<1>20. ASSUME NEW t \in Threads, TryWriteModifyDec(t)
      PROVE  AbstractStep
  <2>1. AbstractSame
    BY <1>20 DEF TryWriteModifyDec, Goto, AbstractSame
  <2>2. QED
    BY <2>1 DEF AbstractStep
<1>21. ASSUME NEW t \in Threads, WriteModifyDec(t)
      PROVE  AbstractStep
  <2>1. Abstract!ReleaseRead(t)
    BY <1>21 DEF WriteModifyDec, Goto, Abstract!ReleaseRead
  <2>2. QED
    BY <2>1 DEF AbstractStep, Abstract!Next
<1>22. ASSUME NEW t \in Threads, WriteModifyWake(t)
      PROVE  AbstractStep
  <2>1. AbstractSame
    BY <1>22 DEF WriteModifyWake, FutexWake, Goto, AbstractSame
  <2>2. QED
    BY <2>1 DEF AbstractStep
<1>23. ASSUME NEW t \in Threads, FutexInterrupt(t)
      PROVE  AbstractStep
  <2>1. AbstractSame
    BY <1>23 DEF FutexInterrupt, Goto, AbstractSame
  <2>2. QED
    BY <2>1 DEF AbstractStep
<1>24. ASSUME Destroy
      PROVE  AbstractStep
  <2>1. AbstractSame
    BY <1>24 DEF Destroy, AbstractSame
  <2>2. QED
    BY <2>1 DEF AbstractStep
<1>25. CASE UNCHANGED vars
    BY <1>25 DEF vars, AbstractStep, AbstractSame
<1>26. QED
    BY <1>1, <1>2, <1>3, <1>4, <1>5, <1>6, <1>7, <1>8, <1>9,
       <1>10, <1>11, <1>12, <1>13, <1>14, <1>15, <1>16, <1>17, <1>18, <1>19,
       <1>20, <1>21, <1>22, <1>23, <1>24, <1>25
    DEF Next, ClientStep, LibraryStep, Terminated

\* Every behaviour of the lock is one of the abstract lock, with the threads
\* inside their read and write critical sections as its readers and writers.
THEOREM Refinement ==
    ASSUME FreshLocks
    PROVE  Spec => ImplementsAbstract
<1>1. Init => Abstract!Init
    BY DEF Init, Abstract!Init, Readers, Upgrading, Admitted
<1>2. Inv /\ [Next]_vars => [Abstract!Next]_(Abstract!vars)
    BY AbstractStepLemma DEF Inv, AbstractStep, AbstractSame, Abstract!vars
<1>3. QED
    BY <1>1, <1>2, Invariance, PTL DEF Spec, ImplementsAbstract, Abstract!Spec
=============================================================================
