---------------------------- MODULE PILockProofs ----------------------------
(***************************************************************************)
(* Proofs about PILock, for any set of threads.                            *)
(***************************************************************************)
EXTENDS PILock, SequenceLemmas

USE DEF Step, Goto

\* Types, with the kernel's queue: the blocked threads, once each.
Typed ==
    /\ gate \in [tid : Threads \cup {NoTid}, waiters : BOOLEAN, died : BOOLEAN]
    /\ pc \in [Threads -> Labels]
    /\ queue \in Seq(Threads) /\ IsInjective(queue)
    /\ Range(queue) = {t \in Threads : pc[t] = "lk_blocked"}
    /\ aborted \in BOOLEAN /\ retried \in BOOLEAN

\* A word without an owner is 0, so that futex_lock_pi's exchange succeeds.
FreeWord == gate.tid = NoTid => gate = Free

\* While somebody is queued, the word names an owner and says so.
WaitersNamed == queue # <<>> => gate.tid \in Threads /\ gate.waiters

\* Whoever calls FUTEX_UNLOCK_PI has the lock, and somebody queued for it.
UnlockerOwns ==
    \A t \in Threads : pc[t] = "ul_sys" => gate.tid = t /\ gate.waiters

\* Unless a PI call let an error pass, lock() has returned to the owner only.
HoldersOwn == ~retried => \A t \in Holders : gate.tid = t

\* No PI call failed and nobody died.
Undisturbed == ~retried /\ \A t \in Threads : pc[t] # "dead"

\* Then the word never says so, and its owner is on its way to unlock().
OrderlyWord ==
    Undisturbed =>
        /\ ~aborted /\ ~gate.died
        /\ \A t \in Threads : pc[t] # "thrown"
        /\ gate.tid \in Threads => gate.tid \in Holders

\* Nobody queues for the lock of a dead thread.  Unless a PI call let an error
\* pass, the owner is yet to unlock, is dead, or unlock() has thrown.
OwnerActive ==
    gate.tid \in Threads =>
        /\ pc[gate.tid] = "dead" => queue = <<>>
        /\ ~retried => \/ gate.tid \in Holders
                       \/ pc[gate.tid] = "dead"
                       \/ pc[gate.tid] = "thrown"

\* The inductive invariant.
Inv ==
    /\ Typed /\ FreeWord /\ WaitersNamed /\ UnlockerOwns
    /\ HoldersOwn /\ OrderlyWord /\ OwnerActive /\ OwnerMayUnlock

\* The lock is constructed free, with nobody waiting.
LEMMA InvInit ==
    ASSUME Init
    PROVE  Inv
<1> USE NoTidAssumption DEF Init, Free, Word, Holders
<1>1. queue \in Seq(Threads) /\ IsInjective(queue) /\ Range(queue) = {}
    BY EmptyDistinct
<1>2. Typed
    BY <1>1 DEF Typed, Labels
<1>3. /\ FreeWord /\ WaitersNamed /\ UnlockerOwns
      /\ HoldersOwn /\ OrderlyWord /\ OwnerActive /\ OwnerMayUnlock
    BY DEF FreeWord, WaitersNamed, UnlockerOwns, HoldersOwn, OrderlyWord,
           OwnerActive, OwnerMayUnlock
<1>4. QED
    BY <1>2, <1>3 DEF Inv

\* The threads that are blocked in FUTEX_LOCK_PI.
Blocked == {t \in Threads : pc[t] = "lk_blocked"}

\* The queue's part of the types.
QueueOK ==
    queue \in Seq(Threads) /\ IsInjective(queue) /\ Range(queue) = Blocked

\* Handing the lock over takes the new owner, who was blocked, from the queue.
LEMMA HandOverQueue ==
    ASSUME Typed, queue # <<>>,
           NEW t \in Threads, pc[t] # "lk_blocked",
           NEW label \in Labels \ {"lk_blocked"}, NEW died,
           HandOver(t, label, died)
    PROVE  /\ Head(queue) \in Threads /\ pc[Head(queue)] = "lk_blocked"
           /\ pc' \in [Threads -> Labels]
           /\ QueueOK'
<1> DEFINE h == Head(queue)
<1>1. /\ queue \in Seq(Threads) /\ IsInjective(queue) /\ Range(queue) = Blocked
      /\ pc \in [Threads -> Labels]
    BY DEF Typed, Blocked
<1>2. /\ h \in Blocked
      /\ queue' \in Seq(Threads) /\ IsInjective(queue')
      /\ Range(queue') = Blocked \ {h}
    BY <1>1, TailDistinct DEF HandOver
<1>3. h \in Threads /\ pc[h] = "lk_blocked" /\ h # t
    BY <1>2 DEF Blocked
<1>4. pc' = [pc EXCEPT ![t] = label, ![h] = "held"]
    BY DEF HandOver
<1> HIDE DEF h
<1>5. Blocked' = Blocked \ {h}
    BY <1>1, <1>3, <1>4 DEF Blocked
<1>6. pc' \in [Threads -> Labels]
    BY <1>1, <1>3, <1>4 DEF Labels
<1>7. QED
    BY <1>2, <1>3, <1>5, <1>6 DEF QueueOK, h

\* Every step keeps the queue.
LEMMA QueueStep ==
    ASSUME Typed, [Next]_vars
    PROVE  QueueOK'
<1>0. QueueOK /\ pc \in [Threads -> Labels]
    BY DEF Typed, QueueOK, Blocked
<1>1. ASSUME NEW t \in Threads, CallLock(t)
      PROVE  QueueOK'
    BY <1>0, <1>1 DEF CallLock, QueueOK, Blocked
<1>2. ASSUME NEW t \in Threads, LockExchange(t)
      PROVE  QueueOK'
    BY <1>0, <1>2 DEF LockExchange, QueueOK, Blocked
<1>3. ASSUME NEW t \in Threads, LockSyscall(t)
      PROVE  QueueOK'
  <2>1. CASE UNCHANGED <<queue, Blocked>>
    BY <1>0, <2>1 DEF QueueOK
  <2>2. CASE queue' = Append(queue, t) /\ Goto(t, "lk_blocked")
    <3>1. t \notin Blocked
        BY <1>3 DEF LockSyscall, Blocked
    <3>2. Blocked' = Blocked \cup {t}
        BY <1>0, <2>2 DEF Blocked
    <3>3. QED
        BY <1>0, <2>2, <3>1, <3>2, AppendDistinct DEF QueueOK
  <2>3. QED
    BY <1>0, <1>3, <2>1, <2>2 DEF LockSyscall, Blocked
<1>4. ASSUME NEW t \in Threads, LockRetry(t)
      PROVE  QueueOK'
  <2>1. CASE pc[t] = "lk_sys" /\ UNCHANGED queue
    BY <1>0, <1>4, <2>1 DEF LockRetry, QueueOK, Blocked
  <2>2. ASSUME NEW i \in 1..Len(queue), pc[t] = "lk_blocked",
               queue[i] = t, queue' = RemoveAt(queue, i)
        PROVE  QueueOK'
    <3>1. Blocked' = Blocked \ {t}
        BY <1>0, <1>4 DEF LockRetry, Blocked
    <3>2. QED
        BY <1>0, <2>2, <3>1, RemoveAtDistinct DEF QueueOK
  <2>3. QED
    BY <1>4, <2>1, <2>2 DEF LockRetry
<1>5. ASSUME NEW t \in Threads, CallUnlock(t)
      PROVE  QueueOK'
    BY <1>0, <1>5 DEF CallUnlock, QueueOK, Blocked
<1>6. ASSUME NEW t \in Threads, UnlockExchange(t)
      PROVE  QueueOK'
    BY <1>0, <1>6 DEF UnlockExchange, QueueOK, Blocked
<1>7. ASSUME NEW t \in Threads, UnlockSyscall(t)
      PROVE  QueueOK'
  <2>1. CASE HandOver(t, "idle", FALSE)
    BY <1>7, <2>1, HandOverQueue DEF UnlockSyscall, HandOver, Labels
  <2>2. CASE UNCHANGED queue /\ Goto(t, "idle")
    BY <1>0, <1>7, <2>2 DEF UnlockSyscall, QueueOK, Blocked
  <2>3. QED
    BY <1>7, <2>1, <2>2 DEF UnlockSyscall
<1>8. ASSUME NEW t \in Threads, UnlockRetry(t)
      PROVE  QueueOK'
    BY <1>0, <1>8 DEF UnlockRetry, QueueOK, Blocked
<1>9. ASSUME NEW t \in Threads, Die(t)
      PROVE  QueueOK'
  <2>1. CASE HandOver(t, "dead", TRUE)
    BY <1>9, <2>1, HandOverQueue DEF Die, HandOver, Labels
  <2>2. CASE UNCHANGED queue /\ Goto(t, "dead")
    BY <1>0, <1>9, <2>2 DEF Die, QueueOK, Blocked
  <2>3. QED
    BY <1>9, <2>1, <2>2 DEF Die
<1>10. CASE UNCHANGED vars
    BY <1>0, <1>10 DEF vars, QueueOK, Blocked
<1>11. QED
    BY <1>1, <1>2, <1>3, <1>4, <1>5, <1>6, <1>7, <1>8, <1>9, <1>10
    DEF Next, LibraryStep, Stopped

\* What a futex word can be.
Words == [tid : Threads \cup {NoTid}, waiters : BOOLEAN, died : BOOLEAN]

\* Words are made of their parts.
LEMMA WordOfParts ==
    ASSUME NEW tid \in Threads \cup {NoTid}, NEW waiters \in BOOLEAN,
           NEW died \in BOOLEAN
    PROVE  /\ Word(tid, waiters, died) \in Words
           /\ Word(tid, waiters, died).tid = tid
           /\ Word(tid, waiters, died).waiters = waiters
           /\ Word(tid, waiters, died).died = died
    BY DEF Word, Words

\* The parts of a word determine it.
LEMMA PartsOfWord ==
    ASSUME NEW w \in Words
    PROVE  /\ w = Word(w.tid, w.waiters, w.died)
           /\ w.tid \in Threads \cup {NoTid}
           /\ w.waiters \in BOOLEAN /\ w.died \in BOOLEAN
    BY DEF Word, Words

\* The word of a free lock.
LEMMA FreeParts ==
    /\ Free \in Words
    /\ Free.tid = NoTid /\ Free.waiters = FALSE /\ Free.died = FALSE
    BY DEF Word, Words, Free

\* Every step keeps the types.
LEMMA TypeStep ==
    ASSUME Typed, [Next]_vars
    PROVE  Typed'
<1> DEFINE Types == /\ gate' \in Words
                    /\ pc' \in [Threads -> Labels]
                    /\ aborted' \in BOOLEAN /\ retried' \in BOOLEAN
<1>0. /\ gate \in Words /\ pc \in [Threads -> Labels]
      /\ aborted \in BOOLEAN /\ retried \in BOOLEAN
    BY DEF Typed, Words
<1> USE DEF Labels
<1>1. ASSUME NEW t \in Threads, CallLock(t)
      PROVE  Types
    BY <1>0, <1>1 DEF CallLock
<1>2. ASSUME NEW t \in Threads, LockExchange(t)
      PROVE  Types
    BY <1>0, <1>2, WordOfParts, FreeParts DEF LockExchange, Unlocked
<1>3. ASSUME NEW t \in Threads, LockSyscall(t)
      PROVE  Types
  <2>1. gate' \in Words
    <3>1. gate' = gate \/ gate' = Word(t, FALSE, FALSE)
          \/ gate' = Word(gate.tid, TRUE, gate.died)
        BY <1>3 DEF LockSyscall
    <3>2. /\ gate.tid \in Threads \cup {NoTid}
          /\ gate.waiters \in BOOLEAN /\ gate.died \in BOOLEAN
        BY <1>0, PartsOfWord
    <3>3. /\ Word(gate.tid, TRUE, gate.died) \in Words
          /\ Word(t, FALSE, FALSE) \in Words
        BY <3>2, Zenon DEF Word, Words
    <3>4. QED
        BY <1>0, <3>1, <3>3
  <2>2. QED
    BY <1>0, <1>3, <2>1 DEF LockSyscall
<1>4. ASSUME NEW t \in Threads, LockRetry(t)
      PROVE  Types
    BY <1>0, <1>4 DEF LockRetry
<1>5. ASSUME NEW t \in Threads, CallUnlock(t)
      PROVE  Types
    BY <1>0, <1>5 DEF CallUnlock
<1>6. ASSUME NEW t \in Threads, UnlockExchange(t)
      PROVE  Types
    BY <1>0, <1>6, WordOfParts, FreeParts
    DEF UnlockExchange, Owned, OwnedContended, desired
<1>7. ASSUME NEW t \in Threads, UnlockSyscall(t)
      PROVE  Types
  <2>1. CASE HandOver(t, "idle", FALSE)
    <3>1. Head(queue) \in Threads /\ pc' \in [Threads -> Labels]
        BY <1>7, <2>1, HandOverQueue DEF UnlockSyscall, HandOver
    <3>2. QED
        BY <1>0, <1>7, <2>1, <3>1, WordOfParts
        DEF UnlockSyscall, HandOver
  <2>2. CASE gate' = Free /\ Goto(t, "idle")
    BY <1>0, <1>7, <2>2, WordOfParts, FreeParts DEF UnlockSyscall
  <2>3. QED
    BY <1>7, <2>1, <2>2 DEF UnlockSyscall
<1>8. ASSUME NEW t \in Threads, UnlockRetry(t)
      PROVE  Types
    BY <1>0, <1>8 DEF UnlockRetry
<1>9. ASSUME NEW t \in Threads, Die(t)
      PROVE  Types
  <2>1. CASE HandOver(t, "dead", TRUE)
    <3>1. Head(queue) \in Threads /\ pc' \in [Threads -> Labels]
        BY <1>9, <2>1, HandOverQueue DEF Die, HandOver
    <3>2. QED
        BY <1>0, <1>9, <2>1, <3>1, WordOfParts, FreeParts DEF Die, HandOver
  <2>2. CASE gate' = gate /\ Goto(t, "dead")
    BY <1>0, <1>9, <2>2 DEF Die
  <2>3. QED
    BY <1>9, <2>1, <2>2 DEF Die
<1>10. ASSUME UNCHANGED vars
       PROVE  Types
    BY <1>0, <1>10 DEF vars
<1>11. Types
    BY <1>1, <1>2, <1>3, <1>4, <1>5, <1>6, <1>7, <1>8, <1>9, <1>10
    DEF Next, LibraryStep, Stopped
<1>12. QED
    BY <1>11, QueueStep DEF Typed, QueueOK, Blocked, Words

\* Every step keeps a word without an owner 0.
LEMMA FreeWordStep ==
    ASSUME Inv, [Next]_vars
    PROVE  FreeWord'
<1>0. Typed /\ FreeWord
    BY DEF Inv
<1> USE DEF Typed, FreeWord, Free, Word
<1>1. ASSUME NEW t \in Threads, CallLock(t)
      PROVE  FreeWord'
    BY <1>0, <1>1, NoTidAssumption DEF CallLock
<1>2. ASSUME NEW t \in Threads, LockExchange(t)
      PROVE  FreeWord'
    BY <1>0, <1>2, NoTidAssumption DEF LockExchange, Unlocked
<1>3. ASSUME NEW t \in Threads, LockSyscall(t)
      PROVE  FreeWord'
    BY <1>0, <1>3, NoTidAssumption DEF LockSyscall
<1>4. ASSUME NEW t \in Threads, LockRetry(t)
      PROVE  FreeWord'
    BY <1>0, <1>4, NoTidAssumption DEF LockRetry
<1>5. ASSUME NEW t \in Threads, CallUnlock(t)
      PROVE  FreeWord'
    BY <1>0, <1>5, NoTidAssumption DEF CallUnlock
<1>6. ASSUME NEW t \in Threads, UnlockExchange(t)
      PROVE  FreeWord'
    BY <1>0, <1>6, NoTidAssumption
    DEF UnlockExchange, Owned, OwnedContended, desired
<1>7. ASSUME NEW t \in Threads, UnlockSyscall(t)
      PROVE  FreeWord'
  <2>0. pc[t] = "ul_sys" /\ UNCHANGED <<aborted, retried>>
    BY <1>7 DEF UnlockSyscall
  <2>1. CASE HandOver(t, "idle", FALSE)
    <3>1. Head(queue) \in Threads /\ pc[Head(queue)] = "lk_blocked"
        BY <1>0, <2>0, <2>1, HandOverQueue DEF HandOver, Labels
    <3>2. QED
        BY <1>0, <2>0, <2>1, <3>1, NoTidAssumption DEF HandOver
  <2>2. CASE queue = <<>> /\ gate' = Free /\ Goto(t, "idle") /\ UNCHANGED queue
    BY <1>0, <2>0, <2>2, NoTidAssumption
  <2>3. QED
    BY <1>7, <2>1, <2>2 DEF UnlockSyscall
<1>8. ASSUME NEW t \in Threads, UnlockRetry(t)
      PROVE  FreeWord'
    BY <1>0, <1>8, NoTidAssumption DEF UnlockRetry
<1>9. ASSUME NEW t \in Threads, Die(t)
      PROVE  FreeWord'
  <2>0. pc[t] = "held" /\ UNCHANGED <<aborted, retried>>
    BY <1>9 DEF Die
  <2>1. CASE gate.tid = t /\ HandOver(t, "dead", TRUE)
    <3>1. Head(queue) \in Threads /\ pc[Head(queue)] = "lk_blocked"
        BY <1>0, <2>0, <2>1, HandOverQueue DEF HandOver, Labels
    <3>2. QED
        BY <1>0, <2>0, <2>1, <3>1, NoTidAssumption DEF HandOver
  <2>2. CASE /\ gate.tid # t \/ queue = <<>>
             /\ Goto(t, "dead") /\ UNCHANGED <<gate, queue>>
    BY <1>0, <2>0, <2>2, NoTidAssumption
  <2>3. QED
    BY <1>9, <2>1, <2>2 DEF Die
<1>10. CASE UNCHANGED vars
    BY <1>0, <1>10 DEF vars
<1>11. QED
    BY <1>1, <1>2, <1>3, <1>4, <1>5, <1>6, <1>7, <1>8, <1>9, <1>10
    DEF Next, LibraryStep, Stopped

\* Every step keeps an owner that knows of its waiters.
LEMMA StrandedStep ==
    ASSUME Inv, [Next]_vars
    PROVE  WaitersNamed'
<1>0. Typed /\ WaitersNamed /\ UnlockerOwns /\ FreeWord
    BY DEF Inv
<1> USE DEF Typed, WaitersNamed, UnlockerOwns, FreeWord, Free, Word
<1>1. ASSUME NEW t \in Threads, CallLock(t)
      PROVE  WaitersNamed'
    BY <1>0, <1>1, NoTidAssumption DEF CallLock
<1>2. ASSUME NEW t \in Threads, LockExchange(t)
      PROVE  WaitersNamed'
    BY <1>0, <1>2, NoTidAssumption DEF LockExchange, Unlocked
<1>3. ASSUME NEW t \in Threads, LockSyscall(t)
      PROVE  WaitersNamed'
    BY <1>0, <1>3, NoTidAssumption DEF LockSyscall
<1>4. ASSUME NEW t \in Threads, LockRetry(t)
      PROVE  WaitersNamed'
    BY <1>0, <1>4, NoTidAssumption DEF LockRetry
<1>5. ASSUME NEW t \in Threads, CallUnlock(t)
      PROVE  WaitersNamed'
    BY <1>0, <1>5, NoTidAssumption DEF CallUnlock
<1>6. ASSUME NEW t \in Threads, UnlockExchange(t)
      PROVE  WaitersNamed'
    BY <1>0, <1>6, NoTidAssumption
    DEF UnlockExchange, Owned, OwnedContended, desired
<1>7. ASSUME NEW t \in Threads, UnlockSyscall(t)
      PROVE  WaitersNamed'
  <2>0. pc[t] = "ul_sys" /\ UNCHANGED <<aborted, retried>>
    BY <1>7 DEF UnlockSyscall
  <2>1. CASE HandOver(t, "idle", FALSE)
    <3>1. Head(queue) \in Threads /\ pc[Head(queue)] = "lk_blocked"
        BY <1>0, <2>0, <2>1, HandOverQueue DEF HandOver, Labels
    <3>2. QED
        BY <1>0, <2>0, <2>1, <3>1, NoTidAssumption DEF HandOver
  <2>2. CASE queue = <<>> /\ gate' = Free /\ Goto(t, "idle") /\ UNCHANGED queue
    BY <1>0, <2>0, <2>2, NoTidAssumption
  <2>3. QED
    BY <1>7, <2>1, <2>2 DEF UnlockSyscall
<1>8. ASSUME NEW t \in Threads, UnlockRetry(t)
      PROVE  WaitersNamed'
    BY <1>0, <1>8, NoTidAssumption DEF UnlockRetry
<1>9. ASSUME NEW t \in Threads, Die(t)
      PROVE  WaitersNamed'
  <2>0. pc[t] = "held" /\ UNCHANGED <<aborted, retried>>
    BY <1>9 DEF Die
  <2>1. CASE gate.tid = t /\ HandOver(t, "dead", TRUE)
    <3>1. Head(queue) \in Threads /\ pc[Head(queue)] = "lk_blocked"
        BY <1>0, <2>0, <2>1, HandOverQueue DEF HandOver, Labels
    <3>2. QED
        BY <1>0, <2>0, <2>1, <3>1, NoTidAssumption DEF HandOver
  <2>2. CASE /\ gate.tid # t \/ queue = <<>>
             /\ Goto(t, "dead") /\ UNCHANGED <<gate, queue>>
    BY <1>0, <2>0, <2>2, NoTidAssumption
  <2>3. QED
    BY <1>9, <2>1, <2>2 DEF Die
<1>10. CASE UNCHANGED vars
    BY <1>0, <1>10 DEF vars
<1>11. QED
    BY <1>1, <1>2, <1>3, <1>4, <1>5, <1>6, <1>7, <1>8, <1>9, <1>10
    DEF Next, LibraryStep, Stopped

\* Every step keeps the lock of whoever hands it over.
LEMMA UnlockerStep ==
    ASSUME Inv, [Next]_vars
    PROVE  UnlockerOwns'
<1>0. Typed /\ UnlockerOwns
    BY DEF Inv
<1> USE DEF Typed, UnlockerOwns, Free, Word
<1>1. ASSUME NEW t \in Threads, CallLock(t)
      PROVE  UnlockerOwns'
    BY <1>0, <1>1, NoTidAssumption DEF CallLock
<1>2. ASSUME NEW t \in Threads, LockExchange(t)
      PROVE  UnlockerOwns'
    BY <1>0, <1>2, NoTidAssumption DEF LockExchange, Unlocked
<1>3. ASSUME NEW t \in Threads, LockSyscall(t)
      PROVE  UnlockerOwns'
    BY <1>0, <1>3, NoTidAssumption DEF LockSyscall
<1>4. ASSUME NEW t \in Threads, LockRetry(t)
      PROVE  UnlockerOwns'
    BY <1>0, <1>4, NoTidAssumption DEF LockRetry
<1>5. ASSUME NEW t \in Threads, CallUnlock(t)
      PROVE  UnlockerOwns'
    BY <1>0, <1>5, NoTidAssumption DEF CallUnlock
<1>6. ASSUME NEW t \in Threads, UnlockExchange(t)
      PROVE  UnlockerOwns'
    BY <1>0, <1>6, NoTidAssumption
    DEF UnlockExchange, Owned, OwnedContended, desired
<1>7. ASSUME NEW t \in Threads, UnlockSyscall(t)
      PROVE  UnlockerOwns'
  <2>0. pc[t] = "ul_sys" /\ UNCHANGED <<aborted, retried>>
    BY <1>7 DEF UnlockSyscall
  <2>1. CASE HandOver(t, "idle", FALSE)
    <3>1. Head(queue) \in Threads /\ pc[Head(queue)] = "lk_blocked"
        BY <1>0, <2>0, <2>1, HandOverQueue DEF HandOver, Labels
    <3>2. QED
        BY <1>0, <2>0, <2>1, <3>1, NoTidAssumption DEF HandOver
  <2>2. CASE queue = <<>> /\ gate' = Free /\ Goto(t, "idle") /\ UNCHANGED queue
    BY <1>0, <2>0, <2>2, NoTidAssumption
  <2>3. QED
    BY <1>7, <2>1, <2>2 DEF UnlockSyscall
<1>8. ASSUME NEW t \in Threads, UnlockRetry(t)
      PROVE  UnlockerOwns'
    BY <1>0, <1>8, NoTidAssumption DEF UnlockRetry
<1>9. ASSUME NEW t \in Threads, Die(t)
      PROVE  UnlockerOwns'
  <2>0. pc[t] = "held" /\ UNCHANGED <<aborted, retried>>
    BY <1>9 DEF Die
  <2>1. CASE gate.tid = t /\ HandOver(t, "dead", TRUE)
    <3>1. Head(queue) \in Threads /\ pc[Head(queue)] = "lk_blocked"
        BY <1>0, <2>0, <2>1, HandOverQueue DEF HandOver, Labels
    <3>2. QED
        BY <1>0, <2>0, <2>1, <3>1, NoTidAssumption DEF HandOver
  <2>2. CASE /\ gate.tid # t \/ queue = <<>>
             /\ Goto(t, "dead") /\ UNCHANGED <<gate, queue>>
    BY <1>0, <2>0, <2>2, NoTidAssumption
  <2>3. QED
    BY <1>9, <2>1, <2>2 DEF Die
<1>10. CASE UNCHANGED vars
    BY <1>0, <1>10 DEF vars
<1>11. QED
    BY <1>1, <1>2, <1>3, <1>4, <1>5, <1>6, <1>7, <1>8, <1>9, <1>10
    DEF Next, LibraryStep, Stopped

\* Every step keeps the owner the only holder.
LEMMA HoldersStep ==
    ASSUME Inv, [Next]_vars
    PROVE  HoldersOwn'
<1>0. Typed /\ HoldersOwn /\ UnlockerOwns
    BY DEF Inv
<1> USE DEF Typed, HoldersOwn, UnlockerOwns,
            Holders, Free, Word
<1>1. ASSUME NEW t \in Threads, CallLock(t)
      PROVE  HoldersOwn'
    BY <1>0, <1>1, NoTidAssumption DEF CallLock
<1>2. ASSUME NEW t \in Threads, LockExchange(t)
      PROVE  HoldersOwn'
    BY <1>0, <1>2, NoTidAssumption DEF LockExchange, Unlocked
<1>3. ASSUME NEW t \in Threads, LockSyscall(t)
      PROVE  HoldersOwn'
    BY <1>0, <1>3, NoTidAssumption DEF LockSyscall
<1>4. ASSUME NEW t \in Threads, LockRetry(t)
      PROVE  HoldersOwn'
    BY <1>0, <1>4, NoTidAssumption DEF LockRetry
<1>5. ASSUME NEW t \in Threads, CallUnlock(t)
      PROVE  HoldersOwn'
    BY <1>0, <1>5, NoTidAssumption DEF CallUnlock
<1>6. ASSUME NEW t \in Threads, UnlockExchange(t)
      PROVE  HoldersOwn'
    BY <1>0, <1>6, NoTidAssumption
    DEF UnlockExchange, Owned, OwnedContended, desired
<1>7. ASSUME NEW t \in Threads, UnlockSyscall(t)
      PROVE  HoldersOwn'
  <2>0. pc[t] = "ul_sys" /\ UNCHANGED <<aborted, retried>>
    BY <1>7 DEF UnlockSyscall
  <2>1. CASE HandOver(t, "idle", FALSE)
    <3>1. Head(queue) \in Threads /\ pc[Head(queue)] = "lk_blocked"
        BY <1>0, <2>0, <2>1, HandOverQueue DEF HandOver, Labels
    <3>2. QED
        BY <1>0, <2>0, <2>1, <3>1, NoTidAssumption DEF HandOver
  <2>2. CASE queue = <<>> /\ gate' = Free /\ Goto(t, "idle") /\ UNCHANGED queue
    BY <1>0, <2>0, <2>2, NoTidAssumption
  <2>3. QED
    BY <1>7, <2>1, <2>2 DEF UnlockSyscall
<1>8. ASSUME NEW t \in Threads, UnlockRetry(t)
      PROVE  HoldersOwn'
    BY <1>0, <1>8, NoTidAssumption DEF UnlockRetry
<1>9. ASSUME NEW t \in Threads, Die(t)
      PROVE  HoldersOwn'
  <2>0. pc[t] = "held" /\ UNCHANGED <<aborted, retried>>
    BY <1>9 DEF Die
  <2>1. CASE gate.tid = t /\ HandOver(t, "dead", TRUE)
    <3>1. Head(queue) \in Threads /\ pc[Head(queue)] = "lk_blocked"
        BY <1>0, <2>0, <2>1, HandOverQueue DEF HandOver, Labels
    <3>2. QED
        BY <1>0, <2>0, <2>1, <3>1, NoTidAssumption DEF HandOver
  <2>2. CASE /\ gate.tid # t \/ queue = <<>>
             /\ Goto(t, "dead") /\ UNCHANGED <<gate, queue>>
    BY <1>0, <2>0, <2>2, NoTidAssumption
  <2>3. QED
    BY <1>9, <2>1, <2>2 DEF Die
<1>10. CASE UNCHANGED vars
    BY <1>0, <1>10 DEF vars
<1>11. QED
    BY <1>1, <1>2, <1>3, <1>4, <1>5, <1>6, <1>7, <1>8, <1>9, <1>10
    DEF Next, LibraryStep, Stopped

\* Undisturbed, every step keeps the word in order.
LEMMA OrderlyStep ==
    ASSUME Inv, [Next]_vars
    PROVE  OrderlyWord'
<1>0. Typed /\ OrderlyWord /\ HoldersOwn /\ UnlockerOwns
    BY DEF Inv
<1> USE DEF Typed, OrderlyWord, Undisturbed, HoldersOwn, UnlockerOwns,
            Holders, Free, Word
<1>1. ASSUME NEW t \in Threads, CallLock(t)
      PROVE  OrderlyWord'
    BY <1>0, <1>1, NoTidAssumption DEF CallLock
<1>2. ASSUME NEW t \in Threads, LockExchange(t)
      PROVE  OrderlyWord'
    BY <1>0, <1>2, NoTidAssumption DEF LockExchange, Unlocked
<1>3. ASSUME NEW t \in Threads, LockSyscall(t)
      PROVE  OrderlyWord'
    BY <1>0, <1>3, NoTidAssumption DEF LockSyscall
<1>4. ASSUME NEW t \in Threads, LockRetry(t)
      PROVE  OrderlyWord'
    BY <1>0, <1>4, NoTidAssumption DEF LockRetry
<1>5. ASSUME NEW t \in Threads, CallUnlock(t)
      PROVE  OrderlyWord'
    BY <1>0, <1>5, NoTidAssumption DEF CallUnlock
<1>6. ASSUME NEW t \in Threads, UnlockExchange(t)
      PROVE  OrderlyWord'
    BY <1>0, <1>6, NoTidAssumption
    DEF UnlockExchange, Owned, OwnedContended, desired
<1>7. ASSUME NEW t \in Threads, UnlockSyscall(t)
      PROVE  OrderlyWord'
  <2>0. pc[t] = "ul_sys" /\ UNCHANGED <<aborted, retried>>
    BY <1>7 DEF UnlockSyscall
  <2>1. CASE HandOver(t, "idle", FALSE)
    <3>1. Head(queue) \in Threads /\ pc[Head(queue)] = "lk_blocked"
        BY <1>0, <2>0, <2>1, HandOverQueue DEF HandOver, Labels
    <3>2. QED
        BY <1>0, <2>0, <2>1, <3>1, NoTidAssumption DEF HandOver
  <2>2. CASE queue = <<>> /\ gate' = Free /\ Goto(t, "idle") /\ UNCHANGED queue
    BY <1>0, <2>0, <2>2, NoTidAssumption
  <2>3. QED
    BY <1>7, <2>1, <2>2 DEF UnlockSyscall
<1>8. ASSUME NEW t \in Threads, UnlockRetry(t)
      PROVE  OrderlyWord'
    BY <1>0, <1>8, NoTidAssumption DEF UnlockRetry
<1>9. ASSUME NEW t \in Threads, Die(t)
      PROVE  OrderlyWord'
  <2>0. pc[t] = "held" /\ UNCHANGED <<aborted, retried>>
    BY <1>9 DEF Die
  <2>1. CASE gate.tid = t /\ HandOver(t, "dead", TRUE)
    <3>1. Head(queue) \in Threads /\ pc[Head(queue)] = "lk_blocked"
        BY <1>0, <2>0, <2>1, HandOverQueue DEF HandOver, Labels
    <3>2. QED
        BY <1>0, <2>0, <2>1, <3>1, NoTidAssumption DEF HandOver
  <2>2. CASE /\ gate.tid # t \/ queue = <<>>
             /\ Goto(t, "dead") /\ UNCHANGED <<gate, queue>>
    BY <1>0, <2>0, <2>2, NoTidAssumption
  <2>3. QED
    BY <1>9, <2>1, <2>2 DEF Die
<1>10. CASE UNCHANGED vars
    BY <1>0, <1>10 DEF vars
<1>11. QED
    BY <1>1, <1>2, <1>3, <1>4, <1>5, <1>6, <1>7, <1>8, <1>9, <1>10
    DEF Next, LibraryStep, Stopped

\* Every step keeps the owner active.
LEMMA OwnerActiveStep ==
    ASSUME Inv, [Next]_vars
    PROVE  OwnerActive'
<1>0. Typed /\ OwnerActive /\ HoldersOwn /\ UnlockerOwns /\ FreeWord
    BY DEF Inv
<1> USE DEF Typed, OwnerActive, HoldersOwn, UnlockerOwns, FreeWord,
            Holders, Free, Word
<1>1. ASSUME NEW t \in Threads, CallLock(t)
      PROVE  OwnerActive'
    BY <1>0, <1>1, NoTidAssumption DEF CallLock
<1>2. ASSUME NEW t \in Threads, LockExchange(t)
      PROVE  OwnerActive'
    BY <1>0, <1>2, NoTidAssumption DEF LockExchange, Unlocked
<1>3. ASSUME NEW t \in Threads, LockSyscall(t)
      PROVE  OwnerActive'
    BY <1>0, <1>3, NoTidAssumption DEF LockSyscall
<1>4. ASSUME NEW t \in Threads, LockRetry(t)
      PROVE  OwnerActive'
    BY <1>0, <1>4, NoTidAssumption DEF LockRetry
<1>5. ASSUME NEW t \in Threads, CallUnlock(t)
      PROVE  OwnerActive'
    BY <1>0, <1>5, NoTidAssumption DEF CallUnlock
<1>6. ASSUME NEW t \in Threads, UnlockExchange(t)
      PROVE  OwnerActive'
    BY <1>0, <1>6, NoTidAssumption
    DEF UnlockExchange, Owned, OwnedContended, desired
<1>7. ASSUME NEW t \in Threads, UnlockSyscall(t)
      PROVE  OwnerActive'
  <2>0. pc[t] = "ul_sys" /\ UNCHANGED <<aborted, retried>>
    BY <1>7 DEF UnlockSyscall
  <2>1. CASE HandOver(t, "idle", FALSE)
    <3>1. Head(queue) \in Threads /\ pc[Head(queue)] = "lk_blocked"
        BY <1>0, <2>0, <2>1, HandOverQueue DEF HandOver, Labels
    <3>2. QED
        BY <1>0, <2>0, <2>1, <3>1, NoTidAssumption DEF HandOver
  <2>2. CASE queue = <<>> /\ gate' = Free /\ Goto(t, "idle") /\ UNCHANGED queue
    BY <1>0, <2>0, <2>2, NoTidAssumption
  <2>3. QED
    BY <1>7, <2>1, <2>2 DEF UnlockSyscall
<1>8. ASSUME NEW t \in Threads, UnlockRetry(t)
      PROVE  OwnerActive'
    BY <1>0, <1>8, NoTidAssumption DEF UnlockRetry
<1>9. ASSUME NEW t \in Threads, Die(t)
      PROVE  OwnerActive'
  <2>0. pc[t] = "held" /\ UNCHANGED <<aborted, retried>>
    BY <1>9 DEF Die
  <2>1. CASE gate.tid = t /\ HandOver(t, "dead", TRUE)
    <3>1. Head(queue) \in Threads /\ pc[Head(queue)] = "lk_blocked"
        BY <1>0, <2>0, <2>1, HandOverQueue DEF HandOver, Labels
    <3>2. QED
        BY <1>0, <2>0, <2>1, <3>1, NoTidAssumption DEF HandOver
  <2>2. CASE /\ gate.tid # t \/ queue = <<>>
             /\ Goto(t, "dead") /\ UNCHANGED <<gate, queue>>
    BY <1>0, <2>0, <2>2, NoTidAssumption
  <2>3. QED
    BY <1>9, <2>1, <2>2 DEF Die
<1>10. CASE UNCHANGED vars
    BY <1>0, <1>10 DEF vars
<1>11. QED
    BY <1>1, <1>2, <1>3, <1>4, <1>5, <1>6, <1>7, <1>8, <1>9, <1>10
    DEF Next, LibraryStep, Stopped

\* Every step keeps the owner from an unlock() that throws, but for a death.
LEMMA OwnerMayUnlockStep ==
    ASSUME Inv, [Next]_vars
    PROVE  OwnerMayUnlock'
<1>0. Typed /\ OwnerMayUnlock
    BY DEF Inv
<1> USE DEF Typed, OwnerMayUnlock, Free, Word
<1>1. ASSUME NEW t \in Threads, CallLock(t)
      PROVE  OwnerMayUnlock'
    BY <1>0, <1>1, NoTidAssumption DEF CallLock
<1>2. ASSUME NEW t \in Threads, LockExchange(t)
      PROVE  OwnerMayUnlock'
    BY <1>0, <1>2, NoTidAssumption DEF LockExchange, Unlocked
<1>3. ASSUME NEW t \in Threads, LockSyscall(t)
      PROVE  OwnerMayUnlock'
    BY <1>0, <1>3, NoTidAssumption DEF LockSyscall
<1>4. ASSUME NEW t \in Threads, LockRetry(t)
      PROVE  OwnerMayUnlock'
    BY <1>0, <1>4, NoTidAssumption DEF LockRetry
<1>5. ASSUME NEW t \in Threads, CallUnlock(t)
      PROVE  OwnerMayUnlock'
    BY <1>0, <1>5, NoTidAssumption DEF CallUnlock
<1>6. ASSUME NEW t \in Threads, UnlockExchange(t)
      PROVE  OwnerMayUnlock'
    BY <1>0, <1>6, NoTidAssumption
    DEF UnlockExchange, Owned, OwnedContended, desired
<1>7. ASSUME NEW t \in Threads, UnlockSyscall(t)
      PROVE  OwnerMayUnlock'
  <2>0. pc[t] = "ul_sys" /\ UNCHANGED <<aborted, retried>>
    BY <1>7 DEF UnlockSyscall
  <2>1. CASE HandOver(t, "idle", FALSE)
    <3>1. Head(queue) \in Threads /\ pc[Head(queue)] = "lk_blocked"
        BY <1>0, <2>0, <2>1, HandOverQueue DEF HandOver, Labels
    <3>2. QED
        BY <1>0, <2>0, <2>1, <3>1, NoTidAssumption DEF HandOver
  <2>2. CASE queue = <<>> /\ gate' = Free /\ Goto(t, "idle") /\ UNCHANGED queue
    BY <1>0, <2>0, <2>2, NoTidAssumption
  <2>3. QED
    BY <1>7, <2>1, <2>2 DEF UnlockSyscall
<1>8. ASSUME NEW t \in Threads, UnlockRetry(t)
      PROVE  OwnerMayUnlock'
    BY <1>0, <1>8, NoTidAssumption DEF UnlockRetry
<1>9. ASSUME NEW t \in Threads, Die(t)
      PROVE  OwnerMayUnlock'
  <2>0. pc[t] = "held" /\ UNCHANGED <<aborted, retried>>
    BY <1>9 DEF Die
  <2>1. CASE gate.tid = t /\ HandOver(t, "dead", TRUE)
    <3>1. Head(queue) \in Threads /\ pc[Head(queue)] = "lk_blocked"
        BY <1>0, <2>0, <2>1, HandOverQueue DEF HandOver, Labels
    <3>2. QED
        BY <1>0, <2>0, <2>1, <3>1, NoTidAssumption DEF HandOver
  <2>2. CASE /\ gate.tid # t \/ queue = <<>>
             /\ Goto(t, "dead") /\ UNCHANGED <<gate, queue>>
    BY <1>0, <2>0, <2>2, NoTidAssumption
  <2>3. QED
    BY <1>9, <2>1, <2>2 DEF Die
<1>10. CASE UNCHANGED vars
    BY <1>0, <1>10 DEF vars
<1>11. QED
    BY <1>1, <1>2, <1>3, <1>4, <1>5, <1>6, <1>7, <1>8, <1>9, <1>10
    DEF Next, LibraryStep, Stopped

\* The invariant holds throughout.
LEMMA Invariance == Spec => []Inv
<1>1. Init => Inv
    BY InvInit
<1>2. Inv /\ [Next]_vars => Inv'
    BY TypeStep, FreeWordStep, StrandedStep, UnlockerStep, HoldersStep,
       OrderlyStep, OwnerActiveStep, OwnerMayUnlockStep DEF Inv
<1>3. QED
    BY <1>1, <1>2, PTL DEF Spec

-----------------------------------------------------------------------------
\* The word keeps its form, and is 0 whenever it names no owner, so that the
\* exchange in futex_lock_pi takes a lock that is free, whatever the PI calls
\* report and for any number of threads.
THEOREM TypeCorrect == Spec => []TypeOK
<1>1. Inv => TypeOK
    BY DEF Inv, Typed, FreeWord, TypeOK
<1>2. QED
    BY <1>1, Invariance, PTL

\* fu_lock is a mutex for any number of threads, and stays one when they die
\* holding it, as long as no PI call lets EINTR or EAGAIN pass.
THEOREM Mutex == Spec => []MutualExclusion
<1>1. Inv => MutualExclusion
    BY DEF Inv, HoldersOwn, MutualExclusion
<1>2. QED
    BY <1>1, Invariance, PTL

\* Whoever sleeps in lock() has an owner, which the word names together with
\* FUTEX_WAITERS.  Unless a PI call failed or the lock came by a death, that
\* owner's unlock() is yet to come, and goes through the kernel.
THEOREM WaitersKnown == Spec => []NoStrandedWaiter
<1>1. Inv => NoStrandedWaiter
    BY DEF Inv, WaitersNamed, OwnerActive, OwnerMayUnlock, NoStrandedWaiter
<1>2. QED
    BY <1>1, Invariance, PTL

\* The owner's unlock() throws only after a death, for any number of threads and
\* whatever the PI calls report.
THEOREM OwnerUnlocks == Spec => []OwnerMayUnlock
<1>1. Inv => OwnerMayUnlock
    BY DEF Inv
<1>2. QED
    BY <1>1, Invariance, PTL

\* As long as nobody dies and no PI call fails, futex_critical_error is not
\* called and unlock() does not throw.
THEOREM ErrorFree == Spec => []NeverFails
<1>1. Inv => NeverFails
    BY DEF Inv, OrderlyWord, Undisturbed, NeverFails
<1>2. QED
    BY <1>1, Invariance, PTL

-----------------------------------------------------------------------------
\* The lock leaves its owner by the owner's own doing.
OwnerMoves ==
    \A t \in Threads :
        gate.tid = t /\ gate'.tid # t
            => pc[t] \in {"held", "ul_cas", "ul_sys"} /\ pc'[t] # pc[t]

\* The owner's step is its own.
LEMMA OwnerStep ==
    ASSUME Inv, [Next]_vars
    PROVE  OwnerMoves
<1>0. Typed /\ UnlockerOwns
    BY DEF Inv
<1> USE DEF Typed, UnlockerOwns, OwnerMoves, Free, Word
<1>1. ASSUME NEW t \in Threads, CallLock(t)
      PROVE  OwnerMoves
    BY <1>0, <1>1, NoTidAssumption DEF CallLock
<1>2. ASSUME NEW t \in Threads, LockExchange(t)
      PROVE  OwnerMoves
    BY <1>0, <1>2, NoTidAssumption DEF LockExchange, Unlocked
<1>3. ASSUME NEW t \in Threads, LockSyscall(t)
      PROVE  OwnerMoves
    BY <1>0, <1>3, NoTidAssumption DEF LockSyscall
<1>4. ASSUME NEW t \in Threads, LockRetry(t)
      PROVE  OwnerMoves
    BY <1>0, <1>4, NoTidAssumption DEF LockRetry
<1>5. ASSUME NEW t \in Threads, CallUnlock(t)
      PROVE  OwnerMoves
    BY <1>0, <1>5, NoTidAssumption DEF CallUnlock
<1>6. ASSUME NEW t \in Threads, UnlockExchange(t)
      PROVE  OwnerMoves
    BY <1>0, <1>6, NoTidAssumption
    DEF UnlockExchange, Owned, OwnedContended, desired
<1>7. ASSUME NEW t \in Threads, UnlockSyscall(t)
      PROVE  OwnerMoves
  <2>0. pc[t] = "ul_sys"
    BY <1>7 DEF UnlockSyscall
  <2>1. CASE HandOver(t, "idle", FALSE)
    <3>1. Head(queue) \in Threads /\ pc[Head(queue)] = "lk_blocked"
        BY <1>0, <2>0, <2>1, HandOverQueue DEF HandOver, Labels
    <3>2. QED
        BY <1>0, <2>0, <2>1, <3>1, NoTidAssumption DEF HandOver
  <2>2. CASE Goto(t, "idle")
    BY <1>0, <2>0, <2>2
  <2>3. QED
    BY <1>7, <2>1, <2>2 DEF UnlockSyscall
<1>8. ASSUME NEW t \in Threads, UnlockRetry(t)
      PROVE  OwnerMoves
    BY <1>0, <1>8, NoTidAssumption DEF UnlockRetry
<1>9. ASSUME NEW t \in Threads, Die(t)
      PROVE  OwnerMoves
  <2>0. pc[t] = "held"
    BY <1>9 DEF Die
  <2>1. CASE gate.tid = t /\ HandOver(t, "dead", TRUE)
    <3>1. Head(queue) \in Threads /\ pc[Head(queue)] = "lk_blocked"
        BY <1>0, <2>0, <2>1, HandOverQueue DEF HandOver, Labels
    <3>2. QED
        BY <1>0, <2>0, <2>1, <3>1, NoTidAssumption DEF HandOver
  <2>2. CASE UNCHANGED gate
    BY <1>0, <2>0, <2>2
  <2>3. QED
    BY <1>9, <2>1, <2>2 DEF Die
<1>10. CASE UNCHANGED vars
    BY <1>0, <1>10 DEF vars
<1>11. QED
    BY <1>1, <1>2, <1>3, <1>4, <1>5, <1>6, <1>7, <1>8, <1>9, <1>10
    DEF Next, LibraryStep, Stopped

\* No thread that came back from lock() without the lock can release it under
\* its owner, whatever the PI calls report and whoever dies.
THEOREM OwnersRelease == Spec => OnlyOwnerReleases
<1>1. Inv /\ [Next]_vars => [OwnerMoves]_vars
    BY OwnerStep
<1>2. Spec => []Inv
    BY Invariance
<1>3. QED
    BY <1>1, <1>2, PTL DEF Spec, OnlyOwnerReleases, OwnerMoves
=============================================================================
