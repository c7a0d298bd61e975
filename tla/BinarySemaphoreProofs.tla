----------------------- MODULE BinarySemaphoreProofs -----------------------
(***************************************************************************)
(* Proofs about BinarySemaphore, for any set of threads.                   *)
(***************************************************************************)
EXTENDS BinarySemaphore, TLAPS

USE DEF Step, Sleepers

\* The type invariant and the wake-up invariant are inductive together.
Inv == TypeOK /\ NoLostWakeup

\* The constructor establishes the invariant.
LEMMA InvInit ==
    ASSUME Init
    PROVE  Inv
<1>1. gate = 0 \/ gate = 1
    BY DEF Init
<1>2. pc = [t \in Threads |-> "idle"] /\ destroyed = FALSE
    BY DEF Init
<1>3. TypeOK
  <2>1. gate \in 0..1
    BY <1>1
  <2>2. pc \in [Threads -> Labels]
    BY <1>2 DEF Labels
  <2>3. QED
    BY <1>2, <2>1, <2>2 DEF TypeOK
<1>4. NoLostWakeup
    BY <1>2 DEF NoLostWakeup
<1>5. QED
    BY <1>3, <1>4 DEF Inv

\* Every step keeps the types.
LEMMA TypeStep ==
    ASSUME TypeOK, [Next]_vars
    PROVE  TypeOK'
<1> USE DEF TypeOK, Labels, Goto
<1>1. ASSUME NEW t \in Threads, CallMethod(t)
      PROVE  TypeOK'
    BY <1>1 DEF CallMethod
<1>2. ASSUME NEW t \in Threads, PostExchange(t)
      PROVE  TypeOK'
    BY <1>2 DEF PostExchange
<1>3. ASSUME NEW t \in Threads, PostWake(t)
      PROVE  TypeOK'
    BY <1>3 DEF PostWake
<1>4. ASSUME NEW t \in Threads, WaitExchange(t)
      PROVE  TypeOK'
    BY <1>4 DEF WaitExchange
<1>5. ASSUME NEW t \in Threads, WaitPark(t)
      PROVE  TypeOK'
    BY <1>5 DEF WaitPark
<1>6. ASSUME NEW t \in Threads, WaitInterrupt(t)
      PROVE  TypeOK'
    BY <1>6 DEF WaitInterrupt
<1>7. ASSUME NEW t \in Threads, TryWaitExchange(t)
      PROVE  TypeOK'
    BY <1>7 DEF TryWaitExchange
<1>8. ASSUME Destroy
      PROVE  TypeOK'
    BY <1>8 DEF Destroy
<1>9. CASE UNCHANGED vars
    BY <1>9 DEF vars
<1>10. QED
    BY <1>1, <1>2, <1>3, <1>4, <1>5, <1>6, <1>7, <1>8, <1>9
    DEF Next, LibraryStep, Stopped

\* Every step keeps a pending event in somebody's hands.
LEMMA WakeupStep ==
    ASSUME Inv, [Next]_vars
    PROVE  NoLostWakeup'
<1> USE DEF Inv, TypeOK, NoLostWakeup, Labels, Goto
<1>1. ASSUME NEW t \in Threads, CallMethod(t)
      PROVE  NoLostWakeup'
    BY <1>1 DEF CallMethod
<1>2. ASSUME NEW t \in Threads, PostExchange(t)
      PROVE  NoLostWakeup'
    BY <1>2 DEF PostExchange
<1>3. ASSUME NEW t \in Threads, PostWake(t)
      PROVE  NoLostWakeup'
    BY <1>3 DEF PostWake
<1>4. ASSUME NEW t \in Threads, WaitExchange(t)
      PROVE  NoLostWakeup'
    BY <1>4 DEF WaitExchange
<1>5. ASSUME NEW t \in Threads, WaitPark(t)
      PROVE  NoLostWakeup'
    BY <1>5 DEF WaitPark
<1>6. ASSUME NEW t \in Threads, WaitInterrupt(t)
      PROVE  NoLostWakeup'
    BY <1>6 DEF WaitInterrupt
<1>7. ASSUME NEW t \in Threads, TryWaitExchange(t)
      PROVE  NoLostWakeup'
    BY <1>7 DEF TryWaitExchange
<1>8. ASSUME Destroy
      PROVE  NoLostWakeup'
    BY <1>8 DEF Destroy
<1>9. CASE UNCHANGED vars
    BY <1>9 DEF vars
<1>10. QED
    BY <1>1, <1>2, <1>3, <1>4, <1>5, <1>6, <1>7, <1>8, <1>9
    DEF Next, LibraryStep, Stopped

\* The invariant holds throughout.
LEMMA Invariance == Spec => []Inv
<1>1. Init => Inv
    BY InvInit
<1>2. Inv /\ [Next]_vars => Inv'
    BY TypeStep, WakeupStep DEF Inv
<1>3. QED
    BY <1>1, <1>2, PTL DEF Spec

\* gate is 0 or 1 however many threads post: events do not add up.
THEOREM TypeCorrect == Spec => []TypeOK
<1>1. Inv => TypeOK
    BY DEF Inv
<1>2. QED
    BY <1>1, Invariance, PTL

\* A pending event never leaves every waiter of wait() asleep.
THEOREM Wakeup == Spec => []NoLostWakeup
<1>1. Inv => NoLostWakeup
    BY DEF Inv
<1>2. QED
    BY <1>1, Invariance, PTL

-----------------------------------------------------------------------------
\* A step that leaves the abstract event and its waiters alone.
FlagSame == (gate = 1)' = (gate = 1) /\ Waiting' = Waiting

FlagStep == FlagSame \/ Flag!Next

\* Every step is a step of the event flag or leaves it as it is.
LEMMA FlagStepLemma ==
    ASSUME TypeOK, [Next]_vars
    PROVE  FlagStep
<1> USE DEF TypeOK, Labels, Goto, Waiting
<1>1. ASSUME NEW t \in Threads, CallMethod(t)
      PROVE  FlagStep
  <2>1. FlagSame \/ Flag!CallWait(t)
    BY <1>1 DEF CallMethod, FlagSame, Flag!CallWait
  <2>2. QED
    BY <2>1 DEF FlagStep, Flag!Next
<1>2. ASSUME NEW t \in Threads, PostExchange(t)
      PROVE  FlagStep
  <2>1. Flag!Post
    BY <1>2 DEF PostExchange, Flag!Post
  <2>2. QED
    BY <2>1 DEF FlagStep, Flag!Next
<1>3. ASSUME NEW t \in Threads, PostWake(t)
      PROVE  FlagStep
  <2>1. FlagSame
    BY <1>3 DEF PostWake, FlagSame
  <2>2. QED
    BY <2>1 DEF FlagStep
<1>4. ASSUME NEW t \in Threads, WaitExchange(t)
      PROVE  FlagStep
  <2>1. CASE gate = 1
    <3>1. Flag!ReturnWait(t)
      BY <1>4, <2>1 DEF WaitExchange, Flag!ReturnWait
    <3>2. QED
      BY <3>1 DEF FlagStep, Flag!Next
  <2>2. CASE gate = 0
    <3>1. FlagSame
      BY <1>4, <2>2 DEF WaitExchange, FlagSame
    <3>2. QED
      BY <3>1 DEF FlagStep
  <2>3. QED
    BY <2>1, <2>2
<1>5. ASSUME NEW t \in Threads, WaitPark(t) \/ WaitInterrupt(t)
      PROVE  FlagStep
  <2>1. FlagSame
    BY <1>5 DEF WaitPark, WaitInterrupt, FlagSame
  <2>2. QED
    BY <2>1 DEF FlagStep
<1>6. ASSUME NEW t \in Threads, TryWaitExchange(t)
      PROVE  FlagStep
  <2>1. Waiting' = Waiting
    BY <1>6 DEF TryWaitExchange
  <2>2. FlagSame \/ Flag!TryWaitTrue
    BY <1>6, <2>1 DEF TryWaitExchange, FlagSame, Flag!TryWaitTrue
  <2>3. QED
    BY <2>2 DEF FlagStep, Flag!Next
<1>7. CASE Destroy \/ UNCHANGED vars
  <2>1. FlagSame
    BY <1>7 DEF Destroy, vars, FlagSame
  <2>2. QED
    BY <2>1 DEF FlagStep
<1>8. QED
    BY <1>1, <1>2, <1>3, <1>4, <1>5, <1>6, <1>7
    DEF Next, LibraryStep, Stopped

\* Every behaviour of the semaphore is one of the event flag: posts merge and
\* an event releases one caller.  (That the flag's fairness is met too is left
\* to the model checker.)
THEOREM Refinement == Spec => Flag!Spec
<1>1. Init => Flag!Init
    BY BooleansAssumption DEF Init, Flag!Init, Waiting
<1>2. Inv /\ [Next]_vars => [Flag!Next]_(Flag!vars)
    BY FlagStepLemma DEF Inv, FlagStep, FlagSame, Flag!vars
<1>3. QED
    BY <1>1, <1>2, Invariance, PTL DEF Spec, Flag!Spec
=============================================================================
