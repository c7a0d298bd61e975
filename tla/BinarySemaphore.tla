-------------------------- MODULE BinarySemaphore --------------------------
(***************************************************************************)
(* binary_semaphore (semaphore.cpp) and the futex calls it makes           *)
(* (bdfutex.cpp).  Every atomic access to gate is one step; a thread       *)
(* parked by FUTEX_WAIT is one whose pc is "wt_parked".                    *)
(***************************************************************************)
EXTENDS Integers, FiniteSets

CONSTANTS
    Threads,       \* the threads sharing one binary_semaphore
    Interrupts,    \* TRUE if signals may interrupt FUTEX_WAIT (EINTR)
    InitialState   \* the constructor's initial_state

ASSUME BooleansAssumption ==
    Interrupts \in BOOLEAN /\ InitialState \in BOOLEAN

VARIABLES
    gate,      \* int gate: 1 if an event is pending
    pc,        \* next access of each thread
    destroyed  \* TRUE once the destructor has run

vars == <<gate, pc, destroyed>>

Labels == {"idle", "ps_cas", "ps_wake", "wt_cas", "wt_wait", "wt_parked",
           "tw_cas"}

\* Type invariant: "multiple posts are accepted" (semaphore.hpp:28), and they
\* leave gate at 1.
TypeOK ==
    /\ gate \in 0..1
    /\ pc \in [Threads -> Labels]
    /\ destroyed \in BOOLEAN

Init ==
    /\ gate = IF InitialState THEN 1 ELSE 0
    /\ pc = [t \in Threads |-> "idle"]
    /\ destroyed = FALSE

Goto(t, label) == pc' = [pc EXCEPT ![t] = label]
Step(t, from, to) == pc[t] = from /\ Goto(t, to)

-----------------------------------------------------------------------------
\* A caller enters post(), wait() or try_wait().
CallMethod(t) ==
    /\ pc[t] = "idle"
    /\ \E first \in {"ps_cas", "wt_cas", "tw_cas"} : Goto(t, first)
    /\ UNCHANGED <<gate, destroyed>>

\* Mutant: post counts, as a counting semaphore would.
MutPostExchange(t) ==
    /\ Step(t, "ps_cas", "ps_wake")
    /\ gate' = gate + 1
    /\ UNCHANGED destroyed

\* post: compare-exchange 0 -> 1; a pending event absorbs this one.
PostExchange(t) ==
    /\ Step(t, "ps_cas", IF gate = 0 THEN "ps_wake" ELSE "idle")
    /\ gate' = 1
    /\ UNCHANGED destroyed

\* Mutant: nobody is found asleep.
MutSleepers == {}

\* Threads parked on gate.
Sleepers == {w \in Threads : pc[w] = "wt_parked"}

\* post: futex_wake(&gate, 1).
PostWake(t) ==
    /\ pc[t] = "ps_wake"
    /\ IF Sleepers = {}
       THEN Goto(t, "idle")
       ELSE \E w \in Sleepers :
                pc' = [pc EXCEPT ![t] = "idle", ![w] = "wt_cas"]
    /\ UNCHANGED <<gate, destroyed>>

\* wait: loop condition, compare-exchange 1 -> 0.
WaitExchange(t) ==
    /\ Step(t, "wt_cas", IF gate = 1 THEN "idle" ELSE "wt_wait")
    /\ gate' = 0
    /\ UNCHANGED destroyed

\* wait: futex_wait(&gate, 0) parks if no event has come, else EAGAIN.
WaitPark(t) ==
    /\ Step(t, "wt_wait", IF gate = 0 THEN "wt_parked" ELSE "wt_cas")
    /\ UNCHANGED <<gate, destroyed>>

\* futex_wait swallows EINTR and the loop goes round.
WaitInterrupt(t) ==
    /\ Interrupts
    /\ Step(t, "wt_parked", "wt_cas")
    /\ UNCHANGED <<gate, destroyed>>

\* try_wait: compare-exchange 1 -> 0, and return either way.
TryWaitExchange(t) ==
    /\ Step(t, "tw_cas", "idle")
    /\ gate' = 0
    /\ UNCHANGED destroyed

\* ~binary_semaphore, when no thread is in a call: its futex_wake finds no
\* sleeper.
Destroy ==
    /\ \A t \in Threads : pc[t] = "idle"
    /\ destroyed' = TRUE
    /\ UNCHANGED <<gate, pc>>

-----------------------------------------------------------------------------
\* The steps of the library's code.
LibraryStep(t) ==
    \/ PostExchange(t) \/ PostWake(t)
    \/ WaitExchange(t) \/ WaitPark(t) \/ TryWaitExchange(t)

\* The semaphore is gone, or every thread sleeps and nobody is left to post.
Stopped ==
    /\ destroyed \/ \A t \in Threads : pc[t] = "wt_parked"
    /\ UNCHANGED vars

Next ==
    \/ /\ ~destroyed
       /\ \/ \E t \in Threads :
                 CallMethod(t) \/ LibraryStep(t) \/ WaitInterrupt(t)
          \/ Destroy
    \/ Stopped

Spec == Init /\ [][Next]_vars

\* A runnable thread is eventually scheduled; nobody has to post.
FairSpec == Spec /\ \A t \in Threads : WF_vars(~destroyed /\ LibraryStep(t))

-----------------------------------------------------------------------------
\* Threads inside wait().
Waiting == {t \in Threads : pc[t] \in {"wt_cas", "wt_wait", "wt_parked"}}

\* No lost wake-up: with an event pending, nobody sleeps in wait() unless a
\* post is about to wake a sleeper or an awake waiter is about to take it.
NoLostWakeup ==
    gate = 1 /\ (\E t \in Threads : pc[t] = "wt_parked") =>
        \E u \in Threads : pc[u] \in {"ps_wake", "wt_cas", "wt_wait"}

\* "Multiple posts register as single event" (semaphore_test.cpp): each event
\* releases one caller, and a pending event does not leave callers waiting.
Flag == INSTANCE EventFlag WITH event <- gate = 1, waiting <- Waiting
ImplementsEventFlag == Flag!FairSpec
=============================================================================
