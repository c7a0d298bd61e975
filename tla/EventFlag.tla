----------------------------- MODULE EventFlag -----------------------------
(***************************************************************************)
(* What binary_semaphore promises: posts set an event, however many there  *)
(* are, and each event releases exactly one caller of wait or try_wait.    *)
(***************************************************************************)
CONSTANTS
    Threads,
    InitialState  \* TRUE if the event is set to begin with

VARIABLES
    event,    \* TRUE from a post until a waiter takes it
    waiting   \* threads that have called wait and not returned

vars == <<event, waiting>>

Init == event = InitialState /\ waiting = {}

\* Posts that nobody has taken yet are one event.
Post == event' = TRUE /\ UNCHANGED waiting

CallWait(t) ==
    /\ t \notin waiting
    /\ waiting' = waiting \cup {t}
    /\ UNCHANGED event

ReturnWait(t) ==
    /\ t \in waiting /\ event
    /\ waiting' = waiting \ {t} /\ event' = FALSE

TryWaitTrue == event /\ event' = FALSE /\ UNCHANGED waiting

Next ==
    \/ Post \/ TryWaitTrue
    \/ \E t \in Threads : CallWait(t) \/ ReturnWait(t)

Spec == Init /\ [][Next]_vars

\* An event that stays set does not leave everyone waiting.
FairSpec == Spec /\ WF_vars(\E t \in Threads : ReturnWait(t))
=============================================================================
