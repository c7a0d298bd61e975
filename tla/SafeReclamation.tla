-------------------------- MODULE SafeReclamation --------------------------
(***************************************************************************)
(* What a hazard pointer domain promises to clients that share one         *)
(* location: whoever uses an object finds it allocated, an object is       *)
(* retired once and only after it was unlinked, and only retired objects   *)
(* that nobody uses are reclaimed.                                         *)
(***************************************************************************)
CONSTANTS Clients, Objects, NULL

VARIABLES
    shared,     \* the object in the shared location, or NULL
    allocated,  \* objects in memory
    retired,    \* objects handed over for deletion
    uses        \* the object each client works on, or NULL

vars == <<shared, allocated, retired, uses>>

Init ==
    /\ shared = NULL /\ allocated = {} /\ retired = {}
    /\ uses = [c \in Clients |-> NULL]

Publish(o) ==
    /\ shared = NULL /\ o \notin allocated
    /\ shared' = o /\ allocated' = allocated \cup {o}
    /\ UNCHANGED <<retired, uses>>

Use(c) ==
    /\ shared # NULL
    /\ uses' = [uses EXCEPT ![c] = shared]
    /\ UNCHANGED <<shared, allocated, retired>>

LetGo(c) ==
    /\ uses' = [uses EXCEPT ![c] = NULL]
    /\ UNCHANGED <<shared, allocated, retired>>

Unlink(c) ==
    /\ shared # NULL /\ uses[c] = shared
    /\ shared' = NULL
    /\ UNCHANGED <<allocated, retired, uses>>

Retire(c) ==
    /\ uses[c] \in allocated \ (retired \cup {shared})
    /\ retired' = retired \cup {uses[c]}
    /\ uses' = [uses EXCEPT ![c] = NULL]
    /\ UNCHANGED <<shared, allocated>>

Reclaim(garbage) ==
    /\ \A c \in Clients : uses[c] \notin garbage
    /\ allocated' = allocated \ garbage
    /\ retired' = retired \ garbage
    /\ UNCHANGED <<shared, uses>>

Next ==
    \/ \E o \in Objects : Publish(o)
    \/ \E c \in Clients : Use(c) \/ LetGo(c) \/ Unlink(c) \/ Retire(c)
    \/ \E garbage \in SUBSET retired : Reclaim(garbage)

Spec == Init /\ [][Next]_vars
=============================================================================
