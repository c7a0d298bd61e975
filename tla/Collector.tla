------------------------------ MODULE Collector ------------------------------
(***************************************************************************)
(* CollectorThread (HazardPointer.cpp and HazardPointer.hpp), the          *)
(* HazardPointerLists registered with it, each used by one application     *)
(* thread, and the thread that owns it and stops and destroys it.          *)
(*                                                                         *)
(* Of a list only what the collector sees is kept: the objects on its      *)
(* gc_list, and which of them hazard pointers still protect (HazardDomain  *)
(* has the rest).  What runs under data_lock is one step where nobody      *)
(* outside the lock can look on.                                           *)
(***************************************************************************)
EXTENDS Integers, FiniteSets, SequencesExt

CONSTANTS
    Clients,    \* memory for HazardPointerLists
    Objects,    \* what can be retired to a list
    NULL,
    IdModulus,  \* number of values of an unsigned: id_value counts modulo it
    WrapIds     \* TRUE if so many clients register that id_value wraps

ASSUME ConstantsAssumption ==
    /\ IsFiniteSet(Clients)
    /\ NULL \notin Clients
    /\ IdModulus \in Nat \ {0}
    /\ WrapIds \in BOOLEAN

VARIABLES
    clients,           \* the lists, in the order of registration
    clientsID,         \* their ids
    id_value,
    data_lock,         \* TRUE while Collect has the lock
    active,
    thrd,              \* TRUE unless the member is NULL
    sema,              \* TRUE if an event is pending
    state,             \* members of each CollectorClientInterface
    collector_thread,  \* TRUE unless the member is NULL
    retired,           \* the objects on each list's gc_list
    hazard,            \* those that hazard pointers protect
    pc,                \* the collector thread's next access
    curr_id,           \* locals of CollectorThread::Collect: the last id seen,
    ix_client,         \*   the next entry,
    clientp,           \*   the client to collect,
    pending,           \*   and the result
    cpc,               \* next access of each list's thread
    call,              \* the owner's call: Stop(false), Stop(true), destructor
    owner,             \* the owner's next access
    failed             \* "no", "assert" (CHECK_ASSERT) or "crash"

thread == <<active, thrd>>
vectors == <<clients, clientsID, id_value>>
registry == <<vectors, data_lock>>
registration == <<state, collector_thread>>
garbage == <<retired, hazard>>
scan == <<curr_id, ix_client, clientp, pending>>
control == <<pc, scan, cpc>>
vars == <<registry, thread, sema, registration, garbage, control, call, owner,
          failed>>

States == {"UNREGISTERED", "REGISTERED", "COLLECTING", "DELETING"}

\* The locals of a Collect that has not begun.
NoScan == curr_id = 0 /\ ix_client = 1 /\ clientp = NULL /\ pending = FALSE

\* Type invariant.  No list is registered twice.
TypeOK ==
    /\ clients \in Seq(Clients) /\ IsInjective(clients)
    /\ clientsID \in Seq(0..IdModulus - 1) /\ Len(clientsID) = Len(clients)
    /\ {id_value, curr_id} \subseteq 0..IdModulus - 1
    /\ {data_lock, active, thrd, sema, pending} \subseteq BOOLEAN
    /\ state \in [Clients -> States]
    /\ collector_thread \in [Clients -> BOOLEAN]
    /\ {retired, hazard} \subseteq [Clients -> SUBSET Objects]
    /\ pc \in {"active", "lock", "scan", "collect", "result", "done", "post",
               "wait", "exit", "ended"}
    /\ ix_client \in 1..Len(clients) + 1
    /\ clientp \in Clients \cup {NULL}
    /\ cpc \in [Clients -> {"none", "register", "ready", "signal", "dereg",
                            "erase", "free"}]
    /\ call \in {"none", "stop", "stop_join", "destructor"}
    /\ owner \in {"idle", "post", "check", "join", "joining", "clear", "gone"}
    /\ failed \in {"no", "assert", "crash"}

\* The CollectorThread has been constructed; its thread has not run yet.
Init ==
    /\ clients = <<>> /\ clientsID = <<>> /\ id_value = 0
    /\ data_lock = FALSE
    /\ active = TRUE /\ thrd = TRUE /\ sema = FALSE
    /\ state = [c \in Clients |-> "UNREGISTERED"]
    /\ collector_thread = [c \in Clients |-> FALSE]
    /\ retired = [c \in Clients |-> {}] /\ hazard = retired
    /\ pc = "active" /\ NoScan
    /\ cpc = [c \in Clients |-> "none"]
    /\ call = "none" /\ owner = "idle"
    /\ failed = "no"

CHECK_ASSERT(condition) == failed' = IF condition THEN failed ELSE "assert"

\* Moves of the thread of a list, of the collector thread and of the owner.
ClientGoes(c, from, to) == cpc[c] = from /\ cpc' = [cpc EXCEPT ![c] = to]
ThreadGoes(from, to) == pc = from /\ pc' = to
OwnerGoes(from, to) == owner = from /\ owner' = to

\* Mutant: only a collector that is asleep gets the signal.
MutSignal == sema' = (sema \/ pc = "wait")

\* CollectorThread::Signal.
Signal == sema' = TRUE

\* Mutant: the state is not compared.
MutRegistered(c) == TRUE

\* The comparison of the two exchanges that claim a client.
Registered(c) == state[c] = "REGISTERED"

Listed(c) == c \in Range(clients)

\* Mutant: an entry stays in its vector.
MutErased(vector, c) == vector

\* A vector without the entry of a client.
Erased(vector, c) ==
    IF Listed(c)
    THEN RemoveAt(vector, CHOOSE i \in 1..Len(clients) : clients[i] = c)
    ELSE vector

HaveDeletes(c) == retired[c] # {}

\* Lists are constructed, used and destroyed before or after the collector's
\* destructor runs, not meanwhile: collector_thread is read without a lock.
InUse == call # "destructor"

-----------------------------------------------------------------------------
(* A HazardPointerList and the thread that uses it.                         *)

\* Registrations so far, with those under way (when id_value does not wrap).
Registrations == id_value + Cardinality({c \in Clients : cpc[c] = "register"})

\* HazardPointerList(th_collector): the list is initialised.
Construct(c) ==
    /\ InUse /\ owner # "gone"
    /\ WrapIds \/ Registrations + 1 < IdModulus
    /\ ClientGoes(c, "none", "register")
    /\ UNCHANGED <<registry, thread, sema, registration, garbage, pc, scan,
                   call, owner, failed>>

RegisterClient(c) ==
    /\ ClientGoes(c, "register", "ready")
    /\ ~data_lock
    /\ CHECK_ASSERT(state[c] = "UNREGISTERED" /\ ~collector_thread[c])
    /\ id_value' = (id_value + 1) % IdModulus
    /\ clients' = Append(clients, c)
    /\ clientsID' = Append(clientsID, id_value')
    /\ state' = [state EXCEPT ![c] = "REGISTERED"]
    /\ collector_thread' = [collector_thread EXCEPT ![c] = TRUE]
    /\ UNCHANGED <<data_lock, thread, sema, garbage, pc, scan, call, owner>>

\* EnqueueRecordForCollection: an object is pushed on gc_list, and a list that
\* has no collector is done.
Delete(c) ==
    /\ InUse
    /\ ClientGoes(c, "ready",
                  IF collector_thread[c] THEN "signal" ELSE "ready")
    /\ \E o \in Objects \ retired[c] : \E hazards \in SUBSET {o} :
           /\ retired' = [retired EXCEPT ![c] = @ \cup {o}]
           /\ hazard' = [hazard EXCEPT ![c] = @ \cup hazards]
    /\ UNCHANGED <<registry, thread, sema, registration, pc, scan, call, owner,
                   failed>>

\* EnqueueRecordForCollection: collector_thread->Signal().
DeleteSignal(c) ==
    /\ ClientGoes(c, "signal", "ready")
    /\ Signal
    /\ UNCHANGED <<registry, thread, registration, garbage, pc, scan, call,
                   owner, failed>>

\* The hazard pointers on a retired object are let go.
LetGo(c, o) ==
    /\ o \in hazard[c]
    /\ hazard' = [hazard EXCEPT ![c] = @ \ {o}]
    /\ UNCHANGED <<registry, thread, sema, registration, retired, control,
                   call, owner, failed>>

\* Collect() called by the application.
CollectHere(c) ==
    /\ cpc[c] = "ready"
    /\ HaveDeletes(c)
    /\ retired' = [retired EXCEPT ![c] = hazard[c]]
    /\ UNCHANGED <<registry, thread, sema, registration, hazard, control, call,
                   owner, failed>>

\* ~HazardPointerList.
Destruct(c) ==
    /\ InUse
    /\ ClientGoes(c, "ready", IF collector_thread[c] THEN "dereg" ELSE "free")
    /\ UNCHANGED <<registry, thread, sema, registration, garbage, pc, scan,
                   call, owner, failed>>

\* DeregisterClient: compare-exchange k_REGISTERED -> k_DELETING, until it
\* succeeds.
DeregisterMark(c, from, to) ==
    /\ ClientGoes(c, from, IF Registered(c) THEN to ELSE from)
    /\ CHECK_ASSERT(Registered(c) \/ state[c] = "COLLECTING")
    /\ state' = [state EXCEPT ![c] = IF Registered(c) THEN "DELETING" ELSE @]
    /\ UNCHANGED <<registry, thread, sema, collector_thread, garbage, pc, scan,
                   call, owner>>

\* DeregisterClient: the entry is erased.  (collector_thread stays as it is.)
DeregisterErase(c, from, to) ==
    /\ ClientGoes(c, from, to)
    /\ ~data_lock
    /\ CHECK_ASSERT(Listed(c))
    /\ clients' = Erased(clients, c)
    /\ clientsID' = Erased(clientsID, c)
    /\ state' = [state EXCEPT ![c] = "UNREGISTERED"]
    /\ UNCHANGED <<id_value, data_lock, thread, sema, collector_thread,
                   garbage, pc, scan, call, owner>>

\* ~HazardPointerList: every node is released, what is retired is collected,
\* and the memory is freed (the next list there starts with fresh members).
Free(c) ==
    /\ ClientGoes(c, "free", "none")
    /\ state' = [state EXCEPT ![c] = "UNREGISTERED"]
    /\ collector_thread' = [collector_thread EXCEPT ![c] = FALSE]
    /\ retired' = [retired EXCEPT ![c] = {}]
    /\ hazard' = [hazard EXCEPT ![c] = {}]
    /\ UNCHANGED <<registry, thread, sema, pc, scan, call, owner, failed>>

-----------------------------------------------------------------------------
(* The collector thread: Run and CollectorThread::Collect.                  *)

\* Run: the loop's condition.
RunActive ==
    /\ ThreadGoes("active", IF active THEN "lock" ELSE "exit")
    /\ UNCHANGED <<registry, thread, sema, registration, garbage, scan, cpc,
                   call, owner, failed>>

\* Collect: data_lock is taken, the search starts at the first entry.
ScanLock ==
    /\ ThreadGoes("lock", "scan")
    /\ data_lock' = TRUE
    /\ UNCHANGED <<vectors, thread, sema, registration, garbage, scan, cpc,
                   call, owner, failed>>

\* Collect: one entry (the next search starts at the first one again).  Those
\* seen and those without deletes are passed over; the first other one is
\* marked k_COLLECTING, unless it is being deleted, and the lock is released.
ScanEntry ==
    /\ pc = "scan" /\ ix_client <= Len(clients)
    /\ LET c == clients[ix_client]
           id == clientsID[ix_client]
           new == id > curr_id
           candidate == new /\ HaveDeletes(c)
           found == candidate /\ Registered(c)
       IN  /\ pc' = IF found THEN "collect" ELSE "scan"
           /\ CHECK_ASSERT(candidate /\ ~found => state[c] = "DELETING")
           /\ state' = [state EXCEPT ![c] = IF found THEN "COLLECTING" ELSE @]
           /\ curr_id' = IF new THEN id ELSE curr_id
           /\ ix_client' = IF found THEN 1 ELSE ix_client + 1
           /\ clientp' = IF found THEN c ELSE NULL
           /\ data_lock' = ~found
    /\ UNCHANGED <<vectors, thread, sema, collector_thread, garbage, pending,
                   cpc, call, owner>>

\* Collect: no candidate is left; the lock is released.
ScanEnd ==
    /\ ThreadGoes("scan", "done")
    /\ ix_client > Len(clients) /\ ix_client' = 1
    /\ data_lock' = FALSE
    /\ UNCHANGED <<vectors, thread, sema, registration, garbage, curr_id,
                   clientp, pending, cpc, call, owner, failed>>

\* clientp->Collect(): what no hazard pointer protects is deleted.  A list that
\* is found empty counts as incomplete.
CollectClient ==
    /\ ThreadGoes("collect", "result")
    /\ retired' = [retired EXCEPT ![clientp] = hazard[clientp]]
    /\ pending' = (pending \/ ~HaveDeletes(clientp))
    /\ UNCHANGED <<registry, thread, sema, registration, hazard, curr_id,
                   ix_client, clientp, cpc, call, owner, failed>>

\* Mutant: the client stays marked k_COLLECTING.
MutCollected(c) == state

\* The states once Collect is through with a client.
Collected(c) == [state EXCEPT ![c] = "REGISTERED"]

\* Mutant: an incomplete collection is not tried again.
MutIncomplete(c) == FALSE

\* Not what HazardPointerList::Collect returns when it has done its work.
Incomplete(c) == HaveDeletes(c)

\* Its result, gc_list == end_node, and compare-exchange
\* k_COLLECTING -> k_REGISTERED.
CollectResult ==
    /\ ThreadGoes("result", "lock")
    /\ CHECK_ASSERT(state[clientp] = "COLLECTING")
    /\ pending' = (pending \/ Incomplete(clientp))
    /\ clientp' = NULL
    /\ state' = Collected(clientp)
    /\ UNCHANGED <<registry, thread, sema, collector_thread, garbage, curr_id,
                   ix_client, cpc, call, owner>>

\* Run: after an incomplete collection it sleeps and posts to itself.
CollectDone ==
    /\ ThreadGoes("done", IF pending THEN "post" ELSE "wait")
    /\ curr_id' = 0 /\ ix_client' = 1 /\ clientp' = NULL /\ pending' = FALSE
    /\ UNCHANGED <<registry, thread, sema, registration, garbage, cpc, call,
                   owner, failed>>

\* Run: sema.Post(), and sema.Wait() that takes the event.
RunPost ==
    /\ ThreadGoes("post", "wait")
    /\ sema' = TRUE
    /\ UNCHANGED <<registry, thread, registration, garbage, scan, cpc, call,
                   owner, failed>>
RunWait ==
    /\ ThreadGoes("wait", "active")
    /\ sema /\ sema' = FALSE
    /\ UNCHANGED <<registry, thread, registration, garbage, scan, cpc, call,
                   owner, failed>>

\* Run: ct->thrd = NULL.
RunExit ==
    /\ ThreadGoes("exit", "ended")
    /\ thrd' = FALSE
    /\ UNCHANGED <<registry, active, sema, registration, garbage, scan, cpc,
                   call, owner, failed>>

-----------------------------------------------------------------------------
(* The owner: Stop and the destructor.                                      *)

\* Stop, called by the owner or by the destructor, which runs when no list is
\* being constructed, used or destroyed.
StopActive(by) ==
    /\ OwnerGoes("idle", "post")
    /\ by = "destructor" => \A c \in Clients : cpc[c] \in {"none", "ready"}
    /\ call' = by
    /\ active' = FALSE
    /\ UNCHANGED <<registry, thrd, sema, registration, garbage, control,
                   failed>>

\* Return from Stop.
Returns(from) ==
    IF call = "destructor" THEN OwnerGoes(from, "clear") /\ UNCHANGED call
                           ELSE OwnerGoes(from, "idle") /\ call' = "none"

\* Stop: Signal().
StopPost ==
    /\ IF call = "stop" THEN Returns("post")
                        ELSE OwnerGoes("post", "check") /\ UNCHANGED call
    /\ Signal
    /\ UNCHANGED <<registry, thread, registration, garbage, control, failed>>

\* Mutant: the thread is never joined.
MutJoinable == FALSE

\* thrd != NULL
Joinable == thrd

\* Stop: the test of thrd.
StopCheck ==
    /\ IF Joinable THEN OwnerGoes("check", "join") /\ UNCHANGED call
                   ELSE Returns("check")
    /\ UNCHANGED <<registry, thread, sema, registration, garbage, control,
                   failed>>

\* Stop: thrd->join() reads thrd again.
StopJoin ==
    /\ IF thrd THEN OwnerGoes("join", "joining") /\ UNCHANGED failed
               ELSE OwnerGoes("join", "join") /\ failed' = "crash"
    /\ UNCHANGED <<registry, thread, sema, registration, garbage, control,
                   call>>

StopJoined ==
    /\ pc = "ended"
    /\ Returns("joining")
    /\ UNCHANGED <<registry, thread, sema, registration, garbage, control,
                   failed>>

\* ~CollectorThread: lists that are still registered lose their collector.
ClearClients ==
    /\ OwnerGoes("clear", "gone")
    /\ ~data_lock
    /\ CHECK_ASSERT(\A c \in Clients : Listed(c) => collector_thread[c])
    /\ collector_thread' =
           [c \in Clients |-> collector_thread[c] /\ ~Listed(c)]
    /\ clients' = <<>> /\ clientsID' = <<>>
    /\ call' = "none"
    /\ UNCHANGED <<id_value, data_lock, thread, sema, state, garbage, control>>

-----------------------------------------------------------------------------
\* What the list's caller chooses, and the steps that follow from it.
ClientCall(c) == Construct(c) \/ Delete(c) \/ CollectHere(c) \/ Destruct(c)

ClientStep(c) ==
    \/ RegisterClient(c) \/ DeleteSignal(c)
    \/ DeregisterMark(c, "dereg", "erase")
    \/ DeregisterErase(c, "erase", "free")
    \/ Free(c)

CollectorStep ==
    \/ RunActive \/ ScanLock \/ ScanEntry \/ ScanEnd \/ CollectClient
    \/ CollectResult \/ CollectDone \/ RunPost \/ RunWait \/ RunExit

OwnerStep == StopPost \/ StopCheck \/ StopJoin \/ StopJoined \/ ClearClients

\* The process is gone, or the collector and all lists are.
Stopped ==
    /\ \/ failed # "no"
       \/ owner = "gone" /\ \A c \in Clients : cpc[c] = "none"
    /\ UNCHANGED vars

Next ==
    \/ /\ failed = "no"
       /\ \/ \E c \in Clients : ClientCall(c) \/ ClientStep(c)
          \/ \E c \in Clients, o \in Objects : LetGo(c, o)
          \/ CollectorStep
          \/ \E by \in {"stop", "stop_join", "destructor"} : StopActive(by)
          \/ OwnerStep
    \/ Stopped

Spec == Init /\ [][Next]_vars

\* Every thread is eventually scheduled and gets a mutex that is free time and
\* again, and whoever protects an object lets go of it.  Nothing makes the
\* application construct, delete, destroy or stop.
FairSpec ==
    /\ Spec
    /\ WF_vars(failed = "no" /\ CollectorStep)
    /\ WF_vars(failed = "no" /\ OwnerStep)
    /\ \A c \in Clients :
           /\ SF_vars(failed = "no" /\ ClientStep(c))
           /\ \A o \in Objects : WF_vars(failed = "no" /\ LetGo(c, o))

-----------------------------------------------------------------------------
(* Properties.                                                              *)

\* The collector touches no list that is gone: a list stays in memory, and in
\* the vector, while the collector works on it without the lock, and every list
\* that a scan will come to is alive.
CollectedListsAlive ==
    /\ \A c \in Clients :
           Listed(c) => cpc[c] \in {"ready", "signal", "dereg", "erase"}
    /\ pc \in {"collect", "result"} => Listed(clientp)

\* The registration states agree, whatever DeregisterClient, Collect and
\* RegisterClient do meanwhile: no CHECK_ASSERT of CollectorThread fails.
NeverAsserts == failed # "assert"

\* No signal is lost: while a registered list has objects to collect the
\* collector does not sleep without an event, except before Delete has
\* signalled, or when the list's destructor will collect them.
NoLostSignal ==
    active /\ pc = "wait" /\ ~sema =>
        \A c \in Clients :
            Listed(c) /\ retired[c] # {} => cpc[c] \in {"signal", "erase"}

\* When the destructor is through, the collector thread does not touch the
\* CollectorThread any more.
ThreadEndsFirst == owner \in {"clear", "gone"} => pc = "ended"

\* "When collection is required, a client ... signals the instance, and all
\* clients are scanned for collection" (HazardPointer.hpp:210-211): an object
\* retired to a registered list is deleted, unless the collector is stopped
\* (which may crash: see StopJoinsThread).
RetiredEventuallyCollected ==
    \A c \in Clients, o \in Objects :
        collector_thread[c] /\ o \in retired[c]
            ~> o \notin retired[c] \/ ~active

\* DeregisterClient comes to an end, though the collector may mark the client
\* again and again.
DeregisterReturns ==
    \A c \in Clients :
        cpc[c] = "dereg" ~> cpc[c] = "free" \/ failed = "crash"

\* Stop ends the thread, wherever it is.
StopEndsThread == ~active ~> pc = "ended" \/ failed = "crash"

\* "it true this function returns after performing a join on the thread"
\* (HazardPointer.hpp:266-267): there is a thread to join when Stop calls join.
StopJoinsThread == failed # "crash"
=============================================================================
