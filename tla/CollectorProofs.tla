-------------------------- MODULE CollectorProofs --------------------------
(***************************************************************************)
(* Proofs about Collector, for any finite set of lists and any objects.    *)
(***************************************************************************)
EXTENDS Collector, SequenceLemmas, FiniteSetTheorems

-----------------------------------------------------------------------------
(* The inductive invariant.                                                 *)

\* The collector thread has data_lock while it searches, and only then; between
\* searches it starts over at the first entry, and a client is in its hands
\* only while it collects that client.
ScanOrder ==
    /\ data_lock <=> pc = "scan"
    /\ pc # "scan" => ix_client = 1
    /\ pc \in {"active", "post", "wait", "exit", "ended"} => NoScan
    /\ pc \in {"collect", "result"} <=> clientp # NULL

\* A list and its registration, seen from the list's thread.
ClientOrder ==
    \A c \in Clients :
        /\ cpc[c] \notin {"leave", "leaving"}
        /\ Listed(c) => collector_thread[c]
        /\ cpc[c] \in {"ready", "signal", "dereg", "erase"} =>
               (collector_thread[c] => Listed(c))
        /\ cpc[c] \in {"signal", "dereg", "erase"} => collector_thread[c]
        /\ cpc[c] \in {"none", "register"} =>
               /\ ~collector_thread[c] /\ state[c] = "UNREGISTERED"
               /\ retired[c] = {}

\* The states of a registered list: DELETING is its own thread's, COLLECTING
\* the collector's.
StateOrder ==
    \A c \in Clients :
        /\ Listed(c) => state[c] \in {"REGISTERED", "COLLECTING", "DELETING"}
        /\ state[c] = "DELETING" <=> cpc[c] = "erase"
        /\ state[c] = "COLLECTING" <=>
               pc \in {"collect", "result"} /\ clientp = c

\* The owner: the destructor leaves the thread no list to use, and goes on
\* when it is over.
OwnerOrder ==
    /\ thrd <=> pc # "ended"
    /\ owner = "idle" => call = "none"
    /\ owner = "post" => call # "none"
    /\ owner \in {"check", "join", "joining"} =>
           call \in {"stop_join", "destructor"}
    /\ owner = "clear" => call = "destructor"
    /\ owner = "gone" => call = "none"
    /\ call = "destructor" => \A c \in Clients : cpc[c] \in {"none", "ready"}

\* The inductive invariant.
Inv ==
    /\ TypeOK /\ CollectedListsAlive /\ NeverAsserts /\ ThreadEndsFirst
    /\ ScanOrder /\ ClientOrder /\ StateOrder /\ OwnerOrder

-----------------------------------------------------------------------------
USE DEF registry, vectors, thread, registration, garbage, control, scan,
        ClientGoes, ThreadGoes, OwnerGoes, CHECK_ASSERT

\* The constructor establishes the invariant.
LEMMA InvInit ==
    ASSUME Init
    PROVE  Inv
<1>1. clients \in Seq(Clients) /\ IsInjective(clients) /\ Range(clients) = {}
    BY EmptyDistinct DEF Init
<1>2. /\ clientsID \in Seq(0..IdModulus - 1)
      /\ Len(clients) = 0 /\ Len(clientsID) = 0
    BY EmptySeq DEF Init
<1>3. TypeOK
  <2>1. {id_value, curr_id} \subseteq 0..IdModulus - 1
    BY ConstantsAssumption DEF Init, NoScan
  <2>2. {retired, hazard} \subseteq [Clients -> SUBSET Objects]
    BY DEF Init
  <2>3. ix_client \in 1..Len(clients) + 1
    BY <1>2 DEF Init, NoScan
  <2>4. {data_lock, active, thrd, sema, pending} \subseteq BOOLEAN
    BY DEF Init, NoScan
  <2>5. /\ state \in [Clients -> States]
        /\ collector_thread \in [Clients -> BOOLEAN]
        /\ clientp \in Clients \cup {NULL}
    BY DEF Init, NoScan, States
  <2>6. QED
    BY <1>1, <1>2, <2>1, <2>2, <2>3, <2>4, <2>5 DEF Init, TypeOK
<1>4. CollectedListsAlive /\ ClientOrder /\ StateOrder
    BY <1>1
    DEF Init, NoScan, Listed, CollectedListsAlive, ClientOrder, StateOrder
<1>5. NeverAsserts /\ ThreadEndsFirst /\ ScanOrder /\ OwnerOrder
    BY DEF Init, NoScan, NeverAsserts, ThreadEndsFirst, ScanOrder, OwnerOrder
<1>6. QED
    BY <1>3, <1>4, <1>5 DEF Inv

-----------------------------------------------------------------------------
(* The vectors.                                                             *)

\* The vectors have an entry for each registered list.
LEMMA VectorEntries ==
    ASSUME TypeOK
    PROVE  /\ Len(clients) \in Nat
           /\ \A i \in 1..Len(clients) :
                  /\ clients[i] \in Clients /\ Listed(clients[i])
                  /\ clientsID[i] \in 0..IdModulus - 1
           /\ \A i, j \in 1..Len(clients) : clients[i] = clients[j] => i = j
           /\ \A c : Listed(c) => \E i \in 1..Len(clients) : clients[i] = c
<1>1. /\ clients \in Seq(Clients) /\ IsInjective(clients)
      /\ clientsID \in Seq(0..IdModulus - 1) /\ Len(clientsID) = Len(clients)
    BY DEF TypeOK
<1>2. /\ \A i, j \in 1..Len(clients) : clients[i] = clients[j] => i = j
      /\ Range(clients) = {clients[i] : i \in 1..Len(clients)}
    BY <1>1, DistinctEntries
<1>3. /\ \A i \in 1..Len(clients) : clients[i] \in Clients
      /\ \A i \in 1..Len(clients) : clientsID[i] \in 0..IdModulus - 1
    BY <1>1, ElementOfSeq
<1>4. Len(clients) \in Nat
    BY <1>1, LenProperties
<1>5. QED
    BY <1>2, <1>3, <1>4 DEF Listed

\* RegisterClient adds an entry to both vectors.
LEMMA RegisterVectors ==
    ASSUME TypeOK, NEW c \in Clients, ~Listed(c), RegisterClient(c)
    PROVE  /\ clients' \in Seq(Clients) /\ IsInjective(clients')
           /\ Range(clients') = Range(clients) \cup {c}
           /\ clientsID' \in Seq(0..IdModulus - 1)
           /\ Len(clients') = Len(clients) + 1
           /\ Len(clientsID') = Len(clients')
           /\ id_value' \in 0..IdModulus - 1
<1>1. /\ clients \in Seq(Clients) /\ IsInjective(clients)
      /\ clientsID \in Seq(0..IdModulus - 1) /\ Len(clientsID) = Len(clients)
      /\ id_value \in 0..IdModulus - 1
    BY DEF TypeOK
<1>2. /\ clients' = Append(clients, c)
      /\ clientsID' = Append(clientsID, id_value')
      /\ id_value' = (id_value + 1) % IdModulus
    BY DEF RegisterClient
<1>3. id_value' \in 0..IdModulus - 1
    BY <1>1, <1>2, ConstantsAssumption
<1>4. /\ clients' \in Seq(Clients) /\ IsInjective(clients')
      /\ Range(clients') = Range(clients) \cup {c}
    BY <1>1, <1>2, AppendDistinct DEF Listed
<1>5. /\ clientsID' \in Seq(0..IdModulus - 1)
      /\ Len(clientsID') = Len(clientsID) + 1
    BY <1>1, <1>2, <1>3, AppendProperties
<1>6. Len(clients') = Len(clients) + 1
    BY <1>1, <1>2, AppendProperties
<1>7. QED
    BY <1>1, <1>3, <1>4, <1>5, <1>6

\* DeregisterClient erases the client's entry, and only that, from both.
LEMMA EraseVectors ==
    ASSUME TypeOK, NEW c \in Clients, Listed(c)
    PROVE  \E k \in 1..Len(clients) :
               /\ clients[k] = c
               /\ Erased(clients, c) \in Seq(Clients)
               /\ IsInjective(Erased(clients, c))
               /\ Range(Erased(clients, c)) = Range(clients) \ {c}
               /\ Erased(clientsID, c) \in Seq(0..IdModulus - 1)
               /\ Len(Erased(clients, c)) = Len(clients) - 1
               /\ Len(Erased(clientsID, c)) = Len(clients) - 1
               /\ \A i \in 1..Len(clients) - 1 :
                      LET old == IF i < k THEN i ELSE i + 1 IN
                      /\ Erased(clients, c)[i] = clients[old]
                      /\ Erased(clientsID, c)[i] = clientsID[old]
<1> DEFINE k == CHOOSE i \in 1..Len(clients) : clients[i] = c
<1>1. \E j \in 1..Len(clients) : clients[j] = c
    BY VectorEntries
<1>2. k \in 1..Len(clients) /\ clients[k] = c
    BY <1>1
<1>3. /\ Erased(clients, c) = RemoveAt(clients, k)
      /\ Erased(clientsID, c) = RemoveAt(clientsID, k)
    BY DEF Erased
<1>4. /\ clients \in Seq(Clients) /\ IsInjective(clients)
      /\ clientsID \in Seq(0..IdModulus - 1) /\ Len(clientsID) = Len(clients)
    BY DEF TypeOK
<1> HIDE DEF k
<1>5. /\ RemoveAt(clients, k) \in Seq(Clients)
      /\ IsInjective(RemoveAt(clients, k))
      /\ Range(RemoveAt(clients, k)) = Range(clients) \ {c}
    BY <1>2, <1>4, RemoveAtDistinct
<1>6. /\ Len(RemoveAt(clients, k)) = Len(clients) - 1
      /\ \A i \in 1..Len(clients) - 1 :
             RemoveAt(clients, k)[i] =
                 IF i < k THEN clients[i] ELSE clients[i + 1]
    BY <1>2, <1>4, RemoveAtEntries
<1>7. /\ RemoveAt(clientsID, k) \in Seq(0..IdModulus - 1)
      /\ Len(RemoveAt(clientsID, k)) = Len(clients) - 1
      /\ \A i \in 1..Len(clients) - 1 :
             RemoveAt(clientsID, k)[i] =
                 IF i < k THEN clientsID[i] ELSE clientsID[i + 1]
    BY <1>2, <1>4, RemoveAtEntries
<1>8. QED
    BY <1>2, <1>3, <1>5, <1>6, <1>7

\* What is left in the vectors keeps its order.
LEMMA EraseKeepsOrder ==
    ASSUME TypeOK, NEW c \in Clients, Listed(c), NEW from, NEW to,
           DeregisterErase(c, from, to)
    PROVE  \E old \in [1..Len(clients') -> 1..Len(clients)] :
               /\ \A i, j \in 1..Len(clients') : i < j => old[i] < old[j]
               /\ \A i \in 1..Len(clients') :
                      /\ clients'[i] = clients[old[i]] /\ clients[old[i]] # c
                      /\ clientsID'[i] = clientsID[old[i]]
<1>1. PICK k \in 1..Len(clients) :
          /\ clients[k] = c
          /\ Len(Erased(clients, c)) = Len(clients) - 1
          /\ \A i \in 1..Len(clients) - 1 :
                 LET old == IF i < k THEN i ELSE i + 1 IN
                 /\ Erased(clients, c)[i] = clients[old]
                 /\ Erased(clientsID, c)[i] = clientsID[old]
    BY EraseVectors
<1> DEFINE old == [i \in 1..Len(clients') |-> IF i < k THEN i ELSE i + 1]
<1>2. clients' = Erased(clients, c) /\ clientsID' = Erased(clientsID, c)
    BY DEF DeregisterErase
<1>3. Len(clients) \in Nat /\ Len(clients') = Len(clients) - 1
    BY <1>1, <1>2, VectorEntries
<1>4. old \in [1..Len(clients') -> 1..Len(clients)]
    BY <1>3
<1>5. \A i, j \in 1..Len(clients') : i < j => old[i] < old[j]
    BY <1>3
<1>6. \A i \in 1..Len(clients') : old[i] \in 1..Len(clients) /\ old[i] # k
    BY <1>3
<1>7. \A i \in 1..Len(clients') : clients[old[i]] # c
    BY <1>1, <1>6, VectorEntries
<1>8. \A i \in 1..Len(clients') :
          clients'[i] = clients[old[i]] /\ clientsID'[i] = clientsID[old[i]]
    BY <1>1, <1>2, <1>3
<1>9. QED
    BY <1>4, <1>5, <1>7, <1>8
\* The steps of the lists' threads keep the invariant.
LEMMA ClientInv ==
    ASSUME Inv, failed = "no", NEW c \in Clients, ClientCall(c) \/ ClientStep(c)
    PROVE  Inv'
<1> USE ConstantsAssumption
    DEF TypeOK, CollectedListsAlive, NeverAsserts, ThreadEndsFirst,
        ScanOrder, ClientOrder, StateOrder, OwnerOrder, Inv,
        Listed, States, Registered, HaveDeletes, InUse, NoScan, Signal
<1>1. ASSUME Construct(c)
      PROVE  Inv'
    BY <1>1 DEF Construct
<1>2. ASSUME Delete(c)
      PROVE  Inv'
    BY <1>2 DEF Delete
<1>3. ASSUME CollectHere(c)
      PROVE  Inv'
    BY <1>3 DEF CollectHere
<1>4. ASSUME Destruct(c)
      PROVE  Inv'
    BY <1>4 DEF Destruct
<1>5. ASSUME RegisterClient(c)
      PROVE  Inv'
  <2>1. ~Listed(c)
    BY <1>5 DEF RegisterClient
  <2>2. /\ clients' \in Seq(Clients) /\ IsInjective(clients')
        /\ Range(clients') = Range(clients) \cup {c}
        /\ clientsID' \in Seq(0..IdModulus - 1)
        /\ Len(clients') = Len(clients) + 1
        /\ Len(clientsID') = Len(clients')
        /\ id_value' \in 0..IdModulus - 1
    BY <1>5, <2>1, RegisterVectors
  <2>3. Len(clients) \in Nat
    BY VectorEntries
  <2>4. ix_client' \in 1..Len(clients') + 1 /\ ~data_lock
    BY <1>5, <2>2, <2>3 DEF RegisterClient
  <2>5. /\ cpc[c] = "register" /\ cpc' = [cpc EXCEPT ![c] = "ready"]
        /\ state' = [state EXCEPT ![c] = "REGISTERED"]
        /\ collector_thread' = [collector_thread EXCEPT ![c] = TRUE]
        /\ failed' = "no"
        /\ UNCHANGED <<data_lock, thread, sema, garbage, pc, scan, call, owner>>
    BY <1>5 DEF RegisterClient
  <2>6. TypeOK'
    BY <2>2, <2>4, <2>5
  <2>7. (CollectedListsAlive /\ ClientOrder /\ StateOrder)'
    BY <2>2, <2>5
  <2>8. (ScanOrder /\ OwnerOrder /\ NeverAsserts /\ ThreadEndsFirst)'
    BY <2>5
  <2>9. QED
    BY <2>6, <2>7, <2>8
<1>6. ASSUME DeleteSignal(c)
      PROVE  Inv'
    BY <1>6 DEF DeleteSignal
<1>7. ASSUME DeregisterMark(c, "dereg", "erase")
      PROVE  Inv'
    BY <1>7 DEF DeregisterMark
<1>8. ASSUME DeregisterErase(c, "erase", "free")
      PROVE  Inv'
  <2>1. Listed(c) /\ ~data_lock
    BY <1>8 DEF DeregisterErase
  <2>2. /\ clients' \in Seq(Clients) /\ IsInjective(clients')
        /\ Range(clients') = Range(clients) \ {c}
        /\ clientsID' \in Seq(0..IdModulus - 1)
        /\ Len(clients') = Len(clients) - 1 /\ Len(clientsID') = Len(clients')
        /\ Len(clients) >= 1
    BY <1>8, <2>1, EraseVectors DEF DeregisterErase
  <2>3. Len(clients) \in Nat
    BY VectorEntries
  <2>4. QED
    BY <1>8, <2>1, <2>2, <2>3 DEF DeregisterErase
<1>9. ASSUME Free(c)
      PROVE  Inv'
  <2>1. TypeOK'
    BY <1>9 DEF Free
  <2>2. (CollectedListsAlive /\ ClientOrder /\ StateOrder)'
    BY <1>9 DEF Free
  <2>3. (ScanOrder /\ OwnerOrder /\ NeverAsserts /\ ThreadEndsFirst)'
    BY <1>9 DEF Free
  <2>4. QED
    BY <2>1, <2>2, <2>3
<1>10. QED
    BY <1>1, <1>2, <1>3, <1>4, <1>5, <1>6, <1>7, <1>8, <1>9
    DEF ClientCall, ClientStep

\* The steps of the collector thread keep the invariant.
LEMMA CollectorInv ==
    ASSUME Inv, failed = "no", CollectorStep
    PROVE  Inv'
<1> USE ConstantsAssumption
    DEF TypeOK, CollectedListsAlive, NeverAsserts, ThreadEndsFirst,
        ScanOrder, ClientOrder, StateOrder, OwnerOrder, Inv,
        Listed, States, Registered, HaveDeletes, InUse, NoScan, Signal
<1>1. ASSUME RunActive
      PROVE  Inv'
    BY <1>1 DEF RunActive
<1>2. ASSUME ScanLock
      PROVE  Inv'
    BY <1>2 DEF ScanLock
<1>3. ASSUME ScanEntry
      PROVE  Inv'
  <2>1. /\ ix_client \in 1..Len(clients)
        /\ ix_client + 1 \in 1..Len(clients) + 1 /\ 1 \in 1..Len(clients) + 1
    BY <1>3, VectorEntries DEF ScanEntry
  <2>2. /\ clients[ix_client] \in Clients /\ Listed(clients[ix_client])
        /\ clientsID[ix_client] \in 0..IdModulus - 1
    BY <2>1, VectorEntries
  <2> DEFINE c == clients[ix_client]
             new == clientsID[ix_client] > curr_id
  <2> HIDE DEF c, new
  <2>3. CASE new /\ HaveDeletes(c) /\ Registered(c)
    <3>1. /\ pc = "scan" /\ pc' = "collect" /\ failed' = "no"
          /\ state' = [state EXCEPT ![c] = "COLLECTING"]
          /\ curr_id' = clientsID[ix_client] /\ ix_client' = 1 /\ clientp' = c
          /\ data_lock' = FALSE
          /\ UNCHANGED <<vectors, thread, sema, collector_thread, garbage,
                         pending, cpc, call, owner>>
        BY <1>3, <2>3 DEF ScanEntry, c, new
    <3>2. c \in Clients /\ Listed(c) /\ state[c] = "REGISTERED"
        BY <2>2, <2>3 DEF c
    <3>3. TypeOK'
        BY <2>1, <2>2, <3>1, <3>2
    <3>4. (CollectedListsAlive /\ ClientOrder /\ StateOrder)'
        BY <3>1, <3>2
    <3>5. (ScanOrder /\ OwnerOrder /\ NeverAsserts /\ ThreadEndsFirst)'
        BY <3>1, <3>2
    <3>6. QED
        BY <3>3, <3>4, <3>5
  <2>4. CASE new /\ HaveDeletes(c) /\ ~Registered(c)
    BY <1>3, <2>1, <2>2, <2>4 DEF ScanEntry, c, new
  <2>5. CASE ~(new /\ HaveDeletes(c))
    BY <1>3, <2>1, <2>2, <2>5 DEF ScanEntry, c, new
  <2>6. QED
    BY <2>3, <2>4, <2>5
<1>4. ASSUME ScanEnd
      PROVE  Inv'
  <2>1. 1 \in 1..Len(clients) + 1 /\ 0 \in 0..IdModulus - 1
    BY VectorEntries
  <2>2. QED
    BY <1>4, <2>1 DEF ScanEnd
<1>5. ASSUME CollectClient
      PROVE  Inv'
    BY <1>5 DEF CollectClient
<1>6. ASSUME CollectResult
      PROVE  Inv'
    BY <1>6 DEF CollectResult, Collected, Incomplete
<1>7. ASSUME CollectDone
      PROVE  Inv'
  <2>1. 1 \in 1..Len(clients) + 1 /\ 0 \in 0..IdModulus - 1
    BY VectorEntries
  <2>2. QED
    BY <1>7, <2>1 DEF CollectDone
<1>8. ASSUME RunPost
      PROVE  Inv'
    BY <1>8 DEF RunPost
<1>9. ASSUME RunWait
      PROVE  Inv'
    BY <1>9 DEF RunWait
<1>10. ASSUME RunExit
      PROVE  Inv'
    BY <1>10 DEF RunExit
<1>11. QED
    BY <1>1, <1>2, <1>3, <1>4, <1>5, <1>6, <1>7, <1>8, <1>9, <1>10
    DEF CollectorStep

\* The steps of Stop and the destructor keep the invariant.
LEMMA OwnerInv ==
    ASSUME Inv, failed = "no", OwnerStep
    PROVE  Inv'
<1> USE ConstantsAssumption
    DEF TypeOK, CollectedListsAlive, NeverAsserts, ThreadEndsFirst,
        ScanOrder, ClientOrder, StateOrder, OwnerOrder, Inv,
        Listed, States, Registered, HaveDeletes, InUse, NoScan, Signal
<1>1. ASSUME StopPost
      PROVE  Inv'
    BY <1>1 DEF StopPost, Returns
<1>2. ASSUME StopCheck
      PROVE  Inv'
    BY <1>2 DEF StopCheck, Joinable, Returns
<1>3. ASSUME StopJoin
      PROVE  Inv'
    BY <1>3 DEF StopJoin
<1>4. ASSUME StopJoined
      PROVE  Inv'
    BY <1>4 DEF StopJoined, Returns
<1>5. ASSUME ClearClients
      PROVE  Inv'
  <2>1. /\ clients' \in Seq(Clients) /\ IsInjective(clients')
        /\ Range(clients') = {}
    BY <1>5, EmptyDistinct DEF ClearClients
  <2>2. /\ clientsID' \in Seq(0..IdModulus - 1)
        /\ Len(clients') = 0 /\ Len(clientsID') = 0
    BY <1>5, EmptySeq DEF ClearClients
  <2>3. QED
    BY <1>5, <2>1, <2>2 DEF ClearClients
<1>6. QED
    BY <1>1, <1>2, <1>3, <1>4, <1>5
    DEF OwnerStep

\* Every step keeps the invariant.
LEMMA InvStep ==
    ASSUME Inv, [Next]_vars
    PROVE  Inv'
<1> DEFINE Goes == failed = "no"
<1>1. ASSUME Goes, NEW c \in Clients, ClientCall(c) \/ ClientStep(c)
      PROVE  Inv'
    BY <1>1, ClientInv
<1>2. ASSUME Goes, NEW c \in Clients, NEW o \in Objects, LetGo(c, o)
      PROVE  Inv'
    BY <1>2
    DEF LetGo, Listed, NoScan,
        TypeOK, CollectedListsAlive, NeverAsserts, ThreadEndsFirst,
        ScanOrder, ClientOrder, StateOrder, OwnerOrder, Inv
<1>3. ASSUME Goes, CollectorStep
      PROVE  Inv'
    BY <1>3, CollectorInv
<1>4. ASSUME Goes, NEW by \in {"stop", "stop_join", "destructor"},
             StopActive(by)
      PROVE  Inv'
    BY <1>4
    DEF StopActive, Listed, NoScan,
        TypeOK, CollectedListsAlive, NeverAsserts, ThreadEndsFirst,
        ScanOrder, ClientOrder, StateOrder, OwnerOrder, Inv
<1>5. ASSUME Goes, OwnerStep
      PROVE  Inv'
    BY <1>5, OwnerInv
<1>6. CASE UNCHANGED vars
    BY <1>6
    DEF vars, Listed, NoScan,
        TypeOK, CollectedListsAlive, NeverAsserts, ThreadEndsFirst,
        ScanOrder, ClientOrder, StateOrder, OwnerOrder, Inv
<1>7. QED
    BY <1>1, <1>2, <1>3, <1>4, <1>5, <1>6 DEF Next, Stopped

\* The invariant holds throughout.
LEMMA Invariance == Spec => []Inv
<1>1. Init => Inv
    BY InvInit
<1>2. Inv /\ [Next]_vars => Inv'
    BY InvStep
<1>3. QED
    BY <1>1, <1>2, PTL DEF Spec

\* No list is registered twice, the two vectors keep their entries together,
\* and the search never leaves them.
THEOREM TypeCorrect == Spec => []TypeOK
<1>1. Inv => TypeOK
    BY DEF Inv
<1>2. QED
    BY <1>1, Invariance, PTL

\* However many lists come and go while the collector scans, it touches none
\* that is gone: a list it has marked stays in the vector and in memory.
THEOREM ListsAlive == Spec => []CollectedListsAlive
<1>1. Inv => CollectedListsAlive
    BY DEF Inv
<1>2. QED
    BY <1>1, Invariance, PTL

\* No CHECK_ASSERT of CollectorThread fails.
THEOREM AssertsHold == Spec => []NeverAsserts
<1>1. Inv => NeverAsserts
    BY DEF Inv
<1>2. QED
    BY <1>1, Invariance, PTL

\* The destructor outlives the collector thread.
THEOREM ThreadEnds == Spec => []ThreadEndsFirst
<1>1. Inv => ThreadEndsFirst
    BY DEF Inv
<1>2. QED
    BY <1>1, Invariance, PTL

-----------------------------------------------------------------------------
(* No signal is lost, as long as id_value does not wrap.                    *)

\* The lists that are about to register.
Registering == {c \in Clients : cpc[c] = "register"}

\* There are ids for all of them.
IdsLeft == id_value + Cardinality(Registering) < IdModulus

\* Ids are given out in ascending order, and a search starts below all of them.
IdsInOrder ==
    /\ \A i \in 1..Len(clients) : clientsID[i] \in 1..id_value
    /\ \A i, j \in 1..Len(clients) : i < j => clientsID[i] < clientsID[j]
    /\ curr_id <= id_value

\* The search has seen the entries that it has passed.
Passed == \A i \in 1..ix_client - 1 : clientsID[i] <= curr_id

\* The collector will come to the list of entry i, or to its event.
Awaited(i) ==
    \/ cpc[clients[i]] \in {"signal", "erase"}
    \/ sema
    \/ pc \in {"active", "post"}
    \/ pc \in {"lock", "scan", "collect", "result", "done"} /\ pending
    \/ pc \in {"lock", "scan", "collect", "result"} /\ clientsID[i] > curr_id
    \/ pc \in {"collect", "result"} /\ clientp = clients[i]

\* It will come to every list that has something to collect.
SignalsKept ==
    active => \A i \in 1..Len(clients) :
                  retired[clients[i]] # {} => Awaited(i)

\* The inductive invariant, next to Inv.
SignalInv == IdsLeft /\ IdsInOrder /\ Passed /\ SignalsKept

\* Registering is a finite set: its size changes by one with its elements.
LEMMA RegisteringSize ==
    /\ IsFiniteSet(Registering) /\ Cardinality(Registering) \in Nat
    /\ \A c \in Clients \ Registering :
           Cardinality(Registering \cup {c}) = Cardinality(Registering) + 1
    /\ \A c \in Registering :
           /\ Cardinality(Registering) >= 1
           /\ Cardinality(Registering \ {c}) = Cardinality(Registering) - 1
<1>1. IsFiniteSet(Registering)
    BY ConstantsAssumption, FS_Subset DEF Registering
<1>2. Cardinality(Registering) \in Nat
    BY <1>1, FS_CardinalityType
<1>3. \A c \in Clients \ Registering :
          Cardinality(Registering \cup {c}) = Cardinality(Registering) + 1
    BY <1>1, FS_AddElement
<1>4. ASSUME NEW c \in Registering
      PROVE  /\ Cardinality(Registering) >= 1
             /\ Cardinality(Registering \ {c}) = Cardinality(Registering) - 1
  <2>1. /\ IsFiniteSet(Registering \ {c})
        /\ Cardinality(Registering \ {c}) = Cardinality(Registering) - 1
    BY <1>1, FS_RemoveElement
  <2>2. Cardinality(Registering \ {c}) \in Nat
    BY <2>1, FS_CardinalityType
  <2>3. QED
    BY <1>2, <2>1, <2>2
<1>5. QED
    BY <1>1, <1>2, <1>3, <1>4

\* The collector thread and its owner leave the lists' threads alone, and give
\* out no ids.
LEMMA OthersRegisterNone ==
    ASSUME \/ CollectorStep \/ OwnerStep
           \/ \E c \in Clients, o \in Objects : LetGo(c, o)
           \/ \E by \in {"stop", "stop_join", "destructor"} : StopActive(by)
    PROVE  UNCHANGED <<id_value, cpc>>
<1>1. CASE CollectorStep
    BY <1>1
    DEF CollectorStep, RunActive, ScanLock, ScanEntry, ScanEnd, CollectClient,
        CollectResult, CollectDone, RunPost, RunWait, RunExit
<1>2. CASE OwnerStep
    BY <1>2
    DEF OwnerStep, StopPost, StopCheck, StopJoin, StopJoined, ClearClients
<1>3. CASE \E c \in Clients, o \in Objects : LetGo(c, o)
    BY <1>3 DEF LetGo
<1>4. CASE \E by \in {"stop", "stop_join", "destructor"} : StopActive(by)
    BY <1>4 DEF StopActive
<1>5. QED
    BY <1>1, <1>2, <1>3, <1>4

\* There is an id for everyone that registers, and RegisterClient takes the
\* next one.
LEMMA IdsLeftStep ==
    ASSUME ~WrapIds, Inv, IdsLeft, [Next]_vars
    PROVE  /\ IdsLeft'
           /\ \A c \in Clients : RegisterClient(c) => id_value' = id_value + 1
<1>0. cpc \in [Clients -> {"none", "register", "ready", "signal", "dereg",
                           "erase", "free", "leave", "leaving"}]
      /\ id_value \in 0..IdModulus - 1
    BY DEF Inv, TypeOK
<1>1. ASSUME NEW c \in Clients, Construct(c)
      PROVE  IdsLeft'
  <2>1. c \notin Registering /\ Registering' = Registering \cup {c}
    BY <1>0, <1>1 DEF Construct, Registering
  <2>2. Registrations + 1 < IdModulus /\ id_value' = id_value
    BY <1>1 DEF Construct
  <2>3. QED
    BY <1>0, <2>1, <2>2, RegisteringSize, ConstantsAssumption
    DEF IdsLeft, Registrations, Registering
<1>2. ASSUME NEW c \in Clients, RegisterClient(c)
      PROVE  IdsLeft' /\ id_value' = id_value + 1
  <2>1. c \in Registering /\ Registering' = Registering \ {c}
    BY <1>0, <1>2 DEF RegisterClient, Registering
  <2>2. id_value + 1 < IdModulus
    BY <1>0, <2>1, RegisteringSize, ConstantsAssumption DEF IdsLeft
  <2>3. id_value' = id_value + 1
    <3>1. id_value' = (id_value + 1) % IdModulus
        BY <1>2 DEF RegisterClient
    <3>2. id_value + 1 \in 0..IdModulus - 1 /\ IdModulus \in Nat
        BY <1>0, <2>2, ConstantsAssumption
    <3>3. (id_value + 1) % IdModulus = id_value + 1
        BY <3>2
    <3>4. QED
        BY <3>1, <3>3
  <2>4. QED
    BY <1>0, <2>1, <2>3, RegisteringSize, ConstantsAssumption DEF IdsLeft
<1>3. ASSUME UNCHANGED <<id_value, Registering>>
      PROVE  IdsLeft'
    BY <1>3 DEF IdsLeft
<1>4. ASSUME NEW c \in Clients,
             \/ Delete(c) \/ CollectHere(c) \/ Destruct(c) \/ DeleteSignal(c)
             \/ DeregisterMark(c, "dereg", "erase")
             \/ DeregisterErase(c, "erase", "free") \/ Free(c)
      PROVE  UNCHANGED <<id_value, Registering>>
    BY <1>0, <1>4
    DEF Delete, CollectHere, Destruct, DeleteSignal, DeregisterMark,
        DeregisterErase, Free, Registering
<1>5. ASSUME UNCHANGED <<id_value, cpc>>
      PROVE  UNCHANGED <<id_value, Registering>>
    BY <1>5 DEF Registering
<1>6. ASSUME UNCHANGED vars
      PROVE  IdsLeft'
    BY <1>3, <1>5, <1>6 DEF vars
<1>7. QED
    BY <1>1, <1>2, <1>3, <1>4, <1>5, <1>6, OthersRegisterNone
    DEF Next, ClientCall, ClientStep, Stopped

\* The parts of the invariant that depend on the ids that are given out.
Promises == IdsInOrder /\ Passed /\ SignalsKept

\* The lists' threads keep the collector coming.
LEMMA ClientPromises ==
    ASSUME Inv, SignalInv, NEW c \in Clients, ClientCall(c) \/ ClientStep(c),
           RegisterClient(c) => id_value' = id_value + 1
    PROVE  Promises'
<1>0. /\ Len(clients) \in Nat /\ id_value \in Nat /\ curr_id \in Nat
      /\ \A i \in 1..Len(clients) :
             /\ clients[i] \in Clients /\ Listed(clients[i])
             /\ clientsID[i] \in Nat
      /\ \A i, j \in 1..Len(clients) : clients[i] = clients[j] => i = j
    BY VectorEntries DEF Inv, TypeOK
<1> USE ConstantsAssumption
    DEF Promises, IdsInOrder, Passed, SignalsKept, Awaited, SignalInv, Inv,
        TypeOK, ScanOrder, ClientOrder, StateOrder, CollectedListsAlive,
        HaveDeletes
<1>1. ASSUME Construct(c)
      PROVE  Promises'
    BY <1>0, <1>1 DEF Construct
<1>2. ASSUME Delete(c)
      PROVE  Promises'
    BY <1>0, <1>2 DEF Delete
<1>3. ASSUME CollectHere(c)
      PROVE  Promises'
    BY <1>0, <1>3 DEF CollectHere
<1>4. ASSUME Destruct(c)
      PROVE  Promises'
    BY <1>0, <1>4 DEF Destruct
<1>5. ASSUME RegisterClient(c)
      PROVE  Promises'
    BY <1>0, <1>5 DEF RegisterClient
<1>6. ASSUME DeleteSignal(c)
      PROVE  Promises'
    BY <1>0, <1>6 DEF DeleteSignal, Signal
<1>7. ASSUME DeregisterMark(c, "dereg", "erase")
      PROVE  Promises'
    BY <1>0, <1>7 DEF DeregisterMark, Registered
<1>8. ASSUME DeregisterErase(c, "erase", "free")
      PROVE  Promises'
  <2>1. Listed(c) /\ ix_client = 1 /\ ix_client' = 1
    BY <1>8 DEF DeregisterErase
  <2>2. PICK old \in [1..Len(clients') -> 1..Len(clients)] :
            /\ \A i, j \in 1..Len(clients') : i < j => old[i] < old[j]
            /\ \A i \in 1..Len(clients') :
                   /\ clients'[i] = clients[old[i]] /\ clients[old[i]] # c
                   /\ clientsID'[i] = clientsID[old[i]]
    BY <1>8, <2>1, EraseKeepsOrder
  <2>3. \A i \in 1..Len(clients') : old[i] \in 1..Len(clients)
    BY <2>2
  <2>4. /\ UNCHANGED <<id_value, curr_id, active, retired, sema, pc, pending,
                        clientp>>
        /\ \A d \in Clients \ {c} : cpc'[d] = cpc[d]
    BY <1>8 DEF DeregisterErase
  <2>5. IdsInOrder'
    <3>1. \A i \in 1..Len(clients') : clientsID'[i] \in 1..id_value
        BY <2>2, <2>3
    <3>2. ASSUME NEW i \in 1..Len(clients'), NEW j \in 1..Len(clients'), i < j
          PROVE  clientsID'[i] < clientsID'[j]
        <4>1. clientsID[old[i]] < clientsID[old[j]]
            BY <2>2, <2>3, <3>2
        <4>2. QED
            BY <2>2, <4>1
    <3>3. QED
        BY <2>4, <3>1, <3>2
  <2>6. Passed'
    BY <2>1
  <2>7. ASSUME active, NEW i \in 1..Len(clients'), retired[clients'[i]] # {}
        PROVE  Awaited(i)'
    <3>1. Awaited(old[i]) /\ clients[old[i]] \in Clients \ {c}
        BY <1>0, <2>2, <2>3, <2>7
    <3>2. QED
        BY <2>2, <2>3, <2>4, <2>7, <3>1
  <2>8. QED
    BY <2>4, <2>5, <2>6, <2>7
<1>9. ASSUME Free(c)
      PROVE  Promises'
    BY <1>0, <1>9 DEF Free
<1>10. QED
    BY <1>1, <1>2, <1>3, <1>4, <1>5, <1>6, <1>7, <1>8, <1>9
    DEF ClientCall, ClientStep

\* The collector thread comes to whatever it has not seen.
LEMMA CollectorPromises ==
    ASSUME Inv, SignalInv, CollectorStep
    PROVE  Promises'
<1>0. /\ Len(clients) \in Nat /\ id_value \in Nat /\ curr_id \in Nat
      /\ \A i \in 1..Len(clients) :
             /\ clients[i] \in Clients /\ Listed(clients[i])
             /\ clientsID[i] \in Nat
      /\ \A i, j \in 1..Len(clients) : clients[i] = clients[j] => i = j
    BY VectorEntries DEF Inv, TypeOK
<1> USE ConstantsAssumption
    DEF Promises, IdsInOrder, Passed, SignalsKept, Awaited, SignalInv, Inv,
        TypeOK, ScanOrder, ClientOrder, StateOrder, CollectedListsAlive,
        HaveDeletes
<1>1. ASSUME RunActive
      PROVE  Promises'
    BY <1>0, <1>1 DEF RunActive, NoScan
<1>2. ASSUME ScanLock
      PROVE  Promises'
    BY <1>0, <1>2 DEF ScanLock
<1>3. ASSUME ScanEntry
      PROVE  Promises'
  <2> DEFINE c == clients[ix_client]
             id == clientsID[ix_client]
  <2>1. /\ ix_client \in 1..Len(clients) /\ c \in Clients /\ id \in Nat
        /\ pc = "scan" /\ id <= id_value
    BY <1>0, <1>3 DEF ScanEntry
  <2>2. /\ curr_id' = IF id > curr_id THEN id ELSE curr_id
        /\ UNCHANGED <<vectors, thread, sema, garbage, pending, cpc>>
        /\ \/ /\ pc' = "collect" /\ clientp' = c /\ ix_client' = 1
              /\ id > curr_id
           \/ /\ pc' = "scan" /\ ix_client' = ix_client + 1
              /\ id <= curr_id \/ retired[c] = {} \/ state[c] # "REGISTERED"
    BY <1>0, <1>3, <2>1 DEF ScanEntry, Registered
  <2>3. state[c] # "REGISTERED" => cpc[c] = "erase"
    BY <1>0, <2>1 DEF Listed
  <2>4. \A i \in 1..Len(clients) :
            /\ i < ix_client => clientsID[i] <= curr_id
            /\ i > ix_client => clientsID[i] > id
    BY <1>0, <2>1
  <2> HIDE DEF c, id
  <2>5. /\ curr_id' \in Nat /\ curr_id' >= curr_id
        /\ curr_id' >= id /\ curr_id' <= id_value
    BY <1>0, <2>1, <2>2
  <2>6. IdsInOrder'
    BY <1>0, <2>2, <2>5
  <2>7. Passed'
    BY <1>0, <2>1, <2>2, <2>4, <2>5 DEF id
  <2>8. ASSUME active, NEW i \in 1..Len(clients), retired[clients[i]] # {}
        PROVE  Awaited(i)'
    <3>0. Awaited(i)
        BY <2>8
    <3>1. CASE i < ix_client
        BY <1>0, <2>1, <2>2, <2>4, <3>0, <3>1
    <3>2. CASE i = ix_client
        BY <1>0, <2>1, <2>2, <2>3, <2>8, <3>0, <3>2 DEF c, id
    <3>3. CASE i > ix_client
        BY <1>0, <2>1, <2>2, <2>4, <3>0, <3>3
    <3>4. QED
        BY <2>1, <3>1, <3>2, <3>3
  <2>9. QED
    BY <2>2, <2>6, <2>7, <2>8
<1>4. ASSUME ScanEnd
      PROVE  Promises'
    BY <1>0, <1>4 DEF ScanEnd
<1>5. ASSUME CollectClient
      PROVE  Promises'
    BY <1>0, <1>5 DEF CollectClient
<1>6. ASSUME CollectResult
      PROVE  Promises'
    BY <1>0, <1>6 DEF CollectResult, Incomplete
<1>7. ASSUME CollectDone
      PROVE  Promises'
    BY <1>0, <1>7 DEF CollectDone
<1>8. ASSUME RunPost
      PROVE  Promises'
    BY <1>0, <1>8 DEF RunPost
<1>9. ASSUME RunWait
      PROVE  Promises'
    BY <1>0, <1>9 DEF RunWait
<1>10. ASSUME RunExit
      PROVE  Promises'
    BY <1>0, <1>10 DEF RunExit
<1>11. QED
    BY <1>1, <1>2, <1>3, <1>4, <1>5, <1>6, <1>7, <1>8, <1>9, <1>10
    DEF CollectorStep

\* Stop and the destructor break no promise.
LEMMA OwnerPromises ==
    ASSUME Inv, SignalInv, OwnerStep
    PROVE  Promises'
<1>0. /\ Len(clients) \in Nat /\ id_value \in Nat /\ curr_id \in Nat
      /\ \A i \in 1..Len(clients) :
             /\ clients[i] \in Clients /\ Listed(clients[i])
             /\ clientsID[i] \in Nat
      /\ \A i, j \in 1..Len(clients) : clients[i] = clients[j] => i = j
    BY VectorEntries DEF Inv, TypeOK
<1> USE ConstantsAssumption
    DEF Promises, IdsInOrder, Passed, SignalsKept, Awaited, SignalInv, Inv,
        TypeOK, ScanOrder, ClientOrder, StateOrder, CollectedListsAlive,
        HaveDeletes
<1>1. ASSUME StopPost
      PROVE  Promises'
    BY <1>0, <1>1 DEF StopPost, Signal
<1>2. ASSUME StopCheck
      PROVE  Promises'
    BY <1>0, <1>2 DEF StopCheck
<1>3. ASSUME StopJoin
      PROVE  Promises'
    BY <1>0, <1>3 DEF StopJoin
<1>4. ASSUME StopJoined
      PROVE  Promises'
    BY <1>0, <1>4 DEF StopJoined
<1>5. ASSUME ClearClients
      PROVE  Promises'
    BY <1>0, <1>5 DEF ClearClients
<1>6. QED
    BY <1>1, <1>2, <1>3, <1>4, <1>5
    DEF OwnerStep

\* Every step keeps the promises.
LEMMA SignalStep ==
    ASSUME ~WrapIds, Inv, SignalInv, [Next]_vars
    PROVE  SignalInv'
<1>1. /\ IdsLeft'
      /\ \A c \in Clients : RegisterClient(c) => id_value' = id_value + 1
    BY IdsLeftStep DEF SignalInv
<1>2. ASSUME NEW c \in Clients, ClientCall(c) \/ ClientStep(c)
      PROVE  Promises'
    BY <1>1, <1>2, ClientPromises
<1>3. ASSUME CollectorStep
      PROVE  Promises'
    BY <1>3, CollectorPromises
<1>4. ASSUME OwnerStep
      PROVE  Promises'
    BY <1>4, OwnerPromises
<1> USE DEF Promises, IdsInOrder, Passed, SignalsKept, Awaited, SignalInv
<1>5. ASSUME NEW c \in Clients, NEW o \in Objects, LetGo(c, o)
      PROVE  Promises'
    BY <1>5 DEF LetGo
<1>6. ASSUME NEW by \in {"stop", "stop_join", "destructor"}, StopActive(by)
      PROVE  Promises'
    BY <1>6 DEF StopActive
<1>7. ASSUME UNCHANGED vars
      PROVE  Promises'
    BY <1>7 DEF vars
<1>8. Promises'
  <2> HIDE DEF Promises
  <2>1. QED
    BY <1>2, <1>3, <1>4, <1>5, <1>6, <1>7 DEF Next, Stopped
<1>9. QED
    BY <1>1, <1>8

\* The first states satisfy the signal invariant.
LEMMA SignalInit ==
    ASSUME Init
    PROVE  SignalInv
<1>1. Len(clients) = 0 /\ curr_id = 0 /\ ix_client = 1 /\ id_value = 0
    BY EmptySeq DEF Init, NoScan
<1>2. Registering = {}
    BY DEF Init, Registering
<1>3. IdsLeft
    BY <1>1, <1>2, FS_EmptySet, ConstantsAssumption DEF IdsLeft
<1>4. QED
    BY <1>1, <1>3 DEF SignalInv, IdsInOrder, Passed, SignalsKept

\* As long as id_value does not wrap, the collector does not go to sleep on a
\* list that has signalled and has objects to collect, whatever lists register,
\* retire, deregister and go meanwhile.
THEOREM SignalsReach == ~WrapIds => (Spec => []NoLostSignal)
<1> SUFFICES ASSUME ~WrapIds
             PROVE  Spec => []NoLostSignal
    OBVIOUS
<1>1. Init => Inv /\ SignalInv
    BY InvInit, SignalInit
<1>2. Inv /\ SignalInv /\ [Next]_vars => (Inv /\ SignalInv)'
    BY InvStep, SignalStep
<1>3. Inv /\ SignalInv => NoLostSignal
  <2> SUFFICES ASSUME Inv, SignalInv, active, pc = "wait", ~sema,
                      NEW c \in Clients, Listed(c), retired[c] # {}
               PROVE  cpc[c] \in {"signal", "erase"}
    BY DEF NoLostSignal
  <2>1. PICK i \in 1..Len(clients) : clients[i] = c
    BY VectorEntries DEF Inv
  <2>2. QED
    BY <2>1 DEF SignalInv, SignalsKept, Awaited
<1>4. QED
    BY <1>1, <1>2, <1>3, PTL DEF Spec

=============================================================================
