---------------------------- MODULE HazardDomain ----------------------------
(***************************************************************************)
(* HazardPointerList with its HazardPointerNodes, and one HazardPointer    *)
(* for each client thread (HazardPointer.hpp).  The clients share one      *)
(* location that points to an object; they read it through their hazard    *)
(* pointer, or unlink the object and Delete it, while other threads run    *)
(* Collect.                                                                *)
(*                                                                         *)
(* Every access to memory that two threads share is a step.  The build is  *)
(* not optimised (Makefile: CF), so each plain read in the code is a load. *)
(***************************************************************************)
EXTENDS Integers, FiniteSets

CONSTANTS
    Clients,        \* threads that own a HazardPointer
    Collectors,     \* threads that call Collect()
    MaxNodes,       \* memory for HazardPointerNodes; bounds the complete set
    Objects,        \* memory for the client's objects
    NULL,
    SerialAcquire,  \* TRUE if clients do not run AcquireNode concurrently
    SerialDelete    \* TRUE if clients do not run Delete during Collect

ASSUME NamesAssumption ==
    Clients \cap Collectors = {} /\ NULL \notin Objects \cup Nat
ASSUME MaxNodesAssumption == MaxNodes \in Nat
ASSUME FlagsAssumption == SerialAcquire \in BOOLEAN /\ SerialDelete \in BOOLEAN

VARIABLES
    slot,        \* the clients' shared location: an object or NULL
    heap,        \* the objects that are allocated
    nodes,       \* complete set: the nodes 1..nodes, n linked to n - 1
    head,        \* head of free_list and of gc_list
    pointer,     \* members of each node
    gc_pointer,
    next,
    hp_node,     \* member of each client's HazardPointer
    pc,          \* next access of each thread
    node,        \* local of push and pop
    desired,     \* local of pop
    value,       \* what Acquire has read through ptrptr
    all_haz_ptrs, scan, gc_node, next_gc_node,  \* member and locals of Collect
    ppnode, expected,                           \* locals of remove
    failed       \* TRUE once a CHECK_ASSERT or delete has failed

app == <<slot, heap>>
pointers == <<pointer, gc_pointer>>
lists == <<nodes, head, next, pointers>>
locals == <<node, desired, value>>
hazards == <<all_haz_ptrs, scan>>
link == <<ppnode, expected>>
gc == <<hazards, gc_node, next_gc_node, link>>
vars == <<app, lists, hp_node, pc, locals, gc, failed>>

end_node == 0
Nodes == 1..MaxNodes
Links == Nodes \cup {end_node, NULL}
Lists == {"free", "gc"}
Threads == Clients \cup Collectors

Unbound == {"idle", "pop_read", "pop_next", "pop_swap", "pop_clear", "new",
            "rl_link", "rl_swap"}
Settable == {"bound", "set", "protected"}
ClientLabels == Unbound \cup Settable \cup {"acq_store", "unlinked", "dl_link",
                                            "dl_swap", "dl_check"}
CollectLabels == {"idle", "lock", "scan", "gc_node", "rm_find", "rm_read",
                  "rm_swap", "rm_clear", "cf_link", "cf_swap"}

\* Outside Collect.  (Members and locals that are dead have one value.)
NoScan ==
    /\ all_haz_ptrs = {} /\ scan = end_node
    /\ gc_node = end_node /\ next_gc_node = NULL
    /\ ppnode = NULL /\ expected = NULL

\* Type invariant.  A HazardPointer is never bound to end_node, and a list
\* always starts with a node.
TypeOK ==
    /\ slot \in Objects \cup {NULL} /\ heap \subseteq Objects
    /\ nodes \in 0..MaxNodes
    /\ head \in [Lists -> Nodes \cup {end_node}]
    /\ next \in [Nodes \cup {end_node} -> Links]
    /\ pointer \in [Nodes -> Objects \cup {NULL}]
    /\ gc_pointer \in [Nodes -> Objects \cup {NULL}]
    /\ hp_node \in [Clients -> Nodes \cup {NULL}]
    /\ \A c \in Clients : pc[c] \in Unbound => hp_node[c] = NULL
    /\ pc \in [Threads -> ClientLabels \cup CollectLabels]
    /\ node \in [Threads -> Links] /\ desired \in [Clients -> Links]
    /\ value \in [Clients -> Objects \cup {NULL}]
    /\ all_haz_ptrs \subseteq Objects /\ scan \in 0..MaxNodes
    /\ gc_node \in Links /\ next_gc_node \in Links
    /\ ppnode \in Links /\ expected \in Links
    /\ failed \in BOOLEAN

\* init() of an empty list; nodes as their constructor leaves them.
EmptyList ==
    [nodes |-> 0, head |-> [l \in Lists |-> end_node],
     next |-> [n \in Nodes \cup {end_node} |->
                  IF n = end_node THEN end_node ELSE NULL],
     pointer |-> [n \in Nodes |-> NULL]]

Init ==
    /\ slot = NULL /\ heap = {}
    /\ nodes = EmptyList.nodes /\ head = EmptyList.head
    /\ next = EmptyList.next
    /\ pointer = EmptyList.pointer /\ gc_pointer = EmptyList.pointer
    /\ hp_node = [c \in Clients |-> NULL]
    /\ pc = [t \in Threads |-> "idle"]
    /\ node = [t \in Threads |-> NULL]
    /\ desired = [c \in Clients |-> NULL]
    /\ value = [c \in Clients |-> NULL]
    /\ NoScan
    /\ failed = FALSE

-----------------------------------------------------------------------------
Goto(t, label) == pc' = [pc EXCEPT ![t] = label]
Step(t, from, to) == pc[t] = from /\ Goto(t, to)

CHECK_ASSERT(condition) == failed' = (failed \/ ~condition)

IsUnqueued(n) == next[n] = NULL

\* get_pointer through operator(), of a bound HazardPointer.
get_pointer(c) == pointer[hp_node[c]]

\* Where the k-th link from first leads, and the nodes on a list.
Walk(first, links) ==
    LET step[k \in 0..MaxNodes] ==
            IF k = 0 THEN first
            ELSE IF step[k - 1] \in Nodes THEN links[step[k - 1]]
            ELSE step[k - 1]
    IN  step
Reach(first, links) == {Walk(first, links)[k] : k \in 0..MaxNodes} \cap Nodes
On(list) == Reach(head[list], next)

\* Who is inside AcquireNode, Delete and Collect.
Acquiring == {c \in Clients : pc[c] \in {"pop_read", "pop_next", "pop_swap",
                                        "pop_clear", "new"}}
Deleting == {c \in Clients : pc[c] \in {"dl_link", "dl_swap", "dl_check"}}
Collecting == {g \in Collectors : pc[g] # "idle"}

-----------------------------------------------------------------------------
(* The application: it fills the shared location and unlinks what it        *)
(* deletes.  External to the library.                                       *)

Publish ==
    /\ slot = NULL
    /\ \E o \in Objects \ heap : slot' = o /\ heap' = heap \cup {o}
    /\ UNCHANGED <<lists, hp_node, pc, locals, gc, failed>>

\* "clients are responsible for checking that pointer has the expected value":
\* the object is still the one that the location points to.
Validate(c) ==
    /\ pc[c] = "set"
    /\ Goto(c, IF get_pointer(c) \in {slot} \ {NULL} THEN "protected"
                                                     ELSE "bound")
    /\ UNCHANGED <<app, lists, hp_node, locals, gc, failed>>

Unlink(c) ==
    /\ Step(c, "protected", "unlinked")
    /\ slot = get_pointer(c)
    /\ slot' = NULL
    /\ UNCHANGED <<heap, lists, hp_node, locals, gc, failed>>

-----------------------------------------------------------------------------
(* push, of a client's or the collector's node, on either list.             *)

\* The loop's body: node->next = *head.
PushLink(t, list, from, to) ==
    /\ Step(t, from, to)
    /\ next' = [next EXCEPT ![node[t]] = head[list]]
    /\ UNCHANGED <<app, nodes, head, pointers, hp_node, locals, gc, failed>>

\* Mutants: the head is written without comparing; it is compared with the node
\* and not with its link.
MutUnmoved(t, list) == TRUE
MutUnmovedNode(t, list) == head[list] = node[t]

\* The head is what the loop's body has read.
Unmoved(t, list) == head[list] = next[node[t]]

\* Compare-exchange node->next -> node; again is the loop's body.  (A local
\* that is dead is NULL.)
PushSwap(t, list, from, again, to) ==
    /\ pc[t] = from
    /\ \/ /\ Unmoved(t, list)
          /\ head' = [head EXCEPT ![list] = node[t]]
          /\ node' = [node EXCEPT ![t] = NULL]
          /\ Goto(t, to)
          /\ UNCHANGED next
       \/ /\ ~Unmoved(t, list)
          /\ next' = [next EXCEPT ![node[t]] = head[list]]
          /\ Goto(t, again)
          /\ UNCHANGED <<head, node>>
    /\ UNCHANGED <<app, nodes, pointers, hp_node, desired, value, failed>>

-----------------------------------------------------------------------------
(* AcquireNode and pop, and new nodes.                                      *)

\* HazardPointer's constructor, or Recycle of one that is not bound.
AcquireNode(c) ==
    /\ Step(c, "idle", "pop_read")
    /\ SerialAcquire => Acquiring = {}
    /\ UNCHANGED <<app, lists, hp_node, locals, gc, failed>>

PopRead(c) ==
    /\ Step(c, "pop_read", "pop_next")
    /\ node' = [node EXCEPT ![c] = head["free"]]
    /\ UNCHANGED <<app, lists, hp_node, desired, value, gc, failed>>

\* desired = node->next; a NULL head would be dereferenced here.
PopNext(c) ==
    /\ Step(c, "pop_next", "pop_swap")
    /\ CHECK_ASSERT(node[c] # NULL)
    /\ desired' = [desired EXCEPT ![c] = IF node[c] = NULL THEN NULL
                                         ELSE next[node[c]]]
    /\ UNCHANGED <<app, lists, hp_node, node, value, gc>>

\* Mutant: end_node is taken for a free node.
MutPopped(n) == "pop_clear"

\* AcquireNode has popped n.
Popped(n) == IF n = end_node THEN "new" ELSE "pop_clear"

\* Compare-exchange of the head, node -> desired.
PopSwap(c) ==
    /\ pc[c] = "pop_swap"
    /\ IF head["free"] = node[c]
       THEN /\ head' = [head EXCEPT !["free"] = desired[c]]
            /\ Goto(c, Popped(node[c]))
       ELSE Goto(c, "pop_read") /\ UNCHANGED head
    /\ desired' = [desired EXCEPT ![c] = NULL]
    /\ UNCHANGED <<app, nodes, next, pointers, hp_node, node, value, gc,
                   failed>>

PopClear(c) ==
    /\ Step(c, "pop_clear", "bound")
    /\ next' = [next EXCEPT ![node[c]] = NULL]
    /\ hp_node' = [hp_node EXCEPT ![c] = node[c]]
    /\ node' = [node EXCEPT ![c] = NULL]
    /\ UNCHANGED <<app, nodes, head, pointers, desired, value, gc, failed>>

\* Add: its loop ends in one atomic insertion in front of the complete set.
Add == nodes < MaxNodes /\ nodes' = nodes + 1

\* The free list is empty: a new node is added, or std::bad_alloc is thrown.
NewNode(c) ==
    /\ pc[c] = "new"
    /\ \/ Add /\ hp_node' = [hp_node EXCEPT ![c] = nodes'] /\ Goto(c, "bound")
       \/ nodes = MaxNodes /\ Goto(c, "idle") /\ UNCHANGED <<nodes, hp_node>>
    /\ node' = [node EXCEPT ![c] = NULL]
    /\ UNCHANGED <<app, head, next, pointers, desired, value, gc, failed>>

\* Prime: a new node is added and pushed on the free list.
Prime(c) ==
    /\ Step(c, "idle", "rl_link")
    /\ Add
    /\ node' = [node EXCEPT ![c] = nodes']
    /\ UNCHANGED <<app, head, next, pointers, hp_node, desired, value, gc,
                   failed>>

-----------------------------------------------------------------------------
(* HazardPointer: Acquire, Clear, Release and Delete.                       *)

\* Acquire, at any time: the assertions, and the read through ptrptr.
AcquireRead(c) ==
    /\ pc[c] \in Settable
    /\ CHECK_ASSERT(IsUnqueued(hp_node[c]) /\ gc_pointer[hp_node[c]] = NULL)
    /\ value' = [value EXCEPT ![c] = slot]
    /\ Goto(c, "acq_store")
    /\ UNCHANGED <<app, lists, hp_node, node, desired, gc>>

AcquireStore(c) ==
    /\ Step(c, "acq_store", "set")
    /\ pointer' = [pointer EXCEPT ![hp_node[c]] = value[c]]
    /\ value' = [value EXCEPT ![c] = NULL]
    /\ UNCHANGED <<app, nodes, head, next, gc_pointer, hp_node, node, desired,
                   gc, failed>>

Clear(c) ==
    /\ pc[c] \in Settable
    /\ CHECK_ASSERT(gc_pointer[hp_node[c]] = NULL)
    /\ pointer' = [pointer EXCEPT ![hp_node[c]] = NULL]
    /\ Goto(c, "bound")
    /\ UNCHANGED <<app, nodes, head, next, gc_pointer, hp_node, locals, gc>>

\* Mutant: the object pointer stays in the record.
MutReleased(n) == pointer

\* Release: the object pointer is cleared.
Released(n) == [pointer EXCEPT ![n] = NULL]

\* Release, also by the destructor: a node whose pointer is NULL is dropped
\* (Delete does the same then), any other is cleared and pushed on the free
\* list.
ReleaseClear(c) ==
    /\ pc[c] \in Settable
    /\ CHECK_ASSERT(/\ gc_pointer[hp_node[c]] = NULL
                    /\ get_pointer(c) # NULL => IsUnqueued(hp_node[c]))
    /\ pointer' = Released(hp_node[c])
    /\ hp_node' = [hp_node EXCEPT ![c] = NULL]
    /\ IF get_pointer(c) = NULL
       THEN Goto(c, "idle") /\ UNCHANGED node
       ELSE Goto(c, "rl_link") /\ node' = [node EXCEPT ![c] = hp_node[c]]
    /\ UNCHANGED <<app, nodes, head, next, gc_pointer, desired, value, gc>>

\* Release and Prime: push on the free list.
ReleaseLink(c) == PushLink(c, "free", "rl_link", "rl_swap")
ReleaseSwap(c) ==
    PushSwap(c, "free", "rl_swap", "rl_link", "idle") /\ UNCHANGED gc

\* Delete: the pointer moves to gc_pointer; nobody reads that before the node
\* is on the gc list.
DeleteMove(c) ==
    /\ Step(c, "unlinked", "dl_link")
    /\ SerialDelete => Collecting = {}
    /\ CHECK_ASSERT(IsUnqueued(hp_node[c]) /\ gc_pointer[hp_node[c]] = NULL)
    /\ gc_pointer' = [gc_pointer EXCEPT ![hp_node[c]] = get_pointer(c)]
    /\ pointer' = [pointer EXCEPT ![hp_node[c]] = NULL]
    /\ node' = [node EXCEPT ![c] = hp_node[c]]
    /\ UNCHANGED <<app, nodes, head, next, hp_node, desired, value, gc>>

DeleteLink(c) == PushLink(c, "gc", "dl_link", "dl_swap")
DeleteSwap(c) ==
    PushSwap(c, "gc", "dl_swap", "dl_link", "dl_check") /\ UNCHANGED gc

\* Delete's last assertion, on a node that is on the gc list already.
DeleteCheck(c) ==
    /\ Step(c, "dl_check", "idle")
    /\ CHECK_ASSERT(get_pointer(c) = NULL)
    /\ hp_node' = [hp_node EXCEPT ![c] = NULL]
    /\ UNCHANGED <<app, lists, locals, gc>>

-----------------------------------------------------------------------------
(* Collect and remove.                                                      *)

\* Nothing is done, without the lock, while the gc list is empty.
CollectCheck(g) ==
    /\ Step(g, "idle", "lock")
    /\ SerialDelete => Deleting = {}
    /\ head["gc"] # end_node
    /\ UNCHANGED <<app, lists, hp_node, locals, gc, failed>>

\* collector_client_lock; then the complete set is enumerated from its front:
\* nodes that are added later are not seen.
CollectLock(g) ==
    /\ Step(g, "lock", "scan")
    /\ \A h \in Collectors : pc[h] \in {"idle", "lock"}
    /\ scan' = nodes
    /\ UNCHANGED <<app, lists, hp_node, locals, all_haz_ptrs, gc_node,
                   next_gc_node, link, failed>>

\* Mutant: the node at the front of the complete set is skipped.
MutHazardOf(n) == IF n = nodes THEN {} ELSE {pointer[n]} \ {NULL}

HazardOf(n) == {pointer[n]} \ {NULL}

\* One node's object pointer is collected in all_haz_ptrs.
CollectScan(g) ==
    /\ pc[g] = "scan"
    /\ scan # end_node
    /\ all_haz_ptrs' = all_haz_ptrs \cup HazardOf(scan)
    /\ scan' = scan - 1
    /\ UNCHANGED <<app, lists, hp_node, pc, locals, gc_node, next_gc_node, link,
                   failed>>

\* All hazard pointers are known: now the gc list is read.
CollectHead(g) ==
    /\ Step(g, "scan", "gc_node")
    /\ scan = end_node
    /\ gc_node' = head["gc"]
    /\ UNCHANGED <<app, lists, hp_node, locals, hazards, next_gc_node, link,
                   failed>>

\* An object some hazard pointer protects is left for another time.
CollectSkip(g) ==
    /\ pc[g] = "gc_node"
    /\ gc_node \in Nodes /\ gc_pointer[gc_node] \in all_haz_ptrs
    /\ CHECK_ASSERT(pointer[gc_node] = NULL)
    /\ gc_node' = next[gc_node]
    /\ UNCHANGED <<app, lists, hp_node, pc, locals, hazards, next_gc_node, link>>

\* Mutant: the record keeps the pointer to the deleted object.
MutCollected(n) == gc_pointer

Collected(n) == [gc_pointer EXCEPT ![n] = NULL]

\* Any other is deleted: a second time would be a failure.
CollectDelete(g) ==
    /\ Step(g, "gc_node", "rm_find")
    /\ gc_node \in Nodes /\ gc_pointer[gc_node] \notin all_haz_ptrs
    /\ CHECK_ASSERT(gc_pointer[gc_node] \in heap /\ pointer[gc_node] = NULL)
    /\ heap' = heap \ {gc_pointer[gc_node]}
    /\ gc_pointer' = Collected(gc_node)
    /\ next_gc_node' = next[gc_node]
    /\ UNCHANGED <<slot, nodes, head, next, pointer, hp_node, locals, hazards,
                   gc_node, link>>

\* The end of the gc list.
CollectReturn(g) ==
    /\ Step(g, "gc_node", "idle")
    /\ gc_node \notin Nodes
    /\ CHECK_ASSERT(gc_node # NULL)
    /\ all_haz_ptrs' = {} /\ gc_node' = end_node
    /\ UNCHANGED <<app, lists, hp_node, locals, scan, next_gc_node, link>>

\* *p, where p = NULL stands for head and p = n for &n->next.
Deref(p) == IF p = NULL THEN head["gc"] ELSE next[p]

\* Mutant: the node is taken for the head of the list.
MutLinksTo(n) == {NULL}

LinksTo(n) == {p \in {NULL} \cup On("gc") : Deref(p) = n}

\* remove: the loop that looks for the link to the node.  Collect alone
\* changes the links behind the head, so only the head can move under it.
RemoveFind(g) ==
    /\ pc[g] = "rm_find"
    /\ \/ /\ ppnode' \in LinksTo(gc_node)
          /\ Goto(g, "rm_read")
          /\ UNCHANGED failed
       \/ /\ LinksTo(gc_node) = {}
          /\ CHECK_ASSERT(FALSE)
          /\ UNCHANGED <<ppnode, pc>>
    /\ UNCHANGED <<app, lists, hp_node, locals, hazards, gc_node, next_gc_node,
                   expected>>

\* remove: expected = *ppnode, which is read again.
RemoveRead(g) ==
    /\ Step(g, "rm_read", "rm_swap")
    /\ expected' = Deref(ppnode)
    /\ UNCHANGED <<app, lists, hp_node, locals, hazards, gc_node, next_gc_node,
                   ppnode, failed>>

\* remove: compare-exchange of *ppnode, expected -> expected->next.
RemoveSwap(g) ==
    /\ pc[g] = "rm_swap"
    /\ IF Deref(ppnode) # expected
       THEN Goto(g, "rm_find") /\ UNCHANGED <<head, next>>
       ELSE /\ Goto(g, "rm_clear")
            /\ IF ppnode = NULL
               THEN head' = [head EXCEPT !["gc"] = next[expected]]
                    /\ UNCHANGED next
               ELSE next' = [next EXCEPT ![ppnode] = next[expected]]
                    /\ UNCHANGED head
    /\ ppnode' = NULL /\ expected' = NULL
    /\ UNCHANGED <<app, nodes, pointers, hp_node, locals, hazards, gc_node,
                   next_gc_node, failed>>

\* remove: node->next = NULL, and Collect pushes the node on the free list.
RemoveClear(g) ==
    /\ Step(g, "rm_clear", "cf_link")
    /\ next' = [next EXCEPT ![gc_node] = NULL]
    /\ node' = [node EXCEPT ![g] = gc_node]
    /\ UNCHANGED <<app, nodes, head, pointers, hp_node, desired, value, gc,
                   failed>>

CollectLink(g) == PushLink(g, "free", "cf_link", "cf_swap")
CollectSwap(g) ==
    /\ PushSwap(g, "free", "cf_swap", "cf_link", "gc_node")
    /\ IF Unmoved(g, "free")
       THEN gc_node' = next_gc_node /\ next_gc_node' = NULL
       ELSE UNCHANGED <<gc_node, next_gc_node>>
    /\ UNCHANGED <<hazards, link>>

-----------------------------------------------------------------------------
\* ~HazardPointerList, when no thread uses it: Collect deletes what is on the
\* gc list and the nodes are freed, so that the next list starts afresh.
Destroy ==
    /\ \A t \in Threads : pc[t] = "idle"
    /\ nodes # 0
    /\ heap' = heap \ {gc_pointer[n] : n \in On("gc")}
    /\ nodes' = EmptyList.nodes /\ head' = EmptyList.head
    /\ next' = EmptyList.next
    /\ pointer' = EmptyList.pointer /\ gc_pointer' = EmptyList.pointer
    /\ UNCHANGED <<slot, hp_node, pc, locals, gc, failed>>

\* What a caller chooses to do.
ClientCall(c) == AcquireNode(c) \/ Prime(c) \/ AcquireRead(c) \/ Clear(c)

ClientStep(c) ==
    \/ PopRead(c) \/ PopNext(c) \/ PopSwap(c) \/ PopClear(c) \/ NewNode(c)
    \/ AcquireStore(c) \/ Validate(c) \/ Unlink(c)
    \/ ReleaseClear(c) \/ ReleaseLink(c) \/ ReleaseSwap(c)
    \/ DeleteMove(c) \/ DeleteLink(c) \/ DeleteSwap(c) \/ DeleteCheck(c)

CollectStep(g) ==
    \/ CollectCheck(g) \/ CollectLock(g) \/ CollectScan(g) \/ CollectHead(g)
    \/ CollectSkip(g) \/ CollectDelete(g) \/ CollectReturn(g)
    \/ RemoveFind(g) \/ RemoveRead(g) \/ RemoveSwap(g) \/ RemoveClear(g)
    \/ CollectLink(g) \/ CollectSwap(g)

Next ==
    /\ ~failed
    /\ \/ Publish
       \/ \E c \in Clients : ClientCall(c) \/ ClientStep(c)
       \/ \E g \in Collectors : CollectStep(g)
       \/ Destroy

Spec == Init /\ [][Next]_vars

\* A runnable thread is eventually scheduled; a client does not go on setting
\* its hazard pointer for ever but lets go of what it protects; and Collect is
\* called again and again (the lock that keeps Delete and Collect apart being
\* fair).  Nothing makes a client construct a HazardPointer or publish.
FairSpec ==
    /\ Spec
    /\ \A c \in Clients : /\ WF_vars(~failed /\ ClientStep(c))
                          /\ SF_vars(~failed /\ ReleaseClear(c))
    /\ \A g \in Collectors : /\ WF_vars(~failed /\ CollectStep(g))
                             /\ SF_vars(~failed /\ CollectCheck(g))

-----------------------------------------------------------------------------
(* Properties.                                                              *)

\* A client that has set its hazard pointer to an object and found the object
\* still in place may use it until it lets go: Collect does not delete it
\* ("objects which have been scheduled for deletion, are safely deleted by
\* this function", HazardPointer.hpp:508-509).
ProtectedStaysAllocated ==
    \A c \in Clients :
        pc[c] \in {"protected", "unlinked"} => get_pointer(c) \in heap

\* No assertion fails and no object is deleted twice.
NeverFails == ~failed

\* Both lists stay lists, a node is on one of them at most, and a node that a
\* HazardPointer is bound to is on neither until Delete has put it there.
ListsIntact ==
    /\ \A l \in Lists : Walk(head[l], next)[MaxNodes] = end_node
    /\ On("free") \cap On("gc") = {}
    /\ \A c \in Clients :
           pc[c] # "dl_check" => hp_node[c] \notin On("free") \cup On("gc")

\* One node serves one HazardPointer ("Thread safe pop of a node from the free
\* or gc list", HazardPointer.hpp:369).
NodeBoundOnce ==
    \A c, d \in Clients : c # d /\ hp_node[c] = hp_node[d] => hp_node[c] = NULL

\* A node that no HazardPointer is bound to protects nothing, whether it is on
\* a list or was dropped by Release (HazardPointer.hpp:136): it cannot keep an
\* object from being collected for ever.
UnboundNodesInert ==
    \A n \in 1..nodes : pointer[n] # NULL => \E c \in Clients : hp_node[c] = n

\* Every object in memory can still be found: through the shared location, on
\* the gc list, or by a client that is about to put it there.
NoObjectLost ==
    \A o \in heap :
        \/ o = slot
        \/ \E n \in On("gc") : gc_pointer[n] = o
        \/ \E c \in Clients :
              \/ pc[c] = "unlinked" /\ get_pointer(c) = o
              \/ pc[c] \in {"dl_link", "dl_swap"} /\ gc_pointer[node[c]] = o

\* The objects handed over for deletion, and the one each client works on.
retired == {gc_pointer[n] : n \in Nodes} \ {NULL}
InUse(c) == IF pc[c] \in {"protected", "unlinked"} THEN get_pointer(c) ELSE NULL
uses == [c \in Clients |-> InUse(c)]

\* The domain is a safe memory reclamation scheme: every deletion is one of a
\* retired object that no client uses.
Reclamation == INSTANCE SafeReclamation WITH shared <- slot, allocated <- heap
ImplementsReclamation == Reclamation!Spec

\* Inside a loop that ends when a compare-exchange succeeds: push, pop, remove.
Retrying == {"pop_read", "pop_next", "pop_swap", "rl_link", "rl_swap",
             "dl_link", "dl_swap", "cf_link", "cf_swap",
             "rm_find", "rm_read", "rm_swap"}
InLoop(t) == pc[t] \in Retrying

\* The lists are "implemented using atomic operations, and so" are "non
\* blocking" (src/README.md:8-9): a thread is held up in push, pop or remove
\* for ever only if another goes through such a loop again and again.
NonBlocking ==
    \A t \in Threads :
        <>[]InLoop(t) => \E u \in Threads \ {t} : []<>InLoop(u) /\ []<>~InLoop(u)

\* An object on the gc list is deleted sooner or later, as long as no thread is
\* overtaken for ever: no hazard pointer can be set to it any more, and the
\* ones that are let go.
RetiredEventuallyDeleted ==
    (\A t \in Threads : []<>~InLoop(t)) =>
        \A o \in Objects :
            (\E n \in On("gc") : gc_pointer[n] = o) ~> o \notin heap
=============================================================================
