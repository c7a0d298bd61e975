------------------------- MODULE HazardDomainProofs -------------------------
(***************************************************************************)
(* Proofs about HazardDomain, for any number of clients, collecting        *)
(* threads, nodes and objects, when the application lets one thread        *)
(* acquire nodes at a time and does not run Delete during Collect.         *)
(***************************************************************************)
EXTENDS HazardListLemmas

\* The labels at which a thread has a node of its own: on its way to or from a
\* list, bound to a HazardPointer, or taken off the gc list; and those at which
\* a client retires its object and the collector removes a node.
Private == {"pop_clear", "rl_link", "rl_swap"}
Bound == Settable \cup {"acq_store", "unlinked"}
Retiring == {"dl_link", "dl_swap"}
Removing == {"rm_find", "rm_read", "rm_swap"}
Removed == {"rm_clear", "cf_link", "cf_swap"}

\* The node that a thread has for itself.
Own(t) == IF pc[t] \in Private THEN node[t]
          ELSE IF pc[t] \in Bound \cup Retiring THEN hp_node[t]
          ELSE IF pc[t] \in Removed THEN gc_node
          ELSE NULL

Listed == On("free") \cup On("gc")

\* Each thread runs its own code.
Labels ==
    /\ \A c \in Clients : pc[c] \in ClientLabels
    /\ \A g \in Collectors : pc[g] \in CollectLabels

\* Who is kept from running beside whom, by the application and by
\* collector_client_lock.
Serial ==
    /\ \A c, d \in Acquiring : c = d
    /\ \A c \in Deleting, g \in Collecting : FALSE
    /\ \A g, h \in Collectors :
           pc[g] \notin {"idle", "lock"} /\ pc[h] \notin {"idle", "lock"} => g = h

\* The two lists are lists,
AreLists == \A l \in Lists : IsList(head[l], next)

\* of different nodes, all in the complete set.
ListNodes ==
    /\ On("free") \cap On("gc") = {}
    /\ Listed \subseteq 1..nodes
    /\ next[end_node] = end_node
    /\ \A n \in Nodes : n > nodes => next[n] = NULL

\* A node that a thread has for itself is on no list, and no other thread's.
Owners ==
    /\ \A t \in Threads :
           /\ Own(t) \in (1..nodes) \cup {NULL} /\ Own(t) \notin Listed
           /\ pc[t] \in Private \cup Bound \cup Retiring \cup Removed
                  => Own(t) # NULL
    /\ \A t, u \in Threads : t # u /\ Own(t) = Own(u) => Own(t) = NULL

\* The locals that push works on, and what Delete still looks at.
Pushed ==
    /\ \A c \in Clients : pc[c] \in Retiring => node[c] = hp_node[c]
    /\ \A c \in Clients : pc[c] = "dl_check" => hp_node[c] \in On("gc")
    /\ \A g \in Collectors : pc[g] \in {"cf_link", "cf_swap"}
                                 => node[g] = gc_node

\* What pop has read is still so: nobody else pops.
Popping ==
    \A c \in Clients :
        /\ pc[c] \in {"pop_next", "pop_swap"}
               => node[c] \in On("free") \cup {end_node}
        /\ pc[c] = "pop_swap" => desired[c] = next[node[c]]

\* A node that can be set is unqueued, and only such a node is set.
Pointing ==
    /\ \A c \in Clients : pc[c] \in Bound => next[hp_node[c]] = NULL
    /\ \A n \in Nodes : pointer[n] # NULL =>
           \E c \in Clients : pc[c] \in Bound /\ hp_node[c] = n

\* The nodes with a retired object: those on the gc list, but for the one whose
\* object Collect has just deleted, and those that Delete is about to push.
RetiredNodes ==
    /\ \A n \in Nodes : gc_pointer[n] # NULL =>
           \/ n \in On("gc")
           \/ \E c \in Clients : pc[c] \in Retiring /\ hp_node[c] = n
    /\ \A n \in On("gc") : gc_pointer[n] = NULL =>
           \E g \in Collectors : pc[g] \in Removing /\ gc_node = n
    /\ \A c \in Clients : pc[c] \in Retiring => gc_pointer[hp_node[c]] # NULL
    /\ \A g \in Collectors : pc[g] \in Removing => gc_pointer[gc_node] = NULL

\* An object is in one place: in the shared location, with the client that has
\* unlinked it, or retired with one node.
Placed ==
    /\ slot \in heap \cup {NULL}
    /\ \A n \in Nodes : gc_pointer[n] # NULL =>
           gc_pointer[n] \in heap /\ gc_pointer[n] # slot
    /\ \A m, n \in Nodes : m # n /\ gc_pointer[m] = gc_pointer[n]
                               => gc_pointer[m] = NULL
    /\ \A c \in Clients : pc[c] = "unlinked" =>
           /\ get_pointer(c) # slot
           /\ \A n \in Nodes : gc_pointer[n] # get_pointer(c)
    /\ \A c, d \in Clients :
           /\ c # d /\ pc[c] = "unlinked" /\ pc[d] = "unlinked"
           => get_pointer(c) # get_pointer(d)

\* Where Collect and remove are on the gc list.
Collection ==
    \A g \in Collectors :
        /\ pc[g] = "gc_node" => gc_node \in On("gc") \cup {end_node}
        /\ pc[g] \in Removing =>
               gc_node \in On("gc") /\ next_gc_node = next[gc_node]
        /\ pc[g] \in {"rm_read", "rm_swap"} =>
               ppnode \in On("gc") \cup {NULL} /\ Deref(ppnode) = gc_node
        /\ pc[g] = "rm_swap" => expected = gc_node
        /\ pc[g] \in Removed => next_gc_node \in On("gc") \cup {end_node}

\* A retired object that a client still uses is found by the scan, or has been.
Scanned ==
    \A g \in Collectors :
        /\ pc[g] \notin {"idle", "lock"} =>
              \A c \in Clients, n \in Nodes :
                  /\ pc[c] \in {"protected", "unlinked"}
                  /\ gc_pointer[n] = get_pointer(c)
                  => hp_node[c] <= scan \/ get_pointer(c) \in all_haz_ptrs
        /\ pc[g] \notin {"idle", "lock", "scan"} => scan = end_node

\* The inductive invariant.
Inv ==
    /\ TypeOK /\ Labels /\ Serial /\ AreLists /\ ListNodes /\ Owners
    /\ NodeBoundOnce /\ Pushed /\ Popping /\ Pointing /\ RetiredNodes /\ Placed
    /\ Collection /\ Scanned /\ ProtectedStaysAllocated /\ NoObjectLost
    /\ NeverFails

-----------------------------------------------------------------------------
(* What the steps do to the lists.                                          *)

\* Where the links of the two lists lead.
LEMMA ListFacts ==
    ASSUME AreLists, NEW l \in Lists
    PROVE  /\ On(l) \subseteq Nodes
           /\ head[l] \in On(l) \cup {end_node}
           /\ \A n \in On(l) : next[n] \in (On(l) \cup {end_node}) \ {n}
           /\ \A n \in On(l) : n = head[l] \/ \E p \in On(l) : next[p] = n
<1>1. IsList(head[l], next)
    BY Zenon DEF AreLists
<1>2. QED
    BY <1>1, ListLinks DEF On

\* Neither list changes.
LEMMA QuietLists ==
    ASSUME AreLists, UNCHANGED <<head, next>>
    PROVE  AreLists' /\ \A l \in Lists : On(l)' = On(l)
    BY Zenon DEF AreLists, On

\* A link changes that is on neither list.
LEMMA FrameLists ==
    ASSUME TypeOK, AreLists, NEW n \in Nodes, n \notin Listed, NEW m,
           head' = head, next' = [next EXCEPT ![n] = m]
    PROVE  AreLists' /\ \A l \in Lists : On(l)' = On(l)
<1>1. ASSUME NEW l \in Lists
      PROVE  /\ IsList(head[l], next) /\ IsList(head[l], next')
             /\ Reach(head[l], next') = Reach(head[l], next)
    <2>1. \A x \in Reach(head[l], next) : next'[x] = next[x]
        BY DEF Listed, On, Lists, TypeOK, Reach
    <2>2. IsList(head[l], next)
        BY Zenon DEF AreLists
    <2>3. QED
        BY <2>1, <2>2, ListFrame, Zenon
<1>2. QED
    BY <1>1, Zenon DEF AreLists, On

\* push puts a node in front of a list.
LEMMA PushLists ==
    ASSUME TypeOK, AreLists, NEW l \in Lists, NEW n \in Nodes, n \notin Listed,
           next[n] = head[l], head' = [head EXCEPT ![l] = n], next' = next
    PROVE  /\ AreLists' /\ On(l)' = On(l) \cup {n}
           /\ \A k \in Lists : k # l => On(k)' = On(k)
<1>1. head'[l] = n /\ \A k \in Lists : k # l => head'[k] = head[k]
    BY DEF TypeOK
<1>2. IsList(head[l], next) /\ n \notin Reach(head[l], next)
    <2>1. n \notin On(l)
        BY DEF Listed, Lists
    <2>2. QED
        BY <2>1, Zenon DEF AreLists, On
<1>3. IsList(n, next) /\ Reach(n, next) = Reach(head[l], next) \cup {n}
    BY <1>2, ListPush
<1>4. QED
    BY <1>1, <1>3, Zenon DEF AreLists, On

\* pop, and remove of the first node, take it from the list.
LEMMA PopLists ==
    ASSUME TypeOK, AreLists, NEW l \in Lists, head[l] \in Nodes,
           head' = [head EXCEPT ![l] = next[head[l]]], next' = next
    PROVE  /\ AreLists' /\ On(l)' = On(l) \ {head[l]}
           /\ \A k \in Lists : k # l => On(k)' = On(k)
<1>1. head'[l] = next[head[l]] /\ \A k \in Lists : k # l => head'[k] = head[k]
    BY DEF TypeOK
<1>2. IsList(head[l], next)
    BY Zenon DEF AreLists
<1>3. /\ IsList(next[head[l]], next)
      /\ Reach(next[head[l]], next) = Reach(head[l], next) \ {head[l]}
    BY <1>2, ListPop, Zenon
<1>4. QED
    BY <1>1, <1>3, Zenon DEF AreLists, On

\* remove of any other node takes it from the list.
LEMMA RemoveLists ==
    ASSUME AreLists, On("free") \cap On("gc") = {},
           NEW p \in On("gc"), next[p] \in Nodes, head' = head,
           next'[p] = next[next[p]],
           \A n \in Listed \ {p} : next'[n] = next[n]
    PROVE  /\ AreLists' /\ On("gc")' = On("gc") \ {next[p]}
           /\ On("free")' = On("free")
<1>1. IsList(head["gc"], next) /\ IsList(head["free"], next)
    BY Zenon DEF AreLists, Lists
<1>2. /\ p \in Reach(head["gc"], next)
      /\ \A n \in Reach(head["gc"], next) \ {p} : next'[n] = next[n]
    BY DEF On, Listed
<1>3. \A n \in Reach(head["free"], next) : next'[n] = next[n]
    BY DEF On, Listed
<1>4. /\ IsList(head["gc"], next')
      /\ Reach(head["gc"], next') = Reach(head["gc"], next) \ {next[p]}
    BY <1>1, <1>2, ListRemove, SMTT(60)
<1>5. /\ IsList(head["free"], next')
      /\ Reach(head["free"], next') = Reach(head["free"], next)
    BY <1>1, <1>3, ListFrame, Zenon
<1>6. QED
    BY <1>4, <1>5, Zenon DEF AreLists, On, Lists

\* ~HazardPointerList: both lists are empty.
LEMMA NoLists ==
    ASSUME head' = EmptyList.head
    PROVE  AreLists' /\ \A l \in Lists : On(l)' = {}
<1>1. \A l \in Lists : head'[l] = end_node
    BY DEF EmptyList
<1>2. QED
    BY <1>1, EmptyIsList, Zenon DEF AreLists, On

-----------------------------------------------------------------------------
(* What each step does to the invariant.                                    *)

\* A client begins to acquire a node; no other is at it.
LEMMA AcquireNodeStep ==
    ASSUME Inv, SerialAcquire, NEW c \in Clients, AcquireNode(c)
    PROVE  Inv'
<1> USE NamesAssumption, MaxNodesAssumption DEF end_node, Threads, Lists,
        Unbound, Settable, ClientLabels, CollectLabels, Private, Bound,
        Retiring, Removing, Removed
<1>1. /\ TypeOK /\ Labels /\ Serial /\ AreLists /\ ListNodes /\ Owners
      /\ NodeBoundOnce /\ Pushed /\ Popping /\ Pointing /\ RetiredNodes /\ Placed
      /\ Collection /\ Scanned /\ ProtectedStaysAllocated /\ NoObjectLost
      /\ NeverFails
    BY DEF Inv
<1>2. /\ pc[c] = "idle" /\ pc' = [pc EXCEPT ![c] = "pop_read"]
      /\ Acquiring = {}
      /\ UNCHANGED <<slot, heap, nodes, head, next, pointer, gc_pointer,
                     hp_node, node, desired, value, all_haz_ptrs, scan,
                     gc_node, next_gc_node, ppnode, expected, failed>>
    BY
    DEF AcquireNode, Step, Goto, app, lists, pointers, locals, gc, hazards,
        link
<1>3. AreLists' /\ On("free")' = On("free") /\ On("gc")' = On("gc")
    BY <1>1, <1>2, QuietLists
<1>4. \A u \in Threads : Own(u)' = Own(u)
    BY <1>1, <1>2 DEF TypeOK, Labels, Own
<1>5. TypeOK' /\ Labels' /\ Serial'
    BY <1>1, <1>2
    DEF TypeOK, Labels, Links, Serial, Acquiring, Deleting, Collecting
<1>6. ListNodes'
    BY <1>1, <1>2, <1>3 DEF TypeOK, ListNodes, Listed, Nodes
<1>7. Owners'
    BY <1>1, <1>2, <1>3, <1>4 DEF TypeOK, Owners, Listed
<1>8. NodeBoundOnce' /\ Pushed' /\ Popping' /\ Pointing' /\ RetiredNodes'
    BY <1>1, <1>2, <1>3
    DEF TypeOK, NodeBoundOnce, Pushed, Popping, Pointing, RetiredNodes
<1>9. Placed'
    BY <1>1, <1>2 DEF TypeOK, Placed, ProtectedStaysAllocated, get_pointer
<1>10. Collection'
    BY <1>1, <1>2, <1>3 DEF TypeOK, Serial, Collection, Deref
<1>11. Scanned' /\ ProtectedStaysAllocated' /\ NoObjectLost' /\ NeverFails'
    BY <1>1, <1>2, <1>3
    DEF TypeOK, Scanned, get_pointer, ProtectedStaysAllocated, NoObjectLost,
        NeverFails, Pushed
<1>12. QED
    BY <1>3, <1>5, <1>6, <1>7, <1>8, <1>9, <1>10, <1>11 DEF Inv

\* pop reads the head of the free list.
LEMMA PopReadStep ==
    ASSUME Inv, NEW c \in Clients, PopRead(c)
    PROVE  Inv'
<1> USE NamesAssumption, MaxNodesAssumption DEF end_node, Threads, Lists,
        Unbound, Settable, ClientLabels, CollectLabels, Private, Bound,
        Retiring, Removing, Removed
<1>1. /\ TypeOK /\ Labels /\ Serial /\ AreLists /\ ListNodes /\ Owners
      /\ NodeBoundOnce /\ Pushed /\ Popping /\ Pointing /\ RetiredNodes /\ Placed
      /\ Collection /\ Scanned /\ ProtectedStaysAllocated /\ NoObjectLost
      /\ NeverFails
    BY DEF Inv
<1>2. head["free"] \in On("free") \cup {end_node}
    BY <1>1, ListFacts DEF Lists
<1>3. /\ pc[c] = "pop_read" /\ pc' = [pc EXCEPT ![c] = "pop_next"]
      /\ node' = [node EXCEPT ![c] = head["free"]]
      /\ UNCHANGED <<slot, heap, nodes, head, next, pointer, gc_pointer,
                     hp_node, desired, value, all_haz_ptrs, scan, gc_node,
                     next_gc_node, ppnode, expected, failed>>
    BY <1>2 DEF PopRead, Step, Goto, app, lists, pointers, gc, hazards, link
<1>4. AreLists' /\ On("free")' = On("free") /\ On("gc")' = On("gc")
    BY <1>1, <1>3, QuietLists
<1>5. \A u \in Threads : Own(u)' = Own(u)
    BY <1>1, <1>2, <1>3 DEF TypeOK, Labels, Own
<1>6. TypeOK' /\ Labels' /\ Serial'
    BY <1>1, <1>2, <1>3
    DEF TypeOK, Labels, Links, Serial, Acquiring, Deleting, Collecting
<1>7. ListNodes'
    BY <1>1, <1>2, <1>3, <1>4 DEF TypeOK, ListNodes, Listed, Nodes
<1>8. Owners'
    BY <1>1, <1>2, <1>3, <1>4, <1>5 DEF TypeOK, Owners, Listed
<1>9. NodeBoundOnce' /\ Pushed' /\ Popping' /\ Pointing' /\ RetiredNodes'
    BY <1>1, <1>2, <1>3, <1>4
    DEF TypeOK, NodeBoundOnce, Pushed, Popping, Pointing, RetiredNodes
<1>10. Placed'
    BY <1>1, <1>2, <1>3
    DEF TypeOK, Placed, ProtectedStaysAllocated, get_pointer
<1>11. Collection'
    BY <1>1, <1>2, <1>3, <1>4 DEF TypeOK, Serial, Collection, Deref
<1>12. Scanned' /\ ProtectedStaysAllocated' /\ NoObjectLost' /\ NeverFails'
    BY <1>1, <1>3, <1>4
    DEF TypeOK, Scanned, get_pointer, ProtectedStaysAllocated, NoObjectLost,
        NeverFails, Pushed
<1>13. QED
    BY <1>4, <1>6, <1>7, <1>8, <1>9, <1>10, <1>11, <1>12 DEF Inv

\* pop reads the link of the node.
LEMMA PopNextStep ==
    ASSUME Inv, NEW c \in Clients, PopNext(c)
    PROVE  Inv'
<1> USE NamesAssumption, MaxNodesAssumption DEF end_node, Threads, Lists,
        Unbound, Settable, ClientLabels, CollectLabels, Private, Bound,
        Retiring, Removing, Removed
<1>1. /\ TypeOK /\ Labels /\ Serial /\ AreLists /\ ListNodes /\ Owners
      /\ NodeBoundOnce /\ Pushed /\ Popping /\ Pointing /\ RetiredNodes /\ Placed
      /\ Collection /\ Scanned /\ ProtectedStaysAllocated /\ NoObjectLost
      /\ NeverFails
    BY DEF Inv
<1>2. node[c] \in Nodes \cup {end_node} /\ node[c] # NULL /\ failed = FALSE
    BY <1>1, ListFacts DEF Lists, Popping, PopNext, Step, NeverFails, TypeOK, Nodes
<1>3. /\ pc[c] = "pop_next" /\ pc' = [pc EXCEPT ![c] = "pop_swap"]
      /\ desired' = [desired EXCEPT ![c] = next[node[c]]]
      /\ failed' = FALSE
      /\ UNCHANGED <<slot, heap, nodes, head, next, pointer, gc_pointer,
                     hp_node, node, value, all_haz_ptrs, scan, gc_node,
                     next_gc_node, ppnode, expected>>
    BY <1>1, <1>2
    DEF PopNext, Step, Goto, CHECK_ASSERT, NeverFails, app, lists, pointers,
        gc, hazards, link
<1>4. AreLists' /\ On("free")' = On("free") /\ On("gc")' = On("gc")
    BY <1>1, <1>3, QuietLists
<1>5. \A u \in Threads : Own(u)' = Own(u)
    BY <1>1, <1>2, <1>3 DEF TypeOK, Labels, Own
<1>6. TypeOK'
    BY <1>1, <1>2, <1>3 DEF TypeOK, Labels, Links
<1>7. Labels' /\ Serial'
    BY <1>1, <1>2, <1>3
    DEF TypeOK, Labels, Serial, Acquiring, Deleting, Collecting
<1>8. ListNodes'
    BY <1>1, <1>2, <1>3, <1>4 DEF TypeOK, ListNodes, Listed, Nodes
<1>9. Owners'
    BY <1>1, <1>2, <1>3, <1>4, <1>5 DEF TypeOK, Owners, Listed
<1>10. NodeBoundOnce' /\ Pushed' /\ Popping' /\ Pointing' /\ RetiredNodes'
    BY <1>1, <1>2, <1>3, <1>4
    DEF TypeOK, NodeBoundOnce, Pushed, Popping, Pointing, RetiredNodes
<1>11. Placed'
    BY <1>1, <1>2, <1>3
    DEF TypeOK, Placed, ProtectedStaysAllocated, get_pointer
<1>12. Collection'
    BY <1>1, <1>2, <1>3, <1>4 DEF TypeOK, Serial, Collection, Deref
<1>13. Scanned' /\ ProtectedStaysAllocated' /\ NoObjectLost' /\ NeverFails'
    BY <1>1, <1>2, <1>3, <1>4
    DEF TypeOK, Scanned, get_pointer, ProtectedStaysAllocated, NoObjectLost,
        NeverFails, Pushed
<1>14. QED
    BY <1>4, <1>6, <1>7, <1>8, <1>9, <1>10, <1>11, <1>12, <1>13 DEF Inv

\* pop finds the head changed and starts again.
LEMMA PopRetryStep ==
    ASSUME Inv, NEW c \in Clients, PopSwap(c), head["free"] # node[c]
    PROVE  Inv'
<1> USE NamesAssumption, MaxNodesAssumption DEF end_node, Threads, Lists,
        Unbound, Settable, ClientLabels, CollectLabels, Private, Bound,
        Retiring, Removing, Removed
<1>1. /\ TypeOK /\ Labels /\ Serial /\ AreLists /\ ListNodes /\ Owners
      /\ NodeBoundOnce /\ Pushed /\ Popping /\ Pointing /\ RetiredNodes /\ Placed
      /\ Collection /\ Scanned /\ ProtectedStaysAllocated /\ NoObjectLost
      /\ NeverFails
    BY DEF Inv
<1>2. /\ pc[c] = "pop_swap" /\ pc' = [pc EXCEPT ![c] = "pop_read"]
      /\ desired' = [desired EXCEPT ![c] = NULL]
      /\ UNCHANGED <<slot, heap, nodes, head, next, pointer, gc_pointer,
                     hp_node, node, value, all_haz_ptrs, scan, gc_node,
                     next_gc_node, ppnode, expected, failed>>
    BY DEF PopSwap, Goto, app, lists, pointers, locals, gc, hazards, link
<1>3. AreLists' /\ On("free")' = On("free") /\ On("gc")' = On("gc")
    BY <1>1, <1>2, QuietLists
<1>4. \A u \in Threads : Own(u)' = Own(u)
    BY <1>1, <1>2 DEF TypeOK, Labels, Own
<1>5. TypeOK' /\ Labels' /\ Serial'
    BY <1>1, <1>2
    DEF TypeOK, Labels, Links, Serial, Acquiring, Deleting, Collecting
<1>6. ListNodes'
    BY <1>1, <1>2, <1>3 DEF TypeOK, ListNodes, Listed, Nodes
<1>7. Owners'
    BY <1>1, <1>2, <1>3, <1>4 DEF TypeOK, Owners, Listed
<1>8. NodeBoundOnce' /\ Pushed' /\ Popping' /\ Pointing' /\ RetiredNodes'
    BY <1>1, <1>2, <1>3
    DEF TypeOK, NodeBoundOnce, Pushed, Popping, Pointing, RetiredNodes
<1>9. Placed'
    BY <1>1, <1>2 DEF TypeOK, Placed, ProtectedStaysAllocated, get_pointer
<1>10. Collection'
    BY <1>1, <1>2, <1>3 DEF TypeOK, Serial, Collection, Deref
<1>11. Scanned' /\ ProtectedStaysAllocated' /\ NoObjectLost' /\ NeverFails'
    BY <1>1, <1>2, <1>3
    DEF TypeOK, Scanned, get_pointer, ProtectedStaysAllocated, NoObjectLost,
        NeverFails, Pushed
<1>12. QED
    BY <1>3, <1>5, <1>6, <1>7, <1>8, <1>9, <1>10, <1>11 DEF Inv

\* pop finds the free list empty.
LEMMA PopNoneStep ==
    ASSUME Inv, NEW c \in Clients, PopSwap(c), head["free"] = node[c],
           node[c] = end_node
    PROVE  Inv'
<1> USE NamesAssumption, MaxNodesAssumption DEF end_node, Threads, Lists,
        Unbound, Settable, ClientLabels, CollectLabels, Private, Bound,
        Retiring, Removing, Removed
<1>1. /\ TypeOK /\ Labels /\ Serial /\ AreLists /\ ListNodes /\ Owners
      /\ NodeBoundOnce /\ Pushed /\ Popping /\ Pointing /\ RetiredNodes /\ Placed
      /\ Collection /\ Scanned /\ ProtectedStaysAllocated /\ NoObjectLost
      /\ NeverFails
    BY DEF Inv
<1>2. head = [head EXCEPT !["free"] = desired[c]] /\ pc[c] = "pop_swap"
    BY <1>1 DEF PopSwap, Popping, ListNodes, TypeOK
<1>3. /\ pc[c] = "pop_swap" /\ pc' = [pc EXCEPT ![c] = "new"]
      /\ desired' = [desired EXCEPT ![c] = NULL]
      /\ head' = head
      /\ UNCHANGED <<slot, heap, nodes, next, pointer, gc_pointer, hp_node,
                     node, value, all_haz_ptrs, scan, gc_node, next_gc_node,
                     ppnode, expected, failed>>
    BY <1>1, <1>2
    DEF PopSwap, Popped, Goto, Popping, ListNodes, TypeOK, app, lists,
        pointers, locals, gc, hazards, link
<1>4. AreLists' /\ On("free")' = On("free") /\ On("gc")' = On("gc")
    BY <1>1, <1>3, QuietLists
<1>5. \A u \in Threads : Own(u)' = Own(u)
    BY <1>1, <1>2, <1>3 DEF TypeOK, Labels, Own
<1>6. TypeOK' /\ Labels' /\ Serial'
    BY <1>1, <1>2, <1>3
    DEF TypeOK, Labels, Links, Serial, Acquiring, Deleting, Collecting
<1>7. ListNodes'
    BY <1>1, <1>2, <1>3, <1>4 DEF TypeOK, ListNodes, Listed, Nodes
<1>8. Owners'
    BY <1>1, <1>2, <1>3, <1>4, <1>5 DEF TypeOK, Owners, Listed
<1>9. NodeBoundOnce' /\ Pushed' /\ Popping' /\ Pointing' /\ RetiredNodes'
    BY <1>1, <1>2, <1>3, <1>4
    DEF TypeOK, NodeBoundOnce, Pushed, Popping, Pointing, RetiredNodes
<1>10. Placed'
    BY <1>1, <1>2, <1>3
    DEF TypeOK, Placed, ProtectedStaysAllocated, get_pointer
<1>11. Collection'
    BY <1>1, <1>2, <1>3, <1>4 DEF TypeOK, Serial, Collection, Deref
<1>12. Scanned' /\ ProtectedStaysAllocated' /\ NoObjectLost' /\ NeverFails'
    BY <1>1, <1>3, <1>4
    DEF TypeOK, Scanned, get_pointer, ProtectedStaysAllocated, NoObjectLost,
        NeverFails, Pushed
<1>13. QED
    BY <1>4, <1>6, <1>7, <1>8, <1>9, <1>10, <1>11, <1>12 DEF Inv

\* pop takes the first node of the free list.
LEMMA PopTakeStep ==
    ASSUME Inv, NEW c \in Clients, PopSwap(c), head["free"] = node[c],
           node[c] # end_node
    PROVE  Inv'
<1> USE NamesAssumption, MaxNodesAssumption DEF end_node, Threads, Lists,
        Unbound, Settable, ClientLabels, CollectLabels, Private, Bound,
        Retiring, Removing, Removed
<1>1. /\ TypeOK /\ Labels /\ Serial /\ AreLists /\ ListNodes /\ Owners
      /\ NodeBoundOnce /\ Pushed /\ Popping /\ Pointing /\ RetiredNodes /\ Placed
      /\ Collection /\ Scanned /\ ProtectedStaysAllocated /\ NoObjectLost
      /\ NeverFails
    BY DEF Inv
<1>2. /\ head["free"] \in Nodes /\ node[c] \in On("free")
      /\ next[head["free"]] \in Nodes \cup {end_node}
    BY <1>1, ListFacts DEF PopSwap, Popping
<1>3. /\ pc[c] = "pop_swap" /\ pc' = [pc EXCEPT ![c] = "pop_clear"]
      /\ desired' = [desired EXCEPT ![c] = NULL]
      /\ head' = [head EXCEPT !["free"] = next[head["free"]]]
      /\ UNCHANGED <<slot, heap, nodes, next, pointer, gc_pointer, hp_node,
                     node, value, all_haz_ptrs, scan, gc_node, next_gc_node,
                     ppnode, expected, failed>>
    BY <1>1, <1>2
    DEF PopSwap, Popped, Goto, Popping, TypeOK, app, lists, pointers, locals,
        gc, hazards, link
<1>4. /\ AreLists' /\ On("gc")' = On("gc")
      /\ On("free")' = On("free") \ {node[c]}
    BY <1>1, <1>2, <1>3, PopLists
<1>5. \A u \in Threads : Own(u)' = IF u = c THEN node[c] ELSE Own(u)
    BY <1>1, <1>2, <1>3 DEF TypeOK, Labels, Own
<1>6. TypeOK' /\ Labels' /\ Serial'
    BY <1>1, <1>2, <1>3
    DEF TypeOK, Labels, Links, Nodes, Serial, Acquiring, Deleting, Collecting
<1>7. ListNodes'
    BY <1>1, <1>2, <1>3, <1>4 DEF TypeOK, ListNodes, Listed, Nodes
<1>8. Owners'
    BY <1>1, <1>2, <1>3, <1>4, <1>5 DEF TypeOK, Owners, Listed, ListNodes
<1>9. NodeBoundOnce' /\ Pushed' /\ Popping' /\ Pointing' /\ RetiredNodes'
    BY <1>1, <1>2, <1>3, <1>4
    DEF TypeOK, NodeBoundOnce, Pushed, Popping, Serial, Acquiring, ListNodes,
        Pointing, RetiredNodes
<1>10. Placed'
    BY <1>1, <1>2, <1>3
    DEF TypeOK, Placed, ProtectedStaysAllocated, get_pointer
<1>11. Collection'
    BY <1>1, <1>2, <1>3, <1>4 DEF TypeOK, Serial, Collection, Deref
<1>12. Scanned' /\ ProtectedStaysAllocated' /\ NoObjectLost' /\ NeverFails'
    BY <1>1, <1>3, <1>4
    DEF TypeOK, Scanned, get_pointer, ProtectedStaysAllocated, NoObjectLost,
        NeverFails, Pushed
<1>13. QED
    BY <1>4, <1>6, <1>7, <1>8, <1>9, <1>10, <1>11, <1>12 DEF Inv

\* pop clears the link of the node, and the HazardPointer is bound to it.
LEMMA PopClearStep ==
    ASSUME Inv, NEW c \in Clients, PopClear(c)
    PROVE  Inv'
<1> USE NamesAssumption, MaxNodesAssumption DEF end_node, Threads, Lists,
        Unbound, Settable, ClientLabels, CollectLabels, Private, Bound,
        Retiring, Removing, Removed
<1>1. /\ TypeOK /\ Labels /\ Serial /\ AreLists /\ ListNodes /\ Owners
      /\ NodeBoundOnce /\ Pushed /\ Popping /\ Pointing /\ RetiredNodes /\ Placed
      /\ Collection /\ Scanned /\ ProtectedStaysAllocated /\ NoObjectLost
      /\ NeverFails
    BY DEF Inv
<1>2. node[c] = Own(c) /\ node[c] \in Nodes /\ node[c] \in 1..nodes /\ node[c] \notin Listed
    BY <1>1 DEF PopClear, Step, Own, Owners, TypeOK, Nodes
<1>3. /\ pc[c] = "pop_clear" /\ pc' = [pc EXCEPT ![c] = "bound"]
      /\ next' = [next EXCEPT ![node[c]] = NULL]
      /\ hp_node' = [hp_node EXCEPT ![c] = node[c]]
      /\ node' = [node EXCEPT ![c] = NULL]
      /\ UNCHANGED <<slot, heap, nodes, head, pointer, gc_pointer, desired,
                     value, all_haz_ptrs, scan, gc_node, next_gc_node,
                     ppnode, expected, failed>>
    BY <1>2
    DEF PopClear, Step, Goto, app, lists, pointers, locals, gc, hazards, link
<1>4. AreLists' /\ On("free")' = On("free") /\ On("gc")' = On("gc")
    BY <1>1, <1>2, <1>3, FrameLists
<1>5. \A u \in Threads : Own(u)' = Own(u)
    BY <1>1, <1>2, <1>3 DEF TypeOK, Labels, Own
<1>6. TypeOK' /\ Labels' /\ Serial'
    BY <1>1, <1>2, <1>3
    DEF TypeOK, Labels, Links, Serial, Acquiring, Deleting, Collecting
<1>7. ListNodes'
    BY <1>1, <1>2, <1>3, <1>4 DEF TypeOK, ListNodes, Listed, Nodes
<1>8. Owners'
    BY <1>1, <1>2, <1>3, <1>4, <1>5 DEF TypeOK, Owners, Listed
<1>9. NodeBoundOnce' /\ Pushed' /\ Popping'
    BY <1>1, <1>2, <1>3, <1>4, <1>5
    DEF TypeOK, Labels, NodeBoundOnce, Pushed, Popping, Owners, Own, Listed
<1>10. Pointing' /\ RetiredNodes'
    BY <1>1, <1>2, <1>3, <1>4
    DEF TypeOK, Pointing, RetiredNodes, Owners, Own, Listed
<1>11. Placed'
    BY <1>1, <1>2, <1>3
    DEF TypeOK, Placed, ProtectedStaysAllocated, get_pointer
<1>12. Collection'
    BY <1>1, <1>2, <1>3, <1>4 DEF TypeOK, Serial, Collection, Deref, Listed
<1>13. Scanned' /\ ProtectedStaysAllocated' /\ NoObjectLost' /\ NeverFails'
    BY <1>1, <1>3, <1>4
    DEF TypeOK, Scanned, get_pointer, ProtectedStaysAllocated, NoObjectLost,
        NeverFails, Pushed
<1>14. QED
    BY <1>4, <1>6, <1>7, <1>8, <1>9, <1>10, <1>11, <1>12, <1>13 DEF Inv

\* A node is constructed and the HazardPointer bound to it.
LEMMA NewNodeStep ==
    ASSUME Inv, NEW c \in Clients, NewNode(c), nodes # MaxNodes
    PROVE  Inv'
<1> USE NamesAssumption, MaxNodesAssumption DEF end_node, Threads, Lists,
        Unbound, Settable, ClientLabels, CollectLabels, Private, Bound,
        Retiring, Removing, Removed
<1>1. /\ TypeOK /\ Labels /\ Serial /\ AreLists /\ ListNodes /\ Owners
      /\ NodeBoundOnce /\ Pushed /\ Popping /\ Pointing /\ RetiredNodes /\ Placed
      /\ Collection /\ Scanned /\ ProtectedStaysAllocated /\ NoObjectLost
      /\ NeverFails
    BY DEF Inv
<1>2. /\ nodes < MaxNodes
      /\ pc[c] = "new" /\ pc' = [pc EXCEPT ![c] = "bound"]
      /\ nodes' = nodes + 1
      /\ hp_node' = [hp_node EXCEPT ![c] = nodes + 1]
      /\ node' = [node EXCEPT ![c] = NULL]
      /\ UNCHANGED <<slot, heap, head, next, pointer, gc_pointer, desired,
                     value, all_haz_ptrs, scan, gc_node, next_gc_node,
                     ppnode, expected, failed>>
    BY DEF NewNode, Add, Goto, app, lists, pointers, locals, gc, hazards, link
<1>3. AreLists' /\ On("free")' = On("free") /\ On("gc")' = On("gc")
    BY <1>1, <1>2, QuietLists
<1>4. \A u \in Threads : Own(u)' = IF u = c THEN nodes + 1 ELSE Own(u)
    BY <1>1, <1>2 DEF TypeOK, Labels, Own
<1>5. TypeOK' /\ Labels' /\ Serial'
    BY <1>1, <1>2
    DEF TypeOK, Labels, Links, Nodes, Serial, Acquiring, Deleting, Collecting
<1>6. ListNodes'
    BY <1>1, <1>2, <1>3 DEF TypeOK, ListNodes, Listed, Nodes
<1>7. Owners'
    BY <1>1, <1>2, <1>3, <1>4 DEF TypeOK, Owners, Listed, ListNodes
<1>8. NodeBoundOnce' /\ Pushed' /\ Popping'
    BY <1>1, <1>2, <1>3, <1>4
    DEF TypeOK, Labels, NodeBoundOnce, Pushed, Popping, Owners, Own, Listed,
        ListNodes
<1>9. Pointing'
    BY <1>1, <1>2, <1>3 DEF TypeOK, Pointing, ListNodes, Nodes
<1>10. RetiredNodes'
    BY <1>1, <1>2, <1>3 DEF TypeOK, RetiredNodes
<1>11. Placed'
    BY <1>1, <1>2 DEF TypeOK, Placed, ProtectedStaysAllocated, get_pointer
<1>12. Collection'
    BY <1>1, <1>2, <1>3 DEF TypeOK, Serial, Collection, Deref
<1>13. Scanned' /\ ProtectedStaysAllocated' /\ NoObjectLost' /\ NeverFails'
    BY <1>1, <1>2, <1>3
    DEF TypeOK, Scanned, get_pointer, ProtectedStaysAllocated, NoObjectLost,
        NeverFails, Pushed
<1>14. QED
    BY <1>3, <1>5, <1>6, <1>7, <1>8, <1>9, <1>10, <1>11, <1>12, <1>13 DEF Inv

\* There is no memory for a node.
LEMMA NoMemoryStep ==
    ASSUME Inv, NEW c \in Clients, NewNode(c), nodes = MaxNodes
    PROVE  Inv'
<1> USE NamesAssumption, MaxNodesAssumption DEF end_node, Threads, Lists,
        Unbound, Settable, ClientLabels, CollectLabels, Private, Bound,
        Retiring, Removing, Removed
<1>1. /\ TypeOK /\ Labels /\ Serial /\ AreLists /\ ListNodes /\ Owners
      /\ NodeBoundOnce /\ Pushed /\ Popping /\ Pointing /\ RetiredNodes /\ Placed
      /\ Collection /\ Scanned /\ ProtectedStaysAllocated /\ NoObjectLost
      /\ NeverFails
    BY DEF Inv
<1>2. /\ pc[c] = "new" /\ pc' = [pc EXCEPT ![c] = "idle"]
      /\ node' = [node EXCEPT ![c] = NULL]
      /\ UNCHANGED <<slot, heap, nodes, head, next, pointer, gc_pointer,
                     hp_node, desired, value, all_haz_ptrs, scan, gc_node,
                     next_gc_node, ppnode, expected, failed>>
    BY <1>1
    DEF NewNode, Add, Goto, TypeOK, app, lists, pointers, locals, gc,
        hazards, link
<1>3. AreLists' /\ On("free")' = On("free") /\ On("gc")' = On("gc")
    BY <1>1, <1>2, QuietLists
<1>4. \A u \in Threads : Own(u)' = Own(u)
    BY <1>1, <1>2 DEF TypeOK, Labels, Own
<1>5. TypeOK' /\ Labels' /\ Serial'
    BY <1>1, <1>2
    DEF TypeOK, Labels, Links, Serial, Acquiring, Deleting, Collecting
<1>6. ListNodes'
    BY <1>1, <1>2, <1>3 DEF TypeOK, ListNodes, Listed, Nodes
<1>7. Owners'
    BY <1>1, <1>2, <1>3, <1>4 DEF TypeOK, Owners, Listed
<1>8. NodeBoundOnce' /\ Pushed' /\ Popping' /\ Pointing' /\ RetiredNodes'
    BY <1>1, <1>2, <1>3
    DEF TypeOK, NodeBoundOnce, Pushed, Popping, Pointing, RetiredNodes
<1>9. Placed'
    BY <1>1, <1>2 DEF TypeOK, Placed, ProtectedStaysAllocated, get_pointer
<1>10. Collection'
    BY <1>1, <1>2, <1>3 DEF TypeOK, Serial, Collection, Deref
<1>11. Scanned' /\ ProtectedStaysAllocated' /\ NoObjectLost' /\ NeverFails'
    BY <1>1, <1>2, <1>3
    DEF TypeOK, Scanned, get_pointer, ProtectedStaysAllocated, NoObjectLost,
        NeverFails, Pushed
<1>12. QED
    BY <1>3, <1>5, <1>6, <1>7, <1>8, <1>9, <1>10, <1>11 DEF Inv

\* Prime constructs a node.
LEMMA PrimeStep ==
    ASSUME Inv, NEW c \in Clients, Prime(c)
    PROVE  Inv'
<1> USE NamesAssumption, MaxNodesAssumption DEF end_node, Threads, Lists,
        Unbound, Settable, ClientLabels, CollectLabels, Private, Bound,
        Retiring, Removing, Removed
<1>1. /\ TypeOK /\ Labels /\ Serial /\ AreLists /\ ListNodes /\ Owners
      /\ NodeBoundOnce /\ Pushed /\ Popping /\ Pointing /\ RetiredNodes /\ Placed
      /\ Collection /\ Scanned /\ ProtectedStaysAllocated /\ NoObjectLost
      /\ NeverFails
    BY DEF Inv
<1>2. /\ nodes < MaxNodes
      /\ pc[c] = "idle" /\ pc' = [pc EXCEPT ![c] = "rl_link"]
      /\ nodes' = nodes + 1
      /\ node' = [node EXCEPT ![c] = nodes + 1]
      /\ UNCHANGED <<slot, heap, head, next, pointer, gc_pointer, hp_node,
                     desired, value, all_haz_ptrs, scan, gc_node,
                     next_gc_node, ppnode, expected, failed>>
    BY
    DEF Prime, Add, Step, Goto, app, lists, pointers, locals, gc, hazards,
        link
<1>3. AreLists' /\ On("free")' = On("free") /\ On("gc")' = On("gc")
    BY <1>1, <1>2, QuietLists
<1>4. \A u \in Threads : Own(u)' = IF u = c THEN nodes + 1 ELSE Own(u)
    BY <1>1, <1>2 DEF TypeOK, Labels, Own
<1>5. TypeOK' /\ Labels' /\ Serial'
    BY <1>1, <1>2
    DEF TypeOK, Labels, Links, Nodes, Serial, Acquiring, Deleting, Collecting
<1>6. ListNodes'
    BY <1>1, <1>2, <1>3 DEF TypeOK, ListNodes, Listed, Nodes
<1>7. Owners'
    BY <1>1, <1>2, <1>3, <1>4 DEF TypeOK, Owners, Listed, ListNodes
<1>8. NodeBoundOnce' /\ Pushed' /\ Popping' /\ Pointing' /\ RetiredNodes'
    BY <1>1, <1>2, <1>3
    DEF TypeOK, NodeBoundOnce, Pushed, Popping, Pointing, RetiredNodes
<1>9. Placed'
    BY <1>1, <1>2 DEF TypeOK, Placed, ProtectedStaysAllocated, get_pointer
<1>10. Collection'
    BY <1>1, <1>2, <1>3 DEF TypeOK, Serial, Collection, Deref
<1>11. Scanned' /\ ProtectedStaysAllocated' /\ NoObjectLost' /\ NeverFails'
    BY <1>1, <1>2, <1>3
    DEF TypeOK, Scanned, get_pointer, ProtectedStaysAllocated, NoObjectLost,
        NeverFails, Pushed
<1>12. QED
    BY <1>3, <1>5, <1>6, <1>7, <1>8, <1>9, <1>10, <1>11 DEF Inv

\* Acquire reads the shared location.
LEMMA AcquireReadStep ==
    ASSUME Inv, NEW c \in Clients, AcquireRead(c)
    PROVE  Inv'
<1> USE NamesAssumption, MaxNodesAssumption DEF end_node, Threads, Lists,
        Unbound, Settable, ClientLabels, CollectLabels, Private, Bound,
        Retiring, Removing, Removed
<1>1. /\ TypeOK /\ Labels /\ Serial /\ AreLists /\ ListNodes /\ Owners
      /\ NodeBoundOnce /\ Pushed /\ Popping /\ Pointing /\ RetiredNodes /\ Placed
      /\ Collection /\ Scanned /\ ProtectedStaysAllocated /\ NoObjectLost
      /\ NeverFails
    BY DEF Inv
<1>2. pc[c] \in Settable /\ hp_node[c] = Own(c) /\ hp_node[c] \in Nodes
      /\ hp_node[c] \notin Listed
    BY <1>1 DEF AcquireRead, Own, Owners, TypeOK, Nodes
<1>3. /\ failed = FALSE /\ gc_pointer[hp_node[c]] = NULL
      /\ next[hp_node[c]] = NULL
    BY <1>1, <1>2 DEF NeverFails, TypeOK, RetiredNodes, Pointing, Owners, Own, Listed, Labels
<1>4. /\ pc' = [pc EXCEPT ![c] = "acq_store"]
      /\ value' = [value EXCEPT ![c] = slot]
      /\ failed' = FALSE
      /\ UNCHANGED <<slot, heap, nodes, head, next, pointer, gc_pointer,
                     hp_node, node, desired, all_haz_ptrs, scan, gc_node,
                     next_gc_node, ppnode, expected>>
    BY <1>2, <1>3
    DEF AcquireRead, Goto, CHECK_ASSERT, IsUnqueued, app, lists, pointers,
        locals, gc, hazards, link
<1>5. AreLists' /\ On("free")' = On("free") /\ On("gc")' = On("gc")
    BY <1>1, <1>4, QuietLists
<1>6. \A u \in Threads : Own(u)' = Own(u)
    BY <1>1, <1>2, <1>3, <1>4 DEF TypeOK, Labels, Own
<1>7. TypeOK' /\ Labels' /\ Serial'
    BY <1>1, <1>2, <1>3, <1>4
    DEF TypeOK, Labels, Links, Serial, Acquiring, Deleting, Collecting
<1>8. ListNodes'
    BY <1>1, <1>2, <1>3, <1>4, <1>5 DEF TypeOK, ListNodes, Listed, Nodes
<1>9. Owners'
    BY <1>1, <1>2, <1>3, <1>4, <1>5, <1>6 DEF TypeOK, Owners, Listed
<1>10. NodeBoundOnce' /\ Pushed' /\ Popping' /\ Pointing' /\ RetiredNodes'
    BY <1>1, <1>2, <1>3, <1>4, <1>5
    DEF TypeOK, NodeBoundOnce, Pushed, Popping, Pointing, RetiredNodes
<1>11. Placed'
    BY <1>1, <1>2, <1>3, <1>4
    DEF TypeOK, Placed, ProtectedStaysAllocated, get_pointer
<1>12. Collection'
    BY <1>1, <1>2, <1>3, <1>4, <1>5 DEF TypeOK, Serial, Collection, Deref
<1>13. Scanned' /\ ProtectedStaysAllocated' /\ NoObjectLost' /\ NeverFails'
    BY <1>1, <1>2, <1>3, <1>4, <1>5, <1>6
    DEF TypeOK, Labels, Scanned, get_pointer, ProtectedStaysAllocated,
        NoObjectLost, NeverFails, Pushed
<1>14. QED
    BY <1>5, <1>7, <1>8, <1>9, <1>10, <1>11, <1>12, <1>13 DEF Inv

\* Acquire sets the hazard pointer.
LEMMA AcquireStoreStep ==
    ASSUME Inv, NEW c \in Clients, AcquireStore(c)
    PROVE  Inv'
<1> USE NamesAssumption, MaxNodesAssumption DEF end_node, Threads, Lists,
        Unbound, Settable, ClientLabels, CollectLabels, Private, Bound,
        Retiring, Removing, Removed
<1>1. /\ TypeOK /\ Labels /\ Serial /\ AreLists /\ ListNodes /\ Owners
      /\ NodeBoundOnce /\ Pushed /\ Popping /\ Pointing /\ RetiredNodes /\ Placed
      /\ Collection /\ Scanned /\ ProtectedStaysAllocated /\ NoObjectLost
      /\ NeverFails
    BY DEF Inv
<1>2. hp_node[c] = Own(c) /\ hp_node[c] \in Nodes
    BY <1>1 DEF AcquireStore, Step, Own, Owners, TypeOK, Nodes
<1>3. /\ pc[c] = "acq_store" /\ pc' = [pc EXCEPT ![c] = "set"]
      /\ pointer' = [pointer EXCEPT ![hp_node[c]] = value[c]]
      /\ value' = [value EXCEPT ![c] = NULL]
      /\ UNCHANGED <<slot, heap, nodes, head, next, gc_pointer, hp_node,
                     node, desired, all_haz_ptrs, scan, gc_node,
                     next_gc_node, ppnode, expected, failed>>
    BY <1>2
    DEF AcquireStore, Step, Goto, app, lists, pointers, locals, gc, hazards,
        link
<1>4. AreLists' /\ On("free")' = On("free") /\ On("gc")' = On("gc")
    BY <1>1, <1>3, QuietLists
<1>5. \A u \in Threads : Own(u)' = Own(u)
    BY <1>1, <1>2, <1>3 DEF TypeOK, Labels, Own
<1>6. TypeOK' /\ Labels' /\ Serial'
    BY <1>1, <1>2, <1>3
    DEF TypeOK, Labels, Links, Serial, Acquiring, Deleting, Collecting
<1>7. ListNodes'
    BY <1>1, <1>2, <1>3, <1>4 DEF TypeOK, ListNodes, Listed, Nodes
<1>8. Owners'
    BY <1>1, <1>2, <1>3, <1>4, <1>5 DEF TypeOK, Owners, Listed
<1>9. NodeBoundOnce' /\ Pushed' /\ Popping' /\ Pointing' /\ RetiredNodes'
    BY <1>1, <1>2, <1>3, <1>4
    DEF TypeOK, NodeBoundOnce, Pushed, Popping, Pointing, RetiredNodes
<1>10. Placed'
    BY <1>1, <1>2, <1>3
    DEF TypeOK, Placed, ProtectedStaysAllocated, get_pointer, Owners, Own
<1>11. Collection'
    BY <1>1, <1>2, <1>3, <1>4 DEF TypeOK, Serial, Collection, Deref
<1>12. Scanned' /\ ProtectedStaysAllocated' /\ NoObjectLost' /\ NeverFails'
    BY <1>1, <1>2, <1>3, <1>4, <1>5
    DEF TypeOK, Labels, Scanned, get_pointer, Owners, Own,
        ProtectedStaysAllocated, NoObjectLost, NeverFails, Pushed
<1>13. QED
    BY <1>4, <1>6, <1>7, <1>8, <1>9, <1>10, <1>11, <1>12 DEF Inv

\* Clear resets the hazard pointer.
LEMMA ClearStep ==
    ASSUME Inv, NEW c \in Clients, Clear(c)
    PROVE  Inv'
<1> USE NamesAssumption, MaxNodesAssumption DEF end_node, Threads, Lists,
        Unbound, Settable, ClientLabels, CollectLabels, Private, Bound,
        Retiring, Removing, Removed
<1>1. /\ TypeOK /\ Labels /\ Serial /\ AreLists /\ ListNodes /\ Owners
      /\ NodeBoundOnce /\ Pushed /\ Popping /\ Pointing /\ RetiredNodes /\ Placed
      /\ Collection /\ Scanned /\ ProtectedStaysAllocated /\ NoObjectLost
      /\ NeverFails
    BY DEF Inv
<1>2. pc[c] \in Settable /\ hp_node[c] = Own(c) /\ hp_node[c] \in Nodes
      /\ hp_node[c] \notin Listed
    BY <1>1 DEF Clear, Own, Owners, TypeOK, Nodes
<1>3. /\ failed = FALSE /\ gc_pointer[hp_node[c]] = NULL
      /\ next[hp_node[c]] = NULL
    BY <1>1, <1>2 DEF NeverFails, TypeOK, RetiredNodes, Pointing, Owners, Own, Listed, Labels
<1>4. /\ pc' = [pc EXCEPT ![c] = "bound"]
      /\ pointer' = [pointer EXCEPT ![hp_node[c]] = NULL]
      /\ failed' = FALSE
      /\ UNCHANGED <<slot, heap, nodes, head, next, gc_pointer, hp_node,
                     node, desired, value, all_haz_ptrs, scan, gc_node,
                     next_gc_node, ppnode, expected>>
    BY <1>2, <1>3
    DEF Clear, Goto, CHECK_ASSERT, app, lists, pointers, locals, gc, hazards,
        link
<1>5. AreLists' /\ On("free")' = On("free") /\ On("gc")' = On("gc")
    BY <1>1, <1>4, QuietLists
<1>6. \A u \in Threads : Own(u)' = Own(u)
    BY <1>1, <1>2, <1>3, <1>4 DEF TypeOK, Labels, Own
<1>7. TypeOK' /\ Labels' /\ Serial'
    BY <1>1, <1>2, <1>3, <1>4
    DEF TypeOK, Labels, Links, Serial, Acquiring, Deleting, Collecting
<1>8. ListNodes'
    BY <1>1, <1>2, <1>3, <1>4, <1>5 DEF TypeOK, ListNodes, Listed, Nodes
<1>9. Owners'
    BY <1>1, <1>2, <1>3, <1>4, <1>5, <1>6 DEF TypeOK, Owners, Listed
<1>10. NodeBoundOnce' /\ Pushed' /\ Popping' /\ Pointing' /\ RetiredNodes'
    BY <1>1, <1>2, <1>3, <1>4, <1>5
    DEF TypeOK, NodeBoundOnce, Pushed, Popping, Pointing, RetiredNodes
<1>11. Placed'
    BY <1>1, <1>2, <1>3, <1>4
    DEF TypeOK, Placed, ProtectedStaysAllocated, get_pointer, Owners, Own
<1>12. Collection'
    BY <1>1, <1>2, <1>3, <1>4, <1>5 DEF TypeOK, Serial, Collection, Deref
<1>13. Scanned' /\ ProtectedStaysAllocated' /\ NoObjectLost' /\ NeverFails'
    BY <1>1, <1>2, <1>3, <1>4, <1>5, <1>6
    DEF TypeOK, Labels, Scanned, get_pointer, Owners, Own,
        ProtectedStaysAllocated, NoObjectLost, NeverFails, Pushed
<1>14. QED
    BY <1>5, <1>7, <1>8, <1>9, <1>10, <1>11, <1>12, <1>13 DEF Inv

\* Release of a node that points to nothing: the node is dropped.
LEMMA DropStep ==
    ASSUME Inv, NEW c \in Clients, ReleaseClear(c), get_pointer(c) = NULL
    PROVE  Inv'
<1> USE NamesAssumption, MaxNodesAssumption DEF end_node, Threads, Lists,
        Unbound, Settable, ClientLabels, CollectLabels, Private, Bound,
        Retiring, Removing, Removed
<1>1. /\ TypeOK /\ Labels /\ Serial /\ AreLists /\ ListNodes /\ Owners
      /\ NodeBoundOnce /\ Pushed /\ Popping /\ Pointing /\ RetiredNodes /\ Placed
      /\ Collection /\ Scanned /\ ProtectedStaysAllocated /\ NoObjectLost
      /\ NeverFails
    BY DEF Inv
<1>2. pc[c] \in Settable /\ hp_node[c] = Own(c) /\ hp_node[c] \in Nodes
      /\ hp_node[c] \notin Listed
    BY <1>1 DEF ReleaseClear, Own, Owners, TypeOK, Nodes
<1>3. /\ failed = FALSE /\ gc_pointer[hp_node[c]] = NULL
      /\ next[hp_node[c]] = NULL
    BY <1>1, <1>2 DEF NeverFails, TypeOK, RetiredNodes, Pointing, Owners, Own, Listed, Labels
<1>4. /\ pc' = [pc EXCEPT ![c] = "idle"]
      /\ pointer' = pointer
      /\ hp_node' = [hp_node EXCEPT ![c] = NULL]
      /\ failed' = FALSE
      /\ UNCHANGED <<slot, heap, nodes, head, next, gc_pointer, node,
                     desired, value, all_haz_ptrs, scan, gc_node,
                     next_gc_node, ppnode, expected>>
    BY <1>1, <1>2, <1>3
    DEF ReleaseClear, Released, Goto, CHECK_ASSERT, IsUnqueued, get_pointer,
        TypeOK, app, lists, pointers, locals, gc, hazards, link
<1>5. AreLists' /\ On("free")' = On("free") /\ On("gc")' = On("gc")
    BY <1>1, <1>4, QuietLists
<1>6. \A u \in Threads : Own(u)' = IF u = c THEN NULL ELSE Own(u)
    BY <1>1, <1>2, <1>3, <1>4 DEF TypeOK, Labels, Own
<1>7. TypeOK' /\ Labels' /\ Serial'
    BY <1>1, <1>2, <1>3, <1>4
    DEF TypeOK, Labels, Links, Serial, Acquiring, Deleting, Collecting
<1>8. ListNodes'
    BY <1>1, <1>2, <1>3, <1>4, <1>5 DEF TypeOK, ListNodes, Listed, Nodes
<1>9. Owners'
    BY <1>1, <1>2, <1>3, <1>4, <1>5, <1>6
    DEF TypeOK, Owners, Listed, ListNodes
<1>10. NodeBoundOnce' /\ Pushed' /\ Popping' /\ Pointing' /\ RetiredNodes'
    BY <1>1, <1>2, <1>3, <1>4, <1>5
    DEF TypeOK, NodeBoundOnce, Pushed, Popping, Pointing, RetiredNodes,
        get_pointer
<1>11. Placed'
    BY <1>1, <1>2, <1>3, <1>4
    DEF TypeOK, Placed, ProtectedStaysAllocated, get_pointer, Owners, Own
<1>12. Collection'
    BY <1>1, <1>2, <1>3, <1>4, <1>5 DEF TypeOK, Serial, Collection, Deref
<1>13. Scanned' /\ ProtectedStaysAllocated' /\ NoObjectLost' /\ NeverFails'
    BY <1>1, <1>3, <1>4, <1>5
    DEF TypeOK, Scanned, get_pointer, Owners, Own, ProtectedStaysAllocated,
        NoObjectLost, NeverFails, Pushed
<1>14. QED
    BY <1>5, <1>7, <1>8, <1>9, <1>10, <1>11, <1>12, <1>13 DEF Inv

\* Release of any other node: it is the client's until it is on the free list.
LEMMA ReleaseStep ==
    ASSUME Inv, NEW c \in Clients, ReleaseClear(c), get_pointer(c) # NULL
    PROVE  Inv'
<1> USE NamesAssumption, MaxNodesAssumption DEF end_node, Threads, Lists,
        Unbound, Settable, ClientLabels, CollectLabels, Private, Bound,
        Retiring, Removing, Removed
<1>1. /\ TypeOK /\ Labels /\ Serial /\ AreLists /\ ListNodes /\ Owners
      /\ NodeBoundOnce /\ Pushed /\ Popping /\ Pointing /\ RetiredNodes /\ Placed
      /\ Collection /\ Scanned /\ ProtectedStaysAllocated /\ NoObjectLost
      /\ NeverFails
    BY DEF Inv
<1>2. pc[c] \in Settable /\ hp_node[c] = Own(c) /\ hp_node[c] \in Nodes
      /\ hp_node[c] \notin Listed
    BY <1>1 DEF ReleaseClear, Own, Owners, TypeOK, Nodes
<1>3. /\ failed = FALSE /\ gc_pointer[hp_node[c]] = NULL
      /\ next[hp_node[c]] = NULL
    BY <1>1, <1>2 DEF NeverFails, TypeOK, RetiredNodes, Pointing, Owners, Own, Listed, Labels
<1>4. /\ pc' = [pc EXCEPT ![c] = "rl_link"]
      /\ pointer' = [pointer EXCEPT ![hp_node[c]] = NULL]
      /\ hp_node' = [hp_node EXCEPT ![c] = NULL]
      /\ node' = [node EXCEPT ![c] = hp_node[c]]
      /\ failed' = FALSE
      /\ UNCHANGED <<slot, heap, nodes, head, next, gc_pointer, desired,
                     value, all_haz_ptrs, scan, gc_node, next_gc_node,
                     ppnode, expected>>
    BY <1>2, <1>3
    DEF ReleaseClear, Released, Goto, CHECK_ASSERT, IsUnqueued, get_pointer,
        app, lists, pointers, locals, gc, hazards, link
<1>5. AreLists' /\ On("free")' = On("free") /\ On("gc")' = On("gc")
    BY <1>1, <1>4, QuietLists
<1>6. \A u \in Threads : Own(u)' = Own(u)
    BY <1>1, <1>2, <1>3, <1>4 DEF TypeOK, Labels, Own
<1>7. TypeOK'
    BY <1>1, <1>2, <1>3, <1>4 DEF TypeOK, Labels, Links
<1>8. Labels' /\ Serial'
    BY <1>1, <1>3, <1>4
    DEF TypeOK, Labels, Serial, Acquiring, Deleting, Collecting
<1>9. ListNodes'
    BY <1>1, <1>2, <1>3, <1>4, <1>5 DEF TypeOK, ListNodes, Listed, Nodes
<1>10. Owners'
    BY <1>1, <1>2, <1>3, <1>4, <1>5, <1>6 DEF TypeOK, Owners, Listed
<1>11. NodeBoundOnce' /\ Pushed' /\ Popping' /\ Pointing' /\ RetiredNodes'
    BY <1>1, <1>2, <1>3, <1>4, <1>5
    DEF TypeOK, NodeBoundOnce, Pushed, Popping, Pointing, RetiredNodes
<1>12. Placed'
    BY <1>1, <1>2, <1>3, <1>4
    DEF TypeOK, Placed, ProtectedStaysAllocated, get_pointer, Owners, Own
<1>13. Collection'
    BY <1>1, <1>2, <1>3, <1>4, <1>5 DEF TypeOK, Serial, Collection, Deref
<1>14. Scanned' /\ ProtectedStaysAllocated' /\ NoObjectLost' /\ NeverFails'
    BY <1>1, <1>2, <1>3, <1>4, <1>5, <1>6
    DEF TypeOK, Labels, Scanned, get_pointer, Owners, Own,
        ProtectedStaysAllocated, NoObjectLost, NeverFails, Pushed
<1>15. QED
    BY <1>5, <1>7, <1>8, <1>9, <1>10, <1>11, <1>12, <1>13, <1>14 DEF Inv

-----------------------------------------------------------------------------

\* push, of a released node: the node is linked to the free list.
LEMMA ReleaseLinkStep ==
    ASSUME Inv, NEW c \in Clients, ReleaseLink(c)
    PROVE  Inv'
<1> USE NamesAssumption, MaxNodesAssumption DEF end_node, Threads, Lists,
        Unbound, Settable, ClientLabels, CollectLabels, Private, Bound,
        Retiring, Removing, Removed
<1>1. /\ TypeOK /\ Labels /\ Serial /\ AreLists /\ ListNodes /\ Owners
      /\ NodeBoundOnce /\ Pushed /\ Popping /\ Pointing /\ RetiredNodes /\ Placed
      /\ Collection /\ Scanned /\ ProtectedStaysAllocated /\ NoObjectLost
      /\ NeverFails
    BY DEF Inv
<1>2. /\ node[c] = Own(c) /\ node[c] \in Nodes
      /\ node[c] \in 1..nodes /\ node[c] \notin Listed
    BY <1>1 DEF ReleaseLink, PushLink, Step, Own, Owners, Pushed, TypeOK, Nodes
<1>3. /\ pc[c] = "rl_link" /\ pc' = [pc EXCEPT ![c] = "rl_swap"]
      /\ next' = [next EXCEPT ![node[c]] = head["free"]]
      /\ UNCHANGED <<slot, heap, nodes, head, pointer, gc_pointer, hp_node,
                     node, desired, value, all_haz_ptrs, scan, gc_node,
                     next_gc_node, ppnode, expected, failed>>
    BY <1>2
    DEF ReleaseLink, PushLink, Step, Goto, app, lists, pointers, locals, gc,
        hazards, link
<1>4. AreLists' /\ On("free")' = On("free") /\ On("gc")' = On("gc")
    BY <1>1, <1>2, <1>3, FrameLists
<1>5. \A u \in Threads : Own(u)' = Own(u)
    BY <1>1, <1>2, <1>3 DEF TypeOK, Labels, Own
<1>6. TypeOK' /\ Labels' /\ Serial'
    BY <1>1, <1>2, <1>3
    DEF TypeOK, Labels, Links, Serial, Acquiring, Deleting, Collecting
<1>7. ListNodes'
    BY <1>1, <1>2, <1>3, <1>4 DEF TypeOK, ListNodes, Listed, Nodes
<1>8. Owners'
    BY <1>1, <1>2, <1>3, <1>4, <1>5 DEF TypeOK, Owners, Listed
<1>9. NodeBoundOnce' /\ Pushed' /\ Popping' /\ Pointing' /\ RetiredNodes'
    BY <1>1, <1>2, <1>3, <1>4
    DEF TypeOK, NodeBoundOnce, Pushed, Popping, Owners, Own, Listed, Serial,
        Pointing, RetiredNodes
<1>10. Placed'
    BY <1>1, <1>2, <1>3
    DEF TypeOK, Placed, ProtectedStaysAllocated, get_pointer
<1>11. Collection'
    BY <1>1, <1>2, <1>3, <1>4
    DEF TypeOK, Serial, Collection, Deref, Listed, Owners, Own, ListNodes
<1>12. Scanned' /\ ProtectedStaysAllocated' /\ NoObjectLost' /\ NeverFails'
    BY <1>1, <1>3, <1>4
    DEF TypeOK, Scanned, get_pointer, ProtectedStaysAllocated, NoObjectLost,
        NeverFails, Pushed
<1>13. QED
    BY <1>4, <1>6, <1>7, <1>8, <1>9, <1>10, <1>11, <1>12 DEF Inv

\* The head of the free list has moved.
LEMMA ReleaseAgainStep ==
    ASSUME Inv, NEW c \in Clients, ReleaseSwap(c), ~Unmoved(c, "free")
    PROVE  Inv'
<1> USE NamesAssumption, MaxNodesAssumption DEF end_node, Threads, Lists,
        Unbound, Settable, ClientLabels, CollectLabels, Private, Bound,
        Retiring, Removing, Removed
<1>1. /\ TypeOK /\ Labels /\ Serial /\ AreLists /\ ListNodes /\ Owners
      /\ NodeBoundOnce /\ Pushed /\ Popping /\ Pointing /\ RetiredNodes /\ Placed
      /\ Collection /\ Scanned /\ ProtectedStaysAllocated /\ NoObjectLost
      /\ NeverFails
    BY DEF Inv
<1>2. /\ node[c] = Own(c) /\ node[c] \in Nodes
      /\ node[c] \in 1..nodes /\ node[c] \notin Listed
    BY <1>1 DEF ReleaseSwap, PushSwap, Step, Own, Owners, Pushed, TypeOK, Nodes
<1>3. /\ pc[c] = "rl_swap" /\ pc' = [pc EXCEPT ![c] = "rl_link"]
      /\ next' = [next EXCEPT ![node[c]] = head["free"]]
      /\ UNCHANGED <<slot, heap, nodes, head, pointer, gc_pointer, hp_node,
                     node, desired, value, all_haz_ptrs, scan, gc_node,
                     next_gc_node, ppnode, expected, failed>>
    BY <1>2
    DEF ReleaseSwap, PushSwap, Goto, app, lists, pointers, locals, gc,
        hazards, link
<1>4. AreLists' /\ On("free")' = On("free") /\ On("gc")' = On("gc")
    BY <1>1, <1>2, <1>3, FrameLists
<1>5. \A u \in Threads : Own(u)' = Own(u)
    BY <1>1, <1>2, <1>3 DEF TypeOK, Labels, Own
<1>6. TypeOK' /\ Labels' /\ Serial'
    BY <1>1, <1>2, <1>3
    DEF TypeOK, Labels, Links, Serial, Acquiring, Deleting, Collecting
<1>7. ListNodes'
    BY <1>1, <1>2, <1>3, <1>4 DEF TypeOK, ListNodes, Listed, Nodes
<1>8. Owners'
    BY <1>1, <1>2, <1>3, <1>4, <1>5 DEF TypeOK, Owners, Listed
<1>9. NodeBoundOnce' /\ Pushed' /\ Popping' /\ Pointing' /\ RetiredNodes'
    BY <1>1, <1>2, <1>3, <1>4
    DEF TypeOK, NodeBoundOnce, Pushed, Popping, Owners, Own, Listed, Serial,
        Pointing, RetiredNodes
<1>10. Placed'
    BY <1>1, <1>2, <1>3
    DEF TypeOK, Placed, ProtectedStaysAllocated, get_pointer
<1>11. Collection'
    BY <1>1, <1>2, <1>3, <1>4
    DEF TypeOK, Serial, Collection, Deref, Listed, Owners, Own, ListNodes
<1>12. Scanned' /\ ProtectedStaysAllocated' /\ NoObjectLost' /\ NeverFails'
    BY <1>1, <1>3, <1>4
    DEF TypeOK, Scanned, get_pointer, ProtectedStaysAllocated, NoObjectLost,
        NeverFails, Pushed
<1>13. QED
    BY <1>4, <1>6, <1>7, <1>8, <1>9, <1>10, <1>11, <1>12 DEF Inv

\* push, of a retired node: the node is linked to the gc list.
LEMMA DeleteLinkStep ==
    ASSUME Inv, NEW c \in Clients, DeleteLink(c)
    PROVE  Inv'
<1> USE NamesAssumption, MaxNodesAssumption DEF end_node, Threads, Lists,
        Unbound, Settable, ClientLabels, CollectLabels, Private, Bound,
        Retiring, Removing, Removed
<1>1. /\ TypeOK /\ Labels /\ Serial /\ AreLists /\ ListNodes /\ Owners
      /\ NodeBoundOnce /\ Pushed /\ Popping /\ Pointing /\ RetiredNodes /\ Placed
      /\ Collection /\ Scanned /\ ProtectedStaysAllocated /\ NoObjectLost
      /\ NeverFails
    BY DEF Inv
<1>2. /\ node[c] = Own(c) /\ node[c] \in Nodes
      /\ node[c] \in 1..nodes /\ node[c] \notin Listed
    BY <1>1 DEF DeleteLink, PushLink, Step, Own, Owners, Pushed, TypeOK, Nodes
<1>3. /\ pc[c] = "dl_link" /\ pc' = [pc EXCEPT ![c] = "dl_swap"]
      /\ next' = [next EXCEPT ![node[c]] = head["gc"]]
      /\ UNCHANGED <<slot, heap, nodes, head, pointer, gc_pointer, hp_node,
                     node, desired, value, all_haz_ptrs, scan, gc_node,
                     next_gc_node, ppnode, expected, failed>>
    BY <1>2
    DEF DeleteLink, PushLink, Step, Goto, app, lists, pointers, locals, gc,
        hazards, link
<1>4. AreLists' /\ On("free")' = On("free") /\ On("gc")' = On("gc")
    BY <1>1, <1>2, <1>3, FrameLists
<1>5. \A u \in Threads : Own(u)' = Own(u)
    BY <1>1, <1>2, <1>3 DEF TypeOK, Labels, Own
<1>6. TypeOK' /\ Labels' /\ Serial'
    BY <1>1, <1>2, <1>3
    DEF TypeOK, Labels, Links, Serial, Acquiring, Deleting, Collecting
<1>7. ListNodes'
    BY <1>1, <1>2, <1>3, <1>4 DEF TypeOK, ListNodes, Listed, Nodes
<1>8. Owners'
    BY <1>1, <1>2, <1>3, <1>4, <1>5 DEF TypeOK, Owners, Listed
<1>9. NodeBoundOnce' /\ Pushed' /\ Popping' /\ Pointing' /\ RetiredNodes'
    BY <1>1, <1>2, <1>3, <1>4
    DEF TypeOK, NodeBoundOnce, Pushed, Popping, Owners, Own, Listed, Serial,
        Pointing, RetiredNodes
<1>10. Placed'
    BY <1>1, <1>2, <1>3
    DEF TypeOK, Placed, ProtectedStaysAllocated, get_pointer
<1>11. Collection'
    BY <1>1, <1>2, <1>3, <1>4
    DEF TypeOK, Serial, Collection, Deref, Listed, Owners, Own, ListNodes
<1>12. Scanned' /\ ProtectedStaysAllocated' /\ NoObjectLost' /\ NeverFails'
    BY <1>1, <1>3, <1>4
    DEF TypeOK, Scanned, get_pointer, ProtectedStaysAllocated, NoObjectLost,
        NeverFails, Pushed
<1>13. QED
    BY <1>4, <1>6, <1>7, <1>8, <1>9, <1>10, <1>11, <1>12 DEF Inv

\* The head of the gc list has moved.
LEMMA DeleteAgainStep ==
    ASSUME Inv, NEW c \in Clients, DeleteSwap(c), ~Unmoved(c, "gc")
    PROVE  Inv'
<1> USE NamesAssumption, MaxNodesAssumption DEF end_node, Threads, Lists,
        Unbound, Settable, ClientLabels, CollectLabels, Private, Bound,
        Retiring, Removing, Removed
<1>1. /\ TypeOK /\ Labels /\ Serial /\ AreLists /\ ListNodes /\ Owners
      /\ NodeBoundOnce /\ Pushed /\ Popping /\ Pointing /\ RetiredNodes /\ Placed
      /\ Collection /\ Scanned /\ ProtectedStaysAllocated /\ NoObjectLost
      /\ NeverFails
    BY DEF Inv
<1>2. /\ node[c] = Own(c) /\ node[c] \in Nodes
      /\ node[c] \in 1..nodes /\ node[c] \notin Listed
    BY <1>1 DEF DeleteSwap, PushSwap, Step, Own, Owners, Pushed, TypeOK, Nodes
<1>3. /\ pc[c] = "dl_swap" /\ pc' = [pc EXCEPT ![c] = "dl_link"]
      /\ next' = [next EXCEPT ![node[c]] = head["gc"]]
      /\ UNCHANGED <<slot, heap, nodes, head, pointer, gc_pointer, hp_node,
                     node, desired, value, all_haz_ptrs, scan, gc_node,
                     next_gc_node, ppnode, expected, failed>>
    BY <1>2
    DEF DeleteSwap, PushSwap, Goto, app, lists, pointers, locals, gc,
        hazards, link
<1>4. AreLists' /\ On("free")' = On("free") /\ On("gc")' = On("gc")
    BY <1>1, <1>2, <1>3, FrameLists
<1>5. \A u \in Threads : Own(u)' = Own(u)
    BY <1>1, <1>2, <1>3 DEF TypeOK, Labels, Own
<1>6. TypeOK' /\ Labels' /\ Serial'
    BY <1>1, <1>2, <1>3
    DEF TypeOK, Labels, Links, Serial, Acquiring, Deleting, Collecting
<1>7. ListNodes'
    BY <1>1, <1>2, <1>3, <1>4 DEF TypeOK, ListNodes, Listed, Nodes
<1>8. Owners'
    BY <1>1, <1>2, <1>3, <1>4, <1>5 DEF TypeOK, Owners, Listed
<1>9. NodeBoundOnce' /\ Pushed' /\ Popping' /\ Pointing' /\ RetiredNodes'
    BY <1>1, <1>2, <1>3, <1>4
    DEF TypeOK, NodeBoundOnce, Pushed, Popping, Owners, Own, Listed, Serial,
        Pointing, RetiredNodes
<1>10. Placed'
    BY <1>1, <1>2, <1>3
    DEF TypeOK, Placed, ProtectedStaysAllocated, get_pointer
<1>11. Collection'
    BY <1>1, <1>2, <1>3, <1>4
    DEF TypeOK, Serial, Collection, Deref, Listed, Owners, Own, ListNodes
<1>12. Scanned' /\ ProtectedStaysAllocated' /\ NoObjectLost' /\ NeverFails'
    BY <1>1, <1>3, <1>4
    DEF TypeOK, Scanned, get_pointer, ProtectedStaysAllocated, NoObjectLost,
        NeverFails, Pushed
<1>13. QED
    BY <1>4, <1>6, <1>7, <1>8, <1>9, <1>10, <1>11, <1>12 DEF Inv

\* push has put the released node on the free list.
LEMMA ReleaseSwapStep ==
    ASSUME Inv, NEW c \in Clients, ReleaseSwap(c), Unmoved(c, "free")
    PROVE  Inv'
<1> USE NamesAssumption, MaxNodesAssumption DEF end_node, Threads, Lists,
        Unbound, Settable, ClientLabels, CollectLabels, Private, Bound,
        Retiring, Removing, Removed
<1>1. /\ TypeOK /\ Labels /\ Serial /\ AreLists /\ ListNodes /\ Owners
      /\ NodeBoundOnce /\ Pushed /\ Popping /\ Pointing /\ RetiredNodes /\ Placed
      /\ Collection /\ Scanned /\ ProtectedStaysAllocated /\ NoObjectLost
      /\ NeverFails
    BY DEF Inv
<1>2. /\ node[c] = Own(c) /\ node[c] \in Nodes
      /\ node[c] \in 1..nodes /\ node[c] \notin Listed
    BY <1>1 DEF ReleaseSwap, PushSwap, Step, Own, Owners, Pushed, TypeOK, Nodes
<1>3. /\ pc[c] = "rl_swap" /\ pc' = [pc EXCEPT ![c] = "idle"]
      /\ next[node[c]] = head["free"] /\ head' = [head EXCEPT !["free"] = node[c]]
      /\ node' = [node EXCEPT ![c] = NULL]
      /\ UNCHANGED <<slot, heap, nodes, next, pointer, gc_pointer, hp_node,
                     desired, value, all_haz_ptrs, scan, gc_node,
                     next_gc_node, ppnode, expected, failed>>
    BY <1>2
    DEF ReleaseSwap, PushSwap, Unmoved, Goto, app, lists, pointers, locals,
        gc, hazards, link
<1>4. /\ AreLists' /\ On("gc")' = On("gc")
      /\ On("free")' = On("free") \cup {node[c]}
    BY <1>1, <1>2, <1>3, PushLists
<1>5. \A u \in Threads : Own(u)' = IF u = c THEN NULL ELSE Own(u)
    BY <1>1, <1>2, <1>3 DEF TypeOK, Labels, Own
<1>6. TypeOK' /\ Labels' /\ Serial'
    BY <1>1, <1>2, <1>3
    DEF TypeOK, Labels, Links, Serial, Acquiring, Deleting, Collecting
<1>7. ListNodes'
    BY <1>1, <1>2, <1>3, <1>4 DEF TypeOK, ListNodes, Listed, Nodes, Listed
<1>8. Owners'
    BY <1>1, <1>2, <1>3, <1>4, <1>5 DEF TypeOK, Owners, Listed, ListNodes
<1>9. NodeBoundOnce' /\ Pushed' /\ Popping' /\ Pointing' /\ RetiredNodes'
    BY <1>1, <1>2, <1>3, <1>4
    DEF TypeOK, NodeBoundOnce, Pushed, Popping, Pointing, RetiredNodes
<1>10. Placed'
    BY <1>1, <1>2, <1>3
    DEF TypeOK, Placed, ProtectedStaysAllocated, get_pointer
<1>11. Collection'
    BY <1>1, <1>2, <1>3, <1>4 DEF TypeOK, Serial, Collection, Deref
<1>12. Scanned' /\ ProtectedStaysAllocated' /\ NoObjectLost' /\ NeverFails'
    BY <1>1, <1>3, <1>4
    DEF TypeOK, Scanned, get_pointer, ProtectedStaysAllocated, NoObjectLost,
        NeverFails, Pushed
<1>13. QED
    BY <1>4, <1>6, <1>7, <1>8, <1>9, <1>10, <1>11, <1>12 DEF Inv

\* push has put the retired node on the gc list.
LEMMA DeleteSwapStep ==
    ASSUME Inv, NEW c \in Clients, DeleteSwap(c), Unmoved(c, "gc")
    PROVE  Inv'
<1> USE NamesAssumption, MaxNodesAssumption DEF end_node, Threads, Lists,
        Unbound, Settable, ClientLabels, CollectLabels, Private, Bound,
        Retiring, Removing, Removed
<1>1. /\ TypeOK /\ Labels /\ Serial /\ AreLists /\ ListNodes /\ Owners
      /\ NodeBoundOnce /\ Pushed /\ Popping /\ Pointing /\ RetiredNodes /\ Placed
      /\ Collection /\ Scanned /\ ProtectedStaysAllocated /\ NoObjectLost
      /\ NeverFails
    BY DEF Inv
<1>2. /\ node[c] = Own(c) /\ node[c] \in Nodes
      /\ node[c] \in 1..nodes /\ node[c] \notin Listed
    BY <1>1 DEF DeleteSwap, PushSwap, Step, Own, Owners, Pushed, TypeOK, Nodes
<1>3. /\ pc[c] = "dl_swap" /\ pc' = [pc EXCEPT ![c] = "dl_check"]
      /\ next[node[c]] = head["gc"] /\ head' = [head EXCEPT !["gc"] = node[c]]
      /\ node' = [node EXCEPT ![c] = NULL]
      /\ UNCHANGED <<slot, heap, nodes, next, pointer, gc_pointer, hp_node,
                     desired, value, all_haz_ptrs, scan, gc_node,
                     next_gc_node, ppnode, expected, failed>>
    BY <1>2
    DEF DeleteSwap, PushSwap, Unmoved, Goto, app, lists, pointers, locals,
        gc, hazards, link
<1>4. /\ AreLists' /\ On("free")' = On("free")
      /\ On("gc")' = On("gc") \cup {node[c]}
    BY <1>1, <1>2, <1>3, PushLists
<1>5. \A u \in Threads : Own(u)' = IF u = c THEN NULL ELSE Own(u)
    BY <1>1, <1>2, <1>3 DEF TypeOK, Labels, Own
<1>6. TypeOK' /\ Labels' /\ Serial'
    BY <1>1, <1>2, <1>3
    DEF TypeOK, Labels, Links, Serial, Acquiring, Deleting, Collecting
<1>7. ListNodes'
    BY <1>1, <1>2, <1>3, <1>4 DEF TypeOK, ListNodes, Listed, Nodes, Listed
<1>8. Owners'
    BY <1>1, <1>2, <1>3, <1>4, <1>5 DEF TypeOK, Owners, Listed, ListNodes
<1>9. NodeBoundOnce' /\ Pushed' /\ Popping' /\ Pointing' /\ RetiredNodes'
    BY <1>1, <1>2, <1>3, <1>4
    DEF TypeOK, NodeBoundOnce, Pushed, Popping, Owners, Own, Pointing,
        RetiredNodes
<1>10. Placed'
    BY <1>1, <1>2, <1>3
    DEF TypeOK, Placed, ProtectedStaysAllocated, get_pointer
<1>11. Collection'
    BY <1>1, <1>2, <1>3, <1>4
    DEF TypeOK, Serial, Collection, Deref, Deleting, Collecting
<1>12. Scanned' /\ ProtectedStaysAllocated' /\ NoObjectLost' /\ NeverFails'
    BY <1>1, <1>3, <1>4
    DEF TypeOK, Scanned, get_pointer, ProtectedStaysAllocated, NoObjectLost,
        NeverFails, Pushed
<1>13. QED
    BY <1>4, <1>6, <1>7, <1>8, <1>9, <1>10, <1>11, <1>12 DEF Inv

\* Delete retires the object; Collect is not running.
LEMMA DeleteMoveStep ==
    ASSUME Inv, SerialDelete, NEW c \in Clients, DeleteMove(c)
    PROVE  Inv'
<1> USE NamesAssumption, MaxNodesAssumption DEF end_node, Threads, Lists,
        Unbound, Settable, ClientLabels, CollectLabels, Private, Bound,
        Retiring, Removing, Removed
<1>1. /\ TypeOK /\ Labels /\ Serial /\ AreLists /\ ListNodes /\ Owners
      /\ NodeBoundOnce /\ Pushed /\ Popping /\ Pointing /\ RetiredNodes /\ Placed
      /\ Collection /\ Scanned /\ ProtectedStaysAllocated /\ NoObjectLost
      /\ NeverFails
    BY DEF Inv
<1>2. pc[c] = "unlinked" /\ hp_node[c] = Own(c) /\ hp_node[c] \in Nodes
      /\ hp_node[c] \notin Listed
    BY <1>1 DEF DeleteMove, Step, Own, Owners, TypeOK, Nodes
<1>3. /\ failed = FALSE /\ gc_pointer[hp_node[c]] = NULL
      /\ next[hp_node[c]] = NULL
    BY <1>1, <1>2 DEF NeverFails, TypeOK, RetiredNodes, Pointing, Owners, Own, Listed, Labels
<1>4. pointer[hp_node[c]] \in heap /\ pointer[hp_node[c]] # NULL
    BY <1>1, <1>2 DEF ProtectedStaysAllocated, get_pointer, TypeOK
<1>5. /\ pc[c] = "unlinked" /\ pc' = [pc EXCEPT ![c] = "dl_link"]
      /\ gc_pointer' = [gc_pointer EXCEPT ![hp_node[c]] = pointer[hp_node[c]]]
      /\ pointer' = [pointer EXCEPT ![hp_node[c]] = NULL]
      /\ node' = [node EXCEPT ![c] = hp_node[c]]
      /\ failed' = FALSE
      /\ Collecting = {}
      /\ UNCHANGED <<slot, heap, nodes, head, next, hp_node, desired, value,
                     all_haz_ptrs, scan, gc_node, next_gc_node, ppnode,
                     expected>>
    BY <1>2, <1>3, <1>4
    DEF DeleteMove, Step, Goto, CHECK_ASSERT, IsUnqueued, get_pointer, app,
        lists, pointers, locals, gc, hazards, link
<1>6. AreLists' /\ On("free")' = On("free") /\ On("gc")' = On("gc")
    BY <1>1, <1>5, QuietLists
<1>7. \A u \in Threads : Own(u)' = Own(u)
    BY <1>1, <1>2, <1>3, <1>4, <1>5 DEF TypeOK, Labels, Own
<1>8. TypeOK' /\ Labels' /\ Serial'
    BY <1>1, <1>2, <1>3, <1>4, <1>5
    DEF TypeOK, Labels, Links, Serial, Acquiring, Deleting, Collecting
<1>9. ListNodes'
    BY <1>1, <1>2, <1>3, <1>4, <1>5, <1>6 DEF TypeOK, ListNodes, Listed, Nodes
<1>10. Owners'
    BY <1>1, <1>2, <1>3, <1>4, <1>5, <1>6, <1>7 DEF TypeOK, Owners, Listed
<1>11. NodeBoundOnce' /\ Pushed' /\ Popping'
    BY <1>1, <1>2, <1>3, <1>4, <1>5, <1>6
    DEF TypeOK, NodeBoundOnce, Pushed, Popping
<1>12. Pointing'
    BY <1>1, <1>2, <1>3, <1>4, <1>5, <1>6 DEF TypeOK, Pointing, Owners, Own
<1>13. RetiredNodes'
    BY <1>1, <1>2, <1>3, <1>4, <1>5, <1>6
    DEF TypeOK, RetiredNodes, Owners, Own, Listed, Collecting
<1>14. Placed'
    BY <1>1, <1>2, <1>3, <1>4, <1>5
    DEF TypeOK, Placed, ProtectedStaysAllocated, get_pointer, Owners, Own
<1>15. Collection'
    BY <1>1, <1>2, <1>3, <1>4, <1>5, <1>6
    DEF TypeOK, Serial, Collection, Deref
<1>16. Scanned' /\ ProtectedStaysAllocated' /\ NoObjectLost' /\ NeverFails'
    BY <1>1, <1>3, <1>5, <1>6
    DEF TypeOK, Scanned, get_pointer, Collecting, ProtectedStaysAllocated,
        Owners, Own, NoObjectLost, NeverFails, Pushed
<1>17. QED
    BY <1>6, <1>8, <1>9, <1>10, <1>11, <1>12, <1>13, <1>14, <1>15, <1>16
    DEF Inv

\* Delete returns.
LEMMA DeleteCheckStep ==
    ASSUME Inv, NEW c \in Clients, DeleteCheck(c)
    PROVE  Inv'
<1> USE NamesAssumption, MaxNodesAssumption DEF end_node, Threads, Lists,
        Unbound, Settable, ClientLabels, CollectLabels, Private, Bound,
        Retiring, Removing, Removed
<1>1. /\ TypeOK /\ Labels /\ Serial /\ AreLists /\ ListNodes /\ Owners
      /\ NodeBoundOnce /\ Pushed /\ Popping /\ Pointing /\ RetiredNodes /\ Placed
      /\ Collection /\ Scanned /\ ProtectedStaysAllocated /\ NoObjectLost
      /\ NeverFails
    BY DEF Inv
<1>2. failed = FALSE /\ hp_node[c] \in Nodes /\ pointer[hp_node[c]] = NULL
    BY <1>1, ListFacts DEF DeleteCheck, Step, NeverFails, TypeOK, Pushed, Pointing, Owners, Own, Listed, Labels
<1>3. /\ pc[c] = "dl_check" /\ pc' = [pc EXCEPT ![c] = "idle"]
      /\ hp_node' = [hp_node EXCEPT ![c] = NULL]
      /\ failed' = FALSE
      /\ UNCHANGED <<slot, heap, nodes, head, next, pointer, gc_pointer,
                     node, desired, value, all_haz_ptrs, scan, gc_node,
                     next_gc_node, ppnode, expected>>
    BY <1>2
    DEF DeleteCheck, Step, Goto, CHECK_ASSERT, get_pointer, app, lists,
        pointers, locals, gc, hazards, link
<1>4. AreLists' /\ On("free")' = On("free") /\ On("gc")' = On("gc")
    BY <1>1, <1>3, QuietLists
<1>5. \A u \in Threads : Own(u)' = Own(u)
    BY <1>1, <1>2, <1>3 DEF TypeOK, Labels, Own
<1>6. TypeOK'
    BY <1>1, <1>2, <1>3 DEF TypeOK, Labels, Links
<1>7. Labels' /\ Serial'
    BY <1>1, <1>2, <1>3
    DEF TypeOK, Labels, Serial, Acquiring, Deleting, Collecting
<1>8. ListNodes'
    BY <1>1, <1>2, <1>3, <1>4 DEF TypeOK, ListNodes, Listed, Nodes
<1>9. Owners'
    BY <1>1, <1>2, <1>3, <1>4, <1>5 DEF TypeOK, Owners, Listed
<1>10. NodeBoundOnce' /\ Pushed' /\ Popping' /\ Pointing' /\ RetiredNodes'
    BY <1>1, <1>2, <1>3, <1>4
    DEF TypeOK, NodeBoundOnce, Pushed, Popping, Pointing, RetiredNodes
<1>11. Placed'
    BY <1>1, <1>2, <1>3
    DEF TypeOK, Placed, ProtectedStaysAllocated, get_pointer
<1>12. Collection'
    BY <1>1, <1>2, <1>3, <1>4 DEF TypeOK, Serial, Collection, Deref
<1>13. Scanned' /\ ProtectedStaysAllocated' /\ NoObjectLost' /\ NeverFails'
    BY <1>1, <1>2, <1>3, <1>4
    DEF TypeOK, Scanned, get_pointer, ProtectedStaysAllocated, NoObjectLost,
        NeverFails, Pushed
<1>14. QED
    BY <1>4, <1>6, <1>7, <1>8, <1>9, <1>10, <1>11, <1>12, <1>13 DEF Inv

-----------------------------------------------------------------------------

\* The application allocates an object and stores it.
LEMMA PublishStep ==
    ASSUME Inv, Publish
    PROVE  Inv'
<1> USE NamesAssumption, MaxNodesAssumption DEF end_node, Threads, Lists,
        Unbound, Settable, ClientLabels, CollectLabels, Private, Bound,
        Retiring, Removing, Removed
<1>1. /\ TypeOK /\ Labels /\ Serial /\ AreLists /\ ListNodes /\ Owners
      /\ NodeBoundOnce /\ Pushed /\ Popping /\ Pointing /\ RetiredNodes /\ Placed
      /\ Collection /\ Scanned /\ ProtectedStaysAllocated /\ NoObjectLost
      /\ NeverFails
    BY DEF Inv
<1>2. PICK o \in Objects \ heap : slot' = o /\ heap' = heap \cup {o}
    BY DEF Publish
<1>3. /\ slot = NULL /\ slot' = o
      /\ heap' = heap \cup {o}
      /\ UNCHANGED <<nodes, head, next, pointer, gc_pointer, hp_node, pc,
                     node, desired, value, all_haz_ptrs, scan, gc_node,
                     next_gc_node, ppnode, expected, failed>>
    BY <1>2 DEF Publish, app, lists, pointers, locals, gc, hazards, link
<1>4. AreLists' /\ On("free")' = On("free") /\ On("gc")' = On("gc")
    BY <1>1, <1>3, QuietLists
<1>5. \A u \in Threads : Own(u)' = Own(u)
    BY <1>1, <1>2, <1>3 DEF TypeOK, Labels, Own
<1>6. TypeOK' /\ Labels' /\ Serial'
    BY <1>1, <1>2, <1>3
    DEF TypeOK, Labels, Links, Serial, Acquiring, Deleting, Collecting
<1>7. ListNodes'
    BY <1>1, <1>2, <1>3, <1>4 DEF TypeOK, ListNodes, Listed, Nodes
<1>8. Owners'
    BY <1>1, <1>2, <1>3, <1>4, <1>5 DEF TypeOK, Owners, Listed
<1>9. NodeBoundOnce' /\ Pushed' /\ Popping' /\ Pointing' /\ RetiredNodes'
    BY <1>1, <1>2, <1>3, <1>4
    DEF TypeOK, NodeBoundOnce, Pushed, Popping, Pointing, RetiredNodes
<1>10. Placed'
    BY <1>1, <1>2, <1>3
    DEF TypeOK, Placed, ProtectedStaysAllocated, get_pointer
<1>11. Collection'
    BY <1>1, <1>2, <1>3, <1>4 DEF TypeOK, Serial, Collection, Deref
<1>12. Scanned' /\ ProtectedStaysAllocated' /\ NoObjectLost' /\ NeverFails'
    BY <1>1, <1>2, <1>3, <1>4
    DEF TypeOK, Scanned, get_pointer, ProtectedStaysAllocated, NoObjectLost,
        NeverFails, Pushed
<1>13. QED
    BY <1>4, <1>6, <1>7, <1>8, <1>9, <1>10, <1>11, <1>12 DEF Inv

\* The application finds the object still in place, or not.
LEMMA ValidateStep ==
    ASSUME Inv, NEW c \in Clients, Validate(c)
    PROVE  Inv'
<1> USE NamesAssumption, MaxNodesAssumption DEF end_node, Threads, Lists,
        Unbound, Settable, ClientLabels, CollectLabels, Private, Bound,
        Retiring, Removing, Removed
<1>1. /\ TypeOK /\ Labels /\ Serial /\ AreLists /\ ListNodes /\ Owners
      /\ NodeBoundOnce /\ Pushed /\ Popping /\ Pointing /\ RetiredNodes /\ Placed
      /\ Collection /\ Scanned /\ ProtectedStaysAllocated /\ NoObjectLost
      /\ NeverFails
    BY DEF Inv
<1>2. /\ pc[c] = "set"
      /\ pc' = [pc EXCEPT ![c] = IF pointer[hp_node[c]] \in {slot} \ {NULL}
                                THEN "protected" ELSE "bound"]
      /\ UNCHANGED <<slot, heap, nodes, head, next, pointer, gc_pointer,
                     hp_node, node, desired, value, all_haz_ptrs, scan,
                     gc_node, next_gc_node, ppnode, expected, failed>>
    BY
    DEF Validate, Goto, get_pointer, app, lists, pointers, locals, gc,
        hazards, link
<1>3. AreLists' /\ On("free")' = On("free") /\ On("gc")' = On("gc")
    BY <1>1, <1>2, QuietLists
<1>4. \A u \in Threads : Own(u)' = Own(u)
    BY <1>1, <1>2 DEF TypeOK, Labels, Own
<1>5. TypeOK' /\ Labels' /\ Serial'
    BY <1>1, <1>2
    DEF TypeOK, Labels, Links, Serial, Acquiring, Deleting, Collecting
<1>6. ListNodes'
    BY <1>1, <1>2, <1>3 DEF TypeOK, ListNodes, Listed, Nodes
<1>7. Owners'
    BY <1>1, <1>2, <1>3, <1>4 DEF TypeOK, Owners, Listed
<1>8. NodeBoundOnce' /\ Pushed' /\ Popping' /\ Pointing' /\ RetiredNodes'
    BY <1>1, <1>2, <1>3
    DEF TypeOK, NodeBoundOnce, Pushed, Popping, Pointing, RetiredNodes
<1>9. Placed'
    BY <1>1, <1>2
    DEF TypeOK, Placed, ProtectedStaysAllocated, get_pointer, Placed
<1>10. Collection'
    BY <1>1, <1>2, <1>3 DEF TypeOK, Serial, Collection, Deref
<1>11. Scanned' /\ ProtectedStaysAllocated' /\ NoObjectLost' /\ NeverFails'
    BY <1>1, <1>2, <1>3
    DEF TypeOK, Scanned, get_pointer, Placed, ProtectedStaysAllocated,
        NoObjectLost, NeverFails, Pushed
<1>12. QED
    BY <1>3, <1>5, <1>6, <1>7, <1>8, <1>9, <1>10, <1>11 DEF Inv

\* The application unlinks an object that it protects.
LEMMA UnlinkStep ==
    ASSUME Inv, NEW c \in Clients, Unlink(c)
    PROVE  Inv'
<1> USE NamesAssumption, MaxNodesAssumption DEF end_node, Threads, Lists,
        Unbound, Settable, ClientLabels, CollectLabels, Private, Bound,
        Retiring, Removing, Removed
<1>1. /\ TypeOK /\ Labels /\ Serial /\ AreLists /\ ListNodes /\ Owners
      /\ NodeBoundOnce /\ Pushed /\ Popping /\ Pointing /\ RetiredNodes /\ Placed
      /\ Collection /\ Scanned /\ ProtectedStaysAllocated /\ NoObjectLost
      /\ NeverFails
    BY DEF Inv
<1>2. /\ pc[c] = "protected" /\ pc' = [pc EXCEPT ![c] = "unlinked"]
      /\ slot = pointer[hp_node[c]] /\ slot' = NULL
      /\ UNCHANGED <<heap, nodes, head, next, pointer, gc_pointer, hp_node,
                     node, desired, value, all_haz_ptrs, scan, gc_node,
                     next_gc_node, ppnode, expected, failed>>
    BY
    DEF Unlink, Step, Goto, get_pointer, app, lists, pointers, locals, gc,
        hazards, link
<1>3. AreLists' /\ On("free")' = On("free") /\ On("gc")' = On("gc")
    BY <1>1, <1>2, QuietLists
<1>4. \A u \in Threads : Own(u)' = Own(u)
    BY <1>1, <1>2 DEF TypeOK, Labels, Own
<1>5. TypeOK' /\ Labels' /\ Serial'
    BY <1>1, <1>2
    DEF TypeOK, Labels, Links, Serial, Acquiring, Deleting, Collecting
<1>6. ListNodes'
    BY <1>1, <1>2, <1>3 DEF TypeOK, ListNodes, Listed, Nodes
<1>7. Owners'
    BY <1>1, <1>2, <1>3, <1>4 DEF TypeOK, Owners, Listed
<1>8. NodeBoundOnce' /\ Pushed' /\ Popping' /\ Pointing' /\ RetiredNodes'
    BY <1>1, <1>2, <1>3
    DEF TypeOK, NodeBoundOnce, Pushed, Popping, Pointing, RetiredNodes
<1>9. Placed'
    BY <1>1, <1>2 DEF TypeOK, Placed, ProtectedStaysAllocated, get_pointer
<1>10. Collection'
    BY <1>1, <1>2, <1>3 DEF TypeOK, Serial, Collection, Deref
<1>11. Scanned' /\ ProtectedStaysAllocated' /\ NoObjectLost' /\ NeverFails'
    BY <1>1, <1>2, <1>3
    DEF TypeOK, Scanned, get_pointer, ProtectedStaysAllocated, NoObjectLost,
        NeverFails, Pushed
<1>12. QED
    BY <1>3, <1>5, <1>6, <1>7, <1>8, <1>9, <1>10, <1>11 DEF Inv

-----------------------------------------------------------------------------

\* Collect is called; no Delete is running.
LEMMA CollectCheckStep ==
    ASSUME Inv, SerialDelete, NEW g \in Collectors, CollectCheck(g)
    PROVE  Inv'
<1> USE NamesAssumption, MaxNodesAssumption DEF end_node, Threads, Lists,
        Unbound, Settable, ClientLabels, CollectLabels, Private, Bound,
        Retiring, Removing, Removed
<1>1. /\ TypeOK /\ Labels /\ Serial /\ AreLists /\ ListNodes /\ Owners
      /\ NodeBoundOnce /\ Pushed /\ Popping /\ Pointing /\ RetiredNodes /\ Placed
      /\ Collection /\ Scanned /\ ProtectedStaysAllocated /\ NoObjectLost
      /\ NeverFails
    BY DEF Inv
<1>2. /\ pc[g] = "idle" /\ pc' = [pc EXCEPT ![g] = "lock"]
      /\ Deleting = {}
      /\ UNCHANGED <<slot, heap, nodes, head, next, pointer, gc_pointer,
                     hp_node, node, desired, value, all_haz_ptrs, scan,
                     gc_node, next_gc_node, ppnode, expected, failed>>
    BY
    DEF CollectCheck, Step, Goto, app, lists, pointers, locals, gc, hazards,
        link
<1>3. AreLists' /\ On("free")' = On("free") /\ On("gc")' = On("gc")
    BY <1>1, <1>2, QuietLists
<1>4. \A u \in Threads : Own(u)' = Own(u)
    BY <1>1, <1>2 DEF TypeOK, Labels, Own
<1>5. TypeOK' /\ Labels' /\ Serial'
    BY <1>1, <1>2
    DEF TypeOK, Labels, Links, Serial, Acquiring, Deleting, Collecting
<1>6. ListNodes'
    BY <1>1, <1>2, <1>3 DEF TypeOK, ListNodes, Listed, Nodes
<1>7. Owners'
    BY <1>1, <1>2, <1>3, <1>4 DEF TypeOK, Owners, Listed
<1>8. NodeBoundOnce' /\ Pushed' /\ Popping' /\ Pointing' /\ RetiredNodes'
    BY <1>1, <1>2, <1>3
    DEF TypeOK, NodeBoundOnce, Pushed, Popping, Pointing, RetiredNodes
<1>9. Placed'
    BY <1>1, <1>2 DEF TypeOK, Placed, ProtectedStaysAllocated, get_pointer
<1>10. Collection'
    BY <1>1, <1>2, <1>3 DEF TypeOK, Serial, Collection, Deref
<1>11. Scanned' /\ ProtectedStaysAllocated' /\ NoObjectLost' /\ NeverFails'
    BY <1>1, <1>2, <1>3
    DEF TypeOK, Scanned, get_pointer, ProtectedStaysAllocated, NoObjectLost,
        NeverFails, Pushed
<1>12. QED
    BY <1>3, <1>5, <1>6, <1>7, <1>8, <1>9, <1>10, <1>11 DEF Inv

\* Collect has collector_client_lock.
LEMMA CollectLockStep ==
    ASSUME Inv, NEW g \in Collectors, CollectLock(g)
    PROVE  Inv'
<1> USE NamesAssumption, MaxNodesAssumption DEF end_node, Threads, Lists,
        Unbound, Settable, ClientLabels, CollectLabels, Private, Bound,
        Retiring, Removing, Removed
<1>1. /\ TypeOK /\ Labels /\ Serial /\ AreLists /\ ListNodes /\ Owners
      /\ NodeBoundOnce /\ Pushed /\ Popping /\ Pointing /\ RetiredNodes /\ Placed
      /\ Collection /\ Scanned /\ ProtectedStaysAllocated /\ NoObjectLost
      /\ NeverFails
    BY DEF Inv
<1>2. /\ pc[g] = "lock" /\ pc' = [pc EXCEPT ![g] = "scan"]
      /\ \A h \in Collectors : pc[h] \in {"idle", "lock"}
      /\ scan' = nodes
      /\ UNCHANGED <<slot, heap, nodes, head, next, pointer, gc_pointer,
                     hp_node, node, desired, value, all_haz_ptrs, gc_node,
                     next_gc_node, ppnode, expected, failed>>
    BY
    DEF CollectLock, Step, Goto, app, lists, pointers, locals, gc, hazards,
        link
<1>3. AreLists' /\ On("free")' = On("free") /\ On("gc")' = On("gc")
    BY <1>1, <1>2, QuietLists
<1>4. \A u \in Threads : Own(u)' = Own(u)
    BY <1>1, <1>2 DEF TypeOK, Labels, Own
<1>5. TypeOK' /\ Labels' /\ Serial'
    BY <1>1, <1>2
    DEF TypeOK, Labels, Links, Serial, Acquiring, Deleting, Collecting
<1>6. ListNodes'
    BY <1>1, <1>2, <1>3 DEF TypeOK, ListNodes, Listed, Nodes
<1>7. Owners'
    BY <1>1, <1>2, <1>3, <1>4 DEF TypeOK, Owners, Listed
<1>8. NodeBoundOnce' /\ Pushed' /\ Popping' /\ Pointing' /\ RetiredNodes'
    BY <1>1, <1>2, <1>3
    DEF TypeOK, NodeBoundOnce, Pushed, Popping, Pointing, RetiredNodes
<1>9. Placed'
    BY <1>1, <1>2 DEF TypeOK, Placed, ProtectedStaysAllocated, get_pointer
<1>10. Collection'
    BY <1>1, <1>2, <1>3 DEF TypeOK, Serial, Collection, Deref
<1>11. Scanned' /\ ProtectedStaysAllocated' /\ NoObjectLost' /\ NeverFails'
    BY <1>1, <1>2, <1>3
    DEF TypeOK, Scanned, get_pointer, Owners, Own, ProtectedStaysAllocated,
        NoObjectLost, NeverFails, Pushed
<1>12. QED
    BY <1>3, <1>5, <1>6, <1>7, <1>8, <1>9, <1>10, <1>11 DEF Inv

\* Collect reads one hazard pointer.
LEMMA CollectScanStep ==
    ASSUME Inv, NEW g \in Collectors, CollectScan(g)
    PROVE  Inv'
<1> USE NamesAssumption, MaxNodesAssumption DEF end_node, Threads, Lists,
        Unbound, Settable, ClientLabels, CollectLabels, Private, Bound,
        Retiring, Removing, Removed
<1>1. /\ TypeOK /\ Labels /\ Serial /\ AreLists /\ ListNodes /\ Owners
      /\ NodeBoundOnce /\ Pushed /\ Popping /\ Pointing /\ RetiredNodes /\ Placed
      /\ Collection /\ Scanned /\ ProtectedStaysAllocated /\ NoObjectLost
      /\ NeverFails
    BY DEF Inv
<1>2. /\ pc[g] = "scan" /\ scan # end_node /\ scan \in Nodes
      /\ all_haz_ptrs' = all_haz_ptrs \cup ({pointer[scan]} \ {NULL})
      /\ scan' = scan - 1
      /\ UNCHANGED <<slot, heap, nodes, head, next, pointer, gc_pointer,
                     hp_node, pc, node, desired, value, gc_node,
                     next_gc_node, ppnode, expected, failed>>
    BY <1>1
    DEF CollectScan, HazardOf, TypeOK, Nodes, app, lists, pointers, locals,
        gc, hazards, link
<1>3. AreLists' /\ On("free")' = On("free") /\ On("gc")' = On("gc")
    BY <1>1, <1>2, QuietLists
<1>4. \A u \in Threads : Own(u)' = Own(u)
    BY <1>1, <1>2 DEF TypeOK, Labels, Own
<1>5. TypeOK' /\ Labels' /\ Serial'
    BY <1>1, <1>2
    DEF TypeOK, Labels, Links, Nodes, Serial, Acquiring, Deleting, Collecting
<1>6. ListNodes'
    BY <1>1, <1>2, <1>3 DEF TypeOK, ListNodes, Listed, Nodes
<1>7. Owners'
    BY <1>1, <1>2, <1>3, <1>4 DEF TypeOK, Owners, Listed
<1>8. NodeBoundOnce' /\ Pushed' /\ Popping' /\ Pointing' /\ RetiredNodes'
    BY <1>1, <1>2, <1>3
    DEF TypeOK, NodeBoundOnce, Pushed, Popping, Pointing, RetiredNodes
<1>9. Placed'
    BY <1>1, <1>2 DEF TypeOK, Placed, ProtectedStaysAllocated, get_pointer
<1>10. Collection'
    BY <1>1, <1>2, <1>3 DEF TypeOK, Serial, Collection, Deref
<1>11. \A h \in Collectors :
          /\ pc'[h] = pc[h]
          /\ pc[h] \notin {"idle", "lock"} => pc[h] = "scan"
    BY <1>1, <1>2 DEF Serial
<1>12. \A c \in Clients : pc[c] \in {"protected", "unlinked"} =>
          get_pointer(c) # NULL /\ hp_node[c] \in Nodes
    BY <1>1 DEF ProtectedStaysAllocated, TypeOK, Owners, Own, Nodes
<1>13. Scanned'
    BY <1>1, <1>2, <1>11, <1>12 DEF TypeOK, Scanned, get_pointer, Nodes
<1>14. ProtectedStaysAllocated' /\ NoObjectLost' /\ NeverFails'
    BY <1>1, <1>2, <1>3, <1>11, <1>12
    DEF TypeOK, ProtectedStaysAllocated, get_pointer, NoObjectLost,
        NeverFails, Pushed
<1>15. QED
    BY <1>3, <1>5, <1>6, <1>7, <1>8, <1>9, <1>10, <1>11, <1>12, <1>13, <1>14
    DEF Inv

\* Collect reads the head of the gc list.
LEMMA CollectHeadStep ==
    ASSUME Inv, NEW g \in Collectors, CollectHead(g)
    PROVE  Inv'
<1> USE NamesAssumption, MaxNodesAssumption DEF end_node, Threads, Lists,
        Unbound, Settable, ClientLabels, CollectLabels, Private, Bound,
        Retiring, Removing, Removed
<1>1. /\ TypeOK /\ Labels /\ Serial /\ AreLists /\ ListNodes /\ Owners
      /\ NodeBoundOnce /\ Pushed /\ Popping /\ Pointing /\ RetiredNodes /\ Placed
      /\ Collection /\ Scanned /\ ProtectedStaysAllocated /\ NoObjectLost
      /\ NeverFails
    BY DEF Inv
<1>2. head["gc"] \in On("gc") \cup {end_node} /\ On("gc") \subseteq Nodes
    BY <1>1, ListFacts DEF Lists
<1>3. /\ pc[g] = "scan" /\ pc' = [pc EXCEPT ![g] = "gc_node"]
      /\ scan = end_node
      /\ gc_node' = head["gc"]
      /\ UNCHANGED <<slot, heap, nodes, head, next, pointer, gc_pointer,
                     hp_node, node, desired, value, all_haz_ptrs, scan,
                     next_gc_node, ppnode, expected, failed>>
    BY <1>2
    DEF CollectHead, Step, Goto, app, lists, pointers, locals, gc, hazards,
        link
<1>4. AreLists' /\ On("free")' = On("free") /\ On("gc")' = On("gc")
    BY <1>1, <1>3, QuietLists
<1>5. \A u \in Threads : Own(u)' = Own(u)
    BY <1>1, <1>2, <1>3 DEF TypeOK, Labels, Serial, Own
<1>6. TypeOK' /\ Labels' /\ Serial'
    BY <1>1, <1>2, <1>3
    DEF TypeOK, Labels, Links, Serial, Acquiring, Deleting, Collecting
<1>7. ListNodes'
    BY <1>1, <1>2, <1>3, <1>4 DEF TypeOK, ListNodes, Listed, Nodes
<1>8. Owners'
    BY <1>1, <1>2, <1>3, <1>4, <1>5 DEF TypeOK, Owners, Listed
<1>9. NodeBoundOnce' /\ Pushed' /\ Popping' /\ Pointing' /\ RetiredNodes'
    BY <1>1, <1>2, <1>3, <1>4
    DEF TypeOK, NodeBoundOnce, Pushed, Popping, Serial, Pointing,
        RetiredNodes
<1>10. Placed'
    BY <1>1, <1>2, <1>3
    DEF TypeOK, Placed, ProtectedStaysAllocated, get_pointer
<1>11. Collection'
    BY <1>1, <1>2, <1>3, <1>4 DEF TypeOK, Serial, Collection, Deref
<1>12. Scanned' /\ ProtectedStaysAllocated' /\ NoObjectLost' /\ NeverFails'
    BY <1>1, <1>3, <1>4
    DEF TypeOK, Scanned, get_pointer, Serial, ProtectedStaysAllocated,
        NoObjectLost, NeverFails, Pushed
<1>13. QED
    BY <1>4, <1>6, <1>7, <1>8, <1>9, <1>10, <1>11, <1>12 DEF Inv

\* Collect leaves an object that is protected.
LEMMA CollectSkipStep ==
    ASSUME Inv, NEW g \in Collectors, CollectSkip(g)
    PROVE  Inv'
<1> USE NamesAssumption, MaxNodesAssumption DEF end_node, Threads, Lists,
        Unbound, Settable, ClientLabels, CollectLabels, Private, Bound,
        Retiring, Removing, Removed
<1>1. /\ TypeOK /\ Labels /\ Serial /\ AreLists /\ ListNodes /\ Owners
      /\ NodeBoundOnce /\ Pushed /\ Popping /\ Pointing /\ RetiredNodes /\ Placed
      /\ Collection /\ Scanned /\ ProtectedStaysAllocated /\ NoObjectLost
      /\ NeverFails
    BY DEF Inv
<1>2. /\ gc_node \in On("gc") /\ gc_node \in Nodes /\ pc[g] = "gc_node"
      /\ next[gc_node] \in On("gc") \cup {end_node} /\ On("gc") \subseteq Nodes
    BY <1>1, ListFacts DEF Lists, CollectSkip, Collection, Nodes
<1>3. failed = FALSE /\ pointer[gc_node] = NULL
    BY <1>1, <1>2 DEF NeverFails, TypeOK, Pointing, Owners, Own, Listed, Labels
<1>4. /\ pc[g] = "gc_node"
      /\ gc_node' = next[gc_node]
      /\ failed' = FALSE
      /\ UNCHANGED <<slot, heap, nodes, head, next, pointer, gc_pointer,
                     hp_node, pc, node, desired, value, all_haz_ptrs, scan,
                     next_gc_node, ppnode, expected>>
    BY <1>2, <1>3
    DEF CollectSkip, CHECK_ASSERT, app, lists, pointers, locals, gc, hazards,
        link
<1>5. AreLists' /\ On("free")' = On("free") /\ On("gc")' = On("gc")
    BY <1>1, <1>4, QuietLists
<1>6. \A u \in Threads : Own(u)' = Own(u)
    BY <1>1, <1>2, <1>3, <1>4 DEF TypeOK, Labels, Serial, Own
<1>7. TypeOK' /\ Labels' /\ Serial'
    BY <1>1, <1>2, <1>3, <1>4
    DEF TypeOK, Labels, Links, Serial, Acquiring, Deleting, Collecting
<1>8. ListNodes'
    BY <1>1, <1>2, <1>3, <1>4, <1>5 DEF TypeOK, ListNodes, Listed, Nodes
<1>9. Owners'
    BY <1>1, <1>2, <1>3, <1>4, <1>5, <1>6 DEF TypeOK, Owners, Listed
<1>10. NodeBoundOnce' /\ Pushed' /\ Popping' /\ Pointing' /\ RetiredNodes'
    BY <1>1, <1>2, <1>3, <1>4, <1>5
    DEF TypeOK, NodeBoundOnce, Pushed, Popping, Serial, Pointing,
        RetiredNodes
<1>11. Placed'
    BY <1>1, <1>2, <1>3, <1>4
    DEF TypeOK, Placed, ProtectedStaysAllocated, get_pointer
<1>12. Collection'
    BY <1>1, <1>2, <1>3, <1>4, <1>5 DEF TypeOK, Serial, Collection, Deref
<1>13. Scanned' /\ ProtectedStaysAllocated' /\ NoObjectLost' /\ NeverFails'
    BY <1>1, <1>3, <1>4, <1>5
    DEF TypeOK, Scanned, get_pointer, Serial, ProtectedStaysAllocated,
        NoObjectLost, NeverFails, Pushed
<1>14. QED
    BY <1>5, <1>7, <1>8, <1>9, <1>10, <1>11, <1>12, <1>13 DEF Inv

\* Collect deletes an object that nobody protects.
LEMMA CollectDeleteStep ==
    ASSUME Inv, NEW g \in Collectors, CollectDelete(g)
    PROVE  Inv'
<1> USE NamesAssumption, MaxNodesAssumption DEF end_node, Threads, Lists,
        Unbound, Settable, ClientLabels, CollectLabels, Private, Bound,
        Retiring, Removing, Removed
<1>1. /\ TypeOK /\ Labels /\ Serial /\ AreLists /\ ListNodes /\ Owners
      /\ NodeBoundOnce /\ Pushed /\ Popping /\ Pointing /\ RetiredNodes /\ Placed
      /\ Collection /\ Scanned /\ ProtectedStaysAllocated /\ NoObjectLost
      /\ NeverFails
    BY DEF Inv
<1>2. /\ gc_node \in On("gc") /\ gc_node \in Nodes /\ pc[g] = "gc_node"
      /\ next[gc_node] \in On("gc") \cup {end_node} /\ On("gc") \subseteq Nodes
    BY <1>1, ListFacts DEF Lists, CollectDelete, Step, Collection, Nodes
<1>3. failed = FALSE /\ pointer[gc_node] = NULL
    BY <1>1, <1>2 DEF NeverFails, TypeOK, Pointing, Owners, Own, Listed, Labels
<1>4. gc_pointer[gc_node] # NULL /\ gc_pointer[gc_node] \in heap
    BY <1>1, <1>2 DEF RetiredNodes, Serial, Placed
<1>5. /\ pc[g] = "gc_node" /\ pc' = [pc EXCEPT ![g] = "rm_find"]
      /\ heap' = heap \ {gc_pointer[gc_node]}
      /\ gc_pointer' = [gc_pointer EXCEPT ![gc_node] = NULL]
      /\ next_gc_node' = next[gc_node]
      /\ failed' = FALSE
      /\ gc_pointer[gc_node] \notin all_haz_ptrs
      /\ UNCHANGED <<slot, nodes, head, next, pointer, hp_node, node,
                     desired, value, all_haz_ptrs, scan, gc_node, ppnode,
                     expected>>
    BY <1>2, <1>3, <1>4
    DEF CollectDelete, Collected, Step, Goto, CHECK_ASSERT, app, lists,
        pointers, locals, gc, hazards, link
<1>6. AreLists' /\ On("free")' = On("free") /\ On("gc")' = On("gc")
    BY <1>1, <1>5, QuietLists
<1>7. \A u \in Threads : Own(u)' = Own(u)
    BY <1>1, <1>2, <1>3, <1>4, <1>5 DEF TypeOK, Labels, Own
<1>8. TypeOK' /\ Labels' /\ Serial'
    BY <1>1, <1>2, <1>3, <1>4, <1>5
    DEF TypeOK, Labels, Links, Serial, Acquiring, Deleting, Collecting
<1>9. ListNodes'
    BY <1>1, <1>2, <1>3, <1>4, <1>5, <1>6 DEF TypeOK, ListNodes, Listed, Nodes
<1>10. Owners'
    BY <1>1, <1>2, <1>3, <1>4, <1>5, <1>6, <1>7 DEF TypeOK, Owners, Listed
<1>11. NodeBoundOnce' /\ Pushed' /\ Popping' /\ Pointing' /\ RetiredNodes'
    BY <1>1, <1>2, <1>3, <1>4, <1>5, <1>6
    DEF TypeOK, NodeBoundOnce, Pushed, Popping, Pointing, RetiredNodes,
        Serial, Owners, Own, Listed
<1>12. Placed'
    BY <1>1, <1>2, <1>3, <1>4, <1>5
    DEF TypeOK, Placed, ProtectedStaysAllocated, get_pointer, Serial
<1>13. Collection'
    BY <1>1, <1>2, <1>3, <1>4, <1>5, <1>6
    DEF TypeOK, Serial, Collection, Deref
<1>14. Scanned' /\ ProtectedStaysAllocated' /\ NoObjectLost' /\ NeverFails'
    BY <1>1, <1>2, <1>3, <1>4, <1>5, <1>6, <1>7
    DEF TypeOK, Labels, Scanned, get_pointer, ProtectedStaysAllocated,
        Serial, Owners, Own, NoObjectLost, NeverFails, Pushed, Placed
<1>15. QED
    BY <1>6, <1>8, <1>9, <1>10, <1>11, <1>12, <1>13, <1>14 DEF Inv

\* Collect has reached the end of the gc list.
LEMMA CollectReturnStep ==
    ASSUME Inv, NEW g \in Collectors, CollectReturn(g)
    PROVE  Inv'
<1> USE NamesAssumption, MaxNodesAssumption DEF end_node, Threads, Lists,
        Unbound, Settable, ClientLabels, CollectLabels, Private, Bound,
        Retiring, Removing, Removed
<1>1. /\ TypeOK /\ Labels /\ Serial /\ AreLists /\ ListNodes /\ Owners
      /\ NodeBoundOnce /\ Pushed /\ Popping /\ Pointing /\ RetiredNodes /\ Placed
      /\ Collection /\ Scanned /\ ProtectedStaysAllocated /\ NoObjectLost
      /\ NeverFails
    BY DEF Inv
<1>2. failed = FALSE /\ gc_node # NULL
    BY <1>1, ListFacts DEF Lists, CollectReturn, Step, Collection, NeverFails, TypeOK, Nodes
<1>3. /\ pc[g] = "gc_node" /\ pc' = [pc EXCEPT ![g] = "idle"]
      /\ all_haz_ptrs' = {} /\ gc_node' = end_node
      /\ failed' = FALSE
      /\ UNCHANGED <<slot, heap, nodes, head, next, pointer, gc_pointer,
                     hp_node, node, desired, value, scan, next_gc_node,
                     ppnode, expected>>
    BY <1>2
    DEF CollectReturn, Step, Goto, CHECK_ASSERT, app, lists, pointers,
        locals, gc, hazards, link
<1>4. AreLists' /\ On("free")' = On("free") /\ On("gc")' = On("gc")
    BY <1>1, <1>3, QuietLists
<1>5. \A u \in Threads : Own(u)' = Own(u)
    BY <1>1, <1>2, <1>3 DEF TypeOK, Labels, Serial, Own
<1>6. TypeOK' /\ Labels' /\ Serial'
    BY <1>1, <1>2, <1>3
    DEF TypeOK, Labels, Links, Serial, Acquiring, Deleting, Collecting
<1>7. ListNodes'
    BY <1>1, <1>2, <1>3, <1>4 DEF TypeOK, ListNodes, Listed, Nodes
<1>8. Owners'
    BY <1>1, <1>2, <1>3, <1>4, <1>5 DEF TypeOK, Owners, Listed
<1>9. NodeBoundOnce' /\ Pushed' /\ Popping' /\ Pointing' /\ RetiredNodes'
    BY <1>1, <1>2, <1>3, <1>4
    DEF TypeOK, NodeBoundOnce, Pushed, Popping, Serial, Pointing,
        RetiredNodes
<1>10. Placed'
    BY <1>1, <1>2, <1>3
    DEF TypeOK, Placed, ProtectedStaysAllocated, get_pointer
<1>11. Collection'
    BY <1>1, <1>2, <1>3, <1>4 DEF TypeOK, Serial, Collection, Deref
<1>12. Scanned' /\ ProtectedStaysAllocated' /\ NoObjectLost' /\ NeverFails'
    BY <1>1, <1>2, <1>3, <1>4
    DEF TypeOK, Scanned, get_pointer, Serial, ProtectedStaysAllocated,
        NoObjectLost, NeverFails, Pushed
<1>13. QED
    BY <1>4, <1>6, <1>7, <1>8, <1>9, <1>10, <1>11, <1>12 DEF Inv

\* remove finds the link to the node.
LEMMA RemoveFindStep ==
    ASSUME Inv, NEW g \in Collectors, RemoveFind(g)
    PROVE  Inv'
<1> USE NamesAssumption, MaxNodesAssumption DEF end_node, Threads, Lists,
        Unbound, Settable, ClientLabels, CollectLabels, Private, Bound,
        Retiring, Removing, Removed
<1>1. /\ TypeOK /\ Labels /\ Serial /\ AreLists /\ ListNodes /\ Owners
      /\ NodeBoundOnce /\ Pushed /\ Popping /\ Pointing /\ RetiredNodes /\ Placed
      /\ Collection /\ Scanned /\ ProtectedStaysAllocated /\ NoObjectLost
      /\ NeverFails
    BY DEF Inv
<1>2. /\ pc[g] = "rm_find" /\ gc_node \in On("gc") /\ On("gc") \subseteq Nodes
      /\ gc_node = head["gc"] \/ \E p \in On("gc") : next[p] = gc_node
    BY <1>1, ListFacts DEF Lists, RemoveFind, Collection
<1>3. /\ LinksTo(gc_node) # {}
      /\ \A p \in LinksTo(gc_node) :
             p \in On("gc") \cup {NULL} /\ Deref(p) = gc_node
    BY <1>2 DEF LinksTo, Deref, Nodes
<1>4. /\ pc[g] = "rm_find" /\ pc' = [pc EXCEPT ![g] = "rm_read"]
      /\ ppnode' \in LinksTo(gc_node)
      /\ UNCHANGED <<slot, heap, nodes, head, next, pointer, gc_pointer,
                     hp_node, node, desired, value, all_haz_ptrs, scan,
                     gc_node, next_gc_node, expected, failed>>
    BY <1>2, <1>3
    DEF RemoveFind, Goto, app, lists, pointers, locals, gc, hazards, link
<1>5. AreLists' /\ On("free")' = On("free") /\ On("gc")' = On("gc")
    BY <1>1, <1>4, QuietLists
<1>6. \A u \in Threads : Own(u)' = Own(u)
    BY <1>1, <1>2, <1>3, <1>4 DEF TypeOK, Labels, Own
<1>7. TypeOK' /\ Labels' /\ Serial'
    BY <1>1, <1>2, <1>3, <1>4
    DEF TypeOK, Labels, Links, Serial, Acquiring, Deleting, Collecting
<1>8. ListNodes'
    BY <1>1, <1>2, <1>3, <1>4, <1>5 DEF TypeOK, ListNodes, Listed, Nodes
<1>9. Owners'
    BY <1>1, <1>2, <1>3, <1>4, <1>5, <1>6 DEF TypeOK, Owners, Listed
<1>10. NodeBoundOnce' /\ Pushed' /\ Popping' /\ Pointing' /\ RetiredNodes'
    BY <1>1, <1>2, <1>3, <1>4, <1>5
    DEF TypeOK, NodeBoundOnce, Pushed, Popping, Pointing, RetiredNodes
<1>11. Placed'
    BY <1>1, <1>2, <1>3, <1>4
    DEF TypeOK, Placed, ProtectedStaysAllocated, get_pointer
<1>12. Collection'
    BY <1>1, <1>2, <1>3, <1>4, <1>5 DEF TypeOK, Serial, Collection, Deref
<1>13. Scanned' /\ ProtectedStaysAllocated' /\ NoObjectLost' /\ NeverFails'
    BY <1>1, <1>4, <1>5
    DEF TypeOK, Scanned, get_pointer, ProtectedStaysAllocated, NoObjectLost,
        NeverFails, Pushed
<1>14. QED
    BY <1>5, <1>7, <1>8, <1>9, <1>10, <1>11, <1>12, <1>13 DEF Inv

\* remove reads the link again.
LEMMA RemoveReadStep ==
    ASSUME Inv, NEW g \in Collectors, RemoveRead(g)
    PROVE  Inv'
<1> USE NamesAssumption, MaxNodesAssumption DEF end_node, Threads, Lists,
        Unbound, Settable, ClientLabels, CollectLabels, Private, Bound,
        Retiring, Removing, Removed
<1>1. /\ TypeOK /\ Labels /\ Serial /\ AreLists /\ ListNodes /\ Owners
      /\ NodeBoundOnce /\ Pushed /\ Popping /\ Pointing /\ RetiredNodes /\ Placed
      /\ Collection /\ Scanned /\ ProtectedStaysAllocated /\ NoObjectLost
      /\ NeverFails
    BY DEF Inv
<1>2. gc_node \in On("gc") /\ On("gc") \subseteq Nodes /\ Deref(ppnode) = gc_node
    BY <1>1, ListFacts DEF Lists, RemoveRead, Step, Collection
<1>3. /\ pc[g] = "rm_read" /\ pc' = [pc EXCEPT ![g] = "rm_swap"]
      /\ expected' = gc_node
      /\ UNCHANGED <<slot, heap, nodes, head, next, pointer, gc_pointer,
                     hp_node, node, desired, value, all_haz_ptrs, scan,
                     gc_node, next_gc_node, ppnode, failed>>
    BY <1>2
    DEF RemoveRead, Step, Goto, Collection, app, lists, pointers, locals, gc,
        hazards, link
<1>4. AreLists' /\ On("free")' = On("free") /\ On("gc")' = On("gc")
    BY <1>1, <1>3, QuietLists
<1>5. \A u \in Threads : Own(u)' = Own(u)
    BY <1>1, <1>2, <1>3 DEF TypeOK, Labels, Own
<1>6. TypeOK' /\ Labels' /\ Serial'
    BY <1>1, <1>2, <1>3
    DEF TypeOK, Labels, Links, Serial, Acquiring, Deleting, Collecting
<1>7. ListNodes'
    BY <1>1, <1>2, <1>3, <1>4 DEF TypeOK, ListNodes, Listed, Nodes
<1>8. Owners'
    BY <1>1, <1>2, <1>3, <1>4, <1>5 DEF TypeOK, Owners, Listed
<1>9. NodeBoundOnce' /\ Pushed' /\ Popping' /\ Pointing' /\ RetiredNodes'
    BY <1>1, <1>2, <1>3, <1>4
    DEF TypeOK, NodeBoundOnce, Pushed, Popping, Pointing, RetiredNodes
<1>10. Placed'
    BY <1>1, <1>2, <1>3
    DEF TypeOK, Placed, ProtectedStaysAllocated, get_pointer
<1>11. Collection'
    BY <1>1, <1>2, <1>3, <1>4 DEF TypeOK, Serial, Collection, Deref
<1>12. Scanned' /\ ProtectedStaysAllocated' /\ NoObjectLost' /\ NeverFails'
    BY <1>1, <1>3, <1>4
    DEF TypeOK, Scanned, get_pointer, ProtectedStaysAllocated, NoObjectLost,
        NeverFails, Pushed
<1>13. QED
    BY <1>4, <1>6, <1>7, <1>8, <1>9, <1>10, <1>11, <1>12 DEF Inv

\* remove takes the first node from the gc list.
LEMMA RemoveFirstStep ==
    ASSUME Inv, NEW g \in Collectors, RemoveSwap(g), ppnode = NULL
    PROVE  Inv'
<1> USE NamesAssumption, MaxNodesAssumption DEF end_node, Threads, Lists,
        Unbound, Settable, ClientLabels, CollectLabels, Private, Bound,
        Retiring, Removing, Removed
<1>1. /\ TypeOK /\ Labels /\ Serial /\ AreLists /\ ListNodes /\ Owners
      /\ NodeBoundOnce /\ Pushed /\ Popping /\ Pointing /\ RetiredNodes /\ Placed
      /\ Collection /\ Scanned /\ ProtectedStaysAllocated /\ NoObjectLost
      /\ NeverFails
    BY DEF Inv
<1>2. /\ pc[g] = "rm_swap" /\ expected = gc_node /\ Deref(ppnode) = gc_node
      /\ gc_node \in On("gc") /\ On("gc") \subseteq Nodes
      /\ next[gc_node] \in (On("gc") \cup {end_node}) \ {gc_node}
    BY <1>1, ListFacts DEF Lists, RemoveSwap, Collection
<1>3. /\ pc[g] = "rm_swap" /\ pc' = [pc EXCEPT ![g] = "rm_clear"]
      /\ head["gc"] = gc_node
      /\ head' = [head EXCEPT !["gc"] = next[gc_node]]
      /\ ppnode' = NULL /\ expected' = NULL
      /\ UNCHANGED <<slot, heap, nodes, next, pointer, gc_pointer, hp_node,
                     node, desired, value, all_haz_ptrs, scan, gc_node,
                     next_gc_node, failed>>
    BY <1>2
    DEF RemoveSwap, Goto, Deref, app, lists, pointers, locals, gc, hazards,
        link
<1>4. /\ AreLists' /\ On("free")' = On("free")
      /\ On("gc")' = On("gc") \ {gc_node}
    BY <1>1, <1>2, <1>3, PopLists
<1>5. \A u \in Threads : Own(u)' = IF u = g THEN gc_node ELSE Own(u)
    BY <1>1, <1>2, <1>3 DEF TypeOK, Labels, Serial, Own
<1>6. TypeOK' /\ Labels' /\ Serial'
    BY <1>1, <1>2, <1>3
    DEF TypeOK, Labels, Links, Serial, Acquiring, Deleting, Collecting
<1>7. ListNodes'
    BY <1>1, <1>2, <1>3, <1>4 DEF TypeOK, ListNodes, Listed, Nodes
<1>8. Owners'
    BY <1>1, <1>2, <1>3, <1>4, <1>5 DEF TypeOK, Owners, Listed, ListNodes
<1>9. NodeBoundOnce' /\ Pushed' /\ Popping' /\ Pointing' /\ RetiredNodes'
    BY <1>1, <1>2, <1>3, <1>4
    DEF TypeOK, NodeBoundOnce, Pushed, Popping, Serial, Deleting, Collecting,
        Pointing, RetiredNodes
<1>10. Placed'
    BY <1>1, <1>2, <1>3
    DEF TypeOK, Placed, ProtectedStaysAllocated, get_pointer
<1>11. Collection'
    BY <1>1, <1>2, <1>3, <1>4 DEF TypeOK, Serial, Collection, Deref
<1>12. Scanned' /\ ProtectedStaysAllocated' /\ NoObjectLost' /\ NeverFails'
    BY <1>1, <1>3, <1>4
    DEF TypeOK, Scanned, get_pointer, ProtectedStaysAllocated, NoObjectLost,
        NeverFails, Pushed, RetiredNodes
<1>13. QED
    BY <1>4, <1>6, <1>7, <1>8, <1>9, <1>10, <1>11, <1>12 DEF Inv

\* remove takes any other node from the gc list.
LEMMA RemoveOtherStep ==
    ASSUME Inv, NEW g \in Collectors, RemoveSwap(g), ppnode # NULL
    PROVE  Inv'
<1> USE NamesAssumption, MaxNodesAssumption DEF end_node, Threads, Lists,
        Unbound, Settable, ClientLabels, CollectLabels, Private, Bound,
        Retiring, Removing, Removed
<1>1. /\ TypeOK /\ Labels /\ Serial /\ AreLists /\ ListNodes /\ Owners
      /\ NodeBoundOnce /\ Pushed /\ Popping /\ Pointing /\ RetiredNodes /\ Placed
      /\ Collection /\ Scanned /\ ProtectedStaysAllocated /\ NoObjectLost
      /\ NeverFails
    BY DEF Inv
<1>2. /\ pc[g] = "rm_swap" /\ expected = gc_node /\ Deref(ppnode) = gc_node
      /\ gc_node \in On("gc") /\ On("gc") \subseteq Nodes
      /\ next[gc_node] \in (On("gc") \cup {end_node}) \ {gc_node}
    BY <1>1, ListFacts DEF Lists, RemoveSwap, Collection
<1>3. ppnode \in On("gc") /\ next[ppnode] = gc_node
    BY <1>1, <1>2 DEF Collection, Deref
<1>4. /\ pc[g] = "rm_swap" /\ pc' = [pc EXCEPT ![g] = "rm_clear"]
      /\ next' = [next EXCEPT ![ppnode] = next[gc_node]]
      /\ ppnode' = NULL /\ expected' = NULL
      /\ UNCHANGED <<slot, heap, nodes, head, pointer, gc_pointer, hp_node,
                     node, desired, value, all_haz_ptrs, scan, gc_node,
                     next_gc_node, failed>>
    BY <1>2, <1>3
    DEF RemoveSwap, Goto, Deref, app, lists, pointers, locals, gc, hazards,
        link
<1>5. /\ AreLists' /\ On("free")' = On("free")
      /\ On("gc")' = On("gc") \ {gc_node}
    <2>1. /\ head' = head /\ next'[ppnode] = next[next[ppnode]]
          /\ \A n \in Listed \ {ppnode} : next'[n] = next[n]
        BY <1>1, <1>2, <1>3, <1>4, ListFacts DEF TypeOK, Listed
    <2>2. On("free") \cap On("gc") = {} /\ next[ppnode] \in Nodes
        BY <1>1, <1>2, <1>3 DEF ListNodes
    <2>3. QED
        BY <1>1, <1>3, <2>1, <2>2, RemoveLists
<1>6. \A u \in Threads : Own(u)' = IF u = g THEN gc_node ELSE Own(u)
    BY <1>1, <1>2, <1>3, <1>4 DEF TypeOK, Labels, Serial, Own
<1>7. TypeOK' /\ Labels' /\ Serial'
    BY <1>1, <1>2, <1>3, <1>4
    DEF TypeOK, Labels, Links, Serial, Acquiring, Deleting, Collecting
<1>8. ListNodes'
    BY <1>1, <1>2, <1>3, <1>4, <1>5 DEF TypeOK, ListNodes, Listed, Nodes
<1>9. Owners'
    BY <1>1, <1>2, <1>3, <1>4, <1>5, <1>6
    DEF TypeOK, Owners, Listed, ListNodes
<1>10. NodeBoundOnce' /\ Pushed'
    BY <1>1, <1>2, <1>3, <1>4, <1>5
    DEF TypeOK, NodeBoundOnce, Pushed, Serial, Deleting, Collecting
<1>11. Popping'
    BY <1>1, <1>2, <1>3, <1>4, <1>5 DEF TypeOK, Popping, ListNodes, Nodes
<1>12. Pointing'
    BY <1>1, <1>2, <1>3, <1>4, <1>5 DEF TypeOK, Pointing, Owners, Own, Listed
<1>13. RetiredNodes'
    BY <1>1, <1>2, <1>3, <1>4, <1>5 DEF TypeOK, RetiredNodes, Serial
<1>14. Placed'
    BY <1>1, <1>2, <1>3, <1>4
    DEF TypeOK, Placed, ProtectedStaysAllocated, get_pointer
<1>15. Collection'
    BY <1>1, <1>2, <1>3, <1>4, <1>5 DEF TypeOK, Serial, Collection, Deref
<1>16. Scanned' /\ ProtectedStaysAllocated' /\ NoObjectLost' /\ NeverFails'
    BY <1>1, <1>4, <1>5
    DEF TypeOK, Scanned, get_pointer, ProtectedStaysAllocated, NoObjectLost,
        NeverFails, Pushed, RetiredNodes
<1>17. QED
    BY <1>5, <1>7, <1>8, <1>9, <1>10, <1>11, <1>12, <1>13, <1>14, <1>15,
       <1>16
    DEF Inv

\* remove clears the link of the node.
LEMMA RemoveClearStep ==
    ASSUME Inv, NEW g \in Collectors, RemoveClear(g)
    PROVE  Inv'
<1> USE NamesAssumption, MaxNodesAssumption DEF end_node, Threads, Lists,
        Unbound, Settable, ClientLabels, CollectLabels, Private, Bound,
        Retiring, Removing, Removed
<1>1. /\ TypeOK /\ Labels /\ Serial /\ AreLists /\ ListNodes /\ Owners
      /\ NodeBoundOnce /\ Pushed /\ Popping /\ Pointing /\ RetiredNodes /\ Placed
      /\ Collection /\ Scanned /\ ProtectedStaysAllocated /\ NoObjectLost
      /\ NeverFails
    BY DEF Inv
<1>2. /\ gc_node = Own(g) /\ gc_node \in Nodes
      /\ gc_node \in 1..nodes /\ gc_node \notin Listed
    <2>1. pc[g] \in Removed /\ gc_node = Own(g)
        BY <1>1 DEF RemoveClear, Step, Own, Pushed
    <2>2. Own(g) \in 1..nodes /\ Own(g) \notin Listed
        BY <1>1, <2>1 DEF Owners
    <2>3. QED
        BY <1>1, <2>1, <2>2 DEF TypeOK, Nodes
<1>3. /\ pc[g] = "rm_clear" /\ pc' = [pc EXCEPT ![g] = "cf_link"]
      /\ next' = [next EXCEPT ![gc_node] = NULL]
      /\ node' = [node EXCEPT ![g] = gc_node]
      /\ UNCHANGED <<slot, heap, nodes, head, pointer, gc_pointer, hp_node,
                     desired, value, all_haz_ptrs, scan, gc_node,
                     next_gc_node, ppnode, expected, failed>>
    BY <1>2
    DEF RemoveClear, Step, Goto, app, lists, pointers, locals, gc, hazards,
        link
<1>4. AreLists' /\ On("free")' = On("free") /\ On("gc")' = On("gc")
    BY <1>1, <1>2, <1>3, FrameLists
<1>5. \A u \in Threads : Own(u)' = Own(u)
    BY <1>1, <1>2, <1>3 DEF TypeOK, Labels, Own
<1>6. TypeOK' /\ Labels' /\ Serial'
    BY <1>1, <1>2, <1>3
    DEF TypeOK, Labels, Links, Serial, Acquiring, Deleting, Collecting
<1>7. ListNodes'
    BY <1>1, <1>2, <1>3, <1>4 DEF TypeOK, ListNodes, Listed, Nodes
<1>8. Owners'
    BY <1>1, <1>2, <1>3, <1>4, <1>5 DEF TypeOK, Owners, Listed
<1>9. NodeBoundOnce' /\ Pushed' /\ Popping' /\ Pointing' /\ RetiredNodes'
    BY <1>1, <1>2, <1>3, <1>4
    DEF TypeOK, NodeBoundOnce, Pushed, Popping, Owners, Own, Listed, Serial,
        Pointing, RetiredNodes
<1>10. Placed'
    BY <1>1, <1>2, <1>3
    DEF TypeOK, Placed, ProtectedStaysAllocated, get_pointer
<1>11. Collection'
    BY <1>1, <1>2, <1>3, <1>4
    DEF TypeOK, Serial, Collection, Deref, Listed, Owners, Own, ListNodes
<1>12. Scanned' /\ ProtectedStaysAllocated' /\ NoObjectLost' /\ NeverFails'
    BY <1>1, <1>3, <1>4
    DEF TypeOK, Scanned, get_pointer, ProtectedStaysAllocated, NoObjectLost,
        NeverFails, Pushed
<1>13. QED
    BY <1>4, <1>6, <1>7, <1>8, <1>9, <1>10, <1>11, <1>12 DEF Inv

\* push, of a collected node: the node is linked to the free list.
LEMMA CollectLinkStep ==
    ASSUME Inv, NEW g \in Collectors, CollectLink(g)
    PROVE  Inv'
<1> USE NamesAssumption, MaxNodesAssumption DEF end_node, Threads, Lists,
        Unbound, Settable, ClientLabels, CollectLabels, Private, Bound,
        Retiring, Removing, Removed
<1>1. /\ TypeOK /\ Labels /\ Serial /\ AreLists /\ ListNodes /\ Owners
      /\ NodeBoundOnce /\ Pushed /\ Popping /\ Pointing /\ RetiredNodes /\ Placed
      /\ Collection /\ Scanned /\ ProtectedStaysAllocated /\ NoObjectLost
      /\ NeverFails
    BY DEF Inv
<1>2. /\ node[g] = Own(g) /\ node[g] \in Nodes
      /\ node[g] \in 1..nodes /\ node[g] \notin Listed
    <2>1. pc[g] \in Removed /\ node[g] = Own(g)
        BY <1>1 DEF CollectLink, PushLink, Step, Own, Pushed
    <2>2. Own(g) \in 1..nodes /\ Own(g) \notin Listed
        BY <1>1, <2>1 DEF Owners
    <2>3. QED
        BY <1>1, <2>1, <2>2 DEF TypeOK, Nodes
<1>3. /\ pc[g] = "cf_link" /\ pc' = [pc EXCEPT ![g] = "cf_swap"]
      /\ next' = [next EXCEPT ![node[g]] = head["free"]]
      /\ UNCHANGED <<slot, heap, nodes, head, pointer, gc_pointer, hp_node,
                     node, desired, value, all_haz_ptrs, scan, gc_node,
                     next_gc_node, ppnode, expected, failed>>
    BY <1>2
    DEF CollectLink, PushLink, Step, Goto, app, lists, pointers, locals, gc,
        hazards, link
<1>4. AreLists' /\ On("free")' = On("free") /\ On("gc")' = On("gc")
    BY <1>1, <1>2, <1>3, FrameLists
<1>5. \A u \in Threads : Own(u)' = Own(u)
    BY <1>1, <1>2, <1>3 DEF TypeOK, Labels, Own
<1>6. TypeOK' /\ Labels' /\ Serial'
    BY <1>1, <1>2, <1>3
    DEF TypeOK, Labels, Links, Serial, Acquiring, Deleting, Collecting
<1>7. ListNodes'
    BY <1>1, <1>2, <1>3, <1>4 DEF TypeOK, ListNodes, Listed, Nodes
<1>8. Owners'
    BY <1>1, <1>2, <1>3, <1>4, <1>5 DEF TypeOK, Owners, Listed
<1>9. NodeBoundOnce' /\ Pushed' /\ Popping' /\ Pointing' /\ RetiredNodes'
    BY <1>1, <1>2, <1>3, <1>4
    DEF TypeOK, NodeBoundOnce, Pushed, Popping, Owners, Own, Listed, Serial,
        Pointing, RetiredNodes
<1>10. Placed'
    BY <1>1, <1>2, <1>3
    DEF TypeOK, Placed, ProtectedStaysAllocated, get_pointer
<1>11. Collection'
    BY <1>1, <1>2, <1>3, <1>4
    DEF TypeOK, Serial, Collection, Deref, Listed, Owners, Own, ListNodes
<1>12. Scanned' /\ ProtectedStaysAllocated' /\ NoObjectLost' /\ NeverFails'
    BY <1>1, <1>3, <1>4
    DEF TypeOK, Scanned, get_pointer, ProtectedStaysAllocated, NoObjectLost,
        NeverFails, Pushed
<1>13. QED
    BY <1>4, <1>6, <1>7, <1>8, <1>9, <1>10, <1>11, <1>12 DEF Inv

\* The head of the free list has moved.
LEMMA CollectAgainStep ==
    ASSUME Inv, NEW g \in Collectors, CollectSwap(g), ~Unmoved(g, "free")
    PROVE  Inv'
<1> USE NamesAssumption, MaxNodesAssumption DEF end_node, Threads, Lists,
        Unbound, Settable, ClientLabels, CollectLabels, Private, Bound,
        Retiring, Removing, Removed
<1>1. /\ TypeOK /\ Labels /\ Serial /\ AreLists /\ ListNodes /\ Owners
      /\ NodeBoundOnce /\ Pushed /\ Popping /\ Pointing /\ RetiredNodes /\ Placed
      /\ Collection /\ Scanned /\ ProtectedStaysAllocated /\ NoObjectLost
      /\ NeverFails
    BY DEF Inv
<1>2. /\ node[g] = Own(g) /\ node[g] \in Nodes
      /\ node[g] \in 1..nodes /\ node[g] \notin Listed
    <2>1. pc[g] \in Removed /\ node[g] = Own(g)
        BY <1>1 DEF CollectSwap, PushSwap, Own, Pushed
    <2>2. Own(g) \in 1..nodes /\ Own(g) \notin Listed
        BY <1>1, <2>1 DEF Owners
    <2>3. QED
        BY <1>1, <2>1, <2>2 DEF TypeOK, Nodes
<1>3. /\ pc[g] = "cf_swap" /\ pc' = [pc EXCEPT ![g] = "cf_link"]
      /\ next' = [next EXCEPT ![node[g]] = head["free"]]
      /\ UNCHANGED <<slot, heap, nodes, head, pointer, gc_pointer, hp_node,
                     node, desired, value, all_haz_ptrs, scan, gc_node,
                     next_gc_node, ppnode, expected, failed>>
    BY <1>2
    DEF CollectSwap, PushSwap, Goto, app, lists, pointers, locals, gc,
        hazards, link
<1>4. AreLists' /\ On("free")' = On("free") /\ On("gc")' = On("gc")
    BY <1>1, <1>2, <1>3, FrameLists
<1>5. \A u \in Threads : Own(u)' = Own(u)
    BY <1>1, <1>2, <1>3 DEF TypeOK, Labels, Own
<1>6. TypeOK' /\ Labels' /\ Serial'
    BY <1>1, <1>2, <1>3
    DEF TypeOK, Labels, Links, Serial, Acquiring, Deleting, Collecting
<1>7. ListNodes'
    BY <1>1, <1>2, <1>3, <1>4 DEF TypeOK, ListNodes, Listed, Nodes
<1>8. Owners'
    BY <1>1, <1>2, <1>3, <1>4, <1>5 DEF TypeOK, Owners, Listed
<1>9. NodeBoundOnce' /\ Pushed' /\ Popping' /\ Pointing' /\ RetiredNodes'
    BY <1>1, <1>2, <1>3, <1>4
    DEF TypeOK, NodeBoundOnce, Pushed, Popping, Owners, Own, Listed, Serial,
        Pointing, RetiredNodes
<1>10. Placed'
    BY <1>1, <1>2, <1>3
    DEF TypeOK, Placed, ProtectedStaysAllocated, get_pointer
<1>11. Collection'
    BY <1>1, <1>2, <1>3, <1>4
    DEF TypeOK, Serial, Collection, Deref, Listed, Owners, Own, ListNodes
<1>12. Scanned' /\ ProtectedStaysAllocated' /\ NoObjectLost' /\ NeverFails'
    BY <1>1, <1>3, <1>4
    DEF TypeOK, Scanned, get_pointer, ProtectedStaysAllocated, NoObjectLost,
        NeverFails, Pushed
<1>13. QED
    BY <1>4, <1>6, <1>7, <1>8, <1>9, <1>10, <1>11, <1>12 DEF Inv

\* push has put the collected node on the free list, and Collect goes on.
LEMMA CollectSwapStep ==
    ASSUME Inv, NEW g \in Collectors, CollectSwap(g), Unmoved(g, "free")
    PROVE  Inv'
<1> USE NamesAssumption, MaxNodesAssumption DEF end_node, Threads, Lists,
        Unbound, Settable, ClientLabels, CollectLabels, Private, Bound,
        Retiring, Removing, Removed
<1>1. /\ TypeOK /\ Labels /\ Serial /\ AreLists /\ ListNodes /\ Owners
      /\ NodeBoundOnce /\ Pushed /\ Popping /\ Pointing /\ RetiredNodes /\ Placed
      /\ Collection /\ Scanned /\ ProtectedStaysAllocated /\ NoObjectLost
      /\ NeverFails
    BY DEF Inv
<1>2. /\ node[g] = Own(g) /\ node[g] \in Nodes
      /\ node[g] \in 1..nodes /\ node[g] \notin Listed
    <2>1. pc[g] \in Removed /\ node[g] = Own(g)
        BY <1>1 DEF CollectSwap, PushSwap, Own, Pushed
    <2>2. Own(g) \in 1..nodes /\ Own(g) \notin Listed
        BY <1>1, <2>1 DEF Owners
    <2>3. QED
        BY <1>1, <2>1, <2>2 DEF TypeOK, Nodes
<1>3. /\ pc[g] = "cf_swap" /\ pc' = [pc EXCEPT ![g] = "gc_node"]
      /\ next[node[g]] = head["free"] /\ head' = [head EXCEPT !["free"] = node[g]]
      /\ node' = [node EXCEPT ![g] = NULL]
      /\ gc_node' = next_gc_node /\ next_gc_node' = NULL
      /\ UNCHANGED <<slot, heap, nodes, next, pointer, gc_pointer, hp_node,
                     desired, value, all_haz_ptrs, scan, ppnode, expected,
                     failed>>
    BY <1>2
    DEF CollectSwap, PushSwap, Unmoved, Goto, app, lists, pointers, locals,
        gc, hazards, link
<1>4. /\ AreLists' /\ On("gc")' = On("gc")
      /\ On("free")' = On("free") \cup {node[g]}
    BY <1>1, <1>2, <1>3, PushLists
<1>5. \A u \in Threads : Own(u)' = IF u = g THEN NULL ELSE Own(u)
    BY <1>1, <1>2, <1>3 DEF TypeOK, Labels, Serial, Own
<1>6. TypeOK' /\ Labels' /\ Serial'
    BY <1>1, <1>2, <1>3
    DEF TypeOK, Labels, Links, Serial, Acquiring, Deleting, Collecting
<1>7. ListNodes'
    BY <1>1, <1>2, <1>3, <1>4 DEF TypeOK, ListNodes, Listed, Nodes, Listed
<1>8. Owners'
    BY <1>1, <1>2, <1>3, <1>4, <1>5 DEF TypeOK, Owners, Listed, ListNodes
<1>9. NodeBoundOnce' /\ Pushed' /\ Popping' /\ Pointing' /\ RetiredNodes'
    BY <1>1, <1>2, <1>3, <1>4
    DEF TypeOK, NodeBoundOnce, Pushed, Popping, Serial, Pointing,
        RetiredNodes
<1>10. Placed'
    BY <1>1, <1>2, <1>3
    DEF TypeOK, Placed, ProtectedStaysAllocated, get_pointer
<1>11. Collection'
    BY <1>1, <1>2, <1>3, <1>4 DEF TypeOK, Serial, Collection, Deref
<1>12. Scanned' /\ ProtectedStaysAllocated' /\ NoObjectLost' /\ NeverFails'
    BY <1>1, <1>3, <1>4
    DEF TypeOK, Scanned, get_pointer, Serial, ProtectedStaysAllocated,
        NoObjectLost, NeverFails, Pushed
<1>13. QED
    BY <1>4, <1>6, <1>7, <1>8, <1>9, <1>10, <1>11, <1>12 DEF Inv

\* The list is destroyed and another one constructed; no thread uses it.
LEMMA DestroyStep ==
    ASSUME Inv, Destroy
    PROVE  Inv'
<1> USE NamesAssumption, MaxNodesAssumption DEF end_node, Threads, Lists,
        Unbound, Settable, ClientLabels, CollectLabels, Private, Bound,
        Retiring, Removing, Removed
<1>1. /\ TypeOK /\ Labels /\ Serial /\ AreLists /\ ListNodes /\ Owners
      /\ NodeBoundOnce /\ Pushed /\ Popping /\ Pointing /\ RetiredNodes /\ Placed
      /\ Collection /\ Scanned /\ ProtectedStaysAllocated /\ NoObjectLost
      /\ NeverFails
    BY DEF Inv
<1>2. /\ \A t \in Threads : pc[t] = "idle"
      /\ heap' = heap \ {gc_pointer[n] : n \in On("gc")}
      /\ nodes' = 0
      /\ head' = EmptyList.head
      /\ next' = [n \in Nodes \cup {end_node} |->
                    IF n = end_node THEN end_node ELSE NULL]
      /\ pointer' = [n \in Nodes |-> NULL] /\ gc_pointer' = [n \in Nodes |-> NULL]
      /\ UNCHANGED <<slot, hp_node, pc, node, desired, value, all_haz_ptrs,
                     scan, gc_node, next_gc_node, ppnode, expected, failed>>
    BY DEF Destroy, EmptyList, app, lists, pointers, locals, gc, hazards, link
<1>3. AreLists' /\ On("free")' = {} /\ On("gc")' = {}
    BY <1>1, <1>2, NoLists
<1>4. \A u \in Threads : Own(u)' = Own(u)
    BY <1>1, <1>2 DEF TypeOK, Labels, Own
<1>5. /\ next' \in [Nodes \cup {end_node} -> Links]
      /\ head' \in [Lists -> Nodes \cup {end_node}]
      /\ pointer' \in [Nodes -> Objects \cup {NULL}]
      /\ gc_pointer' \in [Nodes -> Objects \cup {NULL}]
    BY <1>2 DEF Links, EmptyList
<1>6. TypeOK'
    BY <1>1, <1>2, <1>5 DEF TypeOK
<1>7. Labels' /\ Serial'
    BY <1>1, <1>2, <1>5
    DEF TypeOK, Labels, Serial, Acquiring, Deleting, Collecting
<1>8. ListNodes'
    BY <1>1, <1>2, <1>3, <1>5 DEF TypeOK, ListNodes, Listed, Nodes
<1>9. Owners'
    BY <1>1, <1>2, <1>3, <1>4, <1>5 DEF TypeOK, Owners, Listed, Own
<1>10. NodeBoundOnce' /\ Pushed' /\ Popping' /\ Pointing' /\ RetiredNodes'
    BY <1>1, <1>2, <1>3, <1>5
    DEF TypeOK, NodeBoundOnce, Pushed, Popping, Pointing, RetiredNodes
<1>11. slot' \in heap' \cup {NULL}
    BY <1>1, <1>2, ListFacts DEF Placed
<1>12. Placed'
    BY <1>1, <1>2, <1>5, <1>11 DEF TypeOK, Placed
<1>13. Collection'
    BY <1>1, <1>2, <1>3, <1>5, <1>11 DEF TypeOK, Serial, Collection, Deref
<1>14. Scanned' /\ ProtectedStaysAllocated' /\ NoObjectLost' /\ NeverFails'
    BY <1>1, <1>2, <1>3, <1>5, <1>11
    DEF TypeOK, Scanned, get_pointer, ProtectedStaysAllocated, NoObjectLost,
        NeverFails, Pushed
<1>15. QED
    BY <1>3, <1>5, <1>6, <1>7, <1>8, <1>9, <1>10, <1>11, <1>12, <1>13, <1>14
    DEF Inv

-----------------------------------------------------------------------------
\* A list is constructed empty, with no HazardPointer.
LEMMA InvInit ==
    ASSUME Init
    PROVE  Inv
<1> USE NamesAssumption, MaxNodesAssumption DEF end_node, Threads, Lists,
        Unbound, Settable, ClientLabels, CollectLabels, Private, Bound,
        Retiring, Removing, Removed
<1>1. /\ slot = NULL /\ heap = {} /\ nodes = 0
      /\ head = [l \in Lists |-> end_node]
      /\ next = [n \in Nodes \cup {end_node} |->
                    IF n = end_node THEN end_node ELSE NULL]
      /\ pointer = [n \in Nodes |-> NULL] /\ gc_pointer = [n \in Nodes |-> NULL]
      /\ hp_node = [c \in Clients |-> NULL] /\ pc = [t \in Threads |-> "idle"]
      /\ node = [t \in Threads |-> NULL] /\ desired = [c \in Clients |-> NULL]
      /\ value = [c \in Clients |-> NULL] /\ failed = FALSE
      /\ all_haz_ptrs = {} /\ scan = end_node
      /\ gc_node = end_node /\ next_gc_node = NULL
      /\ ppnode = NULL /\ expected = NULL
    BY DEF Init, EmptyList, NoScan
<1>2. AreLists /\ \A l \in Lists : On(l) = {}
    <2>1. \A l \in Lists : head[l] = end_node
        BY <1>1
    <2>2. QED
        BY <2>1, EmptyIsList, Zenon DEF AreLists, On
<1>3. TypeOK /\ Labels
    <2>1. next \in [Nodes \cup {end_node} -> Links]
        BY <1>1 DEF Links
    <2>2. /\ slot \in Objects \cup {NULL} /\ heap \subseteq Objects
          /\ nodes \in 0..MaxNodes /\ head \in [Lists -> Nodes \cup {end_node}]
          /\ pointer \in [Nodes -> Objects \cup {NULL}]
          /\ gc_pointer \in [Nodes -> Objects \cup {NULL}]
        BY <1>1
    <2>3. /\ hp_node \in [Clients -> Nodes \cup {NULL}]
          /\ \A c \in Clients : hp_node[c] = NULL
          /\ pc \in [Threads -> ClientLabels \cup CollectLabels]
          /\ node \in [Threads -> Links] /\ desired \in [Clients -> Links]
          /\ value \in [Clients -> Objects \cup {NULL}]
        BY <1>1 DEF Links
    <2>4. /\ all_haz_ptrs \subseteq Objects /\ scan \in 0..MaxNodes
          /\ gc_node \in Links /\ next_gc_node \in Links
          /\ ppnode \in Links /\ expected \in Links
        BY <1>1 DEF Links
    <2>5. failed \in BOOLEAN
        BY <1>1, Zenon
    <2>6. QED
        BY <1>1, <2>1, <2>2, <2>3, <2>4, <2>5 DEF TypeOK, Labels
<1>4. Serial /\ ListNodes
    BY <1>1, <1>2 DEF Serial, ListNodes, Listed, Acquiring, Deleting,
                      Collecting, Nodes
<1>5. \A t \in Threads : Own(t) = NULL
    BY <1>1 DEF Own
<1>6. Owners
    BY <1>1, <1>2, <1>5 DEF Owners, Listed
<1>7. NodeBoundOnce /\ Pushed /\ Popping /\ Pointing /\ RetiredNodes
    BY <1>1, <1>2 DEF NodeBoundOnce, Pushed, Popping, Pointing, RetiredNodes
<1>8. /\ Placed /\ Collection /\ Scanned /\ ProtectedStaysAllocated
      /\ NoObjectLost /\ NeverFails
    BY <1>1, <1>2 DEF Placed, Collection, Scanned, ProtectedStaysAllocated,
                      NoObjectLost, NeverFails
<1>9. QED
    BY <1>2, <1>3, <1>4, <1>6, <1>7, <1>8 DEF Inv

\* A step that changes nothing.
LEMMA InvStutter ==
    ASSUME Inv, UNCHANGED vars
    PROVE  Inv'
<1>1. /\ UNCHANGED <<slot, heap, nodes, head, next, pointer, gc_pointer>>
      /\ UNCHANGED <<hp_node, pc, node, desired, value, failed>>
      /\ UNCHANGED <<all_haz_ptrs, scan, gc_node, next_gc_node, ppnode, expected>>
    BY DEF vars, app, lists, pointers, locals, gc, hazards, link
<1>2. AreLists' /\ \A l \in Lists : On(l)' = On(l)
    BY <1>1, QuietLists DEF Inv
<1>3. On("free")' = On("free") /\ On("gc")' = On("gc")
    BY <1>2 DEF Lists
<1>4. /\ TypeOK' /\ Labels' /\ Serial' /\ ListNodes' /\ Owners'
      /\ NodeBoundOnce' /\ Pushed' /\ Popping' /\ Pointing' /\ RetiredNodes'
    BY <1>1, <1>3 DEF Inv, TypeOK, Labels, Serial, ListNodes, Owners,
       NodeBoundOnce, Pushed, Popping, Pointing, RetiredNodes, Listed, Own,
       Acquiring, Deleting, Collecting
<1>5. /\ Placed' /\ Collection' /\ Scanned' /\ ProtectedStaysAllocated'
      /\ NoObjectLost' /\ NeverFails'
    BY <1>1, <1>3 DEF Inv, Placed, Collection, Scanned, ProtectedStaysAllocated,
       NoObjectLost, NeverFails, get_pointer, Deref
<1>6. QED
    BY <1>2, <1>4, <1>5 DEF Inv

\* Every step of a client keeps the invariant.
LEMMA ClientInv ==
    ASSUME Inv, SerialAcquire, SerialDelete, NEW c \in Clients,
           ClientCall(c) \/ ClientStep(c)
    PROVE  Inv'
<1>1. CASE ClientCall(c)
    BY <1>1, AcquireNodeStep, PrimeStep, AcquireReadStep, ClearStep, Zenon
    DEF ClientCall
<1>2. CASE PopRead(c) \/ PopNext(c)
    BY <1>2, PopReadStep, PopNextStep, Zenon
<1>3. CASE PopSwap(c)
    BY <1>3, PopRetryStep, PopNoneStep, PopTakeStep, Zenon
<1>4. CASE PopClear(c) \/ NewNode(c)
    BY <1>4, PopClearStep, NewNodeStep, NoMemoryStep, Zenon
<1>5. CASE AcquireStore(c) \/ Validate(c) \/ Unlink(c)
    BY <1>5, AcquireStoreStep, ValidateStep, UnlinkStep, Zenon
<1>6. CASE ReleaseClear(c)
    BY <1>6, DropStep, ReleaseStep, Zenon
<1>7. CASE ReleaseLink(c) \/ ReleaseSwap(c)
    BY <1>7, ReleaseLinkStep, ReleaseAgainStep, ReleaseSwapStep, Zenon
<1>8. CASE DeleteMove(c) \/ DeleteCheck(c)
    BY <1>8, DeleteMoveStep, DeleteCheckStep, Zenon
<1>9. CASE DeleteLink(c) \/ DeleteSwap(c)
    BY <1>9, DeleteLinkStep, DeleteAgainStep, DeleteSwapStep, Zenon
<1>10. QED
    BY <1>1, <1>2, <1>3, <1>4, <1>5, <1>6, <1>7, <1>8, <1>9, Zenon
    DEF ClientStep

\* Every step of a collecting thread keeps the invariant.
LEMMA CollectInv ==
    ASSUME Inv, SerialDelete, NEW g \in Collectors, CollectStep(g)
    PROVE  Inv'
<1>1. CASE CollectCheck(g) \/ CollectLock(g)
    BY <1>1, CollectCheckStep, CollectLockStep, Zenon
<1>2. CASE CollectScan(g) \/ CollectHead(g)
    BY <1>2, CollectScanStep, CollectHeadStep, Zenon
<1>3. CASE CollectSkip(g) \/ CollectDelete(g) \/ CollectReturn(g)
    BY <1>3, CollectSkipStep, CollectDeleteStep, CollectReturnStep, Zenon
<1>4. CASE RemoveFind(g) \/ RemoveRead(g)
    BY <1>4, RemoveFindStep, RemoveReadStep, Zenon
<1>5. CASE RemoveSwap(g)
    BY <1>5, RemoveFirstStep, RemoveOtherStep, Zenon
<1>6. CASE RemoveClear(g) \/ CollectLink(g)
    BY <1>6, RemoveClearStep, CollectLinkStep, Zenon
<1>7. CASE CollectSwap(g)
    BY <1>7, CollectAgainStep, CollectSwapStep, Zenon
<1>8. QED
    BY <1>1, <1>2, <1>3, <1>4, <1>5, <1>6, <1>7, Zenon DEF CollectStep

\* Every step keeps the invariant.
LEMMA InvStep ==
    ASSUME Inv, SerialAcquire, SerialDelete, [Next]_vars
    PROVE  Inv'
    BY ClientInv, CollectInv, PublishStep, DestroyStep, InvStutter, Zenon
    DEF Next

\* The invariant holds throughout.
LEMMA Invariance ==
    ASSUME SerialAcquire, SerialDelete
    PROVE  Spec => []Inv
<1>1. Init => Inv
    BY InvInit
<1>2. Inv /\ [Next]_vars => Inv'
    BY InvStep
<1>3. QED
    BY <1>1, <1>2, PTL DEF Spec

-----------------------------------------------------------------------------
(* The theorems.                                                            *)

\* Links and HazardPointers always lead to nodes: a list never starts with
\* NULL, and only a HazardPointer in use has a node.
THEOREM TypeCorrect ==
    ASSUME SerialAcquire, SerialDelete
    PROVE  Spec => []TypeOK
<1>1. Inv => TypeOK
    BY DEF Inv
<1>2. QED
    BY <1>1, Invariance, PTL

\* Collect never deletes an object that a client has protected and found still
\* in place, whatever hazard pointers are set, cleared, released and recycled
\* while it scans.
THEOREM ProtectionHolds ==
    ASSUME SerialAcquire, SerialDelete
    PROVE  Spec => []ProtectedStaysAllocated
<1>1. Inv => ProtectedStaysAllocated
    BY DEF Inv
<1>2. QED
    BY <1>1, Invariance, PTL

\* No CHECK_ASSERT of HazardPointer.hpp fails, remove finds its node, and no
\* object is deleted twice.
THEOREM AssertsHold ==
    ASSUME SerialAcquire, SerialDelete
    PROVE  Spec => []NeverFails
<1>1. Inv => NeverFails
    BY DEF Inv
<1>2. QED
    BY <1>1, Invariance, PTL

\* One node serves one HazardPointer, however often nodes go through the lists.
THEOREM NodesBoundOnce ==
    ASSUME SerialAcquire, SerialDelete
    PROVE  Spec => []NodeBoundOnce
<1>1. Inv => NodeBoundOnce
    BY DEF Inv
<1>2. QED
    BY <1>1, Invariance, PTL

\* An object that is neither in the shared location nor on the gc list is in
\* the hands of the client that is about to put it there.
THEOREM ObjectsKept ==
    ASSUME SerialAcquire, SerialDelete
    PROVE  Spec => []NoObjectLost
<1>1. Inv => NoObjectLost
    BY DEF Inv
<1>2. QED
    BY <1>1, Invariance, PTL

\* A node that was released or dropped protects nothing.
THEOREM UnboundInert ==
    ASSUME SerialAcquire, SerialDelete
    PROVE  Spec => []UnboundNodesInert
<1>1. Inv => UnboundNodesInert
    <2>1. TypeOK /\ Pointing => UnboundNodesInert
        BY MaxNodesAssumption DEF TypeOK, Pointing, UnboundNodesInert, Nodes
    <2>2. QED
        BY <2>1 DEF Inv
<1>2. QED
    BY <1>1, Invariance, PTL

\* push, pop and remove leave two lists without a common node, and none of
\* them holds a node that a HazardPointer can still set.
THEOREM ListsKept ==
    ASSUME SerialAcquire, SerialDelete
    PROVE  Spec => []ListsIntact
<1>1. ASSUME Inv
      PROVE  ListsIntact
    <2>1. ASSUME NEW l \in Lists
          PROVE  Walk(head[l], next)[MaxNodes] = end_node
        <3>1. IsList(head[l], next)
            BY <1>1, Zenon DEF Inv, AreLists
        <3>2. QED
            BY <3>1, ListEnds
    <2>2. On("free") \cap On("gc") = {}
        BY <1>1 DEF Inv, ListNodes
    <2>3. ASSUME NEW c \in Clients, pc[c] # "dl_check"
          PROVE  hp_node[c] \notin On("free") \cup On("gc")
        <3>1. CASE pc[c] \in Unbound
            <4>1. hp_node[c] = NULL
                BY <1>1, <3>1 DEF Inv, TypeOK
            <4>2. QED
                BY <1>1, <4>1, NamesAssumption DEF Inv, ListNodes, Listed
        <3>2. CASE pc[c] \notin Unbound
            <4>1. Own(c) = hp_node[c]
                BY <1>1, <2>3, <3>2
                DEF Inv, Labels, Own, ClientLabels, Unbound, Private, Bound,
                    Settable, Retiring, Removed
            <4>2. QED
                BY <1>1, <4>1 DEF Inv, Owners, Listed, Threads
        <3>3. QED
            BY <3>1, <3>2
    <2>4. QED
        BY <2>1, <2>2, <2>3 DEF ListsIntact
<1>2. QED
    BY <1>1, Invariance, PTL

-----------------------------------------------------------------------------
(* The refinement.                                                          *)

\* What a step leaves alone of what the abstract specification sees.
LEMMA SameUses ==
    ASSUME \A d \in Clients : InUse(d)' = InUse(d)
    PROVE  uses' = uses
    BY DEF uses

\* A step that changes what one client uses.
LEMMA OneUses ==
    ASSUME NEW c \in Clients, NEW x,
           \A d \in Clients : InUse(d)' = IF d = c THEN x ELSE InUse(d)
    PROVE  uses' = [uses EXCEPT ![c] = x]
    BY DEF uses

\* Only a step that writes gc_pointer retires an object or ends a retirement.
LEMMA SameRetired ==
    ASSUME UNCHANGED gc_pointer
    PROVE  retired' = retired
    BY DEF retired

\* No client uses an object.
LEMMA RefineInit ==
    ASSUME Init
    PROVE  Reclamation!Init
<1>1. retired = {}
    BY DEF Init, EmptyList, retired
<1>2. \A c \in Clients : InUse(c) = NULL
    BY DEF Init, InUse, Threads
<1>3. uses = [c \in Clients |-> NULL]
    BY <1>2 DEF uses
<1>4. QED
    BY <1>1, <1>3 DEF Init, Reclamation!Init

\* The steps that the abstract specification does not see: a client's pointer
\* changes only while the client does not use it.
LEMMA RefineQuiet ==
    ASSUME Inv, NEW c \in Clients,
           \/ AcquireNode(c) \/ PopRead(c) \/ PopNext(c) \/ PopSwap(c)
           \/ PopClear(c) \/ NewNode(c) \/ Prime(c) \/ AcquireStore(c)
           \/ ReleaseLink(c) \/ ReleaseSwap(c)
           \/ DeleteLink(c) \/ DeleteSwap(c) \/ DeleteCheck(c)
    PROVE  UNCHANGED Reclamation!vars
<1> USE NamesAssumption DEF Threads
<1>1. /\ pc \in [Threads -> ClientLabels \cup CollectLabels]
      /\ pointer \in [Nodes -> Objects \cup {NULL}]
      /\ hp_node \in [Clients -> Nodes \cup {NULL}]
    BY DEF Inv, TypeOK
<1>2. UNCHANGED <<slot, heap, gc_pointer>>
    BY DEF AcquireNode, PopRead, PopNext, PopSwap, PopClear, NewNode, Prime,
           AcquireStore, ReleaseLink, ReleaseSwap, DeleteLink, DeleteSwap,
           DeleteCheck, PushLink, PushSwap, app, lists, pointers
<1>3. /\ pc[c] \notin {"protected", "unlinked"}
      /\ pc'[c] \notin {"protected", "unlinked"}
      /\ \A d \in Clients \ {c} : pc'[d] = pc[d] /\ hp_node'[d] = hp_node[d]
    BY <1>1
    DEF AcquireNode, PopRead, PopNext, PopSwap, PopClear, NewNode, Prime,
        AcquireStore, ReleaseLink, ReleaseSwap, DeleteLink, DeleteSwap,
        DeleteCheck, PushLink, PushSwap, Step, Goto, Popped
<1>4. \A d \in Clients \ {c} : pc[d] \in {"protected", "unlinked"} =>
          pointer'[hp_node[d]] = pointer[hp_node[d]]
    <2>1. CASE AcquireStore(c)
        <3>1. /\ pointer' = [pointer EXCEPT ![hp_node[c]] = value[c]]
              /\ pc[c] = "acq_store"
            BY <2>1 DEF AcquireStore, Step
        <3>2. ASSUME NEW d \in Clients \ {c},
                     pc[d] \in {"protected", "unlinked"}
              PROVE  hp_node[d] # hp_node[c] /\ hp_node[d] \in Nodes
            <4>1. Own(d) = hp_node[d] /\ Own(c) = hp_node[c]
                BY <3>1, <3>2 DEF Own, Private, Bound, Settable
            <4>2. Own(d) # NULL /\ Own(d) # Own(c)
                BY <3>1, <3>2 DEF Inv, Owners, Bound, Settable
            <4>3. QED
                BY <1>1, <4>1, <4>2
        <3>3. QED
            BY <1>1, <3>1, <3>2
    <2>2. CASE ~AcquireStore(c)
        <3>1. pointer' = pointer
            BY <2>2
            DEF AcquireNode, PopRead, PopNext, PopSwap, PopClear, NewNode,
                Prime, ReleaseLink, ReleaseSwap, DeleteLink, DeleteSwap,
                DeleteCheck, PushLink, PushSwap, lists, pointers
        <3>2. QED
            BY <3>1
    <2>3. QED
        BY <2>1, <2>2
<1>5. \A d \in Clients : InUse(d)' = InUse(d)
    BY <1>3, <1>4 DEF InUse, get_pointer
<1>6. QED
    BY <1>2, <1>5, SameUses, SameRetired DEF Reclamation!vars

\* Setting, clearing or releasing a hazard pointer lets go of the object.
LEMMA RefineLetGo ==
    ASSUME Inv, NEW c \in Clients,
           AcquireRead(c) \/ Clear(c) \/ ReleaseClear(c)
    PROVE  Reclamation!LetGo(c)
<1> USE NamesAssumption DEF Threads
<1>1. /\ pc \in [Threads -> ClientLabels \cup CollectLabels]
      /\ pointer \in [Nodes -> Objects \cup {NULL}]
      /\ hp_node \in [Clients -> Nodes \cup {NULL}]
    BY DEF Inv, TypeOK
<1>2. UNCHANGED <<slot, heap, gc_pointer>> /\ pc[c] \in Settable
    BY DEF AcquireRead, Clear, ReleaseClear, app, lists, pointers
<1>3. /\ pc'[c] \notin {"protected", "unlinked"}
      /\ \A d \in Clients \ {c} : pc'[d] = pc[d] /\ hp_node'[d] = hp_node[d]
    BY <1>1 DEF AcquireRead, Clear, ReleaseClear, Goto
<1>4. pointer' = pointer \/ pointer' = [pointer EXCEPT ![hp_node[c]] = NULL]
    BY DEF AcquireRead, Clear, ReleaseClear, Released, lists, pointers
<1>5. ASSUME NEW d \in Clients \ {c}, pc[d] \in {"protected", "unlinked"}
      PROVE  hp_node[d] # hp_node[c] /\ hp_node[d] \in Nodes
    <2>1. Own(d) = hp_node[d] /\ Own(c) = hp_node[c]
        BY <1>2, <1>5 DEF Own, Private, Bound, Settable
    <2>2. Own(d) # NULL /\ Own(d) # Own(c)
        BY <1>2, <1>5 DEF Inv, Owners, Bound, Settable
    <2>3. QED
        BY <1>1, <2>1, <2>2
<1>6. \A d \in Clients : InUse(d)' = IF d = c THEN NULL ELSE InUse(d)
    BY <1>1, <1>3, <1>4, <1>5 DEF InUse, get_pointer
<1>7. QED
    BY <1>2, <1>6, OneUses, SameRetired DEF Reclamation!LetGo

\* A client uses the object once it has found it in place.
LEMMA RefineValidate ==
    ASSUME Inv, NEW c \in Clients, Validate(c)
    PROVE  Reclamation!Use(c) \/ UNCHANGED Reclamation!vars
<1> USE NamesAssumption DEF Threads
<1>1. pc \in [Threads -> ClientLabels \cup CollectLabels]
    BY DEF Inv, TypeOK
<1>2. /\ UNCHANGED <<slot, heap, pointer, gc_pointer, hp_node>>
      /\ pc[c] = "set"
      /\ pc' = [pc EXCEPT ![c] = IF get_pointer(c) \in {slot} \ {NULL}
                                 THEN "protected" ELSE "bound"]
    BY DEF Validate, Goto, app, lists, pointers
<1>3. CASE get_pointer(c) \in {slot} \ {NULL}
    <2>1. \A d \in Clients : InUse(d)' = IF d = c THEN slot ELSE InUse(d)
        BY <1>1, <1>2, <1>3 DEF InUse, get_pointer
    <2>2. QED
        BY <1>2, <1>3, <2>1, OneUses, SameRetired DEF Reclamation!Use
<1>4. CASE get_pointer(c) \notin {slot} \ {NULL}
    <2>1. \A d \in Clients : InUse(d)' = InUse(d)
        BY <1>1, <1>2, <1>4 DEF InUse, get_pointer
    <2>2. QED
        BY <1>2, <2>1, SameUses, SameRetired DEF Reclamation!vars
<1>5. QED
    BY <1>3, <1>4

\* A client unlinks the object that it uses.
LEMMA RefineUnlink ==
    ASSUME Inv, NEW c \in Clients, Unlink(c)
    PROVE  Reclamation!Unlink(c)
<1> USE NamesAssumption DEF Threads
<1>1. /\ pc \in [Threads -> ClientLabels \cup CollectLabels]
      /\ get_pointer(c) \in heap /\ heap \subseteq Objects
    BY DEF Inv, TypeOK, ProtectedStaysAllocated, Unlink, Step
<1>2. /\ UNCHANGED <<heap, pointer, gc_pointer, hp_node>>
      /\ slot = get_pointer(c) /\ slot' = NULL
      /\ pc[c] = "protected" /\ pc' = [pc EXCEPT ![c] = "unlinked"]
    BY DEF Unlink, Step, Goto, lists, pointers
<1>3. \A d \in Clients : InUse(d)' = InUse(d)
    BY <1>1, <1>2 DEF InUse, get_pointer
<1>4. slot # NULL /\ uses[c] = slot
    BY <1>1, <1>2 DEF uses, InUse
<1>5. QED
    BY <1>2, <1>3, <1>4, SameUses, SameRetired DEF Reclamation!Unlink

\* Delete retires an object that was unlinked and not retired before.
LEMMA RefineDelete ==
    ASSUME Inv, NEW c \in Clients, DeleteMove(c)
    PROVE  Reclamation!Retire(c)
<1> USE NamesAssumption DEF Threads
<1>1. /\ pc \in [Threads -> ClientLabels \cup CollectLabels]
      /\ pointer \in [Nodes -> Objects \cup {NULL}]
      /\ gc_pointer \in [Nodes -> Objects \cup {NULL}]
      /\ hp_node \in [Clients -> Nodes \cup {NULL}] /\ heap \subseteq Objects
    BY DEF Inv, TypeOK
<1>2. /\ UNCHANGED <<slot, heap, hp_node>>
      /\ gc_pointer' = [gc_pointer EXCEPT ![hp_node[c]] = get_pointer(c)]
      /\ pointer' = [pointer EXCEPT ![hp_node[c]] = NULL]
      /\ pc[c] = "unlinked" /\ pc' = [pc EXCEPT ![c] = "dl_link"]
    BY DEF DeleteMove, Step, Goto, app
<1>3. Own(c) = hp_node[c] /\ Own(c) # NULL /\ Own(c) \notin Listed
    BY <1>2 DEF Inv, Owners, Own, Private, Bound, Settable
<1>4. hp_node[c] \in Nodes /\ gc_pointer[hp_node[c]] = NULL
    <2>1. hp_node[c] \in Nodes /\ hp_node[c] \notin On("gc")
        BY <1>1, <1>3 DEF Listed
    <2>2. ASSUME NEW d \in Clients, pc[d] \in Retiring
          PROVE  hp_node[d] # hp_node[c]
        <3>1. Own(d) = hp_node[d]
            BY <2>2 DEF Own, Retiring, Private, Bound, Settable
        <3>2. d # c
            BY <1>2, <2>2 DEF Retiring
        <3>3. QED
            BY <1>3, <3>1, <3>2 DEF Inv, Owners
    <2>3. QED
        BY <2>1, <2>2 DEF Inv, RetiredNodes
<1>5. /\ get_pointer(c) \in heap /\ get_pointer(c) # slot
      /\ \A n \in Nodes : gc_pointer[n] # get_pointer(c)
    BY <1>2 DEF Inv, ProtectedStaysAllocated, Placed
<1>6. ASSUME NEW d \in Clients \ {c}, pc[d] \in {"protected", "unlinked"}
      PROVE  hp_node[d] # hp_node[c] /\ hp_node[d] \in Nodes
    <2>1. Own(d) = hp_node[d]
        BY <1>6 DEF Own, Private, Bound, Settable
    <2>2. Own(d) # NULL /\ Own(d) # Own(c)
        BY <1>3, <1>6 DEF Inv, Owners, Bound, Settable
    <2>3. QED
        BY <1>1, <1>3, <2>1, <2>2
<1>7. \A d \in Clients : InUse(d)' = IF d = c THEN NULL ELSE InUse(d)
    BY <1>1, <1>2, <1>4, <1>6 DEF InUse, get_pointer
<1>8. uses[c] = get_pointer(c)
    BY <1>2 DEF uses, InUse
<1>9. retired' = retired \cup {get_pointer(c)}
    BY <1>1, <1>2, <1>4, <1>5 DEF retired
<1>10. get_pointer(c) \notin retired
    BY <1>5 DEF retired
<1>11. QED
    BY <1>2, <1>5, <1>7, <1>8, <1>9, <1>10, OneUses DEF Reclamation!Retire

\* The steps of Collect and remove that delete nothing.
LEMMA RefineCollect ==
    ASSUME Inv, NEW g \in Collectors, CollectStep(g), ~CollectDelete(g)
    PROVE  UNCHANGED Reclamation!vars
<1> USE NamesAssumption DEF Threads
<1>1. pc \in [Threads -> ClientLabels \cup CollectLabels]
    BY DEF Inv, TypeOK
<1>2. UNCHANGED <<slot, heap, pointer, gc_pointer, hp_node>>
    BY DEF CollectStep, CollectCheck, CollectLock, CollectScan, CollectHead,
           CollectSkip, CollectReturn, RemoveFind, RemoveRead, RemoveSwap,
           RemoveClear, CollectLink, CollectSwap, PushLink, PushSwap, app,
           lists, pointers
<1>3. \A d \in Clients : pc'[d] = pc[d]
    BY <1>1
    DEF CollectStep, CollectCheck, CollectLock, CollectScan, CollectHead,
        CollectSkip, CollectReturn, RemoveFind, RemoveRead, RemoveSwap,
        RemoveClear, CollectLink, CollectSwap, PushLink, PushSwap, Step, Goto
<1>4. \A d \in Clients : InUse(d)' = InUse(d)
    BY <1>2, <1>3 DEF InUse, get_pointer
<1>5. QED
    BY <1>2, <1>4, SameUses, SameRetired DEF Reclamation!vars

\* Collect reclaims a retired object that no client uses: the scan would have
\* found it.
LEMMA RefineReclaim ==
    ASSUME Inv, NEW g \in Collectors, CollectDelete(g)
    PROVE  \E garbage \in SUBSET retired : Reclamation!Reclaim(garbage)
<1> USE NamesAssumption DEF Threads
<1>1. /\ pc \in [Threads -> ClientLabels \cup CollectLabels]
      /\ gc_pointer \in [Nodes -> Objects \cup {NULL}]
      /\ ProtectedStaysAllocated /\ heap \subseteq Objects
    BY DEF Inv, TypeOK
<1>2. /\ UNCHANGED <<slot, pointer, hp_node>>
      /\ gc_node \in Nodes /\ gc_pointer[gc_node] \notin all_haz_ptrs
      /\ heap' = heap \ {gc_pointer[gc_node]}
      /\ gc_pointer' = [gc_pointer EXCEPT ![gc_node] = NULL]
      /\ pc[g] = "gc_node" /\ pc' = [pc EXCEPT ![g] = "rm_find"]
    BY DEF CollectDelete, Collected, Step, Goto
<1>3. gc_pointer[gc_node] # NULL
    <2>1. gc_node \in On("gc")
        BY <1>2, MaxNodesAssumption DEF Inv, Collection, Nodes, end_node
    <2>2. \A h \in Collectors : pc[h] \notin Removing
        BY <1>2 DEF Inv, Serial, Removing
    <2>3. QED
        BY <2>1, <2>2 DEF Inv, RetiredNodes
<1>4. ASSUME NEW c \in Clients
      PROVE  InUse(c) # gc_pointer[gc_node]
    <2>1. CASE pc[c] \in {"protected", "unlinked"}
        <3>1. scan = 0
            BY <1>2 DEF Inv, Scanned, end_node
        <3>2. hp_node[c] \in 1..nodes /\ nodes \in Nat
            <4>1. Own(c) = hp_node[c] /\ pc[c] \in Bound
                BY <2>1 DEF Own, Private, Bound, Settable
            <4>2. Own(c) # NULL /\ Own(c) \in (1..nodes) \cup {NULL}
                BY <4>1 DEF Inv, Owners
            <4>3. nodes \in Nat
                BY MaxNodesAssumption DEF Inv, TypeOK
            <4>4. QED
                BY <4>1, <4>2, <4>3
        <3>3. ~(hp_node[c] <= scan)
            BY <3>1, <3>2
        <3>4. gc_pointer[gc_node] = get_pointer(c)
                  => get_pointer(c) \in all_haz_ptrs
            BY <1>2, <2>1, <3>3 DEF Inv, Scanned
        <3>5. QED
            BY <1>2, <2>1, <3>4 DEF InUse
    <2>2. CASE pc[c] \notin {"protected", "unlinked"}
        BY <1>3, <2>2 DEF InUse
    <2>3. QED
        BY <2>1, <2>2
<1>5. \A d \in Clients : InUse(d)' = InUse(d)
    BY <1>1, <1>2 DEF InUse, get_pointer
<1>6. retired' = retired \ {gc_pointer[gc_node]}
    <2>1. \A n \in Nodes : n # gc_node => gc_pointer[n] # gc_pointer[gc_node]
        BY <1>2, <1>3 DEF Inv, Placed
    <2>2. /\ gc_pointer'[gc_node] = NULL
          /\ \A n \in Nodes : n # gc_node => gc_pointer'[n] = gc_pointer[n]
        BY <1>1, <1>2
    <2>3. QED
        BY <1>2, <1>3, <2>1, <2>2 DEF retired
<1>7. {gc_pointer[gc_node]} \in SUBSET retired
    BY <1>2, <1>3 DEF retired
<1>8. \A c \in Clients : uses[c] \notin {gc_pointer[gc_node]}
    BY <1>4 DEF uses
<1>9. uses' = uses
    BY <1>5, SameUses
<1>10. Reclamation!Reclaim({gc_pointer[gc_node]})
    BY <1>2, <1>6, <1>8, <1>9 DEF Reclamation!Reclaim
<1>11. QED
    BY <1>7, <1>10

\* The destructor of the list reclaims everything that is retired.
LEMMA RefineDestroy ==
    ASSUME Inv, Destroy
    PROVE  \E garbage \in SUBSET retired : Reclamation!Reclaim(garbage)
<1>1. /\ \A t \in Threads : pc[t] = "idle"
      /\ heap' = heap \ {gc_pointer[n] : n \in On("gc")}
      /\ gc_pointer' = [n \in Nodes |-> NULL]
      /\ UNCHANGED <<slot, pc>>
    BY DEF Destroy, EmptyList
<1>2. \A n \in Nodes : gc_pointer[n] # NULL <=> n \in On("gc")
    BY <1>1 DEF Inv, RetiredNodes, Retiring, Removing, Threads
<1>3. On("gc") \subseteq Nodes
    BY ListFacts DEF Inv, Lists
<1>4. retired = {gc_pointer[n] : n \in On("gc")}
    BY <1>2, <1>3 DEF retired
<1>5. retired' = {}
    BY <1>1 DEF retired
<1>6. \A c \in Clients : InUse(c) = NULL /\ InUse(c)' = NULL
    BY <1>1 DEF InUse, Threads
<1>7. uses' = uses /\ \A c \in Clients : uses[c] \notin retired
    BY <1>6 DEF uses, retired
<1>8. Reclamation!Reclaim(retired)
    <2>1. heap' = heap \ retired /\ retired' = retired \ retired
        BY <1>1, <1>4, <1>5
    <2>2. QED
        BY <1>1, <1>7, <2>1 DEF Reclamation!Reclaim
<1>9. QED
    BY <1>8

\* The application's allocation.
LEMMA RefinePublish ==
    ASSUME Inv, Publish
    PROVE  \E o \in Objects : Reclamation!Publish(o)
<1>1. PICK o \in Objects \ heap : slot' = o /\ heap' = heap \cup {o}
    BY DEF Publish
<1>2. slot = NULL /\ UNCHANGED <<pointer, gc_pointer, hp_node, pc>>
    BY DEF Publish, lists, pointers
<1>3. \A d \in Clients : InUse(d)' = InUse(d)
    BY <1>2 DEF InUse, get_pointer
<1>4. QED
    BY <1>1, <1>2, <1>3, SameUses, SameRetired DEF Reclamation!Publish

\* Every step is a step of the abstract specification or none.
LEMMA RefineStep ==
    ASSUME Inv, [Next]_vars
    PROVE  [Reclamation!Next]_(Reclamation!vars)
<1>1. ASSUME NEW c \in Clients, ClientCall(c) \/ ClientStep(c)
      PROVE  [Reclamation!Next]_(Reclamation!vars)
    <2>1. CASE AcquireRead(c) \/ Clear(c) \/ ReleaseClear(c)
        BY <2>1, RefineLetGo, Zenon DEF Reclamation!Next
    <2>2. CASE Validate(c)
        BY <2>2, RefineValidate, Zenon DEF Reclamation!Next
    <2>3. CASE Unlink(c)
        BY <2>3, RefineUnlink, Zenon DEF Reclamation!Next
    <2>4. CASE DeleteMove(c)
        BY <2>4, RefineDelete, Zenon DEF Reclamation!Next
    <2>5. CASE \/ AcquireNode(c) \/ PopRead(c) \/ PopNext(c) \/ PopSwap(c)
               \/ PopClear(c) \/ NewNode(c) \/ Prime(c) \/ AcquireStore(c)
               \/ ReleaseLink(c) \/ ReleaseSwap(c)
               \/ DeleteLink(c) \/ DeleteSwap(c) \/ DeleteCheck(c)
        BY <2>5, RefineQuiet, Zenon
    <2>6. QED
        BY <1>1, <2>1, <2>2, <2>3, <2>4, <2>5, Zenon DEF ClientCall, ClientStep
<1>2. ASSUME NEW g \in Collectors, CollectStep(g)
      PROVE  [Reclamation!Next]_(Reclamation!vars)
    BY <1>2, RefineCollect, RefineReclaim, Zenon DEF Reclamation!Next
<1>3. CASE Publish
    BY <1>3, RefinePublish, Zenon DEF Reclamation!Next
<1>4. CASE Destroy
    BY <1>4, RefineDestroy, Zenon DEF Reclamation!Next
<1>5. CASE UNCHANGED vars
    <2>1. UNCHANGED <<slot, heap, pointer, gc_pointer, hp_node, pc>>
        BY <1>5 DEF vars, app, lists, pointers
    <2>2. \A d \in Clients : InUse(d)' = InUse(d)
        BY <2>1 DEF InUse, get_pointer
    <2>3. QED
        BY <2>1, <2>2, SameUses, SameRetired DEF Reclamation!vars
<1>6. QED
    BY <1>1, <1>2, <1>3, <1>4, <1>5, Zenon DEF Next

\* The lists of nodes, the scan and remove implement safe memory reclamation:
\* what Collect and the destructor delete is retired and in nobody's use, and
\* nothing is retired that is not unlinked, or a second time.
THEOREM Refinement ==
    ASSUME SerialAcquire, SerialDelete
    PROVE  Spec => ImplementsReclamation
<1>1. Init => Reclamation!Init
    BY RefineInit
<1>2. Inv /\ [Next]_vars => [Reclamation!Next]_(Reclamation!vars)
    BY RefineStep
<1>3. QED
    BY <1>1, <1>2, Invariance, PTL
    DEF Spec, ImplementsReclamation, Reclamation!Spec
=============================================================================
