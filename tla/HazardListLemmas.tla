-------------------------- MODULE HazardListLemmas --------------------------
(***************************************************************************)
(* What push, pop and remove of HazardPointerList do to a list of nodes.   *)
(***************************************************************************)
EXTENDS HazardDomain, FiniteSetTheorems, TLAPS

\* Where link number i leads on a list of the nodes s[0] to s[n - 1].
Entry(s, n, i) == IF i < n THEN s[i] ELSE end_node

\* The links from first pass the nodes s[0] to s[n - 1] and end in end_node.
Chain(first, links, s, n) ==
    /\ n \in Nat /\ s \in [0..(n - 1) -> Nodes]
    /\ \A i, j \in 0..(n - 1) : s[i] = s[j] => i = j
    /\ first = Entry(s, n, 0)
    /\ \A i \in 0..(n - 1) : links[s[i]] = Entry(s, n, i + 1)

\* A list: push, pop and remove leave one behind.
IsList(first, links) == \E n, s : Chain(first, links, s, n)

\* Induction along an interval.  A counterexample would make its predecessors
\* counterexamples, too many of them.
LEMMA IntervalInduction ==
    ASSUME NEW N \in Nat, NEW S, 0 \in S,
           \A k \in 0..(N - 1) : k \in S => k + 1 \in S
    PROVE  0..N \subseteq S
<1>1. SUFFICES ASSUME NEW n \in 0..N, n \notin S
               PROVE  FALSE
    OBVIOUS
<1> DEFINE T == (0..n) \ S
           f == [k \in T |-> k - 1]
<1>2. IsFiniteSet(T) /\ n \in T
    <2>1. IsFiniteSet(0..n)
        BY FS_Interval
    <2>2. IsFiniteSet(T)
        BY <2>1, FS_Subset
    <2>3. QED
        BY <1>1, <2>2
<1>3. IsFiniteSet(T \ {n}) /\ Cardinality(T \ {n}) = Cardinality(T) - 1
    BY <1>2, FS_RemoveElement
<1>4. ASSUME NEW k \in T
      PROVE  k - 1 \in T \ {n}
    BY <1>1
<1>5. f \in [T -> T \ {n}]
    BY <1>4
<1>6. \A j, k \in T : f[j] = f[k] => j = k
    BY <1>1
<1>7. f \in Injection(T, T \ {n})
    BY <1>5, <1>6 DEF Injection, IsInjective
<1>8. Cardinality(T) <= Cardinality(T \ {n})
    BY <1>3, <1>7, FS_Injection
<1>9. Cardinality(T) \in Nat
    BY <1>2, FS_CardinalityType
<1>10. QED
    BY <1>3, <1>8, <1>9

\* A list has no more nodes than there are.
LEMMA ChainLength ==
    ASSUME NEW first, NEW links, NEW s, NEW n, Chain(first, links, s, n)
    PROVE  n <= MaxNodes
<1>1. s \in Injection(0..(n - 1), Nodes)
    BY DEF Chain, Injection, IsInjective
<1>2. IsFiniteSet(Nodes) /\ Cardinality(Nodes) = MaxNodes
    BY FS_Interval, MaxNodesAssumption DEF Nodes
<1>3. Cardinality(0..(n - 1)) <= MaxNodes
    BY <1>1, <1>2, FS_Injection
<1>4. n \in Nat
    BY DEF Chain
<1>5. Cardinality(0..(n - 1)) = n
    BY <1>4, FS_Interval
<1>6. QED
    BY <1>3, <1>5

\* Walking along a list meets its nodes in order.
LEMMA ChainWalk ==
    ASSUME NEW first, NEW links, NEW s, NEW n, Chain(first, links, s, n)
    PROVE  \A k \in 0..MaxNodes : Walk(first, links)[k] = Entry(s, n, k)
<1> DEFINE F(f) == [k \in 0..MaxNodes |->
                       IF k = 0 THEN first
                       ELSE IF f[k - 1] \in Nodes THEN links[f[k - 1]]
                       ELSE f[k - 1]]
           g == [k \in 0..MaxNodes |-> Entry(s, n, k)]
           W == Walk(first, links)
           S == {k \in 0..MaxNodes : W[k] = Entry(s, n, k)}
<1>1. ASSUME NEW k \in 0..MaxNodes, k # 0
      PROVE  Entry(s, n, k) = IF Entry(s, n, k - 1) \in Nodes
                              THEN links[Entry(s, n, k - 1)]
                              ELSE Entry(s, n, k - 1)
    BY <1>1, MaxNodesAssumption DEF Chain, Entry, Nodes, end_node
<1>2. Entry(s, n, 0) = first
    BY DEF Chain
<1>3. g = F(g)
    BY <1>1, <1>2, MaxNodesAssumption
<1>4. W = CHOOSE f : f = F(f)
    BY DEF Walk
<1>5. W = F(W)
    BY <1>3, <1>4
<1>6. 0 \in S
    BY <1>2, <1>5, MaxNodesAssumption
<1>7. ASSUME NEW k \in 0..(MaxNodes - 1), k \in S
      PROVE  k + 1 \in S
    BY <1>1, <1>5, <1>7, MaxNodesAssumption
<1>8. 0..MaxNodes \subseteq S
    BY <1>6, <1>7, IntervalInduction, MaxNodesAssumption
<1>9. QED
    BY <1>8

\* The nodes on a list.
LEMMA ChainReach ==
    ASSUME NEW first, NEW links, NEW s, NEW n, Chain(first, links, s, n)
    PROVE  Reach(first, links) = {s[i] : i \in 0..(n - 1)}
<1> DEFINE W == Walk(first, links)
<1>1. n \in Nat /\ n <= MaxNodes /\ s \in [0..(n - 1) -> Nodes]
    BY ChainLength DEF Chain
<1>2. \A k \in 0..MaxNodes : W[k] = Entry(s, n, k)
    BY ChainWalk
<1>3. ASSUME NEW x \in Reach(first, links)
      PROVE  x \in {s[i] : i \in 0..(n - 1)}
    <2>1. PICK k \in 0..MaxNodes : x = W[k] /\ x \in Nodes
        BY <1>3 DEF Reach
    <2>2. k < n
        BY <1>2, <2>1, MaxNodesAssumption DEF Entry, Nodes, end_node
    <2>3. QED
        BY <1>1, <1>2, <2>1, <2>2, MaxNodesAssumption DEF Entry
<1>4. ASSUME NEW i \in 0..(n - 1)
      PROVE  s[i] \in Reach(first, links)
    <2>1. i \in 0..MaxNodes /\ W[i] = s[i] /\ s[i] \in Nodes
        BY <1>1, <1>2, MaxNodesAssumption DEF Entry
    <2>2. QED
        BY <2>1 DEF Reach
<1>5. QED
    BY <1>3, <1>4

-----------------------------------------------------------------------------
\* init() leaves empty lists.
LEMMA EmptyIsList ==
    ASSUME NEW links
    PROVE  IsList(end_node, links) /\ Reach(end_node, links) = {}
<1> DEFINE s == [i \in 0..(0 - 1) |-> end_node]
<1>1. Chain(end_node, links, s, 0)
    BY DEF Chain, Entry
<1>2. Reach(end_node, links) = {s[i] : i \in 0..(0 - 1)}
    BY <1>1, ChainReach
<1>3. QED
    BY <1>1, <1>2 DEF IsList

\* Following the links of a list leads to end_node.
LEMMA ListEnds ==
    ASSUME NEW first, NEW links, IsList(first, links)
    PROVE  Walk(first, links)[MaxNodes] = end_node
<1>1. PICK n, s : Chain(first, links, s, n)
    BY DEF IsList
<1>2. n <= MaxNodes /\ n \in Nat
    BY <1>1, ChainLength DEF Chain
<1>3. Walk(first, links)[MaxNodes] = Entry(s, n, MaxNodes)
    BY <1>1, ChainWalk, MaxNodesAssumption
<1>4. QED
    BY <1>2, <1>3, MaxNodesAssumption DEF Entry

\* Every link of a list leads to another node of it or to end_node, and every
\* node of it is the first or has a link that leads to it.
LEMMA ListLinks ==
    ASSUME NEW first, NEW links, IsList(first, links)
    PROVE  /\ Reach(first, links) \subseteq Nodes
           /\ first \in Reach(first, links) \cup {end_node}
           /\ \A x \in Reach(first, links) :
                  links[x] \in (Reach(first, links) \cup {end_node}) \ {x}
           /\ \A x \in Reach(first, links) :
                  x = first \/ \E p \in Reach(first, links) : links[p] = x
<1>1. PICK n, s : Chain(first, links, s, n)
    BY DEF IsList
<1>2. Reach(first, links) = {s[i] : i \in 0..(n - 1)}
    BY <1>1, ChainReach
<1>3. Reach(first, links) \subseteq Nodes
    BY DEF Reach
<1>4. first \in Reach(first, links) \cup {end_node}
    BY <1>1, <1>2 DEF Chain, Entry
<1>5. ASSUME NEW x \in Reach(first, links)
      PROVE  /\ links[x] \in (Reach(first, links) \cup {end_node}) \ {x}
             /\ x = first \/ \E p \in Reach(first, links) : links[p] = x
    <2>1. PICK i \in 0..(n - 1) : x = s[i]
        BY <1>2, <1>5
    <2>2. links[x] \in (Reach(first, links) \cup {end_node}) \ {x}
        BY <1>1, <1>2, <2>1, MaxNodesAssumption
        DEF Chain, Entry, Nodes, end_node
    <2>3. CASE i = 0
        BY <1>1, <2>1, <2>2, <2>3 DEF Chain, Entry
    <2>4. CASE i # 0
        <3>1. i - 1 \in 0..(n - 1) /\ links[s[i - 1]] = x
            BY <1>1, <2>1, <2>4 DEF Chain, Entry
        <3>2. QED
            BY <1>2, <2>2, <3>1
    <2>5. QED
        BY <2>3, <2>4
<1>6. QED
    BY <1>3, <1>4, <1>5

\* A change of links that are not on a list does not concern the list.
LEMMA ListFrame ==
    ASSUME NEW first, NEW links, NEW links2, IsList(first, links),
           \A x \in Reach(first, links) : links2[x] = links[x]
    PROVE  /\ IsList(first, links2)
           /\ Reach(first, links2) = Reach(first, links)
<1>1. PICK n, s : Chain(first, links, s, n)
    BY DEF IsList
<1>2. Reach(first, links) = {s[i] : i \in 0..(n - 1)}
    BY <1>1, ChainReach
<1>3. Chain(first, links2, s, n)
    BY <1>1, <1>2 DEF Chain
<1>4. Reach(first, links2) = {s[i] : i \in 0..(n - 1)}
    BY <1>3, ChainReach
<1>5. QED
    BY <1>2, <1>3, <1>4 DEF IsList

\* push: a node that links to the first one becomes the first.
LEMMA ListPush ==
    ASSUME NEW first, NEW links, NEW x \in Nodes, IsList(first, links),
           x \notin Reach(first, links), links[x] = first
    PROVE  /\ IsList(x, links)
           /\ Reach(x, links) = Reach(first, links) \cup {x}
<1>1. PICK n, s : Chain(first, links, s, n)
    BY DEF IsList
<1>2. Reach(first, links) = {s[i] : i \in 0..(n - 1)}
    BY <1>1, ChainReach
<1> DEFINE t == [i \in 0..((n + 1) - 1) |-> IF i = 0 THEN x ELSE s[i - 1]]
<1>3. n \in Nat /\ s \in [0..(n - 1) -> Nodes]
    BY <1>1 DEF Chain
<1>4. t \in [0..((n + 1) - 1) -> Nodes]
    BY <1>3
<1>5. \A i, j \in 0..((n + 1) - 1) : t[i] = t[j] => i = j
    BY <1>1, <1>2, <1>3 DEF Chain
<1>6. \A i \in 0..((n + 1) - 1) : links[t[i]] = Entry(t, n + 1, i + 1)
    BY <1>1, <1>3 DEF Chain, Entry
<1>7. Chain(x, links, t, n + 1)
    BY <1>3, <1>4, <1>5, <1>6 DEF Chain, Entry
<1>8. Reach(x, links) = {t[i] : i \in 0..((n + 1) - 1)}
    <2> HIDE DEF t
    <2> QED
        BY <1>7, ChainReach
<1>9. {t[i] : i \in 0..((n + 1) - 1)} = {s[i] : i \in 0..(n - 1)} \cup {x}
    <2>1. ASSUME NEW i \in 0..(n - 1)
          PROVE  i + 1 \in 0..((n + 1) - 1) /\ t[i + 1] = s[i]
        BY <1>3
    <2>2. 0 \in 0..((n + 1) - 1) /\ t[0] = x
        BY <1>3
    <2>3. ASSUME NEW i \in 0..((n + 1) - 1)
          PROVE  t[i] = x \/ \E j \in 0..(n - 1) : t[i] = s[j]
        BY <1>3
    <2> HIDE DEF t
    <2>4. QED
        BY <2>1, <2>2, <2>3
<1>10. QED
    BY <1>2, <1>7, <1>8, <1>9 DEF IsList

\* pop: the second node becomes the first.
LEMMA ListPop ==
    ASSUME NEW first \in Nodes, NEW links, IsList(first, links)
    PROVE  /\ IsList(links[first], links)
           /\ Reach(links[first], links) = Reach(first, links) \ {first}
<1>1. PICK n, s : Chain(first, links, s, n)
    BY DEF IsList
<1>2. Reach(first, links) = {s[i] : i \in 0..(n - 1)}
    BY <1>1, ChainReach
<1> DEFINE t == [i \in 0..((n - 1) - 1) |-> s[i + 1]]
<1>3. /\ n \in Nat /\ n # 0 /\ s \in [0..(n - 1) -> Nodes]
      /\ s[0] = first
    BY <1>1, MaxNodesAssumption DEF Chain, Entry, Nodes, end_node
<1>4. t \in [0..((n - 1) - 1) -> Nodes]
    BY <1>3
<1>5. \A i, j \in 0..((n - 1) - 1) : t[i] = t[j] => i = j
    BY <1>1, <1>3 DEF Chain
<1>6. \A i \in 0..((n - 1) - 1) : links[t[i]] = Entry(t, n - 1, i + 1)
    BY <1>1, <1>3 DEF Chain, Entry
<1>7. links[first] = Entry(t, n - 1, 0)
    BY <1>1, <1>3 DEF Chain, Entry
<1>8. Chain(links[first], links, t, n - 1)
    BY <1>3, <1>4, <1>5, <1>6, <1>7 DEF Chain
<1>9. Reach(links[first], links) = {t[i] : i \in 0..((n - 1) - 1)}
    <2> HIDE DEF t
    <2> QED
        BY <1>8, ChainReach
<1>10. {t[i] : i \in 0..((n - 1) - 1)} = {s[i] : i \in 0..(n - 1)} \ {first}
    <2>1. ASSUME NEW i \in 0..(n - 1), s[i] # first
          PROVE  i - 1 \in 0..((n - 1) - 1) /\ t[i - 1] = s[i]
        BY <1>3, <2>1
    <2>2. ASSUME NEW i \in 0..((n - 1) - 1)
          PROVE  i + 1 \in 0..(n - 1) /\ t[i] = s[i + 1] /\ s[i + 1] # first
        BY <1>1, <1>3 DEF Chain
    <2> HIDE DEF t
    <2>3. QED
        BY <2>1, <2>2
<1>11. QED
    BY <1>2, <1>8, <1>9, <1>10 DEF IsList

\* remove: the link to a node is made the node's own link.
LEMMA ListRemove ==
    ASSUME NEW first, NEW links, NEW links2, IsList(first, links),
           NEW p \in Reach(first, links), links[p] \in Nodes,
           links2[p] = links[links[p]],
           \A y \in Reach(first, links) \ {p} : links2[y] = links[y]
    PROVE  /\ IsList(first, links2)
           /\ Reach(first, links2) = Reach(first, links) \ {links[p]}
<1> DEFINE x == links[p]
<1>1. PICK n, s : Chain(first, links, s, n)
    BY DEF IsList
<1>2. Reach(first, links) = {s[i] : i \in 0..(n - 1)}
    BY <1>1, ChainReach
<1>3. n \in Nat /\ s \in [0..(n - 1) -> Nodes]
    BY <1>1 DEF Chain
<1>4. PICK k \in 0..(n - 1) : s[k] = p
    BY <1>2
<1>5. k + 1 \in 0..(n - 1) /\ s[k + 1] = x
    BY <1>1, <1>3, <1>4, MaxNodesAssumption DEF Chain, Entry, Nodes, end_node
<1> DEFINE t == [i \in 0..((n - 1) - 1) |-> IF i <= k THEN s[i] ELSE s[i + 1]]
<1>6. t \in [0..((n - 1) - 1) -> Nodes]
    BY <1>3
<1>7. \A i, j \in 0..((n - 1) - 1) : t[i] = t[j] => i = j
    BY <1>1, <1>3 DEF Chain
<1>8. first = Entry(t, n - 1, 0)
    BY <1>1, <1>3, <1>4, <1>5 DEF Chain, Entry
<1>9. ASSUME NEW i \in 0..((n - 1) - 1)
      PROVE  links2[t[i]] = Entry(t, n - 1, i + 1)
    <2>1. CASE i = k
        <3>1. links2[t[i]] = links[x]
            BY <1>3, <1>4, <2>1
        <3>2. links[x] = Entry(s, n, k + 2)
            BY <1>1, <1>3, <1>4, <1>5 DEF Chain
        <3>3. QED
            BY <1>3, <1>4, <1>5, <2>1, <3>1, <3>2 DEF Entry
    <2>2. CASE i # k
        <3>1. t[i] # p /\ t[i] \in Reach(first, links)
            BY <1>1, <1>2, <1>3, <1>4, <1>6, <2>2 DEF Chain
        <3>2. links2[t[i]] = links[t[i]]
            BY <3>1
        <3>3. QED
            BY <1>1, <1>3, <1>4, <1>5, <2>2, <3>2 DEF Chain, Entry
    <2>3. QED
        BY <2>1, <2>2
<1>10. Chain(first, links2, t, n - 1)
    <2>1. n - 1 \in Nat
        BY <1>3, <1>5
    <2> HIDE DEF t
    <2>2. QED
        BY <2>1, <1>6, <1>7, <1>8, <1>9 DEF Chain
<1>11. Reach(first, links2) = {t[i] : i \in 0..((n - 1) - 1)}
    <2> HIDE DEF t
    <2> QED
        BY <1>10, ChainReach
<1>12. {t[i] : i \in 0..((n - 1) - 1)} = {s[i] : i \in 0..(n - 1)} \ {x}
    <2>1. ASSUME NEW i \in 0..(n - 1), s[i] # x
          PROVE  \E j \in 0..((n - 1) - 1) : t[j] = s[i]
        <3>1. CASE i <= k
            BY <1>3, <1>5, <3>1
        <3>2. CASE i > k + 1
            <4>1. i - 1 \in 0..((n - 1) - 1) /\ t[i - 1] = s[i]
                BY <1>3, <1>5, <3>2
            <4>2. QED
                BY <4>1
        <3>3. QED
            BY <1>5, <2>1, <3>1, <3>2
    <2>2. ASSUME NEW i \in 0..((n - 1) - 1)
          PROVE  \E j \in 0..(n - 1) : t[i] = s[j] /\ s[j] # x
        <3>1. CASE i <= k
            BY <1>1, <1>3, <1>5, <3>1 DEF Chain
        <3>2. CASE i > k
            <4>1. i + 1 \in 0..(n - 1) /\ t[i] = s[i + 1] /\ s[i + 1] # x
                BY <1>1, <1>3, <1>5, <3>2 DEF Chain
            <4>2. QED
                BY <4>1
        <3>3. QED
            BY <3>1, <3>2
    <2>3. QED
        BY <2>1, <2>2
<1>13. QED
    BY <1>2, <1>10, <1>11, <1>12 DEF IsList
=============================================================================
