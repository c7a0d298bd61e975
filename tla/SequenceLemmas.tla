--------------------------- MODULE SequenceLemmas ---------------------------
(***************************************************************************)
(* What the operators on queues and vectors do to a sequence without       *)
(* repetitions.                                                            *)
(***************************************************************************)
EXTENDS Integers, SequencesExt, SequenceTheorems, TLAPS

\* Erasing an entry leaves the others, in their order.
LEMMA RemoveAtEntries ==
    ASSUME NEW S, NEW s \in Seq(S), NEW i \in 1..Len(s)
    PROVE  /\ RemoveAt(s, i) \in Seq(S)
           /\ Len(RemoveAt(s, i)) = Len(s) - 1
           /\ \A j \in 1..Len(s) - 1 :
                  RemoveAt(s, i)[j] = IF j < i THEN s[j] ELSE s[j + 1]
<1> DEFINE a == SubSeq(s, 1, i - 1)
           b == SubSeq(s, i + 1, Len(s))
<1>1. Len(s) \in Nat /\ i \in Nat /\ i >= 1 /\ i <= Len(s)
    BY LenProperties
<1>2. /\ a \in Seq(S) /\ Len(a) = i - 1
      /\ \A j \in 1..i - 1 : a[j] = s[j]
  <2>1. \A j \in 1..i - 1 : s[j] \in S
    BY <1>1, ElementOfSeq
  <2>2. QED
    BY <1>1, <2>1, SubSeqProperties
<1>3. /\ b \in Seq(S) /\ Len(b) = Len(s) - i
      /\ \A j \in 1..Len(s) - i : b[j] = s[i + j]
  <2>1. \A j \in i + 1..Len(s) : s[j] \in S
    BY <1>1, ElementOfSeq
  <2>2. QED
    BY <1>1, <2>1, SubSeqProperties
<1>4. /\ a \o b \in Seq(S)
      /\ Len(a \o b) = Len(a) + Len(b)
      /\ \A j \in 1..Len(a) + Len(b) :
             (a \o b)[j] = IF j <= Len(a) THEN a[j] ELSE b[j - Len(a)]
    BY <1>2, <1>3, ConcatProperties
<1>5. RemoveAt(s, i) = a \o b
    BY DEF RemoveAt
<1> HIDE DEF a, b
<1>6. \A j \in 1..Len(s) - 1 :
          (a \o b)[j] = IF j < i THEN s[j] ELSE s[j + 1]
  <2> TAKE j \in 1..Len(s) - 1
  <2>1. CASE j < i
    BY <1>1, <1>2, <1>3, <1>4, <2>1
  <2>2. CASE ~(j < i)
    <3>1. j - (i - 1) \in 1..Len(s) - i /\ i + (j - (i - 1)) = j + 1
        BY <1>1, <2>2
    <3>2. (a \o b)[j] = b[j - (i - 1)]
        BY <1>1, <1>2, <1>3, <1>4, <2>2
    <3>3. QED
        BY <1>3, <2>2, <3>1, <3>2
  <2>3. QED
    BY <2>1, <2>2
<1>7. a \o b \in Seq(S) /\ Len(a \o b) = Len(s) - 1
    BY <1>1, <1>2, <1>3, <1>4
<1>8. QED
    BY <1>5, <1>6, <1>7, Zenon

-----------------------------------------------------------------------------
(* Sequences without repetitions.                                           *)

\* What a sequence without repetitions is, entry by entry.
LEMMA DistinctEntries ==
    ASSUME NEW S, NEW s \in Seq(S)
    PROVE  /\ IsInjective(s) <=>
                  \A i, j \in 1..Len(s) : s[i] = s[j] => i = j
           /\ Range(s) = {s[i] : i \in 1..Len(s)}
           /\ Range(s) \subseteq S
<1>1. DOMAIN s = 1..Len(s)
    BY LenProperties
<1>2. \A i \in 1..Len(s) : s[i] \in S
    BY ElementOfSeq
<1>3. QED
    BY <1>1, <1>2 DEF IsInjective, Range

\* The empty sequence.
LEMMA EmptyDistinct ==
    ASSUME NEW S
    PROVE  <<>> \in Seq(S) /\ IsInjective(<<>>) /\ Range(<<>>) = {}
<1>1. <<>> \in Seq(S) /\ DOMAIN <<>> = {}
    BY EmptySeq
<1>2. QED
    BY <1>1 DEF IsInjective, Range

\* A new entry at the end.
LEMMA AppendDistinct ==
    ASSUME NEW S, NEW s \in Seq(S), IsInjective(s), NEW e \in S \ Range(s)
    PROVE  /\ Append(s, e) \in Seq(S)
           /\ IsInjective(Append(s, e))
           /\ Range(Append(s, e)) = Range(s) \cup {e}
<1> DEFINE r == Append(s, e)
<1>1. /\ r \in Seq(S) /\ Len(r) = Len(s) + 1 /\ Len(s) \in Nat
      /\ \A i \in 1..Len(s) : r[i] = s[i]
      /\ r[Len(s) + 1] = e
    BY AppendProperties, LenProperties
<1>2. /\ \A i, j \in 1..Len(s) : s[i] = s[j] => i = j
      /\ Range(s) = {s[i] : i \in 1..Len(s)}
    BY DistinctEntries
<1> HIDE DEF r
<1>3. Range(r) = {r[i] : i \in 1..Len(r)}
    BY <1>1, DistinctEntries
<1>4. \A i, j \in 1..Len(r) : r[i] = r[j] => i = j
    BY <1>1, <1>2
<1>5. IsInjective(r)
    BY <1>1, <1>4, DistinctEntries
<1>6. Range(r) \subseteq Range(s) \cup {e}
    BY <1>1, <1>2, <1>3
<1>7. Range(s) \cup {e} \subseteq Range(r)
    BY <1>1, <1>2, <1>3
<1>8. QED
    BY <1>1, <1>5, <1>6, <1>7 DEF r

\* An entry is erased.
LEMMA RemoveAtDistinct ==
    ASSUME NEW S, NEW s \in Seq(S), IsInjective(s), NEW i \in 1..Len(s)
    PROVE  /\ RemoveAt(s, i) \in Seq(S)
           /\ IsInjective(RemoveAt(s, i))
           /\ Range(RemoveAt(s, i)) = Range(s) \ {s[i]}
<1> DEFINE r == RemoveAt(s, i)
<1>1. /\ r \in Seq(S) /\ Len(r) = Len(s) - 1
      /\ \A j \in 1..Len(s) - 1 : r[j] = IF j < i THEN s[j] ELSE s[j + 1]
    BY RemoveAtEntries
<1>2. /\ \A j, k \in 1..Len(s) : s[j] = s[k] => j = k
      /\ Range(s) = {s[j] : j \in 1..Len(s)}
    BY DistinctEntries
<1>3. Range(r) = {r[j] : j \in 1..Len(r)}
    BY <1>1, DistinctEntries
<1>4. Len(s) \in Nat
    BY LenProperties
<1> HIDE DEF r
<1>5. \A j, k \in 1..Len(r) : r[j] = r[k] => j = k
    BY <1>1, <1>2, <1>4
<1>6. IsInjective(r)
    BY <1>1, <1>5, DistinctEntries
<1>7. Range(r) \subseteq Range(s) \ {s[i]}
    BY <1>1, <1>2, <1>3, <1>4
<1>8. ASSUME NEW j \in 1..Len(s), j # i
      PROVE  s[j] \in Range(r)
  <2>1. CASE j < i
    <3>1. j \in 1..Len(r) /\ r[j] = s[j]
        BY <1>1, <1>4, <2>1
    <3>2. QED
        BY <1>3, <3>1
  <2>2. CASE j > i
    <3>1. j - 1 \in 1..Len(r) /\ r[j - 1] = s[j]
        BY <1>1, <1>4, <2>2
    <3>2. QED
        BY <1>3, <3>1
  <2>3. QED
    BY <1>4, <1>8, <2>1, <2>2
<1>9. Range(s) \ {s[i]} \subseteq Range(r)
    BY <1>2, <1>8
<1>10. QED
    BY <1>1, <1>6, <1>7, <1>9 DEF r

\* The first entry is taken.
LEMMA TailDistinct ==
    ASSUME NEW S, NEW s \in Seq(S), IsInjective(s), s # <<>>
    PROVE  /\ Head(s) \in Range(s)
           /\ Tail(s) \in Seq(S)
           /\ IsInjective(Tail(s))
           /\ Range(Tail(s)) = Range(s) \ {Head(s)}
<1> DEFINE r == Tail(s)
<1>1. /\ r \in Seq(S) /\ Len(r) = Len(s) - 1
      /\ \A j \in 1..Len(r) : r[j] = s[j + 1]
    BY HeadTailProperties
<1>2. /\ \A j, k \in 1..Len(s) : s[j] = s[k] => j = k
      /\ Range(s) = {s[j] : j \in 1..Len(s)}
    BY DistinctEntries
<1>3. Range(r) = {r[j] : j \in 1..Len(r)}
    BY <1>1, DistinctEntries
<1>4. Len(s) \in Nat /\ Len(s) # 0 /\ Head(s) = s[1]
    BY LenProperties, EmptySeq
<1> HIDE DEF r
<1>5. \A j, k \in 1..Len(r) : r[j] = r[k] => j = k
    BY <1>1, <1>2, <1>4
<1>6. IsInjective(r)
    BY <1>1, <1>5, DistinctEntries
<1>7. Range(r) \subseteq Range(s) \ {s[1]}
    BY <1>1, <1>2, <1>3, <1>4
<1>8. ASSUME NEW j \in 1..Len(s), j # 1
      PROVE  s[j] \in Range(r)
  <2>1. j - 1 \in 1..Len(r) /\ r[j - 1] = s[j]
    BY <1>1, <1>4, <1>8
  <2>2. QED
    BY <1>3, <2>1
<1>9. Range(s) \ {s[1]} \subseteq Range(r)
    BY <1>2, <1>8
<1>10. Head(s) \in Range(s)
    BY <1>2, <1>4
<1>11. QED
    BY <1>1, <1>4, <1>6, <1>7, <1>9, <1>10 DEF r
=============================================================================
