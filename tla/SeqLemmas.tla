----------------------------- MODULE SeqLemmas -----------------------------
(***************************************************************************)
(* Facts about the sequences that stand for VecDeque and Vec, used by the  *)
(* proofs about the kernel's queues.                                       *)
(***************************************************************************)
EXTENDS Queues, TLAPS

\* The elements of a sequence, and of one that has grown.
LEMMA SeqElements ==
    ASSUME NEW S, NEW s \in Seq(S)
    PROVE  /\ Len(s) \in Nat /\ DOMAIN s = 1..Len(s)
           /\ \A i \in 1..Len(s) : s[i] \in S
  OBVIOUS

LEMMA AppendElements ==
    ASSUME NEW S, NEW s \in Seq(S), NEW x \in S
    PROVE  /\ Append(s, x) \in Seq(S)
           /\ Append(s, x) = [i \in 1..(Len(s) + 1) |->
                                IF i = Len(s) + 1 THEN x ELSE s[i]]
  <1> DEFINE a == Append(s, x)
  <1>1. a \in Seq(S) /\ Len(a) = Len(s) + 1
    OBVIOUS
  <1>2. \A i \in 1..(Len(s) + 1) : a[i] = IF i = Len(s) + 1 THEN x ELSE s[i]
    OBVIOUS
  <1> HIDE DEF a
  <1>3. a = [i \in 1..(Len(s) + 1) |-> a[i]]
    BY <1>1
  <1>4. a = [i \in 1..(Len(s) + 1) |-> IF i = Len(s) + 1 THEN x ELSE s[i]]
    BY <1>2, <1>3
  <1> QED BY <1>1, <1>4 DEF a

\* Concatenation, element by element.
LEMMA ConcatElements ==
    ASSUME NEW S, NEW u \in Seq(S), NEW v \in Seq(S)
    PROVE  /\ u \o v \in Seq(S)
           /\ Len(u \o v) = Len(u) + Len(v)
           /\ \A j \in 1..(Len(u) + Len(v)) :
                (u \o v)[j] = IF j <= Len(u) THEN u[j] ELSE v[j - Len(u)]
  OBVIOUS

\* Vec::remove: the elements before i stay, those after it move down by one.
LEMMA RemoveAtElements ==
    ASSUME NEW S, NEW s \in Seq(S), NEW i \in 1..Len(s)
    PROVE  /\ RemoveAt(s, i) \in Seq(S)
           /\ Len(RemoveAt(s, i)) = Len(s) - 1
           /\ \A j \in 1..(Len(s) - 1) :
                RemoveAt(s, i)[j] = IF j < i THEN s[j] ELSE s[j + 1]
  <1> DEFINE u == SubSeq(s, 1, i - 1)
             v == SubSeq(s, i + 1, Len(s))
  <1>1. u \in Seq(S) /\ Len(u) = i - 1 /\ \A j \in 1..(i - 1) : u[j] = s[j]
    OBVIOUS
  <1>2. v \in Seq(S) /\ Len(v) = Len(s) - i
                     /\ \A j \in 1..(Len(s) - i) : v[j] = s[j + i]
    OBVIOUS
  <1> HIDE DEF u, v
  <1>3. u \o v \in Seq(S) /\ Len(u \o v) = Len(s) - 1
    BY <1>1, <1>2
  <1>4. ASSUME NEW j \in 1..(Len(s) - 1)
        PROVE  (u \o v)[j] = IF j < i THEN s[j] ELSE s[j + 1]
    <2>1. (u \o v)[j] = IF j <= Len(u) THEN u[j] ELSE v[j - Len(u)]
      BY <1>1, <1>2, ConcatElements
    <2>2. CASE j < i
      BY <1>1, <2>1, <2>2
    <2>3. CASE ~(j < i)
      <3>1. j - (i - 1) \in 1..(Len(s) - i)
        BY <2>3
      <3>2. v[j - (i - 1)] = s[j - (i - 1) + i]
        BY <1>2, <3>1
      <3> QED BY <1>1, <2>1, <2>3, <3>2
    <2> QED BY <2>2, <2>3
  <1>5. RemoveAt(s, i) = u \o v
    BY DEF RemoveAt, u, v
  <1> QED BY <1>3, <1>4, <1>5

\* The last element of a sequence with one element, and what is before it.
LEMMA SingletonLast ==
    ASSUME NEW S, NEW s \in Seq(S), Len(s) = 1
    PROVE  Last(s) = s[1] /\ s[1] \in S /\ Front(s) = <<>>
  BY DEF Last, Front

\* A non-empty sequence has a last element, and its front is a sequence.
LEMMA LastFront ==
    ASSUME NEW S, NEW s \in Seq(S), s # <<>>
    PROVE  Last(s) \in S /\ Front(s) \in Seq(S)
  BY DEF Last, Front

-----------------------------------------------------------------------------
(* A queue without duplicates and the set of its elements *)

\* push_back of an element the queue does not hold.
LEMMA AppendSet ==
    ASSUME NEW S, NEW s \in Seq(S), NEW x \in S
    PROVE  /\ Range(Append(s, x)) = Range(s) \cup {x}
           /\ IsInjective(s) /\ x \notin Range(s) => IsInjective(Append(s, x))
  <1> DEFINE a == Append(s, x)
  <1>1. /\ DOMAIN s = 1..Len(s) /\ DOMAIN a = 1..(Len(s) + 1)
        /\ a[Len(s) + 1] = x /\ \A i \in 1..Len(s) : a[i] = s[i]
        /\ Len(s) \in Nat
    OBVIOUS
  <1> HIDE DEF a
  <1>2. Range(a) = Range(s) \cup {x}
    BY <1>1 DEF Range
  <1>3. ASSUME IsInjective(s), x \notin Range(s) PROVE IsInjective(a)
    BY <1>1, <1>3 DEF Range, IsInjective
  <1> QED BY <1>2, <1>3 DEF a

\* pop_front of a non-empty queue.
LEMMA TailSet ==
    ASSUME NEW S, NEW s \in Seq(S), s # <<>>, IsInjective(s)
    PROVE  /\ Head(s) \in Range(s)
           /\ Range(Tail(s)) = Range(s) \ {Head(s)}
           /\ IsInjective(Tail(s))
  <1> DEFINE u == Tail(s)
             n == Len(s) - 1
  <1>1. /\ DOMAIN s = 1..(n + 1) /\ DOMAIN u = 1..n /\ n \in Nat
        /\ Head(s) = s[1] /\ \A i \in 1..n : u[i] = s[i + 1]
    OBVIOUS
  <1> HIDE DEF u, n
  <1>2. Head(s) \in Range(s)
    BY <1>1 DEF Range
  <1>3. Range(u) \subseteq Range(s) \ {Head(s)}
    BY <1>1 DEF Range, IsInjective
  <1>4. ASSUME NEW i \in 1..(n + 1), s[i] # s[1] PROVE s[i] \in Range(u)
    <2>1. i - 1 \in 1..n /\ u[i - 1] = s[i]
      BY <1>1, <1>4
    <2> QED BY <1>1, <2>1 DEF Range
  <1>5. Range(s) \ {Head(s)} \subseteq Range(u)
    BY <1>1, <1>4 DEF Range
  <1>6. IsInjective(u)
    BY <1>1 DEF IsInjective
  <1> QED BY <1>2, <1>3, <1>5, <1>6 DEF u

\* remove(i).
LEMMA RemoveAtSet ==
    ASSUME NEW S, NEW s \in Seq(S), NEW i \in 1..Len(s), IsInjective(s)
    PROVE  /\ Range(RemoveAt(s, i)) = Range(s) \ {s[i]}
           /\ IsInjective(RemoveAt(s, i))
  <1> DEFINE u == RemoveAt(s, i)
             n == Len(s) - 1
  <1>1. /\ DOMAIN s = 1..(n + 1) /\ DOMAIN u = 1..n /\ n \in Nat
        /\ \A j \in 1..n : u[j] = IF j < i THEN s[j] ELSE s[j + 1]
    BY RemoveAtElements
  <1>0. i \in 1..(n + 1)
    OBVIOUS
  <1> HIDE DEF u, n
  <1> DEFINE from(j) == IF j < i THEN j ELSE j + 1
  <1>a. \A j \in 1..n : from(j) \in 1..(n + 1) /\ from(j) # i /\ u[j] = s[from(j)]
    BY <1>0, <1>1
  <1>b. \A j, k \in 1..n : from(j) = from(k) => j = k
    BY <1>0
  <1> HIDE DEF from
  <1>2. Range(u) \subseteq Range(s) \ {s[i]}
    <2>1. \A j \in 1..n : u[j] \in Range(s)
      BY <1>1, <1>a DEF Range
    <2>2. \A j \in 1..n : u[j] # s[i]
      BY <1>0, <1>1, <1>a DEF IsInjective
    <2> QED BY <1>1, <2>1, <2>2 DEF Range
  <1>3. ASSUME NEW j \in 1..(n + 1), s[j] # s[i] PROVE s[j] \in Range(u)
    <2>1. CASE j < i
      BY <1>0, <1>1, <2>1 DEF Range
    <2>2. CASE j > i
      <3>1. j - 1 \in 1..n /\ u[j - 1] = s[j]
        BY <1>0, <1>1, <2>2
      <3> QED BY <1>1, <3>1 DEF Range
    <2> QED BY <1>0, <1>3, <2>1, <2>2
  <1>4. Range(s) \ {s[i]} \subseteq Range(u)
    BY <1>1, <1>3 DEF Range
  <1>5. IsInjective(u)
    BY <1>1, <1>a, <1>b DEF IsInjective
  <1> QED BY <1>2, <1>4, <1>5 DEF u
=============================================================================
