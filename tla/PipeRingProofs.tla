--------------------------- MODULE PipeRingProofs ---------------------------
(***************************************************************************)
(* Proofs about PipeRing for every capacity, every set of bytes and every  *)
(* length of request: the circular buffer implements PipeFifo.             *)
(***************************************************************************)
EXTENDS PipeRing, SequenceTheorems, TLAPS

\* The inductive invariant.
Inv ==
    /\ data \in [0..(Capacity - 1) -> Bytes]
    /\ CursorsAgree

LEMMA InitInv == Init => Inv
  <1> SUFFICES ASSUME Init PROVE Inv
    OBVIOUS
  <1>1. Capacity \in Nat \ {0} /\ Zero \in Bytes
    BY PipeAssumption
  <1>2. data \in [0..(Capacity - 1) -> Bytes]
    BY <1>1 DEF Init
  <1>3. CursorsAgree
    BY <1>1 DEF Init, CursorsAgree, Advance
  <1> QED BY <1>2, <1>3 DEF Inv

\* The cursors as numbers, for the arithmetic below.
LEMMA Cursors ==
    ASSUME Inv
    PROVE  /\ Capacity \in Nat \ {0}
           /\ readPos \in Nat /\ readPos < Capacity
           /\ writePos \in Nat /\ writePos < Capacity
           /\ count \in Nat /\ count <= Capacity
           /\ writePos = Advance(readPos, count)
  BY PipeAssumption DEF Inv, CursorsAgree

\* The index k steps after a cursor is in the buffer.
LEMMA AdvanceInRange ==
    ASSUME NEW i \in 0..(Capacity - 1), NEW k \in 0..Capacity
    PROVE  Advance(i, k) \in 0..(Capacity - 1)
  BY PipeAssumption DEF Advance

\* The writing cursor, count steps after the reading one, moves on by w.
LEMMA AdvanceOn ==
    ASSUME NEW r \in 0..(Capacity - 1), NEW c \in 0..Capacity, NEW w \in 0..(Capacity - c)
    PROVE  Advance(Advance(r, c), w) = Advance(r, c + w)
  <1>1. Capacity \in Nat
    BY PipeAssumption
  <1>2. CASE r + c >= Capacity
    <2>1. Advance(r, c) = r + c - Capacity
      BY <1>2 DEF Advance
    <2>2. r + c - Capacity + w < Capacity /\ r + (c + w) >= Capacity
      BY <1>1, <1>2
    <2> QED BY <1>1, <2>1, <2>2 DEF Advance
  <1>3. CASE ~(r + c >= Capacity)
    <2>1. Advance(r, c) = r + c
      BY <1>3 DEF Advance
    <2> QED BY <1>1, <2>1 DEF Advance
  <1> QED BY <1>2, <1>3

\* The place of byte j among those from the writing cursor on: the bytes in the
\* pipe lie past the w that are written, the others are the first w.
Place(r, c, j) ==
    LET i == Advance(r, j - 1)
        p == Advance(r, c)
    IN IF i >= p THEN i - p ELSE i + Capacity - p

LEMMA PlaceOf ==
    ASSUME NEW r \in 0..(Capacity - 1), NEW c \in 0..Capacity, NEW w \in 0..(Capacity - c),
           NEW j \in 1..(c + w)
    PROVE  /\ j <= c => Place(r, c, j) >= w
           /\ j > c => Place(r, c, j) = j - 1 - c
           /\ Place(r, c, j) \in Int
  <1>1. Capacity \in Nat
    BY PipeAssumption
  <1> DEFINE i == Advance(r, j - 1)
             p == Advance(r, c)
  <1>2. i = (IF r + (j - 1) >= Capacity THEN r + (j - 1) - Capacity ELSE r + (j - 1))
    BY DEF Advance
  <1>3. p = (IF r + c >= Capacity THEN r + c - Capacity ELSE r + c)
    BY DEF Advance
  <1>4. Place(r, c, j) = IF i >= p THEN i - p ELSE i + Capacity - p
    BY DEF Place
  <1> HIDE DEF i, p
  <1>5. i \in Int /\ p \in Int
    BY <1>1, <1>2, <1>3
  <1>6. CASE j <= c
    BY <1>1, <1>2, <1>3, <1>4, <1>5, <1>6
  <1>7. CASE j > c
    BY <1>1, <1>2, <1>3, <1>4, <1>5, <1>7
  <1> QED BY <1>1, <1>6, <1>7

\* The bytes of the pipe are a sequence as long as the count says.
ContentIsSeq ==
    /\ Content \in Seq(Bytes) /\ Len(Content) = count
    /\ \A j \in 1..count : Content[j] = data[Advance(readPos, j - 1)]

LEMMA ContentSeq == Inv => ContentIsSeq
  <1> SUFFICES ASSUME Inv PROVE ContentIsSeq
    OBVIOUS
  <1>1. \A j \in 1..count : data[Advance(readPos, j - 1)] \in Bytes
    <2> SUFFICES ASSUME NEW j \in 1..count
                 PROVE  data[Advance(readPos, j - 1)] \in Bytes
      OBVIOUS
    <2>1. readPos \in 0..(Capacity - 1) /\ j - 1 \in 0..Capacity
      BY Cursors
    <2> QED BY <2>1, AdvanceInRange DEF Inv
  <1>2. count \in Nat
    BY Cursors
  <1>3. Content \in [1..count -> Bytes]
    BY <1>1 DEF Content
  <1>4. Content \in Seq(Bytes) /\ Len(Content) = count
    BY <1>2, <1>3
  <1> QED BY <1>4 DEF Content, ContentIsSeq

\* write moves the cursor past what it stored and no further than there is room.
LEMMA WriteKeeps ==
    ASSUME Inv, NEW n \in 0..MaxLen, NEW s \in [1..n -> Bytes], Write(s)
    PROVE  Inv'
  <1>0. Len(s) = n /\ n \in Nat /\ MaxLen \in Nat
    BY PipeAssumption
  <1> DEFINE w == ToWrite(s)
  <1>1. w \in Nat /\ w <= n /\ w <= Capacity - count
    BY <1>0, Cursors DEF ToWrite, Least
  <1>2. /\ writePos' = Advance(writePos, w) /\ count' = count + w /\ readPos' = readPos
        /\ data' = [i \in 0..(Capacity - 1) |->
                      LET k == IF i >= writePos THEN i - writePos
                                               ELSE i + Capacity - writePos
                      IN IF k < w THEN s[k + 1] ELSE data[i]]
    BY DEF Write
  <1> HIDE DEF w
  <1>3. data' \in [0..(Capacity - 1) -> Bytes]
    <2>1. ASSUME NEW i \in 0..(Capacity - 1), NEW k \in Int, k < w, k >= 0
          PROVE  s[k + 1] \in Bytes
      BY <1>0, <1>1, <2>1
    <2>2. ASSUME NEW i \in 0..(Capacity - 1)
          PROVE  data'[i] \in Bytes
      <3> DEFINE k == IF i >= writePos THEN i - writePos ELSE i + Capacity - writePos
      <3>1. k \in Int /\ k >= 0
        BY Cursors
      <3>2. data'[i] = IF k < w THEN s[k + 1] ELSE data[i]
        BY <1>2
      <3> HIDE DEF k
      <3> QED BY <2>1, <3>1, <3>2 DEF Inv
    <2> QED BY <1>2, <2>2
  <1>4. /\ writePos' = Advance(writePos, w) /\ count' = count + w /\ readPos' = readPos
    BY <1>2
  <1>5. /\ readPos \in 0..(Capacity - 1) /\ count \in 0..Capacity
        /\ w \in 0..(Capacity - count) /\ count + w \in 0..Capacity
        /\ writePos = Advance(readPos, count)
    BY <1>1, Cursors
  <1>6. writePos' = Advance(readPos, count + w)
    BY <1>4, <1>5, AdvanceOn
  <1>7. Advance(readPos, count + w) \in 0..(Capacity - 1)
    BY <1>5, AdvanceInRange
  <1>8. CursorsAgree'
    BY <1>4, <1>5, <1>6, <1>7 DEF CursorsAgree
  <1> QED BY <1>3, <1>8 DEF Inv

LEMMA ReadKeeps ==
    ASSUME Inv, NEW n \in 0..MaxLen, Read(n)
    PROVE  Inv'
  <1> DEFINE k == Least(n, count)
  <1>1. k \in Nat /\ k <= count
    BY Cursors, PipeAssumption DEF Least
  <1>2. /\ readPos' = Advance(readPos, k) /\ count' = count - k
        /\ data' = data /\ writePos' = writePos
    BY DEF Read, ReadCursor
  <1> HIDE DEF k
  <1>3. CursorsAgree'
    BY <1>1, <1>2, Cursors DEF CursorsAgree, Advance
  <1> QED BY <1>2, <1>3 DEF Inv

\* The invariant: the cursors never run past each other.
THEOREM SpecInv == Spec => []Inv
  <1>1. ASSUME Inv, [Next]_vars
        PROVE  Inv'
    <2>1. CASE UNCHANGED vars
      BY <1>1, <2>1 DEF vars, Inv, CursorsAgree
    <2>2. CASE Next
      BY <1>1, <2>2, WriteKeeps, ReadKeeps DEF Next
    <2> QED BY <1>1, <2>1, <2>2
  <1> QED BY <1>1, InitInv, PTL DEF Spec

\* write_pos, read_pos and count agree for every capacity.
THEOREM CursorsAlwaysAgree == Spec => []CursorsAgree
  <1>1. Inv => CursorsAgree
    BY DEF Inv
  <1> QED BY <1>1, SpecInv, PTL

-----------------------------------------------------------------------------
(* Refinement *)

\* The two definitions of Least are the same.
LEMMA LeastSame == \A m, n : Fifo!Least(m, n) = Least(m, n)
  BY DEF Fifo!Least, Least

LEMMA InitRefines == Init => Fifo!Init
  <1> SUFFICES ASSUME Init PROVE Fifo!Init
    OBVIOUS
  <1>1. Inv /\ count = 0 /\ out = <<>>
    BY InitInv DEF Init
  <1>2. Content \in Seq(Bytes) /\ Len(Content) = 0
    BY <1>1, ContentSeq DEF ContentIsSeq
  <1>3. Content = <<>>
    BY <1>2
  <1> QED BY <1>1, <1>3 DEF Fifo!Init

\* A byte that was in the pipe stays where it was; the new ones follow it.
LEMMA WriteRefines ==
    ASSUME Inv, NEW n \in 0..MaxLen, NEW s \in [1..n -> Bytes], Write(s)
    PROVE  Fifo!Write(s)
  <1>0. s \in Seq(Bytes) /\ Len(s) = n /\ n \in Nat /\ MaxLen \in Nat
    BY PipeAssumption
  <1> DEFINE w == ToWrite(s)
             new == SubSeq(s, 1, w)
  <1>1. w \in Nat /\ w <= n /\ w <= Capacity - count
    BY <1>0, Cursors DEF ToWrite, Least
  <1>2. /\ count' = count + w /\ readPos' = readPos /\ out' = out
        /\ data' = [i \in 0..(Capacity - 1) |->
                      LET k == IF i >= writePos THEN i - writePos
                                               ELSE i + Capacity - writePos
                      IN IF k < w THEN s[k + 1] ELSE data[i]]
    BY DEF Write
  <1>3. w = Fifo!Least(Len(s), Capacity - Len(Content))
    BY ContentSeq, LeastSame DEF ToWrite, ContentIsSeq
  <1> HIDE DEF w
  <1>4. Inv'
    BY WriteKeeps
  <1>5. /\ Content' \in Seq(Bytes) /\ Len(Content') = count'
        /\ \A j \in 1..count' : Content'[j] = data'[Advance(readPos', j - 1)]
    <2>1. ContentIsSeq'
      BY <1>4, ContentSeq, PTL
    <2> QED BY <2>1 DEF ContentIsSeq
  <1>6. new \in Seq(Bytes) /\ Len(new) = w /\ \A j \in 1..w : new[j] = s[j]
    BY <1>0, <1>1
  <1> HIDE DEF new
  <1>7. /\ Content \in Seq(Bytes) /\ Len(Content) = count /\ count \in Nat
        /\ \A j \in 1..count : Content[j] = data[Advance(readPos, j - 1)]
    BY ContentSeq, Cursors DEF ContentIsSeq
  <1>8. /\ Content \o new \in Seq(Bytes) /\ Len(Content \o new) = count + w
        /\ \A j \in 1..(count + w) :
             (Content \o new)[j] = IF j <= count THEN Content[j] ELSE new[j - count]
    BY <1>6, <1>7, ConcatProperties
  <1>9. ASSUME NEW j \in 1..(count + w)
        PROVE  Content'[j] = (Content \o new)[j]
    <2> DEFINE i == Advance(readPos, j - 1)
               k == IF i >= writePos THEN i - writePos ELSE i + Capacity - writePos
    <2>0. /\ readPos \in 0..(Capacity - 1) /\ count \in 0..Capacity
          /\ w \in 0..(Capacity - count) /\ j - 1 \in 0..Capacity
          /\ j \in Int /\ count \in Int
      BY <1>1, Cursors
    <2>1. /\ i \in 0..(Capacity - 1) /\ k \in Int
          /\ j <= count => ~(k < w)
          /\ j > count => k < w /\ k + 1 = j - count
      <3>1. k = Place(readPos, count, j)
        BY Cursors DEF Place
      <3>2. /\ j <= count => Place(readPos, count, j) >= w
            /\ j > count => Place(readPos, count, j) = j - 1 - count
            /\ Place(readPos, count, j) \in Int
        BY <2>0, PlaceOf
      <3>3. i \in 0..(Capacity - 1)
        BY <2>0, AdvanceInRange
      <3> HIDE DEF i, k
      <3> QED BY <1>1, <2>0, <3>1, <3>2, <3>3
    <2>2. Content'[j] = data'[i]
      BY <1>2, <1>5
    <2>3. data'[i] = IF k < w THEN s[k + 1] ELSE data[i]
      BY <1>2, <2>1
    <2>4. (Content \o new)[j] = IF j <= count THEN Content[j] ELSE new[j - count]
      BY <1>8
    <2>5. CASE j <= count
      <3>1. Content[j] = data[i]
        BY <1>7, <2>5
      <3> HIDE DEF i, k
      <3> QED BY <2>1, <2>2, <2>3, <2>4, <2>5, <3>1
    <2>6. CASE j > count
      <3>1. j - count \in 1..w /\ ~(j <= count)
        BY <1>1, <1>7, <2>6
      <3>2. new[j - count] = s[j - count]
        BY <1>6, <3>1
      <3> HIDE DEF i, k
      <3> QED BY <2>1, <2>2, <2>3, <2>4, <2>6, <3>1, <3>2
    <2>7. j <= count \/ j > count
      BY <2>0
    <2> QED BY <2>5, <2>6, <2>7, Zenon
  <1>10. Content' = Content \o new
    BY <1>2, <1>5, <1>8, <1>9, SeqEqual
  <1> QED BY <1>2, <1>3, <1>10 DEF Fifo!Write, new

\* A read returns the bytes at the reading cursor, and the rest stays behind it.
LEMMA ReadRefines ==
    ASSUME Inv, NEW n \in 0..MaxLen, Read(n)
    PROVE  Fifo!Read(n)
  <1> DEFINE k == Least(n, count)
             rest == SubSeq(Content, k + 1, Len(Content))
             front == SubSeq(Content, 1, k)
  <1>0. n \in Nat
    BY PipeAssumption
  <1>1. k \in Nat /\ k <= count /\ count \in Nat
    BY <1>0, Cursors DEF Least
  <1>2. /\ readPos' = Advance(readPos, k) /\ count' = count - k /\ data' = data
        /\ out' = [j \in 1..k |-> data[Advance(readPos, j - 1)]]
    BY DEF Read, ReadCursor
  <1>3. /\ Content \in Seq(Bytes) /\ Len(Content) = count
        /\ \A j \in 1..count : Content[j] = data[Advance(readPos, j - 1)]
    BY ContentSeq DEF ContentIsSeq
  <1>4. k = Fifo!Least(n, Len(Content))
    BY <1>3, LeastSame
  <1> HIDE DEF k
  <1>5. front \in Seq(Bytes) /\ Len(front) = k /\ \A j \in 1..k : front[j] = Content[j]
    BY <1>1, <1>3
  <1>6. /\ rest \in Seq(Bytes) /\ Len(rest) = count - k
        /\ \A j \in 1..(count - k) : rest[j] = Content[j + k]
    BY <1>1, <1>3
  <1> HIDE DEF front, rest
  <1>7. out' = front
    <2>1. \A j \in 1..k : front[j] = data[Advance(readPos, j - 1)]
      BY <1>1, <1>3, <1>5
    <2>2. front = [j \in 1..k |-> front[j]]
      BY <1>5
    <2> QED BY <1>2, <2>1, <2>2
  <1>8. ContentIsSeq'
    <2>1. Inv'
      BY ReadKeeps
    <2> QED BY <2>1, ContentSeq, PTL
  <1>9. ASSUME NEW j \in 1..(count - k)
        PROVE  Content'[j] = rest[j]
    <2>1. Content'[j] = data[Advance(Advance(readPos, k), j - 1)]
      BY <1>2, <1>8 DEF ContentIsSeq
    <2>2. /\ readPos \in 0..(Capacity - 1) /\ k \in 0..Capacity
          /\ j - 1 \in 0..(Capacity - k) /\ j + k \in 1..count
          /\ k + (j - 1) = (j + k) - 1
      BY <1>1, Cursors
    <2>3. Advance(Advance(readPos, k), j - 1) = Advance(readPos, (j + k) - 1)
      BY <2>2, AdvanceOn
    <2>4. rest[j] = data[Advance(readPos, (j + k) - 1)]
      BY <1>3, <1>6, <2>2
    <2> QED BY <2>1, <2>3, <2>4
  <1>10. Content' = rest
    <2>1. Content' \in Seq(Bytes) /\ Len(Content') = count - k
      BY <1>2, <1>8 DEF ContentIsSeq
    <2> QED BY <1>6, <1>9, <2>1, SeqEqual
  <1> QED BY <1>4, <1>7, <1>10 DEF Fifo!Read, front, rest

\* What is read from the circular buffer is what was written, in order, for every
\* capacity and every length of request: it implements the bounded sequence.
THEOREM RingIsFifo == Spec => FifoSpec
  <1>1. Inv /\ [Next]_vars => [Fifo!Next]_<<Content, out>>
    <2> SUFFICES ASSUME Inv, [Next]_vars
                 PROVE  [Fifo!Next]_<<Content, out>>
      OBVIOUS
    <2>1. CASE UNCHANGED vars
      <3>1. Content' = Content /\ out' = out
        BY <2>1 DEF vars, Content
      <3> QED BY <3>1
    <2>2. ASSUME NEW n \in 0..MaxLen, Read(n)
          PROVE  Fifo!Next
      BY <2>2, ReadRefines DEF Fifo!Next
    <2>3. ASSUME NEW n \in 0..MaxLen, NEW s \in [1..n -> Bytes], Write(s)
          PROVE  Fifo!Next
      BY <2>3, WriteRefines DEF Fifo!Next
    <2> QED BY <2>1, <2>2, <2>3 DEF Next
  <1> QED BY <1>1, InitRefines, SpecInv, PTL DEF Spec, FifoSpec, Fifo!Spec
=============================================================================
