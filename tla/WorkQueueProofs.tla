-------------------------- MODULE WorkQueueProofs --------------------------
(***************************************************************************)
(* Proofs about WorkQueue for every ring size and every word size that is  *)
(* a multiple of it: the ring implements WorkFifo, whatever a push of an   *)
(* interrupt handler comes between.                                        *)
(***************************************************************************)
EXTENDS WorkQueue, SequenceTheorems, TLAPS

-----------------------------------------------------------------------------
(* Arithmetic *)

LEMMA MulAtLeast ==
    ASSUME NEW q \in Int, NEW n \in Nat \ {0}
    PROVE  /\ q >= 1 => q * n >= n
           /\ q <= 0 - 1 => q * n <= 0 - n
  OBVIOUS

LEMMA DivMod ==
    ASSUME NEW x \in Int, NEW n \in Nat \ {0}
    PROVE  /\ x % n \in 0..(n - 1) /\ x \div n \in Int
           /\ x = (x \div n) * n + (x % n)
  OBVIOUS

\* The remainder is determined by the range it lies in.
LEMMA ModUnique ==
    ASSUME NEW q \in Int, NEW n \in Nat \ {0}, NEW r \in 0..(n - 1)
    PROVE  (q * n + r) % n = r
  <1> DEFINE x == q * n + r
             p == x \div n
             m == x % n
  <1>1. x \in Int
    OBVIOUS
  <1>2. m \in 0..(n - 1) /\ p \in Int /\ x = p * n + m
    BY <1>1, DivMod
  <1>3. (p - q) * n = r - m /\ p - q \in Int
    BY <1>2
  <1> HIDE DEF p, m, x
  <1>4. ~(p - q >= 1) /\ ~(p - q <= 0 - 1)
    BY <1>2, <1>3, MulAtLeast
  <1>5. p - q = 0
    BY <1>3, <1>4
  <1>6. r = m
    BY <1>2, <1>3, <1>5
  <1> QED BY <1>6 DEF m, x

\* Adding a multiple of n changes no remainder.
LEMMA ModShift ==
    ASSUME NEW x \in Int, NEW q \in Int, NEW n \in Nat \ {0}
    PROVE  (x + q * n) % n = x % n
  <1> DEFINE p == x \div n
             m == x % n
  <1>1. m \in 0..(n - 1) /\ p \in Int /\ x = p * n + m
    BY DivMod
  <1> HIDE DEF p, m
  <1>2. x + q * n = (p + q) * n + m /\ p + q \in Int
    BY <1>1
  <1>3. ((p + q) * n + m) % n = m
    BY <1>1, <1>2, ModUnique
  <1> QED BY <1>2, <1>3 DEF m

\* Numbers less than n apart have different remainders.
LEMMA ModNear ==
    ASSUME NEW x \in Int, NEW d \in Int, NEW n \in Nat \ {0}, 0 < d, d < n
    PROVE  (x + d) % n # x % n
  <1> DEFINE p == x \div n
             m == x % n
             y == x + d
             q == y \div n
             k == y % n
  <1>1. m \in 0..(n - 1) /\ p \in Int /\ x = p * n + m
    BY DivMod
  <1>2. k \in 0..(n - 1) /\ q \in Int /\ x + d = q * n + k
    <2>1. y \in Int
      OBVIOUS
    <2> HIDE DEF y
    <2>2. k \in 0..(n - 1) /\ q \in Int /\ y = q * n + k
      BY <2>1, DivMod
    <2> QED BY <2>2 DEF y
  <1> HIDE DEF p, m, q, k
  <1>3. ASSUME k = m
        PROVE  FALSE
    <2>1. (q - p) * n = d /\ q - p \in Int
      BY <1>1, <1>2, <1>3
    <2>2. ~(q - p >= 1) /\ ~(q - p <= 0 - 1)
      BY <2>1, MulAtLeast
    <2>3. q - p = 0
      BY <2>1, <2>2
    <2> QED BY <2>1, <2>3
  <1> QED BY <1>3 DEF k, m

\* Small numbers are their own remainders, and those a little larger lose n.
LEMMA ModSmall ==
    ASSUME NEW x \in Nat, NEW n \in Nat \ {0}, x < 2 * n
    PROVE  x % n = IF x < n THEN x ELSE x - n
  <1>1. CASE x < n
    BY <1>1, ModUnique, x = 0 * n + x
  <1>2. CASE ~(x < n)
    <2>1. x - n \in 0..(n - 1) /\ x = 1 * n + (x - n)
      BY <1>2
    <2> QED BY <1>2, <2>1, ModUnique
  <1> QED BY <1>1, <1>2

-----------------------------------------------------------------------------
(* Indices *)

Word == 0..(Wrap - 1)

\* The number of increments from r to w.
Dist(r, w) == (w + Wrap - r) % Wrap

LEMMA Sizes ==
    /\ Size \in Nat \ {0} /\ Wrap \in Nat \ {0} /\ Wrap > Size
    /\ Wrap \div Size \in Int /\ Wrap = (Wrap \div Size) * Size
  <1>1. Size \in Nat \ {0} /\ Wrap \in Nat \ {0} /\ Wrap > Size /\ Wrap % Size = 0
    BY WorkQueueAssumption
  <1>2. Wrap \div Size \in Int /\ Wrap = (Wrap \div Size) * Size + (Wrap % Size)
    BY <1>1, DivMod
  <1> QED BY <1>1, <1>2

LEMMA DistIs ==
    ASSUME NEW r \in Word, NEW w \in Word
    PROVE  Dist(r, w) = (IF w >= r THEN w - r ELSE w + Wrap - r) /\ Dist(r, w) \in Word
  <1> DEFINE x == w + Wrap - r
  <1>1. Wrap \in Nat \ {0}
    BY Sizes
  <1>2. x \in Nat /\ x < 2 * Wrap
    BY <1>1 DEF Word
  <1>3. x % Wrap = IF x < Wrap THEN x ELSE x - Wrap
    BY <1>1, <1>2, ModSmall
  <1> QED BY <1>1, <1>3 DEF Dist, Word

LEMMA IncrementedIs ==
    ASSUME NEW i \in Word
    PROVE  Incremented(i) = (IF i + 1 = Wrap THEN 0 ELSE i + 1) /\ Incremented(i) \in Word
  <1>1. Wrap \in Nat \ {0} /\ Wrap >= 1
    BY Sizes
  <1> DEFINE y == i + 1
  <1>2. y \in Nat /\ y < 2 * Wrap
    BY <1>1 DEF Word
  <1> HIDE DEF y
  <1>3. y % Wrap = IF y < Wrap THEN y ELSE y - Wrap
    BY <1>1, <1>2, ModSmall
  <1>4. (i + 1) % Wrap = IF i + 1 < Wrap THEN i + 1 ELSE (i + 1) - Wrap
    BY <1>3 DEF y
  <1> QED BY <1>1, <1>4 DEF Incremented, Word

\* Increments of the writing index lengthen the distance, those of the reading one
\* shorten it, as long as it is neither full nor empty.
LEMMA DistStep ==
    ASSUME NEW r \in Word, NEW w \in Word
    PROVE  /\ Dist(r, w) < Wrap - 1 => Dist(r, Incremented(w)) = Dist(r, w) + 1
           /\ r # w => Dist(Incremented(r), w) = Dist(r, w) - 1
           /\ (Dist(r, w) = 0) <=> (r = w)
  <1>1. Wrap \in Nat \ {0}
    BY Sizes
  <1>2. Dist(r, w) = (IF w >= r THEN w - r ELSE w + Wrap - r)
    BY DistIs
  <1>3. /\ Incremented(w) = (IF w + 1 = Wrap THEN 0 ELSE w + 1) /\ Incremented(w) \in Word
        /\ Incremented(r) = (IF r + 1 = Wrap THEN 0 ELSE r + 1) /\ Incremented(r) \in Word
    BY IncrementedIs
  <1> DEFINE v == Incremented(w)
             s == Incremented(r)
  <1>4. Dist(r, v) = (IF v >= r THEN v - r ELSE v + Wrap - r)
    BY <1>3, DistIs
  <1>5. Dist(s, w) = (IF w >= s THEN w - s ELSE w + Wrap - s)
    BY <1>3, DistIs
  <1>6. ASSUME Dist(r, w) < Wrap - 1 PROVE Dist(r, v) = Dist(r, w) + 1
    BY <1>1, <1>2, <1>3, <1>4, <1>6 DEF Word
  <1>7. ASSUME r # w PROVE Dist(s, w) = Dist(r, w) - 1
    BY <1>1, <1>2, <1>3, <1>5, <1>7 DEF Word
  <1>8. (Dist(r, w) = 0) <=> (r = w)
    BY <1>1, <1>2 DEF Word
  <1> QED BY <1>6, <1>7, <1>8

\* The slot of an index: k increments after r, whether or not it has wrapped.
LEMMA SlotAfter ==
    ASSUME NEW r \in Word, NEW w \in Word, NEW k \in Nat
    PROVE  /\ (w + k) % Size = (r + (Dist(r, w) + k)) % Size
           /\ (w + k) % Size \in 0..(Size - 1)
  <1>1. Size \in Nat \ {0} /\ Wrap \in Nat \ {0}
    BY Sizes
  <1>2. w + k \in Int /\ Dist(r, w) = (IF w >= r THEN w - r ELSE w + Wrap - r)
    BY DistIs DEF Word
  <1> DEFINE q == Wrap \div Size
             x == w + k
  <1>3. q \in Int /\ Wrap = q * Size
    BY Sizes
  <1> HIDE DEF q, x
  <1>4. x \in Int
    BY <1>2 DEF x
  <1>5. (x + q * Size) % Size = x % Size /\ x % Size \in 0..(Size - 1)
    BY <1>1, <1>3, <1>4, ModShift, DivMod
  <1>6. r + (Dist(r, w) + k) \in {x, x + Wrap}
    BY <1>1, <1>2 DEF x, Word
  <1>7. x + Wrap = x + q * Size
    BY <1>3
  <1>8. CASE r + (Dist(r, w) + k) = x
    BY <1>5, <1>8 DEF x
  <1>9. CASE r + (Dist(r, w) + k) = x + q * Size
    BY <1>5, <1>9 DEF x
  <1> QED BY <1>6, <1>7, <1>8, <1>9

-----------------------------------------------------------------------------
(* The invariant *)

Count == Dist(read, write)

\* The slot of the k-th item from the reading index
Slot(k) == storage[(read + k) % Size]

\* At most Size items lie between the indices and each has its item in the slot;
\* a value loaded by reset lies between them still, however many pushes came
\* after; drain holds an item that was published.
Inv ==
    /\ TypeOK
    /\ Count <= Size
    /\ \A k \in 0..(Count - 1) : Slot(k) \in Items
    /\ pc = "reset" => Dist(read, loaded) <= Count
    /\ pc \in {"copy", "advance"} => Count > 0
    /\ pc = "advance" => item = Slot(0)
    /\ pc = "dispatch" => item \in Items
    /\ ran # None => Kind[ran] \in callbacks

LEMMA CountNat == TypeOK => Count \in Nat /\ Count < Wrap /\ Published \in [1..Count -> Items \cup {None}]
  <1> SUFFICES ASSUME TypeOK
               PROVE  Count \in Nat /\ Count < Wrap
                      /\ Published \in [1..Count -> Items \cup {None}]
    OBVIOUS
  <1>1. read \in Word /\ write \in Word /\ Wrap \in Nat \ {0}
    BY Sizes DEF TypeOK, Word
  <1>2. Count \in Nat /\ Count < Wrap
    BY <1>1, DistIs DEF Count, Word
  <1>3. ASSUME NEW k \in 1..Count
        PROVE  storage[(read + k - 1) % Size] \in Items \cup {None}
    <2>1. read + k - 1 \in Int /\ Size \in Nat \ {0}
      BY <1>1, <1>2, Sizes DEF Word
    <2>2. (read + k - 1) % Size \in 0..(Size - 1)
      BY <2>1, DivMod
    <2> QED BY <2>2 DEF TypeOK
  <1>4. Published = [k \in 1..Count |-> storage[(read + k - 1) % Size]]
    BY DEF Published, Count, Dist
  <1> QED BY <1>2, <1>3, <1>4

\* The published items are a sequence of Count items.
PublishedIs ==
    /\ Published \in Seq(Items) /\ Len(Published) = Count
    /\ \A k \in 1..Count : Published[k] = Slot(k - 1)

LEMMA PublishedSeq == Inv => PublishedIs
  <1> SUFFICES ASSUME Inv PROVE PublishedIs
    OBVIOUS
  <1>1. Count \in Nat /\ read \in Int
    BY CountNat, Sizes DEF Inv, TypeOK
  <1>2. Published = [k \in 1..Count |-> storage[(read + k - 1) % Size]]
    BY DEF Published, Count, Dist
  <1>3. ASSUME NEW k \in 1..Count
        PROVE  Published[k] = Slot(k - 1) /\ Slot(k - 1) \in Items
    <2>1. k - 1 \in 0..(Count - 1) /\ read + k - 1 = read + (k - 1)
      BY <1>1
    <2>2. Published[k] = storage[(read + k - 1) % Size]
      BY <1>2
    <2> QED BY <2>1, <2>2 DEF Slot, Inv
  <1>4. Published \in [1..Count -> Items]
    BY <1>2, <1>3
  <1>5. Published \in Seq(Items) /\ Len(Published) = Count
    BY <1>1, <1>4
  <1> QED BY <1>3, <1>5 DEF PublishedIs

LEMMA InitInv == Init => Inv
  <1> SUFFICES ASSUME Init PROVE Inv
    OBVIOUS
  <1>1. Size \in Nat \ {0} /\ Wrap \in Nat \ {0} /\ 0 \in Word
    BY Sizes DEF Word
  <1>2. TypeOK
    BY <1>1 DEF Init, TypeOK, Word
  <1>3. Count = 0
    BY <1>1, DistIs DEF Count, Init
  <1> QED BY <1>1, <1>2, <1>3 DEF Inv, Init

\* The numbers of a state, for the arithmetic below.
LEMMA Indices ==
    ASSUME Inv
    PROVE  /\ read \in Word /\ write \in Word /\ read \in Int /\ write \in Int
           /\ Count \in Nat /\ Count <= Size
           /\ Size \in Nat \ {0} /\ Wrap \in Nat \ {0} /\ Wrap > Size
  BY CountNat, Sizes DEF Inv, TypeOK, Word

\* A push fills the slot behind the last item and no other.
LEMMA PushSlots ==
    ASSUME Inv, NEW i \in Items, Push(i)
    PROVE  /\ Count < Size /\ Count' = Count + 1
           /\ \A k \in 0..(Count - 1) : Slot(k)' = Slot(k)
           /\ \A k \in Nat : k = Count => Slot(k)' = i
           /\ write' \in Word /\ storage' \in [0..(Size - 1) -> Items \cup {None}]
  <1>1. /\ read \in Word /\ write \in Word /\ read \in Int /\ write \in Int
        /\ Count \in Nat /\ Count <= Size
        /\ Size \in Nat \ {0} /\ Wrap \in Nat \ {0} /\ Wrap > Size
    BY Indices
  <1>2. /\ storage' = [storage EXCEPT ![write % Size] = i]
        /\ write' = Incremented(write) /\ read' = read
    BY DEF Push
  <1>3. ~((write + Wrap - read) % Wrap >= Size)
    BY DEF Push, Full
  <1>4. Count < Size
    BY <1>1, <1>3 DEF Count, Dist
  <1>5. Count' = Count + 1 /\ write' \in Word
    <2>1. Dist(read, write) < Wrap - 1
      BY <1>1, <1>4 DEF Count
    <2>2. Dist(read, Incremented(write)) = Dist(read, write) + 1
      BY <1>1, <2>1, DistStep
    <2> QED BY <1>1, <1>2, <2>2, IncrementedIs DEF Count
  <1>6. write % Size = (read + Count) % Size /\ write % Size \in 0..(Size - 1)
    <2>1. (write + 0) % Size = (read + (Dist(read, write) + 0)) % Size
          /\ (write + 0) % Size \in 0..(Size - 1)
      BY <1>1, SlotAfter
    <2>2. write + 0 = write /\ Dist(read, write) + 0 = Count
      BY <1>1 DEF Count
    <2> QED BY <2>1, <2>2
  <1>7. storage \in [0..(Size - 1) -> Items \cup {None}]
    BY DEF Inv, TypeOK
  <1>8. ASSUME NEW k \in 0..(Count - 1)
        PROVE  Slot(k)' = Slot(k)
    <2> DEFINE x == read + k
               d == Count - k
    <2>1. x \in Int /\ d \in Int /\ 0 < d /\ d < Size /\ x + d = read + Count
      BY <1>1, <1>4
    <2>2. (x + d) % Size # x % Size /\ x % Size \in 0..(Size - 1)
      <3> HIDE DEF x, d
      <3> QED BY <1>1, <2>1, ModNear, DivMod
    <2>3. (read + k) % Size # write % Size
      BY <1>6, <2>1, <2>2
    <2> QED BY <1>2, <1>6, <1>7, <2>2, <2>3 DEF Slot
  <1>9. ASSUME NEW k \in Nat, k = Count
        PROVE  Slot(k)' = i
    <2>1. storage'[write % Size] = i
      BY <1>2, <1>6, <1>7
    <2> QED BY <1>2, <1>6, <1>9, <2>1 DEF Slot
  <1>10. storage' \in [0..(Size - 1) -> Items \cup {None}]
    BY <1>2, <1>7
  <1> QED BY <1>4, <1>5, <1>8, <1>9, <1>10

\* When the reading index moves over d items, the items that are left keep
\* their order and their slots.
LEMMA ReadMoves ==
    ASSUME Inv, NEW r \in Word, Dist(read, r) <= Count,
           read' = r, UNCHANGED <<storage, write>>
    PROVE  /\ Dist(read, r) \in Nat
           /\ Count' = Count - Dist(read, r)
           /\ \A k \in Nat : Slot(k)' = Slot(k + Dist(read, r))
  <1>1. /\ read \in Word /\ write \in Word /\ read \in Int /\ write \in Int
        /\ Count \in Nat /\ Count <= Size
        /\ Size \in Nat \ {0} /\ Wrap \in Nat \ {0} /\ Wrap > Size
    BY Indices
  <1> DEFINE d == Dist(read, r)
  <1>2. d = (IF r >= read THEN r - read ELSE r + Wrap - read) /\ d \in Nat
    BY <1>1, DistIs DEF Word
  <1>3. Dist(r, write) = (IF write >= r THEN write - r ELSE write + Wrap - r)
    BY <1>1, DistIs
  <1>4. Dist(read, write) = (IF write >= read THEN write - read ELSE write + Wrap - read)
    BY <1>1, DistIs
  <1>5. d <= Dist(read, write)
    BY DEF Count
  <1>6. Dist(r, write) = Dist(read, write) - d
    <2> HIDE DEF d
    <2> QED BY <1>1, <1>2, <1>3, <1>4, <1>5 DEF Word
  <1>7. Count' = Count - d
    BY <1>6 DEF Count
  <1>8. ASSUME NEW k \in Nat
        PROVE  Slot(k)' = Slot(k + d)
    <2>1. (r + k) % Size = (read + (d + k)) % Size
      BY <1>1, SlotAfter
    <2>2. d + k = k + d
      BY <1>2
    <2>3. (r + k) % Size = (read + (k + d)) % Size
      BY <2>1, <2>2
    <2> QED BY <2>3 DEF Slot
  <1> QED BY <1>2, <1>7, <1>8

LEMMA PushInv == ASSUME Inv, NEW i \in Items, Push(i) PROVE Inv'
  <1>1. /\ Count < Size /\ Count' = Count + 1
        /\ \A k \in 0..(Count - 1) : Slot(k)' = Slot(k)
        /\ \A k \in Nat : k = Count => Slot(k)' = i
        /\ write' \in Word /\ storage' \in [0..(Size - 1) -> Items \cup {None}]
    BY PushSlots
  <1>2. Count \in Nat /\ Size \in Nat
    BY Indices
  <1>3. UNCHANGED <<read, callbacks, pc, loaded, item, ran>>
    BY DEF Push
  <1>4. TypeOK'
    BY <1>1, <1>3 DEF Inv, TypeOK, Word
  <1>5. Count' <= Size
    BY <1>1, <1>2
  <1>6. ASSUME NEW k \in 0..(Count' - 1)
        PROVE  Slot(k)' \in Items
    <2>1. k \in Nat /\ (k \in 0..(Count - 1) \/ k = Count)
      BY <1>1, <1>2
    <2>2. CASE k \in 0..(Count - 1)
      BY <1>1, <2>2 DEF Inv
    <2>3. CASE k = Count
      BY <1>1, <2>1, <2>3
    <2> QED BY <2>1, <2>2, <2>3
  <1>7. (pc = "reset" => Dist(read, loaded) <= Count)'
    <2>1. Dist(read, loaded)' = Dist(read, loaded)
      BY <1>3 DEF Dist
    <2>2. read \in Word /\ loaded \in Word /\ Wrap \in Nat
      BY Sizes DEF Inv, TypeOK, Word
    <2>3. Dist(read, loaded) \in Int
      BY <2>2, DistIs DEF Word
    <2>4. pc = "reset" => Dist(read, loaded) <= Count
      BY DEF Inv
    <2> QED BY <1>1, <1>2, <1>3, <2>1, <2>3, <2>4
  <1>8. (pc \in {"copy", "advance"} => Count > 0)'
    BY <1>1, <1>2
  <1>9. (pc = "advance" => item = Slot(0))'
    <2> SUFFICES ASSUME pc = "advance" PROVE item' = Slot(0)'
      BY <1>3
    <2>1. Count > 0 /\ item = Slot(0)
      BY DEF Inv
    <2>2. 0 \in 0..(Count - 1)
      BY <1>2, <2>1
    <2>3. Slot(0)' = Slot(0)
      BY <1>1, <2>2
    <2> QED BY <1>3, <2>1, <2>3
  <1>10. (pc = "dispatch" => item \in Items)' /\ (ran # None => Kind[ran] \in callbacks)'
    BY <1>3 DEF Inv
  <1> QED BY <1>4, <1>5, <1>6, <1>7, <1>8, <1>9, <1>10 DEF Inv

\* After a move of the reading index the items in front of it are items still.
LEMMA ReadMovesItems ==
    ASSUME Inv, NEW r \in Word, Dist(read, r) <= Count,
           read' = r, UNCHANGED <<storage, write>>
    PROVE  Count' <= Size /\ \A k \in 0..(Count' - 1) : Slot(k)' \in Items
  <1> DEFINE d == Dist(read, r)
  <1>1. Count \in Nat /\ Count <= Size /\ Size \in Nat
    BY Indices
  <1>2. d \in Nat /\ Count' = Count - d /\ \A k \in Nat : Slot(k)' = Slot(k + d)
    BY ReadMoves
  <1> HIDE DEF d
  <1>3. Count' <= Size
    BY <1>1, <1>2
  <1>4. ASSUME NEW k \in 0..(Count' - 1)
        PROVE  Slot(k)' \in Items
    <2>1. k \in Nat /\ k + d \in 0..(Count - 1)
      BY <1>1, <1>2
    <2>2. Slot(k + d) \in Items
      BY <2>1 DEF Inv
    <2> QED BY <1>2, <2>1, <2>2
  <1> QED BY <1>3, <1>4

\* A reset moves the index to the value it loaded.
LEMMA ResetMove == ASSUME Inv, ResetStore PROVE loaded \in Word /\ Dist(read, loaded) <= Count
  BY DEF Inv, TypeOK, ResetStore, Word

\* An advance moves the index by one.
LEMMA AdvanceMove ==
    ASSUME Inv, DrainAdvance
    PROVE  /\ Incremented(read) \in Word /\ Dist(read, Incremented(read)) = 1
           /\ Count > 0 /\ item = Slot(0) /\ Slot(0) \in Items
  <1>1. /\ read \in Word /\ Count \in Nat
        /\ Size \in Nat \ {0} /\ Wrap \in Nat \ {0} /\ Wrap > Size
    BY Indices
  <1>2. Count > 0 /\ item = Slot(0)
    BY DEF Inv, DrainAdvance
  <1>3. Dist(read, read) = 0
    BY <1>1, DistStep
  <1>4. Dist(read, Incremented(read)) = 1 /\ Incremented(read) \in Word
    BY <1>1, <1>3, DistStep, IncrementedIs
  <1>5. 0 \in 0..(Count - 1)
    BY <1>1, <1>2
  <1>6. Slot(0) \in Items
    BY <1>5 DEF Inv
  <1> QED BY <1>2, <1>4, <1>6

LEMMA ResetStoreInv == ASSUME Inv, ResetStore PROVE Inv'
  <1>1. loaded \in Word /\ Dist(read, loaded) <= Count
    BY ResetMove
  <1>2. Count' <= Size /\ \A k \in 0..(Count' - 1) : Slot(k)' \in Items
    BY <1>1, ReadMovesItems DEF ResetStore
  <1>3. TypeOK' /\ pc' = "drain"
    BY DEF ResetStore, Goto, Inv, TypeOK
  <1>4. (ran # None => Kind[ran] \in callbacks)'
    BY DEF ResetStore, Inv
  <1> QED BY <1>2, <1>3, <1>4 DEF Inv

LEMMA DrainAdvanceInv == ASSUME Inv, DrainAdvance PROVE Inv'
  <1>1. /\ Incremented(read) \in Word /\ Dist(read, Incremented(read)) = 1
        /\ Count > 0 /\ item = Slot(0) /\ Slot(0) \in Items
    BY AdvanceMove
  <1>2. Count \in Nat
    BY Indices
  <1>3. Count' <= Size /\ \A k \in 0..(Count' - 1) : Slot(k)' \in Items
    BY <1>1, <1>2, ReadMovesItems DEF DrainAdvance
  <1>4. TypeOK' /\ pc' = "dispatch"
    BY <1>1 DEF DrainAdvance, Goto, Inv, TypeOK, Word
  <1>5. (ran # None => Kind[ran] \in callbacks)' /\ item' \in Items
    BY <1>1 DEF DrainAdvance, Inv
  <1> QED BY <1>3, <1>4, <1>5 DEF Inv

\* A step that leaves the ring alone.
LEMMA RingKept ==
    ASSUME Inv, UNCHANGED <<storage, write, read>>
    PROVE  /\ Count' = Count /\ \A k \in Nat : Slot(k)' = Slot(k)
           /\ Count' <= Size /\ \A k \in 0..(Count' - 1) : Slot(k)' \in Items
           /\ Published' = Published
  <1>1. Count \in Nat
    BY Indices
  <1>2. Count' = Count /\ \A k \in Nat : Slot(k)' = Slot(k)
    BY DEF Count, Slot
  <1>3. Published' = Published
    BY DEF Published
  <1>4. \A k \in 0..(Count - 1) : k \in Nat /\ Slot(k) \in Items
    BY <1>1 DEF Inv
  <1> QED BY <1>2, <1>3, <1>4 DEF Inv

LEMMA RegisterInv == ASSUME Inv, NEW k \in Kinds, Register(k) PROVE Inv'
  <1>1. /\ Count' <= Size /\ \A j \in 0..(Count' - 1) : Slot(j)' \in Items
    BY RingKept DEF Register
  <1>2. TypeOK' /\ pc' = "boot"
    BY DEF Register, Inv, TypeOK
  <1>3. (ran # None => Kind[ran] \in callbacks)'
    BY DEF Register, Inv
  <1> QED BY <1>1, <1>2, <1>3 DEF Inv

LEMMA ResetLoadInv == ASSUME Inv, ResetLoad PROVE Inv'
  <1>1. /\ Count' = Count /\ Count' <= Size /\ \A j \in 0..(Count' - 1) : Slot(j)' \in Items
    BY RingKept DEF ResetLoad
  <1>2. TypeOK' /\ pc' = "reset"
    BY DEF ResetLoad, Goto, Inv, TypeOK
  <1>3. (ran # None => Kind[ran] \in callbacks)'
    BY DEF ResetLoad, Inv
  <1>4. Dist(read, loaded)' = Count
    BY DEF ResetLoad, Count
  <1>5. Count \in Nat
    BY Indices
  <1> QED BY <1>1, <1>2, <1>3, <1>4, <1>5 DEF Inv

LEMMA DrainCheckInv == ASSUME Inv, DrainCheck PROVE Inv'
  <1>1. /\ Count' = Count /\ Count' <= Size /\ \A j \in 0..(Count' - 1) : Slot(j)' \in Items
    BY RingKept DEF DrainCheck
  <1>2. TypeOK' /\ pc' = "copy"
    BY DEF DrainCheck, Goto, Inv, TypeOK
  <1>3. (ran # None => Kind[ran] \in callbacks)'
    BY DEF DrainCheck, Inv
  <1>4. Count > 0
    <2>1. Count \in Nat /\ read \in Word /\ write \in Word
      BY Indices
    <2>2. Dist(read, write) # 0
      BY <2>1, DistStep DEF DrainCheck, Empty
    <2> QED BY <2>1, <2>2 DEF Count
  <1> QED BY <1>1, <1>2, <1>3, <1>4 DEF Inv

LEMMA DrainCopyInv == ASSUME Inv, DrainCopy PROVE Inv'
  <1>1. /\ Count' = Count /\ Count' <= Size /\ \A j \in 0..(Count' - 1) : Slot(j)' \in Items
        /\ \A k \in Nat : Slot(k)' = Slot(k)
    BY RingKept DEF DrainCopy
  <1>2. Count \in Nat /\ Count > 0 /\ read \in Int /\ read + 0 = read
    <2>1. Count \in Nat /\ read \in Int
      BY Indices
    <2> QED BY <2>1 DEF DrainCopy, Inv
  <1>3. item' = Slot(0)
    BY <1>2 DEF DrainCopy, CopySlot, Slot
  <1>4. Slot(0) \in Items
    <2>1. 0 \in 0..(Count - 1)
      BY <1>2
    <2> QED BY <2>1 DEF Inv
  <1>5. TypeOK' /\ pc' = "advance"
    BY <1>3, <1>4 DEF DrainCopy, Goto, Inv, TypeOK
  <1>6. (ran # None => Kind[ran] \in callbacks)'
    BY DEF DrainCopy, Inv
  <1>7. item' = Slot(0)'
    BY <1>1, <1>3
  <1> QED BY <1>1, <1>2, <1>5, <1>6, <1>7 DEF Inv

LEMMA DispatchInv == ASSUME Inv, Dispatch PROVE Inv'
  <1>1. /\ Count' <= Size /\ \A j \in 0..(Count' - 1) : Slot(j)' \in Items
    BY RingKept DEF Dispatch
  <1>2. TypeOK' /\ pc' = "return"
    BY DEF Dispatch, Goto, Inv, TypeOK
  <1>3. (ran # None => Kind[ran] \in callbacks)'
    BY DEF Dispatch, Inv
  <1> QED BY <1>1, <1>2, <1>3 DEF Inv

LEMMA CallbackReturnsInv == ASSUME Inv, CallbackReturns PROVE Inv'
  <1>1. /\ Count' <= Size /\ \A j \in 0..(Count' - 1) : Slot(j)' \in Items
    BY RingKept DEF CallbackReturns
  <1>2. TypeOK' /\ pc' = "drain"
    BY DEF CallbackReturns, Goto, Inv, TypeOK
  <1>3. (ran # None => Kind[ran] \in callbacks)'
    BY DEF CallbackReturns, Inv
  <1> QED BY <1>1, <1>2, <1>3 DEF Inv

LEMMA StutterInv == ASSUME Inv, UNCHANGED vars PROVE Inv'
  <1>1. /\ Count' = Count /\ \A k \in Nat : Slot(k)' = Slot(k)
        /\ Count' <= Size /\ \A j \in 0..(Count' - 1) : Slot(j)' \in Items
    BY RingKept DEF vars
  <1>2. TypeOK'
    BY DEF Inv, TypeOK, vars
  <1>3. (pc = "reset" => Dist(read, loaded) <= Count)'
    BY DEF Inv, vars, Count
  <1>4. (pc \in {"copy", "advance"} => Count > 0)'
    BY <1>1 DEF Inv, vars
  <1>5. (pc = "advance" => item = Slot(0))'
    BY <1>1 DEF Inv, vars
  <1>6. (pc = "dispatch" => item \in Items)' /\ (ran # None => Kind[ran] \in callbacks)'
    BY DEF Inv, vars
  <1> QED BY <1>1, <1>2, <1>3, <1>4, <1>5, <1>6 DEF Inv

LEMMA StepInv == Inv /\ [Next]_vars => Inv'
  <1> SUFFICES ASSUME Inv, [Next]_vars PROVE Inv'
    OBVIOUS
  <1>1. ASSUME NEW i \in Items, Push(i) PROVE Inv'
    BY <1>1, PushInv
  <1>2. ASSUME NEW k \in Kinds, Register(k) PROVE Inv'
    BY <1>2, RegisterInv
  <1>3. CASE ResetLoad
    BY <1>3, ResetLoadInv
  <1>4. CASE ResetStore
    BY <1>4, ResetStoreInv
  <1>5. CASE DrainCheck
    BY <1>5, DrainCheckInv
  <1>6. CASE DrainCopy
    BY <1>6, DrainCopyInv
  <1>7. CASE DrainAdvance
    BY <1>7, DrainAdvanceInv
  <1>8. CASE Dispatch
    BY <1>8, DispatchInv
  <1>9. CASE CallbackReturns
    BY <1>9, CallbackReturnsInv
  <1>10. CASE UNCHANGED vars
    BY <1>10, StutterInv
  <1> QED BY <1>1, <1>2, <1>3, <1>4, <1>5, <1>6, <1>7, <1>8, <1>9, <1>10 DEF Next, MainLoop

\* Invariant of the ring, whatever a push comes between.
THEOREM SpecInv == Spec => []Inv
  BY InitInv, StepInv, PTL DEF Spec

\* Types, for every size of the ring.
THEOREM TypeCorrect == Spec => []TypeOK
  <1>1. Inv => TypeOK
    BY DEF Inv
  <1> QED BY <1>1, SpecInv, PTL

\* drain never hands an EMPTY slot to dispatch and never runs the callback of a
\* kind that is not registered, for every size of the ring.
THEOREM OnlyPublishedRuns == Spec => []OnlyPublished
  <1>1. Inv => OnlyPublished
    <2> SUFFICES ASSUME Inv PROVE OnlyPublished
      OBVIOUS
    <2>1. ASSUME pc = "advance" PROVE item \in Items
      <3>1. Count \in Nat /\ Count > 0 /\ item = Slot(0)
        BY <2>1, Indices DEF Inv
      <3>2. 0 \in 0..(Count - 1)
        BY <3>1
      <3> QED BY <3>1, <3>2 DEF Inv
    <2>2. pc = "dispatch" => item \in Items
      BY DEF Inv
    <2>3. ran # None => Kind[ran] \in callbacks
      BY DEF Inv
    <2> QED BY <2>1, <2>2, <2>3, WorkQueueAssumption DEF OnlyPublished
  <1> QED BY <1>1, SpecInv, PTL

-----------------------------------------------------------------------------
(* Refinement *)

LEMMA InitRefines == Init => Fifo!Init
  <1> SUFFICES ASSUME Init PROVE Fifo!Init
    OBVIOUS
  <1>1. Inv /\ PublishedIs
    BY InitInv, PublishedSeq
  <1>2. Count = 0
    <2>1. read \in Word /\ write \in Word /\ read = write
      BY <1>1, Indices DEF Init
    <2> QED BY <2>1, DistStep DEF Count
  <1>3. Published = <<>>
    BY <1>1, <1>2, EmptySeq DEF PublishedIs
  <1> QED BY <1>3 DEF Fifo!Init, Init, InHand

\* An accepted item is the last of the queue.
LEMMA PushRefines == ASSUME Inv, NEW i \in Items, Push(i) PROVE Fifo!Accept(i)
  <1>1. /\ Count < Size /\ Count' = Count + 1
        /\ \A k \in 0..(Count - 1) : Slot(k)' = Slot(k)
        /\ \A k \in Nat : k = Count => Slot(k)' = i
    BY PushSlots
  <1>2. Count \in Nat /\ Size \in Nat
    BY Indices
  <1>3. PublishedIs /\ PublishedIs'
    <2>1. Inv'
      BY PushInv
    <2> QED BY <2>1, PublishedSeq, PTL
  <1> DEFINE p == Published
             q == Append(p, i)
  <1>4. p \in Seq(Items) /\ Len(p) = Count /\ \A k \in 1..Count : p[k] = Slot(k - 1)
    BY <1>3 DEF PublishedIs
  <1>5. /\ Published' \in Seq(Items) /\ Len(Published') = Count + 1
        /\ \A k \in 1..(Count + 1) : Published'[k] = Slot(k - 1)'
    BY <1>1, <1>3 DEF PublishedIs
  <1>6. q \in Seq(Items) /\ Len(q) = Count + 1
        /\ \A k \in 1..(Count + 1) : q[k] = IF k = Count + 1 THEN i ELSE p[k]
    <2> HIDE DEF p
    <2> QED BY <1>2, <1>4
  <1>7. ASSUME NEW k \in 1..(Count + 1)
        PROVE  Published'[k] = q[k]
    <2>1. CASE k = Count + 1
      <3>1. k - 1 \in Nat /\ k - 1 = Count
        BY <1>2, <2>1
      <3> QED BY <1>1, <1>5, <1>6, <2>1, <3>1
    <2>2. CASE k # Count + 1
      <3>1. k - 1 \in 0..(Count - 1) /\ k \in 1..Count
        BY <1>2, <2>2
      <3> QED BY <1>1, <1>4, <1>5, <1>6, <2>2, <3>1
    <2> QED BY <2>1, <2>2
  <1>8. Published' = q
    <2> HIDE DEF q
    <2> QED BY <1>5, <1>6, <1>7, SeqEqual
  <1>9. UNCHANGED <<pc, item>>
    BY DEF Push
  <1> QED BY <1>1, <1>4, <1>8, <1>9 DEF Fifo!Accept, InHand

\* When the reading index moves over n items, these leave the front of the queue.
LEMMA ReadMovesQueue ==
    ASSUME Inv, Inv', NEW r \in Word, Dist(read, r) <= Count,
           read' = r, UNCHANGED <<storage, write>>
    PROVE  /\ Dist(read, r) \in 0..Len(Published)
           /\ Published' = SubSeq(Published, Dist(read, r) + 1, Len(Published))
  <1> DEFINE n == Dist(read, r)
             p == Published
             rest == SubSeq(p, n + 1, Len(p))
  <1>1. n \in Nat /\ Count' = Count - n /\ \A k \in Nat : Slot(k)' = Slot(k + n)
    BY ReadMoves
  <1>2. Count \in Nat /\ n <= Count
    BY Indices
  <1>3. PublishedIs /\ PublishedIs'
    BY PublishedSeq, PTL
  <1>4. p \in Seq(Items) /\ Len(p) = Count /\ \A k \in 1..Count : p[k] = Slot(k - 1)
    BY <1>3 DEF PublishedIs
  <1>5. /\ Published' \in Seq(Items) /\ Len(Published') = Count - n
        /\ \A k \in 1..(Count - n) : Published'[k] = Slot(k - 1)'
    BY <1>1, <1>3 DEF PublishedIs
  <1> HIDE DEF n, p
  <1>6. /\ rest \in Seq(Items) /\ Len(rest) = Count - n
        /\ \A k \in 1..(Count - n) : rest[k] = p[k + n]
    <2>1. \A k \in (n + 1)..Len(p) : p[k] \in Items
      BY <1>1, <1>2, <1>4
    <2>2. n + 1 \in Int /\ Len(p) \in Int
      BY <1>1, <1>2, <1>4
    <2>3. /\ rest \in Seq(Items)
          /\ Len(rest) = IF n + 1 <= Len(p) THEN Len(p) - (n + 1) + 1 ELSE 0
          /\ \A k \in 1..(Len(p) - (n + 1) + 1) : rest[k] = p[n + 1 + k - 1]
      BY <2>1, <2>2, SubSeqProperties
    <2>4. Len(p) - (n + 1) + 1 = Count - n /\ \A k \in Int : n + 1 + k - 1 = k + n
      BY <1>1, <1>2, <1>4
    <2>5. Len(rest) = Count - n
      BY <1>1, <1>2, <1>4, <2>3
    <2> HIDE DEF rest
    <2>6. ASSUME NEW k \in 1..(Count - n)
          PROVE  rest[k] = p[k + n]
      <3>1. k \in 1..(Len(p) - (n + 1) + 1) /\ k \in Int
        BY <2>4
      <3>2. n + 1 + k - 1 = k + n
        BY <2>4, <3>1
      <3> QED BY <2>3, <3>1, <3>2
    <2> QED BY <2>3, <2>5, <2>6
  <1> HIDE DEF rest
  <1>7. ASSUME NEW k \in 1..(Count - n)
        PROVE  Published'[k] = rest[k]
    <2>1. k - 1 \in Nat /\ k + n \in 1..Count /\ (k - 1) + n = (k + n) - 1
      BY <1>1, <1>2
    <2>2. Published'[k] = Slot((k - 1) + n)
      BY <1>1, <1>5, <2>1
    <2>3. rest[k] = Slot((k + n) - 1)
      BY <1>4, <1>6, <2>1
    <2> QED BY <2>1, <2>2, <2>3
  <1>8. Published' = rest
    BY <1>5, <1>6, <1>7, SeqEqual
  <1>9. n \in 0..Len(p)
    BY <1>1, <1>2, <1>4
  <1> QED BY <1>8, <1>9 DEF n, p, rest

LEMMA ResetRefines == ASSUME Inv, ResetStore PROVE Fifo!Begin
  <1>1. loaded \in Word /\ Dist(read, loaded) <= Count
    BY ResetMove
  <1>2. /\ Dist(read, loaded) \in 0..Len(Published)
        /\ Published' = SubSeq(Published, Dist(read, loaded) + 1, Len(Published))
    BY <1>1, ReadMovesQueue, ResetStoreInv DEF ResetStore
  <1>3. pc = "reset" /\ pc' = "drain" /\ InHand' = InHand
    BY DEF ResetStore, Goto, InHand
  <1> QED BY <1>2, <1>3 DEF Fifo!Begin

LEMMA AdvanceRefines == ASSUME Inv, DrainAdvance PROVE Fifo!Take
  <1>1. /\ Incremented(read) \in Word /\ Dist(read, Incremented(read)) = 1
        /\ Count > 0 /\ item = Slot(0)
    BY AdvanceMove
  <1>2. Count \in Nat
    BY Indices
  <1>3. /\ 1 \in 0..Len(Published)
        /\ Published' = SubSeq(Published, 1 + 1, Len(Published))
    <2>1. Dist(read, Incremented(read)) <= Count
      BY <1>1, <1>2
    <2> QED BY <1>1, <2>1, ReadMovesQueue, DrainAdvanceInv DEF DrainAdvance
  <1>4. Published \in Seq(Items) /\ Len(Published) = Count /\ Published[1] = Slot(0)
    <2>1. PublishedIs /\ 1 \in 1..Count /\ 1 - 1 = 0
      BY <1>1, <1>2, PublishedSeq
    <2> QED BY <2>1 DEF PublishedIs
  <1> DEFINE p == Published
  <1>5. p # <<>> /\ Head(p) = p[1] /\ Tail(p) = SubSeq(p, 2, Len(p))
    <2> HIDE DEF p
    <2>1. p \in Seq(Items) /\ Len(p) > 0
      BY <1>1, <1>4 DEF p
    <2>2. p # <<>>
      BY <2>1, EmptySeq
    <2> QED BY <2>1, <2>2, TailIsSubSeq
  <1>6. pc = "advance" /\ pc' = "dispatch" /\ item' = item
    BY DEF DrainAdvance, Goto
  <1>7. InHand = None /\ InHand' = item
    BY <1>6 DEF InHand
  <1> QED BY <1>1, <1>3, <1>4, <1>5, <1>6, <1>7 DEF Fifo!Take

LEMMA DispatchRefines == ASSUME Inv, Dispatch PROVE Fifo!Done
  <1>1. Published' = Published
    BY RingKept DEF Dispatch
  <1>2. pc = "dispatch" /\ pc' = "return" /\ item \in Items
    BY DEF Dispatch, Goto, Inv
  <1>3. InHand = item /\ InHand' = None /\ item # None
    BY <1>2, WorkQueueAssumption DEF InHand
  <1> QED BY <1>1, <1>2, <1>3 DEF Fifo!Done

\* The steps of the main loop that the queue does not show.
LEMMA OthersStutter ==
    ASSUME Inv,
           \/ \E k \in Kinds : Register(k)
           \/ ResetLoad \/ DrainCheck \/ DrainCopy \/ CallbackReturns
           \/ UNCHANGED vars
    PROVE  UNCHANGED Fifo!vars
  <1>1. UNCHANGED <<storage, write, read>>
    BY DEF Register, ResetLoad, DrainCheck, DrainCopy, CallbackReturns, vars
  <1>2. Published' = Published
    BY <1>1, RingKept
  <1>3. InHand' = InHand
    BY DEF Register, ResetLoad, DrainCheck, DrainCopy, CallbackReturns, vars, Goto, InHand
  <1>4. (pc \notin {"boot", "reset"})' = (pc \notin {"boot", "reset"})
    BY DEF Register, ResetLoad, DrainCheck, DrainCopy, CallbackReturns, vars, Goto
  <1> QED BY <1>2, <1>3, <1>4 DEF Fifo!vars

\* For every size of the ring, and wherever a push of an interrupt handler comes
\* between two accesses of the main loop, the ring is the bounded queue: items
\* are handed out once each and in order, and only a full ring refuses one.
THEOREM RingIsFifo == Spec => FifoSpec
  <1>1. ASSUME Inv, [Next]_vars
        PROVE  [Fifo!Next]_(Fifo!vars)
    <2>1. ASSUME NEW i \in Items, Push(i) PROVE Fifo!Next
      BY <1>1, <2>1, PushRefines DEF Fifo!Next
    <2>2. CASE ResetStore
      BY <1>1, <2>2, ResetRefines DEF Fifo!Next
    <2>3. CASE DrainAdvance
      BY <1>1, <2>3, AdvanceRefines DEF Fifo!Next
    <2>4. CASE Dispatch
      BY <1>1, <2>4, DispatchRefines DEF Fifo!Next
    <2>5. CASE \/ \E k \in Kinds : Register(k)
               \/ ResetLoad \/ DrainCheck \/ DrainCopy \/ CallbackReturns
               \/ UNCHANGED vars
      BY <1>1, <2>5, OthersStutter
    <2> QED BY <1>1, <2>1, <2>2, <2>3, <2>4, <2>5 DEF Next, MainLoop
  <1> QED BY <1>1, InitRefines, SpecInv, PTL DEF Spec, FifoSpec, Fifo!Spec
=============================================================================
