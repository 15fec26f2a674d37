---------------------------- MODULE VmAreaProofs ----------------------------
(***************************************************************************)
(* Proofs about VmArea for every layout of the address space.              *)
(***************************************************************************)
EXTENDS VmArea, TLAPS

\* The inductive invariant: an area can only be shown to stay backed when the
\* break is known to stay inside the heap.
Inv == TypeOK /\ AreasSound

\* The list as a value, so that the list a call leaves can be judged.
IsArea(a) == a \in [s : Pages, e : 1..UserEnd] /\ a.s < a.e
Apart(a, b) == a.e <= b.s \/ b.e <= a.s
Backed(a, pg) == \A v \in a.s..(a.e - 1) : v \in pg \cup Heap
GoodList(L, pg) ==
    /\ \A a \in L : IsArea(a) /\ Backed(a, pg)
    /\ \A a, b \in L : a # b => Apart(a, b)

\* The invariant in these terms.
LEMMA InvIsGoodList ==
    Inv <=> /\ GoodList(areas, mapped)
            /\ mapped \subseteq Pages
            /\ brk \in BrkStart..(BrkStart + MaxHeap)
            /\ mmapNext \in MmapMin..MmapBase
            /\ call \in {"execve", "brk", "mmap", "mmap fixed", "munmap"}
  BY DEF Inv, TypeOK, AreasSound, GoodList, IsArea, Apart, Backed

\* The pages a loop maps were not mapped before.
LEMMA LoopFresh ==
    ASSUME NEW pg, NEW s \in Nat, NEW n \in Nat, NEW frames \in Nat
    PROVE  /\ Loop(pg, s, n, frames) \cap pg = {}
           /\ Loop(pg, s, n, frames) \subseteq Span(s, n)
  <1>1. ASSUME NEW v \in Loop(pg, s, n, frames)
        PROVE  v \notin pg
    <2>1. v \in s..v /\ s..v \cap pg = {}
      BY <1>1 DEF Loop, Span
    <2> QED BY <2>1
  <1> QED BY <1>1 DEF Loop

\* A call that fails leaves what was mapped when the loop began.
LEMMA RollbackExact ==
    ASSUME NEW pg, NEW s \in Nat, NEW n \in Nat, NEW frames \in Nat
    PROVE  RolledBack(pg, s, n, frames) = pg
  BY LoopFresh DEF RolledBack

\* The second half of mmap, on a list none of whose areas is in the way.
LEMMA MapAtGood ==
    ASSUME NEW pg \in SUBSET Pages, NEW s \in Nat, NEW n \in Nat \ {0}, NEW frames \in Nat,
           NEW kept, GoodList(kept, pg),
           \A a \in kept : ~Overlapping(a, s, n),
           MapAt(pg, s, n, frames, kept)
    PROVE  /\ GoodList(areas', mapped')
           /\ mapped' \subseteq Pages
           /\ pg \subseteq mapped'
  <1> DEFINE new == [s |-> s, e |-> s + n]
  <1>u. UserEnd \in Nat
    BY VmAssumption
  <1>1. CASE /\ s + n <= UserEnd
             /\ mapped' = pg \cup Span(s, n)
             /\ areas' = kept \cup {new}
    <2>1. new.s = s /\ new.e = s + n
      OBVIOUS
    <2>2. IsArea(new)
      BY <1>u, <1>1 DEF IsArea, Pages
    <2>3. Backed(new, mapped')
      BY <1>1, <2>1 DEF Backed, Span
    <2>4. \A a \in kept : IsArea(a) /\ Backed(a, mapped')
      BY <1>1 DEF GoodList, Backed
    <2>5. \A a \in kept : Apart(a, new) /\ Apart(new, a)
      <3> SUFFICES ASSUME NEW a \in kept
                   PROVE  Apart(a, new) /\ Apart(new, a)
        OBVIOUS
      <3>1. a.s \in Int /\ a.e \in Int /\ ~Overlapping(a, s, n)
        BY <1>u DEF GoodList, IsArea, Pages
      <3> QED BY <2>1, <3>1 DEF Overlapping, Apart
    <2>6. GoodList(areas', mapped')
      <3>1. \A a \in areas' : IsArea(a) /\ Backed(a, mapped')
        BY <1>1, <2>2, <2>3, <2>4
      <3>2. \A a, b \in areas' : a # b => Apart(a, b)
        BY <1>1, <2>5 DEF GoodList
      <3> QED BY <3>1, <3>2 DEF GoodList
    <2>7. Span(s, n) \subseteq Pages
      BY <1>u, <1>1 DEF Span, Pages
    <2> QED BY <1>1, <2>6, <2>7
  <1>2. CASE mapped' = RolledBack(pg, s, n, frames) /\ areas' = kept
    BY <1>2, RollbackExact
  <1>3. CASE mapped' = pg /\ areas' = kept
    BY <1>3
  <1> QED BY <1>1, <1>2, <1>3 DEF MapAt

-----------------------------------------------------------------------------
(* The system calls *)

\* brk keeps the list; the pages it takes away lie in the heap.
LEMMA BrkKeeps ==
    ASSUME Inv, NEW b \in 0..UserEnd, NEW frames \in 0..MaxHeap, SysBrk(b, frames)
    PROVE  /\ Inv'
           /\ brk' > brk => /\ mapped \cap brk..(brk' - 1) = {}
                            /\ brk..(brk' - 1) \subseteq mapped'
  <1>0. brk \in BrkStart..(BrkStart + MaxHeap)
    BY InvIsGoodList
  <1>1. /\ UserEnd \in Nat /\ MaxHeap \in Nat /\ BrkStart \in 0..UserEnd
        /\ b \in Nat /\ frames \in Nat /\ brk \in Nat
        /\ brk \in BrkStart..(BrkStart + MaxHeap)
    BY <1>0, VmAssumption
  <1>2. /\ b >= BrkStart /\ b - BrkStart <= MaxHeap /\ b < UserEnd
        /\ areas' = areas /\ mmapNext' = mmapNext /\ call' = "brk"
        /\ brk' = BreakAfter(b, frames)
        /\ mapped' = IF b > brk THEN mapped \cup Loop(mapped, brk, b - brk, frames)
                                ELSE mapped \ b..(brk - 1)
    BY DEF SysBrk
  <1>3. GoodList(areas, mapped) /\ mapped \subseteq Pages /\ mmapNext \in MmapMin..MmapBase
    BY InvIsGoodList
  <1>4. brk' \in BrkStart..(BrkStart + MaxHeap) /\ brk' \in {b, brk}
    BY <1>1, <1>2 DEF BreakAfter
  <1>5. CASE b > brk
    <2>1. b - brk \in Nat
      BY <1>1, <1>5
    <2>2. /\ Loop(mapped, brk, b - brk, frames) \cap mapped = {}
          /\ Loop(mapped, brk, b - brk, frames) \subseteq Span(brk, b - brk)
      BY <1>1, <2>1, LoopFresh
    <2>3. Span(brk, b - brk) \subseteq Pages /\ Span(brk, b - brk) = brk..(b - 1)
      BY <1>1, <1>2, <2>1 DEF Span, Pages
    <2>4. mapped' \subseteq Pages /\ mapped \subseteq mapped'
      BY <1>2, <1>3, <1>5, <2>2, <2>3
    <2>5. GoodList(areas', mapped')
      BY <1>2, <1>3, <2>4 DEF GoodList, Backed
    <2>6. Inv'
      BY <1>2, <1>3, <1>4, <2>4, <2>5
         DEF Inv, TypeOK, AreasSound, GoodList, IsArea, Apart, Backed
    <2>7. ASSUME brk' > brk
          PROVE  /\ mapped \cap brk..(brk' - 1) = {}
                 /\ brk..(brk' - 1) \subseteq mapped'
      <3>1. brk' = b /\ Loop(mapped, brk, b - brk, frames) = brk..(b - 1)
        BY <1>1, <1>2, <1>4, <1>5, <2>7 DEF BreakAfter
      <3> QED BY <1>2, <1>5, <2>2, <3>1
    <2> QED BY <2>6, <2>7
  <1>6. CASE ~(b > brk)
    <2>1. mapped' = mapped \ b..(brk - 1) /\ brk' = b
      BY <1>1, <1>2, <1>6 DEF BreakAfter
    <2>2. b..(brk - 1) \subseteq Heap
      BY <1>1, <1>2 DEF Heap
    <2>3. mapped' \subseteq Pages /\ mapped \subseteq mapped' \cup Heap
      BY <1>3, <2>1, <2>2
    <2>4. GoodList(areas', mapped')
      BY <1>2, <1>3, <2>3 DEF GoodList, Backed
    <2>5. Inv'
      BY <1>2, <1>3, <1>4, <2>3, <2>4
         DEF Inv, TypeOK, AreasSound, GoodList, IsArea, Apart, Backed
    <2> QED BY <1>1, <1>6, <2>1, <2>5
  <1> QED BY <1>5, <1>6

\* MAP_FIXED: the areas that are left neither overlap the range nor need its pages.
LEMMA FixedKeeps ==
    ASSUME Inv, NEW s \in Pages, NEW n \in 1..MaxLen, NEW frames \in 0..n,
           SysMmapFixed(s, n, frames)
    PROVE  Inv'
  <1>1. UserEnd \in Nat /\ s \in Nat /\ n \in Nat \ {0} /\ frames \in Nat
    BY VmAssumption DEF Pages
  <1>2. GoodList(areas, mapped) /\ mapped \subseteq Pages
    BY InvIsGoodList
  <1> DEFINE pg == mapped \ Span(s, n)
             kept == Outside(s, n)
  <1>3. kept \subseteq areas /\ \A a \in kept : ~Overlapping(a, s, n)
    BY DEF Outside
  <1>4. ASSUME NEW a \in kept
        PROVE  Backed(a, pg)
    <2>1. a.s \in Int /\ a.e \in Int /\ Backed(a, mapped) /\ ~Overlapping(a, s, n)
      BY <1>1, <1>2, <1>3 DEF GoodList, IsArea, Pages
    <2>2. \A v \in a.s..(a.e - 1) : v \notin Span(s, n)
      BY <1>1, <2>1 DEF Overlapping, Span
    <2> QED BY <2>1, <2>2 DEF Backed
  <1>5. GoodList(kept, pg)
    BY <1>2, <1>3, <1>4 DEF GoodList
  <1>6. MapAt(pg, s, n, frames, kept)
    BY DEF SysMmapFixed
  <1>7. pg \in SUBSET Pages
    BY <1>2
  <1> HIDE DEF pg, kept
  <1>8. GoodList(areas', mapped') /\ mapped' \subseteq Pages
    BY <1>1, <1>3, <1>5, <1>6, <1>7, MapAtGood
  <1>9. brk' = brk /\ mmapNext' = mmapNext /\ call' = "mmap fixed"
    BY DEF SysMmapFixed
  <1> QED BY <1>8, <1>9
             DEF Inv, TypeOK, AreasSound, GoodList, IsArea, Apart, Backed

\* mmap at a hint, or at the address find_free_range returns: no area overlaps.
LEMMA FreeKeeps ==
    ASSUME Inv, NEW s \in Nat, NEW n \in 1..MaxLen, NEW frames \in 0..n,
           ~VmaOverlaps(s, n), MapAt(mapped, s, n, frames, areas)
    PROVE  /\ GoodList(areas', mapped')
           /\ mapped' \subseteq Pages
           /\ mapped \subseteq mapped'
  <1>1. n \in Nat \ {0} /\ frames \in Nat
    BY VmAssumption
  <1>2. GoodList(areas, mapped) /\ mapped \in SUBSET Pages
    BY InvIsGoodList
  <1>3. \A a \in areas : ~Overlapping(a, s, n)
    BY DEF VmaOverlaps
  <1> QED BY <1>1, <1>2, <1>3, MapAtGood

LEMMA HintKeeps ==
    ASSUME Inv, NEW s \in Pages, NEW n \in 1..MaxLen, NEW frames \in 0..n,
           SysMmapHint(s, n, frames)
    PROVE  Inv' /\ mapped \subseteq mapped'
  <1>1. s \in Nat
    BY VmAssumption DEF Pages
  <1>2. /\ GoodList(areas', mapped') /\ mapped' \subseteq Pages
        /\ mapped \subseteq mapped'
    BY <1>1, FreeKeeps DEF SysMmapHint
  <1>3. brk' = brk /\ mmapNext' = mmapNext /\ call' = "mmap"
    BY DEF SysMmapHint
  <1> QED BY <1>2, <1>3
             DEF Inv, TypeOK, AreasSound, GoodList, IsArea, Apart, Backed

\* The search stays between MMAP_MIN_ADDR and where it began.
LEMMA CandidatesInRange ==
    ASSUME Inv, NEW n \in 1..MaxLen
    PROVE  Candidates(n) \subseteq MmapMin..MmapBase /\ Candidates(n) \subseteq Nat
  <1>1. mmapNext \in MmapMin..MmapBase
    BY InvIsGoodList
  <1>2. Candidates(n) \subseteq MmapMin..(mmapNext - n)
    BY DEF Candidates
  <1> QED BY <1>1, <1>2, VmAssumption

LEMMA MmapKeeps ==
    ASSUME Inv, NEW n \in 1..MaxLen, NEW frames \in 0..n, SysMmap(n, frames)
    PROVE  Inv' /\ mapped \subseteq mapped'
  <1>1. brk' = brk /\ call' = "mmap"
    BY DEF SysMmap
  <1>2. CASE /\ \E a \in 0..UserEnd : LowestTried(n, a) /\ mmapNext' = a
             /\ UNCHANGED <<mapped, areas>>
    <2>1. mmapNext' \in MmapMin..MmapBase
      BY <1>2, CandidatesInRange DEF LowestTried, Inv, TypeOK
    <2> QED BY <1>1, <1>2, <2>1
               DEF Inv, TypeOK, AreasSound
  <1>3. ASSUME NEW a \in FreeRanges(n), mmapNext' = a, MapAt(mapped, a, n, frames, areas)
        PROVE  Inv' /\ mapped \subseteq mapped'
    <2>1. a \in MmapMin..MmapBase /\ a \in Nat /\ ~VmaOverlaps(a, n)
      BY CandidatesInRange DEF FreeRanges
    <2>2. /\ GoodList(areas', mapped') /\ mapped' \subseteq Pages
          /\ mapped \subseteq mapped'
      BY <1>3, <2>1, FreeKeeps
    <2> QED BY <1>1, <1>3, <2>1, <2>2
               DEF Inv, TypeOK, AreasSound, GoodList, IsArea, Apart, Backed
  <1> QED BY <1>2, <1>3 DEF SysMmap

\* A piece munmap leaves is an area of its own inside the one it is cut from, and
\* has none of the pages that go.
LEMMA PieceGood ==
    ASSUME NEW a, IsArea(a), NEW s \in Pages, NEW n \in 1..MaxLen, NEW q \in Pieces(a, s, n)
    PROVE  /\ IsArea(q) /\ a.s <= q.s /\ q.e <= a.e
           /\ \A v \in q.s..(q.e - 1) : v \notin Span(s, n)
  <1>1. UserEnd \in Nat /\ s \in Nat /\ n \in Nat \ {0} /\ s < UserEnd
    BY VmAssumption DEF Pages
  <1>2. /\ a \in [s : Pages, e : 1..UserEnd]
        /\ a.s \in Nat /\ a.e \in Nat /\ a.s < a.e /\ a.e <= UserEnd /\ a.s < UserEnd
    BY <1>1 DEF IsArea, Pages
  <1>3. CASE ~Overlapping(a, s, n)
    <2>1. q = a
      BY <1>3 DEF Pieces
    <2> QED BY <1>1, <1>2, <1>3, <2>1 DEF Overlapping, Span
  <1>4. CASE Overlapping(a, s, n)
    <2>1. q \in {[a EXCEPT !.e = s], [a EXCEPT !.s = s + n]} /\ q.s < q.e
      BY <1>4 DEF Pieces
    <2>2. a.s < s + n /\ a.e > s
      BY <1>4 DEF Overlapping
    <2>3. CASE q = [a EXCEPT !.e = s]
      <3>1. q.s = a.s /\ q.e = s /\ q = [s |-> a.s, e |-> s]
        BY <1>2, <2>3
      <3>2. s \in 1..UserEnd
        BY <1>1, <1>2, <2>1, <3>1
      <3>3. IsArea(q)
        BY <1>2, <2>1, <3>1, <3>2 DEF IsArea
      <3> QED BY <1>1, <1>2, <2>2, <3>1, <3>3 DEF Span
    <2>4. CASE q = [a EXCEPT !.s = s + n]
      <3>1. q.s = s + n /\ q.e = a.e /\ q = [s |-> s + n, e |-> a.e]
        BY <1>2, <2>4
      <3>2. s + n \in Pages
        BY <1>1, <1>2, <2>1, <3>1 DEF Pages
      <3>3. IsArea(q)
        BY <1>2, <2>1, <3>1, <3>2 DEF IsArea
      <3> QED BY <1>1, <1>2, <2>2, <3>1, <3>3 DEF Span
    <2> QED BY <2>1, <2>3, <2>4
  <1> QED BY <1>3, <1>4

\* Two pieces of one area are the part below the hole and the part above it.
LEMMA PiecesApart ==
    ASSUME NEW a, IsArea(a), NEW s \in Pages, NEW n \in 1..MaxLen,
           NEW q \in Pieces(a, s, n), NEW r \in Pieces(a, s, n), q # r
    PROVE  Apart(q, r)
  <1>1. UserEnd \in Nat /\ s \in Nat /\ n \in Nat \ {0} /\ s < UserEnd
    BY VmAssumption DEF Pages
  <1>2. a \in [s : Pages, e : 1..UserEnd]
    BY DEF IsArea
  <1>3. /\ q \in {[a EXCEPT !.e = s], [a EXCEPT !.s = s + n]}
        /\ r \in {[a EXCEPT !.e = s], [a EXCEPT !.s = s + n]}
    BY DEF Pieces
  <1>4. [a EXCEPT !.e = s].e = s /\ [a EXCEPT !.s = s + n].s = s + n
    BY <1>2
  <1>5. (q.e = s /\ r.s = s + n) \/ (r.e = s /\ q.s = s + n)
    <2> DEFINE below == [a EXCEPT !.e = s]
               above == [a EXCEPT !.s = s + n]
    <2>1. (q = below /\ r = above) \/ (q = above /\ r = below)
      BY <1>3
    <2>2. below.e = s /\ above.s = s + n
      BY <1>4
    <2> HIDE DEF below, above
    <2> QED BY <2>1, <2>2
  <1>6. s <= s + n
    BY <1>1
  <1> QED BY <1>5, <1>6 DEF Apart

LEMMA MunmapKeeps ==
    ASSUME Inv, NEW s \in Pages, NEW n \in 1..MaxLen, SysMunmap(s, n)
    PROVE  Inv'
  <1>1. GoodList(areas, mapped) /\ mapped \subseteq Pages
    BY InvIsGoodList
  <1>2. /\ mapped' = mapped \ Span(s, n)
        /\ areas' = UNION {Pieces(a, s, n) : a \in areas}
        /\ call' = "munmap" /\ brk' = brk /\ mmapNext' = mmapNext
    BY DEF SysMunmap
  <1>3. ASSUME NEW q \in areas'
        PROVE  \E a \in areas : q \in Pieces(a, s, n)
    BY <1>2
  <1>4. ASSUME NEW q \in areas'
        PROVE  IsArea(q) /\ Backed(q, mapped')
    <2>1. PICK a \in areas : q \in Pieces(a, s, n)
      BY <1>3
    <2>2. IsArea(a) /\ Backed(a, mapped)
      BY <1>1 DEF GoodList
    <2>3. /\ IsArea(q) /\ a.s <= q.s /\ q.e <= a.e
          /\ \A v \in q.s..(q.e - 1) : v \notin Span(s, n)
      BY <2>1, <2>2, PieceGood
    <2>4. a.s \in Int /\ a.e \in Int /\ q.s \in Int /\ q.e \in Int
      BY <2>2, <2>3, VmAssumption DEF IsArea, Pages
    <2>5. q.s..(q.e - 1) \subseteq a.s..(a.e - 1)
      BY <2>3, <2>4
    <2> QED BY <1>2, <2>2, <2>3, <2>5 DEF Backed
  <1>5. ASSUME NEW q \in areas', NEW r \in areas', q # r
        PROVE  Apart(q, r)
    <2>1. PICK a \in areas : q \in Pieces(a, s, n)
      BY <1>3
    <2>2. PICK b \in areas : r \in Pieces(b, s, n)
      BY <1>3
    <2>3. IsArea(a) /\ IsArea(b) /\ (a # b => Apart(a, b))
      BY <1>1 DEF GoodList
    <2>4. CASE a = b
      BY <1>5, <2>1, <2>2, <2>3, <2>4, PiecesApart
    <2>5. CASE a # b
      <3>1. IsArea(q) /\ a.s <= q.s /\ q.e <= a.e
        BY <2>1, <2>3, PieceGood
      <3>2. IsArea(r) /\ b.s <= r.s /\ r.e <= b.e
        BY <2>2, <2>3, PieceGood
      <3>3. /\ a.s \in Int /\ a.e \in Int /\ b.s \in Int /\ b.e \in Int
            /\ q.s \in Int /\ q.e \in Int /\ r.s \in Int /\ r.e \in Int
        BY <2>3, <3>1, <3>2, VmAssumption DEF IsArea, Pages
      <3> QED BY <2>3, <2>5, <3>1, <3>2, <3>3 DEF Apart
    <2> QED BY <2>4, <2>5
  <1>6. GoodList(areas', mapped') /\ mapped' \subseteq Pages
    BY <1>1, <1>2, <1>4, <1>5 DEF GoodList
  <1> QED BY <1>2, <1>6
             DEF Inv, TypeOK, AreasSound, GoodList, IsArea, Apart, Backed

-----------------------------------------------------------------------------
(* The theorems *)

LEMMA InitInv == Init => Inv
  <1> SUFFICES ASSUME Init PROVE Inv
    OBVIOUS
  <1>1. 0..(BrkStart - 1) \subseteq Pages
    BY VmAssumption DEF Pages
  <1>2. BrkStart \in BrkStart..(BrkStart + MaxHeap) /\ MmapBase \in MmapMin..MmapBase
    BY VmAssumption
  <1> QED BY <1>1, <1>2 DEF Init, Inv, TypeOK, AreasSound

\* One step per system call: the invariant, and what mmap and brk may change.
LEMMA StepInv ==
    ASSUME Inv, [Next]_vars
    PROVE  /\ Inv'
           /\ call' = "mmap" => mapped \subseteq mapped' \/ vars' = vars
           /\ brk' > brk => /\ mapped \cap brk..(brk' - 1) = {}
                            /\ brk..(brk' - 1) \subseteq mapped'
  <1>0. brk \in Int /\ ~(brk > brk)
    <2>1. brk \in BrkStart..(BrkStart + MaxHeap)
      BY InvIsGoodList
    <2> QED BY <2>1, VmAssumption
  <1>1. ASSUME NEW b \in 0..UserEnd, NEW frames \in 0..MaxHeap, SysBrk(b, frames)
        PROVE  /\ Inv' /\ call' = "brk"
               /\ brk' > brk => /\ mapped \cap brk..(brk' - 1) = {}
                                /\ brk..(brk' - 1) \subseteq mapped'
    BY <1>1, BrkKeeps DEF SysBrk
  <1>2. ASSUME NEW n \in 1..MaxLen, NEW frames \in 0..n, SysMmap(n, frames)
        PROVE  Inv' /\ mapped \subseteq mapped' /\ brk' = brk
    BY <1>2, MmapKeeps DEF SysMmap
  <1>3. ASSUME NEW s \in Pages, NEW n \in 1..MaxLen, NEW frames \in 0..n,
               SysMmapFixed(s, n, frames)
        PROVE  Inv' /\ call' = "mmap fixed" /\ brk' = brk
    BY <1>3, FixedKeeps DEF SysMmapFixed
  <1>4. ASSUME NEW s \in Pages, NEW n \in 1..MaxLen, NEW frames \in 0..n,
               SysMmapHint(s, n, frames)
        PROVE  Inv' /\ mapped \subseteq mapped' /\ brk' = brk
    BY <1>4, HintKeeps DEF SysMmapHint
  <1>5. ASSUME NEW s \in Pages, NEW n \in 1..MaxLen, SysMunmap(s, n)
        PROVE  Inv' /\ call' = "munmap" /\ brk' = brk
    BY <1>5, MunmapKeeps DEF SysMunmap
  <1>6. ASSUME UNCHANGED vars
        PROVE  Inv' /\ brk' = brk /\ vars' = vars
    BY <1>6 DEF vars, Inv, TypeOK, AreasSound
  <1> QED BY <1>0, <1>1, <1>2, <1>3, <1>4, <1>5, <1>6 DEF Next

\* The invariant holds for every layout of the address space.
THEOREM SpecInv == Spec => []Inv
  <1>1. Inv /\ [Next]_vars => Inv'
    BY StepInv
  <1> QED BY <1>1, InitInv, PTL DEF Spec

\* For every layout and every sequence of calls: an area is never empty and never
\* reaches past user space, and the break stays in the heap.
THEOREM TypeCorrect == Spec => []TypeOK
  <1>1. Inv => TypeOK
    BY DEF Inv
  <1> QED BY <1>1, SpecInv, PTL

\* Areas never overlap and never cover a page that is gone, after any sequence of
\* brk, mmap and munmap calls, failing ones included, in any address space.
THEOREM AreasStaySound == Spec => []AreasSound
  <1>1. Inv => AreasSound
    BY DEF Inv
  <1> QED BY <1>1, SpecInv, PTL

\* mmap without MAP_FIXED takes no mapped page away, also when it rolls back.
THEOREM MmapTakesNothing == Spec => MmapKeepsMapped
  <1>1. Inv /\ [Next]_vars => [call' = "mmap" => mapped \subseteq mapped']_vars
    BY StepInv
  <1> QED BY <1>1, SpecInv, PTL DEF Spec, MmapKeepsMapped

\* The break rises only over pages brk itself has just mapped, all of them.
THEOREM BreakRisesOverPages == Spec => BreakBacked
  <1>1. Inv /\ [Next]_vars
          => [brk' > brk => /\ mapped \cap brk..(brk' - 1) = {}
                            /\ brk..(brk' - 1) \subseteq mapped']_vars
    BY StepInv
  <1> QED BY <1>1, SpecInv, PTL DEF Spec, BreakBacked
=============================================================================
