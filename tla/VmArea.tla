------------------------------- MODULE VmArea -------------------------------
(***************************************************************************)
(* The memory system calls of syscall/linux_handlers.rs: brk, mmap and     *)
(* munmap keep a list of areas (Vma) and a program break beside the page   *)
(* table.  Every call works on the caller's process alone, under the       *)
(* process table's lock, so one process is modelled and a call is a step.  *)
(* Addresses count pages; an area is the interval [s, e).  Left out: a     *)
(* hint so high that hint + length wraps in u64, and the lower page tables *)
(* that a forked child shares (AddressSpace).                              *)
(*                                                                         *)
(* The page table, which AddressSpace models in detail, is the set of      *)
(* mapped pages.  map_user_page fails on a page that is mapped, and when   *)
(* the other users of the frame allocator have left nothing: `frames' is   *)
(* how many pages it can back during the call.  Protection is left out:    *)
(* mprotect changes PTE flags (UpdatePteFlags of AddressSpace) and the     *)
(* prot of areas, which no code reads.                                     *)
(***************************************************************************)
EXTENDS Integers

CONSTANTS
    UserEnd,        \* the first page past user space
    BrkStart,       \* brk_start: the page after the image
    MaxHeap,        \* MAX_HEAP_SIZE
    MmapMin,        \* MMAP_MIN_ADDR
    MmapBase,       \* MMAP_BASE: find_free_range works downward from it
    MaxLen          \* longest request

ASSUME VmAssumption ==
    /\ UserEnd \in Nat /\ MaxHeap \in Nat /\ MmapMin \in Nat /\ MaxLen \in Nat
    /\ BrkStart \in 0..UserEnd /\ MmapBase \in MmapMin..UserEnd

Pages == 0..(UserEnd - 1)
Heap == BrkStart..(BrkStart + MaxHeap - 1)

VARIABLES
    mapped,         \* the pages with a present PTE
    areas,          \* vma_list
    brk,            \* brk_current
    mmapNext,       \* mmap_next_addr
    call            \* history: the system call made last

vars == <<mapped, areas, brk, mmapNext, call>>

Span(s, n) == s..(s + n - 1)

\* The image is mapped below brk_start (segment_loader).
Init ==
    /\ mapped = 0..(BrkStart - 1)
    /\ areas = {}
    /\ brk = BrkStart
    /\ mmapNext = MmapBase
    /\ call = "execve"

\* map_user_page in a loop: the pages it maps before it ends or fails.
Loop(pg, s, n, frames) ==
    {v \in Span(s, n) : v < s + frames /\ s..v \cap pg = {}}

-----------------------------------------------------------------------------
(* brk *)

\* An expansion that fails leaves the break, but keeps the pages it mapped.
BreakAfter(b, frames) ==
    IF b <= brk \/ Loop(mapped, brk, b - brk, frames) = brk..(b - 1) THEN b ELSE brk

SysBrk(b, frames) ==
    /\ b >= BrkStart /\ b - BrkStart <= MaxHeap /\ b < UserEnd
    /\ mapped' = IF b > brk THEN mapped \cup Loop(mapped, brk, b - brk, frames)
                            ELSE mapped \ b..(brk - 1)
    /\ brk' = BreakAfter(b, frames)
    /\ call' = "brk"
    /\ UNCHANGED <<areas, mmapNext>>

-----------------------------------------------------------------------------
(* mmap *)

Overlapping(a, s, n) == a.s < s + n /\ a.e > s

\* vma_overlaps
VmaOverlaps(s, n) == \E a \in areas : Overlapping(a, s, n)

\* find_free_range: the first free range below mmap_next_addr in steps of the
\* length; the search lowers mmap_next_addr even when it finds nothing.
Candidates(n) == {a \in MmapMin..(mmapNext - n) : (mmapNext - a) % n = 0}
FreeRanges(n) == {a \in Candidates(n) : ~VmaOverlaps(a, n)}
FoundAt(n, a) == a \in FreeRanges(n) /\ \A b \in FreeRanges(n) : b <= a
LowestTried(n, a) ==
    \/ Candidates(n) = {} /\ a = mmapNext
    \/ a \in Candidates(n) /\ \A b \in Candidates(n) : a <= b

\* What a call that fails leaves: the pages it mapped are unmapped again.
RolledBack(pg, s, n, frames) ==
    (pg \cup Loop(pg, s, n, frames)) \ Loop(pg, s, n, frames)

\* The handler once the address is chosen; pg and kept are what is mapped and
\* which areas are left by then.
MapAt(pg, s, n, frames, kept) ==
    \/ /\ s + n <= UserEnd
       /\ Loop(pg, s, n, frames) = Span(s, n)
       /\ mapped' = pg \cup Span(s, n)
       /\ areas' = kept \cup {[s |-> s, e |-> s + n]}
    \/ /\ s + n <= UserEnd
       /\ Loop(pg, s, n, frames) # Span(s, n)
       /\ mapped' = RolledBack(pg, s, n, frames)
       /\ areas' = kept
    \/ /\ s + n > UserEnd
       /\ mapped' = pg
       /\ areas' = kept

\* MAP_FIXED drops an overlapping area as a whole.
Outside(s, n) == {a \in areas : ~Overlapping(a, s, n)}

SysMmapFixed(s, n, frames) ==
    /\ s > 0
    /\ MapAt(mapped \ Span(s, n), s, n, frames, Outside(s, n))
    /\ call' = "mmap fixed"
    /\ UNCHANGED <<brk, mmapNext>>

\* A hint is used when no area is in the way.
SysMmapHint(s, n, frames) ==
    /\ s > 0 /\ ~VmaOverlaps(s, n)
    /\ MapAt(mapped, s, n, frames, areas)
    /\ call' = "mmap"
    /\ UNCHANGED <<brk, mmapNext>>

\* No hint, or one that overlaps an area.
SysMmap(n, frames) ==
    /\ \/ /\ FreeRanges(n) = {}
          /\ \E a \in 0..UserEnd : LowestTried(n, a) /\ mmapNext' = a
          /\ UNCHANGED <<mapped, areas>>
       \/ \E a \in FreeRanges(n) :
            /\ FoundAt(n, a)
            /\ mmapNext' = a
            /\ MapAt(mapped, a, n, frames, areas)
    /\ call' = "mmap"
    /\ UNCHANGED brk

-----------------------------------------------------------------------------
(* munmap *)

\* Fault: an area with a hole punched into it stays whole.
NoSplit(a, s, n) ==
    IF ~Overlapping(a, s, n) \/ (a.s < s /\ a.e > s + n) THEN {a}
    ELSE {q \in {[a EXCEPT !.e = s], [a EXCEPT !.s = s + n]} : q.s < q.e}

\* What munmap leaves of an area: all of it, the part below, the part above,
\* both or nothing.
Pieces(a, s, n) ==
    IF ~Overlapping(a, s, n) THEN {a}
    ELSE {q \in {[a EXCEPT !.e = s], [a EXCEPT !.s = s + n]} : q.s < q.e}

SysMunmap(s, n) ==
    /\ mapped' = mapped \ Span(s, n)
    /\ areas' = UNION {Pieces(a, s, n) : a \in areas}
    /\ call' = "munmap"
    /\ UNCHANGED <<brk, mmapNext>>

Next ==
    \/ \E b \in 0..UserEnd, frames \in 0..MaxHeap : SysBrk(b, frames)
    \/ \E n \in 1..MaxLen : \E frames \in 0..n : SysMmap(n, frames)
    \/ \E s \in Pages, n \in 1..MaxLen : \E frames \in 0..n :
         SysMmapFixed(s, n, frames) \/ SysMmapHint(s, n, frames)
    \/ \E s \in Pages, n \in 1..MaxLen : SysMunmap(s, n)

Spec == Init /\ [][Next]_vars

-----------------------------------------------------------------------------
(* Properties *)

\* Types; an area is never empty and never reaches past user space.
TypeOK ==
    /\ mapped \subseteq Pages
    /\ areas \subseteq [s : Pages, e : 1..UserEnd]
    /\ \A a \in areas : a.s < a.e
    /\ brk \in BrkStart..(BrkStart + MaxHeap)
    /\ mmapNext \in MmapMin..MmapBase
    /\ call \in {"execve", "brk", "mmap", "mmap fixed", "munmap"}

\* No two areas share a page, whatever mix of MAP_FIXED, hints and munmap built
\* the list (vma_overlaps compares with the list only), and a page of an area is
\* mapped unless it lies where the heap may grow: a failed mmap records no area
\* and unmaps no page of another, and after munmap no area covers an unmapped
\* page.  Only brk, which never looks at the list, takes pages from an area.
AreasSound ==
    /\ \A a, b \in areas : a # b => a.e <= b.s \/ b.e <= a.s
    /\ \A a \in areas : \A v \in a.s..(a.e - 1) : v \in mapped \cup Heap

\* mmap without MAP_FIXED changes no page that was mapped before, neither when
\* it succeeds nor when it fails half way and rolls back.
MmapKeepsMapped == [][call' = "mmap" => mapped \subseteq mapped']_vars

\* brk raises the break only over pages it has mapped itself, all of them: a
\* partial failure never leaves a hole below the break it reports.
BreakBacked ==
    [][brk' > brk => /\ mapped \cap brk..(brk' - 1) = {}
                     /\ brk..(brk' - 1) \subseteq mapped']_vars
=============================================================================
