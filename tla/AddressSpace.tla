---------------------------- MODULE AddressSpace ----------------------------
(***************************************************************************)
(* User address spaces: the page tables (memory/user_page_table.rs), the   *)
(* frame allocator (memory/mod.rs), the reference counts of copy-on-write  *)
(* frames (memory/refcount.rs), the system calls that change them and the  *)
(* page-fault handler's copy-on-write path.                                *)
(*                                                                         *)
(* A four-level table is reduced to a root (P4) and one table per region;  *)
(* the L3 and L2 tables between them are created and dropped with it.      *)
(* Regions in HighRegions lie under P4[1..255], all others under P4[0].    *)
(* The free list is a stack in front of the bump allocator, so the frames  *)
(* still to be handed out form one sequence: allocate_frame takes its      *)
(* head and free_frame puts a frame in front.                              *)
(***************************************************************************)
EXTENDS Naturals, Sequences, FiniteSets, SequencesExt

CONSTANTS
    Procs,          \* process slots
    Pages,          \* user virtual pages
    Regions,        \* numbers of the leaf tables
    RegionOf,       \* RegionOf[v]: the leaf table that maps page v
    HighRegions,    \* regions outside P4[0]: the mmap area, the loader's stack
    FrameCount,     \* frames of the global allocator
    KernelFrames,   \* frames of the kernel mappings under P4[1..255]
    Vals, Zero,     \* contents of a page
    Stale,          \* what a frame holds before it is first used
    Image,          \* pages of an executable: [v, w, val], the stack last
    Calls,          \* the system calls of the instance besides fork
    SharedCalls,    \* may munmap, mprotect, execve meet a page shared copy-on-write?
    None

ASSUME AddressSpaceAssumption ==
    /\ RegionOf \in [Pages -> Regions] /\ HighRegions \subseteq Regions
    /\ Regions \subseteq Nat /\ FrameCount \in Nat
    /\ KernelFrames \cap (1..FrameCount) = {} /\ {Zero, Stale} \subseteq Vals
    /\ None \notin Vals \cup KernelFrames \cup (1..FrameCount)
    /\ Calls \subseteq {"munmap", "mprotect", "execve", "destroy"}
    /\ SharedCalls \in BOOLEAN

Frames == (1..FrameCount) \cup KernelFrames

VARIABLES
    state,          \* "unborn", "live" or "dead"
    root,           \* CR3: the frame of the P4 table
    table,          \* table[p][r]: the frame of a leaf table, or None
    entry,          \* entry[t][v]: the PTE of page v in table frame t
    content,        \* what a frame holds
    refs,           \* FRAME_REFCOUNTS; 0 when the map has no key for a frame
    pool,           \* frames to be handed out, next one first
    up              \* the kernel still has its own mappings

vars == <<state, root, table, entry, content, refs, pool, up>>

NoEntries == [v \in Pages |-> None]

Init ==
    /\ state = [p \in Procs |-> "unborn"]
    /\ root = [p \in Procs |-> None]
    /\ table = [p \in Procs |-> [r \in Regions |-> None]]
    /\ entry = [t \in Frames |-> NoEntries]
    /\ content = [f \in Frames |-> Stale]
    /\ refs = [f \in Frames |-> 0]
    /\ pool = [i \in 1..FrameCount |-> i]
    /\ up = TRUE

\* read_pte
Pte(p, v) ==
    LET t == table[p][RegionOf[v]] IN IF t = None THEN None ELSE entry[t][v]

-----------------------------------------------------------------------------
(* Reference counts *)

Get(f) == IF refs[f] = 0 THEN 1 ELSE refs[f]
\* increment, k times
Increment(n, k) == IF k = 0 THEN n ELSE IF n = 0 THEN 1 + k ELSE n + k
\* decrement: what stays in the map; the returned count is one below Get
Decrement(n) == IF n <= 2 THEN 0 ELSE n - 1

-----------------------------------------------------------------------------
(* Creating and mapping *)

CreateUserPageTable(p) ==
    /\ up /\ state[p] = "unborn"
    /\ pool # <<>>
    /\ root' = [root EXCEPT ![p] = Head(pool)]
    /\ pool' = Tail(pool)
    /\ state' = [state EXCEPT ![p] = "live"]
    /\ UNCHANGED <<table, entry, content, refs, up>>

\* The part of the state that mapping a page changes.
Mem == [table |-> table, entry |-> entry, content |-> content, pool |-> pool, ok |-> TRUE]
Becomes(m) ==
    /\ table' = m.table /\ entry' = m.entry
    /\ content' = m.content /\ pool' = m.pool

NewPte(f, w) == [frame |-> f, w |-> w, cow |-> FALSE]

AllocateFrame(m) == [m EXCEPT !.pool = Tail(m.pool)]
FreeFrame(f, q) == <<f>> \o q

\* Fault: a reused frame keeps its old bytes.
NotZeroed(m, f) == AllocateFrame(m)

\* A frame for a data page is zeroed.
TakeZeroed(m, f) == [AllocateFrame(m) EXCEPT !.content[f] = Zero]

\* map_user_page and map_user_page_at: on an error the frame taken for the page
\* is not returned.
Mapping(m, p, v, w) ==
    LET f == Head(m.pool)
        r == RegionOf[v]
        t == m.table[p][r]
        m1 == TakeZeroed(m, f)
        failed == [m1 EXCEPT !.ok = FALSE]
    IN IF m.pool = <<>> THEN [m EXCEPT !.ok = FALSE]
       ELSE IF t # None
            THEN IF m.entry[t][v] # None THEN failed
                 ELSE [m1 EXCEPT !.entry[t][v] = NewPte(f, w)]
            ELSE IF m1.pool = <<>> THEN failed
                 ELSE LET n == Head(m1.pool) IN
                      [m1 EXCEPT !.table[p][r] = n, !.pool = Tail(m1.pool),
                                 !.entry[n] = [NoEntries EXCEPT ![v] = NewPte(f, w)]]

MapUserPage(p, v, w) ==
    /\ up /\ state[p] = "live"
    /\ Becomes(Mapping(Mem, p, v, w))
    /\ UNCHANGED <<state, root, refs, up>>

-----------------------------------------------------------------------------
(* User code and the page-fault handler *)

Store(p, v, x) ==
    /\ up /\ state[p] = "live"
    /\ Pte(p, v) # None /\ Pte(p, v).w
    /\ content' = [content EXCEPT ![Pte(p, v).frame] = x]
    /\ UNCHANGED <<state, root, table, entry, refs, pool, up>>

\* Faults: the last sharer but one frees the frame; the page is zeroed instead
\* of copied; source and destination are swapped.
LastButOne(f) == Get(f) <= 2
NoCopy(f, old) == [content EXCEPT ![f] = Zero]
CopyBack(f, old) == [content EXCEPT ![old] = content[f]]

\* decrement returned 0: the caller frees the frame.
Dropped(f) == Get(f) = 1
PrivateCopy(f, old) == [content EXCEPT ![f] = content[old]]

SetPte(p, v, e) == entry' = [entry EXCEPT ![table[p][RegionOf[v]]][v] = e]

\* A write to a copy-on-write page; out of memory kills the process.
HandleCowFault(p, v) ==
    LET e == Pte(p, v)
        old == e.frame
    IN
    /\ up /\ state[p] = "live"
    /\ e # None /\ ~e.w /\ e.cow
    /\ \/ /\ Get(old) <= 1
          /\ SetPte(p, v, NewPte(old, TRUE))
          /\ UNCHANGED <<state, content, refs, pool>>
       \/ /\ Get(old) > 1
          /\ pool # <<>>
          /\ LET f == Head(pool) IN
             /\ content' = PrivateCopy(f, old)
             /\ SetPte(p, v, NewPte(f, TRUE))
          /\ refs' = [refs EXCEPT ![old] = Decrement(@)]
          /\ pool' = IF Dropped(old) THEN FreeFrame(old, Tail(pool)) ELSE Tail(pool)
          /\ UNCHANGED state
       \/ /\ Get(old) > 1
          /\ pool = <<>>
          /\ state' = [state EXCEPT ![p] = "dead"]
          /\ UNCHANGED <<entry, content, refs, pool>>
    /\ UNCHANGED <<root, table, up>>

\* Exit, and the kill after any other fault: nothing of the tables is freed.
Exit(p) ==
    /\ up /\ state[p] = "live"
    /\ state' = [state EXCEPT ![p] = "dead"]
    /\ UNCHANGED <<root, table, entry, content, refs, pool, up>>

-----------------------------------------------------------------------------
(* fork: clone_user_page_table *)

\* Fault: only the child's PTE loses the write permission.
ParentKept(e) == e

\* The flags both PTEs get when a page is shared.
Demoted(e) ==
    IF e = None THEN None
    ELSE [e EXCEPT !.w = FALSE, !.cow = e.w \/ e.cow]
DemotedInParent(e) == Demoted(e)

PresentLow(p) == {r \in Regions \ HighRegions : table[p][r] # None}

\* The leaf tables in ascending order; when the allocator runs dry the call
\* returns an error and leaves behind what it has done so far.
Fork(p, c) ==
    LET rs == SetToSortSeq(PresentLow(p), <)
        k == IF Len(pool) - 1 < Len(rs) THEN Len(pool) - 1 ELSE Len(rs)
        done == {rs[i] : i \in 1..k}
        copied == [i \in 1..k |-> table[p][rs[i]]]
        copy(r) == pool[1 + (CHOOSE i \in 1..k : rs[i] = r)]
        shared == {v \in Pages : RegionOf[v] \in done /\ Pte(p, v) # None}
    IN
    /\ up /\ state[p] = "live" /\ state[c] = "unborn"
    /\ pool # <<>>
    /\ entry' = [t \in Frames |->
                   [v \in Pages |->
                      IF \E i \in 1..k : copied[i] = t THEN DemotedInParent(entry[t][v])
                      ELSE IF \E i \in 1..k : pool[1 + i] = t
                      THEN Demoted(entry[copied[CHOOSE i \in 1..k : pool[1 + i] = t]][v])
                      ELSE entry[t][v]]]
    /\ refs' = [f \in Frames |->
                  Increment(refs[f], Cardinality({v \in shared : Pte(p, v).frame = f}))]
    /\ pool' = SubSeq(pool, 2 + k, Len(pool))
    /\ \/ /\ k = Len(rs)
          /\ root' = [root EXCEPT ![c] = Head(pool)]
          /\ table' = [table EXCEPT ![c] = [r \in Regions |->
                         IF r \in done THEN copy(r)
                         ELSE IF r \in HighRegions THEN table[p][r] ELSE None]]
          /\ state' = [state EXCEPT ![c] = "live"]
       \/ /\ k < Len(rs)
          /\ UNCHANGED <<root, table, state>>
    /\ UNCHANGED <<content, up>>

-----------------------------------------------------------------------------
(* The other system calls that change an address space *)

\* unmap_user_page, update_pte_flags and handle_execve look at no reference
\* count; what follows when they meet a shared page is kept apart.
Unshared(p, v) == ~SharedCalls /\ Pte(p, v) # None => Get(Pte(p, v).frame) = 1

Cleared(p, v) == SetPte(p, v, None)

\* One page of munmap, of a shrinking brk and of MAP_FIXED.
UnmapUserPage(p, v) ==
    /\ "munmap" \in Calls /\ up /\ state[p] = "live"
    /\ Pte(p, v) # None /\ Unshared(p, v)
    /\ Cleared(p, v)
    /\ pool' = FreeFrame(Pte(p, v).frame, pool)
    /\ UNCHANGED <<state, root, table, content, refs, up>>

\* One page of mprotect: the new flags do not carry COW_BIT over.
UpdatePteFlags(p, v, w) ==
    /\ "mprotect" \in Calls /\ up /\ state[p] = "live"
    /\ Pte(p, v) # None /\ Unshared(p, v)
    /\ SetPte(p, v, NewPte(Pte(p, v).frame, w))
    /\ UNCHANGED <<state, root, table, content, refs, pool, up>>

\* One page of the new image: reuse the mapped frame, else map a new one.
LoadPage(m, p, s) ==
    LET t == m.table[p][RegionOf[s.v]]
        mapped == t # None /\ m.entry[t][s.v] # None
        m1 == Mapping(m, p, s.v, s.w)
    IN IF ~m.ok THEN m
       ELSE IF mapped THEN [m EXCEPT !.content[m.entry[t][s.v].frame] = s.val]
       ELSE IF m1.ok THEN [m1 EXCEPT !.content[Head(m.pool)] = s.val]
       ELSE m1

\* handle_execve: a failure returns to the half replaced image.
HandleExecve(p) ==
    /\ "execve" \in Calls /\ up /\ state[p] = "live"
    /\ \A i \in DOMAIN Image : Unshared(p, Image[i].v)
    /\ Becomes(FoldLeft(LAMBDA m, s : LoadPage(m, p, s), Mem, Image))
    /\ UNCHANGED <<state, root, refs, up>>

MappedBy(p) == {Pte(p, v).frame : v \in {u \in Pages : Pte(p, u) # None}}

\* sys_execve: destroy_user_mappings walks P4[0..255] and so also takes down
\* the kernel mappings create_user_page_table copied into P4[1..255].
DestroyUserMappings(p) ==
    LET leaves == {table[p][r] : r \in Regions} \ {None}
        freed == {f \in MappedBy(p) : Dropped(f)} \cup leaves \cup KernelFrames
    IN
    /\ "destroy" \in Calls /\ up /\ state[p] = "live"
    /\ refs' = [f \in Frames |-> IF f \in MappedBy(p) THEN Decrement(refs[f]) ELSE refs[f]]
    /\ pool' = SetToSeq(freed) \o pool
    /\ entry' = [t \in Frames |-> IF t \in leaves THEN NoEntries ELSE entry[t]]
    /\ table' = [table EXCEPT ![p] = [r \in Regions |-> None]]
    /\ up' = FALSE
    /\ UNCHANGED <<state, root, content>>

Next ==
    \/ \E p \in Procs :
         CreateUserPageTable(p) \/ Exit(p) \/ HandleExecve(p) \/ DestroyUserMappings(p)
    \/ \E p, c \in Procs : Fork(p, c)
    \/ \E p \in Procs, v \in Pages : HandleCowFault(p, v) \/ UnmapUserPage(p, v)
    \/ \E p \in Procs, v \in Pages, w \in BOOLEAN : MapUserPage(p, v, w) \/ UpdatePteFlags(p, v, w)
    \/ \E p \in Procs, v \in Pages, x \in Vals : Store(p, v, x)

Spec == Init /\ [][Next]_vars

-----------------------------------------------------------------------------
(* Properties *)

\* The PTEs that reference frame f, those of tables an unfinished fork left
\* behind included.
Sharers(f) ==
    {<<t, v>> \in Frames \X Pages : entry[t][v] # None /\ entry[t][v].frame = f}

\* No frame is handed out twice: what the allocator will hand out next is
\* neither mapped nor a page table, and is in the list only once.
FreeUnused ==
    /\ \A i, j \in 1..Len(pool) : i # j => pool[i] # pool[j]
    /\ \A i \in 1..Len(pool) :
         /\ Sharers(pool[i]) = {}
         /\ \A p \in Procs : pool[i] # root[p] /\ \A r \in Regions : pool[i] # table[p][r]

\* The reference count of a mapped frame is the number of PTEs that reference
\* it ("Tracks how many page table entries reference each physical frame"), a
\* count of 1 being the absence of an entry.  A frame is writable through a PTE
\* only if no other references it and the PTE is not copy-on-write, so that the
\* first write to a shared frame faults.
SharingExact ==
    \A f \in Frames : Sharers(f) # {} =>
      /\ Get(f) = Cardinality(Sharers(f))
      /\ refs[f] # 1
      /\ \A s \in Sharers(f) : LET e == entry[s[1]][s[2]] IN
           e.w => ~e.cow /\ Cardinality(Sharers(f)) = 1

\* What a process reads.
ReadBy(p) ==
    [v \in Pages |-> IF Pte(p, v) = None THEN None ELSE content[Pte(p, v).frame]]

\* What the executable holds at each of its pages.
ImageOf == [v \in {Image[i].v : i \in DOMAIN Image} |->
              Image[CHOOSE i \in DOMAIN Image : Image[i].v = v].val]

\* The copy-on-write fault is invisible: no process reads anything else after
\* handle_cow_fault than before, neither the one that faulted nor a sharer.
CowFaultInvisible ==
    [][\A p \in Procs, v \in Pages : HandleCowFault(p, v) =>
          \A q \in Procs : ReadBy(q)' = ReadBy(q)]_vars

Private == INSTANCE PrivateMemory
    WITH mem <- [p \in Procs |-> ReadBy(p)], born <- {p \in Procs : state[p] # "unborn"}

\* The page tables implement PrivateMemory: whatever frames processes share,
\* a process reads what it wrote itself or had at the fork, and new pages
\* read as zero.
PrivateSpec == Private!Spec
=============================================================================
