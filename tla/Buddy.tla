------------------------------- MODULE Buddy --------------------------------
(***************************************************************************)
(* The buddy allocator (memory/buddy.rs).  Addresses are counted in blocks *)
(* of MIN_BLOCK_SIZE from the base.  A free list is a chain through the    *)
(* array of descriptors; a descriptor slot is used once, and when they are *)
(* used up a block that should join a free list is dropped.                *)
(***************************************************************************)
EXTENDS Naturals, Sequences

CONSTANTS
    MaxOrder,       \* MAX_ORDER
    RegionOrder,    \* the managed region is a power of two
    Slots           \* length of blocks

Orders == 0..MaxOrder
SizeOf(order) == 2 ^ order

\* init adds one block, of MAX_ORDER at most; what lies beyond is never used.
TopOrder == IF RegionOrder < MaxOrder THEN RegionOrder ELSE MaxOrder
Region == 0..(SizeOf(TopOrder) - 1)
Requests == 1..SizeOf(TopOrder)     \* larger ones find no block

VARIABLES
    freeList,       \* freeList[order]: block addresses from the head on
    nextSlot,
    bitmap,         \* allocated_bitmap
    lent            \* history: [addr, size] of blocks given out

vars == <<freeList, nextSlot, bitmap, lent>>

\* size_to_order
OrderFor(size) ==
    CHOOSE k \in Orders : SizeOf(k) >= size /\ \A j \in 0..(k - 1) : SizeOf(j) < size

\* Free lists and slots after a sequence of calls of add_to_free_list, given as
\* <<order, addr>>.
RECURSIVE Added(_, _, _)
Added(lists, slot, adds) ==
    IF adds = <<>> \/ slot >= Slots
    THEN [lists |-> lists, slot |-> slot]
    ELSE LET a == Head(adds) IN
         Added([lists EXCEPT ![a[1]] = <<a[2]>> \o @], slot + 1, Tail(adds))

NoLists == [k \in Orders |-> <<>>]

Init ==
    LET first == Added(NoLists, 0, <<<<TopOrder, 0>>>>) IN
    /\ freeList = first.lists /\ nextSlot = first.slot
    /\ bitmap = {}
    /\ lent = {}

\* The upper halves that the split loop adds, largest first.
SplitAdds(addr, from, to) == [i \in 1..(from - to) |-> <<from - i, addr + SizeOf(from - i)>>]

\* find_free_block
BigEnough(order) == {k \in Orders : k >= order /\ freeList[k] # <<>>}

Allocate(size) ==
    LET order == OrderFor(size)
        from == CHOOSE k \in BigEnough(order) : \A j \in BigEnough(order) : k <= j
        addr == Head(freeList[from])
        after == Added([freeList EXCEPT ![from] = Tail(@)], nextSlot, SplitAdds(addr, from, order))
    IN
    /\ BigEnough(order) # {}
    /\ freeList' = after.lists /\ nextSlot' = after.slot
    /\ bitmap' = bitmap \cup {addr}
    /\ lent' = lent \cup {[addr |-> addr, size |-> size]}

\* buddy_address: relative ^ block_size
BuddyAddress(addr, order) ==
    IF (addr \div SizeOf(order)) % 2 = 0 THEN addr + SizeOf(order) ELSE addr - SizeOf(order)

Without(list, addr) == SelectSeq(list, LAMBDA a : a # addr)

\* One turn of the merge loop; as a fault, all there is of it.
MergedOnce(lists, addr, order) ==
    LET buddy == BuddyAddress(addr, order) IN
    IF order < MaxOrder /\ \E i \in DOMAIN lists[order] : lists[order][i] = buddy
    THEN [lists |-> [lists EXCEPT ![order] = Without(@, buddy)],
          addr |-> IF buddy < addr THEN buddy ELSE addr, order |-> order + 1]
    ELSE [lists |-> lists, addr |-> addr, order |-> order]

\* The merge loop of deallocate.
RECURSIVE Merged(_, _, _)
Merged(lists, addr, order) ==
    LET once == MergedOnce(lists, addr, order) IN
    IF once.order = order THEN once ELSE Merged(once.lists, once.addr, once.order)

\* deallocate of a block that was allocated, with the size it was asked for
Deallocate(b) ==
    LET m == Merged(freeList, b.addr, OrderFor(b.size))
        after == Added(m.lists, nextSlot, <<<<m.order, m.addr>>>>)
    IN
    /\ b \in lent
    /\ bitmap' = bitmap \ {b.addr}
    /\ freeList' = after.lists /\ nextSlot' = after.slot
    /\ lent' = lent \ {b}

Next == (\E size \in Requests : Allocate(size)) \/ (\E b \in lent : Deallocate(b))

Spec == Init /\ [][Next]_vars

-----------------------------------------------------------------------------
(* Properties *)

Pages(addr, order) == addr..(addr + SizeOf(order) - 1)

FreeBlocks == {<<k, a>> \in Orders \X Region : \E i \in DOMAIN freeList[k] : freeList[k][i] = a}

FreePages == UNION {Pages(f[2], f[1]) : f \in FreeBlocks}
LentPages == UNION {Pages(b.addr, OrderFor(b.size)) : b \in lent}

\* No page is in two blocks, free or allocated: nothing is given out twice, and
\* a merge never takes in a block that someone has.  Until the descriptor slots
\* are used up no page is lost, and the free blocks are merged as far as they
\* go; after that add_to_free_list drops blocks.
PagesAccounted ==
    /\ \A f, g \in FreeBlocks : f # g => Pages(f[2], f[1]) \cap Pages(g[2], g[1]) = {}
    /\ \A b, c \in lent : b # c => Pages(b.addr, OrderFor(b.size)) \cap Pages(c.addr, OrderFor(c.size)) = {}
    /\ FreePages \cap LentPages = {} /\ FreePages \cup LentPages \subseteq Region
    /\ \A k \in Orders : \A i, j \in DOMAIN freeList[k] : freeList[k][i] = freeList[k][j] => i = j
    /\ nextSlot < Slots =>
         /\ FreePages \cup LentPages = Region
         /\ \A f \in FreeBlocks : <<f[1], BuddyAddress(f[2], f[1])>> \notin FreeBlocks
=============================================================================
