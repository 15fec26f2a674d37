----------------------------- MODULE VirtQueue -----------------------------
(***************************************************************************)
(* The descriptor bookkeeping of a virtqueue (driver/virtio/queue.rs).     *)
(* Descriptors come from a free list, go to the device alone or in chains  *)
(* of two, and come back through the used ring in the order in which the   *)
(* device finishes them.  Addresses and lengths are left out.              *)
(***************************************************************************)
EXTENDS Integers, Sequences, FiniteSets

CONSTANTS
    QueueSize,
    IndexSize,  \* values of a ring index (2^16), a multiple of QueueSize
    MaxAdds,    \* bound on the buffers of a behaviour
    None

Descs == 0..(QueueSize - 1)
Inc(i) == (i + 1) % IndexSize
Slot(i) == i % QueueSize

VARIABLES
    freeList,           \* free_list
    next,               \* descriptor table: the next of a chain, or None
    availIdx, avail,    \* available ring
    usedIdx, used,      \* used ring
    lastUsed,           \* last_used_idx
    devIdx, busy,       \* device: next available entry, heads it works on
    given,              \* history: the chain of each head not yet popped
    adds

vars == <<freeList, next, availIdx, avail, usedIdx, used, lastUsed, devIdx, busy,
          given, adds>>

Init ==
    /\ freeList = [i \in 1..QueueSize |-> i - 1]
    /\ next = [d \in Descs |-> None]
    /\ availIdx = 0 /\ avail = [d \in Descs |-> 0]
    /\ usedIdx = 0 /\ used = [d \in Descs |-> 0]
    /\ lastUsed = 0
    /\ devIdx = 0 /\ busy = {}
    /\ given = [d \in Descs |-> {}]
    /\ adds = 0

\* alloc_desc takes the descriptor freed last.
Top == freeList[Len(freeList)]
Popped == SubSeq(freeList, 1, Len(freeList) - 1)

\* The chain that starts at head is published.
Publish(head, chain) ==
    /\ avail' = [avail EXCEPT ![Slot(availIdx)] = head]
    /\ availIdx' = Inc(availIdx)
    /\ given' = [given EXCEPT ![head] = chain]
    /\ adds' = adds + 1
    /\ UNCHANGED <<usedIdx, used, lastUsed, devIdx, busy>>

AddBuffer ==
    /\ adds < MaxAdds
    /\ freeList # <<>>
    /\ freeList' = Popped
    /\ next' = [next EXCEPT ![Top] = None]
    /\ Publish(Top, {Top})

\* add_chained_buffer; with a single descriptor left it is put back.
AddChainedBuffer ==
    LET second == freeList[Len(freeList) - 1] IN
    /\ adds < MaxAdds
    /\ Len(freeList) >= 2
    /\ freeList' = SubSeq(freeList, 1, Len(freeList) - 2)
    /\ next' = [next EXCEPT ![Top] = second, ![second] = None]
    /\ Publish(Top, {Top, second})

\* Fault: only the head of the chain is freed.
HeadOnly(head) == <<head>>

\* free_desc_chain: the chain's descriptors in order.
Chain(head) == IF next[head] = None THEN <<head>> ELSE <<head, next[head]>>

PopUsed ==
    LET head == used[Slot(lastUsed)] IN
    /\ lastUsed # usedIdx
    /\ lastUsed' = Inc(lastUsed)
    /\ freeList' = freeList \o Chain(head)
    /\ given' = [given EXCEPT ![head] = {}]
    /\ UNCHANGED <<next, availIdx, avail, usedIdx, used, devIdx, busy, adds>>

\* The device takes the next chain, and finishes any that it has.
DeviceTakes ==
    /\ devIdx # availIdx
    /\ busy' = busy \cup {avail[Slot(devIdx)]}
    /\ devIdx' = Inc(devIdx)
    /\ UNCHANGED <<freeList, next, availIdx, avail, usedIdx, used, lastUsed, given, adds>>

DeviceFinishes(head) ==
    /\ head \in busy
    /\ busy' = busy \ {head}
    /\ used' = [used EXCEPT ![Slot(usedIdx)] = head]
    /\ usedIdx' = Inc(usedIdx)
    /\ UNCHANGED <<freeList, next, availIdx, avail, lastUsed, devIdx, given, adds>>

Next ==
    \/ AddBuffer \/ AddChainedBuffer \/ PopUsed
    \/ DeviceTakes
    \/ \E head \in Descs : DeviceFinishes(head)

Spec == Init /\ [][Next]_vars

-----------------------------------------------------------------------------
(* Properties *)

\* Every descriptor is either on the free list, once, or part of exactly one
\* chain the device or the used ring holds: none leaks, and none is handed out
\* while the device may still use it, whatever the order of completion and
\* when the indices wrap.
DescriptorsKept ==
    LET out == UNION {given[d] : d \in Descs}
        freed == {freeList[i] : i \in 1..Len(freeList)}
    IN
    /\ Cardinality(freed) = Len(freeList)
    /\ freed \cap out = {}
    /\ freed \cup out = Descs
    /\ \A d, e \in Descs : d # e => given[d] \cap given[e] = {}
    /\ \A d \in busy : given[d] # {} /\ given[d] \cap freed = {}
=============================================================================
