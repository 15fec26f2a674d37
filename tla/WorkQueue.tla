----------------------------- MODULE WorkQueue -----------------------------
(***************************************************************************)
(* The deferred-work ring (kernel/src/interrupts/workqueue.rs).  Interrupt *)
(* handlers push; they run behind interrupt gates, so one push is never    *)
(* interrupted by another.  The main loop discards what boot left behind   *)
(* and then drains, with interrupts enabled: a push can come between any   *)
(* two of its memory accesses.  The indices are machine words that wrap.   *)
(***************************************************************************)
EXTENDS Naturals, Sequences

CONSTANTS
    Items,       \* work items
    Kind,        \* Kind[i]: which callback an item is for
    Size,        \* QUEUE_SIZE
    Wrap,        \* 2^64: the indices are modulo Wrap
    None         \* an EMPTY slot

Kinds == {Kind[i] : i \in Items}

ASSUME WorkQueueAssumption ==
    /\ Size \in Nat \ {0} /\ Wrap \in Nat /\ Wrap > Size /\ Wrap % Size = 0
    /\ None \notin Items

VARIABLES
    storage,     \* QUEUE_STORAGE
    write,       \* WRITE_IDX
    read,        \* READ_IDX
    callbacks,   \* the kinds whose callback pointer is not null
    pc,          \* where the main loop is
    loaded,      \* reset: the value of WRITE_IDX it has loaded
    item,        \* drain: the slot it has copied
    ran          \* the item whose callback runs

vars == <<storage, write, read, callbacks, pc, loaded, item, ran>>

Init ==
    /\ storage = [s \in 0..(Size - 1) |-> None]
    /\ write = 0 /\ read = 0 /\ loaded = 0
    /\ callbacks = {}
    /\ pc = "boot" /\ item = None /\ ran = None

\* Fault: one item too many.
FullOffByOne == (write + Wrap - read) % Wrap > Size

Full == (write + Wrap - read) % Wrap >= Size
Incremented(i) == (i + 1) % Wrap
Empty == read = write

-----------------------------------------------------------------------------
(* Interrupt handlers *)

\* push: drops the item when the ring is full
Push(i) ==
    /\ ~Full
    /\ storage' = [storage EXCEPT ![write % Size] = i]
    /\ write' = Incremented(write)
    /\ UNCHANGED <<read, callbacks, pc, loaded, item, ran>>

-----------------------------------------------------------------------------
(* The main loop *)

Goto(l) == pc' = l

Register(k) ==
    /\ pc = "boot"
    /\ callbacks' = callbacks \cup {k}
    /\ UNCHANGED <<storage, write, read, pc, loaded, item, ran>>

ResetLoad ==
    /\ pc = "boot" /\ Goto("reset")
    /\ loaded' = write
    /\ UNCHANGED <<storage, write, read, callbacks, item, ran>>

ResetStore ==
    /\ pc = "reset" /\ Goto("drain")
    /\ read' = loaded
    /\ UNCHANGED <<storage, write, callbacks, loaded, item, ran>>

DrainCheck ==
    /\ pc = "drain" /\ ~Empty
    /\ Goto("copy")
    /\ UNCHANGED <<storage, write, read, callbacks, loaded, item, ran>>

CopySlot == item' = storage[read % Size]

DrainCopy ==
    /\ pc = "copy" /\ Goto("advance")
    /\ CopySlot
    /\ UNCHANGED <<storage, write, read, callbacks, loaded, ran>>

DrainAdvance ==
    /\ pc = "advance" /\ Goto("dispatch")
    /\ read' = Incremented(read)
    /\ UNCHANGED <<storage, write, callbacks, loaded, item, ran>>

\* to_work_item of an EMPTY slot is None; a null callback ignores the item.
Dispatch ==
    /\ pc = "dispatch" /\ Goto("return")
    /\ ran' = IF item # None /\ Kind[item] \in callbacks THEN item ELSE None
    /\ item' = None
    /\ UNCHANGED <<storage, write, read, callbacks, loaded>>

\* Fault: the loop ends after one item.
DrainOnce ==
    /\ pc = "return"
    /\ ran' = None
    /\ UNCHANGED <<storage, write, read, callbacks, pc, loaded, item>>

CallbackReturns ==
    /\ pc = "return" /\ Goto("drain")
    /\ ran' = None
    /\ UNCHANGED <<storage, write, read, callbacks, loaded, item>>

MainLoop ==
    \/ \E k \in Kinds : Register(k)
    \/ ResetLoad \/ ResetStore
    \/ DrainCheck \/ DrainCopy \/ DrainAdvance \/ Dispatch \/ CallbackReturns

Next == (\E i \in Items : Push(i)) \/ MainLoop

Spec == Init /\ [][Next]_vars

\* The main loop gets the CPU again and again (TopLevelRuns of Scheduler).
Drain == DrainCheck \/ DrainCopy \/ DrainAdvance \/ Dispatch \/ CallbackReturns
FairSpec == Spec /\ WF_vars(ResetLoad) /\ WF_vars(ResetStore) /\ WF_vars(Drain)

-----------------------------------------------------------------------------
(* Properties *)

\* Types of the variables.
TypeOK ==
    /\ storage \in [0..(Size - 1) -> Items \cup {None}]
    /\ write \in 0..(Wrap - 1) /\ read \in 0..(Wrap - 1) /\ loaded \in 0..(Wrap - 1)
    /\ callbacks \subseteq Kinds
    /\ pc \in {"boot", "reset", "drain", "copy", "advance", "dispatch", "return"}
    /\ item \in Items \cup {None} /\ ran \in Items \cup {None}

\* The published items in order of their slots.
Published ==
    [k \in 1..((write + Wrap - read) % Wrap) |-> storage[(read + k - 1) % Size]]

\* What drain has copied and not yet passed to its callback.
InHand == IF pc = "dispatch" THEN item ELSE None

Fifo == INSTANCE WorkFifo
    WITH queue <- Published, current <- InHand, Capacity <- Size,
         started <- pc \notin {"boot", "reset"}

\* Whatever a push interrupts, the ring is a bounded queue: accepted items
\* reach the main loop once each and in order ("processes all pending items
\* in FIFO order"), and only a full ring refuses one.
FifoSpec == Fifo!Spec

\* drain never hands an EMPTY slot to dispatch and never runs the callback of
\* a kind that is not registered.
OnlyPublished ==
    /\ pc \in {"advance", "dispatch"} => item # None
    /\ ran # None => Kind[ran] \in callbacks

\* An item that is in the ring once draining has begun is passed to dispatch.
Dispatched ==
    \A i \in Items :
      (pc = "drain" /\ \E k \in DOMAIN Published : Published[k] = i)
         ~> (pc = "dispatch" /\ item = i)
=============================================================================
