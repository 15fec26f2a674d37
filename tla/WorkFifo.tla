------------------------------ MODULE WorkFifo ------------------------------
(***************************************************************************)
(* What the deferred-work queue promises: a bounded first-in first-out     *)
(* queue that refuses items when it is full, loses none it has accepted    *)
(* and hands each of them out once, except that all may be discarded once  *)
(* before the first one is handed out.  WorkQueue implements it.           *)
(***************************************************************************)
EXTENDS Naturals, Sequences

CONSTANTS Items, Capacity, None

VARIABLES
    queue,       \* accepted and not handed out
    current,     \* the item in the hands of the consumer
    started      \* the consumer has begun

vars == <<queue, current, started>>

Init == queue = <<>> /\ current = None /\ started = FALSE

Accept(i) ==
    /\ Len(queue) < Capacity
    /\ queue' = Append(queue, i)
    /\ UNCHANGED <<current, started>>

\* Discard what was there at some moment before the consumer begins.
Begin ==
    /\ ~started
    /\ \E n \in 0..Len(queue) : queue' = SubSeq(queue, n + 1, Len(queue))
    /\ started' = TRUE
    /\ UNCHANGED current

Take ==
    /\ started /\ current = None /\ queue # <<>>
    /\ current' = Head(queue)
    /\ queue' = Tail(queue)
    /\ UNCHANGED started

Done ==
    /\ current # None
    /\ current' = None
    /\ UNCHANGED <<queue, started>>

Next == (\E i \in Items : Accept(i)) \/ Begin \/ Take \/ Done

Spec == Init /\ [][Next]_vars
=============================================================================
