------------------------------- MODULE IoRing -------------------------------
(***************************************************************************)
(* The submission and completion rings of the I/O subsystem (io/mod.rs,    *)
(* io/ring.rs) and its executor (io/executor.rs).  process() locks one     *)
(* context at a time, so submit and poll_completion of a context come      *)
(* between the draining of its submissions and their completions.          *)
(***************************************************************************)
EXTENDS Naturals, Sequences

CONSTANTS
    NumContexts,    \* length of contexts
    RingSize,       \* mask + 1
    WordSize,       \* 2^32, a multiple of RingSize
    MaxData         \* bound on the operations of all contexts

Contexts == 1..NumContexts

\* What the executor does with an operation: answer it, or (accept, connect,
\* recvmsg, poll_add, timeout) say that it is pending.
Kinds == {"answered", "pending"}

VARIABLES
    sq, cq,         \* a ring of each context: entries, head and tail
    inFlight,       \* stats.in_flight
    overflows,      \* stats.cq_overflows
    draining,       \* the context process() drains next; 0 when it is not draining
    batch,          \* all_submissions, without those that are processed
    submitted,      \* history: operations submitted so far, whose numbers are their user_data
    polled,         \* history: user_data of the completions handed out
    parked          \* history: operations the executor said are pending

vars == <<sq, cq, inFlight, overflows, draining, batch, submitted, polled, parked>>

NoEntry == [data |-> 0, kind |-> "answered"]
EmptyRing == [entries |-> [i \in 0..(RingSize - 1) |-> NoEntry], head |-> 0, tail |-> 0]

Length(r) == (r.tail + WordSize - r.head) % WordSize

\* Fault: the mask is taken for the size.
FullLater(r) == Length(r) > RingSize

Full(r) == Length(r) > RingSize - 1

Push(r, e) ==
    [r EXCEPT !.entries[r.tail % RingSize] = e, !.tail = (@ + 1) % WordSize]

First(r) == r.entries[r.head % RingSize]

Pop(r) == [r EXCEPT !.head = (@ + 1) % WordSize]

\* The entries of a ring, oldest first
Content(r) == [i \in 1..Length(r) |-> r.entries[(r.head + i - 1) % RingSize]]

Init ==
    /\ sq = [c \in Contexts |-> EmptyRing]
    /\ cq = [c \in Contexts |-> EmptyRing]
    /\ inFlight = [c \in Contexts |-> 0]
    /\ overflows = [c \in Contexts |-> 0]
    /\ draining = 0
    /\ batch = <<>>
    /\ submitted = 0
    /\ polled = [c \in Contexts |-> <<>>]
    /\ parked = [c \in Contexts |-> 0]

-----------------------------------------------------------------------------
(* Steps *)

\* submit; a full ring refuses the operation
Submit(c) ==
    /\ submitted < MaxData
    /\ ~Full(sq[c])
    /\ \E k \in Kinds :
          sq' = [sq EXCEPT ![c] = Push(@, [data |-> submitted + 1, kind |-> k])]
    /\ submitted' = submitted + 1
    /\ inFlight' = [inFlight EXCEPT ![c] = @ + 1]
    /\ UNCHANGED <<cq, overflows, draining, batch, polled, parked>>

\* poll_completion; poll_completions and submit_and_wait repeat it
PollCompletion(c) ==
    /\ Length(cq[c]) > 0
    /\ polled' = [polled EXCEPT ![c] = Append(@, First(cq[c]).data)]
    /\ cq' = [cq EXCEPT ![c] = Pop(@)]
    /\ inFlight' = [inFlight EXCEPT ![c] = @ - 1]
    /\ UNCHANGED <<sq, overflows, draining, batch, submitted, parked>>

StartProcess ==
    /\ draining = 0 /\ batch = <<>>
    /\ draining' = 1
    /\ UNCHANGED <<sq, cq, inFlight, overflows, batch, submitted, polled, parked>>

\* drain_submissions of the next context
Drain ==
    LET c == draining
        drained == Content(sq[c])
    IN
    /\ c # 0
    /\ batch' = batch \o [i \in 1..Len(drained) |-> <<c, drained[i]>>]
    /\ sq' = [sq EXCEPT ![c].head = sq[c].tail]
    /\ draining' = (c + 1) % (NumContexts + 1)
    /\ UNCHANGED <<cq, inFlight, overflows, submitted, polled, parked>>

AfterOverflow(n) == n

\* The executor has the next operation, and complete() its answer: a full
\* completion ring loses it.
Process ==
    LET c == batch[1][1]
        e == batch[1][2]
    IN
    /\ draining = 0 /\ batch # <<>>
    /\ batch' = Tail(batch)
    /\ \/ /\ e.kind = "pending"
          /\ parked' = [parked EXCEPT ![c] = @ + 1]
          /\ UNCHANGED <<cq, inFlight, overflows>>
       \/ /\ e.kind = "answered" /\ ~Full(cq[c])
          /\ cq' = [cq EXCEPT ![c] = Push(@, e)]
          /\ UNCHANGED <<inFlight, overflows, parked>>
       \/ /\ e.kind = "answered" /\ Full(cq[c])
          /\ overflows' = [overflows EXCEPT ![c] = @ + 1]
          /\ inFlight' = [inFlight EXCEPT ![c] = AfterOverflow(@)]
          /\ UNCHANGED <<cq, parked>>
    /\ UNCHANGED <<sq, draining, submitted, polled>>

Next ==
    \/ \E c \in Contexts : Submit(c) \/ PollCompletion(c)
    \/ StartProcess \/ Drain \/ Process

Spec == Init /\ [][Next]_vars

-----------------------------------------------------------------------------
(* Properties *)

\* The completions of a context, handed out and waiting, are those of different
\* operations in the order of their submission: no ring overwrites an entry, and
\* none is completed twice, however submit and poll_completion fall into
\* process().  in_flight is exact: an operation counts until its completion is
\* handed out, and for ever when it was parked or its completion was lost.
CompletionsExact ==
    \A c \in Contexts :
       LET waiting == Content(cq[c])
           seen == polled[c] \o [i \in 1..Len(waiting) |-> waiting[i].data]
       IN
       /\ \A i \in 1..Len(seen) : seen[i] \in 1..submitted
       /\ \A i, j \in 1..Len(seen) : i < j => seen[i] < seen[j]
       /\ inFlight[c] = Length(sq[c]) + Length(cq[c]) + overflows[c] + parked[c]
                        + Len(SelectSeq(batch, LAMBDA b : b[1] = c))
=============================================================================
