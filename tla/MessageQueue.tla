---------------------------- MODULE MessageQueue ----------------------------
(***************************************************************************)
(* The message queue manager (ipc/mqueue.rs): named queues, one FIFO per   *)
(* priority, a message count beside them, and handles that outlive the     *)
(* queue they were opened for.  Every operation holds the manager's lock   *)
(* or the queue's and is one step.                                         *)
(***************************************************************************)
EXTENDS Naturals, Sequences, FiniteSets

CONSTANTS
    Names, Pids,
    MaxPriority,    \* MAX_PRIORITY
    MaxMessages,    \* attr.max_messages
    MaxQueues,      \* max_queues
    MaxId,          \* bound on queue ids
    MaxStamp,       \* bound on messages
    None

Priorities == 0..MaxPriority
Ids == 1..MaxId

VARIABLES
    named,          \* named_queues: the id behind a name, or None
    creator,        \* creator[id] of a queue in the map `queues', else None
    fifo,           \* priority_queues[p] of a queue: stamps in order of arrival
    count,          \* message_count
    lastId,
    stamp           \* history: messages sent so far

vars == <<named, creator, fifo, count, lastId, stamp>>

Init ==
    /\ named = [n \in Names |-> None]
    /\ creator = [i \in Ids |-> None]
    /\ fifo = [i \in Ids |-> [p \in Priorities |-> <<>>]]
    /\ count = [i \in Ids |-> 0]
    /\ lastId = 0
    /\ stamp = 0

\* open with create and no queue of that name; an existing one is returned
\* (or refused, when exclusive) and nothing changes.
MqOpen(n, pid) ==
    LET id == lastId + 1 IN
    /\ named[n] = None /\ id \in Ids
    /\ Cardinality({i \in Ids : creator[i] # None}) < MaxQueues
    /\ lastId' = id
    /\ named' = [named EXCEPT ![n] = id]
    /\ creator' = [creator EXCEPT ![id] = pid]
    /\ UNCHANGED <<fifo, count, stamp>>

RemoveQueue(id) == [creator EXCEPT ![id] = None]

\* close by the creator; the messages go with the queue.
MqClose(n, pid) ==
    LET id == named[n] IN
    /\ id # None /\ creator[id] = pid
    /\ named' = [named EXCEPT ![n] = None]
    /\ creator' = RemoveQueue(id)
    /\ UNCHANGED <<fifo, count, lastId, stamp>>

\* A message of higher priority than there are FIFOs joins the last one.
Clamp(p) == IF p > MaxPriority THEN MaxPriority ELSE p

\* send and receive through an id, which the caller may hold from an open
\* that was long ago: without the queue it is NotFound.
MqSend(id, p) ==
    /\ creator[id] # None /\ count[id] < MaxMessages /\ stamp < MaxStamp
    /\ stamp' = stamp + 1
    /\ fifo' = [fifo EXCEPT ![id][Clamp(p)] = Append(@, stamp + 1)]
    /\ count' = [count EXCEPT ![id] = @ + 1]
    /\ UNCHANGED <<named, creator, lastId>>

\* Fault: the loop runs upward.
LowestPriority(id) ==
    CHOOSE p \in Priorities : fifo[id][p] # <<>> /\ \A q \in 0..(p - 1) : fifo[id][q] = <<>>

\* The loop over priorities runs downward.
HighestPriority(id) ==
    CHOOSE p \in Priorities :
      fifo[id][p] # <<>> /\ \A q \in (p + 1)..MaxPriority : fifo[id][q] = <<>>

CountDown(id) == [count EXCEPT ![id] = @ - 1]

MqReceive(id) ==
    /\ creator[id] # None /\ count[id] > 0
    /\ fifo' = [fifo EXCEPT ![id][HighestPriority(id)] = Tail(@)]
    /\ count' = CountDown(id)
    /\ UNCHANGED <<named, creator, lastId, stamp>>

Next ==
    \/ \E n \in Names, pid \in Pids : MqOpen(n, pid) \/ MqClose(n, pid)
    \/ \E id \in Ids : MqReceive(id) \/ \E p \in 0..(MaxPriority + 1) : MqSend(id, p)

Spec == Init /\ [][Next]_vars

-----------------------------------------------------------------------------
(* Properties *)

Waiting(id) == UNION {{[p |-> p, at |-> fifo[id][p][i]] : i \in 1..Len(fifo[id][p])}
                      : p \in Priorities}

\* A message leaves a queue only when none of higher priority and none of the
\* same priority that came earlier waits there.
HighestThenOldest ==
    [][\A id \in Ids : \A m \in Waiting(id) \ Waiting(id)' :
         \A o \in Waiting(id)' : o.p < m.p \/ (o.p = m.p /\ o.at > m.at)]_vars
=============================================================================
