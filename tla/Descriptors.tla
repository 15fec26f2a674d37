---------------------------- MODULE Descriptors -----------------------------
(***************************************************************************)
(* The descriptor table of the ring-3 system calls (scheduler/userspace.rs)*)
(* with what its entries own: pipe ends, sockets and epoll instances       *)
(* (sync/epoll.rs).  There is one table for all tasks, RING3_FD_TABLE, and *)
(* one counter, RING3_NEXT_FD, that is never set back: a number is handed  *)
(* out once, until the 32-bit counter wraps.                               *)
(*                                                                         *)
(* Every call runs with interrupts masked and is one step.  The bytes in a *)
(* pipe are in PipeRing, the sockets' own state is the network crate's.    *)
(***************************************************************************)
EXTENDS Integers, FiniteSets

CONSTANTS
    Slots,          \* entries of RING3_FD_TABLE (64); 0..2 are standard streams
    HalfRange,      \* the counter is in -HalfRange..(HalfRange - 1) (2^31)
    MaxId,          \* bound on the ids of pipes, sockets and epoll instances
    None

Ids == 1..MaxId
FdNumbers == 0..(Slots - 1)
Ends == {"r", "w"}
Single == {"file", "socket", "epoll"}

VARIABLES
    table,          \* RING3_FD_TABLE: [kind, id, end], or None
    nextFd,         \* RING3_NEXT_FD
    lastId,
    closed,         \* closed[id]: closed ends of a pipe in RING3_PIPE_TABLE, or None
    handles,        \* open sockets and epoll instances
    interest,       \* interest[id]: what an epoll instance watches, as
                    \* [fd, was], was the entry that fd had when it was added
    wrapped         \* history: the counter has wrapped

vars == <<table, nextFd, lastId, closed, handles, interest, wrapped>>

Init ==
    /\ table = [fd \in FdNumbers |-> None]
    /\ nextFd = 3
    /\ lastId = 0
    /\ closed = [id \in Ids |-> None]
    /\ handles = {}
    /\ interest = [id \in Ids |-> {}]
    /\ wrapped = FALSE

Entry(kind, id, end) == [kind |-> kind, id |-> id, end |-> end]

\* fetch_add on an AtomicI32
Wrap(n) == IF n >= HalfRange THEN n - 2 * HalfRange ELSE n
FetchAdd(k) ==
    /\ nextFd' = Wrap(nextFd + k)
    /\ wrapped' = (wrapped \/ nextFd + k >= HalfRange)

\* The number the next descriptor gets.
NewFd == nextFd

\* 0 <= fd < 64, else EMFILE
InTable(fd) == fd \in FdNumbers

-----------------------------------------------------------------------------
(* open, socket, epoll_create1: the object comes before the number, and is   *)
(* given up again when the number is out of range (its id is then never      *)
(* seen, and the model hands it out again).                                  *)

OpenSingle(kind) ==
    LET id == lastId + 1 IN
    /\ id \in Ids
    /\ FetchAdd(1)
    /\ \/ /\ InTable(NewFd)
          /\ lastId' = id
          /\ table' = [table EXCEPT ![NewFd] = Entry(kind, id, None)]
          /\ handles' = IF kind = "file" THEN handles ELSE handles \cup {id}
       \/ /\ ~InTable(NewFd)
          /\ UNCHANGED <<table, lastId, handles>>
    /\ UNCHANGED <<closed, interest>>

\* ring3_pipe_close: the pipe goes with its second end.
PipeClose(id, end) ==
    IF closed[id] = None \/ closed[id] \cup {end} = Ends THEN None
    ELSE closed[id] \cup {end}

\* Fault: a pipe without numbers for its ends stays.
PipeStays(id) == {}

\* What pipe2 leaves of a pipe that gets no descriptors: both ends are closed.
GivenUp(id) == None

SysPipe2 ==
    LET id == lastId + 1
        second == Wrap(nextFd + 1)
    IN
    /\ id \in Ids
    /\ FetchAdd(2)
    /\ \/ /\ InTable(NewFd) /\ InTable(second)
          /\ lastId' = id
          /\ table' = [table EXCEPT ![NewFd] = Entry("pipe", id, "r"),
                                    ![second] = Entry("pipe", id, "w")]
          /\ closed' = [closed EXCEPT ![id] = {}]
       \/ /\ ~(InTable(NewFd) /\ InTable(second))
          /\ closed' = [closed EXCEPT ![id] = GivenUp(id)]
          /\ UNCHANGED <<table, lastId>>
    /\ UNCHANGED <<handles, interest>>

\* socket::close, epoll_destroy
Destroyed(id) == handles \ {id}

SysClose(fd) ==
    LET e == table[fd] IN
    /\ fd >= 3 /\ e # None
    /\ table' = [table EXCEPT ![fd] = None]
    /\ closed' = IF e.kind = "pipe" THEN [closed EXCEPT ![e.id] = PipeClose(e.id, e.end)]
                 ELSE closed
    /\ handles' = IF e.kind \in {"socket", "epoll"} THEN Destroyed(e.id) ELSE handles
    /\ interest' = IF e.kind = "epoll" THEN [interest EXCEPT ![e.id] = {}] ELSE interest
    /\ UNCHANGED <<nextFd, lastId, wrapped>>

-----------------------------------------------------------------------------
(* epoll_ctl: any number may be added, open or not; closing a descriptor     *)
(* leaves it in every interest list.                                         *)

Instance(epfd) == table[epfd] # None /\ table[epfd].kind = "epoll" /\ table[epfd].id \in handles

EpollAdd(epfd, fd) ==
    /\ Instance(epfd)
    /\ LET id == table[epfd].id IN
       /\ \A i \in interest[id] : i.fd # fd
       /\ interest' = [interest EXCEPT ![id] = @ \cup {[fd |-> fd, was |-> table[fd]]}]
    /\ UNCHANGED <<table, nextFd, lastId, closed, handles, wrapped>>

EpollDel(epfd, fd) ==
    /\ Instance(epfd)
    /\ LET id == table[epfd].id IN
       \E i \in interest[id] :
         /\ i.fd = fd
         /\ interest' = [interest EXCEPT ![id] = @ \ {i}]
    /\ UNCHANGED <<table, nextFd, lastId, closed, handles, wrapped>>

Next ==
    \/ \E kind \in Single : OpenSingle(kind)
    \/ SysPipe2
    \/ \E fd \in FdNumbers : SysClose(fd)
    \/ \E epfd, fd \in 3..(Slots - 1) : EpollAdd(epfd, fd) \/ EpollDel(epfd, fd)

Spec == Init /\ [][Next]_vars

-----------------------------------------------------------------------------
(* Properties *)

Holding(id, end) ==
    {fd \in FdNumbers : table[fd] # None /\ table[fd].id = id /\ table[fd].end = end}

\* Until the counter wraps, descriptors and objects belong together.  Exactly
\* the open ends of the pipes in the table, the open sockets and the epoll
\* instances have a descriptor, and each has one: no call, and no call that
\* fails with EMFILE half way, leaks an object or leaves a descriptor whose
\* object is gone.  And a descriptor in an interest list is the one that was
\* added or is closed, although close does not touch the lists: epoll_wait never
\* reports readiness of one object under the data registered for another.
DescriptorsFaithful ==
    ~wrapped =>
      \A id \in Ids :
        /\ \A end \in Ends :
             Cardinality(Holding(id, end))
               = IF closed[id] # None /\ end \notin closed[id] THEN 1 ELSE 0
        /\ id \in handles => /\ Cardinality(Holding(id, None)) = 1
                             /\ \A i \in interest[id] :
                                  i.was # None => table[i.fd] \in {i.was, None}
        /\ \A fd \in Holding(id, None) : table[fd].kind = "file" \/ id \in handles
=============================================================================
