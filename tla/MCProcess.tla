----------------------------- MODULE MCProcess ------------------------------
(***************************************************************************)
(* The records the kernel keeps for its processes: the areas of an address *)
(* space (VmArea), the process table (Processes), the descriptors of the   *)
(* Linux layer (ProcessFiles) and those of ring 3 (Descriptors).  They     *)
(* share no state, so a behaviour is one of a single part, which the       *)
(* initial state chooses.                                                  *)
(***************************************************************************)
EXTENDS VmArea

CONSTANTS
    None,
    MaxPid, MaxTid, Statuses, Killed,
    Procs, Root, MaxPipe, MaxFd, Std, FdMax, MaxMade,
    Slots, HalfRange, MaxId

VARIABLES
    part,
    state, parent, code, threads, tasks, lastPid, lastTid, status, signalled, unrecorded,
    born, fds, nextFds, pipe, lastPipe, placed, turned, shared, made,
    table, nextFd, lastId, closed, handles, interest, wrapped

Proc == INSTANCE Processes
Files == INSTANCE ProcessFiles WITH nextFd <- nextFds, wrapped <- turned
Ring3 == INSTANCE Descriptors

procVars == <<state, parent, code, threads, tasks, lastPid, lastTid, status, signalled, unrecorded>>
filesVars == <<born, fds, nextFds, pipe, lastPipe, placed, turned, shared, made>>
ring3Vars == <<table, nextFd, lastId, closed, handles, interest, wrapped>>

MCInit ==
    /\ part \in {"areas", "processes", "files", "ring3"}
    /\ Init /\ Proc!Init /\ Files!Init /\ Ring3!Init

MCNext ==
    /\ \/ part = "areas" /\ Next /\ UNCHANGED <<procVars, filesVars, ring3Vars>>
       \/ part = "processes" /\ Proc!Next /\ UNCHANGED <<vars, filesVars, ring3Vars>>
       \/ part = "files" /\ Files!Next /\ UNCHANGED <<vars, procVars, ring3Vars>>
       \/ part = "ring3" /\ Ring3!Next /\ UNCHANGED <<vars, procVars, filesVars>>
    /\ UNCHANGED part

MCSpec == MCInit /\ [][MCNext]_<<part, vars, procVars, filesVars, ring3Vars>>

\* The process table agrees with the scheduler's tasks (sys_clone, sys_exit, sys_kill).
TableFaithful == Proc!TableFaithful

\* Descriptors of a pipe that is not shared find their end open (pipe_close).
UnsharedPipesUsable == Files!UnsharedPipesUsable

\* A new descriptor number is above the open ones until the numbers wrap (alloc_fd, sys_fork).
AllocFresh == Files!AllocFresh

\* Descriptors, objects and interest lists belong together until the counter
\* wraps (handle_pipe2, handle_close, epoll_ctl).
DescriptorsFaithful == Ring3!DescriptorsFaithful
=============================================================================
