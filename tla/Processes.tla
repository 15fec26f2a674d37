----------------------------- MODULE Processes ------------------------------
(***************************************************************************)
(* The process table of the Linux layer (process/table.rs) and the calls   *)
(* of syscall/linux_handlers.rs that change it: fork, clone, exit, wait4   *)
(* and kill.  The table and the scheduler's tasks are two records of the   *)
(* same processes: exit ends the task and marks the entry, kill only marks *)
(* the entry, wait4 only removes it, and a fault or an exit_group from     *)
(* ring 3 only ends the task.                                              *)
(*                                                                         *)
(* The calls do not block and run with interrupts masked: each is a step.  *)
(* The descriptors of a process are in ProcessFiles, its address space in  *)
(* AddressSpace and VmArea, the futex wake of a thread's exit in Futex.    *)
(***************************************************************************)
EXTENDS Integers

CONSTANTS
    MaxPid, MaxTid,     \* bounds on the id counters
    Statuses,           \* arguments of exit
    Killed,             \* the code 128 + sig
    None

Pids == 1..MaxPid
Tids == 101..(100 + MaxTid)   \* ThreadId starts far above the pids

VARIABLES
    state,          \* "none", "ready", "zombie" or "reaped" (no entry again)
    parent,
    code,           \* exit_code
    threads,        \* tids of the entry's threads besides the leader
    tasks,          \* scheduler tasks <<pid, tid>>; the leader's tid is its pid
    lastPid, lastTid,
    status,         \* history: what the leader passed to exit
    signalled,      \* history: processes SIGKILL or SIGTERM was sent to
    unrecorded      \* history: tasks that ended and left the table as it was

table == <<state, parent, code, threads>>
kernel == <<tasks, lastPid, lastTid>>
history == <<status, signalled, unrecorded>>
vars == <<table, kernel, history>>

\* The kernel has spawned one process.
Init ==
    /\ state = [p \in Pids |-> IF p = 1 THEN "ready" ELSE "none"]
    /\ parent = [p \in Pids |-> 0]
    /\ code = [p \in Pids |-> None]
    /\ threads = [p \in Pids |-> {}]
    /\ tasks = {<<1, 1>>}
    /\ lastPid = 1 /\ lastTid = 100
    /\ status = [p \in Pids |-> None]
    /\ signalled = {}
    /\ unrecorded = {}

Present(p) == state[p] \in {"ready", "zombie"}

\* A task of process p runs and the table has an entry for p; the handlers
\* return an error when it has none.
Caller(p) == Present(p) /\ \E t \in tasks : t[1] = p

-----------------------------------------------------------------------------
(* Processes and threads *)

SysFork(p) ==
    LET c == lastPid + 1 IN
    /\ Caller(p) /\ c \in Pids
    /\ lastPid' = c
    /\ state' = [state EXCEPT ![c] = "ready"]
    /\ parent' = [parent EXCEPT ![c] = p]
    /\ tasks' = tasks \cup {<<c, c>>}
    /\ UNCHANGED <<code, threads, lastTid, history>>

\* clone with CLONE_THREAD
SysClone(p) ==
    LET t == lastTid + 1 IN
    /\ Caller(p) /\ t \in Tids
    /\ lastTid' = t
    /\ threads' = [threads EXCEPT ![p] = @ \cup {t}]
    /\ tasks' = tasks \cup {<<p, t>>}
    /\ UNCHANGED <<state, parent, code, lastPid, history>>

\* Fault: the entry keeps the thread.
ThreadKept(p, tid) == threads[p]

\* retain
Without(p, tid) == threads[p] \ {tid}

\* exit of a thread that is not the leader.
ThreadExit(p, tid) ==
    /\ <<p, tid>> \in tasks /\ tid # p /\ Present(p)
    /\ threads' = [threads EXCEPT ![p] = Without(p, tid)]
    /\ tasks' = tasks \ {<<p, tid>>}
    /\ UNCHANGED <<state, parent, code, lastPid, lastTid, history>>

\* exit_code of the entry
ExitCode(p, c) == c

SetExited(p, c) ==
    /\ state' = [state EXCEPT ![p] = "zombie"]
    /\ code' = [code EXCEPT ![p] = ExitCode(p, c)]

\* exit of the leader; its threads run on.
LeaderExit(p, s) ==
    /\ <<p, p>> \in tasks /\ Present(p)
    /\ SetExited(p, s)
    /\ tasks' = tasks \ {<<p, p>>}
    /\ status' = [status EXCEPT ![p] = s]
    /\ UNCHANGED <<parent, threads, lastPid, lastTid, signalled, unrecorded>>

\* exit of any task whose process has been reaped: there is no entry to mark.
LateExit(t) ==
    /\ t \in tasks /\ ~Present(t[1])
    /\ tasks' = tasks \ {t}
    /\ UNCHANGED <<table, lastPid, lastTid, history>>

\* exit_current alone: a page fault or general protection fault in ring 3, and
\* exit_group or the leader's exit through the ring-3 dispatcher.  exit_group
\* ends the calling task, not its group.
UnrecordedEnd(t) ==
    /\ t \in tasks /\ Present(t[1])
    /\ tasks' = tasks \ {t}
    /\ unrecorded' = unrecorded \cup {t}
    /\ UNCHANGED <<table, lastPid, lastTid, status, signalled>>

\* kill with SIGKILL or SIGTERM, by any task; the target's tasks run on, and
\* the code of a zombie is replaced.
SysKill(p) ==
    /\ tasks # {} /\ Present(p)
    /\ SetExited(p, Killed)
    /\ signalled' = signalled \cup {p}
    /\ UNCHANGED <<parent, threads, kernel, status, unrecorded>>

\* Fault: a child that still runs is taken for a zombie.
AnyChild(p) == {c \in Pids : Present(c) /\ parent[c] = p}

Zombies(p) == {c \in Pids : state[c] = "zombie" /\ parent[c] = p}

\* wait4 reaps the named child, or the first zombie; without one it returns.
SysWait4(p, wanted) ==
    LET found == {c \in Zombies(p) : wanted \in {c, -1}} IN
    /\ \E t \in tasks : t[1] = p
    /\ \E c \in found :
         /\ \A d \in found : c <= d
         /\ state' = [state EXCEPT ![c] = "reaped"]
         /\ threads' = [threads EXCEPT ![c] = {}]
    /\ UNCHANGED <<parent, code, kernel, history>>

Next ==
    \/ \E p \in Pids :
         \/ SysFork(p) \/ SysClone(p) \/ SysKill(p)
         \/ \E tid \in Tids : ThreadExit(p, tid)
         \/ \E s \in Statuses : LeaderExit(p, s)
         \/ \E w \in Pids \cup {-1} : SysWait4(p, w)
    \/ \E t \in tasks : LateExit(t) \/ UnrecordedEnd(t)

Spec == Init /\ [][Next]_vars

-----------------------------------------------------------------------------
(* Properties *)

\* What the table says of a process is true of its tasks, through any order of
\* clone, exit, kill and wait4.  The threads an entry lists are those that the
\* scheduler runs and those that ended by a fault or by exit_group from ring 3;
\* a process that is not marked as exited has a leader that runs or ended so.
\* No entry is marked as exited, and none reaped, while its leader still runs,
\* and the code wait4 finds is what the leader passed to exit; both except after
\* a SIGKILL or SIGTERM, which marks the entry and leaves the task to run on.
TableFaithful ==
    \A p \in Pids :
      /\ Present(p) => threads[p] = {t \in Tids : <<p, t>> \in tasks \cup unrecorded}
      /\ state[p] = "ready" => <<p, p>> \in tasks \cup unrecorded
      /\ state[p] = "zombie" => code[p] \in {status[p]} \cup (IF p \in signalled THEN {Killed} ELSE {})
      /\ state[p] \in {"zombie", "reaped"} /\ p \notin signalled => <<p, p>> \notin tasks
=============================================================================
