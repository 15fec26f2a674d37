---------------------------- MODULE ProcessFiles ----------------------------
(***************************************************************************)
(* The descriptors of the processes of the Linux layer: open, pipe2, dup,  *)
(* dup2 and close (syscall/linux_handlers.rs) on file_descriptors and      *)
(* next_fd of a process entry (process/table.rs), the copy fork makes of   *)
(* them, and the pipe table.  Pipes are not reference counted: an end      *)
(* counts as closed when the first descriptor that refers to it is closed. *)
(*                                                                         *)
(* The calls do not block and run with interrupts masked: each is a step.  *)
(* Descriptor numbers are u32, and dup2 takes any: numbers wrap behind     *)
(* MaxFd as they do behind 2^32 - 1 in a build without overflow checks.    *)
(* The bytes in a pipe are in PipeRing.                                    *)
(***************************************************************************)
EXTENDS Integers

CONSTANTS
    Procs,          \* processes; Root is there from the start
    Root,
    MaxPipe,        \* bound on pipe ids
    MaxFd,          \* u32::MAX
    Std,            \* how many standard streams there are: 3
    FdMax,          \* FD_MAX, which only open looks at
    MaxMade,        \* bound on calls that make a descriptor
    None

Fds == 0..MaxFd
Pipes == 1..MaxPipe
Ends == {"r", "w"}
File == "file"

VARIABLES
    born,           \* processes with an entry
    fds,            \* file_descriptors: what descriptor fd refers to, or None
    nextFd,
    pipe,           \* PIPE_TABLE: the ends closed so far, or None
    lastPipe,       \* NEXT_PIPE_ID
    placed,         \* history: descriptors that dup2 put at or above next_fd
    wrapped,        \* history: processes whose next_fd has gone past MaxFd
    shared,         \* history: pipes with an end that was duplicated or inherited
    made            \* calls so far that made a descriptor

vars == <<born, fds, nextFd, pipe, lastPipe, placed, wrapped, shared, made>>

NoFds == [fd \in Fds |-> None]
StdFds == [fd \in Fds |-> IF fd < Std THEN File ELSE None]

Init ==
    /\ born = {Root}
    /\ fds = [p \in Procs |-> StdFds]
    /\ nextFd = [p \in Procs |-> Std]
    /\ pipe = [k \in Pipes |-> None]
    /\ lastPipe = 0
    /\ placed = [p \in Procs |-> {}]
    /\ wrapped = {}
    /\ shared = {}
    /\ made = 0

Open(p) == {fd \in Fds : fds[p][fd] # None}
PipeOf(r) == IF r = File THEN {} ELSE {r[1]}

-----------------------------------------------------------------------------
(* Descriptors *)

After(fd) == (fd + 1) % (MaxFd + 1)

Making ==
    /\ made < MaxMade
    /\ made' = made + 1

\* alloc_fd, once or twice
AllocFd(p, next) ==
    /\ Making
    /\ nextFd' = [nextFd EXCEPT ![p] = next]
    /\ wrapped' = IF next < nextFd[p] THEN wrapped \cup {p} ELSE wrapped
    /\ placed' = [placed EXCEPT ![p] = {fd \in @ : nextFd[p] < next /\ next <= fd}]

\* alloc_process_fd
SysOpen(p) ==
    /\ p \in born /\ nextFd[p] < FdMax
    /\ fds' = [fds EXCEPT ![p][nextFd[p]] = File]
    /\ AllocFd(p, After(nextFd[p]))
    /\ UNCHANGED <<born, pipe, lastPipe, shared>>

SysPipe2(p) ==
    LET k == lastPipe + 1
        r == nextFd[p]
    IN
    /\ p \in born /\ k \in Pipes
    /\ lastPipe' = k
    /\ pipe' = [pipe EXCEPT ![k] = {}]
    /\ fds' = [fds EXCEPT ![p][r] = <<k, "r">>, ![p][After(r)] = <<k, "w">>]
    /\ AllocFd(p, After(After(r)))
    /\ UNCHANGED <<born, shared>>

\* dup_in_process without a target (dup, F_DUPFD).
SysDup(p, old) ==
    /\ p \in born /\ old \in Open(p)
    /\ fds' = [fds EXCEPT ![p][nextFd[p]] = fds[p][old]]
    /\ AllocFd(p, After(nextFd[p]))
    /\ shared' = shared \cup PipeOf(fds[p][old])
    /\ UNCHANGED <<born, pipe, lastPipe>>

\* dup_in_process with a target: what the target referred to is dropped
\* without pipe_close, and next_fd is left alone.
SysDup2(p, old, new) ==
    /\ p \in born /\ old \in Open(p) /\ new # old
    /\ Making
    /\ fds' = [fds EXCEPT ![p][new] = fds[p][old]]
    /\ placed' = [placed EXCEPT ![p] = @ \cup {fd \in {new} : p \notin wrapped /\ nextFd[p] <= fd}]
    /\ shared' = shared \cup PipeOf(fds[p][old])
    /\ UNCHANGED <<born, nextFd, pipe, lastPipe, wrapped>>

\* Fault: the pipe goes when either end is closed.
EitherEnd(k, end) == None

\* pipe_close: the pipe goes when both ends have been closed once, however many
\* descriptors refer to it.
PipeClose(k, end) ==
    IF pipe[k] = None \/ pipe[k] \cup {end} = Ends THEN None ELSE pipe[k] \cup {end}

\* close_in_process
SysClose(p, fd) ==
    LET r == fds[p][fd] IN
    /\ p \in born /\ fd \in Open(p)
    /\ fds' = [fds EXCEPT ![p][fd] = None]
    /\ pipe' = IF r = File THEN pipe ELSE [pipe EXCEPT ![r[1]] = PipeClose(r[1], r[2])]
    /\ placed' = [placed EXCEPT ![p] = @ \ {fd}]
    /\ UNCHANGED <<born, nextFd, lastPipe, wrapped, shared, made>>

-----------------------------------------------------------------------------
(* fork and exit *)

\* Fault: the next number is that of the highest open descriptor.
HighestFd(S) == IF S = {} THEN Std ELSE CHOOSE m \in S : \A fd \in S : fd <= m

\* next_fd of a child: one above the highest descriptor it inherits, 0 above
\* the highest number there is.
NextAbove(S) == IF S = {} THEN Std ELSE After(CHOOSE m \in S : \A fd \in S : fd <= m)

SysFork(p, c) ==
    /\ p \in born /\ c \notin born
    /\ born' = born \cup {c}
    /\ fds' = [fds EXCEPT ![c] = fds[p]]
    /\ nextFd' = [nextFd EXCEPT ![c] = NextAbove(Open(p))]
    /\ wrapped' = IF MaxFd \in Open(p) THEN wrapped \cup {c} ELSE wrapped
    /\ shared' = shared \cup UNION {PipeOf(fds[p][fd]) : fd \in Open(p)}
    /\ UNCHANGED <<pipe, lastPipe, placed, made>>

\* exit and kill drop the descriptors, their pipes untouched.  Tasks of the
\* process that still run (its threads, or all after kill) can go on to open
\* new ones in the entry.
DropAll(p) ==
    /\ p \in born
    /\ fds' = [fds EXCEPT ![p] = NoFds]
    /\ placed' = [placed EXCEPT ![p] = {}]
    /\ UNCHANGED <<born, nextFd, pipe, lastPipe, wrapped, shared, made>>

Next ==
    \/ \E p \in Procs :
         \/ SysOpen(p) \/ SysPipe2(p) \/ DropAll(p)
         \/ \E fd \in Fds : SysDup(p, fd) \/ SysClose(p, fd)
         \/ \E old, new \in Fds : SysDup2(p, old, new)
    \/ \E p, c \in Procs : SysFork(p, c)

Spec == Init /\ [][Next]_vars

-----------------------------------------------------------------------------
(* Properties *)

\* A descriptor of a pipe that was neither duplicated nor inherited finds the
\* pipe in PIPE_TABLE with its end open, whatever happens to the other end:
\* reads give no premature end of file, writes no EPIPE while a reader is left.
UnsharedPipesUsable ==
    \A p \in Procs : \A fd \in Open(p) :
      LET r == fds[p][fd] IN
      (r # File /\ r[1] \notin shared) => (pipe[r[1]] # None /\ r[2] \notin pipe[r[1]])

\* alloc_fd hands out a number above every open descriptor, in a forked child
\* too; only a descriptor that dup2 put there itself can lie in its way, and any
\* can once next_fd has wrapped (next_fd += 1, or m + 1 of an inherited u32::MAX).
AllocFresh ==
    \A p \in Procs \ wrapped : \A fd \in Open(p) : fd < nextFd[p] \/ fd \in placed[p]
=============================================================================
