--------------------------- MODULE PrivateMemory ---------------------------
(***************************************************************************)
(* What the user page tables promise a process: its memory is its own.     *)
(* A step of process p changes the memory of p only, fork gives the child  *)
(* the memory its parent has at that moment, and a page that is mapped     *)
(* anew reads as zero.  AddressSpace is shown to implement this module.    *)
(***************************************************************************)
CONSTANTS
    Procs, Pages, Vals, Zero, None,
    ImageOf      \* the contents of an executable, for each page it has

VARIABLES
    mem,         \* mem[p][v]: what p reads at page v, None when unmapped
    born         \* the processes that have been created

vars == <<mem, born>>

Nothing == [v \in Pages |-> None]

Init ==
    /\ mem = [p \in Procs |-> Nothing]
    /\ born = {}

Create(p) ==
    /\ p \notin born
    /\ born' = born \cup {p}
    /\ UNCHANGED mem

Fork(p, c) ==
    /\ p \in born /\ c \notin born
    /\ born' = born \cup {c}
    /\ mem' = [mem EXCEPT ![c] = mem[p]]

Map(p, v) ==
    /\ p \in born /\ mem[p][v] = None
    /\ mem' = [mem EXCEPT ![p][v] = Zero]
    /\ UNCHANGED born

Unmap(p, v) ==
    /\ p \in born /\ mem[p][v] # None
    /\ mem' = [mem EXCEPT ![p][v] = None]
    /\ UNCHANGED born

Store(p, v, x) ==
    /\ p \in born /\ mem[p][v] # None
    /\ mem' = [mem EXCEPT ![p][v] = x]
    /\ UNCHANGED born

\* execve: pages of the new image replace old ones, some only when it fails.
Exec(p) ==
    /\ p \in born
    /\ \E done \in SUBSET DOMAIN ImageOf :
         mem' = [mem EXCEPT ![p] = [v \in Pages |->
                   IF v \in done THEN ImageOf[v] ELSE mem[p][v]]]
    /\ UNCHANGED born

\* The whole memory of a process is given up.
Discard(p) ==
    /\ p \in born
    /\ mem' = [mem EXCEPT ![p] = Nothing]
    /\ UNCHANGED born

Next ==
    \/ \E p \in Procs : Create(p) \/ Exec(p) \/ Discard(p)
    \/ \E p, c \in Procs : Fork(p, c)
    \/ \E p \in Procs, v \in Pages : Map(p, v) \/ Unmap(p, v)
    \/ \E p \in Procs, v \in Pages, x \in Vals : Store(p, v, x)

Spec == Init /\ [][Next]_vars
=============================================================================
