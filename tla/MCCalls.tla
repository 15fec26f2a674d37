------------------------------ MODULE MCCalls ------------------------------
(***************************************************************************)
(* Three services behind system calls: futexes (Futex), sockets (Sockets)  *)
(* and the file system (MemFs).  They share no state, so a behaviour is    *)
(* one of a single part, which the initial state chooses.  The threads are *)
(* a leader and two threads it joins, and the leader of a forked process,  *)
(* which has its words at the same addresses.                              *)
(***************************************************************************)
EXTENDS Futex, TLC

CONSTANTS
    lead, th1, th2, child, d, c1, c2,
    MaxHandle, MaxCreated, MaxCalls, Ports, Capacity,
    Names, MaxIno

VARIABLES
    part,
    socks, queues, nextHandle, held, orphans, pairs, calls,
    inodes, nextIno, shell, lost

Sock == INSTANCE Sockets
Fs == INSTANCE MemFs

sockVars == <<socks, queues, nextHandle, held, orphans, pairs, calls>>
fsVars == <<inodes, nextIno, shell, lost>>

MCThreads == {lead, th1, th2, child}
MCProc == [t \in MCThreads |-> IF t = child THEN "q" ELSE "p"]
MCCtid == (lead :> None) @@ (th1 :> c1) @@ (th2 :> c2) @@ (child :> None)
MCJoiner == (lead :> None) @@ (th1 :> lead) @@ (th2 :> lead) @@ (child :> None)

\* The file system treats all names alike, and nothing else has names.
AnyNames == Permutations(Names)

MCInit ==
    /\ part \in {"futex", "socket", "fs"}
    /\ Init /\ Sock!Init /\ Fs!Init

MCNext ==
    /\ \/ part = "futex" /\ Next /\ UNCHANGED <<sockVars, fsVars>>
       \/ part = "socket" /\ Sock!Next /\ UNCHANGED <<vars, fsVars>>
       \/ part = "fs" /\ Fs!Next /\ UNCHANGED <<vars, sockVars>>
    /\ UNCHANGED part

MCSpec == MCInit /\ [][MCNext]_<<part, vars, sockVars, fsVars>>

\* A socket belongs to a descriptor or waits to be accepted (create, accept, close).
HandlesAccounted == part = "socket" => Sock!HandlesAccounted

\* The connections of one listener are never mixed (connect, accept, send).
PairPrivate == part = "socket" => Sock!PairPrivate

\* The directories form a tree that holds every file (remove, rename).
TreeSound == part = "fs" => Fs!TreeSound
=============================================================================
