------------------------------- MODULE Futex -------------------------------
(***************************************************************************)
(* FUTEX_WAIT and FUTEX_WAKE (kernel/src/sync/futex.rs) and the wake-up of *)
(* a joining thread when a thread exits (dispatch_sys_exit).               *)
(*                                                                         *)
(* A system call runs with interrupts masked until its first schedule() on *)
(* the only CPU (SyscallStateIsOwn of KernelEntry), so the comparison, the *)
(* enqueueing and block_current of FUTEX_WAIT are one step: nothing in     *)
(* futex.rs itself makes them atomic.  FUTEX_TABLE is one table for all    *)
(* processes and its key is the virtual address; a child of fork has its   *)
(* words at the addresses of its parent's.  User code is external: it      *)
(* changes a word and then wakes all waiters it finds there, and it joins  *)
(* a thread by waiting for the word that thread's exit clears.             *)
(***************************************************************************)
EXTENDS Naturals, Sequences, SequencesExt

CONSTANTS
    Threads,     \* user threads
    Proc,        \* Proc[t]: the process of t
    Addrs,       \* virtual addresses of futex words
    Vals,        \* values of a word; 0 is "cleared"
    Ctid,        \* Ctid[t]: clear_child_tid of t, None for a leader
    Joiner,      \* Joiner[t]: the one thread that joins t
    None

Procs == {Proc[t] : t \in Threads}

ASSUME FutexAssumption ==
    /\ 0 \in Vals /\ Vals \subseteq Nat /\ None \notin Addrs \cup Threads
    /\ Ctid \in [Threads -> Addrs \cup {None}]
    /\ Joiner \in [Threads -> Threads \cup {None}]

VARIABLES
    word,        \* word[p][a]: the memory of process p
    table,       \* FUTEX_TABLE: address -> queue of waiting tasks
    state,       \* "run", "blocked" or "exited"
    expect,      \* expect[t]: [addr, val] of t's FUTEX_WAIT, None outside one
    owed,        \* owed[t]: the word t has changed and not yet woken, or None
    passed       \* history: threads left waiting when a wake-up their own
                 \* process made at their address went to another process

vars == <<word, table, state, expect, owed, passed>>

CtidOf(p) == {Ctid[t] : t \in {u \in Threads : Proc[u] = p}} \ {None}

Init ==
    /\ word = [p \in Procs |-> [a \in Addrs |-> IF a \in CtidOf(p) THEN 1 ELSE 0]]
    /\ table = [a \in Addrs |-> <<>>]
    /\ state = [t \in Threads |-> "run"]
    /\ expect = [t \in Threads |-> None]
    /\ owed = [t \in Threads |-> None]
    /\ passed = {}

\* The first n waiters of address a, and the queue without them.
Waiters(a, n) == SubSeq(table[a], 1, IF n < Len(table[a]) THEN n ELSE Len(table[a]))
Unqueued(a, ws) == SelectSeq(table[a], LAMBDA t : t \notin ToSet(ws))

\* Process p wakes ws at address a: its own threads that it passes over.
PassedOver(p, a, ws) ==
    IF \A w \in ToSet(ws) : Proc[w] = p THEN {}
    ELSE {t \in ToSet(table[a]) : Proc[t] = p}

\* futex_wake, called in process p: pop the waiters and unblock them.
Wake(p, a, n) ==
    LET ws == Waiters(a, n) IN
    /\ table' = [table EXCEPT ![a] = Unqueued(a, ws)]
    /\ expect' = [t \in Threads |-> IF t \in ToSet(ws) THEN None ELSE expect[t]]
    /\ passed' = (passed \cup PassedOver(p, a, ws)) \ ToSet(ws)

WakeState(a, n) ==
    [t \in Threads |-> IF t \in ToSet(Waiters(a, n)) THEN "run" ELSE state[t]]

-----------------------------------------------------------------------------
\* External: user code changes a word; it owes its waiters a wake-up.
Store(t, a, v) ==
    /\ state[t] = "run" /\ owed[t] = None
    /\ a \notin CtidOf(Proc[t])
    /\ word[Proc[t]][a] # v
    /\ word' = [word EXCEPT ![Proc[t]][a] = v]
    /\ owed' = [owed EXCEPT ![t] = a]
    /\ UNCHANGED <<table, state, expect, passed>>

\* Fault: the word is not compared.
AlwaysMatches(t, a, v) == TRUE

Matches(t, a, v) == word[Proc[t]][a] = v

\* FUTEX_WAIT: -EAGAIN unless the word has the expected value; else queue the
\* task, block it and schedule.
FutexWait(t, a, v) ==
    /\ state[t] = "run" /\ owed[t] = None
    /\ \A u \in Threads : Proc[u] = Proc[t] /\ Ctid[u] = a => Joiner[u] = t
    /\ Matches(t, a, v)
    /\ table' = [table EXCEPT ![a] = Append(@, t)]
    /\ state' = [state EXCEPT ![t] = "blocked"]
    /\ expect' = [expect EXCEPT ![t] = [addr |-> a, val |-> v]]
    /\ UNCHANGED <<word, owed, passed>>

\* FUTEX_WAKE for n waiters; user code wakes all after it changed the word.
FutexWake(t, a, n) ==
    /\ state[t] = "run"
    /\ owed[t] \in {None, a}
    /\ owed[t] = a => n >= Len(table[a])
    /\ table[a] # <<>> \/ owed[t] = a
    /\ Wake(Proc[t], a, n)
    /\ state' = WakeState(a, n)
    /\ owed' = [owed EXCEPT ![t] = None]
    /\ UNCHANGED word

\* The write of 0 to clear_child_tid.
ClearedWord(t) == [word EXCEPT ![Proc[t]][Ctid[t]] = 0]

\* dispatch_sys_exit: a thread with a clear_child_tid clears it and wakes its
\* joiner; a leader just ends.
SysExit(t) ==
    /\ state[t] = "run" /\ owed[t] = None
    /\ \/ /\ Ctid[t] # None
          /\ word' = ClearedWord(t)
          /\ Wake(Proc[t], Ctid[t], 1)
          /\ state' = [WakeState(Ctid[t], 1) EXCEPT ![t] = "exited"]
       \/ /\ Ctid[t] = None
          /\ state' = [state EXCEPT ![t] = "exited"]
          /\ UNCHANGED <<word, table, expect, passed>>
    /\ UNCHANGED owed

Next ==
    \E t \in Threads :
        \/ SysExit(t)
        \/ \E a \in Addrs :
            \/ \E v \in Vals : Store(t, a, v) \/ FutexWait(t, a, v)
            \/ \E n \in 0..Len(table[a]) : FutexWake(t, a, n)

Spec == Init /\ [][Next]_vars

-----------------------------------------------------------------------------
\* "atomically check *uaddr == val, block if so".  FUTEX_TABLE holds a blocked
\* task once, under the address it waits for, and no other task.  A waiter whose
\* word no longer has the value it waits for is about to be woken, because a
\* thread of its process still owes the wake-up; or the wake-up came and
\* futex_wake gave it to a waiter of another process, whose word has the same
\* virtual address.  There is no third way to sleep on.
NoLostWakeup ==
    /\ \A a \in Addrs :
        /\ IsInjective(table[a])
        /\ ToSet(table[a]) = {t \in Threads : state[t] = "blocked" /\ expect[t].addr = a}
    /\ \A t \in Threads : state[t] = "blocked" =>
        \/ word[Proc[t]][expect[t].addr] = expect[t].val
        \/ \E u \in Threads : Proc[u] = Proc[t] /\ owed[u] = expect[t].addr
        \/ t \in passed
=============================================================================
