------------------------------ MODULE PipeRing ------------------------------
(***************************************************************************)
(* The circular buffer of a kernel pipe: PipeBuffer of the Linux system    *)
(* calls (syscall/linux_handlers.rs) and Ring3PipeBuffer of the ring-3     *)
(* path (scheduler/userspace.rs), which are the same code.  A call holds   *)
(* the lock of the pipe table and is one step.                             *)
(***************************************************************************)
EXTENDS Naturals, Sequences

CONSTANTS
    Bytes, Zero,
    Capacity,       \* PIPE_BUF_SIZE
    MaxLen          \* bound on the length of one request

ASSUME PipeAssumption ==
    /\ Zero \in Bytes
    /\ Capacity \in Nat \ {0} /\ MaxLen \in Nat

VARIABLES
    data,
    writePos, readPos,
    count,
    out             \* dst of the last read

vars == <<data, writePos, readPos, count, out>>

Init ==
    /\ data = [i \in 0..(Capacity - 1) |-> Zero]
    /\ writePos = 0 /\ readPos = 0 /\ count = 0
    /\ out = <<>>

Least(m, n) == IF m < n THEN m ELSE n

\* The index k steps after i: (i + 1) % PIPE_BUF_SIZE, k times.
Advance(i, k) == IF i + k >= Capacity THEN i + k - Capacity ELSE i + k

\* Fault: the capacity, not the room left, bounds the loop.
Unbounded(s) == Least(Len(s), Capacity)

ToWrite(s) == Least(Len(s), Capacity - count)

\* The loop stores byte k + 1 of src at the k-th index from write_pos.
Write(s) ==
    LET n == ToWrite(s) IN
    /\ data' = [i \in 0..(Capacity - 1) |->
                  LET k == IF i >= writePos THEN i - writePos ELSE i + Capacity - writePos
                  IN IF k < n THEN s[k + 1] ELSE data[i]]
    /\ writePos' = Advance(writePos, n)
    /\ count' = count + n
    /\ UNCHANGED <<readPos, out>>

ReadCursor(i, k) == Advance(i, k)

Read(n) ==
    LET k == Least(n, count) IN
    /\ out' = [j \in 1..k |-> data[Advance(readPos, j - 1)]]
    /\ readPos' = ReadCursor(readPos, k)
    /\ count' = count - k
    /\ UNCHANGED <<data, writePos>>

Next ==
    \E n \in 0..MaxLen : Read(n) \/ \E s \in [1..n -> Bytes] : Write(s)

Spec == Init /\ [][Next]_vars

-----------------------------------------------------------------------------
(* Properties *)

\* Cursors and count stay in range, and the count is the distance between the
\* cursors: equal cursors mean an empty or a full pipe and the count tells which.
CursorsAgree ==
    /\ writePos \in 0..(Capacity - 1) /\ readPos \in 0..(Capacity - 1)
    /\ count \in 0..Capacity
    /\ writePos = Advance(readPos, count)

\* The bytes between the cursors, in reading order.
Content == [j \in 1..count |-> data[Advance(readPos, j - 1)]]

Fifo == INSTANCE PipeFifo WITH pipe <- Content

\* The circular buffer is a bounded byte sequence: what is read is what was
\* written, in order, across every wrap of the cursors and every write that
\* was cut short for lack of room.
FifoSpec == Fifo!Spec
=============================================================================
