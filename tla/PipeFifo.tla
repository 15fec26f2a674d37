------------------------------ MODULE PipeFifo ------------------------------
(***************************************************************************)
(* What a kernel pipe promises: a byte sequence of bounded length.  A      *)
(* write appends as much of its bytes as there is room for, a read takes   *)
(* as many from the front as there are and were asked for.                 *)
(***************************************************************************)
EXTENDS Naturals, Sequences

CONSTANTS
    Bytes,
    Capacity,
    MaxLen          \* bound on the length of one request

VARIABLES
    pipe,           \* the bytes in the pipe
    out             \* what the last read has returned

Least(m, n) == IF m < n THEN m ELSE n

Init == pipe = <<>> /\ out = <<>>

Write(s) ==
    /\ pipe' = pipe \o SubSeq(s, 1, Least(Len(s), Capacity - Len(pipe)))
    /\ UNCHANGED out

Read(n) ==
    LET k == Least(n, Len(pipe)) IN
    /\ out' = SubSeq(pipe, 1, k)
    /\ pipe' = SubSeq(pipe, k + 1, Len(pipe))

Next ==
    \E n \in 0..MaxLen : Read(n) \/ \E s \in [1..n -> Bytes] : Write(s)

Spec == Init /\ [][Next]_<<pipe, out>>
=============================================================================
