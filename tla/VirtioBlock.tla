---------------------------- MODULE VirtioBlock ----------------------------
(***************************************************************************)
(* The virtio block driver (driver/virtio/block.rs): read_sector and       *)
(* write_sector hand one request at a time to the device and poll for its  *)
(* end.  There is one header, one data buffer and one status byte, and     *)
(* descriptors 0 to 2 are used for every request, so a request that was    *)
(* given up after its timeout shares them with the next.                   *)
(*                                                                         *)
(* The device runs beside the driver: it fetches a header, moves the data, *)
(* and then stores the status and the used index.  The spin count of the   *)
(* timeout is abstracted to a choice.  Sectors are those below capacity:   *)
(* for others a call returns an error before it changes anything.          *)
(***************************************************************************)
EXTENDS Integers

CONSTANTS
    Sectors, Values,
    IndexSize,      \* values of a ring index (2^16)
    MaxRequests,    \* bound on the requests of a behaviour
    None

VARIABLES
    pc, req,        \* where the driver is, and the request: [op, sector, value]
    header, data, status,   \* the buffers the device uses
    avail, used,    \* idx of the two rings
    start,          \* start_idx
    result,         \* what the last request returned
    seen, work,     \* device: next available entry, and the request it handles
    disk,
    count,
    clean           \* history: the device was idle when req was prepared

vars == <<pc, req, header, data, status, avail, used, start, result, seen, work,
          disk, count, clean>>

Inc(i) == (i + 1) % IndexSize
Blank == CHOOSE v \in Values : TRUE

Init ==
    /\ pc = "idle" /\ req = None
    /\ header = None /\ data = Blank /\ status = "pending"
    /\ avail = 0 /\ used = 0 /\ start = 0
    /\ result = None
    /\ seen = 0 /\ work = None
    /\ disk = [s \in Sectors |-> Blank]
    /\ count = 0
    /\ clean = TRUE

-----------------------------------------------------------------------------
(* The driver *)

\* Fault: the header keeps the sector of the request before.
OldSector(op, s) == IF header = None THEN [op |-> op, sector |-> s] ELSE [header EXCEPT !.op = op]

Header(op, s) == [op |-> op, sector |-> s]

\* Header, status and data buffer (cleared for a read), before the descriptors.
Prepare(op, s, v) ==
    /\ pc = "idle"
    /\ count < MaxRequests
    /\ count' = count + 1
    /\ req' = [op |-> op, sector |-> s, value |-> v]
    /\ header' = Header(op, s)
    /\ status' = "pending"
    /\ data' = IF op = "read" THEN Blank ELSE v
    /\ clean' = (work = None /\ seen = avail)
    /\ pc' = "publish"
    /\ UNCHANGED <<avail, used, start, result, seen, work, disk>>

Publish ==
    /\ pc = "publish"
    /\ avail' = Inc(avail)
    /\ pc' = "snapshot"
    /\ UNCHANGED <<req, header, data, status, used, start, result, seen, work, disk, count, clean>>

\* start_idx is read after the device was told of the request.
Snapshot ==
    /\ pc = "snapshot"
    /\ start' = used
    /\ pc' = "poll"
    /\ UNCHANGED <<req, header, data, status, avail, used, result, seen, work, disk, count, clean>>

Completed == used # start

Return(r) ==
    /\ result' = r
    /\ pc' = "idle"
    /\ UNCHANGED <<req, header, data, status, avail, used, start, seen, work, disk, count, clean>>

Finish ==
    /\ pc = "poll" /\ Completed
    /\ Return(IF status = "ok" THEN [ok |-> TRUE, value |-> data] ELSE [ok |-> FALSE, value |-> None])

Timeout ==
    /\ pc = "poll" /\ ~Completed
    /\ Return([ok |-> FALSE, value |-> None])

-----------------------------------------------------------------------------
(* The device *)

Fetch ==
    /\ work = None /\ seen # avail
    /\ seen' = Inc(seen)
    /\ work' = [op |-> header.op, sector |-> header.sector, moved |-> FALSE]
    /\ UNCHANGED <<pc, req, header, data, status, avail, used, start, result, disk, count, clean>>

Move ==
    /\ work # None /\ ~work.moved
    /\ \/ work.op = "read" /\ data' = disk[work.sector] /\ UNCHANGED disk
       \/ work.op = "write" /\ disk' = [disk EXCEPT ![work.sector] = data] /\ UNCHANGED data
    /\ work' = [work EXCEPT !.moved = TRUE]
    /\ UNCHANGED <<pc, req, header, status, avail, used, start, result, seen, count, clean>>

\* Status, then used index; a request that fails moves nothing.
Complete ==
    /\ work # None
    /\ \/ work.moved /\ status' = "ok"
       \/ ~work.moved /\ status' = "error"
    /\ used' = Inc(used)
    /\ work' = None
    /\ UNCHANGED <<pc, req, header, data, avail, start, result, seen, disk, count, clean>>

Next ==
    \/ \E op \in {"read", "write"}, s \in Sectors, v \in Values :
         (op = "read" => v = Blank) /\ Prepare(op, s, v)
    \/ Publish \/ Snapshot \/ Finish \/ Timeout
    \/ Fetch \/ Move \/ Complete

Spec == Init /\ [][Next]_vars

-----------------------------------------------------------------------------
(* Properties *)

\* A request that was prepared while the device was idle and that returns Ok
\* has been done: a read returns the sector, a write is on the disk.  (When an
\* earlier request was given up and is still with the device, its end is taken
\* for the end of this one.)
OkIsDone ==
    pc = "idle" /\ clean /\ result # None /\ result.ok =>
      /\ disk[req.sector] = result.value
      /\ req.op = "write" => result.value = req.value
=============================================================================
