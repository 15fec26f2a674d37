----------------------------- MODULE VirtioNet -----------------------------
(***************************************************************************)
(* The receive and transmit rings of the virtio network driver in its PIO  *)
(* mode (drivers/net/virtio_net.rs), with the device running beside the    *)
(* driver.  Buffer i belongs to descriptor i in both queues.               *)
(*                                                                         *)
(* Free-running indices count modulo IndexSize (2^16) and are reduced      *)
(* modulo N, the queue size.  receive is cut where the device can see or   *)
(* change what it uses; transmit publishes with its last store.  A frame   *)
(* is its number; 0 is a zeroed buffer.                                    *)
(***************************************************************************)
EXTENDS Integers, Sequences

CONSTANTS
    N,              \* QUEUE_SIZE
    IndexSize,      \* values of an index
    MaxFrames       \* bound on the frames of each direction

Descs == 0..(N - 1)
Frames == 1..MaxFrames
Inc(i) == (i + 1) % IndexSize

VARIABLES
    rxAvail, rxRing,    \* available ring of queue 0
    rxBuf,              \* rx_buffers
    rxSeen,             \* device: next available entry
    rxUsed, rxDone,     \* used ring of queue 0: index and [id, short]
    rxLast,             \* rx_used_idx
    rxPc, rxId,         \* where receive is, and its desc_id
    arrived, received,  \* histories: frames the device stored, frames returned
    txNext,             \* tx_next_desc
    txAvail, txRing,    \* available ring of queue 1
    txBuf,              \* tx_buffers
    txSeen,             \* device: next available entry
    accepted, wire,     \* histories: frames given to transmit, frames sent
    overrun             \* history: transmit was called with N frames waiting

rxVars == <<rxAvail, rxRing, rxBuf, rxSeen, rxUsed, rxDone, rxLast, rxPc, rxId,
            arrived, received>>
txVars == <<txNext, txAvail, txRing, txBuf, txSeen, accepted, wire, overrun>>
vars == <<rxVars, txVars>>

\* After init_pio_device: all receive buffers are available.
Init ==
    /\ rxAvail = N /\ rxRing = [i \in Descs |-> i] /\ rxBuf = [i \in Descs |-> 0]
    /\ rxSeen = 0 /\ rxUsed = 0 /\ rxLast = 0
    /\ rxDone = [i \in Descs |-> [id |-> 0, short |-> FALSE]]
    /\ rxPc = "idle" /\ rxId = 0
    /\ arrived = <<>> /\ received = <<>>
    /\ txNext = 0 /\ txAvail = 0 /\ txRing = [i \in Descs |-> 0]
    /\ txBuf = [i \in Descs |-> 0] /\ txSeen = 0
    /\ accepted = <<>> /\ wire = <<>> /\ overrun = FALSE

-----------------------------------------------------------------------------
(* Receiving *)

\* The device stores the next frame in the next available buffer; one that is
\* no longer than the header counts as nothing.
DeviceStores(short) ==
    LET d == rxRing[rxSeen % N] IN
    /\ rxSeen # rxAvail
    /\ Len(arrived) < MaxFrames
    /\ arrived' = Append(arrived, IF short THEN 0 ELSE Len(arrived) + 1)
    /\ rxBuf' = [rxBuf EXCEPT ![d] = Len(arrived) + 1]
    /\ rxDone' = [rxDone EXCEPT ![rxUsed % N] = [id |-> d, short |-> short]]
    /\ rxUsed' = Inc(rxUsed)
    /\ rxSeen' = Inc(rxSeen)
    /\ UNCHANGED <<rxAvail, rxRing, rxLast, rxPc, rxId, received, txVars>>

\* Fault: the buffer is zeroed for its next use before it is copied.
Zeroed(d) == 0

\* What receive copies to its caller.
Copied(d) == rxBuf[d]

\* receive up to the copy: rx_available holds, the used element is read.
ReceiveCopy ==
    LET elem == rxDone[rxLast % N] IN
    /\ rxPc = "idle" /\ rxLast # rxUsed
    /\ received' = IF elem.short THEN received ELSE Append(received, Copied(elem.id))
    /\ rxId' = elem.id
    /\ rxPc' = "refill"
    /\ UNCHANGED <<rxAvail, rxRing, rxBuf, rxSeen, rxUsed, rxDone, rxLast, arrived, txVars>>

\* refill_rx and put_avail_rx: the buffer is zeroed and available again.
Refill ==
    /\ rxPc = "refill"
    /\ rxBuf' = [rxBuf EXCEPT ![rxId] = 0]
    /\ rxRing' = [rxRing EXCEPT ![rxAvail % N] = rxId]
    /\ rxAvail' = Inc(rxAvail)
    /\ rxPc' = "advance"
    /\ UNCHANGED <<rxSeen, rxUsed, rxDone, rxLast, rxId, arrived, received, txVars>>

Advance ==
    /\ rxPc = "advance"
    /\ rxLast' = Inc(rxLast)
    /\ rxPc' = "idle"
    /\ UNCHANGED <<rxAvail, rxRing, rxBuf, rxSeen, rxUsed, rxDone, rxId, arrived, received, txVars>>

-----------------------------------------------------------------------------
(* Transmitting *)

\* Slots are used in turn; nothing asks whether the device has finished them.
NextSlot == txNext % N

Transmit ==
    LET f == Len(accepted) + 1
        idx == NextSlot
    IN
    /\ f \in Frames
    /\ accepted' = Append(accepted, f)
    /\ txNext' = Inc(txNext)
    /\ txBuf' = [txBuf EXCEPT ![idx] = f]
    /\ txRing' = [txRing EXCEPT ![txAvail % N] = idx]
    /\ txAvail' = Inc(txAvail)
    /\ overrun' = (overrun \/ Len(accepted) - Len(wire) >= N)
    /\ UNCHANGED <<txSeen, wire, rxVars>>

DeviceSends ==
    /\ txSeen # txAvail
    /\ Len(wire) < Len(accepted)
    /\ wire' = Append(wire, txBuf[txRing[txSeen % N]])
    /\ txSeen' = Inc(txSeen)
    /\ UNCHANGED <<txNext, txAvail, txRing, txBuf, accepted, overrun, rxVars>>

Next ==
    \/ \E short \in BOOLEAN : DeviceStores(short)
    \/ ReceiveCopy \/ Refill \/ Advance
    \/ Transmit \/ DeviceSends

Spec == Init /\ [][Next]_vars

-----------------------------------------------------------------------------
(* Properties *)

\* receive returns the frames the device stored, whole, once and in order, also
\* when the indices wrap and the device stores into a buffer, and writes over
\* its used element, before receive has advanced its own index.  Every receive
\* buffer is available to the device, waits in the used ring, or is the one
\* receive is handling: none is lost and none is available twice.  And as long as
\* no more than QUEUE_SIZE frames wait for the device, it sends what was given to
\* transmit, in order.
FramesInOrder ==
    LET ahead(i, j) == (j - i) % IndexSize
        whole == SelectSeq(arrived, LAMBDA f : f # 0)
        offered == {rxRing[(rxSeen + k) % N] : k \in 0..(ahead(rxSeen, rxAvail) - 1)}
        pending == IF rxPc = "advance" THEN Inc(rxLast) ELSE rxLast
        waiting == {rxDone[(pending + k) % N].id : k \in 0..(ahead(pending, rxUsed) - 1)}
    IN
    /\ Len(received) <= Len(whole)
    /\ received = SubSeq(whole, 1, Len(received))
    /\ ahead(rxSeen, rxAvail) + ahead(pending, rxUsed) = N
    /\ offered \cup waiting = Descs
    /\ ~overrun => wire = SubSeq(accepted, 1, Len(wire))
=============================================================================
