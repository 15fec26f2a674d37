----------------------------- MODULE MCServices -----------------------------
(***************************************************************************)
(* The kernel's services: the pipe buffer (PipeRing), TCP (Tcp), message   *)
(* queues (MessageQueue), shared memory (SharedMemory), the block cache    *)
(* (BlockCache), the buddy allocator (Buddy), the update partitions        *)
(* (Partitions), the I/O rings (IoRing), DHCP (Dhcp), the applications     *)
(* (AppLifecycle) and the virtio drivers (VirtQueue, VirtioBlock,          *)
(* VirtioNet).  They share no state, so a behaviour is one of a single     *)
(* part, which the initial state chooses.                                  *)
(***************************************************************************)
EXTENDS PipeRing

CONSTANTS
    None,
    Client, Server, SeqMod, Iss, MaxSend,
    Names, Pids, MaxPriority, MaxMessages, MaxQueues, MaxStamp, MaxId,
    Sizes, MaxTotal, MaxRegions, MaxMaps,
    CacheSlots, Blocks, DeviceOf, Values, MaxRefs, WordSize,
    MaxOrder, RegionOrder, BuddySlots,
    MaxAttempts, MaxCount,
    NumContexts, RingSize, IndexSize, MaxData,
    Addresses, Static, MaxRuns, MaxQueue,
    Apps, MaxInstances, MaxRestarts, MaxCrashes, MaxInstanceId,
    QueueSize, QueueIndexSize, MaxAdds,
    Sectors, MaxRequests,
    N, MaxFrames

VARIABLES
    part,
    tcpState, life, sndNxt, rcvNxt, got, sent, net, native,
    named, mqCreator, fifo, mqCount, mqId, stamp,
    size, refs, mapped, shmState, shmCreator, total, shmId, maps, destroys, pulled,
    entry, order, dirtyCount, latest, unsaved,
    freeList, nextSlot, bitmap, lent,
    active, pending, status, attempts, verified, fails,
    sq, cq, inFlight, overflows, draining, batch, submitted, polled, parked,
    pc, attempt, runs, port, bound, ip, waits, taken, lease,
    registered, removed, inst, nextId, launching, removing, targets, gaveUp, late, missed,
    vqFree, vqNext, vqAvailIdx, vqAvail, vqUsedIdx, vqUsed, lastUsed, devIdx, busy, given, adds,
    blkPc, req, header, blkData, blkStatus, avail, used, start, result, seen, work, disk, requests, clean,
    rxAvail, rxRing, rxBuf, rxSeen, rxUsed, rxDone, rxLast, rxPc, rxId, arrived, received,
    txNext, txAvail, txRing, txBuf, txSeen, accepted, wire, overrun

T == INSTANCE Tcp WITH state <- tcpState
Mq == INSTANCE MessageQueue WITH creator <- mqCreator, count <- mqCount, lastId <- mqId
Shm == INSTANCE SharedMemory WITH state <- shmState, creator <- shmCreator, lastId <- shmId
Cache == INSTANCE BlockCache WITH Slots <- CacheSlots
Heap == INSTANCE Buddy WITH Slots <- BuddySlots
Part == INSTANCE Partitions
Io == INSTANCE IoRing WITH WordSize <- IndexSize
D == INSTANCE Dhcp
App == INSTANCE AppLifecycle WITH MaxId <- MaxInstanceId
Vq == INSTANCE VirtQueue WITH IndexSize <- QueueIndexSize, freeList <- vqFree, next <- vqNext,
                              availIdx <- vqAvailIdx, avail <- vqAvail,
                              usedIdx <- vqUsedIdx, used <- vqUsed
Blk == INSTANCE VirtioBlock WITH pc <- blkPc, data <- blkData, status <- blkStatus, count <- requests
Nic == INSTANCE VirtioNet

tcpVars == <<tcpState, life, sndNxt, rcvNxt, got, sent, net, native>>
mqVars == <<named, mqCreator, fifo, mqCount, mqId, stamp>>
shmVars == <<size, refs, mapped, shmState, shmCreator, total, shmId, maps, destroys, pulled>>
cacheVars == <<entry, order, dirtyCount, latest, unsaved>>
heapVars == <<freeList, nextSlot, bitmap, lent>>
partVars == <<active, pending, status, attempts, verified, fails>>
ioVars == <<sq, cq, inFlight, overflows, draining, batch, submitted, polled, parked>>
dhcpVars == <<pc, attempt, runs, port, bound, ip, waits, taken, lease>>
appVars == <<registered, removed, inst, nextId, launching, removing, targets, gaveUp, late, missed>>
vqVars == <<vqFree, vqNext, vqAvailIdx, vqAvail, vqUsedIdx, vqUsed, lastUsed, devIdx, busy, given, adds>>
blkVars == <<blkPc, req, header, blkData, blkStatus, avail, used, start, result, seen, work, disk, requests, clean>>
nicVars == <<rxAvail, rxRing, rxBuf, rxSeen, rxUsed, rxDone, rxLast, rxPc, rxId, arrived, received,
             txNext, txAvail, txRing, txBuf, txSeen, accepted, wire, overrun>>

MCInit ==
    /\ part \in {"pipe", "tcp", "mqueue", "shm", "cache", "buddy", "update",
                "io", "dhcp", "apps", "vq", "blk", "nic"}
    /\ Init /\ T!Init /\ Mq!Init /\ Shm!Init /\ Cache!Init /\ Heap!Init /\ Part!Init
    /\ Io!Init /\ D!Init /\ App!Init /\ Vq!Init /\ Blk!Init /\ Nic!Init
    /\ part # "tcp" => native = {Client, Server}

\* The variables v of part p change only in behaviours of that part.
Keep(p, v) == IF part = p THEN TRUE ELSE UNCHANGED v

MCNext ==
    /\ \/ part = "pipe" /\ Next
       \/ part = "tcp" /\ T!Next
       \/ part = "mqueue" /\ Mq!Next
       \/ part = "shm" /\ Shm!Next
       \/ part = "cache" /\ Cache!Next
       \/ part = "buddy" /\ Heap!Next
       \/ part = "update" /\ Part!Next
       \/ part = "io" /\ Io!Next
       \/ part = "dhcp" /\ D!Next
       \/ part = "apps" /\ App!Next
       \/ part = "vq" /\ Vq!Next
       \/ part = "blk" /\ Blk!Next
       \/ part = "nic" /\ Nic!Next
    /\ Keep("pipe", vars) /\ Keep("tcp", tcpVars) /\ Keep("mqueue", mqVars)
    /\ Keep("shm", shmVars) /\ Keep("cache", cacheVars) /\ Keep("buddy", heapVars)
    /\ Keep("update", partVars) /\ Keep("io", ioVars) /\ Keep("dhcp", dhcpVars)
    /\ Keep("apps", appVars)
    /\ Keep("vq", vqVars) /\ Keep("blk", blkVars) /\ Keep("nic", nicVars)
    /\ UNCHANGED part

MCSpec ==
    MCInit /\ [][MCNext]_<<part, vars, tcpVars, mqVars, shmVars, cacheVars, heapVars, partVars,
                           ioVars, dhcpVars, appVars, vqVars, blkVars, nicVars>>

\* Two initial sequence numbers of the server, kept apart; the client's number
\* wraps on its way.
MCIss == [x \in {Client, Server} |-> IF x = Client THEN <<13>> ELSE <<2, 9>>]

\* Blocks 1 and 2 are on one device, block 3 is on another.
MCDevice == [b \in Blocks |-> IF b = 3 THEN 2 ELSE 1]

\* What is received is what the peer sent first, but for a byte that its FIN
\* overtook (process_segment).
StreamFaithful == part = "tcp" => T!StreamFaithful

\* The oldest message of the highest priority leaves first (receive).
HighestThenOldest == Mq!HighestThenOldest

\* Sizes and references of regions are counted right (create, map, destroy).
RegionsCounted == part = "shm" => Shm!RegionsCounted

\* A block is cached once, holds what was stored last and is not lost while it
\* is dirty (insert, get_mut, find_slot).
CacheFaithful == part = "cache" => Cache!CacheFaithful

\* No page is in two blocks, and none is lost (allocate, deallocate).
PagesAccounted == part = "buddy" => Heap!PagesAccounted

\* Repeated boot failures lead to the other slot (handle_boot_failure).
FailsOver == Part!FailsOver

\* Completions come once, in order and counted (submit, process, complete).
CompletionsExact == part = "io" => Io!CompletionsExact

\* The configured address is from the replies to one attempt's two messages
\* (discover_and_apply, wait_for_dhcp_reply).
AddressAcknowledged == part = "dhcp" => D!AddressAcknowledged

\* What failed permanently or was removed stays down (report_crash, bridge_uninstall).
EndedStaysDown == part = "apps" => App!EndedStaysDown

\* A descriptor is free or in one chain (alloc_desc, pop_used).
DescriptorsKept == part = "vq" => Vq!DescriptorsKept

\* Ok means that the sector was read or written (read_sector, write_sector).
OkIsDone == part = "blk" => Blk!OkIsDone

\* Frames are received and sent whole, once and in order (receive, transmit).
FramesInOrder == part = "nic" => Nic!FramesInOrder
=============================================================================
