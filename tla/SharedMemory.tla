---------------------------- MODULE SharedMemory ----------------------------
(***************************************************************************)
(* The shared memory manager (ipc/shm.rs): regions with a reference count  *)
(* and a list of mappings, and the total size.  map counts a reference,    *)
(* unmap does not give it back, and every destroy by the creator takes one *)
(* away; the region goes when the count reaches zero.  Every operation     *)
(* holds the manager's lock or the region's and is one step.               *)
(***************************************************************************)
EXTENDS Naturals, FiniteSets

CONSTANTS
    Pids,
    Sizes,          \* sizes of new regions
    MaxTotal,       \* max_total_size
    MaxRegions,     \* max_regions
    MaxId,          \* bound on region ids
    MaxMaps,        \* bound on the calls of map for a region
    None

Ids == 1..MaxId

VARIABLES
    size,           \* of a region in the registry; 0 without one
    refs,           \* ref_count
    mapped,         \* processes in mappings
    state,          \* ShmState
    creator,        \* creator of a region
    total,          \* total_size
    lastId,
    maps,           \* history: calls of map on a region that is there
    destroys,       \* history: calls of destroy on it
    pulled          \* history: both counts of the regions that went while mapped

vars == <<size, refs, mapped, state, creator, total, lastId, maps, destroys, pulled>>

Init ==
    /\ size = [i \in Ids |-> 0]
    /\ refs = [i \in Ids |-> 0]
    /\ mapped = [i \in Ids |-> {}]
    /\ state = [i \in Ids |-> "None"]
    /\ creator = [i \in Ids |-> None]
    /\ total = 0
    /\ lastId = 0
    /\ maps = [i \in Ids |-> 0]
    /\ destroys = [i \in Ids |-> 0]
    /\ pulled = {}

Regions == {i \in Ids : size[i] # 0}

ShmCreate(n, p) ==
    LET id == lastId + 1 IN
    /\ id \in Ids /\ n <= MaxTotal
    /\ Cardinality(Regions) < MaxRegions /\ total + n <= MaxTotal
    /\ lastId' = id
    /\ size' = [size EXCEPT ![id] = n]
    /\ refs' = [refs EXCEPT ![id] = 1]
    /\ state' = [state EXCEPT ![id] = "Allocated"]
    /\ creator' = [creator EXCEPT ![id] = p]
    /\ total' = total + n
    /\ UNCHANGED <<mapped, maps, destroys, pulled>>

\* Fault: add_ref is missing.
NoRef(id) == refs

AddRef(id) == [refs EXCEPT ![id] = @ + 1]

ShmMap(id, p) ==
    /\ id \in Regions /\ p \notin mapped[id] /\ maps[id] < MaxMaps
    /\ mapped' = [mapped EXCEPT ![id] = @ \cup {p}]
    /\ state' = [state EXCEPT ![id] = "Mapped"]
    /\ refs' = AddRef(id)
    /\ maps' = [maps EXCEPT ![id] = @ + 1]
    /\ UNCHANGED <<size, creator, total, lastId, destroys, pulled>>

\* The reference stays counted.
ShmUnmap(id, p) ==
    /\ id \in Regions /\ p \in mapped[id]
    /\ mapped' = [mapped EXCEPT ![id] = @ \ {p}]
    /\ state' = IF mapped[id] = {p} THEN [state EXCEPT ![id] = "Allocated"] ELSE state
    /\ UNCHANGED <<size, refs, creator, total, lastId, maps, destroys, pulled>>

TotalAfter(id) == IF refs[id] = 1 THEN total - size[id] ELSE total

Last(id) == refs[id] = 1

\* Every mark of the region goes with it.
ShmDestroy(id, p) ==
    /\ id \in Regions /\ p = creator[id]
    /\ state' = [state EXCEPT ![id] = IF Last(id) THEN "None" ELSE "Destroying"]
    /\ refs' = [refs EXCEPT ![id] = @ - 1]
    /\ total' = TotalAfter(id)
    /\ \/ /\ Last(id)
          /\ size' = [size EXCEPT ![id] = 0]
          /\ mapped' = [mapped EXCEPT ![id] = {}]
          /\ creator' = [creator EXCEPT ![id] = None]
          /\ maps' = [maps EXCEPT ![id] = 0]
          /\ destroys' = [destroys EXCEPT ![id] = 0]
          /\ pulled' = IF mapped[id] = {} THEN pulled
                       ELSE pulled \cup {<<maps[id], destroys[id] + 1>>}
       \/ /\ ~Last(id)
          /\ destroys' = [destroys EXCEPT ![id] = @ + 1]
          /\ UNCHANGED <<size, mapped, creator, maps, pulled>>
    /\ UNCHANGED lastId

Next ==
    \E p \in Pids :
      \/ \E n \in Sizes : ShmCreate(n, p)
      \/ \E id \in Ids : ShmMap(id, p) \/ ShmUnmap(id, p) \/ ShmDestroy(id, p)

Spec == Init /\ [][Next]_vars

-----------------------------------------------------------------------------
(* Properties *)

SumOf[i \in 0..MaxId] == IF i = 0 THEN 0 ELSE size[i] + SumOf[i - 1]

\* The two counts of the manager are right over the life of all regions.
\* total_size is the sum of the sizes of the regions in the registry, so the
\* limit on it neither leaks away nor lets more through; and a region is taken
\* away from a process that has it mapped only by a destroy for every map there
\* ever was and one more: the first destroy waits, whatever came before it.
RegionsCounted ==
    /\ total = SumOf[MaxId] /\ total <= MaxTotal
    /\ \A c \in pulled : c[2] = c[1] + 1 /\ c[2] >= 2
=============================================================================
