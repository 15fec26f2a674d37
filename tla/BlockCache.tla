----------------------------- MODULE BlockCache -----------------------------
(***************************************************************************)
(* The block cache of the storage stack (storage/src/cache.rs): entries    *)
(* with a state, a reference count and an access count.  Nothing is        *)
(* written back: flush_all marks dirty entries clean.  Every call holds    *)
(* the cache's lock and is one step.  insert is given a whole block; the   *)
(* code also takes less and keeps the rest of what the slot held.          *)
(***************************************************************************)
EXTENDS Naturals, Sequences, FiniteSets

CONSTANTS
    Slots,          \* CACHE_SIZE
    Blocks,         \* pairs of device and block number
    DeviceOf,       \* the device of a block
    Values,         \* contents
    MaxRefs,        \* bound on a reference count
    WordSize,       \* dirty_count is kept modulo this
    None

Index == 1..Slots

VARIABLES
    entry,          \* entry[i] = [block, state, refs, val], block None when Free
    order,          \* the slots by access_count, least recently used first
    dirtyCount,
    latest,         \* history: what was last stored for a block
    unsaved         \* history: blocks changed since they were last marked clean

vars == <<entry, order, dirtyCount, latest, unsaved>>

FreeEntry == [block |-> None, state |-> "Free", refs |-> 0, val |-> None]

Init ==
    /\ entry = [i \in Index |-> FreeEntry]
    /\ order = [i \in Index |-> i]
    /\ dirtyCount = 0
    /\ latest = [b \in Blocks |-> None]
    /\ unsaved = {}

Cached(b) == {i \in Index : entry[i].block = b}

\* find: the first entry that matches
Find(b) == CHOOSE i \in Cached(b) : \A j \in Cached(b) : i <= j

\* access_counter += 1; access_count = access_counter
Touched(i) == Append(SelectSeq(order, LAMBDA j : j # i), i)

\* get; get_block, its only caller, keeps no reference but leaves it counted.
Get(b) ==
    LET i == Find(b) IN
    /\ Cached(b) # {} /\ entry[i].refs < MaxRefs
    /\ entry' = [entry EXCEPT ![i].refs = @ + 1]
    /\ order' = Touched(i)
    /\ UNCHANGED <<dirtyCount, latest, unsaved>>

\* get_mut, with the write the caller does through the reference; dirty_count
\* is not changed.
GetMut(b, v) ==
    LET i == Find(b) IN
    /\ Cached(b) # {} /\ entry[i].refs < MaxRefs
    /\ entry' = [entry EXCEPT ![i].refs = @ + 1, ![i].state = "Dirty", ![i].val = v]
    /\ order' = Touched(i)
    /\ latest' = [latest EXCEPT ![b] = v]
    /\ unsaved' = unsaved \cup {b}
    /\ UNCHANGED dirtyCount

\* Fault: the state is not looked at.
AnyUnpinned == {i \in Index : entry[i].refs = 0}

Evictable == {i \in Index : entry[i].state = "Clean" /\ entry[i].refs = 0}

FreeSlots == {i \in Index : entry[i].state = "Free"}

\* find_slot
VictimSlots ==
    IF FreeSlots # {}
    THEN {i \in FreeSlots : \A j \in FreeSlots : i <= j}
    ELSE {order[k] : k \in {k \in Index : /\ order[k] \in Evictable
                                          /\ \A l \in 1..(k - 1) : order[l] \notin Evictable}}

\* The entry insert updates in place.
Existing(b) == Cached(b)

Updated(i, v) == [entry EXCEPT ![i].val = v]

\* insert of a whole block
Insert(b, v) ==
    /\ \/ /\ Existing(b) # {}
          /\ entry' = Updated(Find(b), v)
          /\ order' = Touched(Find(b))
       \/ /\ Existing(b) = {}
          /\ \E i \in VictimSlots :
               /\ entry' = [entry EXCEPT ![i] =
                              [block |-> b, state |-> "Clean", refs |-> 0, val |-> v]]
               /\ order' = Touched(i)
    /\ latest' = [latest EXCEPT ![b] = v]
    /\ UNCHANGED <<dirtyCount, unsaved>>

Release(b) ==
    LET i == Find(b) IN
    /\ Cached(b) # {} /\ entry[i].refs > 0
    /\ entry' = [entry EXCEPT ![i].refs = @ - 1]
    /\ UNCHANGED <<order, dirtyCount, latest, unsaved>>

\* dirty_count -= 1 for each of n entries
Decremented(n) == (dirtyCount + WordSize - n) % WordSize

\* invalidate, and invalidate_device: every entry of the set goes.
Invalidate(set) ==
    LET gone == {i \in Index : entry[i].block \in set}
        dirty == {i \in gone : entry[i].state = "Dirty"}
    IN
    /\ gone # {}
    /\ entry' = [i \in Index |-> IF i \in gone THEN FreeEntry ELSE entry[i]]
    /\ dirtyCount' = Decremented(Cardinality(dirty))
    /\ unsaved' = unsaved \ set
    /\ UNCHANGED <<order, latest>>

MarkClean(b) ==
    LET i == Find(b) IN
    /\ Cached(b) # {} /\ entry[i].state = "Dirty"
    /\ entry' = [entry EXCEPT ![i].state = "Clean"]
    /\ dirtyCount' = Decremented(1)
    /\ unsaved' = unsaved \ {b}
    /\ UNCHANGED <<order, latest>>

FlushAll ==
    /\ entry' = [i \in Index |-> [entry[i] EXCEPT !.state = IF @ = "Dirty" THEN "Clean" ELSE @]]
    /\ dirtyCount' = 0
    /\ unsaved' = {}
    /\ UNCHANGED <<order, latest>>

Clear ==
    /\ entry' = [i \in Index |-> FreeEntry]
    /\ dirtyCount' = 0
    /\ unsaved' = {}
    /\ UNCHANGED <<order, latest>>

Next ==
    \/ \E b \in Blocks :
         \/ Get(b) \/ Release(b) \/ MarkClean(b) \/ Invalidate({b})
         \/ Invalidate({c \in Blocks : DeviceOf[c] = DeviceOf[b]})
         \/ \E v \in Values : Insert(b, v) \/ GetMut(b, v)
    \/ FlushAll \/ Clear

Spec == Init /\ [][Next]_vars

-----------------------------------------------------------------------------
(* Properties *)

\* The cache holds what was stored, through any evictions.  No block has two
\* entries, so find, release and mark_clean act on the one there is; a cached
\* block holds what was last stored for it, by insert or through get_mut; and
\* one that was changed and neither marked clean nor invalidated is still there,
\* dirty: making room never drops it.
CacheFaithful ==
    /\ \A i, j \in Index : entry[i].block = entry[j].block => i = j \/ entry[i].block = None
    /\ \A i \in Index : entry[i].block # None => entry[i].val = latest[entry[i].block]
    /\ \A b \in unsaved : \E i \in Index : entry[i].block = b /\ entry[i].state = "Dirty"
=============================================================================
