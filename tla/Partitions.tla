----------------------------- MODULE Partitions -----------------------------
(***************************************************************************)
(* The A/B partitions of the system update (update/partition.rs): which    *)
(* slot is booted, which waits to be, and how failed boots lead back to    *)
(* the other slot.  update/mod.rs makes the inactive slot pending.         *)
(***************************************************************************)
EXTENDS Naturals

CONSTANTS
    MaxAttempts,    \* max_attempts
    MaxCount,       \* bound on boot_attempts
    None

Slot == {"A", "B"}
Other(s) == IF s = "A" THEN "B" ELSE "A"

VARIABLES
    active, pending,
    status,         \* PartitionStatus of a slot
    attempts,       \* boot_attempts of a slot
    verified,
    fails           \* history: failures in a row of the slot that is active

vars == <<active, pending, status, attempts, verified, fails>>

Init ==
    /\ active = "A" /\ pending = None
    /\ status = [A |-> "Active", B |-> "Successful"]
    /\ attempts = [s \in Slot |-> 0]
    /\ verified = [s \in Slot |-> FALSE]
    /\ fails = 0

\* set_pending, as install calls it
SetPending ==
    LET s == Other(active) IN
    /\ status' = [status EXCEPT ![s] = "Pending"]
    /\ attempts' = [attempts EXCEPT ![s] = 0]
    /\ pending' = s
    /\ UNCHANGED <<active, verified, fails>>

\* commit_pending, as apply calls it: whatever the old slot was is overwritten.
CommitPending ==
    /\ pending # None /\ attempts[pending] < MaxCount
    /\ status' = [status EXCEPT ![active] = "Successful", ![pending] = "Active"]
    /\ attempts' = [attempts EXCEPT ![pending] = @ + 1]
    /\ active' = pending
    /\ pending' = None
    /\ fails' = 0
    /\ UNCHANGED verified

MarkSuccessful ==
    /\ attempts' = [attempts EXCEPT ![active] = 0]
    /\ verified' = [verified EXCEPT ![active] = TRUE]
    /\ fails' = 0
    /\ UNCHANGED <<active, pending, status>>

Bootable(s, st) == st[s] # "Unbootable"

PendingAfterRollback(p) == None

\* rollback when the other slot is bootable, on statuses st
RolledBack(st) ==
    /\ active' = Other(active)
    /\ status' = [s \in Slot |-> IF s = Other(active) THEN "Active"
                                 ELSE IF st[s] = "Unbootable" THEN st[s] ELSE "Successful"]
    /\ pending' = PendingAfterRollback(pending)
    /\ fails' = 0

Rollback ==
    /\ Bootable(Other(active), status)
    /\ RolledBack(status)
    /\ UNCHANGED <<attempts, verified>>

\* Fault: one attempt too many.
Exceeded(n) == n > MaxAttempts

UsedUp(n) == n >= MaxAttempts

HandleBootFailure ==
    LET n == attempts[active] + 1
        st == IF UsedUp(n) THEN [status EXCEPT ![active] = "Unbootable"] ELSE status
    IN
    /\ n <= MaxCount
    /\ attempts' = [attempts EXCEPT ![active] = n]
    /\ \/ /\ UsedUp(n) /\ Bootable(Other(active), st)
          /\ RolledBack(st)
       \/ /\ ~(UsedUp(n) /\ Bootable(Other(active), st))
          /\ status' = st
          /\ fails' = fails + 1
          /\ UNCHANGED <<active, pending>>
    /\ UNCHANGED verified

Next == SetPending \/ CommitPending \/ MarkSuccessful \/ Rollback \/ HandleBootFailure

Spec == Init /\ [][Next]_vars

-----------------------------------------------------------------------------
(* Properties *)

\* The pending slot is never the one that is booted, and it is marked so: a
\* commit always leads to the slot the update was written to.
PendingIsInactive ==
    pending # None => pending = Other(active) /\ status[pending] = "Pending"

\* A slot is left after MaxAttempts failures in a row at the latest: one that
\* goes on failing has nothing to fall back on at the last failure.
FailsOver ==
    [][fails' > fails /\ fails' >= MaxAttempts => status[Other(active)] = "Unbootable"]_vars
=============================================================================
