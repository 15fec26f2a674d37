-------------------------- MODULE PartitionsProofs --------------------------
(***************************************************************************)
(* Proofs about Partitions for every max_attempts.                         *)
(***************************************************************************)
EXTENDS Partitions, TLAPS

\* The inductive invariant: boot_attempts of the active slot is never behind the
\* failures in a row, although commit_pending and mark_successful touch both.
Inv ==
    /\ active \in Slot
    /\ status \in [Slot -> {"Active", "Pending", "Successful", "Unbootable"}]
    /\ attempts \in [Slot -> Nat] /\ fails \in Nat
    /\ attempts[active] >= fails
    /\ PendingIsInactive

LEMMA OtherSlot == \A s \in Slot : Other(s) \in Slot /\ Other(s) # s /\ Other(Other(s)) = s
  BY DEF Slot, Other

LEMMA InitInv == Init => Inv
  BY DEF Init, Inv, PendingIsInactive, Slot

LEMMA SetPendingKeeps ==
    ASSUME Inv, SetPending
    PROVE  Inv'
  <1>1. Other(active) \in Slot /\ Other(active) # active
    BY OtherSlot DEF Inv
  <1>2. /\ active' = active /\ fails' = fails /\ pending' = Other(active)
        /\ status' = [status EXCEPT ![Other(active)] = "Pending"]
        /\ attempts' = [attempts EXCEPT ![Other(active)] = 0]
    BY DEF SetPending
  <1> QED BY <1>1, <1>2 DEF Inv, PendingIsInactive

LEMMA CommitKeeps ==
    ASSUME Inv, CommitPending
    PROVE  Inv'
  <1>1. pending = Other(active) /\ pending \in Slot
    BY OtherSlot DEF Inv, PendingIsInactive, CommitPending
  <1>2. /\ active' = pending /\ fails' = 0 /\ pending' = None
        /\ status' = [status EXCEPT ![active] = "Successful", ![pending] = "Active"]
        /\ attempts' = [attempts EXCEPT ![pending] = @ + 1]
    BY DEF CommitPending
  <1>3. attempts'[pending] \in Nat /\ attempts' \in [Slot -> Nat]
    BY <1>1, <1>2 DEF Inv
  <1>4. attempts'[active'] >= fails'
    BY <1>2, <1>3
  <1>5. status' \in [Slot -> {"Active", "Pending", "Successful", "Unbootable"}]
    BY <1>1, <1>2 DEF Inv
  <1> QED BY <1>1, <1>2, <1>3, <1>4, <1>5 DEF Inv, PendingIsInactive

\* rollback, on the statuses st that handle_boot_failure has left
LEMMA RolledBackKeeps ==
    ASSUME Inv, NEW st \in [Slot -> {"Active", "Pending", "Successful", "Unbootable"}],
           RolledBack(st), attempts' \in [Slot -> Nat]
    PROVE  Inv'
  <1>1. Other(active) \in Slot /\ active' = Other(active) /\ pending' = None /\ fails' = 0
    BY OtherSlot DEF Inv, RolledBack, PendingAfterRollback
  <1>2. status' \in [Slot -> {"Active", "Pending", "Successful", "Unbootable"}]
    BY DEF RolledBack
  <1>3. attempts'[active'] >= fails'
    BY <1>1
  <1> QED BY <1>1, <1>2, <1>3 DEF Inv, PendingIsInactive

\* handle_boot_failure: a failure that leaves the slot active is counted in both.
LEMMA FailureKeeps ==
    ASSUME Inv, HandleBootFailure
    PROVE  /\ Inv'
           /\ MaxAttempts \in Nat /\ fails' > fails /\ fails' >= MaxAttempts
                => status[Other(active)] = "Unbootable"
  <1> DEFINE n == attempts[active] + 1
             st == IF UsedUp(n) THEN [status EXCEPT ![active] = "Unbootable"] ELSE status
  <1>1. /\ n \in Nat /\ fails \in Nat /\ fails + 1 <= n
        /\ active \in Slot /\ Other(active) \in Slot /\ Other(active) # active
    BY OtherSlot DEF Inv
  <1>2. /\ st \in [Slot -> {"Active", "Pending", "Successful", "Unbootable"}]
        /\ st[Other(active)] = status[Other(active)]
    BY <1>1 DEF Inv
  <1>3. attempts' = [attempts EXCEPT ![active] = n] /\ attempts' \in [Slot -> Nat]
    BY <1>1 DEF HandleBootFailure, Inv
  <1>4. CASE RolledBack(st)
    <2>1. Inv'
      BY <1>2, <1>3, <1>4, RolledBackKeeps
    <2>2. fails' = 0
      BY <1>4 DEF RolledBack
    <2> QED BY <1>1, <2>1, <2>2
  <1>5. CASE /\ ~(UsedUp(n) /\ Bootable(Other(active), st))
             /\ status' = st /\ fails' = fails + 1
             /\ UNCHANGED <<active, pending>>
    <2>1. attempts'[active'] >= fails'
      BY <1>1, <1>3, <1>5 DEF Inv
    <2>2. PendingIsInactive'
      BY <1>2, <1>5 DEF Inv, PendingIsInactive
    <2>3. Inv'
      BY <1>1, <1>2, <1>3, <1>5, <2>1, <2>2 DEF Inv
    <2>4. MaxAttempts \in Nat /\ fails' >= MaxAttempts => UsedUp(n)
      BY <1>1, <1>5 DEF UsedUp
    <2>5. ~Bootable(Other(active), st) => status[Other(active)] = "Unbootable"
      BY <1>2 DEF Bootable
    <2> QED BY <1>5, <2>3, <2>4, <2>5
  <1> QED BY <1>4, <1>5 DEF HandleBootFailure

\* One step per call.
LEMMA StepInv ==
    ASSUME Inv, [Next]_vars
    PROVE  /\ Inv'
           /\ MaxAttempts \in Nat /\ fails' > fails /\ fails' >= MaxAttempts
                => status[Other(active)] = "Unbootable"
  <1>0. fails \in Nat /\ ~(fails > fails) /\ ~(0 > fails)
    BY DEF Inv
  <1>1. CASE SetPending
    BY <1>0, <1>1, SetPendingKeeps DEF SetPending
  <1>2. CASE CommitPending
    BY <1>0, <1>2, CommitKeeps DEF CommitPending
  <1>3. CASE MarkSuccessful
    <2>1. /\ active' = active /\ pending' = pending /\ status' = status /\ fails' = 0
          /\ attempts' = [attempts EXCEPT ![active] = 0]
      BY <1>3 DEF MarkSuccessful
    <2>2. Inv'
      BY <2>1 DEF Inv, PendingIsInactive
    <2> QED BY <1>0, <2>1, <2>2
  <1>4. CASE Rollback
    <2>1. RolledBack(status) /\ attempts' \in [Slot -> Nat] /\ fails' = 0
      BY <1>4 DEF Rollback, RolledBack, Inv
    <2>2. Inv'
      BY <2>1, RolledBackKeeps DEF Inv
    <2> QED BY <1>0, <2>1, <2>2
  <1>5. CASE HandleBootFailure
    BY <1>5, FailureKeeps
  <1>6. CASE UNCHANGED vars
    BY <1>0, <1>6 DEF vars, Inv, PendingIsInactive
  <1> QED BY <1>1, <1>2, <1>3, <1>4, <1>5, <1>6 DEF Next

\* The invariant holds whatever max_attempts is.
THEOREM SpecInv == Spec => []Inv
  <1>1. Inv /\ [Next]_vars => Inv'
    BY StepInv
  <1> QED BY <1>1, InitInv, PTL DEF Spec

\* The pending slot is never the one that is booted (set_pending, commit_pending,
\* rollback and handle_boot_failure in any order).
THEOREM PendingStaysInactive == Spec => []PendingIsInactive
  <1>1. Inv => PendingIsInactive
    BY DEF Inv
  <1> QED BY <1>1, SpecInv, PTL

\* A slot that keeps failing is left after max_attempts failures at the latest,
\* unless the other one is unbootable (handle_boot_failure).
THEOREM FailureFailsOver ==
    ASSUME MaxAttempts \in Nat
    PROVE  Spec => FailsOver
  <1>1. Inv /\ [Next]_vars
          => [fails' > fails /\ fails' >= MaxAttempts
                => status[Other(active)] = "Unbootable"]_vars
    BY StepInv
  <1> QED BY <1>1, SpecInv, PTL DEF Spec, FailsOver
=============================================================================
