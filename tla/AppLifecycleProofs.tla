------------------------- MODULE AppLifecycleProofs -------------------------
(***************************************************************************)
(* Proofs about AppLifecycle for every set of applications and every       *)
(* bound on instances and restarts.                                        *)
(***************************************************************************)
EXTENDS AppLifecycle, TLAPS

Given == 1..(nextId - 1)
States == {"Running", "Suspended", "Terminated", "Failed"}
Entry == [app : Apps, state : States, restarts : Nat]

\* The two halves of EndedStaysDown.
GivenUpStaysDown ==
    \A i \in gaveUp \intersect Ids : inst[i].state \in {"Failed", "Terminated"}
RemovedIsDown ==
    \A i \in Ids \ (late \union missed) :
      inst[i].app \in removed => inst[i].state = "Terminated"

\* While an application is being uninstalled, what it had when it was listed is
\* ended or still to be ended.
RemovingIsEnded ==
    \A i \in Ids \ (late \union missed) :
      inst[i].app \in removing => i \in targets[inst[i].app] \/ inst[i].state = "Terminated"

\* Ids are given once; an instance that was given up has used up its restarts, and
\* nothing gives them back; what is registered was not removed.
TypeInv ==
    /\ nextId \in Nat \ {0}
    /\ Ids \subseteq Given /\ gaveUp \subseteq Given
    /\ inst \in [Ids -> Entry]
    /\ registered \subseteq Apps /\ registered \intersect removed = {}
    /\ targets \in [Apps -> SUBSET Given]

UsedUp == \A i \in gaveUp \intersect Ids : inst[i].restarts > MaxRestarts

Inv == TypeInv /\ UsedUp /\ GivenUpStaysDown /\ RemovedIsDown /\ RemovingIsEnded

LEMMA InitInv == Init => Inv
  BY DEF Init, Inv, TypeInv, UsedUp, Ids, Given, Entry, GivenUpStaysDown, RemovedIsDown,
         RemovingIsEnded

LEMMA InstallInv == ASSUME Inv, NEW a \in Apps, Install(a) PROVE Inv'
  BY DEF Install, history, Inv, TypeInv, UsedUp, Ids, Given, GivenUpStaysDown, RemovedIsDown,
         RemovingIsEnded

LEMMA LookupInv == ASSUME Inv, NEW a \in Apps, LaunchLookup(a) PROVE Inv'
  BY DEF LaunchLookup, history, Inv, TypeInv, UsedUp, Ids, Given, GivenUpStaysDown,
         RemovedIsDown, RemovingIsEnded

\* A new instance has an id that was never given up, and counts as missed when its
\* application is on its way out.
LEMMA LaunchInv == ASSUME Inv, NEW a \in Apps, Launch(a) PROVE Inv'
  <1> DEFINE e == [app |-> a, state |-> "Running", restarts |-> 0]
  <1>1. e \in Entry /\ e.app = a
    BY DEF Entry, States
  <1> HIDE DEF e
  <1>2. /\ Ids' = Ids \union {nextId} /\ nextId' = nextId + 1
        /\ inst'[nextId] = e /\ \A i \in Ids : inst'[i] = inst[i]
        /\ inst' = [i \in Ids \union {nextId} |-> IF i = nextId THEN e ELSE inst[i]]
    BY DEF Launch, Ids, Inv, TypeInv, Given, e
  <1>3. /\ UNCHANGED <<registered, removed, removing, targets, gaveUp, late>>
        /\ missed \subseteq missed'
        /\ a \in removing \union removed => nextId \in missed'
    BY DEF Launch
  <1>4. nextId \notin gaveUp /\ nextId \notin Ids
    BY DEF Inv, TypeInv, Given
  <1>5. Given \subseteq Given' /\ nextId \in Given' /\ nextId' \in Nat \ {0}
    BY <1>2 DEF Inv, TypeInv, Given
  <1>6. inst' \in [Ids' -> Entry]
    BY <1>1, <1>2 DEF Inv, TypeInv
  <1>7. TypeInv'
    BY <1>2, <1>3, <1>5, <1>6 DEF Inv, TypeInv
  <1>8. GivenUpStaysDown' /\ UsedUp'
    BY <1>2, <1>3, <1>4 DEF Inv, GivenUpStaysDown, UsedUp
  <1>9. RemovedIsDown'
    BY <1>1, <1>2, <1>3 DEF Inv, RemovedIsDown
  <1>10. RemovingIsEnded'
    BY <1>1, <1>2, <1>3 DEF Inv, RemovingIsEnded
  <1> QED BY <1>7, <1>8, <1>9, <1>10 DEF Inv

\* A change of state that keeps the restarts: it must not start what was ended.
LEMMA ChangeInv ==
    ASSUME Inv, NEW i \in Ids, NEW e \in Entry,
           e.app = inst[i].app, e.restarts = inst[i].restarts,
           inst[i].state \in {"Running", "Suspended"},
           inst' = [inst EXCEPT ![i] = e],
           UNCHANGED <<registered, removed, nextId, removing, targets, gaveUp, late, missed>>
    PROVE  Inv'
  <1>1. Ids' = Ids /\ inst' \in [Ids -> Entry] /\ Given' = Given
    BY DEF Inv, TypeInv, Ids, Given
  <1>2. inst'[i] = e /\ \A j \in Ids : j # i => inst'[j] = inst[j]
    BY DEF Inv, TypeInv
  <1>3. TypeInv'
    BY <1>1 DEF Inv, TypeInv
  <1>4. GivenUpStaysDown' /\ UsedUp'
    BY <1>1, <1>2 DEF Inv, GivenUpStaysDown, UsedUp
  <1>5. RemovedIsDown' /\ RemovingIsEnded'
    BY <1>1, <1>2 DEF Inv, RemovedIsDown, RemovingIsEnded
  <1> QED BY <1>3, <1>4, <1>5 DEF Inv

LEMMA SuspendInv == ASSUME Inv, NEW i \in Ids, Suspend(i) PROVE Inv'
  <1> DEFINE e == [inst[i] EXCEPT !.state = "Suspended"]
  <1>1. inst[i] \in Entry
    BY DEF Inv, TypeInv
  <1>2. e \in Entry /\ e.app = inst[i].app /\ e.restarts = inst[i].restarts
    BY <1>1 DEF Entry, States
  <1>3. /\ inst' = [inst EXCEPT ![i] = e] /\ inst[i].state = "Running"
        /\ UNCHANGED <<registered, removed, nextId, removing, targets, gaveUp, late, missed>>
    BY <1>1 DEF Suspend, history, Inv, TypeInv, Entry
  <1> HIDE DEF e
  <1> QED BY <1>2, <1>3, ChangeInv

LEMMA ResumeInv == ASSUME Inv, NEW i \in Ids, Resume(i) PROVE Inv'
  <1> DEFINE e == [inst[i] EXCEPT !.state = "Running"]
  <1>1. inst[i] \in Entry
    BY DEF Inv, TypeInv
  <1>2. e \in Entry /\ e.app = inst[i].app /\ e.restarts = inst[i].restarts
    BY <1>1 DEF Entry, States
  <1>3. /\ inst' = [inst EXCEPT ![i] = e] /\ inst[i].state = "Suspended"
        /\ UNCHANGED <<registered, removed, nextId, removing, targets, gaveUp, late, missed>>
    BY <1>1 DEF Resume, history, Inv, TypeInv, Entry
  <1> HIDE DEF e
  <1> QED BY <1>2, <1>3, ChangeInv

\* An end needs no excuse: the instance leaves late and missed, and if a call was
\* to end it, that call need not.
LEMMA EndInv ==
    ASSUME Inv, NEW i \in Given, Terminated(i),
           targets' \in [Apps -> SUBSET Given],
           \A a \in Apps : targets[a] \ {i} \subseteq targets'[a],
           UNCHANGED <<registered, removed, nextId, removing, gaveUp>>
    PROVE  Inv'
  <1>1. ASSUME NEW j \in Ids
        PROVE  /\ inst'[j] \in Entry /\ inst'[j].app = inst[j].app
               /\ inst'[j].restarts = inst[j].restarts
               /\ inst'[j].state = (IF j = i THEN "Terminated" ELSE inst[j].state)
    <2>1. inst[j] \in Entry
      BY DEF Inv, TypeInv
    <2> QED BY <2>1 DEF Terminated, Inv, TypeInv, Entry, States
  <1>2. Ids' = Ids /\ Given' = Given /\ inst' \in [Ids -> Entry]
    BY <1>1 DEF Terminated, Inv, TypeInv, Ids, Given
  <1>3. TypeInv'
    BY <1>2 DEF Inv, TypeInv
  <1>4. GivenUpStaysDown' /\ UsedUp'
    BY <1>1, <1>2 DEF Inv, GivenUpStaysDown, UsedUp
  <1>5. late' = late \ {i} /\ missed' = missed \ {i}
    BY DEF Terminated
  <1>6. RemovedIsDown'
    BY <1>1, <1>2, <1>5 DEF Inv, RemovedIsDown
  <1>7. RemovingIsEnded'
    <2> SUFFICES ASSUME NEW j \in Ids, j \notin late', j \notin missed',
                        inst'[j].app \in removing
                 PROVE  j \in targets'[inst'[j].app] \/ inst'[j].state = "Terminated"
      BY <1>2 DEF RemovingIsEnded
    <2>1. CASE j = i
      BY <1>1, <2>1
    <2>2. CASE j # i
      <3>1. j \notin late /\ j \notin missed /\ inst[j].app \in Apps
        BY <1>5, <2>2 DEF Inv, TypeInv, Entry
      <3>2. j \in targets[inst[j].app] \/ inst[j].state = "Terminated"
        BY <1>1, <3>1 DEF Inv, RemovingIsEnded
      <3> QED BY <1>1, <2>2, <3>1, <3>2
    <2> QED BY <2>1, <2>2
  <1> QED BY <1>3, <1>4, <1>6, <1>7 DEF Inv

LEMMA TerminateInv == ASSUME Inv, NEW i \in Ids, Terminate(i) PROVE Inv'
  <1>1. /\ Terminated(i) /\ i \in Given /\ targets' = targets
        /\ UNCHANGED <<registered, removed, nextId, removing, gaveUp>>
    BY DEF Terminate, Inv, TypeInv
  <1>2. /\ targets' \in [Apps -> SUBSET Given]
        /\ \A a \in Apps : targets[a] \ {i} \subseteq targets'[a]
    BY <1>1 DEF Inv, TypeInv
  <1> QED BY <1>1, <1>2, EndInv

LEMMA UninstallEndInv ==
    ASSUME Inv, NEW a \in Apps, NEW i \in targets[a], UninstallEnd(a, i) PROVE Inv'
  <1>1. /\ Terminated(i) /\ i \in Given
        /\ targets' = [targets EXCEPT ![a] = @ \ {i}]
        /\ UNCHANGED <<registered, removed, nextId, removing, gaveUp>>
    BY DEF UninstallEnd, Inv, TypeInv
  <1>2. /\ targets' \in [Apps -> SUBSET Given]
        /\ \A b \in Apps : targets[b] \ {i} \subseteq targets'[b]
    BY <1>1 DEF Inv, TypeInv
  <1> QED BY <1>1, <1>2, EndInv

\* A crash counts one more; beyond the limit the instance is given up.
LEMMA ReportCrashInv ==
    ASSUME Inv, MaxRestarts \in Nat, NEW i \in Ids, ReportCrash(i) PROVE Inv'
  <1> DEFINE n == inst[i].restarts + 1
             s == IF MayRestart(n) THEN "Running" ELSE "Failed"
             e == [inst[i] EXCEPT !.restarts = n, !.state = s]
  <1>1. inst[i] \in Entry /\ n \in Nat
    BY DEF Inv, TypeInv, Entry
  <1>2. e \in Entry /\ e.app = inst[i].app /\ e.restarts = n /\ e.state = s
    BY <1>1 DEF Entry, States
  <1>3. /\ inst' = [inst EXCEPT ![i] = e]
        /\ UNCHANGED <<registered, removed, nextId, removing, targets, missed>>
        /\ gaveUp' = IF MayRestart(n) THEN gaveUp ELSE gaveUp \union {i}
        /\ late' = IF inst[i].state = "Terminated" THEN late \union {i} ELSE late
    BY <1>1 DEF ReportCrash, Inv, TypeInv, Entry
  <1>4. i \in gaveUp => n > MaxRestarts
    BY <1>1 DEF Inv, UsedUp, Entry
  <1>5. (~MayRestart(n) => n > MaxRestarts) /\ (MayRestart(n) => i \notin gaveUp)
    BY <1>1, <1>4 DEF MayRestart
  <1> HIDE DEF n, e
  <1>6. Ids' = Ids /\ inst' \in [Ids -> Entry] /\ Given' = Given /\ gaveUp' \subseteq Given
    BY <1>2, <1>3 DEF Inv, TypeInv, Ids, Given
  <1>7. inst'[i] = e /\ \A j \in Ids : j # i => inst'[j] = inst[j]
    BY <1>3 DEF Inv, TypeInv
  <1>8. GivenUpStaysDown' /\ UsedUp'
    BY <1>2, <1>3, <1>5, <1>6, <1>7 DEF Inv, GivenUpStaysDown, UsedUp
  <1>9. TypeInv'
    BY <1>3, <1>6 DEF Inv, TypeInv
  <1>10. RemovedIsDown'
    BY <1>2, <1>3, <1>6, <1>7 DEF Inv, RemovedIsDown
  <1>11. RemovingIsEnded'
    BY <1>2, <1>3, <1>6, <1>7 DEF Inv, RemovingIsEnded
  <1> QED BY <1>8, <1>9, <1>10, <1>11 DEF Inv

LEMMA GcInv == ASSUME Inv, Gc PROVE Inv'
  <1>1. /\ Ids' \subseteq Ids /\ \A i \in Ids' : inst'[i] = inst[i]
        /\ inst' \in [Ids' -> Entry]
    BY DEF Gc, Keep, Ids, Inv, TypeInv
  <1>2. UNCHANGED <<registered, removed, nextId, removing, targets, gaveUp, late, missed>>
    BY DEF Gc, history
  <1> QED BY <1>1, <1>2 DEF Inv, TypeInv, UsedUp, Given, GivenUpStaysDown, RemovedIsDown,
                            RemovingIsEnded

\* The list has every instance there is.
LEMMA UninstallListInv == ASSUME Inv, NEW a \in Apps, UninstallList(a) PROVE Inv'
  <1>1. /\ UNCHANGED <<registered, removed, inst, nextId, gaveUp, late, missed>>
        /\ removing' = removing \union {a}
        /\ targets' = [targets EXCEPT ![a] = InstancesOf(a)]
        /\ Ids' = Ids /\ Given' = Given
    BY DEF UninstallList, history, Ids, Given
  <1>2. InstancesOf(a) \subseteq Given
    BY DEF InstancesOf, Inv, TypeInv
  <1>3. targets' \in [Apps -> SUBSET Given]
    BY <1>1, <1>2 DEF Inv, TypeInv
  <1>4. TypeInv' /\ UsedUp' /\ GivenUpStaysDown' /\ RemovedIsDown'
    BY <1>1, <1>3 DEF Inv, TypeInv, UsedUp, GivenUpStaysDown, RemovedIsDown
  <1>5. RemovingIsEnded'
    <2> SUFFICES ASSUME NEW i \in Ids, i \notin late, i \notin missed,
                        inst[i].app \in removing'
                 PROVE  i \in targets'[inst[i].app] \/ inst[i].state = "Terminated"
      BY <1>1 DEF RemovingIsEnded
    <2>1. inst[i].app \in Apps
      BY DEF Inv, TypeInv, Entry
    <2>2. CASE inst[i].app = a
      BY <1>1, <2>1, <2>2 DEF InstancesOf, Inv, TypeInv
    <2>3. CASE inst[i].app # a
      BY <1>1, <2>1, <2>3 DEF Inv, TypeInv, RemovingIsEnded
    <2> QED BY <2>2, <2>3
  <1> QED BY <1>4, <1>5 DEF Inv

\* By the time an application is unregistered, everything listed was ended.
LEMMA UnregisterInv == ASSUME Inv, NEW a \in Apps, Unregister(a) PROVE Inv'
  <1>1. /\ UNCHANGED <<inst, nextId, targets, gaveUp, late, missed>>
        /\ a \in removing /\ targets[a] = {}
        /\ registered' = registered \ {a} /\ removing' = removing \ {a}
        /\ removed' \subseteq removed \union {a} /\ removed' \intersect registered' = {}
        /\ Ids' = Ids /\ Given' = Given
    BY DEF Unregister, history, Ids, Given, Inv, TypeInv
  <1>2. TypeInv' /\ UsedUp' /\ GivenUpStaysDown'
    BY <1>1 DEF Inv, TypeInv, UsedUp, GivenUpStaysDown
  <1>3. RemovedIsDown'
    BY <1>1 DEF Inv, RemovedIsDown, RemovingIsEnded
  <1>4. RemovingIsEnded'
    BY <1>1 DEF Inv, RemovingIsEnded
  <1> QED BY <1>2, <1>3, <1>4 DEF Inv

\* The invariant of the instance table.
THEOREM SpecInv == ASSUME MaxRestarts \in Nat PROVE Spec => []Inv
  <1>1. ASSUME Inv, [Next]_vars PROVE Inv'
    <2>1. ASSUME NEW a \in Apps,
                 \/ Install(a) \/ LaunchLookup(a) \/ Launch(a)
                 \/ UninstallList(a) \/ Unregister(a)
          PROVE  Inv'
      BY <1>1, <2>1, InstallInv, LookupInv, LaunchInv, UninstallListInv, UnregisterInv
    <2>2. ASSUME NEW a \in Apps, NEW i \in targets[a], UninstallEnd(a, i) PROVE Inv'
      BY <1>1, <2>2, UninstallEndInv
    <2>3. ASSUME NEW i \in Ids, Suspend(i) \/ Resume(i) \/ Terminate(i) \/ ReportCrash(i)
          PROVE  Inv'
      BY <1>1, <2>3, SuspendInv, ResumeInv, TerminateInv, ReportCrashInv
    <2>4. CASE Gc
      BY <1>1, <2>4, GcInv
    <2>5. CASE UNCHANGED vars
      BY <1>1, <2>5 DEF vars, history, Inv, TypeInv, UsedUp, Ids, Given, GivenUpStaysDown,
                        RemovedIsDown, RemovingIsEnded
    <2> QED BY <1>1, <2>1, <2>2, <2>3, <2>4, <2>5 DEF Next
  <1> QED BY <1>1, InitInv, PTL DEF Spec

\* Instances that were given up stay down, and so do those that the uninstalling
\* of their application could see, for every number of applications, instances,
\* crashes and calls between its steps (report_crash, bridge_uninstall).
THEOREM EndedNeverRuns == ASSUME MaxRestarts \in Nat PROVE Spec => []EndedStaysDown
  <1>1. Inv => EndedStaysDown
    BY DEF Inv, EndedStaysDown, GivenUpStaysDown, RemovedIsDown
  <1> QED BY <1>1, SpecInv, PTL
=============================================================================
