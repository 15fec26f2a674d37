---------------------------- MODULE AppLifecycle ----------------------------
(***************************************************************************)
(* The instances of installed applications (app/lifecycle.rs) and the      *)
(* calls that install, start and remove applications                       *)
(* (browser/pwa_bridge.rs, syscall/handlers.rs).                           *)
(*                                                                         *)
(* APP_LIFECYCLE and APP_REGISTRY have a lock each.  launch looks the      *)
(* application up and inserts the instance under the first, taking the     *)
(* second only to look; uninstalling takes the first once to list the      *)
(* instances and once for each to end it, then the second.  Other calls    *)
(* come in between.  At most one call uninstalls an application at a time. *)
(***************************************************************************)
EXTENDS Naturals, FiniteSets

CONSTANTS
    Apps,
    MaxInstances,   \* MAX_INSTANCES
    MaxRestarts,    \* max_restarts
    MaxCrashes,     \* bound on restart_count
    MaxId           \* bound on next_instance_id

VARIABLES
    registered,     \* applications in APP_REGISTRY; an id is not given twice
    removed,        \* applications that were uninstalled
    inst,           \* instances: the application, the state and restart_count of an id
    nextId,         \* next_instance_id
    launching,      \* the application that launch has looked up, if it is under way
    removing,       \* applications that a call is uninstalling
    targets,        \* targets[a]: the listed instances that it has yet to end
    gaveUp,         \* history: instances reported as failed permanently
    late,           \* history: instances whose crash was reported after their end
    missed          \* history: instances started during or after the uninstalling

history == <<gaveUp, late, missed>>
vars == <<registered, removed, inst, nextId, launching, removing, targets, history>>

Init ==
    /\ registered = {} /\ removed = {}
    /\ inst = << >>
    /\ nextId = 1
    /\ launching = {}
    /\ removing = {} /\ targets = [a \in Apps |-> {}]
    /\ gaveUp = {} /\ late = {} /\ missed = {}

Ids == DOMAIN inst
Keep(f, S) == [i \in S |-> f[i]]

\* The lock of APP_LIFECYCLE is free.
Free == launching = {}

\* bridge_install
Install(a) ==
    /\ a \notin registered \union removed
    /\ registered' = registered \union {a}
    /\ UNCHANGED <<removed, inst, nextId, launching, removing, targets, history>>

-----------------------------------------------------------------------------
(* Instances *)

\* launch, as far as the look into the registry.  Terminated instances count.
LaunchLookup(a) ==
    /\ Free
    /\ a \in registered
    /\ Cardinality(Ids) < MaxInstances
    /\ nextId <= MaxId
    /\ launching' = {a}
    /\ UNCHANGED <<registered, removed, inst, nextId, removing, targets, history>>

\* The rest of launch: Launching, then Running.
Launch(a) ==
    /\ a \in launching
    /\ launching' = {}
    /\ inst' = [i \in Ids \union {nextId} |->
                   IF i = nextId THEN [app |-> a, state |-> "Running", restarts |-> 0]
                   ELSE inst[i]]
    /\ nextId' = nextId + 1
    /\ missed' = IF a \in removing \union removed THEN missed \union {nextId} ELSE missed
    /\ UNCHANGED <<registered, removed, removing, targets, gaveUp, late>>

Suspend(i) ==
    /\ Free /\ inst[i].state = "Running"
    /\ inst' = [inst EXCEPT ![i].state = "Suspended"]
    /\ UNCHANGED <<registered, removed, nextId, launching, removing, targets, history>>

Resume(i) ==
    /\ Free /\ inst[i].state = "Suspended"
    /\ inst' = [inst EXCEPT ![i].state = "Running"]
    /\ UNCHANGED <<registered, removed, nextId, launching, removing, targets, history>>

\* terminate: nothing for an instance that is no longer there
Terminated(i) ==
    /\ inst' = IF i \in Ids THEN [inst EXCEPT ![i].state = "Terminated"] ELSE inst
    /\ late' = late \ {i} /\ missed' = missed \ {i}

Terminate(i) ==
    /\ Free
    /\ Terminated(i)
    /\ UNCHANGED <<registered, removed, nextId, launching, removing, targets, gaveUp>>

MayRestart(n) == n <= MaxRestarts

\* report_crash, in whichever state the instance is
ReportCrash(i) ==
    LET n == inst[i].restarts + 1 IN
    /\ Free /\ n <= MaxCrashes
    /\ inst' = [inst EXCEPT ![i].restarts = n,
                            ![i].state = IF MayRestart(n) THEN "Running" ELSE "Failed"]
    /\ gaveUp' = IF MayRestart(n) THEN gaveUp ELSE gaveUp \union {i}
    /\ late' = IF inst[i].state = "Terminated" THEN late \union {i} ELSE late
    /\ UNCHANGED <<registered, removed, nextId, launching, removing, targets, missed>>

Gc ==
    /\ Free
    /\ inst' = Keep(inst, {i \in Ids : inst[i].state # "Terminated"})
    /\ UNCHANGED <<registered, removed, nextId, launching, removing, targets, history>>

-----------------------------------------------------------------------------
(* bridge_uninstall, handle_app_uninstall *)

\* Fault: only what runs is listed.
RunningOf(a) == {i \in Ids : inst[i].app = a /\ inst[i].state = "Running"}

InstancesOf(a) == {i \in Ids : inst[i].app = a}

UninstallList(a) ==
    /\ Free /\ a \notin removing
    /\ removing' = removing \union {a}
    /\ targets' = [targets EXCEPT ![a] = InstancesOf(a)]
    /\ UNCHANGED <<registered, removed, inst, nextId, launching, history>>

\* The listed instances are ended in the order of their ids.
UninstallEnd(a, i) ==
    /\ Free /\ i \in targets[a] /\ \A j \in targets[a] : i <= j
    /\ Terminated(i)
    /\ targets' = [targets EXCEPT ![a] = @ \ {i}]
    /\ UNCHANGED <<registered, removed, nextId, launching, removing, gaveUp>>

\* unregister, under the lock of APP_REGISTRY alone
Unregister(a) ==
    /\ a \in removing /\ targets[a] = {}
    /\ registered' = registered \ {a}
    /\ removed' = removed \union (registered \intersect {a})
    /\ removing' = removing \ {a}
    /\ UNCHANGED <<inst, nextId, launching, targets, history>>

Next ==
    \/ \E a \in Apps : \/ Install(a) \/ LaunchLookup(a) \/ Launch(a)
                       \/ UninstallList(a) \/ Unregister(a)
                       \/ \E i \in targets[a] : UninstallEnd(a, i)
    \/ \E i \in Ids : Suspend(i) \/ Resume(i) \/ Terminate(i) \/ ReportCrash(i)
    \/ Gc

Spec == Init /\ [][Next]_vars

-----------------------------------------------------------------------------
(* Properties *)

\* What was ended stays down.  An instance that "failed permanently" never runs
\* again, whatever is asked of it afterwards (report_crash, resume, terminate).
\* Nothing of an application that is gone runs or waits to be resumed, through any
\* order of calls between the steps of the uninstalling, but for the instances
\* it cannot see: those launched after it made its list, and those whose crash is
\* reported after they were ended, which report_crash starts again
\* (bridge_uninstall, handle_app_uninstall).
EndedStaysDown ==
    /\ \A i \in gaveUp \intersect Ids : inst[i].state \in {"Failed", "Terminated"}
    /\ \A i \in Ids \ (late \union missed) :
         inst[i].app \in removed => inst[i].state = "Terminated"
=============================================================================
