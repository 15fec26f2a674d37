-------------------------- MODULE SchedulerProofs --------------------------
(***************************************************************************)
(* Proofs about Scheduler for every set of tasks, assignment of priorities *)
(* and time slice.                                                         *)
(***************************************************************************)
EXTENDS Scheduler, SeqLemmas, TLAPS

\* A switch has been prepared and not made.  It is the only one, it leaves the
\* executing task for current_task, and the fresh slice has been counted down
\* only by ticks of this window, so no tick of it can ask for another one.
WindowInv ==
    LET s == sw[cpu][1] IN
    /\ Len(sw[cpu]) = 1
    /\ s.prev = cpu /\ s.next = current
    /\ state[current] = "Running"
    /\ ~needResched /\ irq # "sched" /\ preemptCount = 0
    /\ slice + winTicks = IF irq = "wake" THEN TimeSlice + 1 ELSE TimeSlice

\* Task code, or the interrupt handler on top of it, executes.
ExecInv ==
    /\ cpu = current
    /\ pc[cpu] # "halt"
    /\ pc[cpu] \in {"run", "enable"} => state[cpu] = "Running"
    /\ pc[cpu] # "run" => preemptCount = 0

CpuInv ==
    /\ IF sw[cpu] = <<>> THEN ExecInv ELSE WindowInv
    /\ \A t \in Tasks : saved[t] = t
    /\ \A t \in Tasks \ {cpu} : sw[t] = <<>>

TaskInv ==
    /\ state[Idle] \in {"Ready", "Running"}
    /\ \A t \in Tasks : pc[t] \in {"exit", "halt"} => state[t] = "Terminated"

\* The inductive invariant.
Inv == TypeOK /\ Placement /\ CpuInv /\ TaskInv /\ PendingHasOwner

-----------------------------------------------------------------------------
(* The ready queues *)

\* The queues hold exactly the tasks of R, each once, by priority.
Queued(rq, R) ==
    /\ rq \in [Levels -> Seq(Tasks)]
    /\ \A p \in Levels : /\ IsInjective(rq[p])
                         /\ Range(rq[p]) = {t \in R : Prio[t] = p}

\* push_back of a task that is not queued.
LEMMA PushQueued ==
    ASSUME NEW rq, NEW R, Queued(rq, R), NEW t \in Tasks, t \notin R
    PROVE  Queued(PushBack(rq, t), R \cup {t})
  <1>1. Prio[t] \in Levels /\ rq \in [Levels -> Seq(Tasks)]
    BY PrioAssumption DEF Levels, Queued
  <1>2. /\ PushBack(rq, t) \in [Levels -> Seq(Tasks)]
        /\ PushBack(rq, t)[Prio[t]] = Append(rq[Prio[t]], t)
        /\ \A p \in Levels : p # Prio[t] => PushBack(rq, t)[p] = rq[p]
    BY <1>1 DEF PushBack
  <1>3. t \notin Range(rq[Prio[t]])
    BY <1>1 DEF Queued
  <1>4. /\ Range(Append(rq[Prio[t]], t)) = Range(rq[Prio[t]]) \cup {t}
        /\ IsInjective(Append(rq[Prio[t]], t))
    BY <1>1, <1>3, AppendSet DEF Queued
  <1>5. ASSUME NEW p \in Levels
        PROVE  /\ IsInjective(PushBack(rq, t)[p])
               /\ Range(PushBack(rq, t)[p]) = {x \in R \cup {t} : Prio[x] = p}
    <2>1. IsInjective(rq[p]) /\ Range(rq[p]) = {x \in R : Prio[x] = p}
      BY DEF Queued
    <2>2. CASE p = Prio[t]
      BY <1>2, <1>4, <2>1, <2>2, Zenon
    <2>3. CASE p # Prio[t]
      BY <1>2, <2>1, <2>3
    <2> QED BY <2>2, <2>3
  <1> QED BY <1>2, <1>5 DEF Queued

\* pop_front of a non-empty queue.
LEMMA PopQueued ==
    ASSUME NEW rq, NEW R, Queued(rq, R), NEW p \in Levels, rq[p] # <<>>
    PROVE  /\ Head(rq[p]) \in R /\ Head(rq[p]) \in Tasks
           /\ Queued([rq EXCEPT ![p] = Tail(@)], R \ {Head(rq[p])})
  <1>1. rq[p] \in Seq(Tasks) /\ IsInjective(rq[p])
    BY DEF Queued
  <1>2. /\ Head(rq[p]) \in Range(rq[p])
        /\ Range(Tail(rq[p])) = Range(rq[p]) \ {Head(rq[p])}
        /\ IsInjective(Tail(rq[p]))
    BY <1>1, TailSet
  <1>3. Head(rq[p]) \in R /\ Prio[Head(rq[p])] = p
    BY <1>2 DEF Queued
  <1>4. Head(rq[p]) \in Tasks /\ Tail(rq[p]) \in Seq(Tasks)
    BY <1>1
  <1> QED BY <1>2, <1>3, <1>4 DEF Queued

\* What prepare_switch does to a consistent scheduler: a ready task, or the
\* running one again, becomes current_task.
Switched ==
    /\ current' \in Tasks
    /\ \/ state[current'] = "Ready"
       \/ current' = current /\ state[current] = "Running"
    /\ state' = [t \in Tasks |->
            IF t = current' THEN "Running"
            ELSE IF t = current /\ state[t] = "Running" THEN "Ready"
            ELSE state[t]]
    /\ Queued(ready', InState("Ready")')
    /\ slice' = TimeSlice
    /\ needResched' = FALSE
    /\ IF current' = current
       THEN UNCHANGED <<sw, winTicks>>
       ELSE /\ sw' = [sw EXCEPT ![cpu] =
                    <<[prev |-> current, next |-> current', masked |-> InIrq]>>]
            /\ winTicks' = 0

LEMMA PrepareSwitched ==
    ASSUME Inv, sw[cpu] = <<>>, PrepareSwitch
    PROVE  Switched
  <1> DEFINE R == InState("Ready") \cup (IF state[current] = "Running"
                                         THEN {current} ELSE {})
  <1>1. Queued(ready, InState("Ready"))
    BY DEF Inv, TypeOK, Placement, Queued
  <1>2. Queued(Requeued, R)
    BY <1>1, PushQueued, Zenon DEF Inv, TypeOK, Requeued, PutBack, InState
  <1>3. Idle \in R /\ Prio[Idle] \in Levels
    BY TasksAssumption, PrioAssumption
       DEF Inv, TaskInv, Placement, InState, Levels
  <1>4. Requeued[Prio[Idle]] # <<>>
    <2>1. Idle \in Range(Requeued[Prio[Idle]])
      BY <1>2, <1>3 DEF Queued
    <2> QED BY <2>1 DEF Range
  <1>5. PICK p \in Levels :
            LET next == Head(Requeued[p]) IN
            /\ IsTop(Requeued, p)
            /\ ready' = [Requeued EXCEPT ![p] = Tail(@)]
            /\ state' = [RequeuedState EXCEPT ![next] = "Running"]
            /\ current' = next
            /\ slice' = TimeSlice
            /\ needResched' = FALSE
            /\ IF next = current
               THEN UNCHANGED <<sw, winTicks>>
               ELSE /\ sw' = [sw EXCEPT ![cpu] = Append(@,
                        [prev |-> current, next |-> next, masked |-> InIrq])]
                    /\ winTicks' = 0
    BY <1>3, <1>4 DEF PrepareSwitch
  <1>6. /\ current' \in R /\ current' \in Tasks
        /\ Queued(ready', R \ {current'})
    BY <1>2, <1>5, PopQueued, Zenon DEF IsTop
  <1>7. state' = [t \in Tasks |->
            IF t = current' THEN "Running"
            ELSE IF t = current /\ state[t] = "Running" THEN "Ready"
            ELSE state[t]]
    BY <1>5, <1>6, Zenon DEF Inv, TypeOK, RequeuedState, PutBack
  <1>8. InState("Ready")' = R \ {current'}
    BY <1>7 DEF InState, Inv, TypeOK
  <1>9. sw \in [Tasks -> Seq(Switches)] /\ cpu \in Tasks
    BY DEF Inv, TypeOK
  <1>10. current' # current =>
            sw' = [sw EXCEPT ![cpu] =
                    <<[prev |-> current, next |-> current', masked |-> InIrq]>>]
    BY <1>5, <1>9
  <1>11. state[current'] = "Ready"
            \/ (current' = current /\ state[current] = "Running")
    BY <1>6 DEF InState
  <1> HIDE DEF R
  <1> QED BY <1>5, <1>6, <1>7, <1>8, <1>10, <1>11, Zenon DEF Switched

-----------------------------------------------------------------------------
(* The invariant is inductive *)

PCs == {"run", "sched", "exit", "enable", "halt"}

\* Every path through schedule() that is not deferred: the caller's pc moves
\* on, the timer handler (if it is the caller) is done.
LEMMA ScheduleStep ==
    ASSUME Inv, sw[cpu] = <<>>, preemptCount = 0, Switched,
           UNCHANGED <<listVars, preemptCount, cpu, saved>>,
           irq' = "no", preemptPending' \in BOOLEAN,
           pc' \in [Tasks -> PCs],
           \A t \in Tasks \ {cpu} : pc'[t] = pc[t],
           pc'[cpu] \in {"exit", "halt"} => state[cpu] = "Terminated"
    PROVE  TypeOK' /\ Placement' /\ CpuInv' /\ TaskInv'
  <1>1. /\ TypeOK /\ Placement /\ CpuInv /\ TaskInv /\ ExecInv
        /\ current \in Tasks /\ cpu = current
        /\ state \in [Tasks -> States]
    BY DEF Inv, CpuInv, ExecInv, TypeOK
  <1>2. InIrq \in BOOLEAN
    BY DEF InIrq
  <1>3. TypeOK'
    <2>1. state' \in [Tasks -> States]
      BY <1>1 DEF Switched, States
    <2>2. sw' \in [Tasks -> Seq(Switches)]
      <3>1. CASE current' = current
        BY <1>1, <3>1 DEF TypeOK, Switched
      <3>2. CASE current' # current
        <4> DEFINE r == [prev |-> current, next |-> current', masked |-> InIrq]
        <4>1. r \in Switches
          BY <1>1, <1>2 DEF Switches, Switched
        <4>2. sw' = [sw EXCEPT ![cpu] = <<r>>]
          BY <3>2 DEF Switched
        <4> HIDE DEF r
        <4>3. <<r>> \in Seq(Switches)
          BY <4>1
        <4> QED BY <1>1, <4>2, <4>3 DEF TypeOK
      <3> QED BY <3>1, <3>2
    <2>3. winTicks' \in 0..MaxWindowTicks
      BY <1>1, SliceAssumption DEF TypeOK, Switched
    <2>4. needResched' \in BOOLEAN /\ current' \in Tasks
      BY Zenon DEF Switched
    <2>5. ready' \in [Levels -> Seq(Tasks)]
      BY DEF Switched, Queued
    <2>6. slice' \in 0..TimeSlice
      BY SliceAssumption DEF Switched
    <2>7. /\ blocked' \in Seq(Tasks)
          /\ sleepQ' \in Seq([left : Nat, task : Tasks])
          /\ preemptCount' \in Nat /\ cpu' \in Tasks
          /\ saved' \in [Tasks -> Tasks]
      BY <1>1 DEF TypeOK, listVars
    <2>8. irq' \in {"no", "wake", "sched"}
      OBVIOUS
    <2> QED BY <2>1, <2>2, <2>3, <2>4, <2>5, <2>6, <2>7, <2>8, Zenon
            DEF TypeOK, PCs
  <1>4. Placement'
    <2>1. InState("Blocked")' = InState("Blocked")
      BY <1>1 DEF Switched, InState
    <2>2. InState("Sleeping")' = InState("Sleeping")
      BY <1>1 DEF Switched, InState
    <2>3. InState("Running")' \subseteq {current'}
      BY <1>1 DEF Switched, InState, Placement
    <2>4. Sleepers' = Sleepers /\ blocked' = blocked
      BY DEF listVars, Sleepers
    <2> QED BY <1>1, <2>1, <2>2, <2>3, <2>4 DEF Placement, Switched, Queued
  <1>5. CpuInv'
    <2>1. /\ \A t \in Tasks : saved'[t] = t
          /\ \A t \in Tasks \ {cpu'} : sw'[t] = <<>>
      BY <1>1 DEF CpuInv, Switched, TypeOK
    <2>2. CASE current' = current
      <3>1. sw'[cpu'] = <<>>
        BY <1>1, <2>2 DEF Switched
      <3>2. ExecInv'
        BY <1>1, <2>2 DEF ExecInv, Switched
      <3> QED BY <2>1, <3>1, <3>2 DEF CpuInv
    <2>3. CASE current' # current
      <3> DEFINE r == [prev |-> current, next |-> current', masked |-> InIrq]
      <3>1. sw'[cpu'] = <<r>> /\ winTicks' = 0
        BY <1>1, <2>3 DEF Switched, TypeOK
      <3>2. WindowInv'
        <4>1. Len(sw'[cpu']) = 1 /\ sw'[cpu'][1] = r
          BY <3>1
        <4>2. r.prev = cpu' /\ r.next = current'
          BY <1>1
        <4>3. state'[current'] = "Running" /\ ~needResched'
          BY <1>1 DEF Switched
        <4>4. slice' + winTicks' = TimeSlice
          BY <3>1, SliceAssumption DEF Switched
        <4> HIDE DEF r
        <4> QED BY <4>1, <4>2, <4>3, <4>4 DEF WindowInv
      <3> QED BY <2>1, <3>1, <3>2 DEF CpuInv
    <2> QED BY <2>2, <2>3
  <1>6. TaskInv'
    <2>1. state'[Idle] \in {"Ready", "Running"}
      BY <1>1, TasksAssumption DEF TaskInv, Switched
    <2>2. \A t \in Tasks : state[t] = "Terminated" => state'[t] = "Terminated"
      BY <1>1 DEF Switched
    <2> QED BY <1>1, <2>1, <2>2 DEF TaskInv
  <1> QED BY <1>3, <1>4, <1>5, <1>6

\* The sleep queue, and the tasks in it.
LEMMA SleeperSeq ==
    ASSUME TypeOK
    PROVE  /\ Sleepers \in Seq(Tasks) /\ Len(Sleepers) = Len(sleepQ)
           /\ DOMAIN Sleepers = 1..Len(sleepQ)
           /\ \A i \in 1..Len(sleepQ) :
                Sleepers[i] = sleepQ[i].task /\ sleepQ[i].left \in Nat
  <1>1. sleepQ \in Seq([left : Nat, task : Tasks])
    BY DEF TypeOK
  <1>2. /\ DOMAIN Sleepers = 1..Len(sleepQ) /\ Len(sleepQ) \in Nat
        /\ Sleepers = [i \in 1..Len(sleepQ) |-> Sleepers[i]]
    BY <1>1 DEF Sleepers
  <1>3. \A i \in 1..Len(sleepQ) : /\ Sleepers[i] = sleepQ[i].task
                                  /\ sleepQ[i].task \in Tasks
                                  /\ sleepQ[i].left \in Nat
    <2>1. \A i \in 1..Len(sleepQ) : sleepQ[i] \in [left : Nat, task : Tasks]
      BY <1>1, SeqElements, Zenon
    <2> QED BY <1>2, <2>1 DEF Sleepers
  <1> QED BY <1>2, <1>3

\* One more tick: the entries age and keep their places.
LEMMA AgedSleepers ==
    ASSUME TypeOK, sleepQ' = Aged
    PROVE  /\ sleepQ' \in Seq([left : Nat, task : Tasks])
           /\ Sleepers' = Sleepers
  <1>1. sleepQ \in Seq([left : Nat, task : Tasks])
    BY DEF TypeOK
  <1>2. DOMAIN Aged = 1..Len(sleepQ) /\ Len(sleepQ) \in Nat
    BY <1>1 DEF Aged
  <1>3. \A i \in 1..Len(sleepQ) :
            Aged[i] \in [left : Nat, task : Tasks] /\ Aged[i].task = sleepQ[i].task
    <2> SUFFICES ASSUME NEW i \in 1..Len(sleepQ)
                 PROVE  /\ Aged[i] \in [left : Nat, task : Tasks]
                        /\ Aged[i].task = sleepQ[i].task
      OBVIOUS
    <2> DEFINE e == sleepQ[i]
    <2>1. e \in [left : Nat, task : Tasks] /\ i \in DOMAIN sleepQ
      BY <1>1, SeqElements, Zenon
    <2>2. Aged[i] = [e EXCEPT !.left = IF e.left > 0 THEN e.left - 1 ELSE 0]
      BY <2>1 DEF Aged, Decrement
    <2> HIDE DEF e
    <2>3. Aged[i] \in [left : Nat, task : Tasks] /\ Aged[i].task = e.task
      BY <2>1, <2>2
    <2> QED BY <2>3 DEF e
  <1>4. Aged \in Seq([left : Nat, task : Tasks])
    <2>1. Aged = [i \in 1..Len(sleepQ) |-> Aged[i]]
      BY <1>1 DEF Aged
    <2> HIDE DEF Aged
    <2> QED BY <1>2, <1>3, <2>1
  <1>5. Sleepers' = [i \in DOMAIN sleepQ' |-> sleepQ'[i].task]
    BY DEF Sleepers
  <1>6. DOMAIN sleepQ' = DOMAIN sleepQ
    BY <1>1, <1>2
  <1> HIDE DEF Aged
  <1> QED BY <1>1, <1>3, <1>4, <1>5, <1>6 DEF Sleepers

\* push and remove on the sleep queue.
LEMMA PushSleeper ==
    ASSUME TypeOK, NEW n \in Nat, NEW t \in Tasks,
           sleepQ' = Append(sleepQ, [left |-> n, task |-> t])
    PROVE  /\ sleepQ' \in Seq([left : Nat, task : Tasks])
           /\ Sleepers' = Append(Sleepers, t)
  <1>1. sleepQ \in Seq([left : Nat, task : Tasks])
    BY DEF TypeOK
  <1>2. sleepQ' \in Seq([left : Nat, task : Tasks])
    BY <1>1
  <1>3. DOMAIN sleepQ' = 1..(Len(sleepQ) + 1)
    BY <1>1
  <1>4. \A i \in 1..(Len(sleepQ) + 1) :
            sleepQ'[i].task = IF i = Len(sleepQ) + 1 THEN t ELSE sleepQ[i].task
    BY <1>1
  <1>5. Sleepers' = [i \in 1..(Len(sleepQ) + 1) |->
                        IF i = Len(sleepQ) + 1 THEN t ELSE sleepQ[i].task]
    BY <1>3, <1>4 DEF Sleepers
  <1>6. Append(Sleepers, t) = [i \in 1..(Len(sleepQ) + 1) |->
                        IF i = Len(sleepQ) + 1 THEN t ELSE sleepQ[i].task]
    BY SleeperSeq, AppendElements
  <1> QED BY <1>2, <1>5, <1>6

LEMMA RemoveSleeper ==
    ASSUME TypeOK, NEW i \in 1..Len(sleepQ), sleepQ' = RemoveAt(sleepQ, i)
    PROVE  /\ sleepQ' \in Seq([left : Nat, task : Tasks])
           /\ Sleepers' = RemoveAt(Sleepers, i)
  <1> DEFINE n == Len(sleepQ) - 1
  <1>1. sleepQ \in Seq([left : Nat, task : Tasks])
    BY DEF TypeOK
  <1>2. /\ sleepQ' \in Seq([left : Nat, task : Tasks]) /\ Len(sleepQ') = n
        /\ \A j \in 1..n :
             sleepQ'[j] = IF j < i THEN sleepQ[j] ELSE sleepQ[j + 1]
    BY <1>1, RemoveAtElements, Zenon
  <1>3. Sleepers \in Seq(Tasks) /\ Len(Sleepers) = n + 1
    BY <1>1, SleeperSeq
  <1>4. /\ RemoveAt(Sleepers, i) \in Seq(Tasks)
        /\ Len(RemoveAt(Sleepers, i)) = n
        /\ \A j \in 1..n : RemoveAt(Sleepers, i)[j]
                = IF j < i THEN Sleepers[j] ELSE Sleepers[j + 1]
    BY <1>1, <1>3, RemoveAtElements
  <1>5. Sleepers' = [j \in 1..n |-> sleepQ'[j].task]
    BY <1>2 DEF Sleepers
  <1>6. \A j \in 1..n : RemoveAt(Sleepers, i)[j] = sleepQ'[j].task
    <2> SUFFICES ASSUME NEW j \in 1..n
                 PROVE  RemoveAt(Sleepers, i)[j] = sleepQ'[j].task
      OBVIOUS
    <2>1. j \in 1..Len(sleepQ) /\ j + 1 \in 1..Len(sleepQ)
      BY <1>1
    <2> QED BY <1>2, <1>4, <2>1, SleeperSeq, Zenon
  <1>7. RemoveAt(Sleepers, i) = [j \in 1..n |-> RemoveAt(Sleepers, i)[j]]
    BY <1>4
  <1> QED BY <1>2, <1>5, <1>6, <1>7

\* A task that is not runnable becomes Ready: spawn, unblock and wake-up.
LEMMA BecomesReady ==
    ASSUME Inv, NEW t \in Tasks, state[t] \in {"New", "Blocked", "Sleeping"},
           state' = [state EXCEPT ![t] = "Ready"], ready' = PushBack(ready, t),
           UNCHANGED <<current, slice, needResched, preemptVars, cpuVars,
                       pc, irq>>
    PROVE  /\ state' \in [Tasks -> States]
           /\ Queued(ready', InState("Ready")')
           /\ InState("Blocked")' = InState("Blocked") \ {t}
           /\ InState("Sleeping")' = InState("Sleeping") \ {t}
           /\ InState("Running")' \subseteq {current'}
           /\ CpuInv' /\ TaskInv' /\ PendingHasOwner'
  <1>1. /\ state \in [Tasks -> States] /\ current \in Tasks /\ cpu \in Tasks
        /\ Placement /\ CpuInv /\ TaskInv /\ PendingHasOwner
    BY DEF Inv, TypeOK
  <1>2. Queued(ready, InState("Ready"))
    BY DEF Inv, TypeOK, Placement, Queued
  <1>3. InState("Ready")' = InState("Ready") \cup {t} /\ t \notin InState("Ready")
    BY <1>1 DEF InState
  <1>4. Queued(ready', InState("Ready")')
    BY <1>2, <1>3, PushQueued
  <1>5. /\ state' \in [Tasks -> States]
        /\ \A u \in Tasks : state[u] \in {"Ready", "Running", "Terminated"}
                            => state'[u] = state[u]
    BY <1>1 DEF States
  <1>6. /\ InState("Blocked")' = InState("Blocked") \ {t}
        /\ InState("Sleeping")' = InState("Sleeping") \ {t}
        /\ InState("Running")' = InState("Running")
    BY <1>1 DEF InState
  <1>7. CpuInv'
    BY <1>1, <1>5 DEF CpuInv, ExecInv, WindowInv, cpuVars, preemptVars
  <1>8. TaskInv'
    BY <1>1, <1>5, TasksAssumption DEF TaskInv
  <1>9. PendingHasOwner'
    BY <1>1 DEF PendingHasOwner, preemptVars
  <1> QED BY <1>1, <1>4, <1>5, <1>6, <1>7, <1>8, <1>9 DEF Placement

\* The executing task stops running of its own will: block, sleep and exit.
LEMMA StopsRunning ==
    ASSUME Inv, NEW st \in {"Blocked", "Sleeping", "Terminated"}, NEW where,
           InTaskCode("run"), cpu # Idle, preemptCount = 0,
           where = IF st = "Terminated" THEN "exit" ELSE "sched",
           state' = [state EXCEPT ![current] = st], Goto(where),
           UNCHANGED <<ready, current, slice, needResched, preemptVars,
                       cpuVars, irq>>
    PROVE  /\ state' \in [Tasks -> States] /\ pc' \in [Tasks -> PCs]
           /\ state[current] = "Running"
           /\ Queued(ready', InState("Ready")')
           /\ \A s \in {"Blocked", "Sleeping"} : InState(s)'
                = IF s = st THEN InState(s) \cup {current} ELSE InState(s)
           /\ InState("Running")' \subseteq {current'}
           /\ CpuInv' /\ TaskInv' /\ PendingHasOwner'
  <1>1. /\ state \in [Tasks -> States] /\ current \in Tasks /\ cpu \in Tasks
        /\ pc \in [Tasks -> PCs] /\ where \in PCs
        /\ Placement /\ CpuInv /\ TaskInv /\ PendingHasOwner
    BY DEF Inv, TypeOK, PCs
  <1>2. Queued(ready, InState("Ready"))
    BY DEF Inv, TypeOK, Placement, Queued
  <1>3. cpu = current /\ state[current] = "Running" /\ sw[cpu] = <<>>
    BY <1>1 DEF CpuInv, ExecInv, InTaskCode
  <1>4. /\ state' \in [Tasks -> States] /\ pc' \in [Tasks -> PCs]
        /\ pc'[cpu] = where /\ state'[current] = st
        /\ \A u \in Tasks \ {current} : state'[u] = state[u] /\ pc'[u] = pc[u]
    BY <1>1, <1>3 DEF States, Goto
  <1>5. /\ InState("Ready")' = InState("Ready")
        /\ InState("Running")' \subseteq {current'}
        /\ \A s \in {"Blocked", "Sleeping"} : InState(s)'
                = IF s = st THEN InState(s) \cup {current} ELSE InState(s)
    BY <1>1, <1>3, <1>4 DEF InState, Placement
  <1>6. CpuInv'
    <2>1. ExecInv'
      BY <1>1, <1>3, <1>4 DEF CpuInv, ExecInv, cpuVars, preemptVars
    <2> QED BY <1>1, <1>3, <2>1 DEF CpuInv, cpuVars
  <1>7. TaskInv'
    BY <1>1, <1>3, <1>4, TasksAssumption DEF TaskInv
  <1>8. PendingHasOwner'
    BY <1>1, <1>3, <1>4 DEF PendingHasOwner, preemptVars, InTaskCode
  <1> QED BY <1>2, <1>3, <1>4, <1>5, <1>6, <1>7, <1>8

LEMMA SpawnInv == ASSUME Inv, NEW t \in Tasks, Spawn(t) PROVE Inv'
  <1>1. /\ state' \in [Tasks -> States] /\ Queued(ready', InState("Ready")')
        /\ InState("Blocked")' = InState("Blocked") \ {t}
        /\ InState("Sleeping")' = InState("Sleeping") \ {t}
        /\ InState("Running")' \subseteq {current'}
        /\ CpuInv' /\ TaskInv' /\ PendingHasOwner'
    BY BecomesReady, Zenon DEF Spawn
  <1>2. /\ InState("Blocked")' = InState("Blocked") /\ blocked' = blocked
        /\ InState("Sleeping")' = InState("Sleeping") /\ Sleepers' = Sleepers
    BY <1>1 DEF InState, Spawn, listVars, Sleepers
  <1>3. TypeOK'
    BY <1>1 DEF Inv, TypeOK, Spawn, Queued, listVars, preemptVars, cpuVars
  <1>4. Placement'
    BY <1>1, <1>2 DEF Inv, Placement, Queued
  <1> QED BY <1>1, <1>3, <1>4 DEF Inv

LEMMA UnblockInv == ASSUME Inv, NEW t \in Tasks, Unblock(t) PROVE Inv'
  <1>1. PICK i \in 1..Len(blocked) : blocked[i] = t /\ blocked' = RemoveAt(blocked, i)
    BY DEF Unblock
  <1>2. blocked \in Seq(Tasks) /\ IsInjective(blocked)
            /\ Range(blocked) = InState("Blocked")
    BY DEF Inv, TypeOK, Placement
  <1>3. /\ blocked' \in Seq(Tasks) /\ IsInjective(blocked')
        /\ Range(blocked') = Range(blocked) \ {t}
    BY <1>1, <1>2, RemoveAtElements, RemoveAtSet
  <1>4. state[t] = "Blocked"
    BY <1>1, <1>2, SeqElements DEF Range, InState
  <1>5. /\ state' \in [Tasks -> States] /\ Queued(ready', InState("Ready")')
        /\ InState("Blocked")' = InState("Blocked") \ {t}
        /\ InState("Sleeping")' = InState("Sleeping") \ {t}
        /\ InState("Running")' \subseteq {current'}
        /\ CpuInv' /\ TaskInv' /\ PendingHasOwner'
    BY <1>4, BecomesReady, Zenon DEF Unblock
  <1>6. InState("Sleeping")' = InState("Sleeping")
    BY <1>4, <1>5 DEF InState
  <1>7. TypeOK'
    <2>1. UNCHANGED <<current, slice, needResched, sleepQ, preemptVars, cpuVars, pc, irq>>
      BY DEF Unblock
    <2> QED BY <1>3, <1>5, <2>1 DEF Inv, TypeOK, Queued, preemptVars, cpuVars
  <1>8. Sleepers' = Sleepers
    BY DEF Unblock, Sleepers
  <1>9. Placement'
    BY <1>2, <1>3, <1>5, <1>6, <1>8 DEF Inv, Placement, Queued
  <1> QED BY <1>5, <1>7, <1>9 DEF Inv

LEMMA WakeDueInv == ASSUME Inv, WakeDue PROVE Inv'
  <1>1. PICK i \in 1..Len(sleepQ) :
            /\ sleepQ' = RemoveAt(sleepQ, i)
            /\ state' = [state EXCEPT ![sleepQ[i].task] = "Ready"]
            /\ ready' = PushBack(ready, sleepQ[i].task)
    BY Zenon DEF WakeDue
  <1> DEFINE t == sleepQ[i].task
  <1>2. /\ Sleepers \in Seq(Tasks) /\ i \in 1..Len(Sleepers)
        /\ i \in DOMAIN Sleepers /\ Sleepers[i] = t
    BY SleeperSeq DEF Inv
  <1>3. /\ sleepQ' \in Seq([left : Nat, task : Tasks])
        /\ Sleepers' = RemoveAt(Sleepers, i)
    BY <1>1, RemoveSleeper, Zenon DEF Inv
  <1>4. IsInjective(Sleepers) /\ Range(Sleepers) = InState("Sleeping")
    BY DEF Inv, Placement
  <1>5. IsInjective(Sleepers') /\ Range(Sleepers') = Range(Sleepers) \ {t}
    BY <1>2, <1>3, <1>4, RemoveAtSet
  <1>6. t \in Tasks /\ state[t] = "Sleeping"
    BY <1>2, <1>4 DEF Range, InState
  <1> HIDE DEF t
  <1>7. /\ state' \in [Tasks -> States] /\ Queued(ready', InState("Ready")')
        /\ InState("Blocked")' = InState("Blocked") \ {t}
        /\ InState("Sleeping")' = InState("Sleeping") \ {t}
        /\ InState("Running")' \subseteq {current'}
        /\ CpuInv' /\ TaskInv' /\ PendingHasOwner'
    BY <1>1, <1>6, BecomesReady, Zenon DEF WakeDue, t
  <1>8. InState("Blocked")' = InState("Blocked") /\ blocked' = blocked
    BY <1>6, <1>7 DEF InState, WakeDue
  <1>9. TypeOK'
    BY <1>3, <1>7, Zenon DEF Inv, TypeOK, WakeDue, Queued, preemptVars, cpuVars
  <1>10. Placement'
    BY <1>4, <1>5, <1>7, <1>8 DEF Inv, Placement, Queued
  <1> QED BY <1>7, <1>9, <1>10 DEF Inv

LEMMA BlockInv == ASSUME Inv, BlockCurrent PROVE Inv'
  <1>1. /\ state' \in [Tasks -> States] /\ pc' \in [Tasks -> PCs]
        /\ state[current] = "Running" /\ Queued(ready', InState("Ready")')
        /\ InState("Blocked")' = InState("Blocked") \cup {current}
        /\ InState("Sleeping")' = InState("Sleeping")
        /\ InState("Running")' \subseteq {current'}
        /\ CpuInv' /\ TaskInv' /\ PendingHasOwner'
    BY StopsRunning DEF BlockCurrent
  <1>2. /\ blocked \in Seq(Tasks) /\ current \in Tasks /\ IsInjective(blocked)
        /\ Range(blocked) = InState("Blocked") /\ current \notin InState("Blocked")
    BY <1>1 DEF Inv, TypeOK, Placement, InState
  <1>3. /\ blocked' \in Seq(Tasks) /\ IsInjective(blocked')
        /\ Range(blocked') = Range(blocked) \cup {current}
    BY <1>2, AppendSet DEF BlockCurrent
  <1>4. TypeOK'
    BY <1>1, <1>3 DEF Inv, TypeOK, PCs, BlockCurrent, Queued, preemptVars, cpuVars
  <1>5. Sleepers' = Sleepers
    BY DEF BlockCurrent, Sleepers
  <1>6. Placement'
    BY <1>1, <1>2, <1>3, <1>5 DEF Inv, Placement, Queued
  <1> QED BY <1>1, <1>4, <1>6 DEF Inv

LEMMA SleepInv == ASSUME Inv, NEW n \in 0..MaxSleep, SleepTicks(n) PROVE Inv'
  <1>1. /\ state' \in [Tasks -> States] /\ pc' \in [Tasks -> PCs]
        /\ state[current] = "Running" /\ Queued(ready', InState("Ready")')
        /\ InState("Blocked")' = InState("Blocked")
        /\ InState("Sleeping")' = InState("Sleeping") \cup {current}
        /\ InState("Running")' \subseteq {current'}
        /\ CpuInv' /\ TaskInv' /\ PendingHasOwner'
    BY StopsRunning DEF SleepTicks
  <1>2. /\ Sleepers \in Seq(Tasks) /\ current \in Tasks /\ IsInjective(Sleepers)
        /\ Range(Sleepers) = InState("Sleeping")
        /\ current \notin InState("Sleeping") /\ n \in Nat
    <2>1. Sleepers \in Seq(Tasks)
      BY SleeperSeq DEF Inv
    <2>2. IsInjective(Sleepers) /\ Range(Sleepers) = InState("Sleeping")
      BY DEF Inv, Placement
    <2>3. current \in Tasks /\ n \in Nat
      BY BoundAssumption DEF Inv, TypeOK
    <2>4. current \notin InState("Sleeping")
      BY <1>1 DEF InState
    <2> QED BY <2>1, <2>2, <2>3, <2>4
  <1>3. /\ sleepQ' \in Seq([left : Nat, task : Tasks])
        /\ Sleepers' = Append(Sleepers, current)
    BY <1>2, PushSleeper, Zenon DEF Inv, SleepTicks
  <1>4. IsInjective(Sleepers') /\ Range(Sleepers') = Range(Sleepers) \cup {current}
    BY <1>2, <1>3, AppendSet
  <1>5. TypeOK'
    BY <1>1, <1>3 DEF Inv, TypeOK, PCs, SleepTicks, Queued, preemptVars, cpuVars
  <1>6. Placement'
    BY <1>1, <1>2, <1>4 DEF Inv, Placement, SleepTicks, Queued
  <1> QED BY <1>1, <1>5, <1>6 DEF Inv

LEMMA ExitInv == ASSUME Inv, ExitCurrent PROVE Inv'
  <1>1. /\ state' \in [Tasks -> States] /\ pc' \in [Tasks -> PCs]
        /\ Queued(ready', InState("Ready")')
        /\ InState("Blocked")' = InState("Blocked")
        /\ InState("Sleeping")' = InState("Sleeping")
        /\ InState("Running")' \subseteq {current'}
        /\ CpuInv' /\ TaskInv' /\ PendingHasOwner'
    BY StopsRunning DEF ExitCurrent
  <1>2. TypeOK'
    BY <1>1 DEF Inv, TypeOK, PCs, ExitCurrent, Queued, listVars, preemptVars, cpuVars
  <1>3. Placement'
    BY <1>1 DEF Inv, Placement, ExitCurrent, Queued, listVars, Sleepers
  <1> QED BY <1>1, <1>2, <1>3 DEF Inv

\* Placement is about the lists and the tasks' states only.
LEMMA PlacementKept ==
    ASSUME Placement, Sleepers' = Sleepers, UNCHANGED <<ready, state, current, blocked>>
    PROVE  Placement'
  <1>1. \A st : InState(st)' = InState(st)
    BY DEF InState
  <1> QED BY <1>1 DEF Placement

\* schedule() while preemption is disabled only records the request.
LEMMA DeferredInv ==
    ASSUME Inv, preemptCount > 0, preemptPending' = TRUE, sw[cpu] = <<>>,
           irq' = "no", UNCHANGED <<schedVars, listVars, preemptCount, cpuVars, pc>>
    PROVE  Inv'
  <1>1. TypeOK'
    BY DEF Inv, TypeOK, schedVars, listVars, cpuVars
  <1>2. Placement'
    BY PlacementKept DEF Inv, Sleepers, schedVars, listVars
  <1>3. CpuInv' /\ TaskInv'
    BY DEF Inv, CpuInv, ExecInv, TaskInv, schedVars, cpuVars
  <1>4. PendingHasOwner'
    BY DEF PendingHasOwner
  <1> QED BY <1>1, <1>2, <1>3, <1>4 DEF Inv

LEMMA YieldInv == ASSUME Inv, YieldNow PROVE Inv'
  <1>1. /\ irq = "no" /\ irq' = "no" /\ sw[cpu] = <<>> /\ pc' = pc
        /\ preemptCount \in Nat /\ pc \in [Tasks -> PCs] /\ pc[cpu] = "run"
        /\ Schedule /\ UNCHANGED <<listVars, preemptCount, cpu, saved, pc>>
    BY DEF Inv, TypeOK, YieldNow, InTaskCode, PCs
  <1>2. CASE preemptCount > 0
    BY <1>1, <1>2, DeferredInv DEF Schedule, Deferred, schedVars, listVars, cpuVars
  <1>3. CASE preemptCount = 0
    <2>1. Switched /\ preemptPending' = preemptPending
      BY <1>1, <1>3, PrepareSwitched DEF Schedule, Deferred
    <2>2. preemptPending' \in BOOLEAN
      BY <2>1 DEF Inv, TypeOK
    <2>3. TypeOK' /\ Placement' /\ CpuInv' /\ TaskInv'
      BY <1>1, <1>3, <2>1, <2>2, ScheduleStep
    <2>4. PendingHasOwner'
      BY <1>1, <2>1 DEF Inv, PendingHasOwner
    <2> QED BY <2>3, <2>4 DEF Inv
  <1> QED BY <1>1, <1>2, <1>3

LEMMA IrqScheduleInv == ASSUME Inv, IrqSchedule PROVE Inv'
  <1>1. /\ irq' = "no" /\ pc' = pc
        /\ preemptCount \in Nat /\ pc \in [Tasks -> PCs] /\ cpu \in Tasks
        /\ Schedule /\ UNCHANGED <<listVars, preemptCount, cpu, saved, pc>>
    BY DEF Inv, TypeOK, IrqSchedule, PCs
  <1>2. sw[cpu] = <<>> /\ (pc[cpu] \in {"exit", "halt"} => state[cpu] = "Terminated")
    BY <1>1 DEF Inv, CpuInv, WindowInv, IrqSchedule, TaskInv
  <1>3. CASE preemptCount > 0
    BY <1>1, <1>2, <1>3, DeferredInv DEF Schedule, Deferred, schedVars, listVars, cpuVars
  <1>4. CASE preemptCount = 0
    <2>1. Switched /\ preemptPending' = preemptPending
      BY <1>1, <1>2, <1>4, PrepareSwitched DEF Schedule, Deferred
    <2>2. preemptPending' \in BOOLEAN
      BY <2>1 DEF Inv, TypeOK
    <2>3. TypeOK' /\ Placement' /\ CpuInv' /\ TaskInv'
      BY <1>1, <1>2, <1>4, <2>1, <2>2, ScheduleStep
    <2>4. PendingHasOwner'
      BY <1>1, <2>1 DEF Inv, PendingHasOwner
    <2> QED BY <2>3, <2>4 DEF Inv
  <1> QED BY <1>1, <1>3, <1>4

LEMMA TailScheduleInv == ASSUME Inv, TailSchedule PROVE Inv'
  <1>1. /\ irq' = "no" /\ sw[cpu] = <<>> /\ pc[cpu] \in {"sched", "exit"}
        /\ pc \in [Tasks -> PCs] /\ cpu \in Tasks
        /\ Schedule /\ UNCHANGED <<listVars, preemptCount, cpu, saved>>
    BY DEF Inv, TypeOK, TailSchedule, InTaskCode, PCs
  <1>2. pc' = [pc EXCEPT ![cpu] = IF pc[cpu] = "exit" THEN "halt" ELSE "run"]
    BY DEF TailSchedule, InTaskCode, Goto
  <1>3. /\ pc' \in [Tasks -> PCs] /\ \A t \in Tasks \ {cpu} : pc'[t] = pc[t]
        /\ pc'[cpu] \in {"exit", "halt"} => state[cpu] = "Terminated"
    BY <1>1, <1>2 DEF Inv, TaskInv, PCs
  <1>4. preemptCount = 0
    BY <1>1 DEF Inv, CpuInv, ExecInv
  <1>5. Switched /\ preemptPending' = preemptPending
    BY <1>1, <1>4, PrepareSwitched DEF Schedule, Deferred
  <1>6. preemptPending' \in BOOLEAN
    BY <1>5 DEF Inv, TypeOK
  <1>7. TypeOK' /\ Placement' /\ CpuInv' /\ TaskInv'
    BY <1>1, <1>3, <1>4, <1>5, <1>6, ScheduleStep
  <1>8. PendingHasOwner'
    BY <1>1, <1>3, <1>4, <1>5 DEF Inv, PendingHasOwner
  <1> QED BY <1>7, <1>8 DEF Inv

LEMMA PreemptDisableInv == ASSUME Inv, PreemptDisable PROVE Inv'
  <1>1. preemptCount \in Nat /\ preemptCount' = preemptCount + 1
    BY DEF Inv, TypeOK, PreemptDisable
  <1>2. TypeOK'
    BY <1>1 DEF Inv, TypeOK, PreemptDisable, schedVars, listVars, cpuVars
  <1>3. Placement'
    BY PlacementKept DEF Inv, Sleepers, PreemptDisable, schedVars, listVars
  <1>4. CpuInv' /\ TaskInv'
    BY DEF Inv, CpuInv, ExecInv, TaskInv, PreemptDisable, InTaskCode,
           schedVars, cpuVars
  <1>5. PendingHasOwner'
    BY <1>1 DEF PendingHasOwner
  <1> QED BY <1>2, <1>3, <1>4, <1>5 DEF Inv

LEMMA PreemptEnableInv == ASSUME Inv, PreemptEnable PROVE Inv'
  <1>1. /\ preemptCount \in Nat /\ preemptCount > 0 /\ cpu \in Tasks
        /\ preemptCount' = preemptCount - 1 /\ preemptCount' \in Nat
        /\ pc \in [Tasks -> PCs] /\ pc[cpu] = "run" /\ sw[cpu] = <<>>
    BY DEF Inv, TypeOK, PreemptEnable, PCs, InTaskCode
  <1>2. pc' = IF preemptCount = 1 THEN [pc EXCEPT ![cpu] = "enable"] ELSE pc
    BY DEF PreemptEnable, Goto
  <1>3. pc' \in [Tasks -> PCs] /\ \A t \in Tasks \ {cpu} : pc'[t] = pc[t]
    BY <1>1, <1>2 DEF PCs
  <1>4. TypeOK'
    BY <1>1, <1>3 DEF Inv, TypeOK, PCs, PreemptEnable, schedVars, listVars, cpuVars
  <1>5. Placement'
    BY PlacementKept DEF Inv, Sleepers, PreemptEnable, schedVars, listVars
  <1>6. CpuInv'
    <2>1. UNCHANGED <<state, current, cpu, sw, saved>>
      BY DEF PreemptEnable, schedVars, cpuVars
    <2>2. ExecInv'
      BY <1>1, <1>2, <2>1 DEF Inv, CpuInv, ExecInv
    <2> QED BY <1>1, <2>1, <2>2 DEF Inv, CpuInv
  <1>7. TaskInv'
    <2>1. state' = state
      BY DEF PreemptEnable, schedVars
    <2> QED BY <1>1, <1>2, <2>1 DEF Inv, TaskInv
  <1>8. PendingHasOwner'
    BY <1>1, <1>2 DEF PendingHasOwner
  <1> QED BY <1>4, <1>5, <1>6, <1>7, <1>8 DEF Inv

LEMMA PreemptEnableCheckInv == ASSUME Inv, PreemptEnableCheck PROVE Inv'
  <1>1. /\ irq' = "no" /\ sw[cpu] = <<>> /\ pc[cpu] = "enable"
        /\ pc \in [Tasks -> PCs] /\ cpu \in Tasks
        /\ pc' = [pc EXCEPT ![cpu] = "run"]
        /\ UNCHANGED <<listVars, preemptCount, cpu, saved>>
    BY DEF Inv, TypeOK, PreemptEnableCheck, InTaskCode, PCs, Goto
  <1>2. /\ pc' \in [Tasks -> PCs] /\ pc'[cpu] = "run"
        /\ \A t \in Tasks \ {cpu} : pc'[t] = pc[t]
    BY <1>1 DEF PCs
  <1>3. preemptCount = 0 /\ preemptPending \in BOOLEAN
    BY <1>1 DEF Inv, TypeOK, CpuInv, ExecInv
  <1>4. CASE preemptPending
    <2>1. PrepareSwitch /\ preemptPending' = FALSE
      BY <1>4 DEF PreemptEnableCheck
    <2>2. TypeOK' /\ Placement' /\ CpuInv' /\ TaskInv'
      BY <1>1, <1>2, <1>3, <2>1, PrepareSwitched, ScheduleStep, Zenon
    <2> QED BY <2>1, <2>2 DEF Inv, PendingHasOwner
  <1>5. CASE ~preemptPending
    <2>1. UNCHANGED <<schedVars, sw, winTicks, preemptPending>>
      BY <1>5 DEF PreemptEnableCheck
    <2>2. TypeOK'
      BY <1>1, <1>2, <2>1 DEF Inv, TypeOK, PCs, schedVars, listVars
    <2>3. Placement'
      BY <1>1, <2>1, PlacementKept DEF Inv, Sleepers, schedVars, listVars
    <2>4. CpuInv' /\ TaskInv'
      BY <1>1, <1>2, <2>1 DEF Inv, CpuInv, ExecInv, TaskInv, schedVars
    <2> QED BY <1>5, <2>1, <2>2, <2>3, <2>4 DEF Inv, PendingHasOwner
  <1> QED BY <1>3, <1>4, <1>5

\* The only prepared switch is made, from the executing task to current_task.
LEMMA SwitchContextInv == ASSUME Inv, SwitchContext PROVE Inv'
  <1>1. /\ sw \in [Tasks -> Seq(Switches)] /\ cpu \in Tasks /\ current \in Tasks
        /\ saved \in [Tasks -> Tasks] /\ sw[cpu] # <<>> /\ WindowInv
        /\ \A t \in Tasks : saved[t] = t
        /\ \A t \in Tasks \ {cpu} : sw[t] = <<>>
    <2>1. sw[cpu] # <<>>
      BY DEF SwitchContext
    <2> QED BY <2>1 DEF Inv, TypeOK, CpuInv
  <1> DEFINE s == sw[cpu][1]
  <1>2. Last(sw[cpu]) = s /\ Front(sw[cpu]) = <<>>
    BY <1>1, SingletonLast DEF WindowInv
  <1>3. /\ s.prev = cpu /\ s.next = current /\ state[current] = "Running"
        /\ preemptCount = 0
    BY <1>1 DEF WindowInv
  <1> HIDE DEF s
  <1>4. /\ saved' = [saved EXCEPT ![s.prev] = cpu] /\ cpu' = saved'[s.next]
        /\ sw' = [sw EXCEPT ![cpu] = <<>>]
        /\ UNCHANGED <<schedVars, listVars, preemptVars, winTicks, pc, irq>>
    BY <1>2 DEF SwitchContext
  <1>5. saved' = saved
    BY <1>1, <1>3, <1>4
  <1>6. cpu' = current /\ \A t \in Tasks : sw'[t] = <<>>
    BY <1>1, <1>3, <1>4, <1>5
  <1>7. sw' \in [Tasks -> Seq(Switches)]
    <2>1. <<>> \in Seq(Switches)
      OBVIOUS
    <2> QED BY <1>1, <1>4, <2>1
  <1>8. TypeOK'
    BY <1>1, <1>4, <1>5, <1>6, <1>7, Zenon
       DEF Inv, TypeOK, schedVars, listVars, preemptVars
  <1>9. Placement'
    BY <1>4, PlacementKept DEF Inv, Sleepers, schedVars, listVars
  <1>10. CpuInv'
    <2>1. state'[cpu'] = "Running" /\ preemptCount' = 0 /\ pc'[cpu'] # "halt"
      BY <1>1, <1>3, <1>4, <1>6 DEF Inv, TaskInv, schedVars, preemptVars
    <2>2. ExecInv'
      BY <1>4, <1>6, <2>1 DEF ExecInv, schedVars
    <2> QED BY <1>1, <1>5, <1>6, <2>2 DEF CpuInv
  <1>11. TaskInv' /\ PendingHasOwner'
    BY <1>4 DEF Inv, TaskInv, PendingHasOwner, schedVars, preemptVars
  <1> QED BY <1>8, <1>9, <1>10, <1>11 DEF Inv

LEMMA TimerTickInv == ASSUME Inv, TimerTick PROVE Inv'
  <1>1. /\ sleepQ' \in Seq([left : Nat, task : Tasks]) /\ Sleepers' = Sleepers
    BY AgedSleepers DEF Inv, TimerTick
  <1>2. /\ irq = "no" /\ irq' = "wake" /\ winTicks \in 0..MaxWindowTicks
        /\ UNCHANGED <<schedVars, blocked, preemptVars, cpu, sw, saved, pc>>
    BY DEF Inv, TypeOK, TimerTick
  <1>3. IF sw[cpu] = <<>> THEN winTicks' = winTicks
        ELSE winTicks < MaxWindowTicks /\ winTicks' = winTicks + 1
    BY DEF TimerTick
  <1>4. winTicks' \in 0..MaxWindowTicks
    BY <1>2, <1>3, SliceAssumption
  <1>5. TypeOK'
    BY <1>1, <1>2, <1>4 DEF Inv, TypeOK, schedVars, preemptVars
  <1>6. Placement'
    BY <1>1, <1>2, PlacementKept DEF Inv, schedVars
  <1>7. CpuInv'
    <2>1. CASE sw[cpu] = <<>>
      BY <1>2, <2>1 DEF Inv, CpuInv, ExecInv, schedVars, preemptVars
    <2>2. CASE sw[cpu] # <<>>
      <3>1. slice + winTicks = TimeSlice /\ slice \in Nat
        BY <1>2, <2>2, SliceAssumption DEF Inv, CpuInv, WindowInv, TypeOK
      <3>2. slice' + winTicks' = TimeSlice + 1
        BY <1>2, <1>3, <2>2, <3>1, SliceAssumption DEF schedVars
      <3>3. WindowInv'
        BY <1>2, <2>2, <3>2 DEF Inv, CpuInv, WindowInv, schedVars, preemptVars
      <3> QED BY <1>2, <2>2, <3>3 DEF Inv, CpuInv
    <2> QED BY <2>1, <2>2
  <1>8. TaskInv' /\ PendingHasOwner'
    BY <1>2 DEF Inv, TaskInv, PendingHasOwner, schedVars, preemptVars
  <1> QED BY <1>5, <1>6, <1>7, <1>8 DEF Inv

LEMMA TimerTickSkippedInv == ASSUME Inv, TimerTickSkipped PROVE Inv'
  <1>1. /\ sleepQ' \in Seq([left : Nat, task : Tasks]) /\ Sleepers' = Sleepers
    BY AgedSleepers DEF Inv, TimerTickSkipped
  <1>2. UNCHANGED <<schedVars, blocked, preemptVars, cpuVars, pc, irq>>
    BY DEF TimerTickSkipped
  <1>3. TypeOK'
    BY <1>1, <1>2 DEF Inv, TypeOK, schedVars, preemptVars, cpuVars
  <1>4. Placement'
    BY <1>1, <1>2, PlacementKept DEF Inv, schedVars
  <1>5. CpuInv' /\ TaskInv' /\ PendingHasOwner'
    BY <1>2 DEF Inv, CpuInv, ExecInv, WindowInv, TaskInv, PendingHasOwner,
                schedVars, preemptVars, cpuVars
  <1> QED BY <1>3, <1>4, <1>5 DEF Inv

\* In the window of a prepared switch the slice cannot run out.
LEMMA SliceTickInv == ASSUME Inv, SliceTick PROVE Inv'
  <1>1. /\ irq = "wake" /\ slice \in 0..TimeSlice /\ winTicks \in 0..MaxWindowTicks
        /\ slice' = IF slice > 0 THEN slice - 1 ELSE 0
        /\ irq' = IF needResched' THEN "sched" ELSE "no"
        /\ UNCHANGED <<ready, state, current, listVars, preemptVars, cpuVars, pc>>
    BY DEF Inv, TypeOK, SliceTick, Decrement
  <1>2. needResched' = (needResched \/ slice' = 0) /\ needResched' \in BOOLEAN
    BY DEF Inv, TypeOK, SliceTick
  <1>3. slice' \in 0..TimeSlice
    BY <1>1, SliceAssumption
  <1>4. TypeOK'
    BY <1>1, <1>2, <1>3 DEF Inv, TypeOK, listVars, preemptVars, cpuVars
  <1>5. Placement'
    BY <1>1, PlacementKept DEF Inv, Sleepers, listVars
  <1>6. CpuInv'
    <2>1. CASE sw[cpu] = <<>>
      BY <1>1, <2>1 DEF Inv, CpuInv, ExecInv, preemptVars, cpuVars
    <2>2. CASE sw[cpu] # <<>>
      <3>1. slice + winTicks = TimeSlice + 1 /\ ~needResched
        BY <1>1, <2>2 DEF Inv, CpuInv, WindowInv
      <3>2. slice' + winTicks = TimeSlice /\ slice' # 0
        BY <1>1, <3>1, SliceAssumption
      <3>3. ~needResched' /\ irq' = "no"
        BY <1>1, <1>2, <3>1, <3>2, Zenon
      <3>4. WindowInv'
        BY <1>1, <2>2, <3>2, <3>3 DEF Inv, CpuInv, WindowInv, preemptVars, cpuVars
      <3> QED BY <1>1, <2>2, <3>4 DEF Inv, CpuInv, cpuVars
    <2> QED BY <2>1, <2>2
  <1>7. TaskInv' /\ PendingHasOwner'
    BY <1>1 DEF Inv, TaskInv, PendingHasOwner, preemptVars
  <1> QED BY <1>4, <1>5, <1>6, <1>7 DEF Inv

LEMMA InitInv == Init => Inv
  <1> SUFFICES ASSUME Init PROVE Inv
    OBVIOUS
  <1>1. /\ Boot \in Tasks /\ Idle \in Tasks /\ Boot # Idle
        /\ Prio[Idle] \in Levels /\ Prio \in [Tasks -> Levels]
    BY TasksAssumption, PrioAssumption DEF Levels
  <1>2. /\ state \in [Tasks -> States] /\ state[Idle] = "Ready"
        /\ state[Boot] = "Running"
        /\ \A t \in Tasks \ {Boot, Idle} : state[t] = "New"
    BY <1>1 DEF Init, States
  <1>3. ready \in [Levels -> Seq(Tasks)]
    <2>1. <<Idle>> \in Seq(Tasks) /\ <<>> \in Seq(Tasks)
      BY <1>1
    <2> QED BY <2>1 DEF Init
  <1>4. TypeOK
    <2>1. slice \in 0..TimeSlice /\ winTicks \in 0..MaxWindowTicks
      BY SliceAssumption DEF Init
    <2>2. /\ blocked \in Seq(Tasks) /\ sw \in [Tasks -> Seq(Switches)]
          /\ sleepQ \in Seq([left : Nat, task : Tasks])
      BY DEF Init
    <2>3. /\ current \in Tasks /\ cpu \in Tasks /\ saved \in [Tasks -> Tasks]
          /\ needResched \in BOOLEAN /\ preemptPending \in BOOLEAN
          /\ preemptCount \in Nat /\ irq \in {"no", "wake", "sched"}
          /\ pc \in [Tasks -> {"run", "sched", "exit", "enable", "halt"}]
      BY <1>1, Zenon DEF Init
    <2> QED BY <1>2, <1>3, <2>1, <2>2, <2>3 DEF TypeOK
  <1>5. /\ InState("Ready") = {Idle} /\ InState("Running") = {Boot}
        /\ InState("Blocked") = {} /\ InState("Sleeping") = {}
    BY <1>1, <1>2 DEF InState
  <1>6. /\ Sleepers = <<>> /\ IsInjective(<<>>) /\ Range(<<>>) = {}
        /\ IsInjective(<<Idle>>) /\ Range(<<Idle>>) = {Idle}
    <2>1. Sleepers = <<>>
      BY DEF Init, Sleepers
    <2> QED BY <2>1 DEF IsInjective, Range
  <1>7. \A p \in Levels :
            IsInjective(ready[p]) /\ Range(ready[p]) = {t \in {Idle} : Prio[t] = p}
    <2> TAKE p \in Levels
    <2>1. CASE p = Prio[Idle]
      BY <1>6, <2>1 DEF Init
    <2>2. CASE p # Prio[Idle]
      BY <1>6, <2>2 DEF Init
    <2> QED BY <2>1, <2>2
  <1>8. Placement
    BY <1>5, <1>6, <1>7, Zenon DEF Placement, Init
  <1>9. CpuInv /\ TaskInv /\ PendingHasOwner
    BY <1>1, <1>2 DEF Init, CpuInv, ExecInv, TaskInv, PendingHasOwner
  <1> QED BY <1>4, <1>8, <1>9 DEF Inv

\* Every step of task code and of the timer interrupt keeps the invariant.
LEMMA NextInv == Inv /\ [Next]_vars => Inv'
  <1> SUFFICES ASSUME Inv, [Next]_vars PROVE Inv'
    OBVIOUS
  <1>1. ASSUME NEW t \in Tasks, Spawn(t) PROVE Inv'
    BY <1>1, SpawnInv
  <1>2. ASSUME NEW t \in Tasks, Unblock(t) PROVE Inv'
    BY <1>2, UnblockInv
  <1>3. ASSUME NEW n \in 0..MaxSleep, SleepTicks(n) PROVE Inv'
    BY <1>3, SleepInv
  <1>4. CASE YieldNow \/ BlockCurrent \/ ExitCurrent \/ TailSchedule
    BY <1>4, YieldInv, BlockInv, ExitInv, TailScheduleInv
  <1>5. CASE PreemptDisable \/ PreemptEnable \/ PreemptEnableCheck
    BY <1>5, PreemptDisableInv, PreemptEnableInv, PreemptEnableCheckInv
  <1>6. CASE SwitchContext
    BY <1>6, SwitchContextInv
  <1>7. CASE TimerTick \/ TimerTickSkipped \/ WakeDue
    BY <1>7, TimerTickInv, TimerTickSkippedInv, WakeDueInv
  <1>8. CASE SliceTick \/ IrqSchedule
    BY <1>8, SliceTickInv, IrqScheduleInv
  <1>9. CASE UNCHANGED vars
    BY <1>9, Zenon DEF Inv, TypeOK, Placement, InState, Sleepers, CpuInv, ExecInv,
        WindowInv, TaskInv, PendingHasOwner, vars, schedVars, listVars,
        preemptVars, cpuVars
  <1> QED BY <1>1, <1>2, <1>3, <1>4, <1>5, <1>6, <1>7, <1>8, <1>9 DEF Next

-----------------------------------------------------------------------------
(* Theorems *)

\* The inductive invariant holds in every reachable state.
THEOREM Invariance == Spec => []Inv
  BY InitInv, NextInv, PTL DEF Spec

\* The scheduler's state is well typed, for any tasks, priorities and slice.
THEOREM TypeCorrect == Spec => []TypeOK
  <1>1. Inv => TypeOK
    BY DEF Inv
  <1> QED BY <1>1, Invariance, PTL

\* Every task is where its TaskState says, once, and nowhere else.
THEOREM PlacementCorrect == Spec => []Placement
  <1>1. Inv => Placement
    BY DEF Inv
  <1> QED BY <1>1, Invariance, PTL

\* switch_context never mixes up two tasks' contexts, even when the timer
\* fires between schedule()'s unlock and the switch, as long as a whole time
\* slice does not elapse there (SliceAssumption).
THEOREM ContextsCorrect == Spec => []ContextIntegrity
  <1>1. Inv => ContextIntegrity
    BY DEF Inv, CpuInv, ExecInv, ContextIntegrity
  <1> QED BY <1>1, Invariance, PTL

\* schedule() always finds a task: the idle task is queued or running.
THEOREM IdleCorrect == Spec => []IdleAvailable
  <1>1. Inv => IdleAvailable
    <2> SUFFICES ASSUME Inv, current # Idle
                 PROVE  Idle \in Range(ready[Prio[Idle]])
      BY DEF IdleAvailable
    <2>1. Idle \in Tasks /\ Prio[Idle] \in Levels
      BY TasksAssumption, PrioAssumption DEF Levels
    <2>2. state[Idle] \in {"Ready", "Running"} /\ InState("Running") \subseteq {current}
      BY DEF Inv, TaskInv, Placement
    <2>3. Idle \in InState("Ready")
      BY <2>1, <2>2 DEF InState
    <2>4. Range(ready[Prio[Idle]]) = {t \in InState("Ready") : Prio[t] = Prio[Idle]}
      BY <2>1 DEF Inv, Placement
    <2> QED BY <2>3, <2>4
  <1> QED BY <1>1, Invariance, PTL

\* No task executes its own code while it is queued, blocked, asleep or dead.
THEOREM ExecutionCorrect == Spec => []ExecutingIsRunning
  <1>1. Inv => ExecutingIsRunning
    BY DEF Inv, CpuInv, ExecInv, ExecutingIsRunning, InTaskCode
  <1> QED BY <1>1, Invariance, PTL

\* exit_current never returns.
THEOREM ExitNeverReturns == Spec => []NeverHalts
  <1>1. Inv => NeverHalts
    BY DEF Inv, CpuInv, ExecInv, NeverHalts, InTaskCode
  <1> QED BY <1>1, Invariance, PTL

\* A reschedule request recorded while preemption is disabled is not lost.
THEOREM PendingCorrect == Spec => []PendingHasOwner
  <1>1. Inv => PendingHasOwner
    BY DEF Inv
  <1> QED BY <1>1, Invariance, PTL

\* Only switch_context moves the CPU, and only to current_task, and it never
\* happens while preemption is disabled.
LEMMA CpuMoves ==
    ASSUME Inv, [Next]_vars, cpu' # cpu
    PROVE  preemptCount = 0 /\ state[cpu'] = "Running"
  <1>1. CASE SwitchContext
    <2>1. /\ sw \in [Tasks -> Seq(Switches)] /\ cpu \in Tasks /\ current \in Tasks
          /\ saved \in [Tasks -> Tasks] /\ WindowInv
          /\ \A t \in Tasks : saved[t] = t
      BY <1>1 DEF Inv, TypeOK, CpuInv, SwitchContext
    <2>2. Last(sw[cpu]) = sw[cpu][1]
      BY <2>1, SingletonLast DEF WindowInv
    <2>3. Last(sw[cpu]).prev = cpu /\ Last(sw[cpu]).next = current
      BY <2>1, <2>2 DEF WindowInv
    <2>4. cpu' = current
      BY <1>1, <2>1, <2>3 DEF SwitchContext
    <2> QED BY <2>1, <2>4 DEF WindowInv
  <1>2. CASE ~SwitchContext
    BY <1>2, Zenon DEF Next, vars, cpuVars, Spawn, Unblock, SleepTicks, YieldNow,
        BlockCurrent, ExitCurrent, TailSchedule, PreemptDisable,
        PreemptEnable, PreemptEnableCheck, TimerTick, TimerTickSkipped,
        WakeDue, SliceTick, IrqSchedule
  <1> QED BY <1>1, <1>2

\* The CPU stays with a task that has disabled preemption.
THEOREM PreemptionDisabled == Spec => NoSwitchWhenDisabled
  <1>1. Inv /\ [Next]_vars => [preemptCount > 0 => cpu' = cpu]_vars
    BY CpuMoves
  <1> QED BY <1>1, Invariance, PTL DEF Spec, NoSwitchWhenDisabled

\* No step takes a task out of Terminated.
LEMMA TerminatedStays ==
    ASSUME Inv, [Next]_vars, NEW t \in Tasks, state[t] = "Terminated"
    PROVE  state'[t] = "Terminated"
  <1>1. /\ state \in [Tasks -> States] /\ current \in Tasks /\ cpu \in Tasks
        /\ Placement /\ CpuInv /\ preemptCount \in Nat
    BY DEF Inv, TypeOK
  <1>2. Switched => state'[t] = "Terminated"
    BY <1>1 DEF Switched
  <1>3. ASSUME Schedule, sw[cpu] = <<>> PROVE state'[t] = "Terminated"
    <2>1. CASE preemptCount > 0
      BY <1>3, <2>1 DEF Schedule, Deferred, schedVars
    <2>2. CASE preemptCount = 0
      BY <1>2, <1>3, <2>2, PrepareSwitched DEF Schedule, Deferred
    <2> QED BY <1>1, <2>1, <2>2
  <1>4. ASSUME NEW u \in Tasks, Spawn(u) PROVE state'[t] = "Terminated"
    BY <1>1, <1>4 DEF Spawn
  <1>5. ASSUME NEW u \in Tasks, Unblock(u) PROVE state'[t] = "Terminated"
    <2>1. PICK i \in 1..Len(blocked) : blocked[i] = u
      BY <1>5, Zenon DEF Unblock
    <2>2. blocked \in Seq(Tasks) /\ Range(blocked) = InState("Blocked")
      BY DEF Inv, TypeOK, Placement
    <2>3. state[u] = "Blocked"
      BY <2>1, <2>2, SeqElements DEF Range, InState
    <2> QED BY <1>1, <1>5, <2>3 DEF Unblock
  <1>6. ASSUME NEW n \in 0..MaxSleep, SleepTicks(n) PROVE state'[t] = "Terminated"
    BY <1>1, <1>6 DEF SleepTicks, CpuInv, ExecInv, InTaskCode
  <1>7. CASE BlockCurrent \/ ExitCurrent
    BY <1>1, <1>7, Zenon DEF BlockCurrent, ExitCurrent, CpuInv, ExecInv, InTaskCode
  <1>8. CASE YieldNow \/ TailSchedule \/ IrqSchedule
    <2>1. Schedule /\ sw[cpu] = <<>>
      BY <1>1, <1>8 DEF YieldNow, TailSchedule, IrqSchedule, InTaskCode, CpuInv,
                        WindowInv
    <2> QED BY <1>3, <2>1
  <1>9. CASE PreemptEnableCheck
    <2>1. CASE preemptPending
      BY <1>2, <1>9, <2>1, PrepareSwitched DEF PreemptEnableCheck, InTaskCode
    <2>2. CASE ~preemptPending
      BY <1>9, <2>2 DEF PreemptEnableCheck, schedVars
    <2> QED BY <2>1, <2>2
  <1>10. CASE WakeDue
    <2>1. PICK i \in 1..Len(sleepQ) :
                state' = [state EXCEPT ![sleepQ[i].task] = "Ready"]
      BY <1>10, Zenon DEF WakeDue
    <2>2. sleepQ[i].task \in Range(Sleepers)
      BY SleeperSeq DEF Inv, Range
    <2>3. state[sleepQ[i].task] = "Sleeping"
      BY <1>1, <2>2 DEF Placement, InState
    <2> QED BY <1>1, <2>1, <2>3
  <1>11. CASE \/ PreemptDisable \/ PreemptEnable \/ SwitchContext \/ TimerTick
              \/ TimerTickSkipped \/ SliceTick \/ UNCHANGED vars
    BY <1>11, Zenon DEF PreemptDisable, PreemptEnable, SwitchContext, TimerTick,
        TimerTickSkipped, SliceTick, vars, schedVars
  <1> QED BY <1>4, <1>5, <1>6, <1>7, <1>8, <1>9, <1>10, <1>11 DEF Next

\* A terminated task stays terminated and never gets the CPU back.
THEOREM TerminationFinal == Spec => TerminatedIsFinal
  <1>1. Inv /\ [Next]_vars =>
            [\A t \in Tasks : state[t] = "Terminated" =>
                state'[t] = "Terminated" /\ (cpu # t => cpu' # t)]_vars
    BY CpuMoves, TerminatedStays, Zenon
  <1> QED BY <1>1, Invariance, PTL DEF Spec, TerminatedIsFinal
=============================================================================
