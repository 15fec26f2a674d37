----------------------------- MODULE Scheduler -----------------------------
(***************************************************************************)
(* The kernel scheduler, kernel/src/scheduler/mod.rs, on its single CPU.   *)
(*                                                                         *)
(* A task stands for one Arc<Mutex<Task>>.  Task code and the timer        *)
(* interrupt interleave: the interrupt arrives between any two steps of    *)
(* task code, including between block_task and the schedule() that follows *)
(* it, and between the release of the SCHEDULER lock in schedule() and     *)
(* switch_context().  While task code holds SCHEDULER the interrupt's      *)
(* try_lock fails (TimerTickSkipped).                                      *)
(*                                                                         *)
(* Deadlines are kept as the ticks left, the difference wake_at minus      *)
(* BOOT_TICKS cut off at 0: the code only compares the two.                *)
(*                                                                         *)
(* preempt_disable and preempt_enable have no caller in the kernel yet.    *)
(* The model takes them in pairs around code that may yield but does not   *)
(* block, sleep or exit: schedule() would return to a task that is not     *)
(* Running any more.                                                       *)
(***************************************************************************)
EXTENDS Queues

CONSTANTS
    Tasks,           \* every task the system may ever create
    Boot, Idle,      \* TaskId::KERNEL and TaskId::IDLE
    Prio,            \* Prio[t]: the ready queue of t, task.priority().level()
    MaxLevel,        \* MAX_PRIORITY_LEVELS - 1
    TimeSlice,       \* DEFAULT_TIME_SLICE
    MaxWindowTicks,  \* bound: ticks between schedule()'s unlock and the switch
    MaxSleep,        \* bound: the longest sleep_ticks argument
    MaxNesting       \* bound: nesting of preempt_disable

ASSUME TasksAssumption == Boot \in Tasks /\ Idle \in Tasks /\ Boot # Idle

ASSUME PrioAssumption == /\ MaxLevel \in Nat
                         /\ Prio \in [Tasks -> 0..MaxLevel]

\* A whole time slice never elapses between the unlock and the switch.
ASSUME SliceAssumption == /\ TimeSlice \in Nat
                          /\ MaxWindowTicks \in Nat
                          /\ MaxWindowTicks < TimeSlice

ASSUME BoundAssumption == MaxSleep \in Nat /\ MaxNesting \in Nat

VARIABLES
    state,           \* TaskState of each task; "New" before spawn
    ready,           \* ready_queues
    current,         \* current_task and CURRENT_TASK_ID
    blocked,         \* blocked_tasks
    sleepQ,          \* sleep_queue, entries [left, task]
    slice,           \* time_slice_remaining
    needResched,     \* need_reschedule
    preemptCount,    \* PREEMPT_COUNT
    preemptPending,  \* PREEMPT_PENDING
    pc,              \* what the code of each task does next
    irq,             \* the stage of the timer interrupt handler
    cpu,             \* the task whose stack the CPU executes on
    sw,              \* sw[t]: switches prepared on t's stack, not yet made
    saved,           \* saved[t]: the task whose registers t.switch_ctx holds
    winTicks         \* ticks since the last prepared switch

schedVars == <<ready, state, current, slice, needResched>>
listVars == <<blocked, sleepQ>>
preemptVars == <<preemptCount, preemptPending>>
cpuVars == <<cpu, sw, saved, winTicks>>
vars == <<schedVars, listVars, preemptVars, cpuVars, pc, irq>>

Levels == 0..MaxLevel
States == {"New", "Ready", "Running", "Blocked", "Sleeping", "Terminated"}
Switches == [prev : Tasks, next : Tasks, masked : BOOLEAN]

\* Fault: init does not add the idle task.
InitWithoutIdle ==
    /\ state = [t \in Tasks |-> IF t = Boot THEN "Running" ELSE "New"]
    /\ ready = [p \in Levels |-> <<>>]
    /\ current = Boot /\ cpu = Boot
    /\ blocked = <<>> /\ sleepQ = <<>>
    /\ slice = TimeSlice /\ needResched = FALSE
    /\ preemptCount = 0 /\ preemptPending = FALSE
    /\ pc = [t \in Tasks |-> "run"] /\ irq = "no"
    /\ sw = [t \in Tasks |-> <<>>] /\ saved = [t \in Tasks |-> t]
    /\ winTicks = 0

\* scheduler::init: the idle task is queued, the boot task is running.
Init ==
    /\ state = [t \in Tasks |-> CASE t = Boot -> "Running"
                                  [] t = Idle -> "Ready"
                                  [] OTHER -> "New"]
    /\ ready = [p \in Levels |-> IF p = Prio[Idle] THEN <<Idle>> ELSE <<>>]
    /\ current = Boot
    /\ blocked = <<>>
    /\ sleepQ = <<>>
    /\ slice = TimeSlice
    /\ needResched = FALSE
    /\ preemptCount = 0
    /\ preemptPending = FALSE
    /\ pc = [t \in Tasks |-> "run"]
    /\ irq = "no"
    /\ cpu = Boot
    /\ sw = [t \in Tasks |-> <<>>]
    /\ saved = [t \in Tasks |-> t]
    /\ winTicks = 0

-----------------------------------------------------------------------------
(* Helpers *)

\* Fault: the task goes to the front of its queue.
PushFront(rq, t) == [rq EXCEPT ![Prio[t]] = <<t>> \o @]

PushBack(rq, t) == [rq EXCEPT ![Prio[t]] = Append(@, t)]

\* Fault: schedule() puts back every task that does not wait.
NotWaiting == state[current] \notin {"Blocked", "Sleeping"}

\* Only a task that is still Running goes back to its queue.
PutBack == state[current] = "Running"

\* The ready queues and states after schedule() has put a running task back.
Requeued == IF PutBack THEN PushBack(ready, current) ELSE ready
RequeuedState == IF PutBack THEN [state EXCEPT ![current] = "Ready"] ELSE state

\* The highest level with a ready task.
IsTop(rq, p) == rq[p] # <<>> /\ \A q \in Levels : q > p => rq[q] = <<>>

\* The switch the interrupt handler prepares runs with interrupts masked.
InIrq == irq # "no"

\* schedule() does not switch while preemption is disabled.
Deferred == preemptCount > 0

\* prepare_switch: put the running task back, take the front of the highest
\* non-empty queue; remember a switch to make if the task changed.
PrepareSwitch ==
    IF \A p \in Levels : Requeued[p] = <<>>
    THEN UNCHANGED <<schedVars, sw, winTicks>>
    ELSE \E p \in Levels :
        LET next == Head(Requeued[p]) IN
        /\ IsTop(Requeued, p)
        /\ ready' = [Requeued EXCEPT ![p] = Tail(@)]
        /\ state' = [RequeuedState EXCEPT ![next] = "Running"]
        /\ current' = next
        /\ slice' = TimeSlice
        /\ needResched' = FALSE
        /\ IF next = current
           THEN UNCHANGED <<sw, winTicks>>
           ELSE /\ sw' = [sw EXCEPT ![cpu] = Append(@,
                        [prev |-> current, next |-> next, masked |-> InIrq])]
                /\ winTicks' = 0

\* schedule(): deferred while preemption is disabled.
Schedule ==
    IF Deferred
    THEN preemptPending' = TRUE /\ UNCHANGED <<schedVars, sw, winTicks>>
    ELSE PrepareSwitch /\ UNCHANGED preemptPending

\* Task code executes: no handler is active and no switch is about to happen.
InTaskCode(where) == irq = "no" /\ sw[cpu] = <<>> /\ pc[cpu] = where
Goto(where) == pc' = [pc EXCEPT ![cpu] = where]

-----------------------------------------------------------------------------
(* Operations of task code.  The idle task only halts. *)

\* spawn -> add_task.
Spawn(t) ==
    /\ InTaskCode("run") /\ cpu # Idle
    /\ state[t] = "New"
    /\ state' = [state EXCEPT ![t] = "Ready"]
    /\ ready' = PushBack(ready, t)
    /\ UNCHANGED <<current, slice, needResched, listVars, preemptVars,
                   cpuVars, pc, irq>>

\* yield_now.
YieldNow ==
    /\ InTaskCode("run") /\ cpu # Idle
    /\ Schedule
    /\ UNCHANGED <<listVars, preemptCount, cpu, saved, pc, irq>>

\* block_current -> block_task; the caller goes on to schedule().
BlockCurrent ==
    /\ InTaskCode("run") /\ cpu # Idle /\ preemptCount = 0
    /\ state' = [state EXCEPT ![current] = "Blocked"]
    /\ blocked' = Append(blocked, current)
    /\ Goto("sched")
    /\ UNCHANGED <<ready, current, slice, needResched, sleepQ, preemptVars,
                   cpuVars, irq>>

\* Fault: the entry stays in blocked_tasks.
UnblockKeepsEntry(t) ==
    /\ InTaskCode("run") /\ cpu # Idle
    /\ \E i \in 1..Len(blocked) :
        /\ blocked[i] = t
        /\ \A j \in 1..(i - 1) : blocked[j] # t
        /\ blocked' = blocked
    /\ state' = [state EXCEPT ![t] = "Ready"]
    /\ ready' = PushBack(ready, t)
    /\ UNCHANGED <<current, slice, needResched, sleepQ, preemptVars, cpuVars,
                   pc, irq>>

\* unblock -> unblock_task: the first entry of the task, if there is one.
Unblock(t) ==
    /\ InTaskCode("run") /\ cpu # Idle
    /\ \E i \in 1..Len(blocked) :
        /\ blocked[i] = t
        /\ \A j \in 1..(i - 1) : blocked[j] # t
        /\ blocked' = RemoveAt(blocked, i)
    /\ state' = [state EXCEPT ![t] = "Ready"]
    /\ ready' = PushBack(ready, t)
    /\ UNCHANGED <<current, slice, needResched, sleepQ, preemptVars, cpuVars,
                   pc, irq>>

\* Fault: a sleep of zero ticks is not queued.
SleepTicksNotQueued(n) ==
    /\ InTaskCode("run") /\ cpu # Idle /\ preemptCount = 0
    /\ state' = [state EXCEPT ![current] = "Sleeping"]
    /\ sleepQ' = IF n = 0 THEN sleepQ
                 ELSE Append(sleepQ, [left |-> n, task |-> current])
    /\ Goto("sched")
    /\ UNCHANGED <<ready, current, slice, needResched, blocked, preemptVars,
                   cpuVars, irq>>

\* sleep_ticks -> sleep_task, then schedule().
SleepTicks(n) ==
    /\ InTaskCode("run") /\ cpu # Idle /\ preemptCount = 0
    /\ state' = [state EXCEPT ![current] = "Sleeping"]
    /\ sleepQ' = Append(sleepQ, [left |-> n, task |-> current])
    /\ Goto("sched")
    /\ UNCHANGED <<ready, current, slice, needResched, blocked, preemptVars,
                   cpuVars, irq>>

\* Fault: exit_task leaves the task Running.
ExitKeepsState ==
    /\ InTaskCode("run") /\ cpu \notin {Idle, Boot} /\ preemptCount = 0
    /\ Goto("exit")
    /\ UNCHANGED <<schedVars, listVars, preemptVars, cpuVars, irq>>

\* exit_current -> exit_task, then schedule().  The boot task never exits.
ExitCurrent ==
    /\ InTaskCode("run") /\ cpu \notin {Idle, Boot} /\ preemptCount = 0
    /\ state' = [state EXCEPT ![current] = "Terminated"]
    /\ Goto("exit")
    /\ UNCHANGED <<ready, current, slice, needResched, listVars, preemptVars,
                   cpuVars, irq>>

\* The schedule() at the end of block, sleep and exit; what follows it is the
\* task's own code, or the halt loop after exit_current.
TailSchedule ==
    /\ \/ InTaskCode("sched") /\ Goto("run")
       \/ InTaskCode("exit") /\ Goto("halt")
    /\ Schedule
    /\ UNCHANGED <<listVars, preemptCount, cpu, saved, irq>>

\* preempt_disable.
PreemptDisable ==
    /\ InTaskCode("run") /\ cpu # Idle
    /\ preemptCount < MaxNesting
    /\ preemptCount' = preemptCount + 1
    /\ UNCHANGED <<schedVars, listVars, preemptPending, cpuVars, pc, irq>>

\* preempt_enable: the fetch_sub ...
PreemptEnable ==
    /\ InTaskCode("run") /\ cpu # Idle
    /\ preemptCount > 0
    /\ preemptCount' = preemptCount - 1
    /\ IF preemptCount = 1 THEN Goto("enable") ELSE UNCHANGED pc
    /\ UNCHANGED <<schedVars, listVars, preemptPending, cpuVars, irq>>

\* Fault: a load instead of the swap.
PreemptEnableCheckLoad ==
    /\ InTaskCode("enable")
    /\ Goto("run")
    /\ IF preemptPending
       THEN PrepareSwitch /\ UNCHANGED preemptPending
       ELSE UNCHANGED <<schedVars, sw, winTicks, preemptPending>>
    /\ UNCHANGED <<listVars, preemptCount, cpu, saved, irq>>

\* ... and, when it reached zero, the swap of PREEMPT_PENDING.  PREEMPT_COUNT is
\* 0 in this schedule(): the CPU stays with a task that has raised it.
PreemptEnableCheck ==
    /\ InTaskCode("enable")
    /\ Goto("run")
    /\ IF preemptPending
       THEN PrepareSwitch /\ preemptPending' = FALSE
       ELSE UNCHANGED <<schedVars, sw, winTicks, preemptPending>>
    /\ UNCHANGED <<listVars, preemptCount, cpu, saved, irq>>

\* Fault: the two contexts are swapped.
SwitchContextSwapped ==
    /\ irq = "no" /\ sw[cpu] # <<>>
    /\ LET s == Last(sw[cpu]) IN
        /\ saved' = [saved EXCEPT ![s.next] = cpu]
        /\ cpu' = saved[s.next]
    /\ sw' = [sw EXCEPT ![cpu] = Front(@)]
    /\ UNCHANGED <<schedVars, listVars, preemptVars, winTicks, pc, irq>>

\* switch_context: save the executing registers in prev, load next's.
SwitchContext ==
    /\ irq = "no" /\ sw[cpu] # <<>>
    /\ LET s == Last(sw[cpu]) IN
        /\ saved' = [saved EXCEPT ![s.prev] = cpu]
        /\ cpu' = saved'[s.next]
    /\ sw' = [sw EXCEPT ![cpu] = Front(@)]
    /\ UNCHANGED <<schedVars, listVars, preemptVars, winTicks, pc, irq>>

-----------------------------------------------------------------------------
(* The timer interrupt: timer_tick and Scheduler::timer_tick *)

\* One tick less, never below 0.
Decrement(n) == IF n > 0 THEN n - 1 ELSE 0

Aged == [i \in DOMAIN sleepQ |-> [sleepQ[i] EXCEPT !.left = Decrement(@)]]

\* wake_at <= ticks.
Due(entry) == entry.left = 0

\* BOOT_TICKS advances and try_lock succeeds.
TimerTick ==
    /\ irq = "no"
    /\ IF sw[cpu] = <<>>
       THEN UNCHANGED winTicks
       ELSE /\ ~Last(sw[cpu]).masked
            /\ winTicks < MaxWindowTicks
            /\ winTicks' = winTicks + 1
    /\ sleepQ' = Aged
    /\ irq' = "wake"
    /\ UNCHANGED <<schedVars, blocked, preemptVars, cpu, sw, saved, pc>>

\* The interrupted code holds SCHEDULER: the rest of the tick is skipped.
TimerTickSkipped ==
    /\ irq = "no" /\ sw[cpu] = <<>> /\ cpu # Idle
    /\ Aged # sleepQ
    /\ sleepQ' = Aged
    /\ UNCHANGED <<schedVars, blocked, preemptVars, cpuVars, pc, irq>>

\* One turn of the loop over sleep_queue: the first task that is due wakes.
WakeDue ==
    /\ irq = "wake"
    /\ \E i \in 1..Len(sleepQ) :
        LET t == sleepQ[i].task IN
        /\ Due(sleepQ[i])
        /\ \A j \in 1..(i - 1) : ~Due(sleepQ[j])
        /\ sleepQ' = RemoveAt(sleepQ, i)
        /\ state' = [state EXCEPT ![t] = "Ready"]
        /\ ready' = PushBack(ready, t)
    /\ UNCHANGED <<current, slice, needResched, blocked, preemptVars, cpuVars,
                   pc, irq>>

\* The loop is over: count the slice down.
SliceTick ==
    /\ irq = "wake"
    /\ \A i \in 1..Len(sleepQ) : ~Due(sleepQ[i])
    /\ slice' = Decrement(slice)
    /\ needResched' = (needResched \/ slice' = 0)
    /\ irq' = IF needResched' THEN "sched" ELSE "no"
    /\ UNCHANGED <<ready, state, current, listVars, preemptVars, cpuVars, pc>>

\* The handler's schedule().
IrqSchedule ==
    /\ irq = "sched"
    /\ irq' = "no"
    /\ Schedule
    /\ UNCHANGED <<listVars, preemptCount, cpu, saved, pc>>

-----------------------------------------------------------------------------
Next ==
    \/ \E t \in Tasks : Spawn(t) \/ Unblock(t)
    \/ \E n \in 0..MaxSleep : SleepTicks(n)
    \/ YieldNow \/ BlockCurrent \/ ExitCurrent \/ TailSchedule
    \/ PreemptDisable \/ PreemptEnable \/ PreemptEnableCheck
    \/ SwitchContext
    \/ TimerTick \/ TimerTickSkipped \/ WakeDue \/ SliceTick \/ IrqSchedule

Spec == Init /\ [][Next]_vars

\* The APIC timer is periodic, and between two interrupts the CPU executes the
\* interrupted code, so an operation that has begun (a section with preemption
\* disabled included) is completed however often the timer fires: strong
\* fairness.  Nothing obliges a task to begin an operation.
Fairness ==
    /\ WF_vars(TimerTick) /\ WF_vars(WakeDue) /\ WF_vars(SliceTick)
    /\ WF_vars(IrqSchedule)
    /\ SF_vars(SwitchContext) /\ SF_vars(TailSchedule)
    /\ SF_vars(PreemptEnable) /\ SF_vars(PreemptEnableCheck)

FairSpec == Spec /\ Fairness

-----------------------------------------------------------------------------
(* Properties *)

\* The types of the scheduler's state (struct Scheduler and its statics).
TypeOK ==
    /\ state \in [Tasks -> States]
    /\ ready \in [Levels -> Seq(Tasks)]
    /\ current \in Tasks
    /\ blocked \in Seq(Tasks)
    /\ sleepQ \in Seq([left : Nat, task : Tasks])
    /\ slice \in 0..TimeSlice
    /\ needResched \in BOOLEAN
    /\ preemptCount \in Nat
    /\ preemptPending \in BOOLEAN
    /\ pc \in [Tasks -> {"run", "sched", "exit", "enable", "halt"}]
    /\ irq \in {"no", "wake", "sched"}
    /\ cpu \in Tasks
    /\ sw \in [Tasks -> Seq(Switches)]
    /\ saved \in [Tasks -> Tasks]
    /\ winTicks \in 0..MaxWindowTicks

InState(st) == {t \in Tasks : state[t] = st}
Sleepers == [i \in DOMAIN sleepQ |-> sleepQ[i].task]

\* Every task is where its state says, once, and nowhere else: a ready task
\* in the queue of its own priority, a blocked or sleeping one in its list, a
\* new or terminated one in none of them, and only current_task is Running
\* (the queues hold Arcs to the same task; nothing ties them to TaskState).
Placement ==
    /\ \A p \in Levels :
        /\ IsInjective(ready[p])
        /\ Range(ready[p]) = {t \in InState("Ready") : Prio[t] = p}
    /\ IsInjective(blocked) /\ Range(blocked) = InState("Blocked")
    /\ IsInjective(Sleepers) /\ Range(Sleepers) = InState("Sleeping")
    /\ InState("Running") \subseteq {current}

\* switch_context always saves a task's registers in that task's own context
\* and resumes the task that schedule() chose: outside a pending switch the
\* CPU executes current_task, and every other task's context is its own, even
\* when the timer fires between schedule()'s unlock and switch_context().
ContextIntegrity ==
    /\ sw[cpu] = <<>> => cpu = current
    /\ \A t \in Tasks \ {cpu} : saved[t] = t /\ sw[t] = <<>>

\* The idle task can always be chosen, so schedule() always leaves a task
\* that has blocked, gone to sleep or exited.
IdleAvailable == current = Idle \/ Idle \in Range(ready[Prio[Idle]])

\* A task that executes its own code between operations is Running: no task
\* goes on after schedule() while it is queued, blocked, asleep or dead.
ExecutingIsRunning ==
    InTaskCode("run") \/ InTaskCode("enable") => state[cpu] = "Running"

\* The halt loop after exit_current is never reached.
NeverHalts == ~InTaskCode("halt")

\* A terminated task never gets the CPU back (exit_current's callers rely on
\* it: they halt if schedule() returns).
TerminatedIsFinal ==
    [][\A t \in Tasks : state[t] = "Terminated" =>
            state'[t] = "Terminated" /\ (cpu # t => cpu' # t)]_vars

\* Between preempt_disable and preempt_enable the CPU stays with the task
\* ("schedule() will record a pending request but not perform the switch").
NoSwitchWhenDisabled == [][preemptCount > 0 => cpu' = cpu]_vars

\* A request recorded while preemption was disabled is not forgotten: as long
\* as PREEMPT_PENDING is set there is a preempt_enable still to come that will
\* look at it, even when the timer fires between its fetch_sub and its swap.
PendingHasOwner ==
    preemptPending => preemptCount > 0 \/ \E t \in Tasks : pc[t] = "enable"

\* Round robin within the highest level: a ready task of that level runs.
TopLevelRuns ==
    \A t \in Tasks : Prio[t] = MaxLevel =>
        (state[t] = "Ready" ~> state[t] = "Running")

\* Every sleep ends.
SleepersWake == \A t \in Tasks : state[t] = "Sleeping" ~> state[t] = "Ready"
=============================================================================
