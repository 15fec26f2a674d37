---------------------------- MODULE KernelEntry ----------------------------
(***************************************************************************)
(* Crossing between ring 3 and ring 0 on the single CPU: the SYSCALL entry *)
(* and exit of scheduler/userspace.rs, the trampolines of                  *)
(* scheduler/task.rs, the timer and fault handlers of interrupts/mod.rs,   *)
(* and what schedule() switches.  Modelled are the registers and per-CPU   *)
(* words those paths share between tasks: GS_BASE and KERNEL_GS_BASE,      *)
(* RFLAGS.IF (switch_context does not save it), gs:[8], the                *)
(* SYSCALL_SAVED_USER_* and EXECVE_* statics.  Left out is what schedule() *)
(* sets to next's value on every switch and nothing else reads or writes:  *)
(* CR3, TSS.RSP0, gs:[0] and gs:[16].                                      *)
(*                                                                         *)
(* Which task schedule() picks is the business of module Scheduler; here   *)
(* it is any task that could be runnable.                                  *)
(***************************************************************************)
EXTENDS Naturals, Sequences

CONSTANTS
    Users,           \* tasks that run in ring 3
    Kernels,         \* kernel tasks
    Boot,            \* the kernel task that boots, and the first user task
    First,
    None,
    GeneralFaults,   \* does ring-3 code raise #GP?
    LeaveInterrupts  \* can the timer fire between swapgs and iretq/sysretq?

Tasks == Users \cup Kernels

ASSUME EntryAssumption ==
    /\ Boot \in Kernels /\ First \in Users /\ Users \cap Kernels = {}
    /\ None \notin Tasks
    /\ GeneralFaults \in BOOLEAN /\ LeaveInterrupts \in BOOLEAN

VARIABLES
    cpu,      \* the executing task
    stage,    \* stage[t]: where the code of t is ("none": not created)
    nested,   \* nested[t]: t is in a timer handler entered from ring 0
    gs,       \* "kernel" when GS_BASE is the per-CPU block, else "user"
    intr,     \* RFLAGS.IF
    rsp,      \* rsp[u]: the task whose user stack u's RSP points into
    scratch,  \* gs:[8], user_rsp_scratch, as the task whose RSP it holds
    saved,    \* SYSCALL_SAVED_USER_*: the task whose frame they describe
    pending,  \* EXECVE_PENDING: the task whose new image EXECVE_NEW_* describe
    args,     \* the registers ring3_syscall_dispatch is called with
    skewed    \* history: one of the two steps that upset the GS bases was taken

vars == <<cpu, stage, nested, gs, intr, rsp, scratch, saved, pending,
          args, skewed>>

Registers == {"rax", "rdi", "rsi", "rdx", "rcx", "r8", "r9", "r10"}

Init ==
    /\ cpu = Boot
    /\ stage = [t \in Tasks |-> CASE t = Boot -> "kern"
                                  [] t = First -> "new"
                                  [] t \in Users \ {First} -> "none"
                                  [] OTHER -> "fresh"]
    /\ nested = [t \in Tasks |-> FALSE]
    /\ gs = "user"
    /\ intr = TRUE
    /\ rsp = [u \in Users |-> u]
    /\ scratch = None /\ saved = None /\ pending = None
    /\ args = [r \in Registers |-> r]
    /\ skewed = FALSE

-----------------------------------------------------------------------------
Swapgs(g) == IF g = "user" THEN "kernel" ELSE "user"

\* One mov between registers of the file rf.
Mov(rf, dst, src) == [rf EXCEPT ![dst] = rf[src]]

\* Step 6 of ring3_syscall_entry: the System V argument registers.
ShuffleArgs(rf) ==
    Mov(Mov(Mov(Mov(Mov(Mov(rf, "r9", "r8"), "r8", "r10"), "rcx", "rdx"),
                "rdx", "rsi"), "rsi", "rdi"), "rdi", "rax")

\* Step 5 stores the user frame in statics, with r8 and r9 as temporaries.
EntryArgs ==
    ShuffleArgs([r \in Registers |-> IF r = "r8" THEN "static"
                                     ELSE IF r = "r9" THEN "static" ELSE r])

Runnable(t) == stage[t] \notin {"none", "dead"}

\* schedule() with a task to switch to; IF and the GS bases stay as they are.
Switch(next) ==
    /\ next # cpu /\ Runnable(next)
    /\ cpu' = next
    /\ UNCHANGED <<nested, gs, intr, rsp, scratch, saved, pending, args, skewed>>

At(where) == stage[cpu] = where /\ ~nested[cpu]
Goto(where) == stage' = [stage EXCEPT ![cpu] = where]

-----------------------------------------------------------------------------
(* Kernel tasks and the first entry to ring 3 *)

\* Fault: the entry function relies on the IF it finds.
KernelStartKeepsIf ==
    /\ At("fresh")
    /\ Goto("kern")
    /\ UNCHANGED <<cpu, nested, gs, intr, rsp, scratch, saved, pending, args,
                   skewed>>

\* A kernel task's entry function begins with sti.
KernelStart ==
    /\ At("fresh")
    /\ Goto("kern")
    /\ intr' = TRUE
    /\ UNCHANGED <<cpu, nested, gs, rsp, scratch, saved, pending, args,
                   skewed>>

\* A kernel task calls exit_current, with interrupts enabled.
KernelExit(next) ==
    /\ At("kern") /\ cpu # Boot
    /\ Goto("dead")
    /\ Switch(next)

\* user_process_entry_trampoline, fork_child_trampoline and
\* clone_thread_trampoline: sti ...
TrampolineSti ==
    /\ At("new")
    /\ Goto("entering")
    /\ intr' = TRUE
    /\ UNCHANGED <<cpu, nested, gs, rsp, scratch, saved, pending, args, skewed>>

\* Fault: the trampoline takes the GS bases as they are.
TrampolineKeepsGs ==
    /\ At("entering")
    /\ Goto("leaving")
    /\ UNCHANGED <<cpu, nested, gs, intr, rsp, scratch, saved, pending, args,
                   skewed>>

\* ... then swapgs if KERNEL_GS_BASE is 0.
Trampoline ==
    /\ At("entering")
    /\ Goto("leaving")
    /\ gs' = IF gs = "kernel" THEN Swapgs(gs) ELSE gs
    /\ UNCHANGED <<cpu, nested, intr, rsp, scratch, saved, pending, args,
                   skewed>>

\* The iretq or sysretq at the end; the RFLAGS it restores have IF set.
ReturnToUser ==
    /\ At("leaving")
    /\ Goto("user")
    /\ intr' = TRUE
    /\ UNCHANGED <<cpu, nested, gs, rsp, scratch, saved, pending, args,
                   skewed>>

-----------------------------------------------------------------------------
(* System calls *)

\* SFMASK clears IF on SYSCALL.
Masked == FALSE

\* ring3_syscall_entry up to the call of the dispatcher.
SyscallEntry ==
    /\ At("user") /\ gs = "user"
    /\ Goto("sys")
    /\ gs' = Swapgs(gs)
    /\ intr' = Masked
    /\ scratch' = rsp[cpu]
    /\ saved' = cpu
    /\ args' = EntryArgs
    /\ UNCHANGED <<cpu, nested, rsp, pending, skewed>>

\* sched_yield, FUTEX_WAIT: schedule() inside the system call.
SyscallSwitch(next) ==
    /\ At("sys")
    /\ Goto("resumed")
    /\ Switch(next)

\* exit, exit_group -> exit_current.
SyscallExit(next) ==
    /\ At("sys")
    /\ Goto("dead")
    /\ Switch(next)

\* handle_fork: the child starts from the saved frame.
HandleFork(child) ==
    /\ At("sys")
    /\ stage[child] = "none"
    /\ stage' = [stage EXCEPT ![child] = "new"]
    /\ rsp' = [rsp EXCEPT ![child] = IF saved = cpu THEN child ELSE saved]
    /\ UNCHANGED <<cpu, nested, gs, intr, scratch, saved, pending,
                   args, skewed>>

\* handle_execve, successful: set_execve_context.
HandleExecve ==
    /\ At("sys")
    /\ Goto("exec")
    /\ pending' = cpu
    /\ UNCHANGED <<cpu, nested, gs, intr, rsp, scratch, saved, args,
                   skewed>>

\* Fault: EXECVE_PENDING is not cleared.
PendingKept == pending

\* The epilogue: with EXECVE_PENDING the new image's stack, else gs:[8].
ReturnRsp == IF pending = None THEN scratch ELSE pending
PendingAfter == None

SyscallReturn ==
    /\ (At("sys") \/ At("resumed") \/ At("exec")) /\ gs = "kernel"
    /\ Goto("leaving")
    /\ gs' = Swapgs(gs)
    /\ rsp' = [rsp EXCEPT ![cpu] = ReturnRsp]
    /\ pending' = PendingAfter
    /\ UNCHANGED <<cpu, nested, intr, scratch, saved, args, skewed>>

-----------------------------------------------------------------------------
(* Interrupts and faults *)

\* The timer interrupts ring 3: timer_interrupt_handler swaps GS.
TimerFromUser ==
    /\ At("user") /\ intr
    /\ Goto("irq")
    /\ gs' = Swapgs(gs)
    /\ intr' = FALSE
    /\ UNCHANGED <<cpu, nested, rsp, scratch, saved, pending, args,
                   skewed>>

\* The timer interrupts ring 0: GS is left alone.  Handlers nest once.
TimerFromKernel ==
    /\ ~At("user") /\ ~nested[cpu] /\ intr
    /\ stage[cpu] = "leaving" => LeaveInterrupts
    /\ nested' = [nested EXCEPT ![cpu] = TRUE]
    /\ intr' = FALSE
    /\ skewed' = (skewed \/ stage[cpu] = "leaving")
    /\ UNCHANGED <<cpu, stage, gs, rsp, scratch, saved, pending, args>>

\* scheduler::timer_tick -> schedule().
TimerSwitch(next) ==
    /\ At("irq") \/ nested[cpu]
    /\ Switch(next)
    /\ UNCHANGED stage

\* The end of the handler.
TimerReturn ==
    /\ IF nested[cpu]
       THEN /\ nested' = [nested EXCEPT ![cpu] = FALSE]
            /\ intr' = TRUE
            /\ UNCHANGED <<stage, gs>>
       ELSE /\ At("irq")
            /\ Goto("leaving")
            /\ gs' = Swapgs(gs)
            /\ UNCHANGED <<nested, intr>>
    /\ UNCHANGED <<cpu, rsp, scratch, saved, pending, args, skewed>>

\* page_fault_handler from ring 3: swapgs; a copy-on-write fault is resolved
\* and control returns, anything else ends the task.
CowFault ==
    /\ At("user")
    /\ Goto("leaving")
    /\ gs' = Swapgs(Swapgs(gs))
    /\ intr' = FALSE
    /\ UNCHANGED <<cpu, nested, rsp, scratch, saved, pending, args,
                   skewed>>

PageFaultKill(next) ==
    /\ At("user")
    /\ Goto("dead")
    /\ next # cpu /\ Runnable(next)
    /\ cpu' = next
    /\ gs' = Swapgs(gs)
    /\ intr' = FALSE
    /\ UNCHANGED <<nested, rsp, scratch, saved, pending, args, skewed>>

\* general_protection_fault_handler from ring 3: exit_current.
GeneralFaultKill(next) ==
    /\ GeneralFaults
    /\ At("user")
    /\ Goto("dead")
    /\ next # cpu /\ Runnable(next)
    /\ cpu' = next
    /\ intr' = FALSE
    /\ skewed' = TRUE
    /\ UNCHANGED <<nested, gs, rsp, scratch, saved, pending, args>>

-----------------------------------------------------------------------------
Next ==
    \/ KernelStart \/ TrampolineSti \/ Trampoline \/ ReturnToUser
    \/ SyscallEntry \/ HandleExecve \/ SyscallReturn
    \/ TimerFromUser \/ TimerFromKernel \/ TimerReturn \/ CowFault
    \/ \E child \in Users : HandleFork(child)
    \/ \E next \in Tasks : \/ KernelExit(next) \/ SyscallSwitch(next)
                           \/ SyscallExit(next) \/ TimerSwitch(next)
                           \/ PageFaultKill(next) \/ GeneralFaultKill(next)

Spec == Init /\ [][Next]_vars

-----------------------------------------------------------------------------
(* Properties *)

\* swapgs is always paired: ring-3 code runs with the user's GS, and the kernel
\* code of a task that came from ring 3 runs with the per-CPU block in GS,
\* whatever ran in between ("the GS state stays consistent after context
\* switches", timer_interrupt_handler).
GsConsistent ==
    /\ stage[cpu] = "user" => gs = "user"
    /\ stage[cpu] \in {"sys", "resumed", "exec", "irq"} => gs = "kernel"

\* Two things upset the pairing of swapgs and nothing else does: a general
\* protection fault in ring 3 (its handler kills the process without swapgs)
\* and a timer interrupt between the last swapgs and the iretq or sysretq (in a
\* trampoline, or in a system call that was resumed with IF set).
GsKept == ~skewed => GsConsistent

\* switch_context does not save RFLAGS.IF, so a task goes on with the flag of
\* whoever switched to it ("we were switched-to from an interrupt context where
\* IF was cleared by the CPU", task_a_entry).  The code of kernel tasks and ring
\* 3 still always run with interrupts enabled: the timer can take the CPU away.
TimerCanPreempt == At("kern") \/ At("user") => intr

\* What a system call finds of itself is its own.  The saved frame that fork and
\* clone read is the caller's, because nothing runs between the entry and the
\* first schedule(); EXECVE_PENDING redirects the task that called execve and no
\* other; number and first four arguments reach the dispatcher as passed (the
\* fifth does not: step 5 has overwritten r8).
SyscallStateIsOwn ==
    /\ At("sys") => saved = cpu /\ ~intr
    /\ pending # None => pending = cpu /\ stage[cpu] = "exec"
    /\ stage[cpu] = "sys" => /\ args["rdi"] = "rax" /\ args["rsi"] = "rdi"
                             /\ args["rdx"] = "rsi" /\ args["rcx"] = "rdx"
                             /\ args["r8"] = "r10"

\* "Restore user RSP from per-CPU scratch": a system call returns on the stack
\* it was made from.
ReturnsOnOwnStack == \A u \in Users : rsp[u] = u
=============================================================================
