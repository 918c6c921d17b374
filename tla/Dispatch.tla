------------------------------ MODULE Dispatch -------------------------------
(***************************************************************************)
(* Who runs on the boot processor: yield_current and its callers (the      *)
(* LAPIC timer tail, the syscalls, kmain), with the recursion guard        *)
(* PerCpu::in_scheduler and the cross-CPU SCHED_LOCK.                      *)
(*                                                                         *)
(* The timer tail takes both guards, calls yield_current and releases them *)
(* when yield_current returns, which is when the preempted task runs       *)
(* again: until then whoever runs inherits the guards.                     *)
(*                                                                         *)
(* context_switch leaves the interrupt flag alone, so a task that called   *)
(* yield_current goes on with the flag of whoever switched to it.  Kmain   *)
(* runs with interrupts on until another task switches to it; a syscall    *)
(* runs with them off, and is one step, unless its handler is resumed by   *)
(* such a kmain (`loose').  yield_current takes neither guard, so with     *)
(* interrupts on it is two steps, and a tick may land between them.        *)
(*                                                                         *)
(* `current' is what the scheduler believes, `cpu' what really executes.   *)
(* Two interleavings break the scheduler: a tick inside an unmasked        *)
(* yield_current, and a pick of a process that kmain has registered and    *)
(* not attached yet.  `torn' records them; what follows is not modelled.   *)
(***************************************************************************)
EXTENDS RunQueues, FiniteSets

CONSTANTS
    Users,          \* user processes that may be spawned
    Kmain,          \* the bootstrap task
    IdleTask,       \* the idle task, spawned before kmain registers itself
    ApPresent       \* whether an application processor takes timer ticks

ASSUME DispatchAssumption ==
    /\ Tasks = Users \cup {Kmain, IdleTask}
    /\ Kmain \notin Users /\ IdleTask \notin Users /\ Kmain # IdleTask
    /\ PriorityOf[Kmain] = System /\ PriorityOf[IdleTask] = Idle
    /\ \A u \in Users : PriorityOf[u] # Idle
    /\ ApPresent \in BOOLEAN

VARIABLES
    tstate,         \* TaskControlBlock.state; "Absent" before the task exists
    context,        \* what context.rsp leads to: "none" is 0, "fresh" the
                    \* entry trampoline, "timer" the tail of a tick,
                    \* "call" a syscall or kmain's pump
    processes,      \* tasks that have a process control block
    current,        \* RoundRobinScheduler.current
    cpu,            \* the task whose code the boot processor executes
    loose,          \* tasks whose kernel code runs with interrupts on
    yielding,       \* the running task is between the halves of a yield
    in_scheduler,   \* the recursion guard of the boot processor
    sched_lock,     \* SCHED_LOCK
    ap,             \* the application processor: "out" or "in" the lock
    kmain,          \* where kmain is: "boot", "registered" (between the two
                    \* halves of a spawn) or "pump"
    torn            \* history: the scheduler was entered twice or lost a task

tvars == <<tstate, context, processes>>
cvars == <<current, cpu, loose, yielding, torn>>
lvars == <<in_scheduler, sched_lock>>
dvars == <<run_queues, pick_counter, thermal, tstate, context, processes,
           current, cpu, loose, yielding, torn, in_scheduler, sched_lock,
           ap, kmain>>

Init ==
    /\ run_queues = [c \in Classes |-> IF c = Idle THEN <<IdleTask>> ELSE <<>>]
    /\ pick_counter = 0
    /\ thermal = "Normal"
    /\ tstate = [t \in Tasks |-> IF t = Kmain THEN "Running"
                                 ELSE IF t = IdleTask THEN "Runnable"
                                 ELSE "Absent"]
    /\ context = [t \in Tasks |-> IF t = IdleTask THEN "fresh" ELSE "none"]
    /\ processes = {}
    /\ current = Kmain
    /\ cpu = Kmain
    /\ loose = {Kmain}
    /\ yielding = FALSE
    /\ torn = FALSE
    /\ in_scheduler = FALSE
    /\ sched_lock = FALSE
    /\ ap = "out"
    /\ kmain = "boot"

----------------------------------------------------------------------------
(* yield_current.                                                          *)

\* Mutant: the task is queued whatever its new state.
Requeue_Always(rq, t, s) == PushTask(rq, t)

Requeue(rq, t, s) == IF s = "Runnable" THEN PushTask(rq, t) ELSE rq

\* A guard after the switch to n: taken by a tick, kept through a call,
\* released by the tail of the tick that n returns to.
HeldAfter(n, how, held) ==
    /\ context[n] # "timer"
    /\ how = "timer" \/ held

\* The task n starts or goes on; t's frame is saved for `how' it left.  A
\* frame of a tick and a first entry set the flag; a call goes on with t's.
SwitchTo(n, t, how) ==
    /\ context' = [context EXCEPT ![t] = how]
    /\ cpu' = n
    /\ loose' = IF how = "timer" THEN loose
                ELSE IF context[n] = "call" /\ t \in loose
                THEN (loose \ {t}) \cup {n} ELSE loose \ {t}
    /\ in_scheduler' = HeldAfter(n, how, in_scheduler)
    /\ sched_lock' = HeldAfter(n, how, sched_lock)

\* rsp = 0 without a PCB: yield_current returns, `current' already moved.
HasFrame(n) == context[n] # "none" \/ n \in processes

\* Everything after the requeue: rq is what pick_next finds.
PickAndSwitch(rq, t, s, how) ==
    LET c == PickClass(rq)
        n == Head(rq[c])
    IN /\ run_queues' = TakeFrom(rq, c)
       /\ AdvanceCounter(rq)
       /\ IF c = NoClass
          THEN /\ tstate' = [tstate EXCEPT ![t] = s]
               /\ UNCHANGED <<context, current, cpu, loose, lvars>>
          ELSE /\ tstate' = [tstate EXCEPT ![t] = s, ![n] = "Running"]
               /\ current' = n
               /\ IF n # t /\ HasFrame(n)
                  THEN SwitchTo(n, t, how)
                  ELSE UNCHANGED <<context, cpu, loose, lvars>>
       /\ torn' = \/ yielding /\ how = "timer"
                  \/ c # NoClass /\ n # t /\ ~HasFrame(n)
       /\ yielding' = FALSE
       /\ UNCHANGED <<thermal, processes>>

yield_current(t, s, how) ==
    PickAndSwitch(Requeue(run_queues, t, s), t, s, how)

----------------------------------------------------------------------------
(* Interrupts.                                                             *)

\* The one code that a tick cannot interrupt for longer than a step: kmain
\* after a task with interrupts off switched to it.
Interruptible == cpu = Kmain => Kmain \in loose

\* Mutant: the tick tests the lock only.
TimerTick_NoGuard ==
    /\ ~torn /\ cpu = current /\ Interruptible
    /\ yield_current(current, "Runnable", "timer")
    /\ UNCHANGED <<ap, kmain>>

\* kernel_lapic_timer_tick and kernel_check_need_resched.  A tick that finds
\* a guard taken gives back what it took and changes nothing.
TimerTick ==
    /\ ~torn /\ cpu = current /\ Interruptible
    /\ ~in_scheduler
    /\ ~sched_lock
    /\ yield_current(current, "Runnable", "timer")
    /\ UNCHANGED <<ap, kmain>>

\* kernel_ap_dispatch_observe: the queue of the application processor is
\* empty once the boot smoke tests are over, so it only takes the lock...
ApEnter ==
    /\ ApPresent
    /\ ap = "out" /\ ~sched_lock
    /\ ap' = "in"
    /\ sched_lock' = TRUE
    /\ UNCHANGED <<rqvars, tvars, cvars, in_scheduler, kmain>>

\* ... and releases it.
ApLeave ==
    /\ ap = "in"
    /\ ap' = "out"
    /\ sched_lock' = FALSE
    /\ UNCHANGED <<rqvars, tvars, cvars, in_scheduler, kmain>>

----------------------------------------------------------------------------
(* Syscalls of the running process u.                                      *)

Runs(t) == ~torn /\ cpu = t /\ current = t

\* A handler from its entry, or resumed, with interrupts off.
InSyscall(u) == u \in Users /\ Runs(u) /\ u \notin loose

TaskYield(u) ==
    /\ InSyscall(u)
    /\ yield_current(u, "Runnable", "call")
    /\ UNCHANGED <<ap, kmain>>

\* park_until_woken.
ParkUntilWoken(u) ==
    /\ InSyscall(u)
    /\ yield_current(u, "BlockedOnIpc", "call")
    /\ UNCHANGED <<ap, kmain>>

\* task_exit: dequeue, then yield_current(Terminated).  That `current' is
\* None in between is seen by nobody.
TaskExit(u) ==
    /\ InSyscall(u)
    /\ PickAndSwitch(RemoveTask(run_queues, u), u, "Terminated", "call")
    /\ UNCHANGED <<ap, kmain>>

\* unpark of a task the IPC registry had on a wait queue, by a handler with
\* interrupts on or off: Ipc shows that such a task is parked.
Unpark(u, w) ==
    /\ u \in Users /\ Runs(u) /\ ~yielding
    /\ w \in Users /\ tstate[w] = "BlockedOnIpc"
    /\ tstate' = [tstate EXCEPT ![w] = "Runnable"]
    /\ run_queues' = PushTask(run_queues, w)
    /\ UNCHANGED <<pick_counter, thermal, context, processes, cvars, lvars,
                   ap, kmain>>

\* register_process: the TCB and the run queue.
RegisterProcess(v) ==
    /\ v \in Users /\ tstate[v] = "Absent"
    /\ tstate' = [tstate EXCEPT ![v] = "Runnable"]
    /\ run_queues' = PushTask(run_queues, v)

\* spawn_from_elf with interrupts off, so in one step: from a syscall
\* (driver_load), or by kmain under IrqRestore::mask (the driver images).
SpawnFromElf(t, v) ==
    /\ InSyscall(t) \/ (t = Kmain /\ Runs(Kmain) /\ kmain = "boot" /\ ~yielding)
    /\ RegisterProcess(v)
    /\ processes' = processes \cup {v}
    /\ UNCHANGED <<pick_counter, thermal, context, cvars, lvars, ap, kmain>>

----------------------------------------------------------------------------
(* Kernel code with interrupts on: kmain, and a handler it resumed.        *)

\* yield_current up to the requeue: a loose handler parks again or yields
\* again, kmain yields in its input pump...
LooseYield(t, s) ==
    /\ Runs(t) /\ t \in loose /\ ~yielding
    /\ s \in IF t = Kmain THEN {"Runnable"} ELSE {"Runnable", "BlockedOnIpc"}
    /\ t = Kmain => kmain # "registered"
    /\ tstate' = [tstate EXCEPT ![t] = s]
    /\ run_queues' = Requeue(run_queues, t, s)
    /\ yielding' = TRUE
    /\ kmain' = IF t = Kmain THEN "pump" ELSE kmain
    /\ UNCHANGED <<pick_counter, thermal, context, processes, current, cpu,
                   loose, torn, lvars, ap>>

\* ... then the pick and the switch.
LooseSwitch(t) ==
    /\ Runs(t) /\ yielding
    /\ PickAndSwitch(run_queues, t, tstate[t], "call")
    /\ UNCHANGED <<ap, kmain>>

\* A loose handler returns to Ring 3.
SyscallReturn(u) ==
    /\ u \in Users \cap loose /\ Runs(u) /\ ~yielding
    /\ loose' = loose \ {u}
    /\ UNCHANGED <<rqvars, tvars, current, cpu, yielding, torn, lvars, ap, kmain>>

\* kmain: spawn_from_elf of a boot image, up to register_process...
KmainRegister(v) ==
    /\ Runs(Kmain) /\ kmain = "boot"
    /\ RegisterProcess(v)
    /\ kmain' = "registered"
    /\ UNCHANGED <<pick_counter, thermal, context, processes, cvars, lvars, ap>>

\* ... and attach_process.
KmainAttach(v) ==
    /\ Runs(Kmain) /\ kmain = "registered"
    /\ v \in Users \ processes /\ tstate[v] # "Absent"
    /\ processes' = processes \cup {v}
    /\ kmain' = "boot"
    /\ UNCHANGED <<rqvars, tstate, context, cvars, lvars, ap>>

\* The pump yields with interrupts off: one step.
KmainYield ==
    /\ Runs(Kmain) /\ Kmain \notin loose
    /\ yield_current(Kmain, "Runnable", "call")
    /\ UNCHANGED <<ap, kmain>>

----------------------------------------------------------------------------
UserStep(u) ==
    \/ TaskYield(u)
    \/ ParkUntilWoken(u)
    \/ TaskExit(u)
    \/ \E w \in Users : Unpark(u, w)
    \/ \E v \in Users : SpawnFromElf(u, v)
    \/ \E s \in {"Runnable", "BlockedOnIpc"} : LooseYield(u, s)
    \/ LooseSwitch(u)
    \/ SyscallReturn(u)

KmainStep ==
    \/ \E v \in Users : KmainRegister(v)
    \/ \E v \in Users : KmainAttach(v)
    \/ \E v \in Users : SpawnFromElf(Kmain, v)
    \/ LooseYield(Kmain, "Runnable")
    \/ LooseSwitch(Kmain)
    \/ KmainYield

\* A torn schedule is not followed.
AfterTorn == torn /\ UNCHANGED dvars

Next ==
    \/ TimerTick
    \/ ApEnter
    \/ ApLeave
    \/ \E u \in Users : UserStep(u)
    \/ KmainStep
    \/ AfterTorn

\* The LAPIC timer is periodic; kmain does not stop inside a spawn or inside
\* the pump.  Nothing is assumed of user processes.
Spec ==
    /\ Init
    /\ [][Next]_dvars
    /\ WF_dvars(TimerTick)
    /\ WF_dvars(kmain # "boot" /\ KmainStep)

----------------------------------------------------------------------------
(* Properties.                                                             *)

TypeOK ==
    /\ RunQueuesType
    /\ tstate \in [Tasks -> {"Absent", "Runnable", "Running", "BlockedOnIpc",
                             "Terminated"}]
    /\ context \in [Tasks -> {"none", "fresh", "timer", "call"}]
    /\ processes \subseteq Users
    /\ current \in Tasks /\ cpu \in Tasks
    /\ loose \subseteq Tasks /\ yielding \in BOOLEAN /\ torn \in BOOLEAN
    /\ in_scheduler \in BOOLEAN /\ sched_lock \in BOOLEAN
    /\ ap \in {"out", "in"}
    /\ kmain \in {"boot", "registered", "pump"}

Places(t) ==
    UNION {{c} \X {i \in 1 .. Len(run_queues[c]) : run_queues[c][i] = t} :
             c \in Classes}

QueuesExactNow ==
    /\ cpu = current
    /\ \A t \in Tasks :
        /\ Cardinality(Places(t)) = IF tstate[t] = "Runnable" THEN 1 ELSE 0
        /\ \A p \in Places(t) : p[1] = PriorityOf[t]
        /\ tstate[t] = "Running" => t = current
        /\ t = current => tstate[t] = "Running" \/ yielding

\* The run queues and the task states tell the same story through every
\* order of ticks, syscalls, wake-ups and spawns: a runnable task has one
\* place, in the queue of its class, any other task has none, and the
\* scheduler's current task is the one that is Running and the one that the
\* processor executes.  Nothing but the two interleavings that `torn' records
\* breaks it: not a tick in a handler that kmain resumed with interrupts on,
\* nor one that preempts kmain between register_process and attach_process
\* as long as the new process is not picked.
RunQueueExact == torn \/ QueuesExactNow

HandoverNow ==
    LET suspended == {t \in Tasks \ {cpu} : context[t] = "timer"}
    IN /\ sched_lock <=> (in_scheduler \/ ap = "in")
       /\ ~(in_scheduler /\ ap = "in")
       /\ in_scheduler <=> suspended # {}
       /\ \A t, u \in suspended : t = u
       /\ \A t \in suspended : tstate[t] = "Runnable"

\* The guards are handed over, never lost or doubled: the boot processor
\* and the application processor never hold the lock together, and the boot
\* processor's guards are held exactly while one task, suspended by a tick
\* and still queued, has them to release.  So a resumed tail never releases
\* a lock of the other processor.  It holds until the schedule is torn.
LockHandover == torn \/ HandoverNow

\* A task the tick may rotate out: somebody who is not idle waits.
Contended(t) ==
    /\ cpu = t
    /\ PriorityOf[t] # RealTime
    /\ \E u \in Tasks \ {t, IdleTask} : Queued(u)

\* With the recursion guard free and the application processor out of the lock
\* for good (its ticks could otherwise coincide with ours for ever), a task that
\* never yields is rotated out while others wait, also when the fairness slots
\* favour its own class for a while, unless the schedule is torn.
TickHandsOver ==
    <>[](ap = "out") /\ []~torn =>
        \A t \in Tasks :
            (Contended(t) /\ ~in_scheduler) ~> (cpu # t \/ ~Contended(t))

\* The same without the conditions on the guards: what `the next tick will
\* retry' promises.
TickPreempts ==
    []~torn => \A t \in Tasks : Contended(t) ~> (cpu # t \/ ~Contended(t))
=============================================================================
