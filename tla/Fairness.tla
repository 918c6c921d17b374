------------------------------ MODULE Fairness -------------------------------
(***************************************************************************)
(* How long a class waits for the CPU under pick_next (ADR-0025 and the    *)
(* thermal cycles of WS1-10), whatever the tasks do: every order of        *)
(* enqueue, pick, exit and temperature change is allowed.                  *)
(*                                                                         *)
(* `waited[c]' is a history variable: how many picks of the rotation went  *)
(* to other classes since the present front of queue c came to the front.  *)
(* Picks taken by the RealTime bypass are not counted, as in the code.     *)
(* Only Background has slots that depend on the thermal band: its count    *)
(* starts afresh when the band changes.                                    *)
(***************************************************************************)
EXTENDS RunQueues, FiniteSets

CONSTANTS
    Temperatures,   \* readings, in degrees, set_cpu_temperature may get
    WaitCap         \* bound: where the history variable stops counting

ASSUME FairnessAssumption ==
    /\ Temperatures \subseteq Int
    /\ WaitCap \in Nat

VARIABLE waited

fvars == <<run_queues, pick_counter, thermal, waited>>

FairnessInit ==
    /\ RunQueuesInit
    /\ waited = [c \in Classes |-> 0]

\* enqueue, and the push of yield_current, register_process and
\* spawn_kernel_task: no check that the task is not queued already; the
\* callers enqueue only tasks that are off the queues (see Dispatch).
Enqueue(t) ==
    /\ ~Queued(t)
    /\ run_queues' = PushTask(run_queues, t)
    /\ UNCHANGED <<pick_counter, thermal, waited>>

\* pick_next.
PickNext ==
    LET c == PickClass(run_queues)
    IN /\ run_queues' = TakeFrom(run_queues, c)
       /\ AdvanceCounter(run_queues)
       /\ waited' = [d \in Classes |->
                       IF c = d \/ run_queues[d] = <<>> THEN 0
                       ELSE IF c = RealTime THEN waited[d]
                       ELSE IF waited[d] < WaitCap THEN waited[d] + 1
                       ELSE waited[d]]
       /\ UNCHANGED thermal

\* dequeue: a task leaves for good; a new front starts to wait afresh.
Dequeue(t) ==
    /\ Queued(t)
    /\ run_queues' = RemoveTask(run_queues, t)
    /\ waited' = [c \in Classes |->
                    IF run_queues[c] # <<>> /\ Head(run_queues[c]) = t
                    THEN 0 ELSE waited[c]]
    /\ UNCHANGED <<pick_counter, thermal>>

SetCpuTemperature(celsius) ==
    /\ thermal' = thermal_level(celsius)
    /\ waited' = IF thermal' = thermal THEN waited
                 ELSE [waited EXCEPT ![Background] = 0]
    /\ UNCHANGED <<run_queues, pick_counter>>

FairnessNext ==
    \/ \E t \in Tasks : Enqueue(t)
    \/ PickNext
    \/ \E t \in Tasks : Dequeue(t)
    \/ \E celsius \in Temperatures : SetCpuTemperature(celsius)

\* Every tick, yield and block calls pick_next: it is called again and again.
FairnessSpec == FairnessInit /\ [][FairnessNext]_fvars /\ WF_fvars(PickNext)

----------------------------------------------------------------------------
(* Properties.                                                             *)

\* The queues hold tasks, the position is one of the cycle's.
FairnessType ==
    /\ RunQueuesType
    /\ waited \in [Classes -> Nat]

\* The wait of each class under contention is bounded, whatever the
\* temperature does and however many RealTime tasks run meanwhile: the
\* front of the System queue is passed over at most twice, of the
\* Interactive queue four times, of the AiInference queue seven times.
WaitBounded ==
    /\ run_queues[System] # <<>> => waited[System] <= 2
    /\ run_queues[Interactive] # <<>> => waited[Interactive] <= 4
    /\ run_queues[AiInference] # <<>> => waited[AiInference] <= 7

\* On a cool CPU Background has its slot too: since the CPU cooled down its
\* front was passed over seven times at most.
BackgroundWaitBounded ==
    thermal = "Normal" /\ run_queues[Background] # <<>> =>
        waited[Background] <= 7

\* No queued task waits for ever behind tasks that keep coming back, once no
\* RealTime task does and, for a Background task, the CPU is cool for good:
\* the warmer cycles have no Background slot.  Idle is promised nothing.
NoStarvation ==
    \A t \in Tasks : PriorityOf[t] \notin {RealTime, Idle} =>
        (<>[](/\ run_queues[RealTime] = <<>>
              /\ PriorityOf[t] = Background => thermal = "Normal")
         => (Queued(t) ~> ~Queued(t)))
=============================================================================
