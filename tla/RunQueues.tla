------------------------------ MODULE RunQueues ------------------------------
(***************************************************************************)
(* The run queues of RoundRobinScheduler (nexacore-kernel/src/             *)
(* scheduling.rs) and the thermal fairness cycles of thermal.rs: which     *)
(* task pick_next takes, for every content of the queues, position in the  *)
(* cycle and thermal band.                                                 *)
(*                                                                         *)
(* Priority classes are the integers of the #[repr(u8)] enum.  The u64     *)
(* pick_counter is kept modulo 8: 2^64 is a multiple of the cycle length,  *)
(* so wrapping_add and the modulo commute.                                 *)
(***************************************************************************)
EXTENDS Integers, Sequences

CONSTANTS
    Tasks,          \* tasks with a TCB
    PriorityOf      \* TaskControlBlock.priority

VARIABLES
    run_queues,     \* one FIFO of task ids per class
    pick_counter,   \* picks not taken by the RealTime bypass, modulo 8
    thermal         \* the band set_cpu_temperature computed last

rqvars == <<run_queues, pick_counter, thermal>>

System == 0
RealTime == 1
Interactive == 2
AiInference == 3
Background == 4
Idle == 5
Classes == 0 .. 5
NoClass == -1       \* None in a cycle: strict priority order

Levels == {"Normal", "Warm", "Hot", "Critical"}
FAIRNESS_LEN == 8

ASSUME PriorityAssumption == PriorityOf \in [Tasks -> Classes]

FAIRNESS_CYCLE ==
    <<NoClass, NoClass, Interactive, NoClass,
      AiInference, Interactive, NoClass, Background>>

\* thermal_level, in degrees
thermal_level(celsius) ==
    IF celsius >= 95 THEN "Critical"
    ELSE IF celsius >= 85 THEN "Hot"
    ELSE IF celsius >= 70 THEN "Warm"
    ELSE "Normal"

\* Mutant: a warm CPU takes an Interactive slot for inference.
FairnessCycleFor_TakesInteractive(level) ==
    IF level = "Normal" THEN FAIRNESS_CYCLE
    ELSE [FAIRNESS_CYCLE EXCEPT ![6] = AiInference]

\* Mutant: the cool cycle gives the Background slot away as well.
FairnessCycleFor_NoBackground(level) ==
    [FAIRNESS_CYCLE EXCEPT ![8] = AiInference]

\* fairness_cycle_for: warmer bands turn Background and None slots into
\* AiInference slots, never an Interactive one.
FairnessCycleFor(level) ==
    CASE level = "Normal" -> FAIRNESS_CYCLE
      [] level = "Warm"   -> [FAIRNESS_CYCLE EXCEPT ![8] = AiInference]
      [] OTHER            -> [FAIRNESS_CYCLE EXCEPT ![2] = AiInference,
                                                    ![8] = AiInference]

----------------------------------------------------------------------------
(* pick_next as a function of the queues rq it finds, for callers that     *)
(* push a task first.                                                      *)

NonEmpty(rq) == {c \in Classes : rq[c] # <<>>}

\* The scan `for queue in &mut self.run_queues'.
StrictClass(rq) ==
    CHOOSE c \in NonEmpty(rq) : \A d \in NonEmpty(rq) : c <= d

Preferred == FairnessCycleFor(thermal)[pick_counter + 1]

\* Mutant: strict priority without the cycle.
PickClass_Strict(rq) ==
    IF NonEmpty(rq) = {} THEN NoClass ELSE StrictClass(rq)

\* The queue pick_next takes from, or NoClass when it returns None.
PickClass(rq) ==
    IF RealTime \in NonEmpty(rq) THEN RealTime
    ELSE IF Preferred \in NonEmpty(rq) THEN Preferred
    ELSE IF NonEmpty(rq) = {} THEN NoClass
    ELSE StrictClass(rq)

\* Mutant: the bypass advances the rotation.
AdvanceCounter_Always(rq) ==
    pick_counter' = (pick_counter + 1) % FAIRNESS_LEN

\* The RealTime bypass returns before the counter moves; None advances it.
AdvanceCounter(rq) ==
    pick_counter' = IF RealTime \in NonEmpty(rq) THEN pick_counter
                    ELSE (pick_counter + 1) % FAIRNESS_LEN

TakeFrom(rq, c) ==
    IF c = NoClass THEN rq ELSE [rq EXCEPT ![c] = Tail(@)]

PushTask(rq, t) == [rq EXCEPT ![PriorityOf[t]] = Append(@, t)]

\* dequeue: `queue.retain(|&id| id != task)' on every queue.
Without(queue, t) == SelectSeq(queue, LAMBDA u : u # t)

RemoveTask(rq, t) ==
    [c \in Classes |-> IF \E i \in 1 .. Len(rq[c]) : rq[c][i] = t
                         THEN Without(rq[c], t) ELSE rq[c]]

Queued(t) == \E c \in Classes : \E i \in 1 .. Len(run_queues[c]) :
                run_queues[c][i] = t

RunQueuesInit ==
    /\ run_queues = [c \in Classes |-> <<>>]
    /\ pick_counter = 0
    /\ thermal = "Normal"

RunQueuesType ==
    /\ run_queues \in [Classes -> Seq(Tasks)]
    /\ pick_counter \in 0 .. FAIRNESS_LEN - 1
    /\ thermal \in Levels
=============================================================================
