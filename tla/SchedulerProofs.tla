--------------------------- MODULE SchedulerProofs --------------------------
(* The two specifications over the run queues.  First the dispatcher: run  *)
(* queues, task states and guards agree, for every set of user processes,  *)
(* with and without an application processor, until the schedule is torn.  *)
(* Then the rotation: the wait bounds, for every set of tasks and every    *)
(* sequence of temperatures.                                               *)
EXTENDS Dispatch, Fairness, SequenceTheorems, FiniteSetTheorems, TLAPS

States == {"Absent", "Runnable", "Running", "BlockedOnIpc", "Terminated"}

(* Queues rq list exactly the tasks that st has as Runnable, once each and *)
(* in the queue of their class.                                            *)
Fits(rq, st) ==
    /\ rq \in [Classes -> Seq(Tasks)]
    /\ \A c \in Classes : \A i \in 1 .. Len(rq[c]) :
         PriorityOf[rq[c][i]] = c /\ st[rq[c][i]] = "Runnable"
    /\ \A c \in Classes : \A i, j \in 1 .. Len(rq[c]) : rq[c][i] = rq[c][j] => i = j
    /\ \A t \in Tasks : st[t] = "Runnable" =>
         \E i \in 1 .. Len(rq[PriorityOf[t]]) : rq[PriorityOf[t]][i] = t

----------------------------------------------------------------------------
LEMMA PushFits ==
    ASSUME NEW rq, NEW st \in [Tasks -> States], Fits(rq, st),
           NEW t \in Tasks, st[t] # "Runnable"
    PROVE  Fits(PushTask(rq, t), [st EXCEPT ![t] = "Runnable"])
<1> DEFINE p == PriorityOf[t]
           q == Append(rq[p], t)
           new == PushTask(rq, t)
           su == [st EXCEPT ![t] = "Runnable"]
<1>1. p \in Classes /\ rq[p] \in Seq(Tasks) /\ rq \in [Classes -> Seq(Tasks)]
  BY PriorityAssumption DEF Fits
<1>2. /\ q \in Seq(Tasks) /\ Len(q) = Len(rq[p]) + 1 /\ Len(rq[p]) \in Nat
      /\ q[Len(rq[p]) + 1] = t
      /\ \A i \in 1 .. Len(rq[p]) : q[i] = rq[p][i]
  BY <1>1
<1>3. new[p] = q /\ \A c \in Classes \ {p} : new[c] = rq[c]
  BY <1>1 DEF PushTask
<1>4. new \in [Classes -> Seq(Tasks)]
  BY <1>1, <1>2 DEF PushTask
<1>5. su[t] = "Runnable" /\ \A u \in Tasks \ {t} : su[u] = st[u]
  OBVIOUS
<1>6. \A c \in Classes : \A i \in 1 .. Len(rq[c]) : rq[c][i] \in Tasks /\ rq[c][i] # t
  BY <1>1, ElementOfSeq DEF Fits
<1> HIDE DEF q, new, su
<1>7. \A c \in Classes : \A i \in 1 .. Len(new[c]) :
        PriorityOf[new[c][i]] = c /\ su[new[c][i]] = "Runnable"
  <2> SUFFICES ASSUME NEW c \in Classes, NEW i \in 1 .. Len(new[c])
               PROVE  PriorityOf[new[c][i]] = c /\ su[new[c][i]] = "Runnable"
    OBVIOUS
  <2>1. CASE c # p
    BY <1>3, <1>5, <1>6, <2>1 DEF Fits
  <2>2. CASE c = p /\ i = Len(rq[p]) + 1
    BY <1>2, <1>3, <1>5, <2>2
  <2>3. CASE c = p /\ i \in 1 .. Len(rq[p])
    <3>1. new[c][i] = rq[p][i] /\ rq[p][i] \in Tasks \ {t}
      BY <1>1, <1>2, <1>3, <1>6, <2>3
    <3>2. PriorityOf[rq[p][i]] = p /\ st[rq[p][i]] = "Runnable"
      BY <1>1, <2>3 DEF Fits
    <3> QED BY <1>5, <2>3, <3>1, <3>2
  <2> QED BY <1>2, <1>3, <2>1, <2>2, <2>3
<1>8. \A c \in Classes : \A i, j \in 1 .. Len(new[c]) : new[c][i] = new[c][j] => i = j
  <2> SUFFICES ASSUME NEW c \in Classes, NEW i \in 1 .. Len(new[c]),
                      NEW j \in 1 .. Len(new[c]), new[c][i] = new[c][j]
               PROVE  i = j
    OBVIOUS
  <2>1. CASE c # p
    BY <1>3, <2>1 DEF Fits
  <2>2. CASE c = p
    <3>1. i \in 1 .. Len(rq[p]) \/ i = Len(rq[p]) + 1
      BY <1>2, <1>3, <2>2
    <3>2. j \in 1 .. Len(rq[p]) \/ j = Len(rq[p]) + 1
      BY <1>2, <1>3, <2>2
    <3>3. \A k \in 1 .. Len(rq[p]) : new[p][k] = rq[p][k] /\ rq[p][k] # t
      BY <1>1, <1>2, <1>3, <1>6
    <3>4. new[p][Len(rq[p]) + 1] = t
      BY <1>1, <1>2, <1>3
    <3>5. CASE i \in 1 .. Len(rq[p]) /\ j \in 1 .. Len(rq[p])
      <4>1. rq[p][i] = rq[p][j]
        BY <2>2, <3>3, <3>5
      <4> QED BY <1>1, <3>5, <4>1 DEF Fits
    <3> QED BY <2>2, <3>1, <3>2, <3>3, <3>4, <3>5
  <2> QED BY <2>1, <2>2
<1>9. \A u \in Tasks : su[u] = "Runnable" =>
        \E i \in 1 .. Len(new[PriorityOf[u]]) : new[PriorityOf[u]][i] = u
  <2> SUFFICES ASSUME NEW u \in Tasks, su[u] = "Runnable"
               PROVE  \E i \in 1 .. Len(new[PriorityOf[u]]) : new[PriorityOf[u]][i] = u
    OBVIOUS
  <2>1. CASE u = t
    BY <1>2, <1>3, <2>1
  <2>2. CASE u # t
    <3>1. PICK i \in 1 .. Len(rq[PriorityOf[u]]) : rq[PriorityOf[u]][i] = u
      BY <1>5, <2>2 DEF Fits
    <3>2. PriorityOf[u] \in Classes
      BY PriorityAssumption
    <3>3. i \in 1 .. Len(new[PriorityOf[u]]) /\ new[PriorityOf[u]][i] = u
      BY <1>2, <1>3, <3>1, <3>2
    <3> QED BY <3>3
  <2> QED BY <2>1, <2>2
<1> QED BY <1>4, <1>7, <1>8, <1>9 DEF Fits, new, su

(* The head of a queue starts to run.                                      *)
LEMMA TakeFits ==
    ASSUME NEW rq, NEW st \in [Tasks -> States], Fits(rq, st),
           NEW c \in Classes, rq[c] # <<>>
    PROVE  /\ Head(rq[c]) \in Tasks
           /\ st[Head(rq[c])] = "Runnable"
           /\ Fits(TakeFrom(rq, c), [st EXCEPT ![Head(rq[c])] = "Running"])
<1> DEFINE n == Head(rq[c])
           new == TakeFrom(rq, c)
           su == [st EXCEPT ![n] = "Running"]
           q == Tail(rq[c])
<1>1. rq \in [Classes -> Seq(Tasks)] /\ rq[c] \in Seq(Tasks) /\ c # NoClass
  BY DEF Fits, Classes, NoClass
<1>2. Len(rq[c]) \in Nat /\ Len(rq[c]) >= 1 /\ n = rq[c][1]
  BY <1>1, EmptySeq
<1>3. n \in Tasks /\ st[n] = "Runnable" /\ PriorityOf[n] = c
  BY <1>1, <1>2, ElementOfSeq DEF Fits
<1>4. /\ q \in Seq(Tasks) /\ Len(q) = Len(rq[c]) - 1
      /\ \A i \in 1 .. Len(rq[c]) - 1 : q[i] = rq[c][i + 1]
  BY <1>1, HeadTailProperties
<1>5. /\ new[c] = q /\ \A d \in Classes \ {c} : new[d] = rq[d]
      /\ new \in [Classes -> Seq(Tasks)]
  BY <1>1, <1>4 DEF TakeFrom
<1>6. su[n] = "Running" /\ \A u \in Tasks \ {n} : su[u] = st[u]
  BY <1>3
<1> HIDE DEF n, new, su, q
<1>7. \A d \in Classes : \A i \in 1 .. Len(new[d]) :
        \E j \in 1 .. Len(rq[d]) :
          new[d][i] = rq[d][j] /\ rq[d][j] # n /\ (d = c => j = i + 1) /\ (d # c => j = i)
  <2> SUFFICES ASSUME NEW d \in Classes, NEW i \in 1 .. Len(new[d])
               PROVE  \E j \in 1 .. Len(rq[d]) :
                        /\ new[d][i] = rq[d][j] /\ rq[d][j] # n
                        /\ (d = c => j = i + 1) /\ (d # c => j = i)
    OBVIOUS
  <2>1. CASE d = c
    <3>1. i + 1 \in 1 .. Len(rq[c]) /\ i + 1 # 1 /\ new[c][i] = rq[c][i + 1]
      BY <1>2, <1>4, <1>5, <2>1
    <3>2. rq[c][i + 1] # n
      BY <1>2, <3>1 DEF Fits
    <3> QED BY <2>1, <3>1, <3>2
  <2>2. CASE d # c
    <3>1. i \in 1 .. Len(rq[d]) /\ new[d][i] = rq[d][i]
      BY <1>5, <2>2
    <3>2. rq[d][i] # n
      BY <1>3, <2>2, <3>1 DEF Fits
    <3> QED BY <2>2, <3>1, <3>2
  <2> QED BY <2>1, <2>2
<1>8. \A d \in Classes : \A i \in 1 .. Len(new[d]) :
        PriorityOf[new[d][i]] = d /\ su[new[d][i]] = "Runnable"
  <2>1. \A d \in Classes : \A j \in 1 .. Len(rq[d]) : rq[d][j] \in Tasks
    BY <1>1, ElementOfSeq
  <2> QED BY <1>6, <1>7, <2>1 DEF Fits
<1>9. \A d \in Classes : \A i, j \in 1 .. Len(new[d]) : new[d][i] = new[d][j] => i = j
  <2> SUFFICES ASSUME NEW d \in Classes, NEW i \in 1 .. Len(new[d]),
                      NEW j \in 1 .. Len(new[d]), new[d][i] = new[d][j]
               PROVE  i = j
    OBVIOUS
  <2>1. PICK k \in 1 .. Len(rq[d]) :
          new[d][i] = rq[d][k] /\ (d = c => k = i + 1) /\ (d # c => k = i)
    BY <1>7
  <2>2. PICK l \in 1 .. Len(rq[d]) :
          new[d][j] = rq[d][l] /\ (d = c => l = j + 1) /\ (d # c => l = j)
    BY <1>7
  <2>3. k = l
    BY <2>1, <2>2 DEF Fits
  <2> QED BY <2>1, <2>2, <2>3
<1>10. \A u \in Tasks : su[u] = "Runnable" =>
        \E i \in 1 .. Len(new[PriorityOf[u]]) : new[PriorityOf[u]][i] = u
  <2> SUFFICES ASSUME NEW u \in Tasks, su[u] = "Runnable"
               PROVE  \E i \in 1 .. Len(new[PriorityOf[u]]) : new[PriorityOf[u]][i] = u
    OBVIOUS
  <2>1. u # n /\ st[u] = "Runnable" /\ PriorityOf[u] \in Classes
    BY <1>6, PriorityAssumption
  <2>2. PICK j \in 1 .. Len(rq[PriorityOf[u]]) : rq[PriorityOf[u]][j] = u
    BY <2>1 DEF Fits
  <2>3. CASE PriorityOf[u] = c
    <3>1. j # 1
      BY <1>2, <2>1, <2>2, <2>3
    <3>2. j - 1 \in 1 .. Len(rq[c]) - 1 /\ j - 1 + 1 = j
      BY <1>2, <2>2, <2>3, <3>1
    <3>3. q[j - 1] = u
      BY <1>4, <2>2, <2>3, <3>2
    <3> QED BY <1>4, <1>5, <2>3, <3>2, <3>3
  <2>4. CASE PriorityOf[u] # c
    BY <1>5, <2>1, <2>2, <2>4
  <2> QED BY <2>3, <2>4
<1>11. Fits(new, su)
  BY <1>5, <1>8, <1>9, <1>10 DEF Fits
<1> QED BY <1>3, <1>11 DEF n, new, su

(* A task that is not runnable changes to another such state.              *)
LEMMA OtherFits ==
    ASSUME NEW rq, NEW st \in [Tasks -> States], Fits(rq, st), NEW t \in Tasks,
           st[t] # "Runnable", NEW s \in States, s # "Runnable"
    PROVE  Fits(rq, [st EXCEPT ![t] = s])
<1> DEFINE su == [st EXCEPT ![t] = s]
<1>1. su[t] = s /\ \A u \in Tasks \ {t} : su[u] = st[u]
  OBVIOUS
<1>2. \A c \in Classes : \A i \in 1 .. Len(rq[c]) : rq[c][i] \in Tasks
  BY ElementOfSeq DEF Fits
<1> HIDE DEF su
<1>3. Fits(rq, su)
  BY <1>1, <1>2 DEF Fits
<1> QED BY <1>3 DEF su

LEMMA LeastClass ==
    ASSUME NEW S, S \subseteq 0 .. 5, S # {}
    PROVE  \E c \in S : \A d \in S : c <= d
<1>1. \A d \in S : d \in {0, 1, 2, 3, 4, 5}
  OBVIOUS
<1>2. CASE 0 \in S
  BY <1>1, <1>2
<1>3. CASE 0 \notin S /\ 1 \in S
  BY <1>1, <1>3
<1>4. CASE S \cap {0, 1} = {} /\ 2 \in S
  BY <1>1, <1>4
<1>5. CASE S \cap {0, 1, 2} = {} /\ 3 \in S
  BY <1>1, <1>5
<1>6. CASE S \cap {0, 1, 2, 3} = {} /\ 4 \in S
  BY <1>1, <1>6
<1>7. CASE S \cap {0, 1, 2, 3, 4} = {}
  <2>1. \A d \in S : d = 5
    BY <1>1, <1>7
  <2>2. PICK d \in S : TRUE
    OBVIOUS
  <2> QED BY <2>1, <2>2
<1> QED BY <1>2, <1>3, <1>4, <1>5, <1>6, <1>7

(* pick_next takes from a queue that is not empty.                         *)
LEMMA PickNonEmpty ==
    ASSUME NEW rq
    PROVE  /\ PickClass(rq) = NoClass \/ PickClass(rq) \in NonEmpty(rq)
           /\ NonEmpty(rq) # {} => PickClass(rq) \in NonEmpty(rq)
<1> DEFINE S == NonEmpty(rq)
<1>1. S \subseteq 0 .. 5
  BY DEF NonEmpty, Classes
<1> HIDE DEF S
<1>2. S # {} => StrictClass(rq) \in S
  <2> SUFFICES ASSUME S # {} PROVE StrictClass(rq) \in S
    OBVIOUS
  <2>1. \E c \in S : \A d \in S : c <= d
    BY <1>1, LeastClass
  <2> QED BY <2>1 DEF StrictClass, S
<1> QED BY <1>2 DEF PickClass, S

(* It finds a task when one is runnable.                                   *)
LEMMA PickFinds ==
    ASSUME NEW rq, NEW st, Fits(rq, st), NEW t \in Tasks, st[t] = "Runnable"
    PROVE  PickClass(rq) \in Classes /\ PickClass(rq) # NoClass /\ rq[PickClass(rq)] # <<>>
<1>1. PriorityOf[t] \in NonEmpty(rq)
  <2>1. PriorityOf[t] \in Classes /\ rq[PriorityOf[t]] \in Seq(Tasks)
    BY PriorityAssumption DEF Fits
  <2>2. PICK i \in 1 .. Len(rq[PriorityOf[t]]) : rq[PriorityOf[t]][i] = t
    BY DEF Fits
  <2>3. rq[PriorityOf[t]] # <<>>
    BY <2>1, <2>2
  <2> QED BY <2>1, <2>3 DEF NonEmpty
<1>2. PickClass(rq) \in NonEmpty(rq)
  BY <1>1, PickNonEmpty
<1> QED BY <1>2 DEF NonEmpty, Classes, NoClass

(* dequeue of a task that is not queued.                                   *)
LEMMA RemoveAbsent ==
    ASSUME NEW rq, NEW st, Fits(rq, st), NEW t \in Tasks, st[t] # "Runnable"
    PROVE  RemoveTask(rq, t) = rq
<1>1. \A c \in Classes : ~ \E i \in 1 .. Len(rq[c]) : rq[c][i] = t
  BY DEF Fits
<1>2. RemoveTask(rq, t) = [c \in Classes |-> rq[c]]
  BY <1>1 DEF RemoveTask
<1> QED BY <1>2 DEF Fits

----------------------------------------------------------------------------
(* The inductive invariant.  Kmain never blocks, so somebody is always     *)
(* runnable; whoever is runnable has a frame or a process to start from,   *)
(* but for the one process that kmain is about to attach.  All of it but   *)
(* the types holds until the schedule is torn.                             *)
RunnerOk ==
    /\ cpu = current
    /\ \A t \in Tasks : tstate[t] = "Running" => t = current
    /\ ~ yielding => tstate[current] = "Running"
    /\ yielding => /\ tstate[current] \in {"Runnable", "BlockedOnIpc"}
                   /\ current \in loose
                   /\ current \in Users \/ tstate[current] = "Runnable"

KmainOk ==
    /\ tstate[Kmain] \in {"Runnable", "Running"}
    /\ yielding /\ cpu = Kmain => kmain = "pump"

Framed ==
    /\ kmain # "registered" => \A u \in Users : tstate[u] # "Absent" => u \in processes
    /\ \A u, v \in Users \ processes : tstate[u] # "Absent" /\ tstate[v] # "Absent" => u = v
    /\ \A t \in {Kmain, IdleTask} : t # cpu => context[t] # "none"

Suspended == {t \in Tasks \ {cpu} : context[t] = "timer"}

Sound == Fits(run_queues, tstate) /\ RunnerOk /\ KmainOk /\ Framed /\ HandoverNow

Whole == TypeOK /\ ~ torn /\ Sound

DInv == TypeOK /\ (torn \/ Sound)

LEMMA Handover ==
    HandoverNow <=>
      /\ sched_lock <=> (in_scheduler \/ ap = "in")
      /\ ~ (in_scheduler /\ ap = "in")
      /\ in_scheduler <=> Suspended # {}
      /\ \A t, u \in Suspended : t = u
      /\ \A t \in Suspended : tstate[t] = "Runnable"
BY DEF HandoverNow, Suspended

LEMMA TypeFacts ==
    ASSUME TypeOK
    PROVE  /\ tstate \in [Tasks -> States]
           /\ context \in [Tasks -> {"none", "fresh", "timer", "call"}]
           /\ processes \subseteq Users
           /\ current \in Tasks /\ cpu \in Tasks
           /\ ap \in {"out", "in"} /\ kmain \in {"boot", "registered", "pump"}
           /\ pick_counter \in 0 .. 7 /\ thermal \in Levels
           /\ in_scheduler \in BOOLEAN /\ sched_lock \in BOOLEAN
           /\ loose \subseteq Tasks /\ yielding \in BOOLEAN /\ torn \in BOOLEAN
BY DEF TypeOK, States, RunQueuesType, FAIRNESS_LEN

LEMMA TaskFacts ==
    /\ Tasks = Users \cup {Kmain, IdleTask}
    /\ Kmain \in Tasks /\ IdleTask \in Tasks /\ Kmain # IdleTask
    /\ Kmain \notin Users /\ IdleTask \notin Users
BY DispatchAssumption

(* A pick keeps the types, whatever it finds.                              *)
LEMMA PickTyped ==
    ASSUME TypeOK, NEW rq \in [Classes -> Seq(Tasks)], NEW t \in Tasks, NEW s \in States,
           NEW how \in {"timer", "call"}, PickAndSwitch(rq, t, s, how),
           ap' = ap, kmain' = kmain
    PROVE  TypeOK'
<1> DEFINE c == PickClass(rq)
           n == Head(rq[c])
<1>1. /\ tstate \in [Tasks -> States] /\ context \in [Tasks -> {"none", "fresh", "timer", "call"}]
      /\ loose \subseteq Tasks /\ cpu \in Tasks /\ current \in Tasks
      /\ in_scheduler \in BOOLEAN /\ sched_lock \in BOOLEAN /\ pick_counter \in 0 .. 7
  BY TypeFacts
<1>2. c = NoClass \/ (c \in Classes /\ c # NoClass /\ rq[c] \in Seq(Tasks) /\ rq[c] # <<>>)
  BY PickNonEmpty DEF NonEmpty, Classes, NoClass
<1>3. c # NoClass => n \in Tasks /\ Tail(rq[c]) \in Seq(Tasks)
  BY <1>2, HeadTailProperties
<1>4. /\ run_queues' = TakeFrom(rq, c)
      /\ AdvanceCounter(rq)
      /\ c = NoClass => /\ tstate' = [tstate EXCEPT ![t] = s]
                        /\ UNCHANGED <<context, current, cpu, loose, lvars>>
      /\ c # NoClass => /\ tstate' = [tstate EXCEPT ![t] = s, ![n] = "Running"]
                        /\ current' = n
                        /\ \/ SwitchTo(n, t, how)
                           \/ UNCHANGED <<context, cpu, loose, lvars>>
      /\ torn' \in BOOLEAN /\ yielding' = FALSE /\ thermal' = thermal /\ processes' = processes
  BY DEF PickAndSwitch
<1> HIDE DEF n, c
<1>5. run_queues' \in [Classes -> Seq(Tasks)]
  BY <1>2, <1>3, <1>4 DEF TakeFrom
<1>6. pick_counter' \in 0 .. 7
  BY <1>1, <1>4 DEF AdvanceCounter, FAIRNESS_LEN
<1>7. tstate' \in [Tasks -> States] /\ current' \in Tasks
  BY <1>1, <1>3, <1>4 DEF States
<1>8. /\ context' \in [Tasks -> {"none", "fresh", "timer", "call"}] /\ cpu' \in Tasks
      /\ loose' \subseteq Tasks /\ in_scheduler' \in BOOLEAN /\ sched_lock' \in BOOLEAN
  <2>1. CASE UNCHANGED <<context, cpu, loose, lvars>>
    BY <1>1, <2>1 DEF lvars
  <2>2. CASE c # NoClass /\ SwitchTo(n, t, how)
    BY <1>1, <1>3, <2>2 DEF SwitchTo, HeldAfter
  <2> QED BY <1>4, <2>1, <2>2
<1>9. RunQueuesType'
  BY <1>4, <1>5, <1>6, TypeFacts DEF RunQueuesType, FAIRNESS_LEN
<1>10. /\ processes' \subseteq Users /\ yielding' \in BOOLEAN /\ torn' \in BOOLEAN
       /\ ap' \in {"out", "in"} /\ kmain' \in {"boot", "registered", "pump"}
  BY <1>4, TypeFacts
<1> QED BY <1>7, <1>8, <1>9, <1>10 DEF TypeOK, States

(* What yield_current does when the running task goes to state s.          *)
Picked(n, s, how) ==
    /\ tstate' = [[tstate EXCEPT ![cpu] = s] EXCEPT ![n] = "Running"]
    /\ Fits(run_queues', tstate')
    /\ current' = n /\ cpu' = n
    /\ n = cpu => UNCHANGED <<context, lvars>>
    /\ n # cpu => SwitchTo(n, cpu, how)
    /\ processes' = processes /\ ~ yielding'

LEMMA PickStep ==
    ASSUME Whole, NEW rq, NEW s \in {"Runnable", "BlockedOnIpc", "Terminated"},
           NEW how \in {"timer", "call"},
           Fits(rq, [tstate EXCEPT ![cpu] = s]), s # "Runnable" => cpu \in Users,
           PickAndSwitch(rq, cpu, s, how)
    PROVE  \/ torn'
           \/ \E n \in Tasks : Picked(n, s, how) /\ (n = cpu \/ tstate[n] = "Runnable")
                               /\ (n = cpu => s = "Runnable")
<1> DEFINE st == [tstate EXCEPT ![cpu] = s]
           c == PickClass(rq)
           n == Head(rq[c])
           su == [st EXCEPT ![n] = "Running"]
<1>1. tstate \in [Tasks -> States] /\ cpu \in Tasks /\ s \in States
  BY TypeFacts DEF Whole, States
<1>2. st \in [Tasks -> States] /\ st[cpu] = s /\ \A u \in Tasks \ {cpu} : st[u] = tstate[u]
  BY <1>1
<1> HIDE DEF st
<1>3. \E t \in Tasks : st[t] = "Runnable"
  <2>1. CASE s = "Runnable"
    BY <1>1, <1>2, <2>1
  <2>2. CASE s # "Runnable"
    <3>1. Kmain # cpu /\ Kmain \in Tasks
      BY <2>2, TaskFacts
    <3>2. tstate[Kmain] = "Runnable"
      BY <3>1 DEF Whole, Sound, KmainOk, RunnerOk
    <3> QED BY <1>2, <3>1, <3>2
  <2> QED BY <2>1, <2>2
<1>4. c \in Classes /\ c # NoClass /\ rq[c] # <<>>
  BY <1>3, PickFinds DEF st
<1>5. n \in Tasks /\ st[n] = "Runnable" /\ Fits(TakeFrom(rq, c), su)
  BY <1>2, <1>4, TakeFits DEF st
<1>6. n # cpu /\ ~ HasFrame(n) => torn'
  BY <1>4 DEF PickAndSwitch
<1>7. /\ run_queues' = TakeFrom(rq, c)
      /\ AdvanceCounter(rq)
      /\ tstate' = [tstate EXCEPT ![cpu] = s, ![n] = "Running"]
      /\ current' = n
      /\ IF n # cpu /\ HasFrame(n)
           THEN SwitchTo(n, cpu, how)
           ELSE UNCHANGED <<context, cpu, loose, lvars>>
      /\ processes' = processes /\ ~ yielding'
  BY <1>4 DEF PickAndSwitch
<1>8. tstate' = su
  BY <1>1, <1>7 DEF st
<1>9. SUFFICES ASSUME ~ torn' PROVE \E m \in Tasks :
        Picked(m, s, how) /\ (m = cpu \/ tstate[m] = "Runnable") /\ (m = cpu => s = "Runnable")
  OBVIOUS
<1> HIDE DEF n, c
<1>10. /\ n = cpu => UNCHANGED <<context, lvars>>
       /\ n # cpu => SwitchTo(n, cpu, how)
  BY <1>6, <1>7, <1>9 DEF lvars
<1>11. cpu' = n
  <2>1. CASE n = cpu
    BY <1>7, <2>1
  <2>2. CASE n # cpu
    BY <1>10, <2>2 DEF SwitchTo
  <2> QED BY <2>1, <2>2
<1>12. Fits(run_queues', tstate')
  BY <1>5, <1>7, <1>8
<1>13. Picked(n, s, how)
  BY <1>7, <1>8, <1>10, <1>11, <1>12 DEF Picked, st
<1>14. (n = cpu \/ tstate[n] = "Runnable") /\ (n = cpu => s = "Runnable")
  BY <1>2, <1>5
<1> QED BY <1>5, <1>13, <1>14

(* The state after a pick, for every way of getting there.                 *)
LEMMA PickedInv ==
    ASSUME Whole, NEW s \in {"Runnable", "BlockedOnIpc", "Terminated"},
           NEW how \in {"timer", "call"}, NEW n \in Tasks, Picked(n, s, how),
           n = cpu \/ tstate[n] = "Runnable", n = cpu => s = "Runnable",
           s # "Runnable" => cpu \in Users,
           how = "timer" => ~ in_scheduler /\ ~ sched_lock /\ s = "Runnable",
           kmain' = kmain, ap' = ap, TypeOK'
    PROVE  DInv'
<1>1. /\ tstate \in [Tasks -> States] /\ cpu \in Tasks /\ s \in States
      /\ context \in [Tasks -> {"none", "fresh", "timer", "call"}]
  BY TypeFacts DEF Whole, Sound, States
<1>2. /\ tstate' \in [Tasks -> States]
      /\ tstate'[n] = "Running"
      /\ n # cpu => tstate'[cpu] = s
      /\ \A t \in Tasks \ {cpu, n} : tstate'[t] = tstate[t]
  BY <1>1 DEF Picked, States
<1>3. cpu' = n /\ current' = n /\ processes' = processes /\ ~ yielding'
  BY DEF Picked
<1>4. /\ n = cpu => context' = context
      /\ n # cpu => context'[cpu] = how
      /\ \A t \in Tasks \ {cpu} : context'[t] = context[t]
      /\ context' \in [Tasks -> {"none", "fresh", "timer", "call"}]
  <2>1. CASE n = cpu
    BY <1>1, <2>1 DEF Picked
  <2>2. CASE n # cpu
    <3>1. context' = [context EXCEPT ![cpu] = how]
      BY <2>2 DEF Picked, SwitchTo
    <3> QED BY <1>1, <2>2, <3>1
  <2> QED BY <2>1, <2>2
<1>7. Fits(run_queues, tstate)'
  BY DEF Picked
<1>8. \A t \in Tasks \ {n} : tstate'[t] # "Running"
  BY <1>2 DEF Whole, Sound, RunnerOk
<1>9. RunnerOk'
  BY <1>2, <1>3, <1>8 DEF RunnerOk
<1>10. KmainOk'
  <2>1. tstate'[Kmain] \in {"Runnable", "Running"}
    <3>1. CASE Kmain = n
      BY <1>2, <3>1
    <3>2. CASE Kmain # n /\ Kmain = cpu
      BY <1>2, <3>2, TaskFacts
    <3>3. CASE Kmain # n /\ Kmain # cpu
      BY <1>2, <3>3, TaskFacts DEF Whole, Sound, KmainOk
    <3> QED BY <3>1, <3>2, <3>3
  <2> QED BY <1>3, <2>1 DEF KmainOk
<1>11. Framed'
  <2>2. cpu \in Users => tstate[cpu] # "Absent"
    BY DEF Whole, Sound, RunnerOk
  <2>3. \A u \in Users : tstate'[u] # "Absent" => tstate[u] # "Absent"
    BY <1>2, <2>2, TaskFacts
  <2>4. /\ kmain' # "registered" => \A u \in Users : tstate'[u] # "Absent" => u \in processes'
        /\ \A u, v \in Users \ processes' :
             tstate'[u] # "Absent" /\ tstate'[v] # "Absent" => u = v
    BY <1>3, <2>3 DEF Whole, Sound, Framed
  <2>5. \A t \in {Kmain, IdleTask} : t # n => context'[t] # "none"
    <3> SUFFICES ASSUME NEW t \in {Kmain, IdleTask}, t # n PROVE context'[t] # "none"
      OBVIOUS
    <3>1. CASE t = cpu
      BY <1>4, <3>1
    <3>2. CASE t # cpu
      BY <1>4, <3>2, TaskFacts DEF Whole, Sound, Framed
    <3> QED BY <3>1, <3>2
  <2> QED BY <1>3, <2>4, <2>5 DEF Framed
<1>12. HandoverNow'
  <2>1. /\ sched_lock <=> (in_scheduler \/ ap = "in")
        /\ ~ (in_scheduler /\ ap = "in")
        /\ in_scheduler <=> Suspended # {}
        /\ \A t, u \in Suspended : t = u
        /\ \A t \in Suspended : tstate[t] = "Runnable"
    BY Handover DEF Whole, Sound
  <2>2. Suspended' = {t \in Tasks \ {n} : context'[t] = "timer"}
    BY <1>3 DEF Suspended
  <2>3. CASE n = cpu
    <3>1. Suspended' = Suspended
      BY <1>4, <2>2, <2>3 DEF Suspended
    <3>2. (in_scheduler' <=> in_scheduler) /\ (sched_lock' <=> sched_lock)
      BY <2>3 DEF Picked, lvars
    <3>3. \A t \in Suspended : tstate'[t] = tstate[t]
      BY <1>2, <2>3 DEF Suspended
    <3> QED BY <2>1, <3>1, <3>2, <3>3 DEF HandoverNow, Suspended
  <2>4. CASE n # cpu /\ how = "timer"
    <3>1. ~ in_scheduler /\ ~ sched_lock /\ Suspended = {} /\ ap # "in" /\ s = "Runnable"
      BY <2>1, <2>4
    <3>2. \A t \in Tasks \ {cpu} : context[t] # "timer"
      BY <3>1 DEF Suspended
    <3>3. Suspended' = {cpu}
      BY <1>1, <1>4, <2>2, <2>4, <3>2
    <3>4. in_scheduler' /\ sched_lock'
      BY <2>4, <3>2 DEF Picked, SwitchTo, HeldAfter
    <3>5. tstate'[cpu] = "Runnable"
      BY <1>2, <2>4, <3>1
    <3> QED BY <3>1, <3>3, <3>4, <3>5 DEF HandoverNow, Suspended
  <2>5. CASE n # cpu /\ how = "call" /\ context[n] = "timer"
    <3>1. n \in Suspended
      BY <2>5 DEF Suspended
    <3>2. Suspended = {n} /\ in_scheduler /\ ap # "in"
      BY <2>1, <3>1
    <3>3. Suspended' = {}
      <4>1. \A t \in Tasks \ {cpu, n} : context[t] # "timer"
        BY <3>2 DEF Suspended
      <4> QED BY <1>4, <2>2, <2>5, <4>1
    <3>4. ~ in_scheduler' /\ ~ sched_lock'
      BY <2>5 DEF Picked, SwitchTo, HeldAfter
    <3> QED BY <3>2, <3>3, <3>4 DEF HandoverNow, Suspended
  <2>6. CASE n # cpu /\ how = "call" /\ context[n] # "timer"
    <3>1. Suspended' = Suspended
      BY <1>4, <2>2, <2>6 DEF Suspended
    <3>2. (in_scheduler' <=> in_scheduler) /\ (sched_lock' <=> sched_lock)
      BY <2>6 DEF Picked, SwitchTo, HeldAfter
    <3>3. \A t \in Suspended : tstate'[t] = tstate[t]
      BY <1>2, <2>6 DEF Suspended
    <3> QED BY <2>1, <3>1, <3>2, <3>3 DEF HandoverNow, Suspended
  <2> QED BY <2>3, <2>4, <2>5, <2>6
<1> QED BY <1>7, <1>9, <1>10, <1>11, <1>12 DEF DInv, Sound

----------------------------------------------------------------------------
(* The invariant through every action.                                     *)

LEMMA InitInv == Init => DInv
<1> SUFFICES ASSUME Init PROVE DInv
  OBVIOUS
<1> DEFINE q(c) == IF c = Idle THEN <<IdleTask>> ELSE <<>>
<1>1. \A c \in Classes : q(c) \in Seq(Tasks)
  <2>1. <<IdleTask>> \in Seq(Tasks)
    BY TaskFacts
  <2>2. <<>> \in Seq(Tasks)
    BY EmptySeq
  <2> QED BY <2>1, <2>2
<1>2. run_queues \in [Classes -> Seq(Tasks)]
  BY <1>1 DEF Init
<1>3. TypeOK
  <2>1. RunQueuesType
    BY <1>2 DEF Init, RunQueuesType, FAIRNESS_LEN, Levels
  <2>2. tstate \in [Tasks -> {"Absent", "Runnable", "Running", "BlockedOnIpc", "Terminated"}]
    BY DEF Init
  <2>3. context \in [Tasks -> {"none", "fresh", "timer", "call"}]
    BY DEF Init
  <2> QED BY <2>1, <2>2, <2>3, TaskFacts DEF Init, TypeOK
<1>4. Fits(run_queues, tstate)
  <2>1. PriorityOf[IdleTask] = Idle /\ Idle \in Classes
    BY DispatchAssumption DEF Idle, Classes
  <2>2. /\ run_queues[Idle] = <<IdleTask>>
        /\ \A c \in Classes \ {Idle} : run_queues[c] = <<>>
    BY <2>1 DEF Init
  <2>3. Len(<<IdleTask>>) = 1 /\ <<IdleTask>>[1] = IdleTask /\ \A c \in Classes \ {Idle} : Len(run_queues[c]) = 0
    BY <2>2
  <2>4. tstate[IdleTask] = "Runnable" /\ \A t \in Tasks \ {IdleTask} : tstate[t] # "Runnable"
    BY TaskFacts DEF Init
  <2> QED BY <1>2, <2>1, <2>2, <2>3, <2>4 DEF Fits
<1>5. RunnerOk /\ KmainOk /\ Framed
  BY TaskFacts DEF Init, RunnerOk, KmainOk, Framed
<1>6. HandoverNow
  BY DEF Init, HandoverNow
<1> QED BY <1>3, <1>4, <1>5, <1>6 DEF DInv, Sound

(* The running task, when it is not inside a yield.                        *)
LEMMA RunningFacts ==
    ASSUME Whole, ~ yielding
    PROVE  /\ cpu \in Tasks /\ cpu = current /\ tstate[cpu] = "Running"
           /\ tstate \in [Tasks -> States]
           /\ run_queues \in [Classes -> Seq(Tasks)]
           /\ Fits(PushTask(run_queues, cpu), [tstate EXCEPT ![cpu] = "Runnable"])
           /\ PushTask(run_queues, cpu) \in [Classes -> Seq(Tasks)]
<1>1. cpu \in Tasks /\ cpu = current /\ tstate[cpu] = "Running" /\ tstate \in [Tasks -> States]
  BY TypeFacts DEF Whole, Sound, RunnerOk
<1>2. Fits(PushTask(run_queues, cpu), [tstate EXCEPT ![cpu] = "Runnable"])
  BY <1>1, PushFits DEF Whole, Sound
<1> QED BY <1>1, <1>2 DEF Whole, Sound, Fits

(* A whole pick, by whatever path yield_current was entered.               *)
LEMMA PickInv ==
    ASSUME Whole, NEW rq, NEW s \in {"Runnable", "BlockedOnIpc", "Terminated"},
           NEW how \in {"timer", "call"},
           Fits(rq, [tstate EXCEPT ![cpu] = s]), s # "Runnable" => cpu \in Users,
           how = "timer" => ~ in_scheduler /\ ~ sched_lock /\ s = "Runnable",
           PickAndSwitch(rq, cpu, s, how), kmain' = kmain, ap' = ap
    PROVE  DInv'
<1>1. rq \in [Classes -> Seq(Tasks)] /\ TypeOK /\ cpu \in Tasks /\ s \in States
  BY TypeFacts DEF Fits, Whole, States
<1>2. TypeOK'
  BY <1>1, PickTyped
<1>3. CASE torn'
  BY <1>2, <1>3 DEF DInv
<1>4. CASE ~ torn'
  <2>1. PICK n \in Tasks : Picked(n, s, how) /\ (n = cpu \/ tstate[n] = "Runnable")
                           /\ (n = cpu => s = "Runnable")
    BY <1>4, PickStep
  <2> QED BY <1>2, <2>1, PickedInv
<1> QED BY <1>3, <1>4

LEMMA TickInv == ASSUME Whole, TimerTick PROVE DInv'
<1>1. /\ kmain' = kmain /\ ap' = ap /\ cpu = current /\ ~ in_scheduler /\ ~ sched_lock
      /\ PickAndSwitch(PushTask(run_queues, cpu), cpu, "Runnable", "timer")
  BY DEF TimerTick, yield_current, Requeue
<1> DEFINE rq == PushTask(run_queues, cpu)
<1>2. CASE yielding
  <2>1. torn'
    BY <1>1, <1>2 DEF PickAndSwitch
  <2>2. TypeOK /\ cpu \in Tasks /\ run_queues \in [Classes -> Seq(Tasks)]
    BY TypeFacts DEF Whole, Sound, Fits
  <2>3. rq \in [Classes -> Seq(Tasks)]
    BY <2>2, PriorityAssumption DEF PushTask
  <2> HIDE DEF rq
  <2>4. TypeOK'
    BY <1>1, <2>2, <2>3, PickTyped DEF rq, States
  <2> QED BY <2>1, <2>4 DEF DInv
<1>3. CASE ~ yielding
  <2>1. Fits(rq, [tstate EXCEPT ![cpu] = "Runnable"])
    BY <1>3, RunningFacts
  <2> HIDE DEF rq
  <2> QED BY <1>1, <2>1, PickInv DEF rq
<1> QED BY <1>2, <1>3

LEMMA SyscallFacts ==
    ASSUME Whole, NEW u \in Users, InSyscall(u)
    PROVE  u = cpu /\ u = current /\ ~ yielding /\ tstate[u] = "Running"
           /\ u \in Tasks /\ tstate \in [Tasks -> States]
<1>1. u = cpu /\ u = current /\ u \notin loose /\ u \in Tasks
  BY TaskFacts DEF InSyscall, Runs
<1>2. ~ yielding
  BY <1>1 DEF Whole, Sound, RunnerOk
<1> QED BY <1>1, <1>2, RunningFacts

LEMMA TaskYieldInv == ASSUME Whole, NEW u \in Users, TaskYield(u) PROVE DInv'
<1>1. u = cpu /\ ~ yielding
  BY SyscallFacts DEF TaskYield
<1> DEFINE rq == PushTask(run_queues, cpu)
<1>2. Fits(rq, [tstate EXCEPT ![cpu] = "Runnable"])
  BY <1>1, RunningFacts
<1>3. PickAndSwitch(rq, cpu, "Runnable", "call") /\ ap' = ap /\ kmain' = kmain
  BY <1>1 DEF TaskYield, yield_current, Requeue
<1> HIDE DEF rq
<1> QED BY <1>2, <1>3, PickInv

LEMMA ParkInv == ASSUME Whole, NEW u \in Users, ParkUntilWoken(u) PROVE DInv'
<1>1. u = cpu /\ tstate[u] = "Running" /\ u \in Tasks /\ tstate \in [Tasks -> States]
  BY SyscallFacts DEF ParkUntilWoken
<1>2. Fits(run_queues, [tstate EXCEPT ![cpu] = "BlockedOnIpc"])
  BY <1>1, OtherFits DEF Whole, Sound, States
<1>3. PickAndSwitch(run_queues, cpu, "BlockedOnIpc", "call") /\ ap' = ap /\ kmain' = kmain
  BY <1>1 DEF ParkUntilWoken, yield_current, Requeue
<1> QED BY <1>1, <1>2, <1>3, PickInv

LEMMA ExitInv == ASSUME Whole, NEW u \in Users, TaskExit(u) PROVE DInv'
<1>1. u = cpu /\ tstate[u] = "Running" /\ u \in Tasks /\ tstate \in [Tasks -> States]
  BY SyscallFacts DEF TaskExit
<1>2. Fits(run_queues, [tstate EXCEPT ![cpu] = "Terminated"])
  BY <1>1, OtherFits DEF Whole, Sound, States
<1>3. RemoveTask(run_queues, u) = run_queues
  BY <1>1, RemoveAbsent DEF Whole, Sound
<1>4. PickAndSwitch(run_queues, cpu, "Terminated", "call") /\ ap' = ap /\ kmain' = kmain
  BY <1>1, <1>3 DEF TaskExit
<1> QED BY <1>1, <1>2, <1>4, PickInv

(* A task that is not running becomes runnable and is queued.              *)
LEMMA EnqueuedInv ==
    ASSUME Whole, NEW v \in Users, tstate[v] \in {"BlockedOnIpc", "Absent"},
           yielding => tstate[v] = "Absent",
           tstate' = [tstate EXCEPT ![v] = "Runnable"],
           run_queues' = PushTask(run_queues, v),
           UNCHANGED <<pick_counter, thermal, context, cvars, lvars, ap>>,
           kmain' = kmain \/ cpu # Kmain \/ ~ yielding
    PROVE  /\ Fits(run_queues', tstate') /\ HandoverNow' /\ RunnerOk' /\ KmainOk'
           /\ RunQueuesType' /\ tstate' \in [Tasks -> States]
           /\ \A t \in Tasks \ {v} : tstate'[t] = tstate[t]
           /\ context' = context /\ cpu' = cpu /\ UNCHANGED <<cvars, lvars>>
<1>1. tstate \in [Tasks -> States] /\ v \in Tasks /\ tstate[v] # "Runnable"
  BY TypeFacts, TaskFacts DEF Whole, Sound
<1>2. Fits(run_queues', tstate')
  <2>1. Fits(PushTask(run_queues, v), [tstate EXCEPT ![v] = "Runnable"])
    BY <1>1, PushFits DEF Whole, Sound
  <2> QED BY <2>1
<1>3. /\ tstate'[v] = "Runnable" /\ \A t \in Tasks \ {v} : tstate'[t] = tstate[t]
      /\ tstate' \in [Tasks -> States]
  BY <1>1 DEF States
<1>4. /\ context' = context /\ cpu' = cpu /\ current' = current /\ loose' = loose
      /\ yielding' = yielding /\ in_scheduler' = in_scheduler /\ sched_lock' = sched_lock
  BY DEF cvars, lvars
<1>5. RunQueuesType'
  BY <1>2, TypeFacts DEF Fits, RunQueuesType, Whole, Sound, FAIRNESS_LEN
<1>6. HandoverNow'
  <2>1. /\ sched_lock <=> (in_scheduler \/ ap = "in")
        /\ ~ (in_scheduler /\ ap = "in")
        /\ in_scheduler <=> Suspended # {}
        /\ \A t, u \in Suspended : t = u
        /\ \A t \in Suspended : tstate[t] = "Runnable"
    BY Handover DEF Whole, Sound
  <2>2. Suspended' = Suspended /\ \A t \in Suspended : tstate'[t] = "Runnable"
    BY <1>3, <1>4, <2>1 DEF Suspended
  <2>3. (in_scheduler' <=> in_scheduler) /\ (sched_lock' <=> sched_lock)
    BY <1>4
  <2> QED BY <2>1, <2>2, <2>3 DEF HandoverNow, Suspended
<1>7. v # Kmain /\ v # current
  BY TaskFacts DEF Whole, Sound, RunnerOk
<1>8. RunnerOk'
  BY <1>3, <1>4, <1>7, TypeFacts DEF Whole, Sound, RunnerOk
<1>9. KmainOk'
  BY <1>3, <1>4, <1>7, TaskFacts DEF Whole, Sound, KmainOk
<1> QED BY <1>2, <1>3, <1>4, <1>5, <1>6, <1>8, <1>9

LEMMA UnparkInv ==
    ASSUME Whole, NEW u \in Users, NEW w \in Users, Unpark(u, w)
    PROVE  DInv'
<1>1. /\ tstate[w] = "BlockedOnIpc" /\ kmain' = kmain /\ processes' = processes /\ ap' = ap
      /\ tstate' = [tstate EXCEPT ![w] = "Runnable"]
      /\ run_queues' = PushTask(run_queues, w)
      /\ UNCHANGED <<pick_counter, thermal, context, cvars, lvars, ap>> /\ ~ yielding
  BY DEF Unpark
<1>2. /\ Fits(run_queues', tstate') /\ HandoverNow' /\ RunnerOk' /\ KmainOk'
      /\ RunQueuesType' /\ tstate' \in [Tasks -> States]
      /\ \A t \in Tasks \ {w} : tstate'[t] = tstate[t]
      /\ context' = context /\ cpu' = cpu /\ UNCHANGED <<cvars, lvars>>
  BY <1>1, EnqueuedInv
<1>3. TypeOK'
  BY <1>1, <1>2 DEF Whole, TypeOK, States, cvars, lvars
<1>4. Framed'
  <2>1. \A v \in Users : tstate'[v] # "Absent" => tstate[v] # "Absent"
    BY <1>1, <1>2, TaskFacts
  <2> QED BY <1>1, <1>2, <2>1 DEF Whole, Sound, Framed
<1> QED BY <1>2, <1>3, <1>4 DEF DInv, Sound

LEMMA SpawnInv ==
    ASSUME Whole, NEW t, NEW v \in Users, SpawnFromElf(t, v)
    PROVE  DInv'
<1>1. /\ tstate[v] = "Absent" /\ kmain' = kmain /\ processes' = processes \cup {v} /\ ap' = ap
      /\ tstate' = [tstate EXCEPT ![v] = "Runnable"]
      /\ run_queues' = PushTask(run_queues, v)
      /\ UNCHANGED <<pick_counter, thermal, context, cvars, lvars, ap>>
  BY DEF SpawnFromElf, RegisterProcess
<1>2. /\ Fits(run_queues', tstate') /\ HandoverNow' /\ RunnerOk' /\ KmainOk'
      /\ RunQueuesType' /\ tstate' \in [Tasks -> States]
      /\ \A x \in Tasks \ {v} : tstate'[x] = tstate[x]
      /\ context' = context /\ cpu' = cpu /\ UNCHANGED <<cvars, lvars>>
  BY <1>1, EnqueuedInv
<1>3. TypeOK'
  BY <1>1, <1>2 DEF Whole, TypeOK, States, cvars, lvars
<1>4. Framed'
  <2>1. \A x \in Users \ {v} : tstate'[x] = tstate[x]
    BY <1>2, TaskFacts
  <2> QED BY <1>1, <1>2, <2>1 DEF Whole, Sound, Framed
<1> QED BY <1>2, <1>3, <1>4 DEF DInv, Sound

LEMMA RegisterInv == ASSUME Whole, NEW v \in Users, KmainRegister(v) PROVE DInv'
<1>1. /\ tstate[v] = "Absent" /\ kmain = "boot" /\ kmain' = "registered" /\ cpu = Kmain
      /\ processes' = processes /\ ap' = ap
      /\ tstate' = [tstate EXCEPT ![v] = "Runnable"]
      /\ run_queues' = PushTask(run_queues, v)
      /\ UNCHANGED <<pick_counter, thermal, context, cvars, lvars, ap>>
  BY DEF KmainRegister, RegisterProcess, Runs
<1>2. ~ yielding
  BY <1>1 DEF Whole, Sound, KmainOk
<1>3. /\ Fits(run_queues', tstate') /\ HandoverNow' /\ RunnerOk' /\ KmainOk'
      /\ RunQueuesType' /\ tstate' \in [Tasks -> States]
      /\ \A t \in Tasks \ {v} : tstate'[t] = tstate[t]
      /\ context' = context /\ cpu' = cpu /\ UNCHANGED <<cvars, lvars>>
  BY <1>1, <1>2, EnqueuedInv
<1>4. TypeOK'
  BY <1>1, <1>3 DEF Whole, TypeOK, States, cvars, lvars
<1>5. Framed'
  <2>1. \A x \in Users \ {v} : tstate'[x] # "Absent" => x \in processes
    BY <1>1, <1>3, TaskFacts DEF Whole, Sound, Framed
  <2>2. \A t \in {Kmain, IdleTask} : t # cpu' => context'[t] # "none"
    BY <1>3 DEF Whole, Sound, Framed
  <2> QED BY <1>1, <2>1, <2>2 DEF Framed
<1> QED BY <1>3, <1>4, <1>5 DEF DInv, Sound

LEMMA AttachInv == ASSUME Whole, NEW v \in Users, KmainAttach(v) PROVE DInv'
<1>1. /\ kmain = "registered" /\ kmain' = "boot" /\ v \in Users \ processes
      /\ tstate[v] # "Absent" /\ processes' = processes \cup {v} /\ ap' = ap
      /\ tstate' = tstate /\ context' = context
      /\ run_queues' = run_queues /\ pick_counter' = pick_counter /\ thermal' = thermal
      /\ current' = current /\ cpu' = cpu /\ loose' = loose /\ yielding' = yielding
      /\ torn' = torn /\ in_scheduler' = in_scheduler /\ sched_lock' = sched_lock
  BY DEF KmainAttach, rqvars, cvars, lvars
<1>2. TypeOK'
  BY <1>1 DEF Whole, TypeOK, RunQueuesType
<1>3. RunnerOk' /\ KmainOk' /\ Fits(run_queues', tstate')
  BY <1>1 DEF Whole, Sound, RunnerOk, KmainOk
<1>4. Framed'
  <2>1. \A u \in Users \ processes : tstate[u] # "Absent" => u = v
    BY <1>1 DEF Whole, Sound, Framed
  <2> QED BY <1>1, <2>1 DEF Whole, Sound, Framed
<1>5. HandoverNow'
  BY <1>1 DEF Whole, Sound, HandoverNow
<1> QED BY <1>2, <1>3, <1>4, <1>5 DEF DInv, Sound

LEMMA LooseYieldInv ==
    ASSUME Whole, NEW t \in Users \cup {Kmain}, NEW s, LooseYield(t, s)
    PROVE  DInv'
<1>1. /\ cpu = t /\ current = t /\ t \in loose /\ ~ yielding /\ yielding'
      /\ s \in {"Runnable", "BlockedOnIpc"} /\ (t = Kmain => s = "Runnable")
      /\ tstate' = [tstate EXCEPT ![t] = s]
      /\ run_queues' = Requeue(run_queues, t, s)
      /\ t = Kmain => kmain # "registered" /\ kmain' = "pump"
      /\ t # Kmain => kmain' = kmain
      /\ context' = context /\ processes' = processes /\ ap' = ap
      /\ pick_counter' = pick_counter /\ thermal' = thermal
      /\ current' = current /\ cpu' = cpu /\ loose' = loose /\ torn' = torn
      /\ in_scheduler' = in_scheduler /\ sched_lock' = sched_lock
  BY DEF LooseYield, Runs, lvars
<1>2. /\ tstate \in [Tasks -> States] /\ t \in Tasks /\ tstate[t] = "Running"
      /\ Fits(PushTask(run_queues, t), [tstate EXCEPT ![t] = "Runnable"])
  BY <1>1, RunningFacts
<1>3. /\ tstate' \in [Tasks -> States] /\ tstate'[t] = s
      /\ \A x \in Tasks \ {t} : tstate'[x] = tstate[x]
  BY <1>1, <1>2 DEF States
<1>4. Fits(run_queues', tstate')
  <2>1. CASE s = "Runnable"
    BY <1>1, <1>2, <2>1 DEF Requeue
  <2>2. CASE s # "Runnable"
    <3>1. Fits(run_queues, [tstate EXCEPT ![t] = s])
      BY <1>1, <1>2, <2>2, OtherFits DEF Whole, Sound, States
    <3> QED BY <1>1, <2>2, <3>1 DEF Requeue
  <2> QED BY <2>1, <2>2
<1>5. TypeOK'
  <2>1. RunQueuesType'
    BY <1>1, <1>4, TypeFacts DEF Fits, RunQueuesType, Whole, FAIRNESS_LEN
  <2>2. yielding' \in BOOLEAN
    BY DEF LooseYield
  <2>3. kmain' \in {"boot", "registered", "pump"}
    BY <1>1, TypeFacts DEF Whole
  <2> QED BY <1>1, <1>3, <2>1, <2>2, <2>3 DEF Whole, TypeOK, States
<1>6. RunnerOk'
  BY <1>1, <1>3, TaskFacts DEF Whole, Sound, RunnerOk
<1>7. KmainOk'
  BY <1>1, <1>3, TaskFacts DEF Whole, Sound, KmainOk
<1>8. Framed'
  <2>1. \A u \in Users : tstate'[u] # "Absent" => tstate[u] # "Absent"
    BY <1>2, <1>3, TaskFacts
  <2> QED BY <1>1, <2>1 DEF Whole, Sound, Framed
<1>9. HandoverNow'
  BY <1>1, <1>3 DEF Whole, Sound, HandoverNow
<1> QED BY <1>4, <1>5, <1>6, <1>7, <1>8, <1>9 DEF DInv, Sound

LEMMA LooseSwitchInv == ASSUME Whole, NEW t, LooseSwitch(t) PROVE DInv'
<1>1. /\ cpu = t /\ current = t /\ yielding /\ kmain' = kmain /\ ap' = ap
      /\ PickAndSwitch(run_queues, cpu, tstate[cpu], "call")
  BY DEF LooseSwitch, Runs
<1>2. /\ tstate[cpu] \in {"Runnable", "BlockedOnIpc", "Terminated"}
      /\ tstate[cpu] # "Runnable" => cpu \in Users
  BY <1>1 DEF Whole, Sound, RunnerOk
<1>3. tstate \in [Tasks -> States] /\ [tstate EXCEPT ![cpu] = tstate[cpu]] = tstate
  BY TypeFacts DEF Whole
<1>4. PICK s \in {"Runnable", "BlockedOnIpc", "Terminated"} : s = tstate[cpu]
  BY <1>2
<1>5. Fits(run_queues, [tstate EXCEPT ![cpu] = s])
  BY <1>3, <1>4 DEF Whole, Sound
<1>6. PickAndSwitch(run_queues, cpu, s, "call") /\ (s # "Runnable" => cpu \in Users)
  BY <1>1, <1>2, <1>4
<1> QED BY <1>1, <1>5, <1>6, PickInv

LEMMA ReturnInv == ASSUME Whole, NEW u \in Users, SyscallReturn(u) PROVE DInv'
<1>1. /\ loose' = loose \ {u} /\ ~ yielding /\ yielding' = yielding /\ torn' = torn
      /\ UNCHANGED <<run_queues, pick_counter, thermal, tstate, context, processes>>
      /\ UNCHANGED <<current, cpu, in_scheduler, sched_lock, ap, kmain>>
  BY DEF SyscallReturn, rqvars, tvars, lvars
<1>2. TypeOK'
  BY <1>1 DEF Whole, TypeOK, RunQueuesType
<1>3. RunnerOk' /\ KmainOk' /\ Framed' /\ Fits(run_queues', tstate')
  BY <1>1 DEF Whole, Sound, RunnerOk, KmainOk, Framed
<1>4. HandoverNow'
  BY <1>1 DEF Whole, Sound, HandoverNow
<1> QED BY <1>2, <1>3, <1>4 DEF DInv, Sound

LEMMA KmainYieldInv == ASSUME Whole, KmainYield PROVE DInv'
<1>1. /\ cpu = Kmain /\ ap' = ap /\ kmain' = kmain /\ ~ yielding
      /\ PickAndSwitch(PushTask(run_queues, cpu), cpu, "Runnable", "call")
  BY DEF KmainYield, Runs, yield_current, Requeue, Whole, Sound, RunnerOk
<1> DEFINE rq == PushTask(run_queues, cpu)
<1>2. Fits(rq, [tstate EXCEPT ![cpu] = "Runnable"])
  BY <1>1, RunningFacts
<1> HIDE DEF rq
<1> QED BY <1>1, <1>2, PickInv DEF rq

LEMMA ApInv == ASSUME DInv, ApEnter \/ ApLeave PROVE DInv'
<1>1. /\ UNCHANGED <<run_queues, pick_counter, thermal, tstate, context, processes>>
      /\ UNCHANGED <<current, cpu, loose, yielding, torn, in_scheduler, kmain>>
  BY DEF ApEnter, ApLeave, rqvars, tvars, cvars
<1>2. ap' \in {"out", "in"} /\ sched_lock' \in BOOLEAN
  BY DEF ApEnter, ApLeave
<1>3. TypeOK'
  BY <1>1, <1>2 DEF DInv, TypeOK, RunQueuesType
<1>4. CASE torn
  BY <1>1, <1>3, <1>4 DEF DInv
<1>5. CASE ~ torn
  <2>1. RunnerOk' /\ KmainOk' /\ Framed' /\ Fits(run_queues', tstate')
    BY <1>1, <1>5 DEF DInv, Sound, RunnerOk, KmainOk, Framed
  <2>2. Suspended' = Suspended /\ \A t \in Suspended : tstate'[t] = tstate[t]
    BY <1>1 DEF Suspended
  <2>3. in_scheduler' <=> in_scheduler
    BY <1>1
  <2>4. sched_lock' <=> (in_scheduler' \/ ap' = "in")
    BY <1>5, <2>3, Handover DEF DInv, Sound, ApEnter, ApLeave
  <2>5. ~ (in_scheduler' /\ ap' = "in")
    BY <1>5, <2>3, Handover DEF DInv, Sound, ApEnter, ApLeave
  <2>6. HandoverNow'
    BY <1>5, <2>2, <2>3, <2>4, <2>5, Handover DEF DInv, Sound, HandoverNow, Suspended
  <2> QED BY <1>3, <2>1, <2>6 DEF DInv, Sound
<1> QED BY <1>4, <1>5

LEMMA NextInv == DInv /\ [Next]_dvars => DInv'
<1> SUFFICES ASSUME DInv, [Next]_dvars PROVE DInv'
  OBVIOUS
<1>1. CASE UNCHANGED dvars
  <2>1. TypeOK'
    BY <1>1 DEF dvars, DInv, TypeOK, RunQueuesType
  <2>2. Sound => Sound'
    BY <1>1 DEF dvars, Sound, RunnerOk, KmainOk, Framed, HandoverNow
  <2>3. torn' = torn
    BY <1>1 DEF dvars
  <2> QED BY <2>1, <2>2, <2>3 DEF DInv
<1>2. CASE torn
  <2>1. ApEnter \/ ApLeave \/ AfterTorn \/ UNCHANGED dvars
    BY <1>2 DEF Next, TimerTick, UserStep, TaskYield, ParkUntilWoken, TaskExit, Unpark,
            SpawnFromElf, LooseYield, LooseSwitch, SyscallReturn, KmainStep, KmainRegister,
            KmainAttach, KmainYield, InSyscall, Runs
  <2> QED BY <1>1, <2>1, ApInv DEF AfterTorn
<1>3. CASE ~ torn /\ \E u \in Users : UserStep(u)
  <2>1. Whole
    BY <1>3 DEF DInv, Whole
  <2>2. PICK u \in Users : UserStep(u)
    BY <1>3
  <2> QED BY <2>1, <2>2, TaskYieldInv, ParkInv, ExitInv, UnparkInv, SpawnInv, LooseYieldInv,
             LooseSwitchInv, ReturnInv DEF UserStep
<1>4. CASE ~ torn /\ KmainStep
  <2>1. Whole
    BY <1>4 DEF DInv, Whole
  <2> QED BY <1>4, <2>1, RegisterInv, AttachInv, SpawnInv, LooseYieldInv, LooseSwitchInv,
             KmainYieldInv DEF KmainStep
<1>5. CASE ~ torn /\ TimerTick
  <2>1. Whole
    BY <1>5 DEF DInv, Whole
  <2> QED BY <1>5, <2>1, TickInv
<1> QED BY <1>1, <1>2, <1>3, <1>4, <1>5, ApInv DEF Next, AfterTorn

----------------------------------------------------------------------------
LEMMA ExactPlaces == Sound => QueuesExactNow
<1> SUFFICES ASSUME Sound PROVE QueuesExactNow
  OBVIOUS
<1>1. \A t \in Tasks : PriorityOf[t] \in Classes
  BY PriorityAssumption
<1>2. \A t \in Tasks : tstate[t] # "Runnable" => Places(t) = {}
  BY DEF Places, Sound, Fits
<1>3. \A t \in Tasks : tstate[t] = "Runnable" => \E i : Places(t) = {<<PriorityOf[t], i>>}
  <2> SUFFICES ASSUME NEW t \in Tasks, tstate[t] = "Runnable"
               PROVE  \E i : Places(t) = {<<PriorityOf[t], i>>}
    OBVIOUS
  <2>1. PICK i \in 1 .. Len(run_queues[PriorityOf[t]]) : run_queues[PriorityOf[t]][i] = t
    BY DEF Sound, Fits
  <2>2. \A c \in Classes : \A j \in 1 .. Len(run_queues[c]) :
          run_queues[c][j] = t => c = PriorityOf[t] /\ j = i
    <3>1. \A c \in Classes : \A j \in 1 .. Len(run_queues[c]) :
            run_queues[c][j] = t => c = PriorityOf[t]
      BY DEF Sound, Fits
    <3>2. \A j \in 1 .. Len(run_queues[PriorityOf[t]]) :
            run_queues[PriorityOf[t]][j] = t => j = i
      BY <1>1, <2>1 DEF Sound, Fits
    <3> QED BY <3>1, <3>2
  <2>3. Places(t) = {<<PriorityOf[t], i>>}
    BY <1>1, <2>1, <2>2 DEF Places
  <2> QED BY <2>3
<1>4. \A t \in Tasks :
        /\ Cardinality(Places(t)) = IF tstate[t] = "Runnable" THEN 1 ELSE 0
        /\ \A p \in Places(t) : p[1] = PriorityOf[t]
  <2> SUFFICES ASSUME NEW t \in Tasks
               PROVE  /\ Cardinality(Places(t)) = IF tstate[t] = "Runnable" THEN 1 ELSE 0
                      /\ \A p \in Places(t) : p[1] = PriorityOf[t]
    OBVIOUS
  <2>1. CASE tstate[t] # "Runnable"
    BY <1>2, <2>1, FS_EmptySet
  <2>2. CASE tstate[t] = "Runnable"
    <3>1. PICK i : Places(t) = {<<PriorityOf[t], i>>}
      BY <1>3, <2>2
    <3>2. Cardinality(Places(t)) = 1
      BY <3>1, FS_Singleton
    <3> QED BY <2>2, <3>1, <3>2
  <2> QED BY <2>1, <2>2
<1> QED BY <1>4 DEF QueuesExactNow, Sound, RunnerOk

(* Through every order of ticks, yields, parks, wake-ups, exits and        *)
(* spawns, for any set of user processes, a runnable task has exactly one  *)
(* place, in the queue of its class, nobody else has one, and current is   *)
(* the task that the processor executes (yield_current, pick_next), until  *)
(* a tick lands inside an unmasked yield_current or a process is picked    *)
(* between register_process and attach_process.                            *)
THEOREM QueuesExact == Spec => []RunQueueExact
<1>1. DInv => RunQueueExact
  BY ExactPlaces DEF DInv, RunQueueExact
<1> QED BY <1>1, InitInv, NextInv, PTL DEF Spec

(* For any set of user processes the scheduler guard and SCHED_LOCK are    *)
(* held exactly while one preempted task owes their release, and never by  *)
(* both processors (kernel_check_need_resched, kernel_ap_dispatch_observe), *)
(* until the schedule is torn in one of the same two ways.                 *)
THEOREM GuardsHandedOver == Spec => []LockHandover
<1>1. DInv => LockHandover
  BY DEF DInv, Sound, LockHandover
<1> QED BY <1>1, InitInv, NextInv, PTL DEF Spec

(* The scheduler and the tasks keep their types, torn or not.              *)
THEOREM TypeCorrect == Spec => []TypeOK
<1>1. DInv => TypeOK
  BY DEF DInv
<1> QED BY <1>1, InitInv, NextInv, PTL DEF Spec

----------------------------------------------------------------------------
(* How many slots went by since the last one that serves a class whatever  *)
(* the thermal band, when the rotation stands at a given slot.             *)

\* Slots 0, 3 and 6 are System's, 2 and 5 Interactive's, 4 AiInference's.
SinceSystem(k) ==
    IF k = 0 THEN 1 ELSE IF k <= 3 THEN k - 1 ELSE IF k <= 6 THEN k - 4 ELSE 0
SinceInteractive(k) ==
    IF k <= 2 THEN k + 2 ELSE IF k <= 5 THEN k - 3 ELSE k - 6
SinceAiInference(k) ==
    IF k <= 4 THEN k + 3 ELSE k - 5

\* The inductive invariant behind WaitBounded: the bound sharpened by the
\* position in the cycle.
Rotation ==
    /\ pick_counter \in 0 .. 7
    /\ thermal \in Levels
    /\ waited \in [Classes -> Nat]
    /\ waited[System] <= SinceSystem(pick_counter)
    /\ waited[Interactive] <= SinceInteractive(pick_counter)
    /\ waited[AiInference] <= SinceAiInference(pick_counter)

USE DEF System, RealTime, Interactive, AiInference, Background, Idle,
        NoClass, Classes, FAIRNESS_LEN

\* What the cycles have in common: the slots a class can count on.
LEMMA CommonSlots ==
    ASSUME NEW level \in Levels
    PROVE  LET cycle == FairnessCycleFor(level)
           IN /\ cycle[1] = NoClass /\ cycle[4] = NoClass /\ cycle[7] = NoClass
              /\ cycle[3] = Interactive /\ cycle[6] = Interactive
              /\ cycle[5] = AiInference
              /\ \A k \in 1 .. 8 : cycle[k] # RealTime
BY DEF FairnessCycleFor, FAIRNESS_CYCLE, Levels

\* pick_next with the RealTime queue empty: the preferred class if it can
\* run, otherwise System if it can.
LEMMA PickRule ==
    ASSUME NEW rq, RealTime \notin NonEmpty(rq)
    PROVE  /\ Preferred \in NonEmpty(rq) => PickClass(rq) = Preferred
           /\ Preferred = NoClass /\ System \in NonEmpty(rq) => PickClass(rq) = System
<1>1. NonEmpty(rq) \subseteq Classes
  BY DEF NonEmpty
<1>2. ASSUME System \in NonEmpty(rq) PROVE StrictClass(rq) = System
  <2>1. \A d \in NonEmpty(rq) : System <= d
    BY <1>1
  <2>2. \A c \in NonEmpty(rq) : (\A d \in NonEmpty(rq) : c <= d) => c = System
    BY <1>1, <1>2
  <2> QED BY <1>2, <2>1, <2>2 DEF StrictClass
<1> QED BY <1>1, <1>2 DEF PickClass

LEMMA PickRotation ==
    ASSUME Rotation, PickNext
    PROVE  Rotation'
<1> DEFINE c == PickClass(run_queues)
           k == pick_counter
           w(d) == IF c = d \/ run_queues[d] = <<>> THEN 0
                   ELSE IF c = RealTime THEN waited[d]
                   ELSE IF waited[d] < WaitCap THEN waited[d] + 1
                   ELSE waited[d]
<1>1. thermal' = thermal /\ thermal \in Levels /\ k \in 0 .. 7
  BY DEF PickNext, Rotation
<1>a. \A d \in Classes : waited[d] \in Nat
  BY DEF Rotation
<1>w. waited' = [d \in Classes |-> w(d)]
  BY DEF PickNext
<1> HIDE DEF c
<1>c. ASSUME NEW d \in Classes
      PROVE  /\ w(d) \in Nat
             /\ w(d) <= waited[d] + 1
             /\ c = d \/ run_queues[d] = <<>> => w(d) = 0
             /\ c = RealTime => w(d) <= waited[d]
  <2>1. waited[d] \in Nat /\ WaitCap \in Nat
    BY <1>a, FairnessAssumption
  <2>2. CASE c = d \/ run_queues[d] = <<>>
    <3>1. w(d) = 0
      BY <2>2
    <3> QED BY <2>1, <3>1
  <2>3. CASE ~(c = d \/ run_queues[d] = <<>>) /\ c = RealTime
    <3>1. w(d) = waited[d]
      BY <2>3
    <3> QED BY <2>1, <2>3, <3>1
  <2>4. CASE ~(c = d \/ run_queues[d] = <<>>) /\ c # RealTime
    <3>1. w(d) = IF waited[d] < WaitCap THEN waited[d] + 1 ELSE waited[d]
      BY <2>4
    <3> HIDE DEF w
    <3> QED BY <2>1, <2>4, <3>1
  <2> QED BY <2>2, <2>3, <2>4
<1> HIDE DEF w
<1>b. /\ waited' \in [Classes -> Nat]
      /\ \A d \in Classes :
            /\ waited'[d] \in Nat
            /\ waited'[d] <= waited[d] + 1
            /\ c = d \/ run_queues[d] = <<>> => waited'[d] = 0
            /\ c = RealTime => waited'[d] <= waited[d]
  BY <1>w, <1>c
<1> DEFINE s == waited[System]       s1 == waited'[System]
           i == waited[Interactive]  i1 == waited'[Interactive]
           a == waited[AiInference]  a1 == waited'[AiInference]
<1>d. /\ s \in Nat /\ i \in Nat /\ a \in Nat /\ s1 \in Nat /\ i1 \in Nat /\ a1 \in Nat
      /\ s1 <= s + 1 /\ i1 <= i + 1 /\ a1 <= a + 1
      /\ s <= SinceSystem(k) /\ i <= SinceInteractive(k) /\ a <= SinceAiInference(k)
  BY <1>a, <1>b DEF Rotation
<1>e. ASSUME NEW k1 \in 0 .. 7, pick_counter' = k1, s1 <= SinceSystem(k1),
             i1 <= SinceInteractive(k1), a1 <= SinceAiInference(k1)
      PROVE  Rotation'
  BY <1>1, <1>b, <1>e DEF Rotation, SinceSystem, SinceInteractive, SinceAiInference
<1>2. CASE RealTime \in NonEmpty(run_queues)
  <2>1. c = RealTime /\ pick_counter' = k
    BY <1>2 DEF c, PickClass, PickNext, AdvanceCounter
  <2>2. s1 <= s /\ i1 <= i /\ a1 <= a
    BY <1>b, <2>1
  <2> HIDE DEF s, i, a, s1, i1, a1
  <2>3. /\ s1 <= SinceSystem(k) /\ i1 <= SinceInteractive(k)
        /\ a1 <= SinceAiInference(k)
    BY <1>1, <1>d, <2>2 DEF SinceSystem, SinceInteractive, SinceAiInference
  <2> QED BY <1>1, <1>e, <2>1, <2>3
<1>3. CASE RealTime \notin NonEmpty(run_queues)
  <2>1. pick_counter' = (k + 1) % 8
    BY <1>3 DEF PickNext, AdvanceCounter
  <2>2. /\ k \in {0, 3, 6} => Preferred = NoClass
        /\ k \in {2, 5} => Preferred = Interactive
        /\ k = 4 => Preferred = AiInference
    BY <1>1, CommonSlots DEF Preferred
  <2>3. \A d \in Classes : run_queues[d] # <<>> => d \in NonEmpty(run_queues)
    BY DEF NonEmpty
  <2>4. /\ k \in {0, 3, 6} /\ run_queues[System] # <<>> => c = System
        /\ k \in {2, 5} /\ run_queues[Interactive] # <<>> => c = Interactive
        /\ k = 4 /\ run_queues[AiInference] # <<>> => c = AiInference
    BY <1>3, <2>2, <2>3, PickRule DEF c
  <2>6. /\ k \in {0, 3, 6} => s1 = 0
        /\ k \in {2, 5} => i1 = 0
        /\ k = 4 => a1 = 0
    BY <1>b, <2>4
  <2> HIDE DEF s, i, a, s1, i1, a1
  <2> DEFINE k1 == (k + 1) % 8
  <2>7. k1 \in 0 .. 7 /\ s1 <= SinceSystem(k1)
    BY <1>1, <1>d, <2>6 DEF SinceSystem
  <2>8. i1 <= SinceInteractive(k1)
    BY <1>1, <1>d, <2>6 DEF SinceInteractive
  <2>9. a1 <= SinceAiInference(k1)
    BY <1>1, <1>d, <2>6 DEF SinceAiInference
  <2> QED BY <1>e, <2>1, <2>7, <2>8, <2>9
<1> QED BY <1>2, <1>3

LEMMA InitRotation == FairnessInit => Rotation
BY DEF FairnessInit, RunQueuesInit, Rotation, Levels, SinceSystem, SinceInteractive,
       SinceAiInference

LEMMA NextRotation == Rotation /\ [FairnessNext]_fvars => Rotation'
<1> SUFFICES ASSUME Rotation, [FairnessNext]_fvars PROVE Rotation'
  OBVIOUS
<1>1. CASE PickNext
  BY <1>1, PickRotation
<1>2. ASSUME NEW t \in Tasks, Enqueue(t) PROVE Rotation'
  BY <1>2 DEF Enqueue, Rotation, SinceSystem, SinceInteractive, SinceAiInference
<1>3. ASSUME NEW t \in Tasks, Dequeue(t) PROVE Rotation'
  <2>1. /\ waited' \in [Classes -> Nat]
        /\ \A d \in Classes : waited'[d] = 0 \/ waited'[d] = waited[d]
        /\ pick_counter' = pick_counter /\ thermal' = thermal
    BY <1>3 DEF Dequeue, Rotation
  <2> QED BY <2>1 DEF Rotation, SinceSystem, SinceInteractive, SinceAiInference
<1>4. ASSUME NEW x \in Temperatures, SetCpuTemperature(x) PROVE Rotation'
  <2>1. /\ waited' \in [Classes -> Nat]
        /\ \A d \in Classes \ {Background} : waited'[d] = waited[d]
    BY <1>4 DEF SetCpuTemperature, Rotation
  <2> QED BY <1>4, <2>1 DEF SetCpuTemperature, thermal_level, Levels, Rotation,
                            SinceSystem, SinceInteractive, SinceAiInference
<1>5. CASE UNCHANGED fvars
  BY <1>5 DEF fvars, Rotation, SinceSystem, SinceInteractive, SinceAiInference
<1> QED BY <1>1, <1>2, <1>3, <1>4, <1>5 DEF FairnessNext

\* Whatever tasks run, wake, yield and exit, and however the temperature
\* moves, System, Interactive and AiInference never wait longer than the
\* rotation of ADR-0025 promises: the thermal cycles keep their slots.
THEOREM RotationBoundsWait == FairnessSpec => []WaitBounded
<1>1. FairnessInit => Rotation
  BY InitRotation
<1>2. Rotation /\ [FairnessNext]_fvars => Rotation'
  BY NextRotation
<1>3. Rotation => WaitBounded
  BY DEF Rotation, WaitBounded, SinceSystem, SinceInteractive, SinceAiInference
<1> QED BY <1>1, <1>2, <1>3, PTL DEF FairnessSpec

----------------------------------------------------------------------------
\* On a cool CPU the last slot of the cycle is Background's.
CoolRotation ==
    /\ Rotation
    /\ thermal = "Normal" => waited[Background] <= pick_counter

LEMMA NextCoolRotation == CoolRotation /\ [FairnessNext]_fvars => CoolRotation'
<1> SUFFICES ASSUME CoolRotation, [FairnessNext]_fvars PROVE CoolRotation'
  OBVIOUS
<1>1. Rotation'
  BY NextRotation DEF CoolRotation
<1>2. CASE PickNext
  <2> DEFINE c == PickClass(run_queues)
  <2>1. /\ thermal' = thermal /\ pick_counter \in 0 .. 7 /\ waited[Background] \in Nat
        /\ waited'[Background] =
            IF c = Background \/ run_queues[Background] = <<>> THEN 0
            ELSE IF c = RealTime THEN waited[Background]
            ELSE IF waited[Background] < WaitCap THEN waited[Background] + 1
            ELSE waited[Background]
    BY <1>2 DEF PickNext, CoolRotation, Rotation
  <2>2. CASE RealTime \in NonEmpty(run_queues)
    <3>1. c = RealTime /\ pick_counter' = pick_counter
      BY <1>2, <2>2 DEF PickClass, PickNext, AdvanceCounter
    <3> QED BY <1>1, <2>1, <3>1 DEF CoolRotation
  <2>3. CASE RealTime \notin NonEmpty(run_queues)
    <3>1. pick_counter' = (pick_counter + 1) % 8
      BY <1>2, <2>3 DEF PickNext, AdvanceCounter
    <3>2. thermal = "Normal" /\ pick_counter = 7 => Preferred = Background
      BY DEF Preferred, FairnessCycleFor, FAIRNESS_CYCLE
    <3>3. thermal = "Normal" /\ pick_counter = 7 /\ run_queues[Background] # <<>>
            => c = Background
      BY <2>3, <3>2, PickRule DEF NonEmpty
    <3>4. /\ thermal = "Normal" /\ pick_counter = 7 => waited'[Background] = 0
          /\ waited'[Background] = 0 \/ waited'[Background] <= waited[Background] + 1
      BY <2>1, <3>3
    <3> HIDE DEF c
    <3> QED BY <1>1, <2>1, <3>1, <3>4 DEF CoolRotation
  <2> QED BY <2>2, <2>3
<1>3. ASSUME NEW t \in Tasks, Enqueue(t) PROVE CoolRotation'
  BY <1>1, <1>3 DEF Enqueue, CoolRotation
<1>4. ASSUME NEW t \in Tasks, Dequeue(t) PROVE CoolRotation'
  <2>1. /\ waited'[Background] = 0 \/ waited'[Background] = waited[Background]
        /\ pick_counter' = pick_counter /\ thermal' = thermal
    BY <1>4 DEF Dequeue
  <2> QED BY <1>1, <2>1 DEF CoolRotation, Rotation
<1>5. ASSUME NEW x \in Temperatures, SetCpuTemperature(x) PROVE CoolRotation'
  <2>1. /\ pick_counter' = pick_counter /\ pick_counter \in 0 .. 7
        /\ thermal' = thermal => waited' = waited
        /\ thermal' # thermal => waited'[Background] = 0
    BY <1>5 DEF SetCpuTemperature, CoolRotation, Rotation
  <2> QED BY <1>1, <2>1 DEF CoolRotation
<1>6. CASE UNCHANGED fvars
  BY <1>1, <1>6 DEF fvars, CoolRotation
<1> QED BY <1>2, <1>3, <1>4, <1>5, <1>6 DEF FairnessNext

\* Whatever the temperature did before, from the moment the CPU is cool the
\* front of the Background queue is passed over at most seven times.
THEOREM CoolCpuServesBackground == FairnessSpec => []BackgroundWaitBounded
<1>1. FairnessInit => CoolRotation
  BY InitRotation DEF FairnessInit, RunQueuesInit, CoolRotation
<1>2. CoolRotation /\ [FairnessNext]_fvars => CoolRotation'
  BY NextCoolRotation
<1>3. CoolRotation => BackgroundWaitBounded
  BY DEF CoolRotation, Rotation, BackgroundWaitBounded
<1> QED BY <1>1, <1>2, <1>3, PTL DEF FairnessSpec
=============================================================================
