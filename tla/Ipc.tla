-------------------------------- MODULE Ipc --------------------------------
(***************************************************************************)
(* The kernel IPC registry (nexacore-kernel/src/ipc.rs) together with the  *)
(* system-call handlers that drive it (ipc_handlers and task_exit of       *)
(* bare_metal/syscall_entry.rs) and the interrupt path that also sends     *)
(* (irq_notify of irq_table.rs).                                           *)
(*                                                                         *)
(* The scheduler is abstract here: a task whose state is "Runnable" may    *)
(* execute its next step at any time.  The kernel masks interrupts from    *)
(* SYSCALL entry to the return or to the switch inside yield_current, so   *)
(* the unit of atomicity is one pass through the loop of a handler: from   *)
(* entry (or from the return of park_until_woken) to the return to user    *)
(* mode (or to the next park_until_woken).                                 *)
(*                                                                         *)
(* `calls' records what a parked handler still has on its kernel stack:    *)
(* the arguments of the system call it will retry when it is resumed.      *)
(***************************************************************************)
EXTENDS Integers, Sequences, FiniteSets

CONSTANTS
    Tasks,              \* user tasks
    Principals,         \* kernel principals a PCB can carry
    PrincipalOf,        \* the principal in the PCB of each task
    Payloads,           \* message payloads (opaque to the kernel)
    Policies,           \* channel policies the tasks ask for
    MaxChannelsPerOwner,\* MAX_CHANNELS_PER_OWNER
    MaxChannelsTotal,   \* MAX_CHANNELS_TOTAL
    MaxChannelId,       \* bound: the last channel id a behaviour allocates
    IrqChannels,        \* ids a driver has bound to an interrupt vector
    KernelTask,         \* TaskId(0), the sender irq_notify passes
    KernelPrincipal,    \* KernelPrincipal::ZERO
    NoSubject           \* None: the direction is not authenticated

Backpressures == {"Block", "Drop", "EvictOldest"}

ASSUME IpcAssumption ==
    /\ IsFiniteSet(Tasks)
    /\ PrincipalOf \in [Tasks -> Principals]
    /\ Policies \subseteq
         [queue_depth : Nat, backpressure : Backpressures]
    /\ MaxChannelsPerOwner \in Nat
    /\ MaxChannelsTotal \in Nat
    /\ MaxChannelId \in Nat
    /\ IrqChannels \subseteq 1 .. MaxChannelId
    /\ KernelTask \notin Tasks
    /\ NoSubject \notin Principals
    /\ KernelPrincipal # NoSubject

VARIABLES
    channels,           \* id -> what create_channel fixed, on the live ids
    queue,              \* id -> messages accepted and not yet delivered
    waiters_send,       \* id -> tasks parked on a full queue
    waiters_recv,       \* id -> tasks parked on an empty queue
    next_id,            \* the next id create_channel hands out
    state,              \* TaskState of each task, as far as IPC can tell
    calls               \* the blocking call a task is inside of, or NoCall

registry == <<channels, queue, waiters_send, waiters_recv, next_id>>
vars == <<channels, queue, waiters_send, waiters_recv, next_id, state, calls>>

Ids == 1 .. MaxChannelId
Senders == Tasks \cup {KernelTask}
Subjects == Principals \cup {NoSubject}
Envelopes == [sender : Senders, payload : Payloads]

\* The part of struct Channel that is immutable after creation.
Channel ==
    [policy       : Policies,
     owner        : Tasks,
     send_subject : Subjects,
     recv_subject : Subjects]

NoCall == [op |-> "none"]
SendCalls == [op : {"send"}, channel : Ids, payload : Payloads]
RecvCalls == [op : {"recv"}, channel : Ids]

Live == DOMAIN channels
OwnedBy(t) == {c \in Live : channels[c].owner = t}
Elements(s) == {s[i] : i \in 1 .. Len(s)}

----------------------------------------------------------------------------
(* KernelIpcRegistry::send and ::receive, one call each.  Woken is the     *)
(* task of the WakeAction::Wake they return, as a set of at most one task. *)

\* Mutants: a waiter that is not taken off its queue, or not woken.
PopFront_Peek(s) == s
Woken_Nobody(waiters) == {}

Depth(c) == channels[c].policy.queue_depth
Full(c) == Len(queue[c]) >= Depth(c)

MaySend(c, principal) == channels[c].send_subject \in {NoSubject, principal}
MayReceive(c, principal) == channels[c].recv_subject \in {NoSubject, principal}

PopFront(s) == IF s = <<>> THEN <<>> ELSE Tail(s)
Woken(waiters) == IF waiters = <<>> THEN {} ELSE {Head(waiters)}
PushOnce(s, t) == IF t \in Elements(s) THEN s ELSE Append(s, t)

\* Mutant: every full channel parks its senders, whatever its policy.
SendBlocks_AnyPolicy(c) == Full(c)

\* What a full queue does to a send, by policy.
SendRefused(c) == Full(c) /\ channels[c].policy.backpressure = "Drop"
SendBlocks(c) == Full(c) /\ channels[c].policy.backpressure = "Block"

\* send when it blocks: the sender is remembered, once; nothing is queued.
ParkSender(c, t) ==
    /\ waiters_send' = [waiters_send EXCEPT ![c] = PushOnce(@, t)]
    /\ UNCHANGED <<channels, queue, waiters_recv, next_id>>

\* send when it succeeds: EvictOldest drops the front to make room, and the
\* receiver that has waited longest is released.
Push(c, env) ==
    /\ queue' = [queue EXCEPT ![c] =
                    Append(IF Full(c) THEN PopFront(@) ELSE @, env)]
    /\ waiters_recv' = [waiters_recv EXCEPT ![c] = PopFront(@)]
    /\ UNCHANGED <<channels, waiters_send, next_id>>

\* receive on a queue with a message: the sender that has waited longest is
\* released.
Pop(c) ==
    /\ queue' = [queue EXCEPT ![c] = Tail(@)]
    /\ waiters_send' = [waiters_send EXCEPT ![c] = PopFront(@)]
    /\ UNCHANGED <<channels, waiters_recv, next_id>>

\* receive on an empty queue with blocking = true.
ParkReceiver(c, t) ==
    /\ waiters_recv' = [waiters_recv EXCEPT ![c] = PushOnce(@, t)]
    /\ UNCHANGED <<channels, queue, waiters_send, next_id>>

----------------------------------------------------------------------------
(* The handlers' side of the WakeAction contract.                          *)

Running(t) == state[t] = "Runnable"

\* unpark: scheduler.enqueue.  The kernel sentinel has no TCB, so enqueue
\* answers InvalidArgument for it and the handler drops the error.
Unpark(woken) ==
    state' = [t \in Tasks |-> IF t \in woken THEN "Runnable" ELSE state[t]]

ParkUntilWoken(t, call) ==
    /\ state' = [state EXCEPT ![t] = "BlockedOnIpc"]
    /\ calls' = [calls EXCEPT ![t] = call]

Return(t) == calls' = [calls EXCEPT ![t] = NoCall]

ReturnError(t) ==
    /\ Return(t)
    /\ UNCHANGED <<channels, queue, waiters_send, waiters_recv, next_id, state>>

----------------------------------------------------------------------------
Init ==
    /\ channels = [c \in {} |-> NoCall]
    /\ queue = [c \in Ids |-> <<>>]
    /\ waiters_send = [c \in Ids |-> <<>>]
    /\ waiters_recv = [c \in Ids |-> <<>>]
    /\ next_id = 1
    /\ state = [t \in Tasks |-> "Runnable"]
    /\ calls = [t \in Tasks |-> NoCall]

\* enforce_channel_quota
QuotaAllows(t) ==
    /\ Cardinality(Live) < MaxChannelsTotal
    /\ Cardinality(OwnedBy(t)) < MaxChannelsPerOwner

\* The insertion at the end of create_channel and create_channel_signed.
InsertChannel(ch) ==
    /\ channels' = [c \in Live \cup {next_id} |->
                      IF c = next_id THEN ch ELSE channels[c]]
    /\ next_id' = next_id + 1

\* IpcCreateChannel (20).  A refused request (zero depth, quota, a token
\* that does not verify) returns before the registry changes.
IpcCreateChannel(t, policy, send_subject, recv_subject) ==
    /\ Running(t)
    /\ calls[t] = NoCall
    /\ next_id <= MaxChannelId
    /\ policy.queue_depth # 0
    /\ QuotaAllows(t)
    /\ InsertChannel([policy |-> policy, owner |-> t,
                      send_subject |-> send_subject,
                      recv_subject |-> recv_subject])
    /\ UNCHANGED <<queue, waiters_send, waiters_recv, state, calls>>

\* IpcDestroyChannel (21), by the owner only.  Messages and wait queues go
\* away with the channel; the handler does not wake the waiters.
IpcDestroyChannel(t, c) ==
    /\ Running(t)
    /\ calls[t] = NoCall
    /\ c \in OwnedBy(t)
    /\ channels' = [d \in Live \ {c} |-> channels[d]]
    /\ queue' = [queue EXCEPT ![c] = <<>>]
    /\ waiters_send' = [waiters_send EXCEPT ![c] = <<>>]
    /\ waiters_recv' = [waiters_recv EXCEPT ![c] = <<>>]
    /\ UNCHANGED <<next_id, state, calls>>

\* One pass of the loop in ipc_send.
SendPass(t, c, payload) ==
    LET allowed == c \in Live /\ MaySend(c, PrincipalOf[t])
    IN \/ /\ allowed => SendRefused(c)
          /\ ReturnError(t)
       \/ /\ allowed
          /\ SendBlocks(c)
          /\ ParkSender(c, t)
          /\ ParkUntilWoken(t, [op |-> "send", channel |-> c,
                                payload |-> payload])
       \/ /\ allowed
          /\ ~SendBlocks(c)
          /\ ~SendRefused(c)
          /\ Push(c, [sender |-> t, payload |-> payload])
          /\ Unpark(Woken(waiters_recv[c]))
          /\ Return(t)

\* IpcSend (22): the first pass, and the pass after a wake-up.
IpcSend(t, c, payload) ==
    /\ Running(t)
    /\ calls[t] = NoCall
    /\ SendPass(t, c, payload)

IpcSendRetry(t) ==
    /\ Running(t)
    /\ calls[t].op = "send"
    /\ SendPass(t, calls[t].channel, calls[t].payload)

\* Taking the front message, shared by ipc_receive and ipc_try_receive.
ReceiveFront(t, c) ==
    /\ c \in Live
    /\ MayReceive(c, PrincipalOf[t])
    /\ queue[c] # <<>>
    /\ Pop(c)
    /\ Unpark(Woken(waiters_send[c]))
    /\ Return(t)

\* One pass of the loop in ipc_receive with blocking = 1.
ReceivePass(t, c) ==
    \/ ReceiveFront(t, c)
    \/ /\ c \in Live => ~MayReceive(c, PrincipalOf[t])
       /\ ReturnError(t)
    \/ /\ c \in Live
       /\ MayReceive(c, PrincipalOf[t])
       /\ queue[c] = <<>>
       /\ ParkReceiver(c, t)
       /\ ParkUntilWoken(t, [op |-> "recv", channel |-> c])

\* IpcReceive (23): the first pass, and the pass after a wake-up.
IpcReceive(t, c) ==
    /\ Running(t)
    /\ calls[t] = NoCall
    /\ ReceivePass(t, c)

IpcReceiveRetry(t) ==
    /\ Running(t)
    /\ calls[t].op = "recv"
    /\ ReceivePass(t, calls[t].channel)

\* IpcTryReceive (24), and IpcReceive with blocking = 0: an empty queue or
\* an error changes nothing.
IpcTryReceive(t, c) ==
    /\ Running(t)
    /\ calls[t] = NoCall
    /\ ReceiveFront(t, c)

\* irq_notify: the interrupt handler sends a Notification in the name of
\* TaskId(0) and throws the WakeAction (and any error) away.
IrqNotify(c, payload) ==
    /\ c \in IrqChannels \cap Live
    /\ MaySend(c, KernelPrincipal)
    /\ ~SendRefused(c)
    /\ IF SendBlocks(c) THEN ParkSender(c, KernelTask)
       ELSE Push(c, [sender |-> KernelTask, payload |-> payload])
    /\ UNCHANGED <<state, calls>>

\* TaskExit: the task leaves the scheduler; its channels stay.
TaskExit(t) ==
    /\ Running(t)
    /\ calls[t] = NoCall
    /\ state' = [state EXCEPT ![t] = "Terminated"]
    /\ UNCHANGED <<channels, queue, waiters_send, waiters_recv, next_id, calls>>

Retry(t) == IpcSendRetry(t) \/ IpcReceiveRetry(t)

Next ==
    \/ \E t \in Tasks, p \in Policies, s, r \in Subjects :
          IpcCreateChannel(t, p, s, r)
    \/ \E t \in Tasks, c \in Ids : IpcDestroyChannel(t, c)
    \/ \E t \in Tasks, c \in Ids, m \in Payloads : IpcSend(t, c, m)
    \/ \E t \in Tasks : IpcSendRetry(t)
    \/ \E t \in Tasks, c \in Ids : IpcReceive(t, c)
    \/ \E t \in Tasks : IpcReceiveRetry(t)
    \/ \E t \in Tasks, c \in Ids : IpcTryReceive(t, c)
    \/ \E c \in Ids, m \in Payloads : IrqNotify(c, m)
    \/ \E t \in Tasks : TaskExit(t)

\* A woken task is on a run queue and is eventually dispatched: the loop of
\* its handler then makes one more pass.  Nothing obliges a task to start
\* another system call.
Fairness == \A t \in Tasks : WF_vars(Retry(t))

Spec == Init /\ [][Next]_vars /\ Fairness
----------------------------------------------------------------------------
(* Properties.                                                             *)

Once(s) == \A i, j \in 1 .. Len(s) : s[i] = s[j] => i = j
Blocked(t) == state[t] = "BlockedOnIpc"
InSend(t, c) == calls[t].op = "send" /\ calls[t].channel = c
InReceive(t, c) == calls[t].op = "recv" /\ calls[t].channel = c

\* The tasks that were released from a wait queue of c and have not yet made
\* the pass of the handler loop that answers the wake-up.
WokenSenders(c) == {t \in Tasks : Running(t) /\ InSend(t, c)}
WokenReceivers(c) == {t \in Tasks : Running(t) /\ InReceive(t, c)}

\* Every variable has the shape the Rust types give it.
TypeOK ==
    /\ Live \subseteq Ids
    /\ channels \in [Live -> Channel]
    /\ queue \in [Ids -> Seq(Envelopes)]
    /\ waiters_send \in [Ids -> Seq(Senders)]
    /\ waiters_recv \in [Ids -> Seq(Tasks)]
    /\ next_id \in 1 .. MaxChannelId + 1
    /\ \A c \in Live : c < next_id
    /\ state \in [Tasks -> {"Runnable", "BlockedOnIpc", "Terminated"}]
    /\ calls \in [Tasks -> {NoCall} \cup SendCalls \cup RecvCalls]

\* What a parked handler keeps on its kernel stack stays valid until it runs
\* again: its channel id was handed out and never again, and while the channel
\* lives the checks the handler passed before parking would pass now.  A
\* channel that is gone has left neither messages nor waiters behind.
CallsStayValid ==
    /\ \A t \in Tasks, c \in Ids :
          /\ InSend(t, c) \/ InReceive(t, c) => c < next_id
          /\ InSend(t, c) /\ c \in Live =>
                /\ MaySend(c, PrincipalOf[t])
                /\ channels[c].policy.backpressure = "Block"
          /\ InReceive(t, c) /\ c \in Live => MayReceive(c, PrincipalOf[t])
    /\ \A c \in Live : Depth(c) # 0
    /\ \A c \in Ids \ Live :
          queue[c] = <<>> /\ waiters_send[c] = <<>> /\ waiters_recv[c] = <<>>

\* A wait queue names a task once, and only while that task is parked inside
\* the matching call on that channel: the dedup in send and receive and the
\* pop that goes with every wake-up keep run queue and wait queues disjoint.
WaitersAreParked ==
    \A c \in Live :
        /\ Once(waiters_send[c]) /\ Once(waiters_recv[c])
        /\ \A t \in Elements(waiters_send[c]) \ {KernelTask} :
              Blocked(t) /\ InSend(t, c)
        /\ \A t \in Elements(waiters_recv[c]) : Blocked(t) /\ InReceive(t, c)

\* Channels whose every operation is a system call.  irq_notify throws wake-ups
\* away, so the three properties below are not claimed where a driver has bound
\* an interrupt to the channel: IrqReceiverProgress says what such a channel
\* promises its driver.
TaskChannels == Live \ IrqChannels

\* A task parked on a channel that still exists is on the wait queue of that
\* channel, so the next counterpart operation can find it.
ParkedAreWaiters ==
    \A t \in Tasks : Blocked(t) =>
        \A c \in TaskChannels :
            /\ InSend(t, c) => t \in Elements(waiters_send[c])
            /\ InReceive(t, c) => t \in Elements(waiters_recv[c])

\* No lost wake-up on the receive side: while a receiver sleeps on a channel,
\* every queued message is matched by a receiver that was already woken and
\* has still to run, even when a third task steals messages in between.
NoLostReceiverWakeup ==
    \A c \in TaskChannels : waiters_recv[c] # <<>> =>
        Len(queue[c]) <= Cardinality(WokenReceivers(c))

\* No lost wake-up on the send side: while a sender sleeps on a channel, every
\* free place in the queue is matched by a sender that was already woken.
NoLostSenderWakeup ==
    \A c \in TaskChannels : waiters_send[c] # <<>> =>
        Depth(c) - Len(queue[c]) <= Cardinality(WokenSenders(c))

\* Whatever third tasks do between a wake-up and the turn of the task it was
\* for, no wake-up of the syscall layer is lost.
NoLostWakeup == ParkedAreWaiters /\ NoLostReceiverWakeup /\ NoLostSenderWakeup

\* The queue never outgrows the depth its policy asked for, and only a channel
\* with the Block policy has parked senders.
QueueBounded ==
    \A c \in Live :
        /\ Len(queue[c]) <= Depth(c)
        /\ waiters_send[c] # <<>> =>
              channels[c].policy.backpressure = "Block"

\* A message waiting on a channel with a send subject was put there by a task
\* that carries that principal, also when the send was parked and retried.
AuthenticSenders ==
    \A c \in Live : \A i \in 1 .. Len(queue[c]) :
        LET s == queue[c][i].sender
        IN channels[c].send_subject \in
             {NoSubject, IF s = KernelTask THEN KernelPrincipal
                         ELSE PrincipalOf[s]}

ReceiverServed(t, c) ==
    (c \in Live /\ Blocked(t) /\ InReceive(t, c) /\ queue[c] # <<>>)
    ~> (c \notin Live \/ ~Blocked(t) \/ queue[c] = <<>>)

SenderServed(t, c) ==
    (c \in Live /\ Blocked(t) /\ InSend(t, c) /\ ~Full(c))
    ~> (c \notin Live \/ ~Blocked(t) \/ Full(c))

\* A parked receiver and a queued message do not look at each other for ever:
\* the receiver is woken, or other receivers drain the queue.
ReceiverProgress ==
    \A t \in Tasks, c \in Ids \ IrqChannels : ReceiverServed(t, c)

\* The same for a parked sender and a queue with room.
SenderProgress ==
    \A t \in Tasks, c \in Ids \ IrqChannels : SenderServed(t, c)

\* Both: nobody sleeps for ever on a channel that could serve him.
WaitersProgress == ReceiverProgress /\ SenderProgress

\* The WakeAction contract on a channel bound to an interrupt: the driver that
\* sleeps in IpcReceive is woken by the notification it waits for.
IrqReceiverProgress == \A t \in Tasks, c \in IrqChannels : ReceiverServed(t, c)
=============================================================================
