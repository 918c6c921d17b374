----------------------------- MODULE IpcProofs -----------------------------
(* Theorems about the IPC registry and its handlers, for every number of   *)
(* tasks, channels, policies and payloads.                                 *)
EXTENDS Ipc, FiniteSetTheorems, TLAPS

----------------------------------------------------------------------------
(* The sequence helpers.                                                   *)

\* VecDeque::pop_front: element type, length and the shift of the rest.
LEMMA PopFrontFacts ==
    ASSUME NEW S, NEW s \in Seq(S)
    PROVE  /\ PopFront(s) \in Seq(S)
           /\ s # <<>> => Len(PopFront(s)) = Len(s) - 1
           /\ s = <<>> => PopFront(s) = <<>>
           /\ \A i \in 1 .. Len(PopFront(s)) :
                 i + 1 \in 1 .. Len(s) /\ PopFront(s)[i] = s[i + 1]
<1>1. CASE s = <<>>
  BY <1>1 DEF PopFront
<1>2. CASE s # <<>>
  BY <1>2 DEF PopFront
<1> QED BY <1>1, <1>2

\* VecDeque::push_back.
LEMMA AppendFacts ==
    ASSUME NEW S, NEW s \in Seq(S), NEW e \in S
    PROVE  /\ Len(s) \in Nat
           /\ Len(Append(s, e)) = Len(s) + 1
           /\ Append(s, e)[Len(s) + 1] = e
           /\ \A i \in 1 .. Len(s) : Append(s, e)[i] = s[i]
OBVIOUS

\* The deduplicating push of send and receive.
LEMMA PushOnceFacts ==
    ASSUME NEW S, NEW s \in Seq(S), NEW t \in S
    PROVE  /\ PushOnce(s, t) \in Seq(S)
           /\ PushOnce(s, t) # <<>>
           /\ Elements(PushOnce(s, t)) = Elements(s) \cup {t}
<1>1. CASE t \in Elements(s)
  BY <1>1 DEF PushOnce, Elements
<1>2. CASE t \notin Elements(s)
  BY <1>2 DEF PushOnce, Elements
<1> QED BY <1>1, <1>2

----------------------------------------------------------------------------
(* Type correctness.                                                       *)

LEMMA InitTypeOK == Init => TypeOK
BY IpcAssumption DEF Init, TypeOK, Live, Ids, NoCall

LEMMA UnparkType ==
    ASSUME TypeOK, NEW woken, Unpark(woken)
    PROVE  state' \in [Tasks -> {"Runnable", "BlockedOnIpc", "Terminated"}]
BY DEF TypeOK, Unpark

LEMMA ReturnType ==
    ASSUME TypeOK, NEW t \in Tasks, Return(t)
    PROVE  calls' \in [Tasks -> {NoCall} \cup SendCalls \cup RecvCalls]
BY DEF TypeOK, Return

LEMMA PushType ==
    ASSUME TypeOK, NEW c \in Ids, NEW env \in Envelopes, Push(c, env)
    PROVE  /\ queue' \in [Ids -> Seq(Envelopes)]
           /\ waiters_recv' \in [Ids -> Seq(Tasks)]
<1>1. queue[c] \in Seq(Envelopes) /\ waiters_recv[c] \in Seq(Tasks)
  BY DEF TypeOK
<1>2. PopFront(queue[c]) \in Seq(Envelopes) /\ PopFront(waiters_recv[c]) \in Seq(Tasks)
  BY <1>1, PopFrontFacts
<1> QED BY <1>1, <1>2 DEF TypeOK, Push

LEMMA PopType ==
    ASSUME TypeOK, NEW c \in Ids, queue[c] # <<>>, Pop(c)
    PROVE  /\ queue' \in [Ids -> Seq(Envelopes)]
           /\ waiters_send' \in [Ids -> Seq(Senders)]
<1>1. queue[c] \in Seq(Envelopes) /\ waiters_send[c] \in Seq(Senders)
  BY DEF TypeOK
<1>2. PopFront(waiters_send[c]) \in Seq(Senders)
  BY <1>1, PopFrontFacts
<1>3. Tail(queue[c]) \in Seq(Envelopes)
  BY <1>1
<1> QED BY <1>2, <1>3 DEF TypeOK, Pop

LEMMA ParkSenderType ==
    ASSUME TypeOK, NEW c \in Ids, NEW t \in Senders, ParkSender(c, t)
    PROVE  waiters_send' \in [Ids -> Seq(Senders)]
<1>1. PushOnce(waiters_send[c], t) \in Seq(Senders)
  BY PushOnceFacts DEF TypeOK
<1> QED BY <1>1 DEF TypeOK, ParkSender

LEMMA ParkReceiverType ==
    ASSUME TypeOK, NEW c \in Ids, NEW t \in Tasks, ParkReceiver(c, t)
    PROVE  waiters_recv' \in [Ids -> Seq(Tasks)]
<1>1. PushOnce(waiters_recv[c], t) \in Seq(Tasks)
  BY PushOnceFacts DEF TypeOK
<1> QED BY <1>1 DEF TypeOK, ParkReceiver

LEMMA SendPassType ==
    ASSUME TypeOK, NEW t \in Tasks, NEW c \in Ids, NEW m \in Payloads,
           SendPass(t, c, m)
    PROVE  TypeOK'
<1>1. CASE ReturnError(t)
  <2>1. calls' \in [Tasks -> {NoCall} \cup SendCalls \cup RecvCalls]
    BY <1>1, ReturnType DEF ReturnError
  <2> QED BY <1>1, <2>1 DEF TypeOK, ReturnError, Live
<1>2. CASE ParkSender(c, t) /\ ParkUntilWoken(t, [op |-> "send", channel |-> c, payload |-> m])
  <2>1. waiters_send' \in [Ids -> Seq(Senders)]
    BY <1>2, ParkSenderType DEF Senders
  <2>2. [op |-> "send", channel |-> c, payload |-> m] \in SendCalls
    BY DEF SendCalls
  <2> QED BY <1>2, <2>1, <2>2 DEF TypeOK, ParkSender, ParkUntilWoken, Live
<1>3. CASE /\ Push(c, [sender |-> t, payload |-> m])
           /\ Unpark(Woken(waiters_recv[c]))
           /\ Return(t)
  <2>1. [sender |-> t, payload |-> m] \in Envelopes
    BY DEF Envelopes, Senders
  <2>2. /\ queue' \in [Ids -> Seq(Envelopes)]
        /\ waiters_recv' \in [Ids -> Seq(Tasks)]
    BY <1>3, <2>1, PushType
  <2>3. state' \in [Tasks -> {"Runnable", "BlockedOnIpc", "Terminated"}]
    BY <1>3, UnparkType
  <2>4. calls' \in [Tasks -> {NoCall} \cup SendCalls \cup RecvCalls]
    BY <1>3, ReturnType
  <2> QED BY <1>3, <2>2, <2>3, <2>4 DEF TypeOK, Push, Live
<1> QED BY <1>1, <1>2, <1>3 DEF SendPass

LEMMA ReceiveFrontType ==
    ASSUME TypeOK, NEW t \in Tasks, NEW c \in Ids, ReceiveFront(t, c)
    PROVE  TypeOK'
<1>1. /\ queue' \in [Ids -> Seq(Envelopes)]
      /\ waiters_send' \in [Ids -> Seq(Senders)]
  BY PopType DEF ReceiveFront
<1>2. state' \in [Tasks -> {"Runnable", "BlockedOnIpc", "Terminated"}]
  BY UnparkType DEF ReceiveFront
<1>3. calls' \in [Tasks -> {NoCall} \cup SendCalls \cup RecvCalls]
  BY ReturnType DEF ReceiveFront
<1> QED BY <1>1, <1>2, <1>3 DEF TypeOK, ReceiveFront, Pop, Live

LEMMA ReceivePassType ==
    ASSUME TypeOK, NEW t \in Tasks, NEW c \in Ids, ReceivePass(t, c)
    PROVE  TypeOK'
<1>1. CASE ReceiveFront(t, c)
  BY <1>1, ReceiveFrontType
<1>2. CASE ReturnError(t)
  <2>1. calls' \in [Tasks -> {NoCall} \cup SendCalls \cup RecvCalls]
    BY <1>2, ReturnType DEF ReturnError
  <2> QED BY <1>2, <2>1 DEF TypeOK, ReturnError, Live
<1>3. CASE ParkReceiver(c, t) /\ ParkUntilWoken(t, [op |-> "recv", channel |-> c])
  <2>1. waiters_recv' \in [Ids -> Seq(Tasks)]
    BY <1>3, ParkReceiverType
  <2>2. [op |-> "recv", channel |-> c] \in RecvCalls
    BY DEF RecvCalls
  <2> QED BY <1>3, <2>1, <2>2 DEF TypeOK, ParkReceiver, ParkUntilWoken, Live
<1> QED BY <1>1, <1>2, <1>3 DEF ReceivePass

LEMMA CreateType ==
    ASSUME TypeOK, NEW t \in Tasks, NEW p \in Policies,
           NEW s \in Subjects, NEW r \in Subjects,
           IpcCreateChannel(t, p, s, r)
    PROVE  TypeOK'
<1>1. [policy |-> p, owner |-> t, send_subject |-> s, recv_subject |-> r] \in Channel
  BY DEF Channel
<1>2. Live' = Live \cup {next_id} /\ next_id \in Ids
  BY DEF IpcCreateChannel, InsertChannel, Live, TypeOK, Ids
<1>3. channels' \in [Live' -> Channel]
  BY <1>1, <1>2 DEF IpcCreateChannel, InsertChannel, TypeOK
<1>4. next_id' \in 1 .. MaxChannelId + 1 /\ \A c \in Live' : c < next_id'
  BY <1>2, IpcAssumption DEF IpcCreateChannel, InsertChannel, TypeOK, Ids
<1> QED BY <1>2, <1>3, <1>4 DEF IpcCreateChannel, InsertChannel, TypeOK

LEMMA DestroyType ==
    ASSUME TypeOK, NEW t \in Tasks, NEW c \in Ids, IpcDestroyChannel(t, c)
    PROVE  TypeOK'
<1>1. Live' = Live \ {c}
  BY DEF IpcDestroyChannel, Live
<1>2. channels' \in [Live' -> Channel]
  BY <1>1 DEF IpcDestroyChannel, TypeOK
<1> QED BY <1>1, <1>2 DEF IpcDestroyChannel, TypeOK

LEMMA IrqNotifyType ==
    ASSUME TypeOK, NEW c \in Ids, NEW m \in Payloads, IrqNotify(c, m)
    PROVE  TypeOK'
<1>1. [sender |-> KernelTask, payload |-> m] \in Envelopes /\ KernelTask \in Senders
  BY DEF Envelopes, Senders
<1>2. CASE ParkSender(c, KernelTask)
  <2>1. waiters_send' \in [Ids -> Seq(Senders)]
    BY <1>1, <1>2, ParkSenderType
  <2> QED BY <1>2, <2>1 DEF IrqNotify, ParkSender, TypeOK, Live
<1>3. CASE Push(c, [sender |-> KernelTask, payload |-> m])
  <2>1. /\ queue' \in [Ids -> Seq(Envelopes)]
        /\ waiters_recv' \in [Ids -> Seq(Tasks)]
    BY <1>1, <1>3, PushType
  <2> QED BY <1>3, <2>1 DEF IrqNotify, Push, TypeOK, Live
<1> QED BY <1>2, <1>3 DEF IrqNotify

LEMMA CallArguments ==
    ASSUME TypeOK, NEW t \in Tasks
    PROVE  /\ calls[t].op = "send" => calls[t].channel \in Ids /\ calls[t].payload \in Payloads
           /\ calls[t].op = "recv" => calls[t].channel \in Ids
BY DEF TypeOK, NoCall, SendCalls, RecvCalls

LEMMA NextTypeOK == TypeOK /\ [Next]_vars => TypeOK'
<1> SUFFICES ASSUME TypeOK, [Next]_vars PROVE TypeOK'
  OBVIOUS
<1>1. ASSUME NEW t \in Tasks, NEW p \in Policies, NEW s \in Subjects,
             NEW r \in Subjects, IpcCreateChannel(t, p, s, r)
      PROVE  TypeOK'
  BY <1>1, CreateType
<1>2. ASSUME NEW t \in Tasks, NEW c \in Ids, IpcDestroyChannel(t, c)
      PROVE  TypeOK'
  BY <1>2, DestroyType
<1>3. ASSUME NEW t \in Tasks, NEW c \in Ids, NEW m \in Payloads, IpcSend(t, c, m)
      PROVE  TypeOK'
  BY <1>3, SendPassType DEF IpcSend
<1>4. ASSUME NEW t \in Tasks, IpcSendRetry(t)
      PROVE  TypeOK'
  BY <1>4, SendPassType, CallArguments DEF IpcSendRetry
<1>5. ASSUME NEW t \in Tasks, NEW c \in Ids, IpcReceive(t, c)
      PROVE  TypeOK'
  BY <1>5, ReceivePassType DEF IpcReceive
<1>6. ASSUME NEW t \in Tasks, IpcReceiveRetry(t)
      PROVE  TypeOK'
  BY <1>6, ReceivePassType, CallArguments DEF IpcReceiveRetry
<1>7. ASSUME NEW t \in Tasks, NEW c \in Ids, IpcTryReceive(t, c)
      PROVE  TypeOK'
  BY <1>7, ReceiveFrontType DEF IpcTryReceive
<1>8. ASSUME NEW c \in Ids, NEW m \in Payloads, IrqNotify(c, m)
      PROVE  TypeOK'
  BY <1>8, IrqNotifyType
<1>9. ASSUME NEW t \in Tasks, TaskExit(t)
      PROVE  TypeOK'
  BY <1>9 DEF TaskExit, TypeOK, Live
<1>10. CASE UNCHANGED vars
  BY <1>10 DEF vars, TypeOK, Live
<1> QED BY <1>1, <1>2, <1>3, <1>4, <1>5, <1>6, <1>7, <1>8, <1>9, <1>10 DEF Next

\* The registry and the handlers keep every variable in its type, whatever
\* the tasks, the policies and the interrupts do.
THEOREM TypeCorrect == Spec => []TypeOK
<1>1. Init => TypeOK
  BY InitTypeOK
<1>2. TypeOK /\ [Next]_vars => TypeOK'
  BY NextTypeOK
<1> QED BY <1>1, <1>2, PTL DEF Spec

----------------------------------------------------------------------------
(* Every step is one of a few primitive effects.  The handlers reach each  *)
(* of them from the first pass of a call and from a retry; the invariant   *)
(* tells which call the acting task can be inside of.                      *)

\* The acting task is in user mode or inside a blocking send (receive) on c.
MayBeSending(t, c) ==
    /\ t \in Tasks
    /\ Running(t)
    /\ \A d \in Ids : ~InReceive(t, d) /\ (InSend(t, d) => d = c)
MayBeReceiving(t, c) ==
    /\ t \in Tasks
    /\ Running(t)
    /\ \A d \in Ids : ~InSend(t, d) /\ (InReceive(t, d) => d = c)

ErrorStep(t) ==
    /\ t \in Tasks
    /\ Running(t)
    /\ \A c \in Live : ~InSend(t, c) /\ ~InReceive(t, c)
    /\ ReturnError(t)

SendParks(t, c, m) ==
    /\ MayBeSending(t, c)
    /\ c \in Live
    /\ m \in Payloads
    /\ MaySend(c, PrincipalOf[t])
    /\ SendBlocks(c)
    /\ ParkSender(c, t)
    /\ ParkUntilWoken(t, [op |-> "send", channel |-> c, payload |-> m])

SendDone(t, c, m) ==
    /\ MayBeSending(t, c)
    /\ c \in Live
    /\ m \in Payloads
    /\ MaySend(c, PrincipalOf[t])
    /\ ~SendBlocks(c)
    /\ ~SendRefused(c)
    /\ Push(c, [sender |-> t, payload |-> m])
    /\ Unpark(Woken(waiters_recv[c]))
    /\ Return(t)

ReceiveDone(t, c) ==
    /\ MayBeReceiving(t, c)
    /\ ReceiveFront(t, c)

ReceiveParks(t, c) ==
    /\ MayBeReceiving(t, c)
    /\ c \in Live
    /\ MayReceive(c, PrincipalOf[t])
    /\ queue[c] = <<>>
    /\ ParkReceiver(c, t)
    /\ ParkUntilWoken(t, [op |-> "recv", channel |-> c])

Primitive ==
    \/ \E t \in Tasks : ErrorStep(t)
    \/ \E t \in Tasks, c \in Ids, m \in Payloads : SendParks(t, c, m)
    \/ \E t \in Tasks, c \in Ids, m \in Payloads : SendDone(t, c, m)
    \/ \E t \in Tasks, c \in Ids : ReceiveDone(t, c)
    \/ \E t \in Tasks, c \in Ids : ReceiveParks(t, c)
    \/ \E t \in Tasks, p \in Policies, s, r \in Subjects :
          IpcCreateChannel(t, p, s, r)
    \/ \E t \in Tasks, c \in Ids : IpcDestroyChannel(t, c)
    \/ \E c \in Ids, m \in Payloads : IrqNotify(c, m)
    \/ \E t \in Tasks : TaskExit(t)
    \/ UNCHANGED vars

LEMMA NotInCall ==
    ASSUME NEW t \in Tasks, calls[t] = NoCall
    PROVE  \A c : ~InSend(t, c) /\ ~InReceive(t, c)
BY DEF NoCall, InSend, InReceive

LEMMA SendPassPrimitive ==
    ASSUME TypeOK, CallsStayValid, NEW t \in Tasks, NEW c \in Ids,
           NEW m \in Payloads, MayBeSending(t, c), SendPass(t, c, m)
    PROVE  Primitive
<1>1. CASE /\ (c \in Live /\ MaySend(c, PrincipalOf[t])) => SendRefused(c)
           /\ ReturnError(t)
  <2>1. \A d \in Live : ~InSend(t, d) /\ ~InReceive(t, d)
    BY <1>1 DEF TypeOK, CallsStayValid, MayBeSending, SendRefused
  <2> QED BY <1>1, <2>1 DEF Primitive, ErrorStep, MayBeSending
<1>2. CASE SendParks(t, c, m) \/ SendDone(t, c, m)
  BY <1>2 DEF Primitive
<1> QED BY <1>1, <1>2 DEF SendPass, SendParks, SendDone

LEMMA ReceivePassPrimitive ==
    ASSUME TypeOK, CallsStayValid, NEW t \in Tasks, NEW c \in Ids,
           MayBeReceiving(t, c), ReceivePass(t, c)
    PROVE  Primitive
<1>1. CASE /\ c \in Live => ~MayReceive(c, PrincipalOf[t])
           /\ ReturnError(t)
  <2>1. \A d \in Live : ~InSend(t, d) /\ ~InReceive(t, d)
    BY <1>1 DEF TypeOK, CallsStayValid, MayBeReceiving
  <2> QED BY <1>1, <2>1 DEF Primitive, ErrorStep, MayBeReceiving
<1>2. CASE ReceiveParks(t, c) \/ ReceiveDone(t, c)
  BY <1>2 DEF Primitive
<1> QED BY <1>1, <1>2 DEF ReceivePass, ReceiveParks, ReceiveDone

LEMMA NextIsPrimitive ==
    ASSUME TypeOK, CallsStayValid, [Next]_vars
    PROVE  Primitive
<1>1. ASSUME NEW t \in Tasks, NEW c \in Ids, NEW m \in Payloads, IpcSend(t, c, m)
      PROVE  Primitive
  <2>1. MayBeSending(t, c)
    BY <1>1, NotInCall DEF IpcSend, MayBeSending
  <2> QED BY <1>1, <2>1, SendPassPrimitive DEF IpcSend
<1>2. ASSUME NEW t \in Tasks, IpcSendRetry(t)
      PROVE  Primitive
  <2>1. MayBeSending(t, calls[t].channel)
    BY <1>2 DEF IpcSendRetry, MayBeSending, InSend, InReceive
  <2> QED BY <1>2, <2>1, CallArguments, SendPassPrimitive DEF IpcSendRetry
<1>3. ASSUME NEW t \in Tasks, NEW c \in Ids, IpcReceive(t, c)
      PROVE  Primitive
  <2>1. MayBeReceiving(t, c)
    BY <1>3, NotInCall DEF IpcReceive, MayBeReceiving
  <2> QED BY <1>3, <2>1, ReceivePassPrimitive DEF IpcReceive
<1>4. ASSUME NEW t \in Tasks, IpcReceiveRetry(t)
      PROVE  Primitive
  <2>1. MayBeReceiving(t, calls[t].channel)
    BY <1>4 DEF IpcReceiveRetry, MayBeReceiving, InSend, InReceive
  <2> QED BY <1>4, <2>1, CallArguments, ReceivePassPrimitive DEF IpcReceiveRetry
<1>5. ASSUME NEW t \in Tasks, NEW c \in Ids, IpcTryReceive(t, c)
      PROVE  Primitive
  <2>1. MayBeReceiving(t, c)
    BY <1>5, NotInCall DEF IpcTryReceive, MayBeReceiving
  <2> QED BY <1>5, <2>1 DEF IpcTryReceive, ReceiveDone, Primitive
<1> QED BY <1>1, <1>2, <1>3, <1>4, <1>5 DEF Next, Primitive

----------------------------------------------------------------------------
(* What the primitives do to wait queues and to the calls of the tasks.    *)

LEMMA PopFrontElements ==
    ASSUME NEW S, NEW s \in Seq(S), Once(s)
    PROVE  /\ Once(PopFront(s))
           /\ Elements(PopFront(s)) = Elements(s) \ Woken(s)
           /\ Woken(s) \subseteq Elements(s)
<1>1. CASE s = <<>>
  BY <1>1 DEF PopFront, Once, Elements, Woken
<1>2. CASE s # <<>>
  <2>1. /\ Tail(s) \in Seq(S) /\ Len(Tail(s)) = Len(s) - 1
        /\ \A i \in 1 .. Len(Tail(s)) : Tail(s)[i] = s[i + 1]
        /\ Len(s) \in Nat \ {0} /\ Head(s) = s[1]
    BY <1>2
  <2>2. Once(Tail(s))
    BY <2>1 DEF Once
  <2>3. Elements(Tail(s)) \subseteq Elements(s) \ {s[1]}
    <3>1. SUFFICES ASSUME NEW i \in 1 .. Len(Tail(s))
                   PROVE  Tail(s)[i] \in Elements(s) \ {s[1]}
      BY DEF Elements
    <3>2. i + 1 \in 1 .. Len(s) /\ i + 1 # 1 /\ Tail(s)[i] = s[i + 1]
      BY <2>1
    <3> QED BY <2>1, <3>2 DEF Elements, Once
  <2>4. Elements(s) \ {s[1]} \subseteq Elements(Tail(s))
    <3>1. SUFFICES ASSUME NEW i \in 1 .. Len(s), s[i] # s[1]
                   PROVE  s[i] \in Elements(Tail(s))
      BY DEF Elements
    <3>2. i - 1 \in 1 .. Len(Tail(s)) /\ Tail(s)[i - 1] = s[i]
      BY <2>1, <3>1
    <3> QED BY <3>2 DEF Elements
  <2>5. PopFront(s) = Tail(s) /\ Woken(s) = {s[1]}
    BY <1>2, <2>1 DEF PopFront, Woken
  <2>6. s[1] \in Elements(s)
    BY <2>1 DEF Elements
  <2> QED BY <2>2, <2>3, <2>4, <2>5, <2>6
<1> QED BY <1>1, <1>2

LEMMA PushOnceOnce ==
    ASSUME NEW S, NEW s \in Seq(S), NEW t \in S, Once(s)
    PROVE  Once(PushOnce(s, t))
<1>1. CASE t \in Elements(s)
  BY <1>1 DEF PushOnce
<1>2. CASE t \notin Elements(s)
  BY <1>2 DEF PushOnce, Once, Elements
<1> QED BY <1>1, <1>2

LEMMA NonEmptyElements ==
    ASSUME NEW S, NEW s \in Seq(S)
    PROVE  /\ s = <<>> <=> Elements(s) = {}
           /\ Elements(s) \subseteq S
<1>1. CASE s = <<>>
  BY <1>1 DEF Elements
<1>2. CASE s # <<>>
  BY <1>2 DEF Elements
<1> QED BY <1>1, <1>2

\* A return empties the call of the task that returns, and no other.
LEMMA ReturnCalls ==
    ASSUME TypeOK, NEW t \in Tasks, Return(t)
    PROVE  \A u \in Tasks, d \in Ids :
              /\ InSend(u, d)' <=> u # t /\ InSend(u, d)
              /\ InReceive(u, d)' <=> u # t /\ InReceive(u, d)
BY DEF TypeOK, Return, InSend, InReceive, NoCall

\* Parking makes one task blocked inside one call.
LEMMA ParkCalls ==
    ASSUME TypeOK, NEW t \in Tasks, NEW call, ParkUntilWoken(t, call)
    PROVE  /\ \A u \in Tasks : u # t =>
                /\ state'[u] = state[u]
                /\ \A d \in Ids : /\ InSend(u, d)' <=> InSend(u, d)
                                  /\ InReceive(u, d)' <=> InReceive(u, d)
           /\ state'[t] = "BlockedOnIpc"
           /\ calls'[t] = call
BY DEF TypeOK, ParkUntilWoken, InSend, InReceive

----------------------------------------------------------------------------
(* The safety invariant, one lemma per primitive.                          *)

Safety ==
    /\ TypeOK
    /\ CallsStayValid
    /\ WaitersAreParked
    /\ QueueBounded
    /\ AuthenticSenders

\* A task on a wait queue of a channel cannot be on any other wait queue.
LEMMA OneWaitQueue ==
    ASSUME NEW t \in Tasks, NEW c \in Ids, NEW d \in Ids
    PROVE  /\ InSend(t, c) => ~InReceive(t, d) /\ (InSend(t, d) => c = d)
           /\ InReceive(t, c) => ~InSend(t, d) /\ (InReceive(t, d) => c = d)
BY DEF InSend, InReceive

LEMMA ErrorStepSafety ==
    ASSUME Safety, TypeOK', NEW t \in Tasks, ErrorStep(t)
    PROVE  Safety'
<1> USE DEF Safety
<1>1. \A u \in Tasks, d \in Ids :
         /\ InSend(u, d)' <=> u # t /\ InSend(u, d)
         /\ InReceive(u, d)' <=> u # t /\ InReceive(u, d)
  BY ReturnCalls DEF ErrorStep, ReturnError
<1>2. Live' = Live /\ Live \subseteq Ids
  BY DEF ErrorStep, ReturnError, Live, TypeOK
<1>3. CallsStayValid'
  BY <1>1, <1>2 DEF CallsStayValid, ErrorStep, ReturnError, MaySend, MayReceive, Depth
<1>4. WaitersAreParked'
  <2>1. ASSUME NEW c \in Live
        PROVE  /\ Elements(waiters_send[c]) \ {KernelTask} \subseteq Tasks
               /\ Elements(waiters_recv[c]) \subseteq Tasks
    BY <1>2, NonEmptyElements DEF TypeOK, Senders
  <2> QED BY <1>1, <1>2, <2>1 DEF WaitersAreParked, ErrorStep, ReturnError, Blocked, Running
<1>5. QueueBounded' /\ AuthenticSenders'
  BY <1>2 DEF QueueBounded, AuthenticSenders, ErrorStep, ReturnError, Depth
<1> QED BY <1>3, <1>4, <1>5

LEMMA SendParksSafety ==
    ASSUME Safety, TypeOK', NEW t \in Tasks, NEW c \in Ids, NEW m \in Payloads,
           SendParks(t, c, m)
    PROVE  Safety'
<1> USE DEF Safety
<1>1. /\ \A u \in Tasks : u # t =>
            /\ state'[u] = state[u]
            /\ \A d \in Ids : /\ InSend(u, d)' <=> InSend(u, d)
                              /\ InReceive(u, d)' <=> InReceive(u, d)
      /\ state'[t] = "BlockedOnIpc"
      /\ calls'[t] = [op |-> "send", channel |-> c, payload |-> m]
  BY ParkCalls DEF SendParks
<1>2. \A d \in Ids : (InSend(t, d)' <=> d = c) /\ ~InReceive(t, d)'
  BY <1>1 DEF InSend, InReceive
<1>3. /\ Live' = Live /\ Live \subseteq Ids /\ c \in Live /\ c < next_id
      /\ channels' = channels /\ queue' = queue
      /\ waiters_recv' = waiters_recv /\ next_id' = next_id
      /\ MaySend(c, PrincipalOf[t]) /\ channels[c].policy.backpressure = "Block"
  BY DEF SendParks, SendBlocks, ParkSender, Live, TypeOK
<1>4. \A d \in Ids : waiters_send'[d] =
         IF d = c THEN PushOnce(waiters_send[c], t) ELSE waiters_send[d]
  BY DEF SendParks, ParkSender, TypeOK
<1>5. CallsStayValid'
  BY <1>1, <1>2, <1>3, <1>4 DEF CallsStayValid, MaySend, MayReceive, Depth
<1>6. WaitersAreParked'
  <2>1. ASSUME NEW d \in Live
        PROVE  /\ Elements(waiters_send[d]) \ {KernelTask} \subseteq Tasks
               /\ Elements(waiters_recv[d]) \subseteq Tasks
    BY <1>3, NonEmptyElements DEF TypeOK, Senders
  <2>2. /\ Once(PushOnce(waiters_send[c], t))
        /\ Elements(PushOnce(waiters_send[c], t)) = Elements(waiters_send[c]) \cup {t}
    <3>1. waiters_send[c] \in Seq(Senders) /\ t \in Senders /\ Once(waiters_send[c])
      BY <1>3 DEF TypeOK, WaitersAreParked, Senders
    <3> QED BY <3>1, PushOnceOnce, PushOnceFacts
  <2>3. ASSUME NEW d \in Live, NEW u \in Elements(waiters_recv[d])
        PROVE  (Blocked(u) /\ InReceive(u, d))'
    BY <1>1, <1>3, <2>1 DEF WaitersAreParked, SendParks, MayBeSending, Running, Blocked
  <2>4. ASSUME NEW d \in Live, NEW u \in Elements(waiters_send'[d]) \ {KernelTask}
        PROVE  (Blocked(u) /\ InSend(u, d))'
    <3>1. CASE u = t /\ d = c
      BY <1>1, <1>2, <3>1 DEF Blocked
    <3>2. CASE u \in Elements(waiters_send[d])
      <4>1. u \in Tasks /\ u # t /\ Blocked(u) /\ InSend(u, d)
        BY <2>1, <2>4, <3>2
           DEF WaitersAreParked, SendParks, MayBeSending, Running, Blocked
      <4> QED BY <1>1, <1>3, <4>1 DEF Blocked
    <3> QED BY <1>3, <1>4, <2>2, <2>4, <3>1, <3>2
  <2>5. ASSUME NEW d \in Live
        PROVE  Once(waiters_send'[d]) /\ Once(waiters_recv'[d])
    BY <1>3, <1>4, <2>2 DEF WaitersAreParked
  <2> QED BY <1>3, <2>3, <2>4, <2>5 DEF WaitersAreParked, Once, Elements
<1>7. QueueBounded' /\ AuthenticSenders'
  BY <1>3, <1>4 DEF QueueBounded, AuthenticSenders, Depth
<1> QED BY <1>5, <1>6, <1>7

LEMMA ReceiveParksSafety ==
    ASSUME Safety, TypeOK', NEW t \in Tasks, NEW c \in Ids, ReceiveParks(t, c)
    PROVE  Safety'
<1> USE DEF Safety
<1>1. /\ \A u \in Tasks : u # t =>
            /\ state'[u] = state[u]
            /\ \A d \in Ids : /\ InSend(u, d)' <=> InSend(u, d)
                              /\ InReceive(u, d)' <=> InReceive(u, d)
      /\ state'[t] = "BlockedOnIpc"
      /\ calls'[t] = [op |-> "recv", channel |-> c]
  BY ParkCalls DEF ReceiveParks
<1>2. \A d \in Ids : (InReceive(t, d)' <=> d = c) /\ ~InSend(t, d)'
  BY <1>1 DEF InSend, InReceive
<1>3. /\ Live' = Live /\ Live \subseteq Ids /\ c \in Live /\ c < next_id
      /\ channels' = channels /\ queue' = queue
      /\ waiters_send' = waiters_send /\ next_id' = next_id
      /\ MayReceive(c, PrincipalOf[t])
  BY DEF ReceiveParks, ParkReceiver, Live, TypeOK
<1>4. \A d \in Ids : waiters_recv'[d] =
         IF d = c THEN PushOnce(waiters_recv[c], t) ELSE waiters_recv[d]
  BY DEF ReceiveParks, ParkReceiver, TypeOK
<1>5. CallsStayValid'
  BY <1>1, <1>2, <1>3, <1>4 DEF CallsStayValid, MaySend, MayReceive, Depth
<1>6. WaitersAreParked'
  <2>1. ASSUME NEW d \in Live
        PROVE  /\ Elements(waiters_send[d]) \ {KernelTask} \subseteq Tasks
               /\ Elements(waiters_recv[d]) \subseteq Tasks
    BY <1>3, NonEmptyElements DEF TypeOK, Senders
  <2>2. /\ Once(PushOnce(waiters_recv[c], t))
        /\ Elements(PushOnce(waiters_recv[c], t)) = Elements(waiters_recv[c]) \cup {t}
    <3>1. waiters_recv[c] \in Seq(Tasks) /\ Once(waiters_recv[c])
      BY <1>3 DEF TypeOK, WaitersAreParked
    <3> QED BY <3>1, PushOnceOnce, PushOnceFacts
  <2>3. ASSUME NEW d \in Live, NEW u \in Elements(waiters_send[d]) \ {KernelTask}
        PROVE  (Blocked(u) /\ InSend(u, d))'
    BY <1>1, <1>3, <2>1 DEF WaitersAreParked, ReceiveParks, MayBeReceiving, Running, Blocked
  <2>4. ASSUME NEW d \in Live, NEW u \in Elements(waiters_recv'[d])
        PROVE  (Blocked(u) /\ InReceive(u, d))'
    <3>1. CASE u = t /\ d = c
      BY <1>1, <1>2, <3>1 DEF Blocked
    <3>2. CASE u \in Elements(waiters_recv[d])
      <4>1. u \in Tasks /\ u # t /\ Blocked(u) /\ InReceive(u, d)
        BY <2>1, <2>4, <3>2
           DEF WaitersAreParked, ReceiveParks, MayBeReceiving, Running, Blocked
      <4> QED BY <1>1, <1>3, <4>1 DEF Blocked
    <3> QED BY <1>3, <1>4, <2>2, <2>4, <3>1, <3>2
  <2>5. ASSUME NEW d \in Live
        PROVE  Once(waiters_send'[d]) /\ Once(waiters_recv'[d])
    BY <1>3, <1>4, <2>2 DEF WaitersAreParked
  <2> QED BY <1>3, <2>3, <2>4, <2>5 DEF WaitersAreParked, Once, Elements
<1>7. QueueBounded' /\ AuthenticSenders'
  BY <1>3, <1>4 DEF QueueBounded, AuthenticSenders, Depth
<1> QED BY <1>5, <1>6, <1>7

\* A push keeps the queue within its depth and its senders authentic.
LEMMA PushQueue ==
    ASSUME Safety, TypeOK', NEW c \in Live, NEW env \in Envelopes, Push(c, env),
           ~SendBlocks(c), ~SendRefused(c),
           channels[c].send_subject \in
             {NoSubject, IF env.sender = KernelTask THEN KernelPrincipal
                         ELSE PrincipalOf[env.sender]}
    PROVE  QueueBounded' /\ AuthenticSenders'
<1> USE DEF Safety
<1>1. /\ Live' = Live /\ Live \subseteq Ids /\ c \in Ids
      /\ channels' = channels /\ waiters_send' = waiters_send
  BY DEF Push, Live, TypeOK
<1>2. /\ queue[c] \in Seq(Envelopes) /\ Depth(c) \in Nat \ {0}
      /\ Len(queue[c]) <= Depth(c)
      /\ channels[c].policy.backpressure \in Backpressures
  BY <1>1, IpcAssumption DEF TypeOK, QueueBounded, CallsStayValid, Depth, Channel
<1> DEFINE base == IF Full(c) THEN PopFront(queue[c]) ELSE queue[c]
<1>3. /\ base \in Seq(Envelopes) /\ Len(base) + 1 <= Depth(c)
      /\ \A i \in 1 .. Len(base) : \E j \in 1 .. Len(queue[c]) : base[i] = queue[c][j]
  <2>1. CASE Full(c)
    <3>1. queue[c] # <<>>
      BY <1>2, <2>1 DEF Full
    <3> QED BY <1>2, <2>1, <3>1, PopFrontFacts
  <2>2. CASE ~Full(c)
    BY <1>2, <2>2 DEF Full
  <2> QED BY <2>1, <2>2
<1>4. \A d \in Ids : queue'[d] = IF d = c THEN Append(base, env) ELSE queue[d]
  BY <1>1 DEF Push, TypeOK
<1> HIDE DEF base
<1>a. /\ Len(base) \in Nat /\ Len(queue'[c]) = Len(base) + 1
      /\ queue'[c][Len(base) + 1] = env
      /\ \A i \in 1 .. Len(base) : queue'[c][i] = base[i]
  <2>1. queue'[c] = Append(base, env)
    BY <1>1, <1>4
  <2> QED BY <1>3, <2>1, AppendFacts
<1>5. QueueBounded'
  <2>1. Len(queue'[c]) <= Depth(c)
    BY <1>3, <1>a
  <2> QED BY <1>1, <1>4, <2>1 DEF QueueBounded, Depth
<1>6. AuthenticSenders'
  <2>1. ASSUME NEW i \in 1 .. Len(queue'[c])
        PROVE  channels[c].send_subject \in
                 {NoSubject, IF queue'[c][i].sender = KernelTask THEN KernelPrincipal
                             ELSE PrincipalOf[queue'[c][i].sender]}
    <3>1. CASE i = Len(base) + 1
      BY <1>a, <3>1
    <3>2. CASE i \in 1 .. Len(base)
      <4>1. PICK j \in 1 .. Len(queue[c]) : base[i] = queue[c][j]
        BY <1>3, <3>2
      <4>2. queue'[c][i] = queue[c][j]
        BY <1>a, <3>2, <4>1
      <4> QED BY <4>2 DEF AuthenticSenders
    <3> QED BY <1>a, <2>1, <3>1, <3>2
  <2> QED BY <1>1, <1>4, <2>1 DEF AuthenticSenders
<1> QED BY <1>5, <1>6

LEMMA SendDoneSafety ==
    ASSUME Safety, TypeOK', NEW t \in Tasks, NEW c \in Ids, NEW m \in Payloads,
           SendDone(t, c, m)
    PROVE  Safety'
<1> USE DEF Safety
<1>1. \A u \in Tasks, d \in Ids :
         /\ InSend(u, d)' <=> u # t /\ InSend(u, d)
         /\ InReceive(u, d)' <=> u # t /\ InReceive(u, d)
  BY ReturnCalls DEF SendDone
<1>2. /\ Live' = Live /\ Live \subseteq Ids /\ c \in Live
      /\ channels' = channels /\ waiters_send' = waiters_send /\ next_id' = next_id
  BY DEF SendDone, Push, Live, TypeOK
<1>3. /\ \A d \in Ids : waiters_recv'[d] =
             IF d = c THEN PopFront(waiters_recv[c]) ELSE waiters_recv[d]
      /\ \A d \in Ids : d # c => queue'[d] = queue[d]
  BY DEF SendDone, Push, TypeOK
<1>4. CallsStayValid'
  BY <1>1, <1>2, <1>3 DEF CallsStayValid, MaySend, MayReceive, Depth
<1>5. WaitersAreParked'
  <2>1. ASSUME NEW d \in Live
        PROVE  /\ Elements(waiters_send[d]) \ {KernelTask} \subseteq Tasks
               /\ Elements(waiters_recv[d]) \subseteq Tasks
    BY <1>2, NonEmptyElements DEF TypeOK, Senders
  <2>2. /\ Once(PopFront(waiters_recv[c]))
        /\ Elements(PopFront(waiters_recv[c])) =
              Elements(waiters_recv[c]) \ Woken(waiters_recv[c])
        /\ Woken(waiters_recv[c]) \subseteq Elements(waiters_recv[c])
    <3>1. waiters_recv[c] \in Seq(Tasks) /\ Once(waiters_recv[c])
      BY <1>2 DEF TypeOK, WaitersAreParked
    <3> QED BY <3>1, PopFrontElements
  <2>3. \A u \in Tasks : u \notin Woken(waiters_recv[c]) => state'[u] = state[u]
    BY DEF SendDone, Unpark
  <2>4. ASSUME NEW d \in Live, NEW u \in Elements(waiters_send[d]) \ {KernelTask}
        PROVE  (Blocked(u) /\ InSend(u, d))'
    <3>1. u \in Tasks /\ u # t /\ Blocked(u) /\ InSend(u, d)
      BY <2>1 DEF WaitersAreParked, SendDone, MayBeSending, Running, Blocked
    <3>2. u \notin Woken(waiters_recv[c])
      BY <1>2, <2>2, <3>1, OneWaitQueue DEF WaitersAreParked
    <3> QED BY <1>1, <1>2, <2>3, <3>1, <3>2 DEF Blocked
  <2>5. ASSUME NEW d \in Live, NEW u \in Elements(waiters_recv'[d])
        PROVE  (Blocked(u) /\ InReceive(u, d))'
    <3>1. u \in Elements(waiters_recv[d]) /\ (d = c => u \notin Woken(waiters_recv[c]))
      BY <1>2, <1>3, <2>2, <2>5
    <3>2. u \in Tasks /\ u # t /\ Blocked(u) /\ InReceive(u, d)
      BY <2>1, <3>1 DEF WaitersAreParked, SendDone, MayBeSending, Running, Blocked
    <3>3. u \notin Woken(waiters_recv[c])
      BY <1>2, <2>2, <3>1, <3>2, OneWaitQueue DEF WaitersAreParked
    <3> QED BY <1>1, <1>2, <2>3, <3>2, <3>3 DEF Blocked
  <2>6. ASSUME NEW d \in Live
        PROVE  Once(waiters_send'[d]) /\ Once(waiters_recv'[d])
    BY <1>2, <1>3, <2>2 DEF WaitersAreParked
  <2> QED BY <1>2, <2>4, <2>5, <2>6 DEF WaitersAreParked, Once, Elements
<1>6. QueueBounded' /\ AuthenticSenders'
  <2>1. [sender |-> t, payload |-> m] \in Envelopes
    BY DEF Envelopes, Senders
  <2>2. channels[c].send_subject \in {NoSubject, PrincipalOf[t]} /\ t # KernelTask
    BY IpcAssumption DEF SendDone, MaySend
  <2> QED BY <1>2, <2>1, <2>2, PushQueue DEF SendDone
<1> QED BY <1>4, <1>5, <1>6

\* A pop keeps the queue within its depth and its senders authentic.
LEMMA PopQueue ==
    ASSUME Safety, TypeOK', NEW c \in Live, queue[c] # <<>>, Pop(c)
    PROVE  QueueBounded' /\ AuthenticSenders'
<1> USE DEF Safety
<1>1. /\ Live' = Live /\ Live \subseteq Ids /\ c \in Ids
      /\ channels' = channels
  BY DEF Pop, Live, TypeOK
<1>2. queue[c] \in Seq(Envelopes)
  BY <1>1 DEF TypeOK
<1>3. \A d \in Ids : queue'[d] = IF d = c THEN PopFront(queue[c]) ELSE queue[d]
  BY DEF Pop, TypeOK, PopFront
<1>4. /\ Len(queue'[c]) = Len(queue[c]) - 1 /\ Len(queue[c]) \in Nat
      /\ \A i \in 1 .. Len(queue'[c]) :
            i + 1 \in 1 .. Len(queue[c]) /\ queue'[c][i] = queue[c][i + 1]
  <2>1. queue'[c] = PopFront(queue[c])
    BY <1>1, <1>3
  <2> QED BY <1>2, <2>1, PopFrontFacts
<1>5. \A d \in Live : waiters_send'[d] # <<>> => waiters_send[d] # <<>>
  BY <1>1 DEF Pop, PopFront, TypeOK
<1>6. Depth(c) \in Nat
  BY <1>1, IpcAssumption DEF TypeOK, Depth, Channel
<1>7. QueueBounded'
  <2>1. Len(queue'[c]) <= Depth(c)
    BY <1>4, <1>6 DEF QueueBounded
  <2> QED BY <1>1, <1>3, <1>5, <2>1 DEF QueueBounded, Depth
<1>8. AuthenticSenders'
  <2>1. ASSUME NEW i \in 1 .. Len(queue'[c])
        PROVE  channels[c].send_subject \in
                 {NoSubject, IF queue'[c][i].sender = KernelTask THEN KernelPrincipal
                             ELSE PrincipalOf[queue'[c][i].sender]}
    <3>1. i + 1 \in 1 .. Len(queue[c]) /\ queue'[c][i] = queue[c][i + 1]
      BY <1>4
    <3> QED BY <3>1 DEF AuthenticSenders
  <2> QED BY <1>1, <1>3, <2>1 DEF AuthenticSenders
<1> QED BY <1>7, <1>8

LEMMA ReceiveDoneSafety ==
    ASSUME Safety, TypeOK', NEW t \in Tasks, NEW c \in Ids, ReceiveDone(t, c)
    PROVE  Safety'
<1> USE DEF Safety
<1>1. \A u \in Tasks, d \in Ids :
         /\ InSend(u, d)' <=> u # t /\ InSend(u, d)
         /\ InReceive(u, d)' <=> u # t /\ InReceive(u, d)
  BY ReturnCalls DEF ReceiveDone, ReceiveFront
<1>2. /\ Live' = Live /\ Live \subseteq Ids /\ c \in Live
      /\ channels' = channels /\ waiters_recv' = waiters_recv /\ next_id' = next_id
  BY DEF ReceiveDone, ReceiveFront, Pop, Live, TypeOK
<1>3. /\ \A d \in Ids : waiters_send'[d] =
             IF d = c THEN PopFront(waiters_send[c]) ELSE waiters_send[d]
      /\ \A d \in Ids : d # c => queue'[d] = queue[d]
  BY DEF ReceiveDone, ReceiveFront, Pop, TypeOK
<1>4. CallsStayValid'
  BY <1>1, <1>2, <1>3 DEF CallsStayValid, MaySend, MayReceive, Depth
<1>5. WaitersAreParked'
  <2>1. ASSUME NEW d \in Live
        PROVE  /\ Elements(waiters_send[d]) \ {KernelTask} \subseteq Tasks
               /\ Elements(waiters_recv[d]) \subseteq Tasks
    BY <1>2, NonEmptyElements DEF TypeOK, Senders
  <2>2. /\ Once(PopFront(waiters_send[c]))
        /\ Elements(PopFront(waiters_send[c])) =
              Elements(waiters_send[c]) \ Woken(waiters_send[c])
        /\ Woken(waiters_send[c]) \subseteq Elements(waiters_send[c])
    <3>1. waiters_send[c] \in Seq(Senders) /\ Once(waiters_send[c])
      BY <1>2 DEF TypeOK, WaitersAreParked
    <3> QED BY <3>1, PopFrontElements
  <2>3. \A u \in Tasks : u \notin Woken(waiters_send[c]) => state'[u] = state[u]
    BY DEF ReceiveDone, ReceiveFront, Unpark
  <2>4. ASSUME NEW d \in Live, NEW u \in Elements(waiters_recv[d])
        PROVE  (Blocked(u) /\ InReceive(u, d))'
    <3>1. u \in Tasks /\ u # t /\ Blocked(u) /\ InReceive(u, d)
      BY <2>1 DEF WaitersAreParked, ReceiveDone, MayBeReceiving, Running, Blocked
    <3>2. u \notin Woken(waiters_send[c])
      BY <1>2, <2>2, <3>1, OneWaitQueue, IpcAssumption DEF WaitersAreParked
    <3> QED BY <1>1, <1>2, <2>3, <3>1, <3>2 DEF Blocked
  <2>5. ASSUME NEW d \in Live, NEW u \in Elements(waiters_send'[d]) \ {KernelTask}
        PROVE  (Blocked(u) /\ InSend(u, d))'
    <3>1. u \in Elements(waiters_send[d]) /\ (d = c => u \notin Woken(waiters_send[c]))
      BY <1>2, <1>3, <2>2, <2>5
    <3>2. u \in Tasks /\ u # t /\ Blocked(u) /\ InSend(u, d)
      BY <2>1, <3>1 DEF WaitersAreParked, ReceiveDone, MayBeReceiving, Running, Blocked
    <3>3. u \notin Woken(waiters_send[c])
      BY <1>2, <2>2, <3>1, <3>2, OneWaitQueue DEF WaitersAreParked
    <3> QED BY <1>1, <1>2, <2>3, <3>2, <3>3 DEF Blocked
  <2>6. ASSUME NEW d \in Live
        PROVE  Once(waiters_send'[d]) /\ Once(waiters_recv'[d])
    BY <1>2, <1>3, <2>2 DEF WaitersAreParked
  <2>7. \A d \in Live :
          /\ Once(waiters_send'[d]) /\ Once(waiters_recv'[d])
          /\ \A u \in Elements(waiters_send'[d]) \ {KernelTask} :
                Blocked(u)' /\ InSend(u, d)'
          /\ \A u \in Elements(waiters_recv[d]) : Blocked(u)' /\ InReceive(u, d)'
    BY <2>4, <2>5, <2>6
  <2> QED BY <1>2, <2>7 DEF WaitersAreParked, Once, Elements
<1>6. QueueBounded' /\ AuthenticSenders'
  BY <1>2, PopQueue DEF ReceiveDone, ReceiveFront
<1> QED BY <1>4, <1>5, <1>6

LEMMA CreateSafety ==
    ASSUME Safety, TypeOK', NEW t \in Tasks, NEW p \in Policies,
           NEW s \in Subjects, NEW r \in Subjects, IpcCreateChannel(t, p, s, r)
    PROVE  Safety'
<1> USE DEF Safety
<1> DEFINE new == [policy |-> p, owner |-> t, send_subject |-> s, recv_subject |-> r]
<1>1. /\ Live' = Live \cup {next_id} /\ next_id \in Ids \ Live /\ Live \subseteq Ids
      /\ \A c \in Live : channels'[c] = channels[c]
      /\ channels'[next_id] = new
  BY DEF IpcCreateChannel, InsertChannel, Live, TypeOK, Ids
<1>2. /\ queue' = queue /\ waiters_send' = waiters_send /\ waiters_recv' = waiters_recv
      /\ state' = state /\ calls' = calls /\ next_id' = next_id + 1
      /\ p.queue_depth # 0
  BY DEF IpcCreateChannel, InsertChannel
<1>3. queue[next_id] = <<>> /\ waiters_send[next_id] = <<>> /\ waiters_recv[next_id] = <<>>
  BY <1>1 DEF CallsStayValid
<1>4. CallsStayValid'
  <2>1. \A u \in Tasks, c \in Ids :
           /\ InSend(u, c) <=> InSend(u, c)'
           /\ InReceive(u, c) <=> InReceive(u, c)'
    BY <1>2 DEF InSend, InReceive
  <2>2. \A u \in Tasks : ~InSend(u, next_id) /\ ~InReceive(u, next_id)
    BY <1>1 DEF CallsStayValid, TypeOK
  <2>3. \A c \in Live : c < next_id + 1 /\ Depth(c)' = Depth(c)
                         /\ \A q : /\ MaySend(c, q)' <=> MaySend(c, q)
                                   /\ MayReceive(c, q)' <=> MayReceive(c, q)
    BY <1>1 DEF TypeOK, Depth, MaySend, MayReceive, Ids
  <2>4. channels'[next_id].policy.queue_depth # 0
    BY <1>1, <1>2
  <2>5. \A u \in Tasks, c \in Ids :
           /\ (InSend(u, c) \/ InReceive(u, c))' => c < next_id'
           /\ InSend(u, c)' /\ c \in Live' =>
                 MaySend(c, PrincipalOf[u])' /\ channels'[c].policy.backpressure = "Block"
           /\ InReceive(u, c)' /\ c \in Live' => MayReceive(c, PrincipalOf[u])'
    BY <1>1, <1>2, <2>1, <2>2, <2>3 DEF CallsStayValid, TypeOK, Ids
  <2>6. \A c \in Live' : Depth(c)' # 0
    BY <1>1, <2>3, <2>4 DEF CallsStayValid, Depth
  <2> QED BY <1>1, <1>2, <2>5, <2>6 DEF CallsStayValid
<1>5. WaitersAreParked'
  BY <1>1, <1>2, <1>3 DEF WaitersAreParked, Blocked, InSend, InReceive, Once, Elements
<1>6. QueueBounded'
  <2>1. channels'[next_id].policy.queue_depth \in Nat
    BY <1>1, IpcAssumption
  <2> QED BY <1>1, <1>2, <1>3, <2>1 DEF QueueBounded, Depth
<1>7. AuthenticSenders'
  BY <1>1, <1>2, <1>3 DEF AuthenticSenders
<1> QED BY <1>4, <1>5, <1>6, <1>7

LEMMA DestroySafety ==
    ASSUME Safety, TypeOK', NEW t \in Tasks, NEW c \in Ids, IpcDestroyChannel(t, c)
    PROVE  Safety'
<1> USE DEF Safety
<1>1. /\ Live' = Live \ {c} /\ Live \subseteq Ids
      /\ \A d \in Live' : channels'[d] = channels[d]
      /\ state' = state /\ calls' = calls /\ next_id' = next_id
  BY DEF IpcDestroyChannel, Live, TypeOK
<1>2. \A d \in Ids :
        /\ queue'[d] = IF d = c THEN <<>> ELSE queue[d]
        /\ waiters_send'[d] = IF d = c THEN <<>> ELSE waiters_send[d]
        /\ waiters_recv'[d] = IF d = c THEN <<>> ELSE waiters_recv[d]
  BY DEF IpcDestroyChannel, TypeOK
<1>3. CallsStayValid'
  BY <1>1, <1>2 DEF CallsStayValid, InSend, InReceive, Depth, MaySend, MayReceive
<1>4. WaitersAreParked'
  BY <1>1, <1>2 DEF WaitersAreParked, Blocked, InSend, InReceive, Once, Elements
<1>5. QueueBounded' /\ AuthenticSenders'
  BY <1>1, <1>2 DEF QueueBounded, AuthenticSenders, Depth
<1> QED BY <1>3, <1>4, <1>5

LEMMA IrqNotifySafety ==
    ASSUME Safety, TypeOK', NEW c \in Ids, NEW m \in Payloads, IrqNotify(c, m)
    PROVE  Safety'
<1> USE DEF Safety
<1>1. /\ c \in Live /\ Live \subseteq Ids /\ Live' = Live /\ channels' = channels
      /\ state' = state /\ calls' = calls /\ next_id' = next_id
  BY DEF IrqNotify, ParkSender, Push, Live, TypeOK
<1>2. CASE ParkSender(c, KernelTask) /\ SendBlocks(c)
  <2>1. /\ queue' = queue /\ waiters_recv' = waiters_recv
        /\ \A d \in Ids : waiters_send'[d] =
              IF d = c THEN PushOnce(waiters_send[c], KernelTask) ELSE waiters_send[d]
    BY <1>2 DEF ParkSender, TypeOK
  <2>2. /\ Once(PushOnce(waiters_send[c], KernelTask))
        /\ Elements(PushOnce(waiters_send[c], KernelTask)) =
              Elements(waiters_send[c]) \cup {KernelTask}
    <3>1. waiters_send[c] \in Seq(Senders) /\ KernelTask \in Senders /\ Once(waiters_send[c])
      BY <1>1 DEF TypeOK, WaitersAreParked, Senders
    <3> QED BY <3>1, PushOnceOnce, PushOnceFacts
  <2>3. CallsStayValid'
    BY <1>1, <2>1 DEF CallsStayValid, InSend, InReceive, Depth, MaySend, MayReceive
  <2>4. WaitersAreParked'
    <3>1. ASSUME NEW d \in Live
          PROVE  /\ Once(waiters_send'[d])
                 /\ Elements(waiters_send'[d]) \ {KernelTask} =
                       Elements(waiters_send[d]) \ {KernelTask}
      BY <1>1, <2>1, <2>2 DEF WaitersAreParked
    <3> QED BY <1>1, <2>1, <3>1 DEF WaitersAreParked, Blocked, InSend, InReceive, Once, Elements
  <2>5. QueueBounded' /\ AuthenticSenders'
    BY <1>1, <1>2, <2>1 DEF QueueBounded, AuthenticSenders, Depth, SendBlocks
  <2> QED BY <2>3, <2>4, <2>5
<1>3. CASE Push(c, [sender |-> KernelTask, payload |-> m]) /\ ~SendBlocks(c)
  <2>1. /\ waiters_send' = waiters_send
        /\ \A d \in Ids : waiters_recv'[d] =
              IF d = c THEN PopFront(waiters_recv[c]) ELSE waiters_recv[d]
        /\ \A d \in Ids : d # c => queue'[d] = queue[d]
    BY <1>3 DEF Push, TypeOK
  <2>2. /\ Once(PopFront(waiters_recv[c]))
        /\ Elements(PopFront(waiters_recv[c])) \subseteq Elements(waiters_recv[c])
    <3>1. waiters_recv[c] \in Seq(Tasks) /\ Once(waiters_recv[c])
      BY <1>1 DEF TypeOK, WaitersAreParked
    <3> QED BY <3>1, PopFrontElements
  <2>3. CallsStayValid'
    BY <1>1, <2>1 DEF CallsStayValid, InSend, InReceive, Depth, MaySend, MayReceive
  <2>4. WaitersAreParked'
    <3>1. ASSUME NEW d \in Live
          PROVE  /\ Once(waiters_recv'[d])
                 /\ Elements(waiters_recv'[d]) \subseteq Elements(waiters_recv[d])
      BY <1>1, <2>1, <2>2 DEF WaitersAreParked
    <3>2. ASSUME NEW d \in Live
          PROVE  /\ \A u \in Elements(waiters_send[d]) \ {KernelTask} :
                       (Blocked(u) /\ InSend(u, d))'
                 /\ \A u \in Elements(waiters_recv'[d]) : (Blocked(u) /\ InReceive(u, d))'
      BY <1>1, <3>1 DEF WaitersAreParked, Blocked, InSend, InReceive
    <3> QED BY <1>1, <2>1, <3>1, <3>2 DEF WaitersAreParked, Once, Elements
  <2>5. QueueBounded' /\ AuthenticSenders'
    <3>1. [sender |-> KernelTask, payload |-> m] \in Envelopes
      BY DEF Envelopes, Senders
    <3>2. channels[c].send_subject \in {NoSubject, KernelPrincipal} /\ ~SendRefused(c)
      BY DEF IrqNotify, MaySend
    <3> QED BY <1>1, <1>3, <3>1, <3>2, PushQueue
  <2> QED BY <2>3, <2>4, <2>5
<1> QED BY <1>2, <1>3 DEF IrqNotify

LEMMA TaskExitSafety ==
    ASSUME Safety, TypeOK', NEW t \in Tasks, TaskExit(t)
    PROVE  Safety'
<1> USE DEF Safety
<1>1. /\ Live' = Live /\ Live \subseteq Ids
      /\ \A u \in Tasks : u # t => state'[u] = state[u]
  BY DEF TaskExit, Live, TypeOK
<1>2. CallsStayValid'
  BY <1>1 DEF CallsStayValid, InSend, InReceive, Depth, MaySend, MayReceive, TaskExit
<1>3. WaitersAreParked'
  <2>1. ASSUME NEW d \in Live
        PROVE  /\ Elements(waiters_send[d]) \ {KernelTask} \subseteq Tasks
               /\ Elements(waiters_recv[d]) \subseteq Tasks
    BY <1>1, NonEmptyElements DEF TypeOK, Senders
  <2>2. ~Blocked(t)
    BY DEF TaskExit, Running, Blocked
  <2>3. \A u \in Tasks : Blocked(u) => Blocked(u)'
    BY <1>1, <2>2 DEF Blocked
  <2> QED BY <1>1, <2>1, <2>3
          DEF WaitersAreParked, TaskExit, InSend, InReceive, Once, Elements
<1>4. QueueBounded' /\ AuthenticSenders'
  BY <1>1 DEF QueueBounded, AuthenticSenders, Depth, TaskExit
<1> QED BY <1>2, <1>3, <1>4

LEMMA InitSafety == Init => Safety
<1> SUFFICES ASSUME Init PROVE Safety
  OBVIOUS
<1>1. TypeOK
  BY InitTypeOK
<1>2. Live = {}
  BY DEF Init, Live
<1>3. \A t \in Tasks, c \in Ids : ~InSend(t, c) /\ ~InReceive(t, c)
  BY DEF Init, InSend, InReceive, NoCall
<1> QED BY <1>1, <1>2, <1>3
        DEF Safety, CallsStayValid, WaitersAreParked, QueueBounded, AuthenticSenders, Init

LEMMA NextSafety == Safety /\ [Next]_vars => Safety'
<1> SUFFICES ASSUME Safety, [Next]_vars PROVE Safety'
  OBVIOUS
<1>1. TypeOK'
  BY NextTypeOK DEF Safety
<1>2. Primitive
  BY NextIsPrimitive DEF Safety
<1>3. CASE UNCHANGED vars
  BY <1>3 DEF vars, Safety, TypeOK, CallsStayValid, WaitersAreParked, QueueBounded,
              AuthenticSenders, Live, Depth, MaySend, MayReceive, InSend, InReceive,
              Blocked, Once, Elements
<1> QED BY <1>1, <1>2, <1>3, ErrorStepSafety, SendParksSafety, SendDoneSafety,
           ReceiveDoneSafety, ReceiveParksSafety, CreateSafety, DestroySafety,
           IrqNotifySafety, TaskExitSafety
        DEF Primitive

\* For every configuration, interrupts included: the wait queues name each
\* task once and only parked tasks, queues stay within their depth, and an
\* authenticated channel holds messages of its subject only.
THEOREM RegistrySafe ==
    Spec => [](WaitersAreParked /\ QueueBounded /\ AuthenticSenders)
<1>1. Init => Safety
  BY InitSafety
<1>2. Safety /\ [Next]_vars => Safety'
  BY NextSafety
<1>3. Safety => WaitersAreParked /\ QueueBounded /\ AuthenticSenders
  BY DEF Safety
<1> QED BY <1>1, <1>2, <1>3, PTL DEF Spec

\* Whatever is destroyed and created while a task sleeps in a call, the id it
\* parked with is handed out to no other channel, and the checks it passed
\* before it parked would pass when it retries.
THEOREM CallsValid == Spec => []CallsStayValid
<1>1. Safety => CallsStayValid
  BY DEF Safety
<1> QED BY <1>1, InitSafety, NextSafety, PTL DEF Spec

----------------------------------------------------------------------------
(* No wake-up is lost on a channel that only system calls use, for every   *)
(* number of tasks and channels and every policy.                          *)

\* Only irq_notify puts the sentinel TaskId(0) on a wait queue.
NoSentinel ==
    \A c \in TaskChannels : KernelTask \notin Elements(waiters_send[c])

\* The inductive invariant: the accounting of messages (free places) against
\* woken receivers (senders) needs to know who sits on the wait queues.
Wakeups ==
    /\ NoSentinel
    /\ ParkedAreWaiters
    /\ NoLostReceiverWakeup
    /\ NoLostSenderWakeup

----------------------------------------------------------------------------
(* Counting the woken tasks.                                               *)

LEMMA WokenFinite ==
    ASSUME NEW c
    PROVE  /\ IsFiniteSet(WokenSenders(c)) /\ Cardinality(WokenSenders(c)) \in Nat
           /\ IsFiniteSet(WokenReceivers(c)) /\ Cardinality(WokenReceivers(c)) \in Nat
<1>1. WokenSenders(c) \subseteq Tasks /\ WokenReceivers(c) \subseteq Tasks
  BY DEF WokenSenders, WokenReceivers
<1> QED BY <1>1, IpcAssumption, FS_Subset, FS_CardinalityType

\* One more woken task counts one more.
LEMMA AddOne ==
    ASSUME NEW S, IsFiniteSet(S), NEW x, x \notin S
    PROVE  Cardinality(S \cup {x}) = Cardinality(S) + 1
BY FS_AddElement

\* One task that leaves counts at most one less.
LEMMA RemoveOne ==
    ASSUME NEW S, IsFiniteSet(S), NEW x
    PROVE  /\ Cardinality(S \ {x}) \in Nat
           /\ Cardinality(S) - 1 <= Cardinality(S \ {x})
<1>1. IsFiniteSet(S \ {x}) /\ Cardinality(S) \in Nat /\ Cardinality(S \ {x}) \in Nat
  BY FS_RemoveElement, FS_CardinalityType
<1>2. CASE x \in S
  BY <1>1, <1>2, FS_RemoveElement
<1>3. CASE x \notin S
  <2>1. S \ {x} = S
    BY <1>3
  <2> QED BY <1>1, <2>1
<1> QED BY <1>1, <1>2, <1>3

----------------------------------------------------------------------------
(* One lemma per primitive step.                                           *)

LEMMA ErrorStepWakeups ==
    ASSUME Safety, Wakeups, NEW t \in Tasks, ErrorStep(t)
    PROVE  Wakeups'
<1> USE DEF Safety, Wakeups
<1>1. \A u \in Tasks, d \in Ids :
         /\ InSend(u, d)' <=> u # t /\ InSend(u, d)
         /\ InReceive(u, d)' <=> u # t /\ InReceive(u, d)
  BY ReturnCalls DEF ErrorStep, ReturnError
<1>2. /\ Live' = Live /\ Live \subseteq Ids /\ TaskChannels \subseteq Live
      /\ TaskChannels' = TaskChannels
      /\ channels' = channels /\ queue' = queue /\ state' = state
      /\ waiters_send' = waiters_send /\ waiters_recv' = waiters_recv
  BY DEF ErrorStep, ReturnError, Live, TypeOK, TaskChannels
<1>3. \A d \in Live : /\ WokenSenders(d)' = WokenSenders(d)
                      /\ WokenReceivers(d)' = WokenReceivers(d)
  BY <1>1, <1>2 DEF WokenSenders, WokenReceivers, Running, ErrorStep
<1>4. ParkedAreWaiters'
  BY <1>1, <1>2 DEF ParkedAreWaiters, Blocked, Elements
<1> QED BY <1>2, <1>3, <1>4
        DEF NoSentinel, NoLostReceiverWakeup, NoLostSenderWakeup, Depth, Elements

LEMMA SendParksWakeups ==
    ASSUME Safety, Wakeups, NEW t \in Tasks, NEW c \in Ids, NEW m \in Payloads,
           SendParks(t, c, m)
    PROVE  Wakeups'
<1> USE DEF Safety, Wakeups
<1>1. /\ \A u \in Tasks : u # t =>
            /\ state'[u] = state[u]
            /\ \A d \in Ids : /\ InSend(u, d)' <=> InSend(u, d)
                              /\ InReceive(u, d)' <=> InReceive(u, d)
      /\ state'[t] = "BlockedOnIpc"
      /\ calls'[t] = [op |-> "send", channel |-> c, payload |-> m]
  BY ParkCalls DEF SendParks
<1>2. \A d \in Ids : (InSend(t, d)' <=> d = c) /\ ~InReceive(t, d)'
  BY <1>1 DEF InSend, InReceive
<1>3. /\ Live' = Live /\ Live \subseteq Ids /\ TaskChannels \subseteq Live
      /\ TaskChannels' = TaskChannels /\ c \in Live
      /\ channels' = channels /\ queue' = queue /\ waiters_recv' = waiters_recv
      /\ Len(queue[c]) >= Depth(c)
  BY DEF SendParks, SendBlocks, Full, ParkSender, Live, TypeOK, TaskChannels
<1>4. \A d \in Ids : waiters_send'[d] =
         IF d = c THEN PushOnce(waiters_send[c], t) ELSE waiters_send[d]
  BY DEF SendParks, ParkSender, TypeOK
<1>5. Elements(PushOnce(waiters_send[c], t)) = Elements(waiters_send[c]) \cup {t}
  <2>1. waiters_send[c] \in Seq(Senders) /\ t \in Senders
    BY DEF TypeOK, Senders
  <2> QED BY <2>1, PushOnceFacts
<1>6. NoSentinel'
  <2>1. t # KernelTask
    BY IpcAssumption
  <2>2. ASSUME NEW d \in TaskChannels
        PROVE  KernelTask \notin Elements(waiters_send'[d])
    <3>1. d \in Ids /\ KernelTask \notin Elements(waiters_send[d])
      BY <1>3 DEF NoSentinel
    <3>2. CASE d = c
      BY <1>4, <1>5, <2>1, <3>1, <3>2
    <3>3. CASE d # c
      BY <1>4, <3>1, <3>3
    <3> QED BY <3>2, <3>3
  <2> QED BY <1>3, <2>2 DEF NoSentinel, Elements
<1>7. ParkedAreWaiters'
  <2>1. ASSUME NEW u \in Tasks, Blocked(u)', NEW d \in TaskChannels
        PROVE  /\ InSend(u, d)' => u \in Elements(waiters_send'[d])
               /\ InReceive(u, d)' => u \in Elements(waiters_recv[d])
    <3>1. CASE u = t
      BY <1>2, <1>3, <1>4, <1>5, <3>1
    <3>2. CASE u # t
      <4>1. /\ Blocked(u) /\ d \in Ids
            /\ InSend(u, d)' <=> InSend(u, d)
            /\ InReceive(u, d)' <=> InReceive(u, d)
        BY <1>1, <1>3, <2>1, <3>2 DEF Blocked
      <4> QED BY <1>4, <1>5, <4>1 DEF ParkedAreWaiters
    <3> QED BY <3>1, <3>2
  <2> QED BY <1>3, <2>1 DEF ParkedAreWaiters, Elements
<1>8. \A d \in Live : WokenReceivers(d)' = WokenReceivers(d)
  BY <1>1, <1>2, <1>3 DEF WokenReceivers, Running, SendParks, MayBeSending
<1>9. \A d \in Live : d # c => WokenSenders(d)' = WokenSenders(d)
  BY <1>1, <1>2, <1>3 DEF WokenSenders, Running, SendParks, MayBeSending
<1>10. NoLostSenderWakeup'
  <2>1. Depth(c) - Len(queue[c]) <= Cardinality(WokenSenders(c)')
    <3>1. Cardinality(WokenSenders(c)') \in Nat
      <4>1. WokenSenders(c)' \subseteq Tasks
        BY DEF WokenSenders
      <4> QED BY <4>1, IpcAssumption, FS_Subset, FS_CardinalityType
    <3>2. Len(queue[c]) \in Nat /\ Depth(c) \in Nat
      BY <1>3, IpcAssumption DEF TypeOK, Depth, Channel
    <3> QED BY <1>3, <3>1, <3>2
  <2> QED BY <1>3, <1>4, <1>9, <2>1 DEF NoLostSenderWakeup, Depth
<1> QED BY <1>3, <1>6, <1>7, <1>8, <1>10 DEF NoLostReceiverWakeup

LEMMA ReceiveParksWakeups ==
    ASSUME Safety, Wakeups, NEW t \in Tasks, NEW c \in Ids, ReceiveParks(t, c)
    PROVE  Wakeups'
<1> USE DEF Safety, Wakeups
<1>1. /\ \A u \in Tasks : u # t =>
            /\ state'[u] = state[u]
            /\ \A d \in Ids : /\ InSend(u, d)' <=> InSend(u, d)
                              /\ InReceive(u, d)' <=> InReceive(u, d)
      /\ state'[t] = "BlockedOnIpc"
      /\ calls'[t] = [op |-> "recv", channel |-> c]
  BY ParkCalls DEF ReceiveParks
<1>2. \A d \in Ids : (InReceive(t, d)' <=> d = c) /\ ~InSend(t, d)'
  BY <1>1 DEF InSend, InReceive
<1>3. /\ Live' = Live /\ Live \subseteq Ids /\ TaskChannels \subseteq Live
      /\ TaskChannels' = TaskChannels /\ c \in Live
      /\ channels' = channels /\ queue' = queue /\ waiters_send' = waiters_send
      /\ Len(queue[c]) = 0
  BY DEF ReceiveParks, ParkReceiver, Live, TypeOK, TaskChannels
<1>4. \A d \in Ids : waiters_recv'[d] =
         IF d = c THEN PushOnce(waiters_recv[c], t) ELSE waiters_recv[d]
  BY DEF ReceiveParks, ParkReceiver, TypeOK
<1>5. Elements(PushOnce(waiters_recv[c], t)) = Elements(waiters_recv[c]) \cup {t}
  <2>1. waiters_recv[c] \in Seq(Tasks)
    BY DEF TypeOK
  <2> QED BY <2>1, PushOnceFacts
<1>6. NoSentinel'
  BY <1>3 DEF NoSentinel, Elements
<1>7. ParkedAreWaiters'
  <2>1. ASSUME NEW u \in Tasks, Blocked(u)', NEW d \in TaskChannels
        PROVE  /\ InSend(u, d)' => u \in Elements(waiters_send[d])
               /\ InReceive(u, d)' => u \in Elements(waiters_recv'[d])
    <3>1. CASE u = t
      BY <1>2, <1>3, <1>4, <1>5, <3>1
    <3>2. CASE u # t
      <4>1. /\ Blocked(u) /\ d \in Ids
            /\ InSend(u, d)' <=> InSend(u, d)
            /\ InReceive(u, d)' <=> InReceive(u, d)
        BY <1>1, <1>3, <2>1, <3>2 DEF Blocked
      <4> QED BY <1>4, <1>5, <4>1 DEF ParkedAreWaiters
    <3> QED BY <3>1, <3>2
  <2> QED BY <1>3, <2>1 DEF ParkedAreWaiters, Elements
<1>8. \A d \in Live : WokenSenders(d)' = WokenSenders(d)
  BY <1>1, <1>2, <1>3 DEF WokenSenders, Running, ReceiveParks, MayBeReceiving
<1>9. \A d \in Live : d # c => WokenReceivers(d)' = WokenReceivers(d)
  BY <1>1, <1>2, <1>3 DEF WokenReceivers, Running, ReceiveParks, MayBeReceiving
<1>10. NoLostReceiverWakeup'
  <2>1. 0 <= Cardinality(WokenReceivers(c)')
    <3>1. WokenReceivers(c)' \subseteq Tasks
      BY DEF WokenReceivers
    <3> QED BY <3>1, IpcAssumption, FS_Subset, FS_CardinalityType
  <2> QED BY <1>3, <1>4, <1>9, <2>1 DEF NoLostReceiverWakeup
<1> QED BY <1>3, <1>6, <1>7, <1>8, <1>10 DEF NoLostSenderWakeup, Depth

\* A push on c matches its message with the receiver it wakes.
LEMMA SendDoneWakeups ==
    ASSUME Safety, Wakeups, NEW t \in Tasks, NEW c \in Ids, NEW m \in Payloads,
           SendDone(t, c, m)
    PROVE  Wakeups'
<1> USE DEF Safety, Wakeups
<1>1. \A u \in Tasks, d \in Ids :
         /\ InSend(u, d)' <=> u # t /\ InSend(u, d)
         /\ InReceive(u, d)' <=> u # t /\ InReceive(u, d)
  BY ReturnCalls DEF SendDone
<1>2. /\ Live' = Live /\ Live \subseteq Ids /\ TaskChannels \subseteq Live
      /\ TaskChannels' = TaskChannels /\ c \in Live
      /\ channels' = channels /\ waiters_send' = waiters_send
  BY DEF SendDone, Push, Live, TypeOK, TaskChannels
<1>3. /\ \A d \in Ids : waiters_recv'[d] =
             IF d = c THEN PopFront(waiters_recv[c]) ELSE waiters_recv[d]
      /\ \A d \in Ids : d # c => queue'[d] = queue[d]
  BY DEF SendDone, Push, TypeOK
<1> DEFINE woken == Woken(waiters_recv[c])
<1>4. /\ Elements(PopFront(waiters_recv[c])) = Elements(waiters_recv[c]) \ woken
      /\ woken \subseteq Elements(waiters_recv[c])
      /\ woken \subseteq Tasks
  <2>1. waiters_recv[c] \in Seq(Tasks) /\ Once(waiters_recv[c])
    BY <1>2 DEF TypeOK, WaitersAreParked
  <2>2. Elements(waiters_recv[c]) \subseteq Tasks
    BY <2>1, NonEmptyElements
  <2> QED BY <2>1, <2>2, PopFrontElements
<1>5. \A u \in woken : Blocked(u) /\ InReceive(u, c) /\ u # t
  BY <1>2, <1>4 DEF WaitersAreParked, SendDone, MayBeSending, Running, Blocked
<1>6. \A u \in Tasks : state'[u] = IF u \in woken THEN "Runnable" ELSE state[u]
  BY DEF SendDone, Unpark
<1> HIDE DEF woken
<1>7. NoSentinel'
  BY <1>2 DEF NoSentinel, Elements
<1>8. ParkedAreWaiters'
  <2>1. ASSUME NEW u \in Tasks, Blocked(u)', NEW d \in TaskChannels
        PROVE  /\ InSend(u, d)' => u \in Elements(waiters_send[d])
               /\ InReceive(u, d)' => u \in Elements(waiters_recv'[d])
    <3>1. Blocked(u) /\ u \notin woken /\ d \in Ids
      BY <1>2, <1>6, <2>1 DEF Blocked
    <3> QED BY <1>1, <1>3, <1>4, <3>1 DEF ParkedAreWaiters
  <2> QED BY <1>2, <2>1 DEF ParkedAreWaiters, Elements
<1>9. ASSUME NEW d \in Live
      PROVE  /\ WokenReceivers(d)' = IF d = c THEN WokenReceivers(c) \cup woken
                                     ELSE WokenReceivers(d)
             /\ WokenSenders(d)' = IF d = c THEN WokenSenders(c) \ {t}
                                   ELSE WokenSenders(d)
  <2>1. d \in Ids
    BY <1>2
  <2>2. \A e \in Ids : ~InReceive(t, e) /\ (InSend(t, e) => e = c)
    BY DEF SendDone, MayBeSending
  <2>3. \A u \in woken : InReceive(u, d) <=> d = c
    BY <1>4, <1>5, <2>1, OneWaitQueue
  <2>4. \A u \in woken : ~InSend(u, d)
    BY <1>4, <1>5, <2>1, OneWaitQueue
  <2>5. \A u \in woken : ~Running(u)
    BY <1>5 DEF Blocked, Running
  <2>6. \A u \in Tasks : Running(u)' <=> Running(u) \/ u \in woken
    BY <1>6 DEF Running
  <2>7. \A u \in Tasks : (Running(u) /\ InReceive(u, d))' <=>
           (Running(u) /\ InReceive(u, d)) \/ (u \in woken /\ d = c)
    BY <1>1, <1>5, <2>1, <2>2, <2>3, <2>6
  <2>8. \A u \in Tasks : (Running(u) /\ InSend(u, d))' <=>
           Running(u) /\ InSend(u, d) /\ (d = c => u # t)
    BY <1>1, <2>1, <2>2, <2>4, <2>6
  <2> QED BY <1>4, <2>7, <2>8 DEF WokenReceivers, WokenSenders
<1>10. /\ queue[c] \in Seq(Envelopes) /\ Len(queue[c]) \in Nat
       /\ Depth(c) \in Nat \ {0}
       /\ IF Full(c) THEN Len(queue'[c]) = Len(queue[c]) /\ waiters_send[c] = <<>>
          ELSE Len(queue'[c]) = Len(queue[c]) + 1
  <2>1. /\ queue[c] \in Seq(Envelopes) /\ Depth(c) \in Nat \ {0}
        /\ channels[c].policy.backpressure \in Backpressures
    BY <1>2, IpcAssumption DEF TypeOK, CallsStayValid, Depth, Channel
  <2>2. queue'[c] = Append(IF Full(c) THEN PopFront(queue[c]) ELSE queue[c],
                           [sender |-> t, payload |-> m])
    BY DEF SendDone, Push, TypeOK
  <2>3. [sender |-> t, payload |-> m] \in Envelopes
    BY DEF Envelopes, Senders
  <2>4. CASE Full(c)
    <3>1. queue[c] # <<>>
      BY <2>1, <2>4 DEF Full
    <3>2. PopFront(queue[c]) \in Seq(Envelopes) /\ Len(PopFront(queue[c])) = Len(queue[c]) - 1
      BY <2>1, <3>1, PopFrontFacts
    <3>3. Len(queue'[c]) = Len(PopFront(queue[c])) + 1
      BY <2>2, <2>3, <2>4, <3>2, AppendFacts
    <3>4. waiters_send[c] = <<>>
      BY <1>2, <2>1, <2>4 DEF QueueBounded, SendDone, SendBlocks
    <3> QED BY <2>1, <2>4, <3>2, <3>3, <3>4
  <2>5. CASE ~Full(c)
    <3>1. Len(queue'[c]) = Len(queue[c]) + 1
      BY <2>1, <2>2, <2>3, <2>5, AppendFacts
    <3> QED BY <2>1, <2>5, <3>1
  <2> QED BY <2>4, <2>5
<1>11. NoLostReceiverWakeup'
  <2>1. ASSUME c \in TaskChannels, waiters_recv'[c] # <<>>
        PROVE  Len(queue'[c]) <= Cardinality(WokenReceivers(c)')
    <3>1. waiters_recv[c] # <<>>
      BY <1>3, <2>1 DEF PopFront
    <3>2. PICK u : woken = {u}
      BY <3>1 DEF woken, Woken
    <3>3. u \notin WokenReceivers(c)
      BY <1>5, <3>2 DEF WokenReceivers, Blocked, Running
    <3>4. Cardinality(WokenReceivers(c)') = Cardinality(WokenReceivers(c)) + 1
      BY <1>2, <1>9, <3>2, <3>3, AddOne, WokenFinite
    <3>5. Len(queue[c]) <= Cardinality(WokenReceivers(c))
      BY <2>1, <3>1 DEF NoLostReceiverWakeup
    <3> QED BY <1>10, <3>4, <3>5, WokenFinite
  <2> QED BY <1>2, <1>3, <1>9, <2>1 DEF NoLostReceiverWakeup
<1>12. NoLostSenderWakeup'
  <2>1. ASSUME c \in TaskChannels, waiters_send[c] # <<>>
        PROVE  Depth(c) - Len(queue'[c]) <= Cardinality(WokenSenders(c)')
    <3>1. Len(queue'[c]) = Len(queue[c]) + 1
      BY <1>10, <2>1
    <3>2. Depth(c) - Len(queue[c]) <= Cardinality(WokenSenders(c))
      BY <2>1 DEF NoLostSenderWakeup
    <3>3. /\ Cardinality(WokenSenders(c) \ {t}) \in Nat
          /\ Cardinality(WokenSenders(c)) - 1 <= Cardinality(WokenSenders(c) \ {t})
          /\ Cardinality(WokenSenders(c)) \in Nat
      BY RemoveOne, WokenFinite
    <3>4. WokenSenders(c)' = WokenSenders(c) \ {t}
      BY <1>2, <1>9
    <3> QED BY <1>10, <3>1, <3>2, <3>3, <3>4
  <2> QED BY <1>2, <1>3, <1>9, <2>1 DEF NoLostSenderWakeup, Depth
<1> QED BY <1>7, <1>8, <1>11, <1>12

\* A pop on c matches the place it frees with the sender it wakes.
LEMMA ReceiveDoneWakeups ==
    ASSUME Safety, Wakeups, NEW t \in Tasks, NEW c \in Ids, ReceiveDone(t, c)
    PROVE  Wakeups'
<1> USE DEF Safety, Wakeups
<1>1. \A u \in Tasks, d \in Ids :
         /\ InSend(u, d)' <=> u # t /\ InSend(u, d)
         /\ InReceive(u, d)' <=> u # t /\ InReceive(u, d)
  BY ReturnCalls DEF ReceiveDone, ReceiveFront
<1>2. /\ Live' = Live /\ Live \subseteq Ids /\ TaskChannels \subseteq Live
      /\ TaskChannels' = TaskChannels /\ c \in Live
      /\ channels' = channels /\ waiters_recv' = waiters_recv
  BY DEF ReceiveDone, ReceiveFront, Pop, Live, TypeOK, TaskChannels
<1>3. /\ \A d \in Ids : waiters_send'[d] =
             IF d = c THEN PopFront(waiters_send[c]) ELSE waiters_send[d]
      /\ \A d \in Ids : d # c => queue'[d] = queue[d]
  BY DEF ReceiveDone, ReceiveFront, Pop, TypeOK
<1> DEFINE woken == Woken(waiters_send[c])
<1>4. /\ Elements(PopFront(waiters_send[c])) = Elements(waiters_send[c]) \ woken
      /\ woken \subseteq Elements(waiters_send[c])
      /\ woken \subseteq Tasks \cup {KernelTask}
  <2>1. waiters_send[c] \in Seq(Senders) /\ Once(waiters_send[c])
    BY <1>2 DEF TypeOK, WaitersAreParked
  <2>2. Elements(waiters_send[c]) \subseteq Tasks \cup {KernelTask}
    BY <2>1, NonEmptyElements DEF Senders
  <2> QED BY <2>1, <2>2, PopFrontElements
<1>5. \A u \in woken \ {KernelTask} : Blocked(u) /\ InSend(u, c) /\ u # t
  BY <1>2, <1>4 DEF WaitersAreParked, ReceiveDone, MayBeReceiving, Running, Blocked
<1>6. \A u \in Tasks : state'[u] = IF u \in woken THEN "Runnable" ELSE state[u]
  BY DEF ReceiveDone, ReceiveFront, Unpark
<1> HIDE DEF woken
<1>7. NoSentinel'
  <2>1. \A d \in TaskChannels : Elements(waiters_send'[d]) \subseteq Elements(waiters_send[d])
    BY <1>2, <1>3, <1>4
  <2>2. \A d \in TaskChannels : KernelTask \notin Elements(waiters_send'[d])
    BY <2>1 DEF NoSentinel
  <2> QED BY <1>2, <2>2 DEF NoSentinel, Elements
<1>8. ParkedAreWaiters'
  <2>1. ASSUME NEW u \in Tasks, Blocked(u)', NEW d \in TaskChannels
        PROVE  /\ InSend(u, d)' => u \in Elements(waiters_send'[d])
               /\ InReceive(u, d)' => u \in Elements(waiters_recv[d])
    <3>1. Blocked(u) /\ u \notin woken /\ d \in Ids
      BY <1>2, <1>6, <2>1 DEF Blocked
    <3> QED BY <1>1, <1>3, <1>4, <3>1 DEF ParkedAreWaiters
  <2> QED BY <1>2, <2>1 DEF ParkedAreWaiters, Elements
<1>9. ASSUME NEW d \in Live
      PROVE  /\ WokenSenders(d)' = IF d = c THEN WokenSenders(c) \cup (woken \ {KernelTask})
                                   ELSE WokenSenders(d)
             /\ WokenReceivers(d)' = IF d = c THEN WokenReceivers(c) \ {t}
                                     ELSE WokenReceivers(d)
  <2>1. d \in Ids /\ KernelTask \notin Tasks
    BY <1>2, IpcAssumption
  <2>2. \A e \in Ids : ~InSend(t, e) /\ (InReceive(t, e) => e = c)
    BY DEF ReceiveDone, MayBeReceiving
  <2>3. \A u \in woken \ {KernelTask} : InSend(u, d) <=> d = c
    BY <1>4, <1>5, <2>1, OneWaitQueue
  <2>4. \A u \in woken \ {KernelTask} : ~InReceive(u, d)
    BY <1>4, <1>5, <2>1, OneWaitQueue
  <2>5. \A u \in Tasks : Running(u)' <=> Running(u) \/ u \in woken
    BY <1>6 DEF Running
  <2>6. \A u \in Tasks : (Running(u) /\ InSend(u, d))' <=>
           (Running(u) /\ InSend(u, d)) \/ (u \in woken /\ d = c)
    BY <1>1, <1>5, <2>1, <2>2, <2>3, <2>5
  <2>7. \A u \in Tasks : (Running(u) /\ InReceive(u, d))' <=>
           Running(u) /\ InReceive(u, d) /\ (d = c => u # t)
    BY <1>1, <2>1, <2>2, <2>4, <2>5
  <2> QED BY <1>4, <2>1, <2>6, <2>7 DEF WokenReceivers, WokenSenders
<1>10. /\ Len(queue[c]) \in Nat \ {0} /\ Depth(c) \in Nat
       /\ Len(queue'[c]) = Len(queue[c]) - 1
  <2>1. queue[c] \in Seq(Envelopes) /\ Depth(c) \in Nat /\ queue[c] # <<>>
    BY <1>2, IpcAssumption DEF TypeOK, Depth, Channel, ReceiveDone, ReceiveFront
  <2>2. queue'[c] = Tail(queue[c])
    BY DEF ReceiveDone, ReceiveFront, Pop, TypeOK
  <2> QED BY <2>1, <2>2
<1>11. NoLostSenderWakeup'
  <2>1. ASSUME c \in TaskChannels, waiters_send'[c] # <<>>
        PROVE  Depth(c) - Len(queue'[c]) <= Cardinality(WokenSenders(c)')
    <3>1. waiters_send[c] # <<>>
      BY <1>3, <2>1 DEF PopFront
    <3>2. PICK u : woken = {u}
      BY <3>1 DEF woken, Woken
    <3>3. u # KernelTask
      BY <1>4, <2>1, <3>2 DEF NoSentinel
    <3>4. u \notin WokenSenders(c)
      BY <1>5, <3>2, <3>3 DEF WokenSenders, Blocked, Running
    <3>5. WokenSenders(c)' = WokenSenders(c) \cup {u}
      BY <1>2, <1>9, <3>2, <3>3
    <3>6. Cardinality(WokenSenders(c)') = Cardinality(WokenSenders(c)) + 1
      BY <3>4, <3>5, AddOne, WokenFinite
    <3>7. Depth(c) - Len(queue[c]) <= Cardinality(WokenSenders(c))
      BY <2>1, <3>1 DEF NoLostSenderWakeup
    <3> QED BY <1>10, <3>6, <3>7, WokenFinite
  <2> QED BY <1>2, <1>3, <1>9, <2>1 DEF NoLostSenderWakeup, Depth
<1>12. NoLostReceiverWakeup'
  <2>1. ASSUME c \in TaskChannels, waiters_recv[c] # <<>>
        PROVE  Len(queue'[c]) <= Cardinality(WokenReceivers(c)')
    <3>1. Len(queue[c]) <= Cardinality(WokenReceivers(c))
      BY <2>1 DEF NoLostReceiverWakeup
    <3>2. /\ Cardinality(WokenReceivers(c) \ {t}) \in Nat
          /\ Cardinality(WokenReceivers(c)) - 1 <= Cardinality(WokenReceivers(c) \ {t})
          /\ Cardinality(WokenReceivers(c)) \in Nat
      BY RemoveOne, WokenFinite
    <3>3. WokenReceivers(c)' = WokenReceivers(c) \ {t}
      BY <1>2, <1>9
    <3> QED BY <1>10, <3>1, <3>2, <3>3
  <2> QED BY <1>2, <1>3, <1>9, <2>1 DEF NoLostReceiverWakeup
<1> QED BY <1>7, <1>8, <1>11, <1>12

\* The steps that leave every call where it is.
LEMMA OtherWakeups ==
    ASSUME Safety, Wakeups, calls' = calls,
           \A t \in Tasks : state'[t] # state[t] =>
               calls[t] = NoCall /\ state'[t] # "BlockedOnIpc",
           TaskChannels' \subseteq Live',
           \A c \in TaskChannels' : IF c \in TaskChannels
              THEN /\ queue'[c] = queue[c] /\ channels'[c] = channels[c]
                   /\ waiters_send'[c] = waiters_send[c]
                   /\ waiters_recv'[c] = waiters_recv[c]
              ELSE /\ waiters_send'[c] = <<>> /\ waiters_recv'[c] = <<>>
                   /\ \A t \in Tasks : ~InSend(t, c) /\ ~InReceive(t, c)
    PROVE  Wakeups'
<1> USE DEF Wakeups
<1>1. \A t \in Tasks : \A c :
        /\ InSend(t, c)' <=> InSend(t, c)
        /\ InReceive(t, c)' <=> InReceive(t, c)
        /\ InSend(t, c) \/ InReceive(t, c) => state'[t] = state[t]
  BY NotInCall DEF InSend, InReceive
<1>2. \A c : /\ WokenSenders(c)' = WokenSenders(c)
             /\ WokenReceivers(c)' = WokenReceivers(c)
  BY <1>1 DEF WokenSenders, WokenReceivers, Running
<1>3. NoSentinel'
  <2>1. \A c \in TaskChannels' : KernelTask \notin Elements(waiters_send'[c])
    BY DEF NoSentinel, Elements
  <2> QED BY <2>1 DEF NoSentinel, Elements
<1>4. ParkedAreWaiters'
  <2>1. ASSUME NEW t \in Tasks, Blocked(t)', NEW c \in TaskChannels'
        PROVE  /\ InSend(t, c)' => t \in Elements(waiters_send'[c])
               /\ InReceive(t, c)' => t \in Elements(waiters_recv'[c])
    BY <1>1, <2>1 DEF ParkedAreWaiters, Blocked
  <2> QED BY <2>1 DEF ParkedAreWaiters, Elements
<1>5. NoLostReceiverWakeup'
  <2>1. \A c \in TaskChannels' : waiters_recv'[c] # <<>> =>
           Len(queue'[c]) <= Cardinality(WokenReceivers(c)')
    BY <1>2 DEF NoLostReceiverWakeup
  <2> QED BY <2>1 DEF NoLostReceiverWakeup
<1>6. NoLostSenderWakeup'
  <2>1. \A c \in TaskChannels' : waiters_send'[c] # <<>> =>
           channels'[c].policy.queue_depth - Len(queue'[c])
             <= Cardinality(WokenSenders(c)')
    BY <1>2 DEF NoLostSenderWakeup, Depth
  <2> QED BY <2>1 DEF NoLostSenderWakeup, Depth
<1> QED BY <1>3, <1>4, <1>5, <1>6

LEMMA InitWakeups == Init => Wakeups
<1> SUFFICES ASSUME Init PROVE Wakeups
  OBVIOUS
<1>1. TaskChannels = {}
  BY DEF Init, Live, TaskChannels
<1> QED BY <1>1 DEF Wakeups, NoSentinel, ParkedAreWaiters, NoLostReceiverWakeup,
                    NoLostSenderWakeup

LEMMA NextWakeups == Safety /\ Wakeups /\ [Next]_vars => Wakeups'
<1> SUFFICES ASSUME Safety, Wakeups, [Next]_vars PROVE Wakeups'
  OBVIOUS
<1>1. Primitive
  BY NextIsPrimitive DEF Safety
<1>2. ASSUME NEW t \in Tasks, NEW p \in Policies, NEW s \in Subjects,
             NEW r \in Subjects, IpcCreateChannel(t, p, s, r)
      PROVE  Wakeups'
  <2>1. /\ Live' = Live \cup {next_id} /\ next_id \in Ids \ Live
        /\ \A c \in Live : channels'[c] = channels[c]
        /\ queue' = queue /\ waiters_send' = waiters_send /\ waiters_recv' = waiters_recv
        /\ state' = state /\ calls' = calls
    BY <1>2 DEF IpcCreateChannel, InsertChannel, Live, Safety, TypeOK, Ids
  <2>2. waiters_send[next_id] = <<>> /\ waiters_recv[next_id] = <<>>
    BY <2>1 DEF Safety, CallsStayValid
  <2>3. \A u \in Tasks : ~InSend(u, next_id) /\ ~InReceive(u, next_id)
    BY <2>1 DEF Safety, CallsStayValid, TypeOK
  <2> QED BY <2>1, <2>2, <2>3, OtherWakeups DEF TaskChannels
<1>3. ASSUME NEW t \in Tasks, NEW c \in Ids, IpcDestroyChannel(t, c)
      PROVE  Wakeups'
  <2>1. /\ Live' = Live \ {c} /\ Live \subseteq Ids
        /\ \A d \in Live' : channels'[d] = channels[d]
        /\ state' = state /\ calls' = calls
    BY <1>3 DEF IpcDestroyChannel, Live, Safety, TypeOK
  <2>2. \A d \in Live' : /\ queue'[d] = queue[d]
                         /\ waiters_send'[d] = waiters_send[d]
                         /\ waiters_recv'[d] = waiters_recv[d]
    BY <1>3, <2>1 DEF IpcDestroyChannel, Safety, TypeOK
  <2> QED BY <2>1, <2>2, OtherWakeups DEF TaskChannels
<1>4. ASSUME NEW c \in Ids, NEW m \in Payloads, IrqNotify(c, m)
      PROVE  Wakeups'
  <2>1. /\ Live' = Live /\ channels' = channels /\ Live \subseteq Ids
        /\ state' = state /\ calls' = calls /\ c \in IrqChannels
    BY <1>4 DEF IrqNotify, Push, ParkSender, Live, Safety, TypeOK
  <2>2. \A d \in Ids : d # c => /\ queue'[d] = queue[d]
                                /\ waiters_send'[d] = waiters_send[d]
                                /\ waiters_recv'[d] = waiters_recv[d]
    BY <1>4 DEF IrqNotify, Push, ParkSender, Safety, TypeOK
  <2> QED BY <2>1, <2>2, OtherWakeups DEF TaskChannels
<1>5. ASSUME NEW t \in Tasks, TaskExit(t)
      PROVE  Wakeups'
  <2>1. /\ Live' = Live /\ UNCHANGED <<channels, queue, waiters_send, waiters_recv, calls>>
        /\ \A u \in Tasks : state'[u] # state[u] =>
              calls[u] = NoCall /\ state'[u] # "BlockedOnIpc"
    BY <1>5 DEF TaskExit, Live, Safety, TypeOK
  <2> QED BY <2>1, OtherWakeups DEF TaskChannels
<1>6. CASE UNCHANGED vars
  <2>1. Live' = Live /\ UNCHANGED <<channels, queue, waiters_send, waiters_recv, calls, state>>
    BY <1>6 DEF vars, Live
  <2> QED BY <2>1, OtherWakeups DEF TaskChannels
<1> QED BY <1>1, <1>2, <1>3, <1>4, <1>5, <1>6, ErrorStepWakeups, SendParksWakeups,
           SendDoneWakeups, ReceiveDoneWakeups, ReceiveParksWakeups
        DEF Primitive

\* On a channel no interrupt is bound to, a parked task is always on the wait
\* queue its waker looks at, each queued message has a woken receiver as long
\* as receivers sleep, and each free place a woken sender as long as senders
\* sleep: for every configuration, whatever third tasks do in between.
THEOREM NoLostWakeups ==
    Spec => []NoLostWakeup
<1>1. Init => Safety /\ Wakeups
  BY InitSafety, InitWakeups
<1>2. Safety /\ Wakeups /\ [Next]_vars => (Safety /\ Wakeups)'
  BY NextSafety, NextWakeups
<1>3. Wakeups => NoLostWakeup
  BY DEF Wakeups, NoLostWakeup
<1> QED BY <1>1, <1>2, <1>3, PTL DEF Spec
=============================================================================
