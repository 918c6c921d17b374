----------------------------- MODULE NetworkProofs -----------------------------
(***************************************************************************)
(* The proofs about the network.                                           *)
(*                                                                         *)
(* The socket relay, for any number of callers and any queue depth: the    *)
(* answers on their way match the callers that wait for one, but for one   *)
(* each time a handshake outlasts its deadline or an answer does not fit,  *)
(* and a queued answer that is not left over has a caller awake to take it. *)
(*                                                                         *)
(* TCP, for any amount of loss, duplication and reordering, any number of  *)
(* retransmissions and any stream lengths that NumbersAssumption allows:   *)
(* what a connection delivers is a prefix of what the peer wrote, a byte   *)
(* is kept until it was delivered, and FIN_WAIT_2 means what it says.      *)
(***************************************************************************)
EXTENDS SocketRelay, Tcp, SequenceTheorems, FiniteSetTheorems, WellFoundedInduction, TLAPS

Woken == {c \in Clients : phase[c] = "woken"}

\* waiters_recv of the reply channel names each parked caller, once.
ReceiversExact ==
    /\ \A i \in 1 .. Len(receivers) : phase[receivers[i]] = "parked"
    /\ \A i, j \in 1 .. Len(receivers) : receivers[i] = receivers[j] => i = j
    /\ \A c \in Clients : phase[c] = "parked" =>
            \E i \in 1 .. Len(receivers) : receivers[i] = c

\* Callers between the send loop and the return have a request.
SendersAsk == \A c \in Clients : phase[c] = "sending" => request[c] # NoRequest

Relay == TypeOK /\ ReceiversExact /\ SendersAsk

\* What a change of one caller's phase does to the counts.
LEMMA PhaseCounts ==
    ASSUME TypeOK, NEW c \in Clients,
           NEW p \in {"user", "sending", "parked", "woken"},
           phase' = [phase EXCEPT ![c] = p]
    PROVE  /\ Cardinality(Waiting) \in Nat /\ Cardinality(Woken) \in Nat
           /\ phase[c] \in {"user", "sending"} /\ p \in {"parked", "woken"} =>
                Cardinality(Waiting') = Cardinality(Waiting) + 1
           /\ phase[c] \in {"parked", "woken"} /\ p = "user" =>
                Cardinality(Waiting') = Cardinality(Waiting) - 1
           /\ (phase[c] \in {"parked", "woken"} <=> p \in {"parked", "woken"}) =>
                Cardinality(Waiting') = Cardinality(Waiting)
           /\ phase[c] # "woken" /\ p = "woken" =>
                Cardinality(Woken') = Cardinality(Woken) + 1
           /\ phase[c] = "woken" /\ p # "woken" =>
                Cardinality(Woken') = Cardinality(Woken) - 1
           /\ phase[c] # "woken" /\ p # "woken" => Woken' = Woken
<1>1. IsFiniteSet(Waiting) /\ IsFiniteSet(Woken)
  <2>1. Waiting \subseteq Clients /\ Woken \subseteq Clients
    BY DEF Waiting, Woken
  <2> QED BY <2>1, RelayAssumption, FS_Subset
<1>2. Cardinality(Waiting) \in Nat /\ Cardinality(Woken) \in Nat
  BY <1>1, FS_CardinalityType
<1>3. /\ phase'[c] = p
      /\ \A d \in Clients : d # c => phase'[d] = phase[d]
  BY DEF TypeOK
<1>4. ASSUME phase[c] \in {"user", "sending"}, p \in {"parked", "woken"}
      PROVE  Cardinality(Waiting') = Cardinality(Waiting) + 1
  <2>1. Waiting' = Waiting \cup {c} /\ c \notin Waiting
    BY <1>3, <1>4 DEF Waiting
  <2> QED BY <1>1, <2>1, FS_AddElement
<1>5. ASSUME phase[c] \in {"parked", "woken"}, p = "user"
      PROVE  Cardinality(Waiting') = Cardinality(Waiting) - 1
  <2>1. Waiting' = Waiting \ {c} /\ c \in Waiting
    BY <1>3, <1>5 DEF Waiting
  <2> QED BY <1>1, <2>1, FS_RemoveElement
<1>6. ASSUME (phase[c] \in {"parked", "woken"} <=> p \in {"parked", "woken"})
      PROVE  Cardinality(Waiting') = Cardinality(Waiting)
  <2>1. Waiting' = Waiting
    BY <1>3, <1>6 DEF Waiting
  <2> QED BY <2>1
<1>7. ASSUME phase[c] # "woken", p = "woken"
      PROVE  Cardinality(Woken') = Cardinality(Woken) + 1
  <2>1. Woken' = Woken \cup {c} /\ c \notin Woken
    BY <1>3, <1>7 DEF Woken
  <2> QED BY <1>1, <2>1, FS_AddElement
<1>8. ASSUME phase[c] = "woken", p # "woken"
      PROVE  Cardinality(Woken') = Cardinality(Woken) - 1
  <2>1. Woken' = Woken \ {c} /\ c \in Woken
    BY <1>3, <1>8 DEF Woken
  <2> QED BY <1>1, <2>1, FS_RemoveElement
<1>9. ASSUME phase[c] # "woken", p # "woken" PROVE Woken' = Woken
  BY <1>3, <1>9 DEF Woken
<1> QED BY <1>2, <1>4, <1>5, <1>6, <1>7, <1>8, <1>9

----------------------------------------------------------------------------
(* Types and the wait queue, deadline or not.                              *)

LEMMA InitRelay == Init => Relay
<1> SUFFICES ASSUME Init PROVE Relay
  OBVIOUS
<1>1. <<>> \in Seq(Requests) /\ <<>> \in Seq(Clients) /\ Len(<<>>) = 0 /\ 0 <= Depth
  BY RelayAssumption
<1>2. deadline \in BOOLEAN
  BY DEF Init
<1>3. TypeOK
  BY <1>1, <1>2 DEF Init, TypeOK
<1>4. 1 .. Len(receivers) = {}
  BY <1>1 DEF Init
<1>5. ReceiversExact
  BY <1>4 DEF Init, ReceiversExact
<1> QED BY <1>3, <1>5 DEF Init, Relay, SendersAsk

LEMMA NumberedType ==
    ASSUME TypeOK, NEW c \in Clients, NEW op \in Ops
    PROVE  Numbered(c, op) \in Requests /\ Numbered(c, op) # NoRequest
<1>1. (IF request[c] = NoRequest THEN 0 ELSE (request[c].n + 1) % Numbers)
        \in 0 .. Numbers - 1
  <2>1. request[c] # NoRequest => request[c].n \in Nat
    BY DEF TypeOK, Requests
  <2> QED BY <2>1, RelayAssumption
<1> QED BY <1>1, RelayAssumption DEF Numbered, Requests

LEMMA RelayReceiveType ==
    ASSUME TypeOK, NEW c \in Clients, RelayReceive(c)
    PROVE  /\ replies' \in Seq(Requests) /\ Len(replies') <= Depth
           /\ receivers' \in Seq(Clients)
           /\ phase' \in [Clients -> {"user", "sending", "parked", "woken"}]
<1>1. CASE replies = <<>>
  <2>1. /\ replies' = replies /\ receivers' = Append(receivers, c)
        /\ phase' = [phase EXCEPT ![c] = "parked"]
    BY <1>1 DEF RelayReceive
  <2>2. /\ replies \in Seq(Requests) /\ Len(replies) <= Depth /\ receivers \in Seq(Clients)
        /\ phase \in [Clients -> {"user", "sending", "parked", "woken"}]
    BY DEF TypeOK
  <2>3. receivers' \in Seq(Clients)
    BY <2>1, <2>2
  <2> QED BY <2>1, <2>2, <2>3
<1>2. CASE replies # <<>>
  <2>1. Head(replies) \in Requests /\ Tail(replies) \in Seq(Requests)
        /\ Len(Tail(replies)) = Len(replies) - 1 /\ Len(replies) \in Nat
    BY <1>2 DEF TypeOK
  <2>2. Len(Tail(replies)) <= Depth
    BY <2>1, RelayAssumption DEF TypeOK
  <2> QED BY <1>2, <2>1, <2>2 DEF RelayReceive, TypeOK
<1> QED BY <1>1, <1>2

LEMMA RelayReceiveWaits ==
    ASSUME TypeOK, ReceiversExact, NEW c \in Clients, phase[c] # "parked",
           RelayReceive(c)
    PROVE  ReceiversExact'
<1>1. receivers \in Seq(Clients) /\ Len(receivers) \in Nat
      /\ phase \in [Clients -> {"user", "sending", "parked", "woken"}]
  BY DEF TypeOK
<1>2. \A i \in 1 .. Len(receivers) : receivers[i] \in Clients /\ receivers[i] # c
  BY <1>1 DEF ReceiversExact
<1>3. CASE replies = <<>>
  <2>1. /\ Len(receivers') = Len(receivers) + 1
        /\ receivers'[Len(receivers) + 1] = c
        /\ \A i \in 1 .. Len(receivers) : receivers'[i] = receivers[i]
    BY <1>1, <1>3 DEF RelayReceive
  <2>2. phase'[c] = "parked" /\ \A d \in Clients : d # c => phase'[d] = phase[d]
    BY <1>1, <1>3 DEF RelayReceive
  <2>3. \A i \in 1 .. Len(receivers') :
            i \in 1 .. Len(receivers) \/ i = Len(receivers) + 1
    BY <1>1, <2>1
  <2>4. \A i \in 1 .. Len(receivers') : phase'[receivers'[i]] = "parked"
    BY <1>2, <2>1, <2>2, <2>3 DEF ReceiversExact
  <2>5. \A i, j \in 1 .. Len(receivers') : receivers'[i] = receivers'[j] => i = j
    BY <1>2, <2>1, <2>3 DEF ReceiversExact
  <2>6. \A d \in Clients : phase'[d] = "parked" =>
            \E i \in 1 .. Len(receivers') : receivers'[i] = d
    <3> SUFFICES ASSUME NEW d \in Clients, phase'[d] = "parked"
                 PROVE  \E i \in 1 .. Len(receivers') : receivers'[i] = d
      OBVIOUS
    <3>1. CASE d = c
      BY <1>1, <2>1, <3>1
    <3>2. CASE d # c
      <4>1. PICK i \in 1 .. Len(receivers) : receivers[i] = d
        BY <2>2, <3>2 DEF ReceiversExact
      <4> QED BY <1>1, <2>1, <4>1
    <3> QED BY <3>1, <3>2
  <2> QED BY <2>4, <2>5, <2>6 DEF ReceiversExact
<1>4. CASE replies # <<>>
  <2>1. /\ receivers' = receivers /\ phase'[c] = "user"
        /\ \A d \in Clients : d # c => phase'[d] = phase[d]
    BY <1>1, <1>4 DEF RelayReceive
  <2> QED BY <1>2, <2>1 DEF ReceiversExact
<1> QED BY <1>3, <1>4

LEMMA SocketCallRelay ==
    ASSUME Relay, NEW c \in Clients, NEW op \in Ops, SocketCall(c, op)
    PROVE  Relay'
<1> USE DEF Relay
<1>0. Numbered(c, op) \in Requests /\ Numbered(c, op) # NoRequest /\ phase[c] = "user"
  BY NumberedType DEF SocketCall, counts
<1>1. /\ request' \in [Clients -> Requests \cup {NoRequest}]
      /\ request'[c] # NoRequest
      /\ \A d \in Clients : d # c => request'[d] = request[d]
  BY <1>0 DEF SocketCall, TypeOK
<1>2. CASE StackFull
  <2>1. /\ phase' = [phase EXCEPT ![c] = "sending"]
        /\ UNCHANGED <<stack, replies, receivers, tcpvars, outbox, leftover, unanswered>>
    BY <1>2 DEF SocketCall, counts
  <2>2. TypeOK'
    BY <1>1, <2>1 DEF TypeOK, tcpvars
  <2>3. phase'[c] = "sending" /\ \A d \in Clients : d # c => phase'[d] = phase[d]
    BY <2>1 DEF TypeOK
  <2>4. \A i \in 1 .. Len(receivers) : receivers[i] \in Clients /\ receivers[i] # c
    BY <1>0 DEF ReceiversExact, TypeOK
  <2>5. ReceiversExact'
    BY <2>1, <2>3, <2>4 DEF ReceiversExact
  <2> QED BY <1>1, <2>2, <2>3, <2>5 DEF SendersAsk
<1>3. CASE ~StackFull
  <2>1. /\ stack' = Append(stack, Numbered(c, op)) /\ RelayReceive(c)
        /\ UNCHANGED <<tcpvars, outbox, leftover, unanswered>>
    BY <1>3 DEF SocketCall, counts
  <2>2. stack' \in Seq(Requests) /\ Len(stack') <= Depth
    <3>1. stack \in Seq(Requests) /\ Len(stack) \in Nat /\ Len(stack) < Depth
      BY <1>3, RelayAssumption DEF TypeOK, StackFull
    <3>2. Len(stack') = Len(stack) + 1 /\ stack' \in Seq(Requests)
      BY <1>0, <2>1, <3>1
    <3> QED BY <3>1, <3>2, RelayAssumption
  <2>3. TypeOK'
    BY <1>1, <2>1, <2>2, RelayReceiveType DEF TypeOK, tcpvars
  <2>4. ReceiversExact'
    BY <1>0, <2>1, RelayReceiveWaits
  <2>5. \A d \in Clients : phase'[d] = "sending" => d # c /\ phase[d] = "sending"
    BY <2>1 DEF RelayReceive, TypeOK
  <2> QED BY <1>1, <2>3, <2>4, <2>5 DEF SendersAsk
<1> QED BY <1>2, <1>3

LEMMA RetryRelay ==
    ASSUME Relay, NEW c \in Clients, SendRetry(c) \/ ReceiveRetry(c)
    PROVE  Relay'
<1> USE DEF Relay
<1>1. /\ phase[c] # "parked" /\ RelayReceive(c)
      /\ UNCHANGED <<request, tcpvars, outbox, leftover, unanswered>>
  BY DEF SendRetry, ReceiveRetry, counts
<1>2. stack' \in Seq(Requests) /\ Len(stack') <= Depth
  <2>1. CASE SendRetry(c)
    <3>1. stack \in Seq(Requests) /\ Len(stack) \in Nat /\ Len(stack) < Depth
      BY <2>1, RelayAssumption DEF TypeOK, StackFull, SendRetry
    <3>2. request[c] \in Requests
      BY <2>1 DEF TypeOK, SendersAsk, SendRetry
    <3>3. Len(stack') = Len(stack) + 1 /\ stack' \in Seq(Requests)
      BY <2>1, <3>1, <3>2 DEF SendRetry
    <3> QED BY <3>1, <3>3, RelayAssumption
  <2>2. CASE ReceiveRetry(c)
    BY <2>2 DEF ReceiveRetry, TypeOK
  <2> QED BY <2>1, <2>2
<1>3. TypeOK'
  BY <1>1, <1>2, RelayReceiveType DEF TypeOK, tcpvars
<1>4. ReceiversExact'
  BY <1>1, RelayReceiveWaits
<1>5. \A d \in Clients : phase'[d] = "sending" => phase[d] = "sending"
  BY <1>1 DEF RelayReceive, TypeOK
<1> QED BY <1>1, <1>3, <1>4, <1>5 DEF SendersAsk

LEMMA ServeRequestRelay ==
    ASSUME Relay, ServeRequest
    PROVE  Relay'
<1> USE DEF Relay
<1>1. /\ Head(stack) \in Requests /\ stack' \in Seq(Requests)
      /\ Len(stack') = Len(stack) - 1 /\ Len(stack) \in Nat /\ Len(stack) <= Depth
  BY DEF ServeRequest, TypeOK
<1>2. /\ UNCHANGED <<replies, receivers, phase, request, leftover, unanswered>>
      /\ \/ outbox' = Head(stack) /\ UNCHANGED <<pending_connect, syn_sent, deadline>>
         \/ /\ pending_connect' = Head(stack) /\ syn_sent' = syn_sent \cup {Head(stack)}
            /\ deadline' = TRUE /\ UNCHANGED outbox
  BY DEF ServeRequest, ConnectRequest, tcpvars, clientvars, counts
<1>3. Len(stack') <= Depth
  BY <1>1, RelayAssumption
<1>4. deadline' \in BOOLEAN /\ syn_sent' \subseteq Requests
  BY <1>1, <1>2, Zenon DEF TypeOK
<1>5. TypeOK'
  BY <1>1, <1>2, <1>3, <1>4 DEF TypeOK
<1> QED BY <1>2, <1>5 DEF ReceiversExact, SendersAsk

LEMMA ServeOversizedRelay ==
    ASSUME Relay, ServeOversized
    PROVE  Relay'
<1> USE DEF Relay
<1>1. /\ stack' \in Seq(Requests) /\ Len(stack') = Len(stack) - 1 /\ Len(stack) \in Nat
      /\ Len(stack) <= Depth /\ unanswered' \in Nat
      /\ UNCHANGED <<replies, receivers, phase, request, pending_connect, syn_sent, deadline>>
      /\ UNCHANGED <<outbox, leftover>>
  BY DEF ServeOversized, TypeOK, tcpvars, clientvars
<1>2. Len(stack') <= Depth
  BY <1>1, RelayAssumption
<1>3. TypeOK'
  BY <1>1, <1>2 DEF TypeOK
<1> QED BY <1>1, <1>3 DEF ReceiversExact, SendersAsk

LEMMA SendReplyRelay ==
    ASSUME Relay, SendReply
    PROVE  Relay'
<1> USE DEF Relay
<1>1. replies' \in Seq(Requests) /\ Len(replies') <= Depth
  <2>1. replies \in Seq(Requests) /\ Len(replies) \in Nat /\ Len(replies) < Depth
        /\ outbox \in Requests
    BY RelayAssumption DEF SendReply, TypeOK
  <2>2. Len(replies') = Len(replies) + 1 /\ replies' \in Seq(Requests)
    BY <2>1 DEF SendReply
  <2> QED BY <2>1, <2>2, RelayAssumption
<1>2. CASE receivers = <<>>
  BY <1>1, <1>2 DEF SendReply, TypeOK, ReceiversExact, SendersAsk, tcpvars, counts
<1>3. CASE receivers # <<>>
  <2> DEFINE w == Head(receivers)
  <2>1. receivers \in Seq(Clients) /\ Len(receivers) \in Nat \ {0} /\ w \in Clients
        /\ w = receivers[1]
    BY <1>3 DEF TypeOK
  <2>2. receivers' = Tail(receivers) /\ phase' = [phase EXCEPT ![w] = "woken"]
        /\ UNCHANGED <<stack, request, tcpvars, leftover, unanswered>> /\ outbox' = NoRequest
    BY <1>3 DEF SendReply, counts
  <2>3. receivers' \in Seq(Clients) /\ Len(receivers') = Len(receivers) - 1
        /\ \A i \in 1 .. Len(receivers') : receivers'[i] = receivers[i + 1]
                                             /\ i + 1 \in 1 .. Len(receivers)
    BY <2>1, <2>2
  <2>4. phase'[w] = "woken" /\ \A d \in Clients : d # w => phase'[d] = phase[d]
    BY <2>1, <2>2 DEF TypeOK
  <2> HIDE DEF w
  <2>5. TypeOK'
    BY <1>1, <2>1, <2>2, <2>3 DEF TypeOK, tcpvars
  <2>6. \A i \in 1 .. Len(receivers') : receivers'[i] # w /\ receivers'[i] \in Clients
    BY <2>1, <2>3 DEF ReceiversExact
  <2>7. \A i \in 1 .. Len(receivers') : phase'[receivers'[i]] = "parked"
    BY <2>3, <2>4, <2>6 DEF ReceiversExact
  <2>8. \A i, j \in 1 .. Len(receivers') : receivers'[i] = receivers'[j] => i = j
    <3> SUFFICES ASSUME NEW i \in 1 .. Len(receivers'), NEW j \in 1 .. Len(receivers'),
                        receivers'[i] = receivers'[j]
                 PROVE  i = j
      OBVIOUS
    <3>1. i + 1 = j + 1
      BY <2>3 DEF ReceiversExact
    <3> QED BY <3>1
  <2>9. \A d \in Clients : phase'[d] = "parked" =>
            \E i \in 1 .. Len(receivers') : receivers'[i] = d
    <3> SUFFICES ASSUME NEW d \in Clients, phase'[d] = "parked"
                 PROVE  \E i \in 1 .. Len(receivers') : receivers'[i] = d
      OBVIOUS
    <3>1. d # w /\ phase[d] = "parked"
      BY <2>4
    <3>2. PICK k \in 1 .. Len(receivers) : receivers[k] = d
      BY <3>1 DEF ReceiversExact
    <3>3. k # 1 /\ k - 1 \in 1 .. Len(receivers')
      BY <2>1, <2>3, <3>1, <3>2
    <3>4. receivers'[k - 1] = d
      BY <2>3, <3>2, <3>3
    <3> QED BY <3>3, <3>4
  <2>10. SendersAsk'
    BY <2>1, <2>2, <2>4 DEF SendersAsk
  <2> QED BY <2>5, <2>7, <2>8, <2>9, <2>10 DEF ReceiversExact
<1> QED BY <1>2, <1>3

LEMMA ResolveRelay ==
    ASSUME Relay, NEW r \in syn_sent,
           HandshakeEnds(r) \/ ConnectTimesOut(r)
    PROVE  Relay'
<1> USE DEF Relay
<1>1. /\ r \in Requests
      /\ UNCHANGED <<stack, replies, receivers, phase, request>>
  BY DEF HandshakeEnds, ConnectTimesOut, clientvars, TypeOK
<1>2. TypeOK'
  BY <1>1 DEF HandshakeEnds, ConnectTimesOut,
              ResolvePendingConnect, TypeOK, counts
<1> QED BY <1>1, <1>2 DEF ReceiversExact, SendersAsk

LEMMA DeadlineRelay ==
    ASSUME Relay, DeadlineExpires
    PROVE  Relay'
<1>1. deadline' \in BOOLEAN
  BY DEF DeadlineExpires
<1>2. TypeOK'
  BY <1>1 DEF DeadlineExpires, TypeOK, Relay, clientvars
<1> QED BY <1>2 DEF DeadlineExpires, Relay, ReceiversExact, SendersAsk, clientvars

LEMMA NextRelay == Relay /\ [Next]_rvars => Relay'
<1> SUFFICES ASSUME Relay, [Next]_rvars PROVE Relay'
  OBVIOUS
<1>1. CASE UNCHANGED rvars
  BY <1>1 DEF rvars, Relay, TypeOK, ReceiversExact, SendersAsk
<1> QED BY <1>1, SocketCallRelay, RetryRelay, ServeRequestRelay,
           ServeOversizedRelay, SendReplyRelay, ResolveRelay, DeadlineRelay DEF Next

----------------------------------------------------------------------------
(* The deferred answer.                                                    *)

LEMMA NextPending ==
    Relay /\ PendingIsHalfOpen /\ [Next]_rvars => PendingIsHalfOpen'
<1> SUFFICES ASSUME Relay, PendingIsHalfOpen, [Next]_rvars PROVE PendingIsHalfOpen'
  OBVIOUS
<1>1. CASE ServeRequest
  <2>1. Head(stack) \in Requests
    BY <1>1 DEF ServeRequest, Relay, TypeOK
  <2>2. Head(stack) # NoRequest
    BY <2>1, RelayAssumption
  <2> QED BY <1>1, <2>2 DEF ServeRequest, ConnectRequest, PendingIsHalfOpen, tcpvars
<1>2. ASSUME NEW r \in syn_sent, HandshakeEnds(r) \/ ConnectTimesOut(r)
      PROVE  PendingIsHalfOpen'
  <2>1. pending_connect = r /\ syn_sent = {r}
    BY DEF PendingIsHalfOpen
  <2> QED BY <1>2, <2>1 DEF HandshakeEnds, ConnectTimesOut,
             ResolvePendingConnect, PendingIsHalfOpen
<1>3. CASE UNCHANGED <<pending_connect, syn_sent>>
  BY <1>3 DEF PendingIsHalfOpen
<1> QED BY <1>1, <1>2, <1>3 DEF Next, SocketCall, SendRetry, ReceiveRetry,
           ServeOversized, SendReply, DeadlineExpires, tcpvars, rvars

\* For every set of callers, queue depth and timing of deadlines, a deferred
\* Connect has exactly its own handshake to release it (pending_connect and
\* resolve_pending_connect of NetworkService).
THEOREM DeferredAnswerReleased == Spec => []PendingIsHalfOpen
<1>1. Init => Relay /\ PendingIsHalfOpen
  BY InitRelay DEF Init, PendingIsHalfOpen
<1>2. Relay /\ PendingIsHalfOpen /\ [Next]_rvars => Relay' /\ PendingIsHalfOpen'
  BY NextRelay, NextPending
<1> QED BY <1>1, <1>2, PTL DEF Spec

----------------------------------------------------------------------------
(* Counting answers.                                                       *)

\* Requests that have still to become an answer on "stack_reply", or never
\* will because their answer did not fit.
OnTheWay == Len(stack) + Present(outbox) + Present(pending_connect) + unanswered

\* The backstop is armed only while an answer is deferred.
DeadlineArmed == deadline => pending_connect # NoRequest

Balanced == Relay /\ DeadlineArmed /\ AnswersBalance /\ AnswerHasTaker

CountsTyped ==
    /\ Cardinality(Waiting) \in Nat /\ Cardinality(Woken) \in Nat
    /\ Len(stack) \in Nat /\ Len(replies) \in Nat /\ leftover \in Nat /\ unanswered \in Nat
    /\ Present(outbox) \in 0 .. 1 /\ Present(pending_connect) \in 0 .. 1
    /\ OnTheWay \in Nat

LEMMA CountTypes == TypeOK => CountsTyped
<1> SUFFICES ASSUME TypeOK PROVE CountsTyped
  OBVIOUS
<1>1. Waiting \subseteq Clients /\ Woken \subseteq Clients
  BY DEF Waiting, Woken
<1>2. Cardinality(Waiting) \in Nat /\ Cardinality(Woken) \in Nat
  BY <1>1, RelayAssumption, FS_Subset, FS_CardinalityType
<1>3. /\ Len(stack) \in Nat /\ Len(replies) \in Nat /\ leftover \in Nat
      /\ unanswered \in Nat
  BY DEF TypeOK
<1>4. Present(outbox) \in 0 .. 1 /\ Present(pending_connect) \in 0 .. 1
  BY DEF Present
<1>5. OnTheWay \in Nat
  BY <1>3, <1>4 DEF OnTheWay
<1> QED BY <1>2, <1>3, <1>4, <1>5 DEF CountsTyped

LEMMA CountTypesNext == TypeOK' => CountsTyped'
BY CountTypes, PTL

LEMMA KeepEqual ==
    ASSUME NEW w \in Int, NEW w2 \in Int, NEW x \in Int, NEW x2 \in Int,
           NEW y \in Int, NEW y2 \in Int, NEW q \in Int, NEW q2 \in Int,
           w + x = y + q, (w2 - w) + (x2 - x) = (y2 - y) + (q2 - q)
    PROVE  w2 + x2 = y2 + q2
OBVIOUS

\* What a step adds to the callers that wait and to the left-over answers it
\* must add to the answers on their way.
LEMMA StillBalanced ==
    ASSUME TypeOK, TypeOK', AnswersBalance,
           (Cardinality(Waiting') - Cardinality(Waiting)) + (leftover' - leftover) =
               (OnTheWay' - OnTheWay) + (Len(replies') - Len(replies))
    PROVE  AnswersBalance'
<1> DEFINE w == Cardinality(Waiting)  w2 == Cardinality(Waiting')
           y == OnTheWay              y2 == OnTheWay'
           q == Len(replies)          q2 == Len(replies')
           x == leftover              x2 == leftover'
<1>1. /\ w \in Int /\ w2 \in Int /\ y \in Int /\ y2 \in Int /\ q \in Int /\ q2 \in Int
      /\ x \in Int /\ x2 \in Int
  BY CountTypes, CountTypesNext DEF CountsTyped
<1>2. w + x = y + q
  BY DEF AnswersBalance, OnTheWay
<1>3. (w2 - w) + (x2 - x) = (y2 - y) + (q2 - q)
  OBVIOUS
<1>4. w2 + x2 = y2 + q2
  <2> HIDE DEF w, w2, x, x2, y, y2, q, q2
  <2> QED BY <1>1, <1>2, <1>3, KeepEqual
<1> QED BY <1>4 DEF AnswersBalance, OnTheWay

\* A pass of the receive loop gives the balance one more waiting caller,
\* unless the caller was waiting already, and leaves every answer a taker.
LEMMA RelayReceiveCounts ==
    ASSUME Relay, AnswerHasTaker, NEW c \in Clients, phase[c] # "parked",
           RelayReceive(c), TypeOK', leftover' = leftover
    PROVE  /\ Cardinality(Waiting') - Cardinality(Waiting) =
                (IF phase[c] = "woken" THEN 0 ELSE 1) + (Len(replies') - Len(replies))
           /\ AnswerHasTaker'
<1>0. /\ replies \in Seq(Requests) /\ Len(replies) \in Nat
      /\ phase[c] \in {"user", "sending", "woken"}
      /\ Len(replies) <= Cardinality(Woken) + leftover
  BY CountTypes DEF CountsTyped, Relay, TypeOK, AnswerHasTaker, Woken
<1>t. /\ Cardinality(Waiting) \in Nat /\ Cardinality(Woken) \in Nat /\ leftover \in Nat
      /\ Cardinality(Waiting') \in Nat /\ Cardinality(Woken') \in Nat
  BY CountTypes, CountTypesNext DEF CountsTyped, Relay
<1>1. CASE replies = <<>>
  <2>1. phase' = [phase EXCEPT ![c] = "parked"] /\ replies' = replies /\ Len(replies) = 0
    BY <1>1 DEF RelayReceive
  <2>2. /\ phase[c] = "woken" => Cardinality(Waiting') = Cardinality(Waiting)
        /\ phase[c] # "woken" => Cardinality(Waiting') = Cardinality(Waiting) + 1
    BY <1>0, <2>1, PhaseCounts DEF Relay
  <2>3. Len(replies') <= Cardinality(Woken') + leftover'
    BY <1>t, <2>1
  <2>4. AnswerHasTaker'
    BY <2>3 DEF AnswerHasTaker, Woken
  <2> QED BY <1>t, <2>1, <2>2, <2>4
<1>2. CASE replies # <<>>
  <2>1. phase' = [phase EXCEPT ![c] = "user"] /\ Len(replies') = Len(replies) - 1
    BY <1>0, <1>2 DEF RelayReceive
  <2>2. /\ phase[c] = "woken" => Cardinality(Waiting') = Cardinality(Waiting) - 1
        /\ phase[c] # "woken" => Cardinality(Waiting') = Cardinality(Waiting)
        /\ phase[c] = "woken" => Cardinality(Woken') = Cardinality(Woken) - 1
        /\ phase[c] # "woken" => Cardinality(Woken') = Cardinality(Woken)
    BY <1>0, <2>1, PhaseCounts DEF Relay
  <2>3. Len(replies') <= Cardinality(Woken') + leftover'
    BY <1>0, <1>t, <2>1, <2>2
  <2>4. AnswerHasTaker'
    BY <2>3 DEF AnswerHasTaker, Woken
  <2> QED BY <1>0, <1>t, <2>1, <2>2, <2>4
<1> QED BY <1>1, <1>2

LEMMA PresentRequest ==
    ASSUME NEW r \in Requests
    PROVE  Present(r) = 1 /\ Present(NoRequest) = 0
BY RelayAssumption DEF Present

\* Steps that neither wake nor park a caller.
LEMMA ServiceCounts ==
    ASSUME Relay, TypeOK', AnswersBalance, AnswerHasTaker,
           UNCHANGED <<phase, replies>>, leftover' - leftover = OnTheWay' - OnTheWay
    PROVE  AnswersBalance' /\ (leftover' >= leftover => AnswerHasTaker')
<1>1. Waiting' = Waiting /\ Woken' = Woken
  BY DEF Waiting, Woken
<1>2. /\ Cardinality(Waiting) \in Nat /\ Cardinality(Woken) \in Nat /\ Len(replies) \in Nat
      /\ leftover \in Nat /\ leftover' \in Nat /\ OnTheWay \in Nat /\ OnTheWay' \in Nat
  BY CountTypes, CountTypesNext DEF CountsTyped, Relay
<1>3. (Cardinality(Waiting') - Cardinality(Waiting)) + (leftover' - leftover) =
        (OnTheWay' - OnTheWay) + (Len(replies') - Len(replies))
  BY <1>1, <1>2
<1>4. AnswersBalance'
  BY <1>3, StillBalanced DEF Relay
<1>5. leftover' >= leftover => AnswerHasTaker'
  <2>1. Len(replies) <= Cardinality(Woken) + leftover
    BY DEF AnswerHasTaker, Woken
  <2>2. leftover' >= leftover => Len(replies') <= Cardinality(Woken') + leftover'
    BY <1>1, <1>2, <2>1
  <2> QED BY <2>2 DEF AnswerHasTaker, Woken
<1> QED BY <1>4, <1>5

LEMMA ServeRequestCounts ==
    ASSUME Balanced, TypeOK', ServeRequest
    PROVE  AnswersBalance' /\ AnswerHasTaker' /\ DeadlineArmed'
<1>1. /\ Head(stack) \in Requests /\ Len(stack') = Len(stack) - 1 /\ Len(stack) \in Nat
      /\ UNCHANGED <<phase, replies, leftover, unanswered>> /\ outbox = NoRequest
  BY DEF ServeRequest, Balanced, Relay, TypeOK, clientvars, counts
<1>2. \/ /\ outbox' = Head(stack)
         /\ pending_connect' = pending_connect
         /\ deadline' = deadline
      \/ /\ pending_connect = NoRequest
         /\ pending_connect' = Head(stack)
         /\ outbox' = NoRequest
  BY <1>1 DEF ServeRequest, ConnectRequest, tcpvars
<1>3. Present(outbox') + Present(pending_connect') =
        Present(outbox) + Present(pending_connect) + 1
  <2>1. Present(pending_connect) \in {0, 1}
    BY DEF Present
  <2> QED BY <1>1, <1>2, <2>1, PresentRequest
<1>4. OnTheWay' = OnTheWay
  <2> DEFINE o == Present(outbox)   p == Present(pending_connect)
             o2 == Present(outbox') p2 == Present(pending_connect')
  <2>1. o \in 0 .. 1 /\ p \in 0 .. 1 /\ o2 \in 0 .. 1 /\ p2 \in 0 .. 1 /\ unanswered \in Nat
    BY CountTypes, CountTypesNext DEF CountsTyped, Balanced, Relay
  <2>2. o2 + p2 = o + p + 1
    BY <1>3
  <2>3. /\ OnTheWay = Len(stack) + o + p + unanswered
        /\ OnTheWay' = Len(stack') + o2 + p2 + unanswered
    BY <1>1 DEF OnTheWay
  <2> HIDE DEF o, p, o2, p2
  <2> QED BY <1>1, <2>1, <2>2, <2>3
<1>5. AnswersBalance' /\ AnswerHasTaker'
  <2>1. leftover' - leftover = OnTheWay' - OnTheWay /\ leftover' >= leftover
    BY <1>1, <1>4, CountTypes DEF CountsTyped, Balanced, Relay
  <2> QED BY <1>1, <2>1, ServiceCounts DEF Balanced
<1>6. Head(stack) # NoRequest
  BY <1>1, RelayAssumption
<1>7. DeadlineArmed'
  BY <1>2, <1>6, Zenon DEF DeadlineArmed, Balanced
<1> QED BY <1>5, <1>7

\* An answer that does not fit moves its request from the way to the lost.
LEMMA OversizedCounts ==
    ASSUME Balanced, TypeOK', ServeOversized
    PROVE  AnswersBalance' /\ AnswerHasTaker' /\ DeadlineArmed'
<1>1. /\ Len(stack') = Len(stack) - 1 /\ Len(stack) \in Nat /\ unanswered' = unanswered + 1
      /\ UNCHANGED <<phase, replies, leftover, outbox, pending_connect, deadline>>
  BY DEF ServeOversized, Balanced, Relay, TypeOK, clientvars, tcpvars
<1>2. Present(outbox') = Present(outbox) /\ Present(pending_connect') = Present(pending_connect)
  BY <1>1 DEF Present
<1>3. OnTheWay' = OnTheWay
  <2> DEFINE o == Present(outbox)   p == Present(pending_connect)
  <2>1. o \in 0 .. 1 /\ p \in 0 .. 1 /\ unanswered \in Nat
    BY CountTypes DEF CountsTyped, Balanced, Relay
  <2>2. /\ OnTheWay = Len(stack) + o + p + unanswered
        /\ OnTheWay' = Len(stack') + o + p + unanswered'
    BY <1>2 DEF OnTheWay
  <2> HIDE DEF o, p
  <2> QED BY <1>1, <2>1, <2>2
<1>4. leftover' - leftover = OnTheWay' - OnTheWay /\ leftover' >= leftover
  BY <1>1, <1>3, CountTypes DEF CountsTyped, Balanced, Relay
<1>5. DeadlineArmed'
  BY <1>1, Zenon DEF DeadlineArmed, Balanced
<1> QED BY <1>1, <1>4, <1>5, ServiceCounts DEF Balanced

LEMMA SendReplyCounts ==
    ASSUME Balanced, TypeOK', SendReply
    PROVE  AnswersBalance' /\ AnswerHasTaker' /\ DeadlineArmed'
<1>0. /\ TypeOK /\ outbox \in Requests /\ outbox' = NoRequest
      /\ Len(replies) \in Nat /\ Len(replies') = Len(replies) + 1
      /\ UNCHANGED <<stack, pending_connect, leftover, unanswered>>
  BY DEF SendReply, Balanced, Relay, TypeOK, tcpvars, counts
<1>t. /\ Cardinality(Waiting) \in Nat /\ Cardinality(Woken) \in Nat /\ leftover \in Nat
      /\ Cardinality(Waiting') \in Nat /\ Cardinality(Woken') \in Nat
      /\ OnTheWay \in Nat /\ Len(stack) \in Nat /\ Present(pending_connect) \in 0 .. 1
      /\ unanswered \in Nat
  BY <1>0, CountTypes, CountTypesNext DEF CountsTyped
<1>1. OnTheWay' = OnTheWay - 1 /\ OnTheWay >= 1
  <2>1. Present(outbox) = 1 /\ Present(outbox') = 0
    BY <1>0, PresentRequest
  <2> QED BY <1>0, <1>t, <2>1 DEF OnTheWay
<1>2. /\ Cardinality(Waiting) + leftover = OnTheWay + Len(replies)
      /\ Len(replies) <= Cardinality(Woken) + leftover
  BY DEF Balanced, AnswersBalance, AnswerHasTaker, Woken, OnTheWay
<1>3. /\ Cardinality(Waiting') = Cardinality(Waiting)
      /\ Len(replies') <= Cardinality(Woken') + leftover'
  <2>1. CASE receivers = <<>>
    <3>1. Waiting = Woken
      <4>1. 1 .. Len(receivers) = {}
        BY <2>1
      <4> QED BY <4>1 DEF Balanced, Relay, ReceiversExact, Waiting, Woken
    <3>2. Waiting' = Waiting /\ Woken' = Woken
      BY <2>1 DEF SendReply, Waiting, Woken
    <3>3. Len(replies) + 1 <= Cardinality(Woken) + leftover
      BY <1>0, <1>t, <1>1, <1>2, <3>1
    <3> QED BY <1>0, <3>2, <3>3
  <2>2. CASE receivers # <<>>
    <3>1. PICK w \in Clients :
            phase[w] = "parked" /\ phase' = [phase EXCEPT ![w] = "woken"]
      <4>1. 1 \in 1 .. Len(receivers) /\ Head(receivers) = receivers[1]
            /\ Head(receivers) \in Clients
        BY <1>0, <2>2 DEF TypeOK
      <4>2. phase[Head(receivers)] = "parked"
        BY <4>1 DEF Balanced, Relay, ReceiversExact
      <4> QED BY <2>2, <4>1, <4>2 DEF SendReply
    <3>2. /\ Cardinality(Waiting') = Cardinality(Waiting)
          /\ Cardinality(Woken') = Cardinality(Woken) + 1
      BY <1>0, <3>1, PhaseCounts
    <3> QED BY <1>0, <1>t, <1>2, <3>2
  <2> QED BY <2>1, <2>2
<1>4. (Cardinality(Waiting') - Cardinality(Waiting)) + (leftover' - leftover) =
        (OnTheWay' - OnTheWay) + (Len(replies') - Len(replies))
  BY <1>0, <1>t, <1>1, <1>3
<1>5. AnswersBalance'
  BY <1>0, <1>4, StillBalanced DEF Balanced
<1>6. AnswerHasTaker'
  BY <1>3 DEF AnswerHasTaker, Woken
<1>7. DeadlineArmed'
  BY Zenon DEF SendReply, tcpvars, Balanced, DeadlineArmed
<1> QED BY <1>5, <1>6, <1>7

\* A caller that has just sent its request adds one to each side; one that
\* was waiting already adds to neither.
LEMMA OneMoreCaller ==
    ASSUME Balanced, TypeOK', NEW c \in Clients, phase[c] # "parked", RelayReceive(c),
           Len(stack') = Len(stack) + (IF phase[c] = "woken" THEN 0 ELSE 1),
           UNCHANGED <<pending_connect, outbox, leftover, unanswered>>
    PROVE  AnswersBalance' /\ AnswerHasTaker'
<1>1. /\ Cardinality(Waiting') - Cardinality(Waiting) =
            (IF phase[c] = "woken" THEN 0 ELSE 1) + (Len(replies') - Len(replies))
      /\ AnswerHasTaker'
  BY RelayReceiveCounts DEF Balanced
<1>2. /\ Len(stack) \in Nat /\ Present(outbox) \in 0 .. 1 /\ leftover \in Nat
      /\ Present(pending_connect) \in 0 .. 1 /\ OnTheWay \in Nat
      /\ Len(replies) \in Nat /\ Len(replies') \in Nat /\ unanswered \in Nat
  BY CountTypes, CountTypesNext DEF CountsTyped, Balanced, Relay
<1>3. OnTheWay' - OnTheWay = (IF phase[c] = "woken" THEN 0 ELSE 1)
  <2>1. Present(outbox') = Present(outbox) /\ Present(pending_connect') = Present(pending_connect)
    BY DEF Present
  <2> DEFINE d == IF phase[c] = "woken" THEN 0 ELSE 1
  <2>2. d \in 0 .. 1 /\ Len(stack') = Len(stack) + d
    OBVIOUS
  <2> HIDE DEF d
  <2>3. OnTheWay' - OnTheWay = d
    BY <1>2, <2>1, <2>2 DEF OnTheWay
  <2> QED BY <2>3 DEF d
<1>4. (Cardinality(Waiting') - Cardinality(Waiting)) + (leftover' - leftover) =
        (OnTheWay' - OnTheWay) + (Len(replies') - Len(replies))
  <2>1. leftover' - leftover = 0
    BY <1>2
  <2> QED BY <1>1, <1>2, <1>3, <2>1
<1>5. AnswersBalance'
  BY <1>4, StillBalanced DEF Balanced, Relay
<1> QED BY <1>1, <1>5

LEMMA SocketCallCounts ==
    ASSUME Balanced, TypeOK', NEW c \in Clients, NEW op \in Ops, SocketCall(c, op)
    PROVE  AnswersBalance' /\ AnswerHasTaker'
<1>0. TypeOK /\ phase[c] = "user" /\ Numbered(c, op) \in Requests
      /\ UNCHANGED <<pending_connect, outbox, leftover, unanswered>>
  BY NumberedType DEF SocketCall, Balanced, Relay, tcpvars, counts
<1>1. CASE StackFull
  <2>1. /\ phase' = [phase EXCEPT ![c] = "sending"]
        /\ UNCHANGED <<stack, replies>>
    BY <1>1 DEF SocketCall, counts
  <2>2. Cardinality(Waiting') = Cardinality(Waiting) /\ Woken' = Woken
    BY <1>0, <2>1, PhaseCounts
  <2> QED BY <1>0, <2>1, <2>2 DEF Balanced, AnswersBalance, AnswerHasTaker, Woken
<1>2. CASE ~StackFull
  <2>1. RelayReceive(c) /\ Len(stack') = Len(stack) + 1 /\ Len(stack) \in Nat
    BY <1>0, <1>2 DEF SocketCall, TypeOK
  <2> QED BY <1>0, <2>1, OneMoreCaller
<1> QED BY <1>1, <1>2

LEMMA RetryCounts ==
    ASSUME Balanced, TypeOK', NEW c \in Clients, SendRetry(c) \/ ReceiveRetry(c)
    PROVE  AnswersBalance' /\ AnswerHasTaker'
<1>0. TypeOK /\ RelayReceive(c) /\ UNCHANGED <<pending_connect, outbox, leftover, unanswered>>
  BY DEF SendRetry, ReceiveRetry, Balanced, Relay, tcpvars, counts
<1>1. CASE SendRetry(c)
  <2>1. phase[c] = "sending" /\ request[c] \in Requests
    BY <1>1 DEF SendRetry, Balanced, Relay, SendersAsk, TypeOK
  <2>2. Len(stack') = Len(stack) + 1 /\ Len(stack) \in Nat
    BY <1>0, <1>1, <2>1 DEF SendRetry, TypeOK
  <2> QED BY <1>0, <2>1, <2>2, OneMoreCaller
<1>2. CASE ReceiveRetry(c)
  <2>1. phase[c] = "woken" /\ Len(stack') = Len(stack) + 0
    BY <1>0, <1>2 DEF ReceiveRetry, TypeOK
  <2> QED BY <1>0, <2>1, OneMoreCaller
<1> QED BY <1>1, <1>2

LEMMA ResolveCounts ==
    ASSUME Balanced, TypeOK', NEW r \in syn_sent,
           HandshakeEnds(r) \/ ConnectTimesOut(r)
    PROVE  AnswersBalance' /\ AnswerHasTaker' /\ DeadlineArmed'
<1>1. r \in Requests /\ outbox = NoRequest /\ UNCHANGED <<stack, replies, phase, leftover, unanswered>>
      /\ ResolvePendingConnect(r)
  BY DEF HandshakeEnds, ConnectTimesOut, Balanced, Relay, TypeOK, clientvars, counts
<1>2. Present(outbox') + Present(pending_connect') =
        Present(outbox) + Present(pending_connect)
  <2>1. CASE pending_connect = r
    BY <1>1, <2>1, PresentRequest DEF ResolvePendingConnect
  <2>2. CASE pending_connect # r
    BY <1>1, <2>2 DEF ResolvePendingConnect
  <2> QED BY <2>1, <2>2
<1>3. OnTheWay' = OnTheWay
  BY <1>1, <1>2, CountTypes, CountTypesNext DEF CountsTyped, OnTheWay, Balanced, Relay
<1>4. AnswersBalance' /\ AnswerHasTaker'
  <2>1. leftover' - leftover = OnTheWay' - OnTheWay /\ leftover' >= leftover
    BY <1>1, <1>3, CountTypes DEF CountsTyped, Balanced, Relay
  <2> QED BY <1>1, <2>1, ServiceCounts DEF Balanced
<1>5. DeadlineArmed'
  BY <1>1, Zenon DEF ResolvePendingConnect, DeadlineArmed, Balanced
<1> QED BY <1>4, <1>5

\* The backstop answers without taking the deferred answer back.
LEMMA DeadlineCounts ==
    ASSUME Balanced, TypeOK', DeadlineExpires
    PROVE  AnswersBalance' /\ AnswerHasTaker' /\ DeadlineArmed'
<1>1. /\ UNCHANGED <<stack, replies, phase, pending_connect, unanswered>>
      /\ outbox = NoRequest /\ outbox' = pending_connect /\ leftover' = leftover + 1
  BY DEF DeadlineExpires, clientvars
<1>2. deadline /\ ~deadline'
  BY DEF DeadlineExpires
<1>3. pending_connect \in Requests
  <2>1. pending_connect # NoRequest
    BY <1>2, Zenon DEF Balanced, DeadlineArmed
  <2> QED BY <2>1 DEF Balanced, Relay, TypeOK
<1>4. OnTheWay' = OnTheWay + 1
  <2>1. Present(outbox) = 0 /\ Present(outbox') = 1
    BY <1>1, <1>3, PresentRequest
  <2> QED BY <1>1, <2>1, CountTypes DEF CountsTyped, OnTheWay, Balanced, Relay
<1>5. AnswersBalance' /\ AnswerHasTaker'
  <2>1. leftover' - leftover = OnTheWay' - OnTheWay /\ leftover' >= leftover
    BY <1>1, <1>4, CountTypes DEF CountsTyped, Balanced, Relay
  <2> QED BY <1>1, <2>1, ServiceCounts DEF Balanced
<1>6. DeadlineArmed'
  BY <1>2, Zenon DEF DeadlineArmed
<1> QED BY <1>5, <1>6

LEMMA NextBalanced == Balanced /\ [Next]_rvars => Balanced'
<1> SUFFICES ASSUME Balanced, [Next]_rvars PROVE Balanced'
  OBVIOUS
<1>1. Relay' /\ TypeOK'
  BY NextRelay DEF Balanced, Relay
<1>2. CASE UNCHANGED rvars
  <2>1. DeadlineArmed'
    BY <1>2, Zenon DEF rvars, Balanced, DeadlineArmed
  <2> QED BY <1>1, <1>2, <2>1 DEF rvars, Balanced, AnswersBalance, AnswerHasTaker,
                                  Waiting, Present
<1>3. ASSUME NEW c \in Clients, NEW op \in Ops, SocketCall(c, op) PROVE Balanced'
  <2>1. DeadlineArmed'
    BY <1>3, Zenon DEF SocketCall, tcpvars, Balanced, DeadlineArmed
  <2> QED BY <1>1, <1>3, <2>1, SocketCallCounts DEF Balanced
<1>4. ASSUME NEW c \in Clients, SendRetry(c) \/ ReceiveRetry(c) PROVE Balanced'
  <2>1. DeadlineArmed'
    BY <1>4, Zenon DEF SendRetry, ReceiveRetry, tcpvars, Balanced, DeadlineArmed
  <2> QED BY <1>1, <1>4, <2>1, RetryCounts DEF Balanced
<1>5. ASSUME ServeRequest \/ ServeOversized \/ SendReply \/ DeadlineExpires PROVE Balanced'
  BY <1>1, <1>5, ServeRequestCounts, OversizedCounts, SendReplyCounts, DeadlineCounts DEF Balanced
<1>6. ASSUME NEW r \in syn_sent, HandshakeEnds(r) \/ ConnectTimesOut(r) PROVE Balanced'
  BY <1>1, <1>6, ResolveCounts DEF Balanced
<1> QED BY <1>2, <1>3, <1>4, <1>5, <1>6 DEF Next

LEMMA InitBalanced == Init => Balanced
<1> SUFFICES ASSUME Init PROVE Balanced
  OBVIOUS
<1>1. Waiting = {} /\ {c \in Clients : phase[c] = "woken"} = {}
  BY DEF Init, Waiting
<1>2. Cardinality(Waiting) = 0 /\ Cardinality({c \in Clients : phase[c] = "woken"}) = 0
  BY <1>1, FS_EmptySet
<1>3. Len(stack) = 0 /\ Len(replies) = 0 /\ Present(outbox) = 0
      /\ Present(pending_connect) = 0 /\ leftover = 0 /\ unanswered = 0
  BY DEF Init, Present
<1>4. DeadlineArmed
  BY DEF Init, DeadlineArmed
<1> QED BY <1>2, <1>3, <1>4, InitRelay DEF Balanced, AnswersBalance, AnswerHasTaker

\* For every number of callers, every IPC_QUEUE_DEPTH and every timing of
\* handshakes and deadlines, net_socket_relay_full and the service loop keep as
\* many answers on their way as there are callers waiting for one, plus one for
\* each deadline that passed and less one for each answer that encode_into had no
\* room for; and an answer on "stack_reply" that no deadline left over never lies
\* there with every caller that could take it asleep.
THEOREM AnswersMatchCallers == Spec => []AnswersMatch
<1>1. Balanced => AnswersMatch
  BY DEF Balanced, AnswersMatch
<1> QED BY <1>1, InitBalanced, NextBalanced, PTL DEF Spec
-----------------------------------------------------------------------------
(* TCP: arithmetic of sequence numbers.                                    *)
LEMMA ModRange ==
  ASSUME NEW M \in Nat \ {0}, NEW x \in Int PROVE x % M \in 0 .. M - 1
OBVIOUS

LEMMA ModSmall ==
  ASSUME NEW M \in Nat \ {0}, NEW x \in Int, 0 <= x, x < M PROVE x % M = x
OBVIOUS

LEMMA ModLarge ==
  ASSUME NEW M \in Nat \ {0}, NEW x \in Int, M <= x, x < 2 * M PROVE x % M = x - M
OBVIOUS

LEMMA ModNegative ==
  ASSUME NEW M \in Nat \ {0}, NEW x \in Int, -M <= x, x < 0 PROVE x % M = x + M
OBVIOUS

LEMMA PlusFacts ==
  ASSUME NEW a \in SeqNums, NEW m \in 0 .. SeqMod - 1
  PROVE  /\ Plus(a, m) \in SeqNums
         /\ a + m < SeqMod => Plus(a, m) = a + m
         /\ a + m >= SeqMod => Plus(a, m) = a + m - SeqMod
<1>1. SeqMod \in Nat \ {0}
  BY TcpAssumption
<1> DEFINE x == a + m
<1>2. x \in Int /\ 0 <= x /\ x < 2 * SeqMod
  BY <1>1 DEF SeqNums
<1> HIDE DEF x
<1>3. x < SeqMod => x % SeqMod = x
  BY <1>1, <1>2, ModSmall
<1>4. x >= SeqMod => x % SeqMod = x - SeqMod
  BY <1>1, <1>2, ModLarge
<1>5. x % SeqMod \in 0 .. SeqMod - 1
  BY <1>1, <1>2, ModRange
<1>6. Plus(a, m) = x % SeqMod
  BY DEF Plus, x
<1>7. /\ Plus(a, m) \in SeqNums
      /\ x < SeqMod => Plus(a, m) = x
      /\ x >= SeqMod => Plus(a, m) = x - SeqMod
  BY <1>3, <1>4, <1>5, <1>6 DEF SeqNums
<1> QED BY <1>1, <1>2, <1>7 DEF x, SeqNums

LEMMA PlusType ==
  ASSUME NEW a \in Nat, NEW n \in Nat PROVE Plus(a, n) \in SeqNums
<1>1. SeqMod \in Nat \ {0} /\ a + n \in Int
  BY TcpAssumption
<1>2. (a + n) % SeqMod \in 0 .. SeqMod - 1
  BY <1>1, ModRange
<1> QED BY <1>2 DEF Plus, SeqNums

LEMMA PlusPlus ==
  ASSUME NEW a \in SeqNums, NEW m \in Nat, NEW n \in Nat, m + n < SeqMod
  PROVE  Plus(Plus(a, m), n) = Plus(a, m + n)
<1>1. SeqMod \in Nat \ {0} /\ m \in 0 .. SeqMod - 1 /\ n \in 0 .. SeqMod - 1
      /\ m + n \in 0 .. SeqMod - 1
  BY TcpAssumption
<1> DEFINE b == Plus(a, m)
<1>2. /\ b \in SeqNums
      /\ a + m < SeqMod => b = a + m
      /\ a + m >= SeqMod => b = a + m - SeqMod
  BY <1>1, PlusFacts
<1> HIDE DEF b
<1>3. /\ b + n < SeqMod => Plus(b, n) = b + n
      /\ b + n >= SeqMod => Plus(b, n) = b + n - SeqMod
  BY <1>1, <1>2, PlusFacts
<1>4. /\ a + (m + n) < SeqMod => Plus(a, m + n) = a + (m + n)
      /\ a + (m + n) >= SeqMod => Plus(a, m + n) = a + (m + n) - SeqMod
  BY <1>1, PlusFacts
<1>5. Plus(b, n) = Plus(a, m + n)
  BY <1>1, <1>2, <1>3, <1>4 DEF SeqNums
<1> QED BY <1>5 DEF b

LEMMA PlusInjective ==
  ASSUME NEW a \in SeqNums, NEW m \in 0 .. SeqMod - 1, NEW n \in 0 .. SeqMod - 1,
         Plus(a, m) = Plus(a, n)
  PROVE  m = n
<1>1. SeqMod \in Nat /\ a \in Int /\ m \in Int /\ n \in Int
  BY TcpAssumption DEF SeqNums
<1>2. /\ a + m < SeqMod => Plus(a, m) = a + m
      /\ a + m >= SeqMod => Plus(a, m) = a + m - SeqMod
  BY PlusFacts
<1>3. /\ a + n < SeqMod => Plus(a, n) = a + n
      /\ a + n >= SeqMod => Plus(a, n) = a + n - SeqMod
  BY PlusFacts
<1> QED BY <1>1, <1>2, <1>3

LEMMA PlusBefore ==
  ASSUME NEW a \in SeqNums, NEW m \in Nat, NEW n \in Nat, m < n, 2 * n < SeqMod
  PROVE  SeqLt(Plus(a, m), Plus(a, n))
<1>1. SeqMod \in Nat \ {0} /\ m \in 0 .. SeqMod - 1 /\ n \in 0 .. SeqMod - 1
  BY TcpAssumption
<1> DEFINE x == Plus(a, m)
           y == Plus(a, n)
<1>2. /\ x \in SeqNums
      /\ a + m < SeqMod => x = a + m
      /\ a + m >= SeqMod => x = a + m - SeqMod
  BY <1>1, PlusFacts
<1>3. /\ y \in SeqNums
      /\ a + n < SeqMod => y = a + n
      /\ a + n >= SeqMod => y = a + n - SeqMod
  BY <1>1, PlusFacts
<1>4. x # y
  BY <1>1, PlusInjective
<1> HIDE DEF x, y
<1>5. /\ a \in Int /\ x \in Int /\ y \in Int
      /\ (y - x = n - m) \/ (y - x = n - m - SeqMod)
  BY <1>1, <1>2, <1>3 DEF SeqNums
<1>6. (y - x) % SeqMod = n - m
  <2>1. CASE y - x = n - m
    <3>1. y - x \in Int /\ 0 <= y - x /\ y - x < SeqMod
      BY <1>1, <1>5, <2>1
    <3> QED BY <1>1, <2>1, <3>1, ModSmall
  <2>2. CASE y - x = n - m - SeqMod
    <3>1. y - x \in Int /\ -SeqMod <= y - x /\ y - x < 0
      BY <1>1, <1>5, <2>2
    <3>2. (y - x) % SeqMod = y - x + SeqMod
      BY <1>1, <3>1, ModNegative
    <3> QED BY <1>1, <1>5, <2>2, <3>2
  <2> QED BY <1>5, <2>1, <2>2
<1>7. 2 * (n - m) < SeqMod
  BY <1>1
<1>8. SeqLt(x, y)
  BY <1>4, <1>6, <1>7 DEF SeqLt
<1> QED BY <1>8 DEF x, y

LEMMA IsnType == ASSUME NEW h \in Hosts, NEW i \in Nat PROVE Isn(h, i) \in SeqNums
<1>1. SeqMod \in Nat \ {0} /\ FirstIsn[h] \in Nat /\ IsnStep \in Nat
  BY TcpAssumption
<1>2. i * IsnStep \in Nat
  BY <1>1
<1>3. FirstIsn[h] + i * IsnStep \in Int
  BY <1>1, <1>2
<1> QED BY <1>1, <1>3, ModRange DEF Isn, SeqNums

LEMMA HostFacts ==
  /\ Client \in Hosts /\ Server \in Hosts /\ Client # Server
  /\ Peer(Client) = Server /\ Peer(Server) = Client
  /\ \A h \in Hosts : Peer(h) \in Hosts /\ Peer(h) # h /\ Peer(Peer(h)) = h
BY TcpAssumption DEF Hosts, Peer

LEMMA BoundFacts ==
  /\ SeqMod \in Nat \ {0} /\ MaxIsn \in Nat \ {0} /\ Mss \in Nat
  /\ \A h \in Hosts : MaxWrite[h] \in Nat /\ 2 * (MaxWrite[h] + 3) <= SeqMod
BY TcpAssumption, NumbersAssumption

-----------------------------------------------------------------------------
(* The inductive invariant of TCP.  The server draws an initial sequence   *)
(* number for every SYN it answers, and the client synchronises with one   *)
(* of them, the j-th.  Every sequence number in a control block, a queue   *)
(* or a segment is then At(h, j, k): the place of byte k + 1 of host h.    *)
Iss(h, j) == IF h = Client THEN Isn(Client, 0) ELSE Isn(Server, j)

At(h, j, k) == Plus(Iss(h, j), 1 + k)

Flag(p) == IF p THEN 1 ELSE 0

Synced(t) == t # NoConn /\ t.state \notin {"SynSent", "SynReceived"}

FinOut(t) == t.state \in {"FinWait1", "FinWait2", "Closing", "LastAck", "TimeWait"}
FinIn(t) == t.state \in {"CloseWait", "Closing", "LastAck", "TimeWait"}

FinSent(h) == \E seg \in net : seg.from = h /\ "FIN" \in seg.flags

Stream(t) == t.read \o t.buffer

Counts(s) == \A i \in 1 .. Len(s) : s[i] = i

(* data holds the bytes of h from b + 1 on.                                *)
Bytes(data, b) == \A i \in 1 .. Len(data) : data[i] = b + i

Placed(h, j, seq, data) ==
  \E b \in 0 .. wrote[h] :
    /\ Bytes(data, b) /\ b + Len(data) <= wrote[h] /\ seq = At(h, j, b)

IsJunk(seg) ==
  /\ seg.from = Client /\ seg.flags = {"ACK"}
  /\ seg.seq = Isn(Client, 0) /\ seg.ack = 0 /\ seg.data = <<Junk>>

IsOpening(seg) ==
  \/ seg.from = Client /\ seg.flags = {"SYN"} /\ seg.seq = Isn(Client, 0) /\ seg.data = <<>>
  \/ /\ seg.from = Server /\ seg.flags = {"SYN", "ACK"}
     /\ seg.ack = Plus(Isn(Client, 0), 1) /\ seg.data = <<>>
     /\ \E i \in 0 .. isns[Server] - 1 : seg.seq = Isn(Server, i)

IsRst(seg) == seg.flags \in {{"RST"}, {"RST", "ACK"}}

(* A segment of the open connection.                                       *)
IsOpen(seg, j) ==
  /\ seg.flags \in {{"ACK"}, {"FIN", "ACK"}}
  /\ seg.data # <<>> => Placed(seg.from, j, seg.seq, seg.data)
  /\ \E m \in 0 .. reached[Peer(seg.from)] + Flag(FinSent(Peer(seg.from))) :
       seg.ack = At(Peer(seg.from), j, m)

Acks(seg, h) == seg.from = h /\ "ACK" \in seg.flags /\ ~ IsRst(seg) /\ ~ IsJunk(seg)

Kept(h, t) ==
  \A b \in 1 .. wrote[h] :
    \/ b <= reached[h]
    \/ \E i \in 1 .. Len(t.queue) : \E k \in 1 .. Len(t.queue[i].data) : t.queue[i].data[k] = b

(* What t has taken of the peer: its bytes and its FIN.                    *)
Taken(t) == Len(Stream(t)) + Flag(FinIn(t))

(* What t has received is the start of the peer's stream, and rcv_nxt is   *)
(* the place after it.                                                     *)
GoodIn(h, j, t) ==
  /\ Counts(Stream(t)) /\ Len(Stream(t)) <= reached[Peer(h)]
  /\ t.rcv = At(Peer(h), j, Taken(t))
  /\ FinIn(t) => FinSent(Peer(h))

(* snd_nxt is the place after what h wrote, its FIN included, and snd_una  *)
(* is a place before it.                                                   *)
GoodOut(h, j, t) ==
  /\ t.nxt = At(h, j, wrote[h] + Flag(FinOut(t)))
  /\ \E m \in 0 .. wrote[h] + Flag(FinOut(t)) : t.una = At(h, j, m)
  /\ ~ FinOut(t) => ~ FinSent(h)

(* The retransmit queue holds what has not reached the peer.               *)
GoodQueue(h, j, t) ==
  /\ \A i \in 1 .. Len(t.queue) : Placed(h, j, t.queue[i].seq, t.queue[i].data)
  /\ Kept(h, t)

(* h never acknowledged more than t has taken ...                          *)
GoodAcks(h, j, t) ==
  \A seg \in net : Acks(seg, h) => \E m \in 0 .. Taken(t) : seg.ack = At(Peer(h), j, m)

(* ... and FIN_WAIT_2 was entered on an acknowledgement of the FIN.        *)
GoodFin(h, t) ==
  t.state = "FinWait2" => \E seg \in net : Acks(seg, Peer(h)) /\ seg.ack = t.nxt

GoodTcb(h, j, t) ==
  GoodIn(h, j, t) /\ GoodOut(h, j, t) /\ GoodQueue(h, j, t) /\ GoodAcks(h, j, t) /\ GoodFin(h, t)

(* A connection of the server whose handshake is not complete.             *)
HalfOpen ==
  conn[Server] # NoConn /\ conn[Server].state = "SynReceived" =>
    /\ isns[Server] > 0
    /\ conn[Server].una = Isn(Server, isns[Server] - 1)
    /\ conn[Server].nxt = Plus(Isn(Server, isns[Server] - 1), 1)
    /\ conn[Server].rcv = At(Client, 0, 0)
    /\ conn[Server].buffer = <<>> /\ conn[Server].read = <<>> /\ conn[Server].queue = <<>>

Dialling ==
  conn[Client] # NoConn /\ conn[Client].state = "SynSent" =>
    /\ conn[Client].nxt = At(Client, 0, 0) /\ conn[Client].rcv = 0
    /\ conn[Client].buffer = <<>> /\ conn[Client].read = <<>>
    /\ \A i \in 1 .. Len(conn[Client].queue) :
         conn[Client].queue[i].seq = Isn(Client, 0) /\ conn[Client].queue[i].data = <<Junk>>

(* The server has used nothing of stream j.                                *)
Untouched(j) ==
  /\ wrote[Server] = 0 /\ ~ FinSent(Server) /\ reached[Client] = 0
  /\ \A seg \in net : Acks(seg, Server) => seg.ack = At(Client, j, 0)

Common ==
  /\ conn[Client] # NoConn => isns[Client] = 1 /\ conn[Client].state # "SynReceived"
  /\ conn[Server] # NoConn => conn[Server].state # "SynSent"
  /\ net # {} => isns[Client] = 1
  /\ \A h \in Hosts : reached[h] <= wrote[h] /\ wrote[h] <= MaxWrite[h]
  /\ HalfOpen /\ Dialling

Unsynced ==
  /\ ~ Synced(conn[Client]) /\ ~ Synced(conn[Server]) /\ backlog = <<>>
  /\ \A h \in Hosts : wrote[h] = 0
  /\ \A seg \in net : IsRst(seg) \/ IsOpening(seg) \/ IsJunk(seg)

SyncedOn(j) ==
  /\ j < isns[Server] /\ isns[Client] = 1
  /\ conn[Client] # NoConn => conn[Client].state # "SynSent"
  /\ \A seg \in net : IsRst(seg) \/ IsOpening(seg) \/ IsJunk(seg) \/ IsOpen(seg, j)
  /\ \A h \in Hosts : Synced(conn[h]) => GoodTcb(h, j, conn[h])
  /\ backlog # <<>> =>
       /\ Len(backlog) = 1 /\ backlog[1].state = "Established"
       /\ GoodTcb(Server, j, backlog[1]) /\ backlog[1].queue = <<>>
       /\ ~ Synced(conn[Server])
  /\ conn[Server] # NoConn /\ conn[Server].state = "SynReceived" /\ isns[Server] = j + 1 =>
       backlog = <<>> /\ Untouched(j)

TcpInv == TcpType /\ Common /\ (Unsynced \/ \E j \in 0 .. MaxIsn - 1 : SyncedOn(j))
-----------------------------------------------------------------------------
(* Positions in the streams.                                               *)
LEMMA IssType == ASSUME NEW h \in Hosts, NEW j \in Nat PROVE Iss(h, j) \in SeqNums
<1>1. 0 \in Nat
  OBVIOUS
<1> QED BY <1>1, IsnType, HostFacts DEF Iss

LEMMA AtType ==
  ASSUME NEW h \in Hosts, NEW j \in Nat, NEW k \in Nat PROVE At(h, j, k) \in SeqNums
<1>1. Iss(h, j) \in Nat /\ 1 + k \in Nat
  BY IssType, BoundFacts DEF SeqNums
<1> QED BY <1>1, PlusType DEF At

LEMMA AtNext ==
  ASSUME NEW h \in Hosts, NEW j \in Nat, NEW k \in Nat, NEW n \in Nat,
         k + n <= MaxWrite[h] + 2
  PROVE  Plus(At(h, j, k), n) = At(h, j, k + n)
<1>1. Iss(h, j) \in SeqNums /\ MaxWrite[h] \in Nat /\ 2 * (MaxWrite[h] + 3) <= SeqMod
  BY IssType, BoundFacts
<1>2. (1 + k) + n < SeqMod /\ 1 + k \in Nat /\ SeqMod \in Nat
  BY <1>1, BoundFacts
<1>3. Plus(Plus(Iss(h, j), 1 + k), n) = Plus(Iss(h, j), (1 + k) + n)
  BY <1>1, <1>2, PlusPlus
<1>4. (1 + k) + n = 1 + (k + n)
  OBVIOUS
<1> QED BY <1>3, <1>4 DEF At

LEMMA AtInjective ==
  ASSUME NEW h \in Hosts, NEW j \in Nat, NEW k \in 0 .. MaxWrite[h] + 2,
         NEW m \in 0 .. MaxWrite[h] + 2, At(h, j, k) = At(h, j, m)
  PROVE  k = m
<1>1. Iss(h, j) \in SeqNums /\ MaxWrite[h] \in Nat /\ 2 * (MaxWrite[h] + 3) <= SeqMod
      /\ SeqMod \in Nat
  BY IssType, BoundFacts
<1>2. 1 + k \in 0 .. SeqMod - 1 /\ 1 + m \in 0 .. SeqMod - 1
  BY <1>1
<1>3. 1 + k = 1 + m
  BY <1>1, <1>2, PlusInjective DEF At
<1> QED BY <1>1, <1>3

LEMMA AtBefore ==
  ASSUME NEW h \in Hosts, NEW j \in Nat, NEW k \in 0 .. MaxWrite[h],
         NEW m \in 0 .. MaxWrite[h], k < m
  PROVE  SeqLt(At(h, j, k), At(h, j, m))
<1>1. Iss(h, j) \in SeqNums /\ MaxWrite[h] \in Nat /\ 2 * (MaxWrite[h] + 3) <= SeqMod
      /\ SeqMod \in Nat
  BY IssType, BoundFacts
<1>2. 1 + k \in Nat /\ 1 + m \in Nat /\ 1 + k < 1 + m /\ 2 * (1 + m) < SeqMod
  BY <1>1
<1> QED BY <1>1, <1>2, PlusBefore DEF At

(* The server's numbers are not 0, and no other draw's first number.       *)
LEMMA ServerNumbers ==
  ASSUME NEW j \in 0 .. MaxIsn - 1, NEW m \in 0 .. MaxWrite[Server] + 1
  PROVE  /\ At(Server, j, m) # 0
         /\ \A i \in 0 .. MaxIsn - 1 : At(Server, j, m) = Plus(Isn(Server, i), 1) => i = j
<1>1. 1 + m \in 1 .. MaxWrite[Server] + 2
  BY BoundFacts, HostFacts
<1>2. At(Server, j, m) = Plus(Isn(Server, j), 1 + m)
  BY HostFacts DEF At, Iss
<1> QED BY <1>1, <1>2, NumbersAssumption

(* The client draws once.                                                  *)
LEMMA ClientAt == ASSUME NEW i, NEW j, NEW k PROVE At(Client, i, k) = At(Client, j, k)
BY DEF At, Iss

-----------------------------------------------------------------------------
(* Induction over an interval, from the well-foundedness of < on Nat: the  *)
(* statement that is proved by induction is given as a set.                *)
LEMMA LeastElement ==
  ASSUME NEW T \in SUBSET Nat, T # {}
  PROVE  \E x \in T : \A y \in T : x <= y
<1> DEFINE R == OpToRel(<, Nat)
<1>1. IsWellFoundedOn(R, Nat)
  BY NatLessThanWellFounded
<1>2. \A x, y \in Nat : x < y => <<x, y>> \in R
  BY DEF OpToRel
<1> HIDE DEF R
<1>3. PICK x \in T : \A y \in T : ~ (<<y, x>> \in R)
  BY <1>1, WFMin
<1>4. ASSUME NEW y \in T PROVE x <= y
  <2>1. ~ (<<y, x>> \in R)
    BY <1>3
  <2>2. x \in Nat /\ y \in Nat
    OBVIOUS
  <2>3. y < x => <<y, x>> \in R
    BY <1>2, <2>2
  <2> QED BY <2>1, <2>2, <2>3
<1> QED BY <1>4

LEMMA IntervalInduction ==
  ASSUME NEW n \in Nat, NEW S, 0 \in S,
         \A i \in 0 .. n - 1 : i \in S => i + 1 \in S
  PROVE  \A i \in 0 .. n : i \in S
<1> SUFFICES ASSUME NEW j \in 0 .. n, j \notin S PROVE FALSE
  OBVIOUS
<1> DEFINE T == (0 .. n) \ S
<1>1. T \in SUBSET Nat /\ T # {}
  OBVIOUS
<1>2. PICK x \in T : \A y \in T : x <= y
  BY <1>1, LeastElement
<1>3. x # 0 /\ x \in 0 .. n
  OBVIOUS
<1>4. x - 1 \in 0 .. n - 1 /\ x - 1 \notin T
  BY <1>2, <1>3
<1>5. x - 1 + 1 \in S
  BY <1>4
<1> QED BY <1>3, <1>5

-----------------------------------------------------------------------------
(* process_ack: what retain keeps.                                         *)
RetainLaw(g, queue, ack, n) ==
  g = [i \in 0 .. n |-> IF i = 0 THEN <<>>
                        ELSE IF Outstanding(queue[i], ack) THEN Append(g[i - 1], queue[i])
                        ELSE g[i - 1]]

LEMMA RetainExists ==
  ASSUME NEW queue, NEW ack, NEW n \in Nat PROVE \E g : RetainLaw(g, queue, ack, n)
<1> DEFINE S == {k \in Nat : \E g : RetainLaw(g, queue, ack, k)}
<1>1. 0 \in S
  <2> DEFINE g == [i \in 0 .. 0 |-> <<>>]
  <2>1. RetainLaw(g, queue, ack, 0)
    BY DEF RetainLaw
  <2> HIDE DEF g
  <2> QED BY <2>1
<1>2. ASSUME NEW k \in 0 .. n - 1, k \in S PROVE k + 1 \in S
  <2>1. PICK f : RetainLaw(f, queue, ack, k)
    BY <1>2
  <2> DEFINE last == IF Outstanding(queue[k + 1], ack) THEN Append(f[k], queue[k + 1]) ELSE f[k]
             g == [i \in 0 .. k + 1 |-> IF i = k + 1 THEN last ELSE f[i]]
  <2>2. \A i \in 0 .. k : f[i] = IF i = 0 THEN <<>>
                                 ELSE IF Outstanding(queue[i], ack) THEN Append(f[i - 1], queue[i])
                                 ELSE f[i - 1]
    BY <2>1 DEF RetainLaw
  <2>3. ASSUME NEW i \in 0 .. k + 1
        PROVE  g[i] = IF i = 0 THEN <<>>
                      ELSE IF Outstanding(queue[i], ack) THEN Append(g[i - 1], queue[i])
                      ELSE g[i - 1]
    <3>1. CASE i = k + 1
      BY <3>1
    <3>2. CASE i \in 0 .. k
      BY <3>2, <2>2
    <3> QED BY <3>1, <3>2
  <2>4. RetainLaw(g, queue, ack, k + 1)
    BY <2>3 DEF RetainLaw
  <2> HIDE DEF g
  <2>5. \E h : RetainLaw(h, queue, ack, k + 1)
    BY <2>4
  <2> QED BY <2>5
<1> HIDE DEF S
<1>3. n \in S
  BY <1>1, <1>2, IntervalInduction
<1> QED BY <1>3 DEF S

(* The entries that remain are entries of the queue, and every outstanding *)
(* entry remains.                                                          *)
Retains(r, queue, ack, n) ==
  /\ \A x \in 1 .. Len(r) : \E i \in 1 .. n : r[x] = queue[i]
  /\ \A i \in 1 .. n : Outstanding(queue[i], ack) => \E x \in 1 .. Len(r) : r[x] = queue[i]

LEMMA UnackedFacts ==
  ASSUME NEW E, NEW queue \in Seq(E), NEW ack
  PROVE  Unacked(queue, ack) \in Seq(E) /\ Retains(Unacked(queue, ack), queue, ack, Len(queue))
<1> DEFINE n == Len(queue)
           kept[i \in 0 .. n] ==
             IF i = 0 THEN <<>>
             ELSE IF Outstanding(queue[i], ack) THEN Append(kept[i - 1], queue[i])
             ELSE kept[i - 1]
<1> HIDE DEF kept
<1>0. n \in Nat
  OBVIOUS
<1>1. RetainLaw(kept, queue, ack, n)
  <2> HIDE DEF n
  <2>1. \E g : RetainLaw(g, queue, ack, n)
    BY <1>0, RetainExists
  <2> QED BY <2>1, Zenon DEF RetainLaw, kept
<1>2. Unacked(queue, ack) = kept[n]
  BY Zenon DEF Unacked, kept
<1>3. PICK g : RetainLaw(g, queue, ack, n) /\ Unacked(queue, ack) = g[n]
  BY <1>1, <1>2
<1> HIDE DEF n
<1>4. n = Len(queue) /\ \A i \in 1 .. n : queue[i] \in E
  BY DEF n
<1>8. \A i \in 0 .. n : g[i] = IF i = 0 THEN <<>>
                               ELSE IF Outstanding(queue[i], ack) THEN Append(g[i - 1], queue[i])
                               ELSE g[i - 1]
  BY <1>3 DEF RetainLaw
<1> DEFINE S == {i \in Nat : g[i] \in Seq(E) /\ Retains(g[i], queue, ack, i)}
<1>5. 0 \in S
  <2>1. g[0] = <<>>
    BY <1>0, <1>8
  <2>2. <<>> \in Seq(E) /\ Len(<<>>) = 0
    OBVIOUS
  <2>3. Retains(<<>>, queue, ack, 0)
    BY <2>2 DEF Retains
  <2> QED BY <2>1, <2>2, <2>3
<1>6. ASSUME NEW i \in 0 .. n - 1, i \in S PROVE i + 1 \in S
  <2>1. g[i + 1] = IF Outstanding(queue[i + 1], ack) THEN Append(g[i], queue[i + 1]) ELSE g[i]
    <3>1. i + 1 \in 0 .. n /\ i + 1 - 1 = i /\ i + 1 # 0
      BY <1>0
    <3> QED BY <1>8, <3>1
  <2>2. g[i] \in Seq(E) /\ Retains(g[i], queue, ack, i) /\ i \in Nat
    BY <1>6
  <2>3. queue[i + 1] \in E
    BY <1>0, <1>4
  <2> DEFINE q == queue[i + 1]
             r == g[i]
  <2> HIDE DEF q
  <2>4. CASE Outstanding(q, ack)
    <3>1. g[i + 1] = Append(r, q)
      BY <2>1, <2>4 DEF q
    <3> HIDE DEF r
    <3>2. r \in Seq(E) /\ q \in E /\ Retains(r, queue, ack, i) /\ i \in Nat
      BY <2>2, <2>3 DEF q, r
    <3>3. /\ Append(r, q) \in Seq(E) /\ Len(Append(r, q)) = Len(r) + 1 /\ Len(r) \in Nat
          /\ \A x \in 1 .. Len(r) : Append(r, q)[x] = r[x]
          /\ Append(r, q)[Len(r) + 1] = q
      BY <3>2
    <3>4. ASSUME NEW x \in 1 .. Len(r) + 1
          PROVE  \E y \in 1 .. i + 1 : Append(r, q)[x] = queue[y]
      <4>1. CASE x \in 1 .. Len(r)
        BY <3>2, <3>3, <4>1 DEF Retains
      <4>2. CASE x = Len(r) + 1
        BY <3>2, <3>3, <4>2, i + 1 \in 1 .. i + 1 DEF q
      <4> QED BY <3>3, <4>1, <4>2
    <3>5. ASSUME NEW y \in 1 .. i + 1, Outstanding(queue[y], ack)
          PROVE  \E x \in 1 .. Len(r) + 1 : Append(r, q)[x] = queue[y]
      <4>1. CASE y \in 1 .. i
        <5>1. PICK x \in 1 .. Len(r) : r[x] = queue[y]
          BY <3>2, <3>5, <4>1 DEF Retains
        <5>2. x \in 1 .. Len(r) + 1
          BY <3>3
        <5> QED BY <3>3, <5>1, <5>2
      <4>2. CASE y = i + 1
        BY <3>3, <4>2, Len(r) + 1 \in 1 .. Len(r) + 1 DEF q
      <4> QED BY <3>2, <4>1, <4>2
    <3>6. Retains(Append(r, q), queue, ack, i + 1)
      BY <3>3, <3>4, <3>5 DEF Retains
    <3>7. g[i + 1] \in Seq(E) /\ Retains(g[i + 1], queue, ack, i + 1)
      BY <3>1, <3>3, <3>6
    <3> QED BY <3>2, <3>7
  <2>5. CASE ~ Outstanding(q, ack)
    <3>1. g[i + 1] = g[i] /\ ~ Outstanding(queue[i + 1], ack)
      BY <2>1, <2>5 DEF q
    <3>2. Retains(g[i], queue, ack, i + 1)
      BY <2>2, <3>1 DEF Retains
    <3> QED BY <2>2, <3>1, <3>2
  <2> QED BY <2>4, <2>5
<1> HIDE DEF S
<1>9. \A i \in 0 .. n - 1 : i \in S => i + 1 \in S
  BY <1>6
<1>7. \A i \in 0 .. n : i \in S
  BY <1>0, <1>5, <1>9, IntervalInduction
<1>10. n \in S
  BY <1>0, <1>7
<1> QED BY <1>3, <1>4, <1>10 DEF S

-----------------------------------------------------------------------------
(* Types.                                                                  *)
Data == Seq(Nat \union {Junk})
Entries == [seq : SeqNums, data : Data, count : Nat]
Flags == SUBSET {"SYN", "ACK", "FIN", "RST"}

Queues == Seq(Entries)

LEMMA TcbRecord ==
  Tcbs = [state : States, una : SeqNums, nxt : SeqNums, rcv : SeqNums, buffer : Data,
          read : Data, queue : Queues, dups : 0 .. 4]
BY DEF Tcbs, Data, Entries, Queues

LEMMA DataLen == ASSUME NEW d \in Data PROVE Len(d) \in Nat
BY DEF Data

LEMMA SegmentType ==
  ASSUME NEW h \in Hosts, NEW seq \in SeqNums, NEW ack \in SeqNums, NEW flags \in Flags,
         NEW data \in Data
  PROVE  Segment(h, seq, ack, flags, data) \in Segments
BY DEF Segment, Segments, Flags, Data

LEMMA ZeroType == 0 \in SeqNums /\ 0 \in Nat /\ 1 \in Nat /\ <<>> \in Data
BY BoundFacts DEF SeqNums, Data

LEMMA TcbFields ==
  ASSUME NEW t \in Tcbs
  PROVE  /\ t.state \in States /\ t.una \in SeqNums /\ t.nxt \in SeqNums /\ t.rcv \in SeqNums
         /\ t.buffer \in Data /\ t.read \in Data /\ t.queue \in Queues /\ t.dups \in 0 .. 4
BY TcbRecord

LEMMA SegmentFields ==
  ASSUME NEW seg \in Segments
  PROVE  /\ seg.from \in Hosts /\ seg.seq \in SeqNums /\ seg.ack \in SeqNums
         /\ seg.flags \in Flags /\ seg.data \in Data
BY DEF Segments, Data, Flags

LEMMA AckOfType == ASSUME NEW h \in Hosts, NEW t \in Tcbs PROVE AckOf(h, t) \in Segments
<1>1. {"ACK"} \in Flags
  BY DEF Flags
<1> QED BY <1>1, TcbFields, ZeroType, SegmentType DEF AckOf

LEMMA RstForType ==
  ASSUME NEW h \in Hosts, NEW seg \in Segments PROVE RstFor(h, seg) \in Segments
<1>1. {"RST"} \in Flags /\ {"RST", "ACK"} \in Flags
  BY DEF Flags
<1>2. seg.ack \in SeqNums /\ seg.seq \in Nat
  BY SegmentFields, BoundFacts DEF SeqNums
<1>3. Plus(seg.seq, 1) \in SeqNums
  BY <1>2, PlusType
<1> QED BY <1>1, <1>2, <1>3, ZeroType, SegmentType DEF RstFor

LEMMA NewTcbType ==
  ASSUME NEW state \in States, NEW iss \in SeqNums, NEW rcv \in SeqNums
  PROVE  NewTcb(state, iss, rcv) \in Tcbs
<1>1. iss \in Nat
  BY BoundFacts DEF SeqNums
<1>2. Plus(iss, 1) \in SeqNums
  BY <1>1, PlusType
<1> QED BY <1>2 DEF NewTcb, Tcbs

(* The type of the connections after one of them was replaced.             *)
LEMMA ConnType ==
  ASSUME TcpType, NEW h \in Hosts, NEW t \in Tcbs \union {NoConn},
         conn' = [conn EXCEPT ![h] = t]
  PROVE  /\ conn' \in [Hosts -> Tcbs \union {NoConn}] /\ conn'[h] = t
         /\ \A g \in Hosts : g # h => conn'[g] = conn[g]
BY DEF TcpType

LEMMA ConnTcb == ASSUME TcpType, NEW h \in Hosts, conn[h] # NoConn PROVE conn[h] \in Tcbs
BY DEF TcpType

LEMMA AckedType ==
  ASSUME NEW t \in Tcbs, NEW ack \in SeqNums PROVE Acked(t, ack) \in Tcbs
<1>1. t.queue \in Queues /\ t.dups \in 0 .. 4
  BY TcbFields
<1>2. Unacked(t.queue, ack) \in Queues
  BY <1>1, UnackedFacts DEF Queues
<1>3. Bumped(t.dups) \in 0 .. 4
  BY <1>1 DEF Bumped
<1>4. [t EXCEPT !.dups = Bumped(t.dups)] \in Tcbs
  BY <1>3 DEF Tcbs
<1>5. [t EXCEPT !.dups = 0, !.una = ack, !.queue = Unacked(t.queue, ack)] \in Tcbs
  BY <1>2, 0 \in 0 .. 4, TcbRecord
<1> QED BY <1>4, <1>5 DEF Acked

LEMMA FastType ==
  ASSUME NEW h \in Hosts, NEW t \in Tcbs, NEW ack PROVE FastRetransmit(h, t, ack) \subseteq Segments
<1> SUFFICES ASSUME t.queue # <<>>
             PROVE  Segment(h, t.queue[1].seq, t.rcv, {"ACK"}, t.queue[1].data) \in Segments
  BY DEF FastRetransmit, IsDupAck
<1>1. t.queue \in Queues /\ t.rcv \in SeqNums
  BY TcbFields
<1>2. t.queue[1] \in Entries
  BY <1>1 DEF Queues
<1>3. t.queue[1].seq \in SeqNums /\ t.queue[1].data \in Data /\ {"ACK"} \in Flags
  BY <1>2 DEF Entries, Flags
<1> QED BY <1>1, <1>3, SegmentType

LEMMA ReceivedType ==
  ASSUME NEW t \in Tcbs, NEW seg \in Segments PROVE Received(t, seg) \in Tcbs
<1>1. t.buffer \in Data /\ seg.data \in Data /\ t.rcv \in Nat
  BY TcbFields, SegmentFields, BoundFacts DEF SeqNums
<1>2. t.buffer \o seg.data \in Data /\ Len(seg.data) \in Nat
  BY <1>1 DEF Data
<1>3. Plus(t.rcv, Len(seg.data)) \in SeqNums
  BY <1>1, <1>2, PlusType
<1> QED BY <1>2, <1>3, TcbRecord DEF Received

LEMMA FinSeenType ==
  ASSUME NEW t \in Tcbs, NEW state \in States PROVE FinSeen(t, state) \in Tcbs
<1>1. t.rcv \in Nat
  BY TcbFields, BoundFacts DEF SeqNums
<1>2. Plus(t.rcv, 1) \in SeqNums
  BY <1>1, PlusType
<1> QED BY <1>2 DEF FinSeen, Tcbs

LEMMA ArrivesType ==
  ASSUME TcpType, NEW h \in Hosts, NEW seg, Arrives(h, seg) PROVE seg \in Segments /\ seg \in net
BY DEF Arrives, TcpType

(* Most actions leave the backlog, the draws and what was written alone.   *)
LEMMA TypeFrame ==
  ASSUME TcpType, conn' \in [Hosts -> Tcbs \union {NoConn}], net' \subseteq Segments,
         UNCHANGED <<backlog, isns, wrote, reached>>
  PROVE  TcpType'
BY DEF TcpType

LEMMA AppTypes ==
  ASSUME TcpType, \/ Connect \/ Accept
                  \/ \E h \in Hosts : \/ \E n \in 1 .. Mss : Send(h, n)
                                      \/ Recv(h) \/ Close(h) \/ TimeWaitExpires(h)
  PROVE  TcpType'
<1>1. CASE Connect
  <2> DEFINE iss == Isn(Client, 0)
             q == <<Entry(iss, <<Junk>>)>>
             t == [NewTcb("SynSent", iss, 0) EXCEPT !.queue = q]
  <2>1. iss \in SeqNums /\ Client \in Hosts
    BY IsnType, HostFacts, ZeroType
  <2>2. NewTcb("SynSent", iss, 0) \in Tcbs
    BY <2>1, ZeroType, NewTcbType DEF States
  <2>3. q \in Queues
    BY <2>1 DEF Entry, Entries, Data, Queues
  <2>4. t \in Tcbs
    <3> HIDE DEF q
    <3> QED BY <2>2, <2>3, TcbRecord
  <2>5. conn' = [conn EXCEPT ![Client] = t] /\ net' = net \union {Segment(Client, iss, 0, {"SYN"}, <<>>)}
        /\ isns' = [isns EXCEPT ![Client] = 1] /\ UNCHANGED <<backlog, wrote, reached>>
    BY <1>1 DEF Connect, NextIsn
  <2> HIDE DEF t, iss
  <2>6. Segment(Client, iss, 0, {"SYN"}, <<>>) \in Segments
    <3>1. {"SYN"} \in Flags
      BY DEF Flags
    <3> QED BY <2>1, <3>1, ZeroType, SegmentType
  <2>7. conn' \in [Hosts -> Tcbs \union {NoConn}]
    BY <2>1, <2>4, <2>5, ConnType
  <2>8. isns' \in [Hosts -> 0 .. MaxIsn]
    <3>1. 1 \in 0 .. MaxIsn /\ isns \in [Hosts -> 0 .. MaxIsn]
      BY BoundFacts DEF TcpType
    <3> QED BY <2>5, <3>1
  <2> QED BY <2>5, <2>6, <2>7, <2>8 DEF TcpType
<1>2. CASE Accept
  <2>1. /\ backlog \in Seq(Tcbs) /\ backlog # <<>> /\ backlog' = Tail(backlog)
        /\ conn' = [conn EXCEPT ![Server] = Head(backlog)] /\ UNCHANGED <<isns, net, wrote, reached>>
    BY <1>2 DEF Accept, TcpType
  <2>2. Head(backlog) \in Tcbs /\ backlog' \in Seq(Tcbs)
    BY <2>1
  <2>3. conn' \in [Hosts -> Tcbs \union {NoConn}]
    BY <2>1, <2>2, HostFacts, ConnType
  <2> QED BY <2>1, <2>2, <2>3 DEF TcpType
<1>3. ASSUME NEW h \in Hosts, NEW n \in 1 .. Mss, Send(h, n) PROVE TcpType'
  <2> DEFINE t == conn[h]
             data == [j \in 1 .. n |-> wrote[h] + j]
             t1 == [t EXCEPT !.nxt = Plus(t.nxt, n), !.queue = Append(t.queue, Entry(t.nxt, data))]
  <2>0. t \in Tcbs
    BY <1>3, ConnTcb DEF Send
  <2>1. t \in Tcbs /\ wrote[h] \in Nat /\ n \in Nat
    BY <2>0, BoundFacts DEF TcpType
  <2>2. data \in Data
    BY <2>1 DEF Data
  <2>3. /\ conn' = [conn EXCEPT ![h] = t1]
        /\ net' = net \union {Segment(h, t.nxt, t.rcv, {"ACK"}, data)}
        /\ wrote' = [wrote EXCEPT ![h] = @ + n] /\ UNCHANGED <<backlog, isns, reached>>
    BY <1>3 DEF Send, TcpType
  <2> HIDE DEF t, data
  <2>4. /\ t.nxt \in SeqNums /\ t.nxt \in Nat /\ t.rcv \in SeqNums /\ t.queue \in Queues
    BY <2>1, TcbFields, BoundFacts DEF SeqNums
  <2>5. Plus(t.nxt, n) \in SeqNums
    BY <2>1, <2>4, PlusType
  <2>6. Append(t.queue, Entry(t.nxt, data)) \in Queues
    <3>1. Entry(t.nxt, data) \in Entries
      BY <2>2, <2>4 DEF Entry, Entries
    <3> QED BY <2>4, <3>1 DEF Queues
  <2>7. t1 \in Tcbs
    BY <2>1, <2>5, <2>6, TcbRecord
  <2> HIDE DEF t1
  <2>8. conn' \in [Hosts -> Tcbs \union {NoConn}]
    BY <2>3, <2>7, ConnType
  <2>9. Segment(h, t.nxt, t.rcv, {"ACK"}, data) \in Segments
    <3>1. {"ACK"} \in Flags
      BY DEF Flags
    <3> QED BY <2>2, <2>4, <3>1, SegmentType
  <2>10. wrote' \in [Hosts -> Nat]
    BY <2>1, <2>3 DEF TcpType
  <2> QED BY <2>3, <2>8, <2>9, <2>10 DEF TcpType
<1>4. ASSUME NEW h \in Hosts, Recv(h) PROVE TcpType'
  <2> DEFINE t == conn[h]
             t1 == [t EXCEPT !.read = t.read \o t.buffer, !.buffer = <<>>]
  <2>1. t \in Tcbs
    BY <1>4, ConnTcb DEF Recv
  <2>2. conn' = [conn EXCEPT ![h] = t1] /\ UNCHANGED <<backlog, isns, net, wrote, reached>>
    BY <1>4 DEF Recv, TcpType
  <2> HIDE DEF t
  <2>3. t.read \o t.buffer \in Data
    BY <2>1, TcbFields DEF Data
  <2>4. t1 \in Tcbs
    BY <2>1, <2>3, ZeroType, TcbRecord
  <2> HIDE DEF t1
  <2>5. conn' \in [Hosts -> Tcbs \union {NoConn}]
    BY <2>2, <2>4, ConnType
  <2> QED BY <2>2, <2>5, TypeFrame DEF TcpType
<1>5. ASSUME NEW h \in Hosts, Close(h) PROVE TcpType'
  <2> DEFINE t == conn[h]
             s == IF t.state = "Established" THEN "FinWait1" ELSE "LastAck"
             t1 == [t EXCEPT !.nxt = Plus(t.nxt, 1), !.state = s]
  <2>1. t \in Tcbs
    BY <1>5, ConnTcb DEF Close
  <2>2. /\ conn' = [conn EXCEPT ![h] = t1] /\ UNCHANGED <<backlog, isns, wrote, reached>>
        /\ net' = net \union {Segment(h, t.nxt, t.rcv, {"FIN", "ACK"}, <<>>)}
    BY <1>5 DEF Close, TcpType
  <2> HIDE DEF t
  <2>3. t.nxt \in SeqNums /\ t.nxt \in Nat /\ t.rcv \in SeqNums
    BY <2>1, TcbFields, BoundFacts DEF SeqNums
  <2>4. Plus(t.nxt, 1) \in SeqNums /\ s \in States
    BY <2>3, PlusType DEF States
  <2>5. t1 \in Tcbs
    BY <2>1, <2>4 DEF Tcbs
  <2> HIDE DEF t1
  <2>6. conn' \in [Hosts -> Tcbs \union {NoConn}]
    BY <2>2, <2>5, ConnType
  <2>7. Segment(h, t.nxt, t.rcv, {"FIN", "ACK"}, <<>>) \in Segments
    <3>1. {"FIN", "ACK"} \in Flags
      BY DEF Flags
    <3> QED BY <2>3, <3>1, ZeroType, SegmentType
  <2>8. net' \subseteq Segments
    BY <2>2, <2>7 DEF TcpType
  <2> QED BY <2>2, <2>6, <2>8, TypeFrame
<1>6. ASSUME NEW h \in Hosts, TimeWaitExpires(h) PROVE TcpType'
  <2>1. conn' = [conn EXCEPT ![h] = NoConn] /\ UNCHANGED <<backlog, isns, net, wrote, reached>>
    BY <1>6 DEF TimeWaitExpires
  <2>2. conn' \in [Hosts -> Tcbs \union {NoConn}]
    BY <2>1, ConnType
  <2> QED BY <2>1, <2>2, TypeFrame DEF TcpType
<1> QED BY <1>1, <1>2, <1>3, <1>4, <1>5, <1>6

LEMMA RetransmitType ==
  ASSUME TcpType, NEW h \in Hosts, NEW i, Retransmit(h, i) PROVE TcpType'
<1> DEFINE t == conn[h]
           e == t.queue[i]
           t1 == [t EXCEPT !.queue[i].count = Counted(e.count)]
<1>1. t \in Tcbs /\ i \in 1 .. Len(t.queue) /\ UNCHANGED <<backlog, isns, wrote, reached>>
  BY ConnTcb DEF Retransmit
<1>2. /\ t.queue \in Queues /\ t.nxt \in SeqNums /\ t.rcv \in SeqNums
      /\ {"RST"} \in Flags /\ {"ACK"} \in Flags
  BY <1>1, TcbFields DEF Flags
<1>3. e \in Entries
  BY <1>1, <1>2 DEF Queues
<1>4. e.seq \in SeqNums /\ e.data \in Data /\ e.count \in Nat
  BY <1>3 DEF Entries
<1>5. CASE e.count >= MAX_RETRANSMIT
  <2>1. /\ conn' = [conn EXCEPT ![h] = NoConn]
        /\ net' = net \union {Segment(h, t.nxt, t.rcv, {"RST"}, <<>>)}
    BY <1>5 DEF Retransmit
  <2>2. Segment(h, t.nxt, t.rcv, {"RST"}, <<>>) \in Segments
    BY <1>2, ZeroType, SegmentType
  <2>3. conn' \in [Hosts -> Tcbs \union {NoConn}]
    BY <2>1, ConnType
  <2>4. net' \subseteq Segments
    BY <2>1, <2>2 DEF TcpType
  <2> QED BY <1>1, <2>3, <2>4, TypeFrame
<1>6. CASE ~ (e.count >= MAX_RETRANSMIT)
  <2>1. /\ conn' = [conn EXCEPT ![h] = t1]
        /\ net' = net \union {Segment(h, e.seq, t.rcv, {"ACK"}, e.data)}
    BY <1>6 DEF Retransmit, TcpType
  <2>2. Segment(h, e.seq, t.rcv, {"ACK"}, e.data) \in Segments
    BY <1>2, <1>4, SegmentType
  <2>3. t1 \in Tcbs
    <3> DEFINE f == [e EXCEPT !.count = Counted(e.count)]
               q == [t.queue EXCEPT ![i] = f]
    <3>1. f \in Entries
      BY <1>3, <1>4 DEF Entries, Counted
    <3>2. t1 = [t EXCEPT !.queue = q]
      BY <1>1, <1>2 DEF Queues
    <3> HIDE DEF f, e, t
    <3>3. q \in Queues
      BY <1>1, <1>2, <3>1 DEF Queues
    <3> HIDE DEF q
    <3> QED BY <1>1, <3>2, <3>3, TcbRecord
  <2> HIDE DEF t1
  <2>4. conn' \in [Hosts -> Tcbs \union {NoConn}]
    BY <2>1, <2>3, ConnType
  <2>5. net' \subseteq Segments
    BY <2>1, <2>2 DEF TcpType
  <2> QED BY <1>1, <2>4, <2>5, TypeFrame
<1> QED BY <1>5, <1>6

LEMMA PassiveOpenType == ASSUME TcpType, NEW seg, PassiveOpen(seg) PROVE TcpType'
<1>1. seg \in Segments /\ Server \in Hosts /\ UNCHANGED <<backlog, wrote, reached>>
  BY HostFacts, ArrivesType DEF PassiveOpen
<1>2. CASE Len(backlog) >= MaxBacklog
  <2>1. net' = net \union {RstFor(Server, seg)} /\ UNCHANGED <<conn, isns>>
    BY <1>2 DEF PassiveOpen
  <2>2. RstFor(Server, seg) \in Segments
    BY <1>1, RstForType
  <2> QED BY <1>1, <2>1, <2>2 DEF TcpType
<1>3. CASE ~ (Len(backlog) >= MaxBacklog)
  <2> DEFINE iss == NextIsn(Server)
             rcv == Plus(seg.seq, 1)
             t == NewTcb("SynReceived", iss, rcv)
  <2>1. /\ isns[Server] < MaxIsn /\ isns' = [isns EXCEPT ![Server] = @ + 1]
        /\ conn' = [conn EXCEPT ![Server] = t]
        /\ net' = net \union {Segment(Server, t.una, t.rcv, {"SYN", "ACK"}, <<>>)}
    BY <1>3 DEF PassiveOpen
  <2>2. iss \in SeqNums
    <3>1. isns[Server] \in Nat
      BY <1>1 DEF TcpType
    <3> QED BY <1>1, <3>1, IsnType DEF NextIsn
  <2>3. rcv \in SeqNums
      <3>1. seg.seq \in Nat
      BY <1>1, SegmentFields, BoundFacts DEF SeqNums
    <3> QED BY <3>1, ZeroType, PlusType
  <2>4. t \in Tcbs
    BY <2>2, <2>3, NewTcbType DEF States
  <2> HIDE DEF t
  <2>5. t.una \in SeqNums /\ t.rcv \in SeqNums /\ {"SYN", "ACK"} \in Flags
    BY <2>4, TcbFields DEF Flags
  <2>6. Segment(Server, t.una, t.rcv, {"SYN", "ACK"}, <<>>) \in Segments
    BY <1>1, <2>5, ZeroType, SegmentType
  <2>7. conn' \in [Hosts -> Tcbs \union {NoConn}]
    BY <1>1, <2>1, <2>4, ConnType
  <2>8. isns' \in [Hosts -> 0 .. MaxIsn]
    <3>1. isns \in [Hosts -> 0 .. MaxIsn] /\ isns[Server] + 1 \in 0 .. MaxIsn
      BY <1>1, <2>1, BoundFacts DEF TcpType
    <3> QED BY <2>1, <3>1
  <2> QED BY <1>1, <2>1, <2>6, <2>7, <2>8 DEF TcpType
<1> QED BY <1>2, <1>3

(* A segment handler that replaces the control block and sends S.          *)
LEMMA HandlerType ==
  ASSUME TcpType, NEW h \in Hosts, NEW t \in Tcbs \union {NoConn}, NEW S \in SUBSET Segments,
         conn' = [conn EXCEPT ![h] = t], net' = net \union S,
         UNCHANGED <<backlog, isns, wrote, reached>>
  PROVE  TcpType'
<1>1. conn' \in [Hosts -> Tcbs \union {NoConn}]
  BY ConnType
<1>2. net' \subseteq Segments
  BY DEF TcpType
<1> QED BY <1>1, <1>2, TypeFrame

LEMMA EstablishedType ==
  ASSUME TcpType, NEW h \in Hosts, NEW seg, SegEstablished(h, seg) PROVE TcpType'
<1> DEFINE t0 == conn[h]
           t1 == IF "ACK" \in seg.flags THEN Acked(t0, seg.ack) ELSE t0
           fast == IF "ACK" \in seg.flags THEN FastRetransmit(h, t0, seg.ack) ELSE {}
           t2 == IF InOrder(t1, seg) THEN Received(t1, seg) ELSE t1
           dataAck == IF InOrder(t1, seg) THEN {AckOf(h, t2)} ELSE {}
           t3 == IF "FIN" \in seg.flags THEN FinSeen(t2, "CloseWait") ELSE t2
           finAck == IF "FIN" \in seg.flags THEN {AckOf(h, t3)} ELSE {}
           m == Len(t2.read) + Len(t2.buffer)
<1>1. /\ conn' = [conn EXCEPT ![h] = t3] /\ net' = net \union fast \union dataAck \union finAck
      /\ reached' = IF InOrder(t1, seg) THEN [reached EXCEPT ![Peer(h)] = LongerOf(@, m)]
                    ELSE reached
      /\ UNCHANGED <<backlog, isns, wrote>>
  BY DEF SegEstablished
<1>2. seg \in Segments /\ t0 \in Tcbs /\ seg.ack \in SeqNums
  BY ArrivesType, ConnTcb, SegmentFields DEF SegEstablished, Receives
<1>3. t1 \in Tcbs /\ fast \subseteq Segments
  BY <1>2, AckedType, FastType
<1> HIDE DEF t0, t1, fast
<1>4. t2 \in Tcbs
  BY <1>2, <1>3, ReceivedType
<1> HIDE DEF t2
<1>5. dataAck \subseteq Segments /\ m \in Nat
  <2>1. t2.read \in Data /\ t2.buffer \in Data
    BY <1>4, TcbFields
  <2>2. Len(t2.read) \in Nat /\ Len(t2.buffer) \in Nat
    BY <2>1, DataLen
  <2>4. \A x, y \in Nat : x + y \in Nat
    OBVIOUS
  <2>5. m \in Nat
    BY <2>2, <2>4, Zenon
  <2>3. AckOf(h, t2) \in Segments
    BY <1>4, AckOfType
  <2> QED BY <2>3, <2>5
<1>6. t3 \in Tcbs
  BY <1>4, FinSeenType DEF States
<1> HIDE DEF t3, dataAck, m
<1>7. finAck \subseteq Segments
  BY <1>6, AckOfType
<1>8. conn' \in [Hosts -> Tcbs \union {NoConn}]
  BY <1>1, <1>6, ConnType
<1>9. net' \subseteq Segments
  <2> HIDE DEF finAck
  <2> QED BY <1>1, <1>3, <1>5, <1>7 DEF TcpType
<1>10. reached' \in [Hosts -> Nat]
  BY <1>1, <1>5, HostFacts DEF TcpType, LongerOf
<1> QED BY <1>1, <1>8, <1>9, <1>10 DEF TcpType

LEMMA HandlerTypes ==
  ASSUME TcpType, NEW h \in Hosts, NEW seg, Handle(h, seg) PROVE TcpType'
<1>0. seg \in Segments /\ seg.ack \in SeqNums /\ seg.seq \in Nat
  <2>1. Arrives(h, seg)
    BY Zenon DEF Handle, Reset, Stray, SegSynSent, SegSynReceived, SegEstablished, SegFinWait1,
         SegFinWait2, SegClosing, SegLastAck, SegTimeWait, Receives
  <2>2. seg \in Segments
    BY <2>1, ArrivesType
  <2> QED BY <2>2, SegmentFields, BoundFacts DEF SeqNums
<1>1. CASE Reset(h, seg) \/ SegLastAck(h, seg)
  <2>1. conn' = [conn EXCEPT ![h] = NoConn] /\ net' = net \union {}
        /\ UNCHANGED <<backlog, isns, wrote, reached>>
    BY <1>1 DEF Reset, SegLastAck
  <2>2. {} \in SUBSET Segments /\ NoConn \in Tcbs \union {NoConn}
    OBVIOUS
  <2> QED BY <2>1, <2>2, HandlerType
<1>2. CASE Stray(h, seg)
  <2>1. net' = net \union {RstFor(h, seg)} /\ UNCHANGED <<conn, backlog, isns, wrote, reached>>
    BY <1>2 DEF Stray
  <2>2. RstFor(h, seg) \in Segments
    BY <1>0, RstForType
  <2> QED BY <2>1, <2>2 DEF TcpType
<1>3. CASE SegSynSent(h, seg)
  <2>1. conn[h] \in Tcbs /\ UNCHANGED <<backlog, isns, wrote, reached>>
    BY <1>3, ConnTcb DEF SegSynSent, Receives
  <2>2. CASE seg.ack # conn[h].nxt
    <3>1. net' = net \union {Segment(h, seg.ack, 0, {"RST"}, <<>>)} /\ UNCHANGED conn
      BY <1>3, <2>2 DEF SegSynSent
    <3>2. Segment(h, seg.ack, 0, {"RST"}, <<>>) \in Segments
      <4>1. {"RST"} \in Flags
        BY DEF Flags
      <4> QED BY <1>0, <4>1, ZeroType, SegmentType
    <3> QED BY <2>1, <3>1, <3>2 DEF TcpType
  <2>3. CASE seg.ack = conn[h].nxt
    <3> DEFINE r == Plus(seg.seq, 1)
               t == [conn[h] EXCEPT !.rcv = r, !.una = seg.ack, !.state = "Established",
                                    !.queue = <<>>]
    <3>1. conn' = [conn EXCEPT ![h] = t] /\ net' = net \union {AckOf(h, t)}
      BY <1>3, <2>3 DEF SegSynSent
    <3>2. r \in SeqNums /\ <<>> \in Queues /\ "Established" \in States
      BY <1>0, PlusType, ZeroType DEF Queues, States
    <3> HIDE DEF r
    <3>3. t \in Tcbs
      BY <1>0, <2>1, <3>2, TcbRecord
    <3> HIDE DEF t
    <3>4. {AckOf(h, t)} \in SUBSET Segments
      BY <3>3, AckOfType
    <3> QED BY <2>1, <3>1, <3>3, <3>4, HandlerType
  <2> QED BY <2>2, <2>3
<1>4. CASE SegSynReceived(h, seg)
  <2> DEFINE t == [conn[h] EXCEPT !.una = seg.ack, !.state = "Established"]
  <2>1. /\ conn[h] \in Tcbs /\ UNCHANGED <<isns, net, wrote, reached>>
        /\ conn' = [conn EXCEPT ![h] = NoConn] /\ backlog' = Append(backlog, t)
    BY <1>4, ConnTcb DEF SegSynReceived, Receives
  <2>2. t \in Tcbs
    BY <1>0, <2>1, TcbRecord DEF States
  <2> HIDE DEF t
  <2>3. conn' \in [Hosts -> Tcbs \union {NoConn}] /\ backlog' \in Seq(Tcbs)
    BY <2>1, <2>2, ConnType DEF TcpType
  <2> QED BY <2>1, <2>3 DEF TcpType
<1>5. CASE SegEstablished(h, seg)
  BY <1>5, EstablishedType
<1>6. CASE SegFinWait1(h, seg)
  <2> DEFINE t0 == conn[h]
             t1 == IF FinAcked(t0, seg)
                     THEN [t0 EXCEPT !.una = seg.ack, !.state = "FinWait2"] ELSE t0
             s == IF t1.state = "FinWait2" THEN "TimeWait" ELSE "Closing"
             t2 == FinSeen(t1, s)
  <2>1. /\ t0 \in Tcbs /\ UNCHANGED <<backlog, isns, wrote, reached>>
        /\ \/ conn' = [conn EXCEPT ![h] = t2] /\ net' = net \union {AckOf(h, t2)}
           \/ conn' = [conn EXCEPT ![h] = t1] /\ net' = net \union {}
    BY <1>6, ConnTcb DEF SegFinWait1, Receives
  <2> HIDE DEF t0
  <2>2. t1 \in Tcbs
    BY <1>0, <2>1, TcbRecord DEF States
  <2> HIDE DEF t1
  <2>3. t2 \in Tcbs
    BY <2>2, FinSeenType DEF States
  <2> HIDE DEF t2
  <2>4. {AckOf(h, t2)} \in SUBSET Segments /\ {} \in SUBSET Segments
    BY <2>3, AckOfType
  <2> QED BY <2>1, <2>2, <2>3, <2>4, HandlerType
<1>7. CASE SegFinWait2(h, seg)
  <2> DEFINE t == FinSeen(conn[h], "TimeWait")
  <2>1. /\ conn[h] \in Tcbs /\ UNCHANGED <<backlog, isns, wrote, reached>>
        /\ conn' = [conn EXCEPT ![h] = t] /\ net' = net \union {AckOf(h, t)}
    BY <1>7, ConnTcb DEF SegFinWait2, Receives
  <2>2. t \in Tcbs
    BY <2>1, FinSeenType DEF States
  <2> HIDE DEF t
  <2>3. {AckOf(h, t)} \in SUBSET Segments
    BY <2>2, AckOfType
  <2> QED BY <2>1, <2>2, <2>3, HandlerType
<1>8. CASE SegClosing(h, seg)
  <2> DEFINE t == [conn[h] EXCEPT !.state = "TimeWait"]
  <2>1. /\ conn[h] \in Tcbs /\ UNCHANGED <<backlog, isns, wrote, reached>>
        /\ conn' = [conn EXCEPT ![h] = t] /\ net' = net \union {}
    BY <1>8, ConnTcb DEF SegClosing, Receives, TcpType
  <2>2. t \in Tcbs
    BY <2>1, TcbRecord DEF States
  <2> HIDE DEF t
  <2>3. {} \in SUBSET Segments /\ t \in Tcbs \union {NoConn}
    BY <2>2
  <2> QED BY <2>1, <2>3, HandlerType
<1>9. CASE SegTimeWait(h, seg)
  <2>1. conn[h] \in Tcbs /\ net' = net \union {AckOf(h, conn[h])}
        /\ UNCHANGED <<conn, backlog, isns, wrote, reached>>
    BY <1>9, ConnTcb DEF SegTimeWait, Receives
  <2>2. AckOf(h, conn[h]) \in Segments
    BY <2>1, AckOfType
  <2> QED BY <2>1, <2>2 DEF TcpType
<1> QED BY <1>1, <1>2, <1>3, <1>4, <1>5, <1>6, <1>7, <1>8, <1>9 DEF Handle

LEMMA TcpTypeStep == ASSUME TcpType, [TcpNext]_vars PROVE TcpType'
<1>1. CASE UNCHANGED vars
  BY <1>1 DEF vars, TcpType
<1>2. CASE TcpNext
  <2>1. CASE \/ Connect \/ Accept
             \/ \E h \in Hosts : \/ \E n \in 1 .. Mss : Send(h, n)
                                 \/ Recv(h) \/ Close(h) \/ TimeWaitExpires(h)
    BY <2>1, AppTypes
  <2>2. CASE \E h \in Hosts : \E i \in 1 .. MaxWrite[h] + 1 : Retransmit(h, i)
    BY <2>2, RetransmitType
  <2>3. CASE \E seg \in net : PassiveOpen(seg)
    BY <2>3, PassiveOpenType
  <2>4. CASE \E seg \in net : \E h \in Hosts : Handle(h, seg)
    BY <2>4, HandlerTypes
  <2> QED BY <1>2, <2>1, <2>2, <2>3, <2>4 DEF TcpNext
<1> QED BY <1>1, <1>2

LEMMA TcpTypeInit == TcpInit => TcpType
<1>1. 0 \in 0 .. MaxIsn /\ 0 \in Nat
  BY BoundFacts
<1> QED BY <1>1 DEF TcpInit, TcpType

-----------------------------------------------------------------------------
(* What a step of host h leaves of its peer.                               *)
HostMoves(h, S) ==
  /\ net' = net \union S /\ \A seg \in S : seg.from = h
  /\ wrote'[Peer(h)] = wrote[Peer(h)] /\ reached'[h] = reached[h]
  /\ reached[Peer(h)] <= reached'[Peer(h)]

LEMMA FinSentGrows ==
  ASSUME NEW p, net \subseteq net', FinSent(p) PROVE FinSent(p)'
BY DEF FinSent

LEMMA FinSentKept ==
  ASSUME NEW p, NEW S, net' = net \union S, \A seg \in S : seg.from = p => "FIN" \notin seg.flags,
         FinSent(p)'
  PROVE  FinSent(p)
BY DEF FinSent

LEMMA PlacedGrows ==
  ASSUME TcpType, TcpType', NEW h \in Hosts, NEW j, NEW seq, NEW data \in Data,
         wrote[h] <= wrote'[h], Placed(h, j, seq, data)
  PROVE  Placed(h, j, seq, data)'
<1>1. PICK b \in 0 .. wrote[h] :
        Bytes(data, b) /\ b + Len(data) <= wrote[h] /\ seq = At(h, j, b)
  BY DEF Placed
<1>2. wrote[h] \in Nat /\ wrote'[h] \in Nat /\ Len(data) \in Nat
  BY DataLen DEF TcpType
<1>3. b \in 0 .. wrote'[h] /\ b + Len(data) <= wrote'[h]
  BY <1>1, <1>2
<1>4. Bytes(data, b)'
  BY <1>1 DEF Bytes
<1>5. (seq = At(h, j, b))'
  BY <1>1
<1> QED BY <1>3, <1>4, <1>5 DEF Placed

LEMMA PeerKeeps ==
  ASSUME TcpType, TcpType', NEW h \in Hosts, NEW S, HostMoves(h, S),
         NEW j \in Nat, NEW t \in Tcbs, GoodTcb(Peer(h), j, t)
  PROVE  GoodTcb(Peer(h), j, t)'
<1> DEFINE p == Peer(h)
<1>1. p \in Hosts /\ Peer(p) = h /\ p # h
  BY HostFacts
<1>2. /\ net \subseteq net' /\ \A seg \in S : seg.from # p
      /\ net' = net \union S /\ wrote'[p] = wrote[p] /\ reached'[h] = reached[h]
      /\ reached[p] <= reached'[p]
  BY <1>1 DEF HostMoves
<1>3. /\ GoodIn(p, j, t) /\ GoodOut(p, j, t) /\ GoodQueue(p, j, t)
      /\ GoodAcks(p, j, t) /\ GoodFin(p, t)
  BY DEF GoodTcb
<1> HIDE DEF p
<1>4. GoodIn(p, j, t)'
  <2>1. FinSent(h) => FinSent(h)'
    BY <1>2, FinSentGrows
  <2> QED BY <1>1, <1>2, <1>3, <2>1 DEF GoodIn
<1>5. GoodOut(p, j, t)'
  <2>1. FinSent(p)' => FinSent(p)
    BY <1>2, FinSentKept
  <2> QED BY <1>1, <1>2, <1>3, <2>1 DEF GoodOut
<1>6. GoodQueue(p, j, t)'
  <2>1. \A i \in 1 .. Len(t.queue) : Placed(p, j, t.queue[i].seq, t.queue[i].data)'
    BY <1>2, <1>3 DEF GoodQueue, Placed
  <2>2. Kept(p, t)'
    <3>1. reached[p] \in Nat /\ reached'[p] \in Nat /\ wrote[p] \in Nat
      BY <1>1 DEF TcpType
    <3>2. Kept(p, t)
      BY <1>3 DEF GoodQueue
    <3> QED BY <1>2, <3>1, <3>2 DEF Kept
  <2> QED BY <2>1, <2>2 DEF GoodQueue
<1>7. GoodAcks(p, j, t)'
  BY <1>1, <1>2, <1>3 DEF GoodAcks, Acks
<1>8. GoodFin(p, t)'
  BY <1>1, <1>2, <1>3 DEF GoodFin, Acks
<1>9. GoodTcb(p, j, t)'
  BY <1>4, <1>5, <1>6, <1>7, <1>8 DEF GoodTcb
<1> QED BY <1>9 DEF p

(* The control block in the table is the one t stands for.                 *)
LEMMA GoodConn ==
  ASSUME NEW h, NEW j, NEW t, conn'[h] = t, GoodTcb(h, j, t)'
  PROVE  GoodTcb(h, j, conn[h])'
BY DEF GoodTcb, GoodIn, GoodOut, GoodQueue, GoodAcks, GoodFin, Kept, Stream, Taken, FinIn, FinOut

-----------------------------------------------------------------------------
(* Segments stay what they are.                                            *)
Grows == net \subseteq net' /\ \A h \in Hosts : wrote[h] <= wrote'[h] /\ reached[h] <= reached'[h]

LEMMA OpenGrows ==
  ASSUME TcpType, TcpType', Grows, NEW seg \in Segments, NEW j, IsOpen(seg, j)
  PROVE  IsOpen(seg, j)'
<1> DEFINE h == seg.from
           p == Peer(h)
<1>1. h \in Hosts /\ p \in Hosts /\ seg.data \in Data
  BY SegmentFields, HostFacts
<1>2. wrote[h] <= wrote'[h] /\ reached[p] <= reached'[p] /\ reached[p] \in Nat /\ reached'[p] \in Nat
  BY <1>1 DEF Grows, TcpType
<1>3. seg.data # <<>> => Placed(h, j, seg.seq, seg.data)'
  BY <1>1, <1>2, PlacedGrows DEF IsOpen
<1>4. PICK m \in 0 .. reached[p] + Flag(FinSent(p)) : seg.ack = At(p, j, m)
  BY DEF IsOpen
<1>5. FinSent(p) => FinSent(p)'
  BY FinSentGrows DEF Grows
<1> HIDE DEF p, h
<1>6. m \in 0 .. reached'[p] + Flag(FinSent(p)')
  BY <1>2, <1>5 DEF Flag
<1>7. seg.flags \in {{"ACK"}, {"FIN", "ACK"}}
  BY DEF IsOpen
<1>8. \E x \in 0 .. reached'[p] + Flag(FinSent(p)') : seg.ack = At(p, j, x)
  BY <1>4, <1>6
<1> QED BY <1>3, <1>7, <1>8 DEF IsOpen, h, p

LEMMA OpeningGrows ==
  ASSUME TcpType, TcpType', NEW seg, isns[Server] <= isns'[Server], IsOpening(seg)
  PROVE  IsOpening(seg)'
<1>1. isns[Server] \in Nat /\ isns'[Server] \in Nat
  BY HostFacts DEF TcpType
<1> QED BY <1>1 DEF IsOpening

Sorted(j, seg) == IsRst(seg) \/ IsOpening(seg) \/ IsJunk(seg) \/ IsOpen(seg, j)

LEMMA SortedGrows ==
  ASSUME TcpType, TcpType', Grows, isns[Server] <= isns'[Server], NEW j, NEW S,
         net' = net \union S, \A seg \in net : Sorted(j, seg), \A seg \in S : Sorted(j, seg)'
  PROVE  (\A seg \in net : Sorted(j, seg))'
<1> SUFFICES ASSUME NEW seg \in net' PROVE Sorted(j, seg)'
  OBVIOUS
<1>1. CASE seg \in S
  BY <1>1
<1>2. CASE seg \in net
  <2>1. Sorted(j, seg) /\ seg \in Segments
    BY <1>2 DEF TcpType
  <2>2. IsRst(seg) => IsRst(seg)'
    BY DEF IsRst
  <2>3. IsJunk(seg) => IsJunk(seg)'
    BY DEF IsJunk
  <2> QED BY <2>1, <2>2, <2>3, OpenGrows, OpeningGrows DEF Sorted
<1> QED BY <1>1, <1>2

-----------------------------------------------------------------------------
(* A step of a synchronised host h: its new control block is good and it   *)
(* sends segments of the open connection or resets.                        *)
LEMMA HostStep ==
  ASSUME TcpType, TcpType', Common, NEW j \in 0 .. MaxIsn - 1, SyncedOn(j),
         NEW h \in Hosts, Synced(conn[h]), NEW t \in Tcbs \union {NoConn}, NEW S,
         conn' = [conn EXCEPT ![h] = t], HostMoves(h, S),
         t # NoConn => Synced(t) /\ GoodTcb(h, j, t)',
         \A seg \in S : IsRst(seg) \/ IsOpen(seg, j)',
         wrote[h] <= wrote'[h], wrote'[h] <= MaxWrite[h],
         reached'[Peer(h)] <= wrote[Peer(h)], UNCHANGED <<backlog, isns>>
  PROVE  Common' /\ SyncedOn(j)'
<1> DEFINE p == Peer(h)
<1>1. /\ p \in Hosts /\ Peer(p) = h /\ p # h /\ Hosts = {h, p}
      /\ Client \in Hosts /\ Server \in Hosts /\ Client # Server /\ j \in Nat
  BY HostFacts DEF Hosts
<1>2. conn'[h] = t /\ conn'[p] = conn[p]
  BY <1>1, ConnType
<1>3. /\ net' = net \union S /\ \A seg \in S : seg.from = h
      /\ wrote'[p] = wrote[p] /\ reached'[h] = reached[h] /\ reached[p] <= reached'[p]
  BY DEF HostMoves
<1>4. \A g \in Hosts : wrote[g] \in Nat /\ wrote'[g] \in Nat /\ reached[g] \in Nat /\ reached'[g] \in Nat
  BY DEF TcpType
<1>5. Grows
  BY <1>1, <1>3, <1>4 DEF Grows
<1>6. t # NoConn => t.state \notin {"SynSent", "SynReceived"}
  BY DEF Synced
<1>7. isns'[Client] = 1 /\ isns' = isns /\ backlog' = backlog
  BY DEF SyncedOn
<1>8. GoodTcb(p, j, conn[p])' \/ ~ Synced(conn[p])
  <2> SUFFICES ASSUME Synced(conn[p]) PROVE GoodTcb(p, j, conn[p])'
    OBVIOUS
  <2>1. PICK u : u = conn[p]
    OBVIOUS
  <2>2. u \in Tcbs
    BY <1>1, <2>1, ConnTcb DEF Synced
  <2>3. GoodTcb(p, j, u)
    BY <1>1, <2>1 DEF SyncedOn
  <2>4. GoodTcb(p, j, u)'
    BY <1>1, <2>2, <2>3, PeerKeeps
  <2>5. conn'[p] = u
    BY <1>2, <2>1
  <2> QED BY <2>4, <2>5, GoodConn
<1>9. t # NoConn => GoodTcb(h, j, conn[h])'
  BY <1>2, GoodConn
<1> HIDE DEF p
<1>10. Common'
  <2>1. (conn[Client] # NoConn => isns[Client] = 1 /\ conn[Client].state # "SynReceived")'
    BY <1>1, <1>2, <1>6, <1>7 DEF Common
  <2>2. (conn[Server] # NoConn => conn[Server].state # "SynSent")'
    BY <1>1, <1>2, <1>6 DEF Common
  <2>3. (\A g \in Hosts : reached[g] <= wrote[g] /\ wrote[g] <= MaxWrite[g])'
    <3>1. \A g \in Hosts : reached[g] <= wrote[g] /\ wrote[g] <= MaxWrite[g]
      BY DEF Common
    <3>2. reached'[p] <= wrote'[p]
      BY <1>3 DEF p
    <3>3. reached'[h] <= wrote'[h]
      BY <1>3, <1>4, <3>1
    <3>4. \A g \in Hosts : g = h \/ g = p
      BY <1>1
    <3> QED BY <1>1, <1>3, <3>1, <3>2, <3>3, <3>4
  <2>4. HalfOpen'
    <3>1. conn'[Server] # NoConn /\ conn'[Server].state = "SynReceived" => conn'[Server] = conn[Server]
      BY <1>1, <1>2, <1>6
    <3> QED BY <1>7, <3>1 DEF HalfOpen, Common
  <2>5. Dialling'
    <3>1. conn'[Client] # NoConn => conn'[Client].state # "SynSent"
      BY <1>1, <1>2, <1>6 DEF SyncedOn
    <3> QED BY <3>1 DEF Dialling
  <2> QED BY <1>7, <2>1, <2>2, <2>3, <2>4, <2>5 DEF Common
<1>11. (\A seg \in net : Sorted(j, seg))'
  <2>1. \A seg \in net : Sorted(j, seg)
    BY DEF SyncedOn, Sorted
  <2>2. \A seg \in S : IsRst(seg) => IsRst(seg)'
    BY DEF IsRst
  <2>3. \A seg \in S : Sorted(j, seg)'
    BY <2>2 DEF Sorted
  <2>4. isns[Server] <= isns'[Server]
    BY <1>1, <1>7 DEF TcpType
  <2> QED BY <1>3, <1>5, <2>1, <2>3, <2>4, SortedGrows
<1>12. (backlog # <<>> =>
          /\ Len(backlog) = 1 /\ backlog[1].state = "Established"
          /\ GoodTcb(Server, j, backlog[1]) /\ backlog[1].queue = <<>>
          /\ ~ Synced(conn[Server]))'
  <2> SUFFICES ASSUME backlog # <<>>
               PROVE  GoodTcb(Server, j, backlog[1])' /\ ~ Synced(conn[Server])'
    BY <1>7 DEF SyncedOn
  <2>1. ~ Synced(conn[Server])
    BY DEF SyncedOn
  <2>2. p = Server
    BY <1>1, <2>1
  <2>3. ~ Synced(conn[Server])'
    BY <1>2, <2>1, <2>2 DEF Synced
  <2>4. PICK u : u = backlog[1]
    OBVIOUS
  <2>5. u \in Tcbs /\ GoodTcb(Server, j, u)
    BY <2>4 DEF SyncedOn, TcpType
  <2>6. GoodTcb(p, j, u)'
    BY <1>1, <2>2, <2>5, PeerKeeps DEF p
  <2>7. backlog'[1] = u
    BY <1>7, <2>4
  <2>8. GoodTcb(Server, j, backlog[1])'
    BY <2>2, <2>6, <2>7
       DEF GoodTcb, GoodIn, GoodOut, GoodQueue, GoodAcks, GoodFin, Kept, Stream, Taken, FinIn, FinOut
  <2> QED BY <2>3, <2>8
<1>13. (conn[Server] # NoConn /\ conn[Server].state = "SynReceived" /\ isns[Server] = j + 1 =>
          backlog = <<>> /\ Untouched(j))'
  <2> SUFFICES ASSUME conn'[Server] # NoConn, conn'[Server].state = "SynReceived", isns'[Server] = j + 1
               PROVE  backlog' = <<>> /\ Untouched(j)'
    OBVIOUS
  <2>1. Server = p /\ Client = h
    BY <1>1, <1>2, <1>6
  <2>2. backlog = <<>> /\ Untouched(j)
    BY <1>2, <1>7, <2>1 DEF SyncedOn
  <2>3. ~ FinSent(Server)'
    <3>1. \A seg \in S : seg.from = Server => "FIN" \notin seg.flags
      BY <1>1, <1>3, <2>1
    <3> QED BY <1>3, <2>2, <3>1, FinSentKept DEF Untouched
  <2>4. wrote'[Server] = 0 /\ reached'[Client] = 0
    BY <1>3, <2>1, <2>2 DEF Untouched
  <2>5. (\A seg \in net : Acks(seg, Server) => seg.ack = At(Client, j, 0))'
    BY <1>1, <1>3, <2>1, <2>2 DEF Untouched, Acks
  <2> QED BY <1>7, <2>2, <2>3, <2>4, <2>5 DEF Untouched
<1>14. (\A g \in Hosts : Synced(conn[g]) => GoodTcb(g, j, conn[g]))'
  <2>1. Synced(conn[h])' => GoodTcb(h, j, conn[h])'
    BY <1>2, <1>9 DEF Synced
  <2>2. Synced(conn[p])' => GoodTcb(p, j, conn[p])'
    BY <1>2, <1>8 DEF Synced, p
  <2> QED BY <1>1, <2>1, <2>2
<1>15. (j < isns[Server] /\ isns[Client] = 1 /\ (conn[Client] # NoConn => conn[Client].state # "SynSent"))'
  BY <1>1, <1>2, <1>6, <1>7 DEF SyncedOn
<1> QED BY <1>10, <1>11, <1>12, <1>13, <1>14, <1>15 DEF SyncedOn, Sorted
-----------------------------------------------------------------------------
(* The parts of a good control block.                                      *)
LEMMA StreamLen ==
  ASSUME NEW t \in Tcbs
  PROVE  /\ Stream(t) \in Data /\ Len(Stream(t)) \in Nat
         /\ Len(Stream(t)) = Len(t.read) + Len(t.buffer) /\ Flag(FinIn(t)) \in {0, 1}
         /\ Taken(t) \in Nat /\ Flag(FinOut(t)) \in {0, 1}
<1>1. t.read \in Data /\ t.buffer \in Data
  BY TcbFields
<1>2. Stream(t) \in Data /\ Len(Stream(t)) = Len(t.read) + Len(t.buffer)
  BY <1>1 DEF Stream, Data
<1>3. Len(Stream(t)) \in Nat
  BY <1>2, DataLen
<1>4. Flag(FinIn(t)) \in {0, 1} /\ Flag(FinOut(t)) \in {0, 1}
  BY DEF Flag
<1>5. Taken(t) \in Nat
  BY <1>3, <1>4 DEF Taken
<1> QED BY <1>2, <1>3, <1>4, <1>5

LEMMA InGrows ==
  ASSUME TcpType, TcpType', Grows, NEW h \in Hosts, NEW j, NEW t \in Tcbs, GoodIn(h, j, t)
  PROVE  GoodIn(h, j, t)'
<1>1. Peer(h) \in Hosts
  BY HostFacts
<1>2. /\ reached[Peer(h)] <= reached'[Peer(h)]
      /\ reached[Peer(h)] \in Nat /\ reached'[Peer(h)] \in Nat /\ Len(Stream(t)) \in Nat
  BY <1>1, StreamLen DEF Grows, TcpType
<1>3. FinSent(Peer(h)) => FinSent(Peer(h))'
  BY FinSentGrows DEF Grows
<1> QED BY <1>2, <1>3 DEF GoodIn

LEMMA InSame ==
  ASSUME NEW h, NEW j, NEW t, NEW u, GoodIn(h, j, t)',
         Stream(u) = Stream(t), FinIn(u) <=> FinIn(t), u.rcv = t.rcv
  PROVE  GoodIn(h, j, u)'
<1>1. Taken(u) = Taken(t)
  BY DEF Taken, Flag
<1> QED BY <1>1 DEF GoodIn

LEMMA InFin ==
  ASSUME NEW h \in Hosts, NEW j \in Nat, NEW t \in Tcbs, NEW u \in Tcbs, GoodIn(h, j, t)',
         Stream(u) = Stream(t), ~ FinIn(t), FinIn(u), u.rcv = Plus(t.rcv, 1),
         Len(Stream(t)) <= MaxWrite[Peer(h)], FinSent(Peer(h))'
  PROVE  GoodIn(h, j, u)'
<1> DEFINE k == Len(Stream(t))
<1>1. k \in Nat /\ Peer(h) \in Hosts /\ MaxWrite[Peer(h)] \in Nat
  BY StreamLen, HostFacts, BoundFacts
<1>2. Taken(t) = k /\ Taken(u) = k + 1
  BY <1>1 DEF Taken, Flag
<1>3. Plus(At(Peer(h), j, k), 1) = At(Peer(h), j, k + 1)
  <2> HIDE DEF k
  <2>1. k + 1 <= MaxWrite[Peer(h)] + 2
    BY <1>1 DEF k
  <2> QED BY <1>1, <2>1, AtNext
<1>4. t.rcv = At(Peer(h), j, k)
  BY <1>2 DEF GoodIn
<1>5. u.rcv = At(Peer(h), j, k + 1)
  BY <1>3, <1>4
<1> QED BY <1>2, <1>5 DEF GoodIn

LEMMA QueueSame ==
  ASSUME NEW h, NEW j, NEW t, NEW u, GoodQueue(h, j, t), Len(u.queue) = Len(t.queue),
         \A i \in 1 .. Len(t.queue) :
           u.queue[i].seq = t.queue[i].seq /\ u.queue[i].data = t.queue[i].data,
         wrote'[h] = wrote[h], reached'[h] = reached[h]
  PROVE  GoodQueue(h, j, u)'
<1>1. \A i \in 1 .. Len(u.queue) : Placed(h, j, u.queue[i].seq, u.queue[i].data)'
  BY DEF GoodQueue, Placed
<1>2. Kept(h, u)'
  BY DEF GoodQueue, Kept
<1> QED BY <1>1, <1>2 DEF GoodQueue

(* A segment that acknowledges what its sender t has taken.                *)
LEMMA OpenSegment ==
  ASSUME TcpType', NEW h \in Hosts, NEW j, NEW t \in Tcbs, GoodIn(h, j, t)', NEW seg,
         seg.from = h, seg.flags \in {{"ACK"}, {"FIN", "ACK"}}, seg.ack = t.rcv,
         seg.data # <<>> => Placed(h, j, seg.seq, seg.data)'
  PROVE  IsOpen(seg, j)'
<1> DEFINE p == Peer(h)
<1>1. p \in Hosts /\ reached'[p] \in Nat
  BY HostFacts DEF TcpType
<1>2. Taken(t) \in 0 .. reached'[p] + Flag(FinSent(p)')
  BY <1>1, StreamLen DEF GoodIn, Taken, Flag
<1>3. seg.ack = At(p, j, Taken(t))
  BY DEF GoodIn
<1> HIDE DEF p
<1>4. \E m \in 0 .. reached'[p] + Flag(FinSent(p)') : seg.ack = At(p, j, m)
  BY <1>2, <1>3
<1> QED BY <1>4 DEF IsOpen, p

LEMMA AcksStep ==
  ASSUME NEW h, NEW j, NEW t \in Tcbs, NEW u \in Tcbs, NEW S, GoodAcks(h, j, t),
         net' = net \union S, Taken(t) <= Taken(u),
         t.rcv = At(Peer(h), j, Taken(t)), u.rcv = At(Peer(h), j, Taken(u)),
         \A seg \in S : seg.ack \in {t.rcv, u.rcv}
  PROVE  GoodAcks(h, j, u)'
<1>1. Taken(t) \in Nat /\ Taken(u) \in Nat
  BY StreamLen
<1>2. ASSUME NEW seg \in net', Acks(seg, h)
      PROVE  \E m \in 0 .. Taken(u) : seg.ack = At(Peer(h), j, m)
  <2>1. CASE seg \in S
    <3>1. seg.ack = t.rcv \/ seg.ack = u.rcv
      BY <2>1
    <3> QED BY <1>1, <3>1
  <2>2. CASE seg \in net
    <3>1. PICK m \in 0 .. Taken(t) : seg.ack = At(Peer(h), j, m)
      BY <1>2, <2>2 DEF GoodAcks
    <3>2. m \in 0 .. Taken(u)
      BY <1>1
    <3> QED BY <3>1, <3>2
  <2> QED BY <2>1, <2>2
<1>3. \A seg : Acks(seg, h)' => Acks(seg, h)
  BY DEF Acks, IsRst, IsJunk
<1> QED BY <1>2, <1>3 DEF GoodAcks

(* A control block that was good and writes nothing.                       *)
LEMMA GoodStep ==
  ASSUME TcpType, NEW h \in Hosts, NEW j, NEW t \in Tcbs, NEW u \in Tcbs, NEW S,
         GoodTcb(h, j, t), net' = net \union S, wrote'[h] = wrote[h],
         GoodIn(h, j, u)', GoodQueue(h, j, u)', GoodFin(h, u)',
         u.nxt = t.nxt, FinOut(u) <=> FinOut(t),
         \E m \in 0 .. wrote[h] + Flag(FinOut(t)) : u.una = At(h, j, m),
         Taken(t) <= Taken(u),
         \A seg \in S : seg.ack \in {t.rcv, u.rcv} /\ "FIN" \notin seg.flags
  PROVE  GoodTcb(h, j, u)'
<1>1. Taken(t) \in Nat /\ Taken(u) \in Nat
  BY StreamLen
<1>2. GoodOut(h, j, u)'
  <2>1. Flag(FinOut(u)) = Flag(FinOut(t))
    BY DEF Flag
  <2>2. FinSent(h)' => FinSent(h)
    BY FinSentKept
  <2>3. GoodOut(h, j, t)
    BY DEF GoodTcb
  <2> QED BY <2>1, <2>2, <2>3 DEF GoodOut
<1>3. GoodAcks(h, j, u)'
  <2>1. t.rcv = At(Peer(h), j, Taken(t)) /\ u.rcv = At(Peer(h), j, Taken(u)) /\ GoodAcks(h, j, t)
    BY DEF GoodTcb, GoodIn
  <2> QED BY <2>1, AcksStep
<1> QED BY <1>2, <1>3 DEF GoodTcb
-----------------------------------------------------------------------------
(* The steps of a synchronised host, one lemma per action.                 *)
LEMMA SyncedFacts ==
  ASSUME TcpType, Common, NEW j \in 0 .. MaxIsn - 1, SyncedOn(j), NEW h \in Hosts, Synced(conn[h])
  PROVE  /\ j \in Nat /\ conn[h] \in Tcbs /\ GoodTcb(h, j, conn[h])
         /\ Peer(h) \in Hosts /\ Peer(h) # h
         /\ wrote[h] \in Nat /\ reached[h] \in Nat
         /\ wrote[h] <= MaxWrite[h] /\ reached[h] <= wrote[h] /\ MaxWrite[h] \in Nat
         /\ wrote[Peer(h)] \in Nat /\ reached[Peer(h)] \in Nat
         /\ reached[Peer(h)] <= wrote[Peer(h)] /\ wrote[Peer(h)] <= MaxWrite[Peer(h)]
         /\ MaxWrite[Peer(h)] \in Nat
         /\ Len(Stream(conn[h])) <= MaxWrite[Peer(h)]
<1>1. j \in Nat /\ conn[h] \in Tcbs /\ GoodTcb(h, j, conn[h]) /\ Peer(h) \in Hosts /\ Peer(h) # h
  BY ConnTcb, HostFacts DEF SyncedOn, Synced
<1>2. /\ wrote[h] \in Nat /\ reached[h] \in Nat
      /\ wrote[Peer(h)] \in Nat /\ reached[Peer(h)] \in Nat
  BY <1>1 DEF TcpType
<1>3. /\ wrote[h] <= MaxWrite[h] /\ reached[h] <= wrote[h]
      /\ reached[Peer(h)] <= wrote[Peer(h)] /\ wrote[Peer(h)] <= MaxWrite[Peer(h)]
  BY <1>1 DEF Common
<1>4. MaxWrite[h] \in Nat /\ MaxWrite[Peer(h)] \in Nat
  BY <1>1, BoundFacts
<1>5. Len(Stream(conn[h])) \in Nat /\ Len(Stream(conn[h])) <= reached[Peer(h)]
  BY <1>1, StreamLen DEF GoodTcb, GoodIn
<1>6. Len(Stream(conn[h])) <= MaxWrite[Peer(h)]
  BY <1>2, <1>3, <1>4, <1>5
<1> QED BY <1>1, <1>2, <1>3, <1>4, <1>6

(* Nothing is written and nothing new reaches a buffer.                    *)
LEMMA QuietStep ==
  ASSUME TcpType, TcpType', Common, NEW j \in 0 .. MaxIsn - 1, SyncedOn(j),
         NEW h \in Hosts, Synced(conn[h]), NEW u \in Tcbs \union {NoConn}, NEW S,
         conn' = [conn EXCEPT ![h] = u], net' = net \union S, \A seg \in S : seg.from = h,
         u # NoConn => Synced(u) /\ GoodTcb(h, j, u)',
         \A seg \in S : IsRst(seg) \/ IsOpen(seg, j)', UNCHANGED <<backlog, isns, wrote, reached>>
  PROVE  Common' /\ SyncedOn(j)'
<1>1. /\ wrote[h] \in Nat /\ reached[h] \in Nat
      /\ wrote[h] <= MaxWrite[h] /\ reached[Peer(h)] <= wrote[Peer(h)]
      /\ reached[Peer(h)] \in Nat
  BY SyncedFacts
<1>2. wrote' = wrote /\ reached' = reached
  OBVIOUS
<1>3. HostMoves(h, S)
  BY <1>1, <1>2 DEF HostMoves
<1>4. wrote[h] <= wrote'[h] /\ wrote'[h] <= MaxWrite[h] /\ reached'[Peer(h)] <= wrote[Peer(h)]
  BY <1>1, <1>2
<1> QED BY <1>3, <1>4, HostStep

(* The connection is dropped; at most a reset is sent.                     *)
LEMMA GoneStep ==
  ASSUME TcpType, TcpType', Common, NEW j \in 0 .. MaxIsn - 1, SyncedOn(j),
         NEW h \in Hosts, Synced(conn[h]), NEW S, conn' = [conn EXCEPT ![h] = NoConn],
         net' = net \union S, \A seg \in S : seg.from = h /\ IsRst(seg),
         UNCHANGED <<backlog, isns, wrote, reached>>
  PROVE  Common' /\ SyncedOn(j)'
<1>1. NoConn \in Tcbs \union {NoConn}
  OBVIOUS
<1>2. PICK u : u = NoConn
  OBVIOUS
<1> QED BY <1>1, <1>2, QuietStep

LEMMA FinKept ==
  ASSUME NEW h, NEW t, NEW u, GoodFin(h, t), net \subseteq net', u.nxt = t.nxt,
         u.state = t.state \/ u.state # "FinWait2"
  PROVE  GoodFin(h, u)'
<1>1. \A seg : Acks(seg, Peer(h)) => Acks(seg, Peer(h))'
  BY DEF Acks, IsRst, IsJunk
<1> QED BY <1>1 DEF GoodFin

LEMMA QuietGrows ==
  ASSUME TcpType, NEW S, net' = net \union S, UNCHANGED <<wrote, reached>> PROVE Grows
BY DEF Grows, TcpType

(* A control block that keeps its place in both streams.                   *)
LEMMA SameStep ==
  ASSUME TcpType, TcpType', Common, NEW j \in 0 .. MaxIsn - 1, SyncedOn(j),
         NEW h \in Hosts, Synced(conn[h]), NEW t \in Tcbs, t = conn[h], NEW u \in Tcbs, NEW S,
         conn' = [conn EXCEPT ![h] = u], net' = net \union S,
         UNCHANGED <<backlog, isns, wrote, reached>>,
         Stream(u) = Stream(t), u.rcv = t.rcv, u.nxt = t.nxt, FinIn(u) <=> FinIn(t),
         FinOut(u) <=> FinOut(t), u.una = t.una \/ u.una = t.nxt, Len(u.queue) = Len(t.queue),
         \A i \in 1 .. Len(t.queue) :
           u.queue[i].seq = t.queue[i].seq /\ u.queue[i].data = t.queue[i].data,
         u.state \notin {"SynSent", "SynReceived"}, GoodFin(h, u)',
         \A seg \in S : /\ seg.from = h /\ seg.flags = {"ACK"} /\ seg.ack = t.rcv
                        /\ seg.data # <<>> => Placed(h, j, seg.seq, seg.data)
  PROVE  Common' /\ SyncedOn(j)'
<1>1. /\ j \in Nat /\ GoodTcb(h, j, t) /\ wrote[h] \in Nat /\ Flag(FinOut(t)) \in {0, 1}
  BY SyncedFacts, StreamLen
<1>2. Grows
  BY QuietGrows
<1>3. GoodIn(h, j, t)'
  BY <1>1, <1>2, InGrows DEF GoodTcb
<1>4. GoodIn(h, j, u)'
  BY <1>3, InSame
<1>5. GoodQueue(h, j, u)'
  BY <1>1, QueueSame DEF GoodTcb
<1>6. \E m \in 0 .. wrote[h] + Flag(FinOut(t)) : u.una = At(h, j, m)
  BY <1>1 DEF GoodTcb, GoodOut
<1>7. Taken(u) = Taken(t) /\ Taken(t) \in Nat
  BY StreamLen DEF Taken, Flag
<1>8. GoodTcb(h, j, u)'
  <2>1. wrote'[h] = wrote[h] /\ Taken(t) <= Taken(u)
    BY <1>7
  <2>2. \A seg \in S : seg.ack \in {t.rcv, u.rcv} /\ "FIN" \notin seg.flags
    OBVIOUS
  <2> QED BY <1>1, <1>4, <1>5, <1>6, <2>1, <2>2, GoodStep
<1>9. ASSUME NEW seg \in S PROVE IsOpen(seg, j)'
  <2>1. seg.data # <<>> => Placed(h, j, seg.seq, seg.data)'
    BY DEF Placed
  <2> QED BY <1>3, <2>1, OpenSegment
<1>10. u # NoConn => Synced(u)
  BY DEF Synced
<1> QED BY <1>8, <1>9, <1>10, QuietStep
LEMMA RecvSynced ==
  ASSUME TcpType, TcpType', Common, NEW j \in 0 .. MaxIsn - 1, SyncedOn(j),
         NEW h \in Hosts, Synced(conn[h]), Recv(h)
  PROVE  Common' /\ SyncedOn(j)'
<1>1. PICK t : t = conn[h]
  OBVIOUS
<1>2. t \in Tcbs /\ GoodTcb(h, j, t) /\ Synced(t)
  BY <1>1, SyncedFacts
<1>3. t.read \in Data /\ t.buffer \in Data
  BY <1>2, TcbFields
<1> DEFINE s == t.read \o t.buffer
           u == [t EXCEPT !.read = s, !.buffer = <<>>]
<1>4. s \in Data /\ s \o <<>> = s
  BY <1>3 DEF Data
<1>5. conn' = [conn EXCEPT ![h] = u] /\ UNCHANGED <<backlog, isns, net, wrote, reached>>
  BY <1>1 DEF Recv, TcpType
<1> HIDE DEF s
<1>6. /\ u \in Tcbs /\ u.read = s /\ u.buffer = <<>> /\ u.state = t.state /\ u.rcv = t.rcv
      /\ u.nxt = t.nxt /\ u.una = t.una /\ u.queue = t.queue
  BY <1>2, <1>4, ZeroType, TcbRecord
<1> HIDE DEF u
<1>7. Stream(u) = Stream(t)
  BY <1>4, <1>6 DEF Stream, s
<1>8. (FinIn(u) <=> FinIn(t)) /\ (FinOut(u) <=> FinOut(t)) /\ u.state \notin {"SynSent", "SynReceived"}
  BY <1>2, <1>6 DEF FinIn, FinOut, Synced
<1>9. GoodFin(h, u)'
  BY <1>2, <1>5, <1>6, FinKept DEF GoodTcb
<1> DEFINE S == {}
<1>10. net' = net \union S
  BY <1>5
<1>11. \A seg \in S : FALSE
  OBVIOUS
<1> HIDE DEF S
<1> QED BY <1>1, <1>2, <1>5, <1>6, <1>7, <1>8, <1>9, <1>10, <1>11, SameStep

LEMMA ClosingSynced ==
  ASSUME TcpType, TcpType', Common, NEW j \in 0 .. MaxIsn - 1, SyncedOn(j),
         NEW h \in Hosts, Synced(conn[h]), NEW seg, SegClosing(h, seg)
  PROVE  Common' /\ SyncedOn(j)'
<1>1. PICK t : t = conn[h]
  OBVIOUS
<1>2. t \in Tcbs /\ GoodTcb(h, j, t) /\ t.state = "Closing"
  BY <1>1, SyncedFacts DEF SegClosing, Receives
<1> DEFINE u == [t EXCEPT !.state = "TimeWait"]
<1>3. conn' = [conn EXCEPT ![h] = u] /\ UNCHANGED <<backlog, isns, net, wrote, reached>>
  BY <1>1 DEF SegClosing, TcpType
<1>4. /\ u \in Tcbs /\ u.read = t.read /\ u.buffer = t.buffer /\ u.state = "TimeWait"
      /\ u.rcv = t.rcv /\ u.nxt = t.nxt /\ u.una = t.una /\ u.queue = t.queue
  BY <1>2, TcbRecord DEF States
<1> HIDE DEF u
<1>5. /\ (FinIn(u) <=> FinIn(t)) /\ (FinOut(u) <=> FinOut(t)) /\ Stream(u) = Stream(t)
      /\ u.state \notin {"SynSent", "SynReceived"}
  BY <1>2, <1>4 DEF FinIn, FinOut, Stream
<1>6. GoodFin(h, u)'
  BY <1>2, <1>3, <1>4, FinKept DEF GoodTcb
<1> DEFINE S == {}
<1>7. net' = net \union S
  BY <1>3
<1>8. \A x \in S : FALSE
  OBVIOUS
<1> HIDE DEF S
<1> QED BY <1>1, <1>2, <1>3, <1>4, <1>5, <1>6, <1>7, <1>8, SameStep

LEMMA TimeWaitSynced ==
  ASSUME TcpType, TcpType', Common, NEW j \in 0 .. MaxIsn - 1, SyncedOn(j),
         NEW h \in Hosts, Synced(conn[h]), NEW seg, SegTimeWait(h, seg)
  PROVE  Common' /\ SyncedOn(j)'
<1>1. PICK t : t = conn[h]
  OBVIOUS
<1>2. t \in Tcbs /\ GoodTcb(h, j, t) /\ t.state = "TimeWait"
  BY <1>1, SyncedFacts DEF SegTimeWait, Receives
<1> DEFINE S == {AckOf(h, t)}
<1>3. net' = net \union S /\ UNCHANGED <<conn, backlog, isns, wrote, reached>>
  BY <1>1 DEF SegTimeWait
<1>4. conn' = [conn EXCEPT ![h] = t]
  BY <1>1, <1>3 DEF TcpType
<1>5. GoodFin(h, t)'
  BY <1>2, <1>3, FinKept DEF GoodTcb
<1>6. \A x \in S : /\ x.from = h /\ x.flags = {"ACK"} /\ x.ack = t.rcv /\ x.data = <<>>
  BY DEF AckOf, Segment
<1> HIDE DEF S
<1>7. /\ Stream(t) = Stream(t) /\ (FinIn(t) <=> FinIn(t)) /\ (FinOut(t) <=> FinOut(t))
      /\ t.state \notin {"SynSent", "SynReceived"}
  BY <1>2
<1>8. \A x \in S : /\ x.from = h /\ x.flags = {"ACK"} /\ x.ack = t.rcv
                   /\ x.data # <<>> => Placed(h, j, x.seq, x.data)
  BY <1>6
<1> QED BY <1>1, <1>2, <1>3, <1>4, <1>5, <1>7, <1>8, SameStep

LEMMA RetransmitSynced ==
  ASSUME TcpType, TcpType', Common, NEW j \in 0 .. MaxIsn - 1, SyncedOn(j),
         NEW h \in Hosts, Synced(conn[h]), NEW i, Retransmit(h, i)
  PROVE  Common' /\ SyncedOn(j)'
<1>1. PICK t : t = conn[h]
  OBVIOUS
<1>2. t \in Tcbs /\ GoodTcb(h, j, t) /\ Synced(t)
  BY <1>1, SyncedFacts
<1>3. t.queue \in Queues /\ i \in 1 .. Len(t.queue) /\ UNCHANGED <<backlog, isns, wrote, reached>>
  BY <1>1, <1>2, TcbFields DEF Retransmit
<1> DEFINE e == t.queue[i]
<1>4. e \in Entries /\ Placed(h, j, e.seq, e.data)
  BY <1>2, <1>3 DEF Queues, GoodTcb, GoodQueue
<1>5. CASE e.count >= MAX_RETRANSMIT
  <2> DEFINE S == {Segment(h, t.nxt, t.rcv, {"RST"}, <<>>)}
  <2>1. conn' = [conn EXCEPT ![h] = NoConn] /\ net' = net \union S
    BY <1>1, <1>5 DEF Retransmit
  <2>2. \A x \in S : x.from = h /\ IsRst(x)
    BY DEF IsRst, Segment
  <2> HIDE DEF S
  <2> QED BY <1>3, <2>1, <2>2, GoneStep
<1>6. CASE ~ (e.count >= MAX_RETRANSMIT)
  <2> DEFINE f == [e EXCEPT !.count = Counted(e.count)]
             q == [t.queue EXCEPT ![i] = f]
             u == [t EXCEPT !.queue = q]
             S == {Segment(h, e.seq, t.rcv, {"ACK"}, e.data)}
  <2>1. conn' = [conn EXCEPT ![h] = u] /\ net' = net \union S
    BY <1>1, <1>6 DEF Retransmit, TcpType
  <2>2. f \in Entries /\ f.seq = e.seq /\ f.data = e.data
    BY <1>4 DEF Entries, Counted
  <2> HIDE DEF f
  <2>3. q \in Queues /\ Len(q) = Len(t.queue) /\ \A x \in 1 .. Len(q) : q[x] = IF x = i THEN f ELSE t.queue[x]
    BY <1>3, <2>2 DEF Queues
  <2> HIDE DEF q
  <2>4. /\ u \in Tcbs /\ u.read = t.read /\ u.buffer = t.buffer /\ u.state = t.state
        /\ u.rcv = t.rcv /\ u.nxt = t.nxt /\ u.una = t.una /\ u.queue = q
    BY <1>2, <2>3, TcbRecord
  <2> HIDE DEF u
  <2>5. /\ (FinIn(u) <=> FinIn(t)) /\ (FinOut(u) <=> FinOut(t)) /\ Stream(u) = Stream(t)
        /\ u.state \notin {"SynSent", "SynReceived"}
    BY <1>2, <2>4 DEF FinIn, FinOut, Stream, Synced
  <2>6. GoodFin(h, u)'
    BY <1>2, <2>1, <2>4, FinKept DEF GoodTcb
  <2>7. \A x \in 1 .. Len(t.queue) :
          u.queue[x].seq = t.queue[x].seq /\ u.queue[x].data = t.queue[x].data
    BY <2>2, <2>3, <2>4
  <2>8. \A x \in S : /\ x.from = h /\ x.flags = {"ACK"} /\ x.ack = t.rcv
                     /\ x.data # <<>> => Placed(h, j, x.seq, x.data)
    BY <1>4 DEF Segment
  <2>9. Len(u.queue) = Len(t.queue)
    BY <2>3, <2>4
  <2> HIDE DEF S
  <2> QED BY <1>1, <1>2, <1>3, <2>1, <2>4, <2>5, <2>6, <2>7, <2>8, <2>9, SameStep
<1> QED BY <1>5, <1>6
LEMMA CloseSynced ==
  ASSUME TcpType, TcpType', Common, NEW j \in 0 .. MaxIsn - 1, SyncedOn(j),
         NEW h \in Hosts, Synced(conn[h]), Close(h)
  PROVE  Common' /\ SyncedOn(j)'
<1>1. PICK t : t = conn[h]
  OBVIOUS
<1>2. /\ t \in Tcbs /\ GoodTcb(h, j, t) /\ t.state \in {"Established", "CloseWait"}
      /\ j \in Nat /\ wrote[h] \in Nat /\ wrote[h] <= MaxWrite[h] /\ MaxWrite[h] \in Nat
  BY <1>1, SyncedFacts DEF Close
<1> DEFINE s == IF t.state = "Established" THEN "FinWait1" ELSE "LastAck"
           n == Plus(t.nxt, 1)
           u == [t EXCEPT !.nxt = n, !.state = s]
           f == Segment(h, t.nxt, t.rcv, {"FIN", "ACK"}, <<>>)
           S == {f}
<1>3. conn' = [conn EXCEPT ![h] = u] /\ net' = net \union S /\ UNCHANGED <<backlog, isns, wrote, reached>>
  BY <1>1 DEF Close, TcpType
<1>4. ~ FinOut(t) /\ Flag(FinOut(t)) = 0
  BY <1>2 DEF FinOut, Flag
<1>5. t.nxt = At(h, j, wrote[h])
  BY <1>2, <1>4 DEF GoodTcb, GoodOut
<1>6. n = At(h, j, wrote[h] + 1)
  <2>1. wrote[h] + 1 <= MaxWrite[h] + 2
    BY <1>2
  <2> QED BY <1>2, <1>5, <2>1, ZeroType, AtNext
<1>7. n \in SeqNums
  BY <1>2, <1>6, wrote[h] + 1 \in Nat, AtType
<1> HIDE DEF n
<1>8. /\ u \in Tcbs /\ u.read = t.read /\ u.buffer = t.buffer /\ u.state = s
      /\ u.rcv = t.rcv /\ u.nxt = n /\ u.una = t.una /\ u.queue = t.queue
  BY <1>2, <1>7, TcbRecord DEF States
<1> HIDE DEF u
<1>9. /\ (FinIn(u) <=> FinIn(t)) /\ FinOut(u) /\ Stream(u) = Stream(t) /\ Flag(FinOut(u)) = 1
      /\ u.state \notin {"SynSent", "SynReceived", "FinWait2"}
  BY <1>2, <1>8 DEF FinIn, FinOut, Stream, Flag
<1> HIDE DEF s
<1>10. GoodIn(h, j, t)'
  <2>1. Grows
    BY <1>3, QuietGrows
  <2> QED BY <1>2, <2>1, InGrows DEF GoodTcb
<1>11. GoodIn(h, j, u)'
  BY <1>8, <1>9, <1>10, InSame
<1>12. GoodOut(h, j, u)'
  <2>1. wrote' = wrote
    BY <1>3
  <2>2. PICK m \in 0 .. wrote[h] : t.una = At(h, j, m)
    BY <1>2, <1>4 DEF GoodTcb, GoodOut
  <2>3. m \in 0 .. wrote[h] + 1
    BY <1>2
  <2> QED BY <1>6, <1>8, <1>9, <2>1, <2>2, <2>3 DEF GoodOut
<1>13. GoodQueue(h, j, u)'
  BY <1>2, <1>3, <1>8, QueueSame DEF GoodTcb
<1>14. f.from = h /\ f.ack = t.rcv /\ f.flags = {"FIN", "ACK"} /\ f.data = <<>>
  BY DEF Segment
<1> HIDE DEF f, S
<1>15. GoodAcks(h, j, u)'
  <2>1. Taken(u) = Taken(t) /\ Taken(t) \in Nat
    BY <1>2, <1>9, StreamLen DEF Taken, Flag
  <2>2. t.rcv = At(Peer(h), j, Taken(t)) /\ u.rcv = At(Peer(h), j, Taken(u)) /\ GoodAcks(h, j, t)
        /\ Taken(t) <= Taken(u)
    BY <1>2, <1>8, <2>1 DEF GoodTcb, GoodIn
  <2>3. \A seg \in S : seg.ack \in {t.rcv, u.rcv}
    BY <1>14 DEF S
  <2> QED BY <1>2, <1>3, <1>8, <2>2, <2>3, AcksStep
<1>16. GoodFin(h, u)'
  BY <1>9 DEF GoodFin
<1>17. GoodTcb(h, j, u)'
  BY <1>11, <1>12, <1>13, <1>15, <1>16 DEF GoodTcb
<1>18. IsOpen(f, j)'
  BY <1>2, <1>10, <1>14, OpenSegment
<1>19. u # NoConn => Synced(u)
  BY <1>9 DEF Synced
<1>20. \A seg \in S : seg.from = h /\ IsOpen(seg, j)'
  BY <1>14, <1>18 DEF S
<1> QED BY <1>3, <1>8, <1>17, <1>19, <1>20, QuietStep

LEMMA SendSynced ==
  ASSUME TcpType, TcpType', Common, NEW j \in 0 .. MaxIsn - 1, SyncedOn(j),
         NEW h \in Hosts, Synced(conn[h]), NEW n \in 1 .. Mss, Send(h, n)
  PROVE  Common' /\ SyncedOn(j)'
<1>1. PICK t : t = conn[h]
  OBVIOUS
<1>2. PICK w : w = wrote[h]
  OBVIOUS
<1>3. /\ t \in Tcbs /\ GoodTcb(h, j, t) /\ t.state \in {"Established", "CloseWait"} /\ Mss \in Nat
      /\ j \in Nat /\ w \in Nat /\ w + n <= MaxWrite[h] /\ MaxWrite[h] \in Nat /\ Peer(h) \in Hosts
      /\ Peer(h) # h /\ reached[Peer(h)] <= wrote[Peer(h)] /\ reached[h] \in Nat
      /\ reached[Peer(h)] \in Nat
  BY <1>1, <1>2, SyncedFacts, BoundFacts DEF Send
<1>4. n \in Nat /\ n > 0
  BY <1>3
<1> DEFINE data == [x \in 1 .. n |-> w + x]
           e == Entry(t.nxt, data)
           q == Append(t.queue, e)
           m == Plus(t.nxt, n)
           u == [t EXCEPT !.nxt = m, !.queue = q]
           f == Segment(h, t.nxt, t.rcv, {"ACK"}, data)
           S == {f}
<1>5. /\ conn' = [conn EXCEPT ![h] = u] /\ net' = net \union S
      /\ wrote' = [wrote EXCEPT ![h] = w + n] /\ UNCHANGED <<backlog, isns, reached>>
  BY <1>1, <1>2 DEF Send, TcpType
<1>6. ~ FinOut(t) /\ Flag(FinOut(t)) = 0
  BY <1>3 DEF FinOut, Flag
<1>7. t.nxt = At(h, j, w)
  BY <1>2, <1>3, <1>6 DEF GoodTcb, GoodOut
<1>8. m = At(h, j, w + n) /\ m \in SeqNums
  <2>1. w + n <= MaxWrite[h] + 2 /\ w + n \in Nat
    BY <1>3, <1>4
  <2> QED BY <1>3, <1>4, <1>7, <2>1, AtNext, AtType
<1> HIDE DEF m
<1>9. wrote'[h] = w + n /\ wrote'[Peer(h)] = wrote[Peer(h)]
  BY <1>3, <1>5 DEF TcpType
<1>10. data \in Data /\ Len(data) = n /\ Bytes(data, w)
  <2>0. \A x \in 1 .. n : w + x \in Nat \union {Junk}
    BY <1>3, <1>4
  <2>1. data \in Data
    BY <1>4, <2>0 DEF Data
  <2>2. Len(data) = n
    BY <1>3, <1>4
  <2>3. \A x \in 1 .. n : data[x] = w + x
    OBVIOUS
  <2> QED BY <2>1, <2>2, <2>3 DEF Bytes
<1>11. Placed(h, j, t.nxt, data)'
  <2>1. w \in 0 .. wrote'[h] /\ w + Len(data) <= wrote'[h]
    BY <1>3, <1>4, <1>9, <1>10
  <2> HIDE DEF data
  <2>2. Bytes(data, w)' /\ (t.nxt = At(h, j, w))'
    BY <1>7, <1>10 DEF Bytes
  <2> QED BY <2>1, <2>2 DEF Placed
<1> HIDE DEF data
<1>12. e \in Entries /\ e.seq = t.nxt /\ e.data = data
  BY <1>3, <1>10, TcbFields DEF Entry, Entries
<1> HIDE DEF e
<1>13. t.queue \in Queues /\ q \in Queues /\ Len(q) = Len(t.queue) + 1 /\ Len(t.queue) \in Nat
       /\ q[Len(t.queue) + 1] = e /\ \A x \in 1 .. Len(t.queue) : q[x] = t.queue[x]
  BY <1>3, <1>12, TcbFields DEF Queues
<1> HIDE DEF q
<1>14. /\ u \in Tcbs /\ u.read = t.read /\ u.buffer = t.buffer /\ u.state = t.state
       /\ u.rcv = t.rcv /\ u.nxt = m /\ u.una = t.una /\ u.queue = q
  BY <1>3, <1>8, <1>13, TcbRecord
<1> HIDE DEF u
<1>15. /\ (FinIn(u) <=> FinIn(t)) /\ ~ FinOut(u) /\ Stream(u) = Stream(t) /\ Flag(FinOut(u)) = 0
       /\ u.state \notin {"SynSent", "SynReceived", "FinWait2"}
  BY <1>3, <1>14 DEF FinIn, FinOut, Stream, Flag
<1>16. GoodIn(h, j, t)'
  <2>1. \A g \in Hosts : wrote[g] <= wrote'[g] /\ reached[g] <= reached'[g]
    BY <1>2, <1>3, <1>4, <1>5 DEF TcpType
  <2>2. Grows
    BY <1>5, <2>1 DEF Grows
  <2> QED BY <1>3, <2>2, InGrows DEF GoodTcb
<1>17. GoodIn(h, j, u)'
  BY <1>14, <1>15, <1>16, InSame
<1>18. f.from = h /\ f.seq = t.nxt /\ f.ack = t.rcv /\ f.flags = {"ACK"} /\ f.data = data
  BY DEF Segment
<1> HIDE DEF f, S
<1>19. GoodOut(h, j, u)'
  <2>1. PICK x \in 0 .. w : t.una = At(h, j, x)
    BY <1>2, <1>3, <1>6 DEF GoodTcb, GoodOut
  <2>2. x \in 0 .. wrote'[h] + Flag(FinOut(u))
    BY <1>3, <1>4, <1>9, <1>15
  <2>3. u.nxt = At(h, j, wrote'[h] + Flag(FinOut(u)))
    BY <1>3, <1>4, <1>8, <1>9, <1>14, <1>15
  <2>4. ~ FinSent(h)'
    <3>1. ~ FinSent(h)
      BY <1>3, <1>6 DEF GoodTcb, GoodOut
    <3>2. \A seg \in S : seg.from = h => "FIN" \notin seg.flags
      BY <1>18 DEF S
    <3> QED BY <1>5, <3>1, <3>2, FinSentKept
  <2> QED BY <1>14, <2>1, <2>2, <2>3, <2>4 DEF GoodOut
<1>20. GoodQueue(h, j, u)'
  <2>1. ASSUME NEW x \in 1 .. Len(q) PROVE Placed(h, j, q[x].seq, q[x].data)'
    <3>1. CASE x = Len(t.queue) + 1
      BY <1>11, <1>12, <1>13, <3>1
    <3>2. CASE x \in 1 .. Len(t.queue)
      <4>1. q[x] = t.queue[x] /\ Placed(h, j, q[x].seq, q[x].data)
        BY <1>3, <1>13, <3>2 DEF GoodTcb, GoodQueue
      <4>2. q[x] \in Entries
        BY <1>13 DEF Queues
      <4>3. q[x].data \in Data /\ wrote[h] <= wrote'[h]
        BY <1>2, <1>3, <1>4, <1>9, <4>2 DEF Entries
      <4> QED BY <4>1, <4>3, PlacedGrows
    <3> QED BY <1>13, <3>1, <3>2
  <2>2. ASSUME NEW b \in 1 .. w + n
        PROVE  \/ b <= reached[h]
               \/ \E x \in 1 .. Len(q) : \E k \in 1 .. Len(q[x].data) : q[x].data[k] = b
    <3>1. CASE b \in 1 .. w
      <4>1. Kept(h, t)
        BY <1>3 DEF GoodTcb, GoodQueue
      <4>2. CASE b <= reached[h]
        BY <4>2
      <4>3. CASE ~ (b <= reached[h])
        <5>1. PICK x \in 1 .. Len(t.queue) :
                \E k \in 1 .. Len(t.queue[x].data) : t.queue[x].data[k] = b
          BY <1>2, <3>1, <4>1, <4>3 DEF Kept
        <5>2. x \in 1 .. Len(q) /\ q[x] = t.queue[x]
          BY <1>13
        <5> QED BY <5>1, <5>2
      <4> QED BY <4>2, <4>3
    <3>2. CASE b \in w + 1 .. w + n
      <4> DEFINE k == b - w
      <4>1. k \in 1 .. n /\ w + k = b /\ k \in 1 .. Len(data)
        BY <1>3, <1>4, <1>10, <3>2
      <4>2. data[k] = b
        BY <1>10, <4>1 DEF Bytes
      <4>3. Len(q) \in 1 .. Len(q) /\ q[Len(q)].data = data
        BY <1>12, <1>13
      <4> HIDE DEF k
      <4> QED BY <4>1, <4>2, <4>3
    <3> QED BY <1>3, <1>4, <3>1, <3>2
  <2>3. Kept(h, u)'
    BY <1>5, <1>9, <1>14, <2>2 DEF Kept
  <2> QED BY <1>14, <2>1, <2>3 DEF GoodQueue
<1>21. GoodAcks(h, j, u)'
  <2>1. Taken(u) = Taken(t) /\ Taken(t) \in Nat
    BY <1>3, <1>15, StreamLen DEF Taken, Flag
  <2>2. t.rcv = At(Peer(h), j, Taken(t)) /\ u.rcv = At(Peer(h), j, Taken(u)) /\ GoodAcks(h, j, t)
        /\ Taken(t) <= Taken(u)
    BY <1>3, <1>14, <2>1 DEF GoodTcb, GoodIn
  <2>3. \A seg \in S : seg.ack \in {t.rcv, u.rcv}
    BY <1>18 DEF S
  <2> QED BY <1>3, <1>5, <1>14, <2>2, <2>3, AcksStep
<1>22. GoodFin(h, u)'
  BY <1>15 DEF GoodFin
<1>23. GoodTcb(h, j, u)'
  BY <1>17, <1>19, <1>20, <1>21, <1>22 DEF GoodTcb
<1>24. IsOpen(f, j)'
  BY <1>3, <1>11, <1>16, <1>18, OpenSegment
<1>25. u # NoConn => Synced(u)
  BY <1>15 DEF Synced
<1>26. HostMoves(h, S)
  <2>1. \A seg \in S : seg.from = h
    BY <1>18 DEF S
  <2> QED BY <1>3, <1>5, <1>9, <2>1 DEF HostMoves
<1>27. /\ wrote[h] <= wrote'[h] /\ wrote'[h] <= MaxWrite[h] /\ reached'[Peer(h)] <= wrote[Peer(h)]
       /\ u \in Tcbs \union {NoConn} /\ UNCHANGED <<backlog, isns>>
       /\ \A seg \in S : IsOpen(seg, j)'
  BY <1>2, <1>3, <1>4, <1>5, <1>9, <1>14, <1>24 DEF S
<1> QED BY <1>5, <1>23, <1>25, <1>26, <1>27, HostStep
(* The peer's FIN is taken and acknowledged.                               *)
LEMMA FinStep ==
  ASSUME TcpType, TcpType', Common, NEW j \in 0 .. MaxIsn - 1, SyncedOn(j),
         NEW h \in Hosts, Synced(conn[h]), NEW t \in Tcbs, t = conn[h], NEW u \in Tcbs,
         conn' = [conn EXCEPT ![h] = u], net' = net \union {AckOf(h, u)},
         UNCHANGED <<backlog, isns, wrote, reached>>,
         Stream(u) = Stream(t), u.rcv = Plus(t.rcv, 1), u.nxt = t.nxt, ~ FinIn(t), FinIn(u),
         FinOut(u) <=> FinOut(t), u.una = t.una \/ u.una = t.nxt, u.queue = t.queue,
         u.state \notin {"SynSent", "SynReceived", "FinWait2"},
         NEW seg \in net, seg.from = Peer(h), "FIN" \in seg.flags
  PROVE  Common' /\ SyncedOn(j)'
<1> DEFINE f == AckOf(h, u)
           S == {f}
<1>1. f.from = h /\ f.flags = {"ACK"} /\ f.ack = u.rcv /\ f.data = <<>>
  BY DEF AckOf, Segment
<1>2. net' = net \union S
  OBVIOUS
<1> HIDE DEF f, S
<1>3. /\ j \in Nat /\ GoodTcb(h, j, t) /\ wrote[h] \in Nat /\ Flag(FinOut(t)) \in {0, 1}
      /\ Len(Stream(t)) <= MaxWrite[Peer(h)]
  BY SyncedFacts, StreamLen
<1>4. GoodIn(h, j, t)'
  <2>1. Grows
    BY <1>2, QuietGrows
  <2> QED BY <1>3, <2>1, InGrows DEF GoodTcb
<1>5. FinSent(Peer(h))'
  BY <1>2 DEF FinSent
<1>6. GoodIn(h, j, u)'
  BY <1>3, <1>4, <1>5, InFin
<1>7. GoodQueue(h, j, u)'
  BY <1>3, QueueSame DEF GoodTcb
<1>8. GoodFin(h, u)'
  BY DEF GoodFin
<1>9. \E m \in 0 .. wrote[h] + Flag(FinOut(t)) : u.una = At(h, j, m)
  BY <1>3 DEF GoodTcb, GoodOut
<1>10. Taken(t) <= Taken(u) /\ wrote'[h] = wrote[h]
  BY StreamLen DEF Taken, Flag
<1>11. \A x \in S : x.ack \in {t.rcv, u.rcv} /\ "FIN" \notin x.flags /\ x.from = h
  BY <1>1 DEF S
<1>12. GoodTcb(h, j, u)'
  BY <1>2, <1>3, <1>6, <1>7, <1>8, <1>9, <1>10, <1>11, GoodStep
<1>13. IsOpen(f, j)'
  BY <1>1, <1>6, OpenSegment
<1>14. (\A x \in S : IsOpen(x, j)') /\ (u # NoConn => Synced(u))
  BY <1>13 DEF S, Synced
<1> QED BY <1>2, <1>11, <1>12, <1>14, QuietStep

LEMMA FinWait2Synced ==
  ASSUME TcpType, TcpType', Common, NEW j \in 0 .. MaxIsn - 1, SyncedOn(j),
         NEW h \in Hosts, Synced(conn[h]), NEW seg, SegFinWait2(h, seg)
  PROVE  Common' /\ SyncedOn(j)'
<1>1. PICK t : t = conn[h]
  OBVIOUS
<1>2. t \in Tcbs /\ t.state = "FinWait2"
  BY <1>1, SyncedFacts DEF SegFinWait2, Receives
<1> DEFINE u == FinSeen(t, "TimeWait")
<1>3. conn' = [conn EXCEPT ![h] = u] /\ net' = net \union {AckOf(h, u)}
      /\ UNCHANGED <<backlog, isns, wrote, reached>>
  BY <1>1 DEF SegFinWait2
<1>4. u \in Tcbs
  BY <1>2, FinSeenType DEF States
<1>5. /\ u.read = t.read /\ u.buffer = t.buffer /\ u.state = "TimeWait"
      /\ u.rcv = Plus(t.rcv, 1) /\ u.nxt = t.nxt /\ u.una = t.una /\ u.queue = t.queue
  BY <1>2, TcbRecord DEF FinSeen
<1> HIDE DEF u
<1>6. /\ ~ FinIn(t) /\ FinIn(u) /\ (FinOut(u) <=> FinOut(t)) /\ Stream(u) = Stream(t)
      /\ u.state \notin {"SynSent", "SynReceived", "FinWait2"}
  BY <1>2, <1>5 DEF FinIn, FinOut, Stream
<1>7. seg \in net /\ seg.from = Peer(h) /\ "FIN" \in seg.flags
  BY DEF SegFinWait2, Receives, Arrives
<1> QED BY <1>1, <1>2, <1>3, <1>4, <1>5, <1>6, <1>7, FinStep

LEMMA FinWait1Synced ==
  ASSUME TcpType, TcpType', Common, NEW j \in 0 .. MaxIsn - 1, SyncedOn(j),
         NEW h \in Hosts, Synced(conn[h]), NEW seg, SegFinWait1(h, seg)
  PROVE  Common' /\ SyncedOn(j)'
<1>1. PICK t : t = conn[h]
  OBVIOUS
<1>2. /\ t \in Tcbs /\ t.state = "FinWait1" /\ GoodTcb(h, j, t) /\ wrote[h] \in Nat
      /\ wrote[h] <= MaxWrite[h] /\ MaxWrite[h] \in Nat
  BY <1>1, SyncedFacts DEF SegFinWait1, Receives
<1>3. seg \in net /\ seg.from = Peer(h) /\ "RST" \notin seg.flags /\ seg.ack \in SeqNums
  BY SegmentFields DEF SegFinWait1, Receives, Arrives, TcpType
<1> DEFINE v == IF FinAcked(t, seg) THEN [t EXCEPT !.una = seg.ack, !.state = "FinWait2"] ELSE t
           s == IF v.state = "FinWait2" THEN "TimeWait" ELSE "Closing"
           u == FinSeen(v, s)
<1>4. /\ UNCHANGED <<backlog, isns, wrote, reached>>
      /\ IF "FIN" \in seg.flags THEN conn' = [conn EXCEPT ![h] = u] /\ net' = net \union {AckOf(h, u)}
         ELSE conn' = [conn EXCEPT ![h] = v] /\ net' = net
  BY <1>1 DEF SegFinWait1
<1>5. /\ v \in Tcbs /\ v.read = t.read /\ v.buffer = t.buffer /\ v.state \in {"FinWait1", "FinWait2"}
      /\ v.rcv = t.rcv /\ v.nxt = t.nxt /\ v.queue = t.queue
      /\ v.una = t.una \/ v.una = t.nxt
      /\ v.state = "FinWait2" => FinAcked(t, seg)
  <2>1. CASE FinAcked(t, seg)
    <3>1. seg.ack = t.nxt
      BY <2>1 DEF FinAcked
    <3> QED BY <1>2, <1>3, <2>1, <3>1, TcbRecord DEF States
  <2>2. CASE ~ FinAcked(t, seg)
    BY <1>2, <2>2
  <2> QED BY <2>1, <2>2
<1> HIDE DEF v
<1>6. CASE "FIN" \in seg.flags
  <2>1. u \in Tcbs
    BY <1>5, FinSeenType DEF States
  <2>2. /\ u.read = t.read /\ u.buffer = t.buffer /\ u.state = s
        /\ u.rcv = Plus(t.rcv, 1) /\ u.nxt = t.nxt /\ u.queue = t.queue
        /\ u.una = t.una \/ u.una = t.nxt
    BY <1>5, TcbRecord DEF FinSeen
  <2> HIDE DEF u
  <2>3. /\ ~ FinIn(t) /\ FinIn(u) /\ (FinOut(u) <=> FinOut(t)) /\ Stream(u) = Stream(t)
        /\ u.state \notin {"SynSent", "SynReceived", "FinWait2"}
    BY <1>2, <2>2 DEF FinIn, FinOut, Stream
  <2> QED BY <1>1, <1>2, <1>3, <1>4, <1>6, <2>1, <2>2, <2>3, FinStep
<1>7. CASE "FIN" \notin seg.flags
  <2>1. /\ (FinIn(v) <=> FinIn(t)) /\ (FinOut(v) <=> FinOut(t)) /\ Stream(v) = Stream(t)
        /\ v.state \notin {"SynSent", "SynReceived"} /\ FinOut(t)
    BY <1>2, <1>5 DEF FinIn, FinOut, Stream
  <2>2. t.nxt = At(h, j, wrote[h] + 1)
    BY <1>2, <2>1 DEF GoodTcb, GoodOut, Flag
  <2>3. conn' = [conn EXCEPT ![h] = v] /\ net' = net
    BY <1>4, <1>7
  <2>4. ASSUME FinAcked(t, seg) PROVE Acks(seg, Peer(h))' /\ seg.ack = v.nxt
    <3>1. ~ IsJunk(seg)
      <4> SUFFICES ASSUME IsJunk(seg) PROVE FALSE
        OBVIOUS
      <4>1. h = Server /\ seg.ack = 0
        BY <1>3, HostFacts DEF IsJunk
      <4>2. At(Server, j, wrote[h] + 1) # 0
        <5>1. wrote[h] + 1 \in 0 .. MaxWrite[Server] + 1
          BY <1>2, <4>1
        <5> QED BY <5>1, ServerNumbers
      <4> QED BY <2>2, <2>4, <4>1, <4>2 DEF FinAcked
    <3>2. ~ IsRst(seg)
      BY <1>3 DEF IsRst
    <3>3. Acks(seg, Peer(h))
      BY <1>3, <2>4, <3>1, <3>2 DEF Acks, FinAcked
    <3> QED BY <1>5, <2>4, <3>3 DEF Acks, FinAcked, IsRst, IsJunk
  <2>5. GoodFin(h, v)'
    BY <1>3, <1>5, <2>3, <2>4 DEF GoodFin
  <2> DEFINE S == {}
  <2>6. net' = net \union S /\ \A x \in S : FALSE
    BY <2>3
  <2> HIDE DEF S
  <2>7. Len(v.queue) = Len(t.queue)
        /\ \A i \in 1 .. Len(t.queue) :
             v.queue[i].seq = t.queue[i].seq /\ v.queue[i].data = t.queue[i].data
    BY <1>5
  <2> QED BY <1>1, <1>2, <1>4, <1>5, <2>1, <2>3, <2>5, <2>6, <2>7, SameStep
<1> QED BY <1>6, <1>7
-----------------------------------------------------------------------------
(* handle_established.                                                     *)

(* The numbers of the server do not wrap past 0 ...                        *)
LEMMA ServerAt ==
  ASSUME NEW j \in 0 .. MaxIsn - 1, NEW m \in 0 .. MaxWrite[Server] + 1
  PROVE  At(Server, j, m) = Isn(Server, j) + 1 + m /\ Isn(Server, j) \in Nat
<1> DEFINE i == Isn(Server, j)
           M == SeqMod
           w == MaxWrite[Server]
<1>1. i \in SeqNums /\ w \in Nat /\ 2 * (w + 3) <= M /\ M \in Nat \ {0} /\ MaxIsn \in Nat
  BY IsnType, BoundFacts, HostFacts
<1>2. i \in Nat /\ i < M
  BY <1>1 DEF SeqNums
<1>3. \A k \in 1 .. w + 2 : Plus(i, k) # 0
  BY <1>1, NumbersAssumption
<1>4. At(Server, j, m) = Plus(i, 1 + m)
  BY HostFacts DEF At, Iss
<1> HIDE DEF i, w
<1>5. i + (1 + m) < M
  <2> SUFFICES ASSUME i + (1 + m) >= M PROVE FALSE
    BY <1>1, <1>2 DEF w
  <2>1. m \in Nat /\ m <= w + 1
    BY <1>1 DEF w
  <2>2. M - i \in 1 .. w + 2 /\ M - i \in 0 .. M - 1
    BY <1>1, <1>2, <2>1
  <2>3. Plus(i, M - i) = i + (M - i) - M
    <3>1. i + (M - i) >= M
      BY <1>1, <1>2
    <3> QED BY <1>1, <2>2, <3>1, PlusFacts
  <2>4. Plus(i, M - i) = 0
    BY <1>1, <1>2, <2>3
  <2> QED BY <1>3, <2>2, <2>4
<1>6. 1 + m \in 0 .. M - 1 /\ m \in Nat
  BY <1>1, <1>2 DEF w
<1>7. Plus(i, 1 + m) = i + (1 + m)
  BY <1>1, <1>5, <1>6, PlusFacts
<1> QED BY <1>2, <1>4, <1>6, <1>7 DEF i

(* ... so the acknowledgement 0 of a resent SYN is never a new one.        *)
LEMMA ZeroAck ==
  ASSUME NEW j \in 0 .. MaxIsn - 1, NEW m \in Nat, NEW n \in Nat, m <= n, n <= MaxWrite[Server] + 1,
         NEW t, t.una = At(Server, j, m), t.nxt = At(Server, j, n)
  PROVE  ~ IsNewAck(t, 0)
<1> DEFINE i == Isn(Server, j)
           M == SeqMod
<1>0. M \in Nat \ {0} /\ MaxWrite[Server] \in Nat
  BY BoundFacts, HostFacts
<1>1. m \in 0 .. MaxWrite[Server] + 1 /\ n \in 0 .. MaxWrite[Server] + 1
  BY <1>0
<1>2. t.una = i + 1 + m /\ t.nxt = i + 1 + n /\ i \in Nat
  BY <1>1, ServerAt
<1>3. t.una \in SeqNums /\ t.nxt \in SeqNums
  BY AtType, HostFacts
<1> HIDE DEF i
<1> DEFINE a == t.una
           b == t.nxt
<1>4. a \in Nat /\ b \in Nat /\ a <= b /\ a < M /\ b < M /\ a > 0 /\ b > 0
  BY <1>0, <1>2, <1>3 DEF SeqNums
<1> HIDE DEF a, b
<1>5. (0 - a) % M = M - a
  <2>1. 0 - a \in Int /\ -M <= 0 - a /\ 0 - a < 0
    BY <1>0, <1>4
  <2>2. (0 - a) % M = 0 - a + M
    BY <1>0, <2>1, ModNegative
  <2> QED BY <1>0, <1>4, <2>2
<1>6. (b - 0) % M = b
  <2>1. b - 0 \in Int /\ 0 <= b - 0 /\ b - 0 < M /\ b - 0 = b
    BY <1>0, <1>4
  <2> QED BY <1>0, <2>1, ModSmall
<1>7. ~ (2 * (M - a) < M /\ 2 * b < M)
  BY <1>0, <1>4
<1>8. ~ (SeqLt(a, 0) /\ SeqLe(0, b))
  BY <1>4, <1>5, <1>6, <1>7 DEF SeqLt, SeqLe
<1> QED BY <1>8 DEF IsNewAck, a, b

(* An acknowledgement for a host that has not sent its FIN.                *)
LEMMA PeerAck ==
  ASSUME TcpType, Common, NEW j \in 0 .. MaxIsn - 1, SyncedOn(j), NEW h \in Hosts, ~ FinSent(h),
         NEW seg \in net, seg.from = Peer(h), "ACK" \in seg.flags, "RST" \notin seg.flags
  PROVE  \/ h = Server /\ seg.ack = 0
         \/ \E m \in 0 .. reached[h] : seg.ack = At(h, j, m)
<1>1. /\ Peer(Peer(h)) = h /\ Client # Server /\ Client \in Hosts /\ Server \in Hosts
      /\ Peer(Server) = Client /\ Peer(Client) = Server /\ reached[h] \in Nat
  BY HostFacts DEF TcpType
<1>2. IsRst(seg) \/ IsOpening(seg) \/ IsJunk(seg) \/ IsOpen(seg, j)
  BY DEF SyncedOn
<1>3. ~ IsRst(seg)
  BY DEF IsRst
<1>4. CASE IsJunk(seg)
  BY <1>1, <1>4, HostFacts DEF IsJunk
<1>5. CASE IsOpening(seg)
  <2>1. seg.from = Server /\ seg.ack = Plus(Isn(Client, 0), 1)
    BY <1>5 DEF IsOpening
  <2>2. h = Client
    BY <1>1, <2>1
  <2>3. seg.ack = At(h, j, 0) /\ 0 \in 0 .. reached[h]
    BY <1>1, <2>1, <2>2 DEF At, Iss
  <2> QED BY <2>3
<1>6. CASE IsOpen(seg, j)
  <2>1. Flag(FinSent(h)) = 0
    BY DEF Flag
  <2>2. \E m \in 0 .. reached[h] + Flag(FinSent(h)) : seg.ack = At(h, j, m)
    BY <1>1, <1>6 DEF IsOpen
  <2> QED BY <1>1, <2>1, <2>2
<1> QED BY <1>2, <1>3, <1>4, <1>5, <1>6
LEMMA PastReached ==
  ASSUME NEW w \in Nat, NEW n \in Nat, NEW z \in Nat, NEW l \in Nat,
         NEW c \in 0 .. w, NEW m \in 0 .. n, NEW k \in 1 .. l,
         n <= w, w <= z, c + l <= w, ~ (c + k <= n)
  PROVE  /\ c + l \in Nat /\ c + l <= w /\ m < c + l /\ c \in Nat /\ c + l <= z + 2
         /\ m \in 0 .. z /\ c + l \in 0 .. z
OBVIOUS

(* process_ack drops only entries whose bytes have reached the peer.       *)
LEMMA QueueAcked ==
  ASSUME TcpType, Common, NEW j \in Nat, NEW h \in Hosts, NEW t \in Tcbs, NEW u \in Tcbs,
         GoodQueue(h, j, t), NEW m \in 0 .. reached[h], NEW ack, ack = At(h, j, m),
         u.queue = Unacked(t.queue, ack)
  PROVE  GoodQueue(h, j, u)
<1> DEFINE q == t.queue
           r == u.queue
<1>1. q \in Queues
  BY TcbFields
<1>2. Retains(r, q, ack, Len(q))
  BY <1>1, UnackedFacts DEF Queues
<1>3. /\ wrote[h] \in Nat /\ reached[h] \in Nat /\ reached[h] <= wrote[h]
      /\ wrote[h] <= MaxWrite[h] /\ MaxWrite[h] \in Nat
  BY BoundFacts DEF TcpType, Common
<1>4. \A i \in 1 .. Len(q) : Placed(h, j, q[i].seq, q[i].data)
  BY DEF GoodQueue
<1>5. \A x \in 1 .. Len(r) : Placed(h, j, r[x].seq, r[x].data)
  <2> SUFFICES ASSUME NEW x \in 1 .. Len(r) PROVE Placed(h, j, r[x].seq, r[x].data)
    OBVIOUS
  <2>1. PICK i \in 1 .. Len(q) : r[x] = q[i]
    BY <1>2 DEF Retains
  <2> QED BY <1>4, <2>1
<1>6. ASSUME NEW b \in 1 .. wrote[h], ~ (b <= reached[h])
      PROVE  \E x \in 1 .. Len(r) : \E k \in 1 .. Len(r[x].data) : r[x].data[k] = b
  <2>1. PICK i \in 1 .. Len(q) : \E k \in 1 .. Len(q[i].data) : q[i].data[k] = b
    BY <1>6 DEF GoodQueue, Kept
  <2>2. PICK k \in 1 .. Len(q[i].data) : q[i].data[k] = b
    BY <2>1
  <2> DEFINE e == q[i]
  <2>3. e \in Entries
    BY <1>1 DEF Queues
  <2>4. e.data \in Data /\ e.seq \in SeqNums
    BY <2>3 DEF Entries
  <2>5. Len(e.data) \in Nat
    BY <2>4, DataLen
  <2>6. PICK c \in 0 .. wrote[h] :
          Bytes(e.data, c) /\ c + Len(e.data) <= wrote[h] /\ e.seq = At(h, j, c)
    BY <1>4 DEF Placed
  <2>7. b = c + k
    BY <2>2, <2>6 DEF Bytes
  <2> DEFINE d == c + Len(e.data)
  <2>8. /\ d \in Nat /\ d <= wrote[h] /\ m < d /\ c \in Nat /\ d <= MaxWrite[h] + 2
        /\ m \in 0 .. MaxWrite[h] /\ d \in 0 .. MaxWrite[h]
    <3>1. ~ (c + k <= reached[h])
      BY <1>6, <2>7
    <3> QED BY <1>3, <2>5, <2>6, <3>1, PastReached
  <2>9. Plus(e.seq, Len(e.data)) = At(h, j, d)
    BY <2>5, <2>6, <2>8, AtNext
  <2> HIDE DEF d
  <2>10. SeqLt(ack, At(h, j, d))
    BY <2>8, AtBefore
  <2>11. Outstanding(q[i], ack)
    BY <2>9, <2>10 DEF Outstanding
  <2>12. PICK x \in 1 .. Len(r) : r[x] = q[i]
    BY <1>2, <2>11 DEF Retains
  <2> QED BY <2>2, <2>12
<1>7. Kept(h, u)
  BY <1>6 DEF Kept
<1> QED BY <1>5, <1>7 DEF GoodQueue

(* What process_ack leaves of a good control block.                        *)
LEMMA AckedKeeps ==
  ASSUME TcpType, Common, NEW j \in 0 .. MaxIsn - 1, SyncedOn(j), NEW h \in Hosts,
         NEW t \in Tcbs, t.state = "Established", GoodTcb(h, j, t),
         NEW seg \in net, seg.from = Peer(h), "ACK" \in seg.flags, "RST" \notin seg.flags
  PROVE  LET u == Acked(t, seg.ack) IN
         /\ u \in Tcbs /\ u.read = t.read /\ u.buffer = t.buffer /\ u.state = t.state
         /\ u.rcv = t.rcv /\ u.nxt = t.nxt /\ GoodQueue(h, j, u)
         /\ \E m \in 0 .. wrote[h] : u.una = At(h, j, m)
<1> DEFINE ack == seg.ack
           u == Acked(t, ack)
<1>1. j \in Nat /\ ack \in SeqNums
  BY SegmentFields DEF TcpType
<1>2. u \in Tcbs /\ t.queue \in Queues
  BY <1>1, AckedType, TcbFields
<1>3. /\ wrote[h] \in Nat /\ reached[h] \in Nat /\ reached[h] <= wrote[h]
      /\ wrote[h] <= MaxWrite[h] /\ MaxWrite[h] \in Nat
  BY BoundFacts DEF TcpType, Common
<1>4. ~ FinOut(t) /\ Flag(FinOut(t)) = 0
  BY DEF FinOut, Flag
<1>5. /\ t.nxt = At(h, j, wrote[h]) /\ ~ FinSent(h) /\ GoodQueue(h, j, t)
      /\ \E m \in 0 .. wrote[h] : t.una = At(h, j, m)
  BY <1>3, <1>4 DEF GoodTcb, GoodOut
<1>6. CASE IsDupAck(t, ack)
  <2>1. u = [t EXCEPT !.dups = Bumped(t.dups)]
    BY <1>6 DEF Acked
  <2>2. /\ u.read = t.read /\ u.buffer = t.buffer /\ u.state = t.state
        /\ u.rcv = t.rcv /\ u.nxt = t.nxt /\ u.una = t.una /\ u.queue = t.queue
    BY <2>1, TcbRecord
  <2> HIDE DEF u
  <2>3. GoodQueue(h, j, u)
    BY <1>5, <2>2 DEF GoodQueue, Kept
  <2> QED BY <1>2, <1>5, <2>2, <2>3 DEF u
<1>7. CASE ~ IsDupAck(t, ack) /\ IsNewAck(t, ack)
  <2> DEFINE r == Unacked(t.queue, ack)
  <2>1. u = [t EXCEPT !.dups = 0, !.una = ack, !.queue = r]
    BY <1>7 DEF Acked
  <2> HIDE DEF r
  <2>2. /\ u.read = t.read /\ u.buffer = t.buffer /\ u.state = t.state
        /\ u.rcv = t.rcv /\ u.nxt = t.nxt /\ u.una = ack /\ u.queue = r
    BY <2>1, TcbRecord
  <2>3. ~ (h = Server /\ ack = 0)
    <3> SUFFICES ASSUME h = Server, ack = 0 PROVE FALSE
      OBVIOUS
    <3>1. PICK m \in 0 .. wrote[h] : t.una = At(h, j, m)
      BY <1>5
    <3>2. m \in Nat /\ m <= wrote[h] /\ wrote[h] <= MaxWrite[Server] + 1
      BY <1>3
    <3>3. ~ IsNewAck(t, 0)
      BY <1>3, <1>5, <3>1, <3>2, ZeroAck
    <3> QED BY <1>7, <3>3
  <2>4. PICK m \in 0 .. reached[h] : ack = At(h, j, m)
    BY <1>5, <2>3, PeerAck
  <2>5. m \in 0 .. wrote[h]
    BY <1>3
  <2> HIDE DEF u, ack
  <2>6. GoodQueue(h, j, u)
    BY <1>1, <1>2, <1>5, <2>2, <2>4, QueueAcked DEF r
  <2> QED BY <1>2, <2>2, <2>4, <2>5, <2>6 DEF u, ack
<1>8. CASE ~ IsDupAck(t, ack) /\ ~ IsNewAck(t, ack)
  <2>1. u = t
    BY <1>8 DEF Acked
  <2> HIDE DEF u
  <2> QED BY <1>2, <1>5, <2>1 DEF u
<1> QED BY <1>6, <1>7, <1>8
LEMMA DataConcat ==
  ASSUME NEW a \in Data, NEW b \in Data, NEW c \in Data PROVE (a \o b) \o c = a \o (b \o c)
<1> DEFINE E == Nat \union {Junk}
<1>1. a \in Seq(E) /\ b \in Seq(E) /\ c \in Seq(E)
  BY DEF Data
<1> HIDE DEF E
<1> QED BY <1>1, ConcatAssociative

LEMMA CountsOn ==
  ASSUME NEW s \in Data, NEW d \in Data, Counts(s), Bytes(d, Len(s))
  PROVE  Counts(s \o d) /\ Len(s \o d) = Len(s) + Len(d)
<1>1. /\ Len(s) \in Nat /\ Len(d) \in Nat /\ Len(s \o d) = Len(s) + Len(d)
      /\ \A i \in 1 .. Len(s) + Len(d) : (s \o d)[i] = IF i <= Len(s) THEN s[i] ELSE d[i - Len(s)]
  BY ConcatProperties DEF Data
<1> DEFINE k == Len(s)
           n == Len(d)
<1> HIDE DEF k, n
<1>2. ASSUME NEW i \in 1 .. k + n PROVE (s \o d)[i] = i
  <2>0. k \in Nat /\ n \in Nat /\ i \in Int
    BY <1>1 DEF k, n
  <2>1. CASE i <= k
    <3>1. i \in 1 .. k
      BY <2>0, <2>1
    <3>2. s[i] = i
      BY <3>1 DEF Counts, k
    <3> QED BY <1>1, <2>1, <3>2 DEF k, n
  <2>2. CASE ~ (i <= k)
    <3>1. i - k \in 1 .. n
      BY <2>0, <2>2
    <3>2. d[i - k] = k + (i - k)
      BY <3>1 DEF Bytes, k, n
    <3>3. (s \o d)[i] = d[i - k]
      BY <1>1, <2>2 DEF k, n
    <3> QED BY <2>0, <3>2, <3>3
  <2> QED BY <2>1, <2>2
<1> QED BY <1>1, <1>2 DEF Counts, k, n

(* Payload that is taken continues the stream.                             *)
LEMMA TakesData ==
  ASSUME TcpType, Common, NEW j \in 0 .. MaxIsn - 1, SyncedOn(j), NEW h \in Hosts,
         NEW t \in Tcbs, GoodIn(h, j, t), ~ FinIn(t), NEW seg \in net, seg.from = Peer(h),
         "RST" \notin seg.flags, InOrder(t, seg)
  PROVE  LET u == Received(t, seg) IN
         /\ u \in Tcbs /\ u.read = t.read /\ u.state = t.state /\ u.nxt = t.nxt /\ u.una = t.una
         /\ u.queue = t.queue /\ Counts(Stream(u)) /\ Len(Stream(u)) <= wrote[Peer(h)]
         /\ Len(Stream(t)) <= Len(Stream(u)) /\ u.rcv = At(Peer(h), j, Len(Stream(u)))
<1> DEFINE p == Peer(h)
           k == Len(Stream(t))
           d == seg.data
           n == Len(d)
           u == Received(t, seg)
<1>1. j \in Nat /\ p \in Hosts /\ seg \in Segments /\ d \in Data /\ d # <<>> /\ seg.seq = t.rcv
  BY HostFacts, SegmentFields DEF TcpType, InOrder
<1>2. u \in Tcbs
  BY <1>1, ReceivedType
<1>3. /\ u.read = t.read /\ u.buffer = t.buffer \o d /\ u.state = t.state /\ u.nxt = t.nxt
      /\ u.una = t.una /\ u.queue = t.queue /\ u.rcv = Plus(t.rcv, n)
  BY TcbRecord DEF Received
<1>4. k \in Nat /\ n \in Nat /\ Stream(t) \in Data /\ t.read \in Data /\ t.buffer \in Data
  BY <1>1, StreamLen, DataLen, TcbFields
<1>5. /\ wrote[p] \in Nat /\ reached[p] \in Nat /\ reached[p] <= wrote[p]
      /\ wrote[p] <= MaxWrite[p] /\ MaxWrite[p] \in Nat
  BY <1>1, BoundFacts DEF TcpType, Common
<1>6. t.rcv = At(p, j, k) /\ k <= reached[p]
  <2>1. Flag(FinIn(t)) = 0
    BY DEF Flag
  <2>2. Taken(t) = k
    BY <1>4, <2>1 DEF Taken
  <2> QED BY <2>2 DEF GoodIn
<1> HIDE DEF u
<1>7. Stream(u) = Stream(t) \o d
  <2>1. (t.read \o t.buffer) \o d = t.read \o (t.buffer \o d)
    BY <1>1, <1>4, DataConcat
  <2> QED BY <1>3, <2>1 DEF Stream
<1>8. Placed(p, j, seg.seq, d)
  <2>1. IsRst(seg) \/ IsOpening(seg) \/ IsJunk(seg) \/ IsOpen(seg, j)
    BY DEF SyncedOn
  <2>2. ~ IsRst(seg) /\ ~ IsOpening(seg)
    BY <1>1 DEF IsRst, IsOpening
  <2>3. ~ IsJunk(seg)
    <3> SUFFICES ASSUME IsJunk(seg) PROVE FALSE
      OBVIOUS
    <3>1. p = Client /\ seg.seq = Isn(Client, 0)
      BY DEF IsJunk
    <3>2. Isn(Client, 0) \in SeqNums
      BY HostFacts, ZeroType, IsnType
    <3>3. At(p, j, k) = Plus(Isn(Client, 0), 1 + k)
      BY <3>1 DEF At, Iss
    <3>4. Plus(Isn(Client, 0), 0) = Isn(Client, 0)
      <4>1. 0 \in 0 .. SeqMod - 1 /\ Isn(Client, 0) + 0 = Isn(Client, 0) /\ Isn(Client, 0) < SeqMod
        BY <3>2, BoundFacts DEF SeqNums
      <4> QED BY <3>2, <4>1, PlusFacts
    <3>5. 1 + k \in 0 .. SeqMod - 1 /\ 0 \in 0 .. SeqMod - 1
      <4>1. 2 * (MaxWrite[p] + 3) <= SeqMod /\ SeqMod \in Nat
        BY <1>1, BoundFacts
      <4>2. k <= MaxWrite[p]
        BY <1>4, <1>5, <1>6
      <4> HIDE DEF k
      <4> QED BY <1>4, <1>5, <4>1, <4>2
    <3>6. 1 + k = 0
      <4> HIDE DEF k
      <4>1. Plus(Isn(Client, 0), 1 + k) = Plus(Isn(Client, 0), 0)
        BY <1>1, <1>6, <3>1, <3>3, <3>4
      <4> QED BY <3>2, <3>5, <4>1, PlusInjective
    <3> HIDE DEF k
    <3> QED BY <1>4, <3>6
  <2> QED BY <1>1, <2>1, <2>2, <2>3 DEF IsOpen
<1>9. PICK b \in 0 .. wrote[p] : Bytes(d, b) /\ b + n <= wrote[p] /\ seg.seq = At(p, j, b)
  BY <1>8 DEF Placed
<1> HIDE DEF k, n, d
<1>10. b = k
  <2>1. b \in 0 .. MaxWrite[p] + 2 /\ k \in 0 .. MaxWrite[p] + 2
    BY <1>4, <1>5, <1>6
  <2> QED BY <1>1, <1>6, <1>9, <2>1, AtInjective
<1>11. k + n <= wrote[p] /\ k + n <= MaxWrite[p] + 2
  BY <1>4, <1>5, <1>9, <1>10
<1>12. u.rcv = At(p, j, k + n)
  BY <1>1, <1>3, <1>4, <1>6, <1>11, AtNext
<1>13. Len(Stream(u)) = k + n /\ Counts(Stream(u))
  <2>1. Counts(Stream(t)) /\ Bytes(d, Len(Stream(t)))
    BY <1>9, <1>10 DEF GoodIn, k
  <2> QED BY <1>1, <1>4, <1>7, <2>1, CountsOn DEF k, n
<1> QED BY <1>2, <1>3, <1>4, <1>11, <1>12, <1>13 DEF u, k, p
LEMMA FastFacts ==
  ASSUME NEW h, NEW j, NEW t \in Tcbs, NEW ack, GoodQueue(h, j, t), NEW f \in FastRetransmit(h, t, ack)
  PROVE  /\ f.from = h /\ f.flags = {"ACK"} /\ f.ack = t.rcv
         /\ Placed(h, j, f.seq, f.data)
<1>1. t.queue # <<>> /\ f = Segment(h, t.queue[1].seq, t.rcv, {"ACK"}, t.queue[1].data)
  BY DEF FastRetransmit, IsDupAck
<1>2. t.queue \in Queues
  BY TcbFields
<1>3. 1 \in 1 .. Len(t.queue)
  BY <1>1, <1>2 DEF Queues
<1>4. Placed(h, j, t.queue[1].seq, t.queue[1].data)
  BY <1>3 DEF GoodQueue
<1>5. /\ f.from = h /\ f.flags = {"ACK"} /\ f.ack = t.rcv
      /\ f.seq = t.queue[1].seq /\ f.data = t.queue[1].data
  BY <1>1 DEF Segment
<1> QED BY <1>4, <1>5

LEMMA EstablishedSynced ==
  ASSUME TcpType, TcpType', Common, NEW j \in 0 .. MaxIsn - 1, SyncedOn(j),
         NEW h \in Hosts, Synced(conn[h]), NEW seg, SegEstablished(h, seg)
  PROVE  Common' /\ SyncedOn(j)'
<1>1. PICK t0 : t0 = conn[h]
  OBVIOUS
<1> DEFINE p == Peer(h)
           t1 == IF "ACK" \in seg.flags THEN Acked(t0, seg.ack) ELSE t0
           fast == IF "ACK" \in seg.flags THEN FastRetransmit(h, t0, seg.ack) ELSE {}
           t2 == IF InOrder(t1, seg) THEN Received(t1, seg) ELSE t1
           dataAck == IF InOrder(t1, seg) THEN {AckOf(h, t2)} ELSE {}
           t3 == IF "FIN" \in seg.flags THEN FinSeen(t2, "CloseWait") ELSE t2
           finAck == IF "FIN" \in seg.flags THEN {AckOf(h, t3)} ELSE {}
           n == Len(t2.read) + Len(t2.buffer)
           S == fast \union dataAck \union finAck
<1>2. /\ t0 \in Tcbs /\ t0.state = "Established" /\ GoodTcb(h, j, t0) /\ j \in Nat
      /\ p \in Hosts /\ p # h /\ wrote[h] \in Nat /\ wrote[h] <= MaxWrite[h]
      /\ wrote[p] \in Nat /\ reached[p] \in Nat /\ MaxWrite[p] \in Nat
      /\ reached[p] <= wrote[p] /\ wrote[p] <= MaxWrite[p]
  BY <1>1, SyncedFacts DEF SegEstablished, Receives
<1>3. seg \in net /\ seg.from = p /\ "RST" \notin seg.flags
  BY DEF SegEstablished, Receives, Arrives
<1>4. /\ conn' = [conn EXCEPT ![h] = t3] /\ net' = net \union S
      /\ reached' = IF InOrder(t1, seg) THEN [reached EXCEPT ![p] = LongerOf(@, n)] ELSE reached
      /\ UNCHANGED <<backlog, isns, wrote>>
  BY <1>1 DEF SegEstablished
<1>5. ~ FinOut(t0) /\ ~ FinIn(t0)
  BY <1>2 DEF FinOut, FinIn
<1>6. /\ GoodIn(h, j, t0) /\ GoodOut(h, j, t0) /\ GoodQueue(h, j, t0) /\ GoodAcks(h, j, t0)
      /\ ~ FinSent(h) /\ t0.nxt = At(h, j, wrote[h]) /\ \E m \in 0 .. wrote[h] : t0.una = At(h, j, m)
  BY <1>2, <1>5 DEF GoodTcb, GoodOut, Flag
<1>7. /\ t1 \in Tcbs /\ t1.read = t0.read /\ t1.buffer = t0.buffer /\ t1.state = "Established"
      /\ t1.rcv = t0.rcv /\ t1.nxt = t0.nxt /\ GoodQueue(h, j, t1)
      /\ \E m \in 0 .. wrote[h] : t1.una = At(h, j, m)
  <2>1. CASE "ACK" \in seg.flags
    <3>1. t1 = Acked(t0, seg.ack)
      BY <2>1
    <3> HIDE DEF t1
    <3> QED BY <1>2, <1>3, <2>1, <3>1, AckedKeeps
  <2>2. CASE "ACK" \notin seg.flags
    BY <1>2, <1>6, <2>2
  <2> QED BY <2>1, <2>2
<1>8. \A f \in fast : /\ f.from = h /\ f.flags = {"ACK"} /\ f.ack = t0.rcv
                      /\ Placed(h, j, f.seq, f.data)
  BY <1>2, <1>6, FastFacts
<1> HIDE DEF t1, fast
<1>9. GoodIn(h, j, t1) /\ ~ FinIn(t1) /\ Stream(t1) = Stream(t0)
  <2>1. ~ FinIn(t1) /\ Stream(t1) = Stream(t0)
    BY <1>7 DEF FinIn, Stream
  <2>2. Taken(t1) = Taken(t0)
    BY <1>5, <2>1 DEF Taken, Flag
  <2> QED BY <1>5, <1>6, <1>7, <2>1, <2>2 DEF GoodIn
<1>10. Len(Stream(t1)) \in Nat /\ Len(Stream(t1)) <= reached[p]
  BY <1>7, <1>9, StreamLen DEF GoodIn
<1>11. /\ t2 \in Tcbs /\ t2.state = "Established" /\ t2.nxt = t0.nxt /\ t2.una = t1.una
       /\ t2.queue = t1.queue /\ Counts(Stream(t2)) /\ Len(Stream(t2)) <= wrote[p]
       /\ Len(Stream(t1)) <= Len(Stream(t2)) /\ t2.rcv = At(p, j, Len(Stream(t2)))
       /\ ~ InOrder(t1, seg) => Len(Stream(t2)) <= reached[p]
  <2>1. CASE InOrder(t1, seg)
    <3>1. t2 = Received(t1, seg)
      BY <2>1
    <3> HIDE DEF t2
    <3> QED BY <1>3, <1>7, <1>9, <2>1, <3>1, TakesData
  <2>2. CASE ~ InOrder(t1, seg)
    <3>1. t2 = t1
      BY <2>2
    <3> HIDE DEF t2
    <3>2. Taken(t1) = Len(Stream(t1))
      BY <1>9, <1>10 DEF Taken, Flag
    <3>3. Counts(Stream(t1)) /\ t1.rcv = At(p, j, Len(Stream(t1)))
      BY <1>9, <3>2 DEF GoodIn
    <3>4. Len(Stream(t1)) <= wrote[p] /\ Len(Stream(t1)) <= Len(Stream(t1))
      BY <1>2, <1>10
    <3> QED BY <1>7, <1>10, <3>1, <3>3, <3>4
  <2> QED BY <2>1, <2>2
<1> HIDE DEF t2
<1>12. Len(Stream(t2)) \in Nat /\ Len(Stream(t2)) = n
  BY <1>11, StreamLen
<1> HIDE DEF n
<1>13. /\ reached'[h] = reached[h] /\ Len(Stream(t2)) <= reached'[p]
       /\ reached[p] <= reached'[p] /\ reached'[p] <= wrote[p]
  <2>1. CASE InOrder(t1, seg)
    <3>1. reached' = [reached EXCEPT ![p] = LongerOf(reached[p], n)]
      BY <1>4, <2>1
    <3>2. reached'[h] = reached[h] /\ reached'[p] = LongerOf(reached[p], n)
      BY <1>2, <3>1 DEF TcpType
    <3>3. n \in Nat /\ n <= wrote[p] /\ n = Len(Stream(t2))
      BY <1>11, <1>12
    <3> QED BY <1>2, <3>2, <3>3 DEF LongerOf
  <2>2. CASE ~ InOrder(t1, seg)
    BY <1>2, <1>4, <1>11, <2>2
  <2> QED BY <2>1, <2>2
<1>14. Grows /\ wrote' = wrote
  <2>1. \A g \in Hosts : g = h \/ g = p
    BY HostFacts DEF Hosts
  <2> QED BY <1>2, <1>4, <1>13, <2>1 DEF Grows, TcpType
<1>15. ~ FinIn(t2) /\ Flag(FinIn(t2)) = 0 /\ Taken(t2) = Len(Stream(t2))
  BY <1>11, <1>12 DEF FinIn, Flag, Taken
<1>16. GoodIn(h, j, t2)' /\ GoodIn(h, j, t0)'
  <2>1. GoodIn(h, j, t2)'
    BY <1>11, <1>13, <1>15 DEF GoodIn
  <2> QED BY <1>2, <1>6, <1>14, <2>1, InGrows
<1>17. FinSent(p)' \/ "FIN" \notin seg.flags
  BY <1>3, <1>4 DEF FinSent
<1>18. /\ t3 \in Tcbs /\ t3.nxt = t0.nxt /\ t3.una = t1.una /\ t3.queue = t1.queue
       /\ Stream(t3) = Stream(t2) /\ t3.state \in {"Established", "CloseWait"}
       /\ GoodIn(h, j, t3)' /\ Taken(t2) <= Taken(t3)
  <2>1. CASE "FIN" \in seg.flags
    <3>1. t3 = FinSeen(t2, "CloseWait")
      BY <2>1
    <3>2. t3 \in Tcbs
      BY <1>11, <3>1, FinSeenType DEF States
    <3> HIDE DEF t3
    <3>3. /\ t3.read = t2.read /\ t3.buffer = t2.buffer /\ t3.state = "CloseWait"
          /\ t3.nxt = t2.nxt /\ t3.una = t2.una /\ t3.queue = t2.queue /\ t3.rcv = Plus(t2.rcv, 1)
      BY <1>11, <3>1, TcbRecord DEF FinSeen
    <3>4. Stream(t3) = Stream(t2) /\ FinIn(t3)
      BY <3>3 DEF Stream, FinIn
    <3>5. Len(Stream(t2)) <= MaxWrite[p]
      BY <1>2, <1>11, <1>12
    <3>6. GoodIn(h, j, t3)'
      BY <1>2, <1>11, <1>15, <1>16, <1>17, <2>1, <3>2, <3>3, <3>4, <3>5, InFin
    <3>7. Taken(t2) <= Taken(t3)
      BY <1>12, <1>15, <3>4 DEF Taken, Flag
    <3> QED BY <1>11, <3>2, <3>3, <3>4, <3>6, <3>7
  <2>2. CASE "FIN" \notin seg.flags
    <3>1. t3 = t2
      BY <2>2
    <3> HIDE DEF t3
    <3> QED BY <1>11, <1>12, <1>15, <1>16, <3>1
  <2> QED BY <2>1, <2>2
<1> HIDE DEF t3
<1>19. \A f \in S : f.from = h /\ f.flags = {"ACK"} /\ IsOpen(f, j)'
  <2>1. ASSUME NEW f \in fast PROVE f.from = h /\ f.flags = {"ACK"} /\ IsOpen(f, j)'
    <3>1. f.from = h /\ f.flags = {"ACK"} /\ f.ack = t0.rcv /\ Placed(h, j, f.seq, f.data)
      BY <1>8
    <3>2. Placed(h, j, f.seq, f.data)'
      BY <1>14, <3>1 DEF Placed
    <3> QED BY <1>2, <1>16, <3>1, <3>2, OpenSegment
  <2>2. ASSUME NEW u \in Tcbs, GoodIn(h, j, u)', NEW f, f = AckOf(h, u)
        PROVE  f.from = h /\ f.flags = {"ACK"} /\ IsOpen(f, j)'
    <3>1. f.from = h /\ f.flags = {"ACK"} /\ f.ack = u.rcv /\ f.data = <<>>
      BY <2>2 DEF AckOf, Segment
    <3> QED BY <2>2, <3>1, OpenSegment
  <2>3. ASSUME NEW f \in dataAck PROVE f.from = h /\ f.flags = {"ACK"} /\ IsOpen(f, j)'
    <3>1. f = AckOf(h, t2)
      OBVIOUS
    <3> QED BY <1>11, <1>16, <2>2, <3>1
  <2>4. ASSUME NEW f \in finAck PROVE f.from = h /\ f.flags = {"ACK"} /\ IsOpen(f, j)'
    <3>1. f = AckOf(h, t3)
      OBVIOUS
    <3> QED BY <1>18, <2>2, <3>1
  <2> HIDE DEF dataAck, finAck
  <2> QED BY <2>1, <2>3, <2>4
<1>20. \A f \in S : f.ack \in {t0.rcv, t2.rcv, t3.rcv}
  BY <1>8 DEF AckOf, Segment
<1> HIDE DEF S
<1>21. GoodOut(h, j, t3)'
  <2>1. Flag(FinOut(t3)) = 0 /\ wrote[h] + 0 = wrote[h]
    BY <1>2, <1>18 DEF FinOut, Flag
  <2>2. ~ FinSent(h)'
    <3>1. \A f \in S : f.from = h => "FIN" \notin f.flags
      BY <1>19
    <3> QED BY <1>4, <1>6, <3>1, FinSentKept
  <2> QED BY <1>6, <1>7, <1>14, <1>18, <2>1, <2>2 DEF GoodOut
<1>22. GoodQueue(h, j, t3)'
  BY <1>7, <1>13, <1>14, <1>18, QueueSame
<1>23. GoodAcks(h, j, t3)'
  <2>1. Taken(t0) \in Nat /\ Taken(t2) \in Nat /\ Taken(t3) \in Nat /\ Taken(t0) <= Taken(t2)
    <3>1. Taken(t0) \in Nat /\ Taken(t2) \in Nat /\ Taken(t3) \in Nat
      BY <1>2, <1>11, <1>18, StreamLen
    <3>2. Flag(FinIn(t0)) = 0
      BY <1>5 DEF Flag
    <3>3. Taken(t0) = Len(Stream(t1))
      BY <1>9, <1>10, <3>2 DEF Taken
    <3> QED BY <1>11, <1>15, <3>1, <3>3
  <2>2. t0.rcv = At(p, j, Taken(t0)) /\ t2.rcv = At(p, j, Taken(t2)) /\ t3.rcv = At(p, j, Taken(t3))
    BY <1>6, <1>16, <1>18 DEF GoodIn
  <2>3. ASSUME NEW f \in net', Acks(f, h) PROVE \E m \in 0 .. Taken(t3) : f.ack = At(p, j, m)
    <3>1. CASE f \in S
      <4>1. Taken(t0) \in 0 .. Taken(t3) /\ Taken(t2) \in 0 .. Taken(t3) /\ Taken(t3) \in 0 .. Taken(t3)
        BY <1>18, <2>1
      <4>2. f.ack = t0.rcv \/ f.ack = t2.rcv \/ f.ack = t3.rcv
        BY <1>20, <3>1
      <4> QED BY <2>2, <4>1, <4>2
    <3>2. CASE f \in net
      <4>1. PICK m \in 0 .. Taken(t0) : f.ack = At(p, j, m)
        BY <1>6, <2>3, <3>2 DEF GoodAcks
      <4>2. m \in 0 .. Taken(t3)
        BY <1>18, <2>1
      <4> QED BY <4>1, <4>2
    <3> QED BY <1>4, <3>1, <3>2
  <2>4. \A f : Acks(f, h)' => Acks(f, h)
    BY DEF Acks, IsRst, IsJunk
  <2> QED BY <2>3, <2>4 DEF GoodAcks
<1>24. GoodFin(h, t3)'
  BY <1>18 DEF GoodFin
<1>25. GoodTcb(h, j, t3)'
  BY <1>18, <1>21, <1>22, <1>23, <1>24 DEF GoodTcb
<1>26. HostMoves(h, S)
  BY <1>4, <1>13, <1>14, <1>19 DEF HostMoves
<1>27. /\ wrote[h] <= wrote'[h] /\ wrote'[h] <= MaxWrite[h] /\ t3 \in Tcbs \union {NoConn}
       /\ t3 # NoConn => Synced(t3)
  BY <1>2, <1>14, <1>18 DEF Synced
<1>28. \A f \in S : IsOpen(f, j)'
  BY <1>19
<1> QED BY <1>4, <1>13, <1>25, <1>26, <1>27, <1>28, HostStep
-----------------------------------------------------------------------------
(* The steps of a host that is not synchronised.                           *)
LEMMA CommonAside ==
  ASSUME TcpType, Common, NEW h \in Hosts, NEW u \in Tcbs \union {NoConn},
         conn' = [conn EXCEPT ![h] = u], UNCHANGED <<wrote, reached>>, isns'[Client] = 1,
         HalfOpen', Dialling', u # NoConn => u.state # IF h = Client THEN "SynReceived" ELSE "SynSent"
  PROVE  Common'
<1>1. conn'[h] = u /\ \A g \in Hosts : g # h => conn'[g] = conn[g]
  BY ConnType
<1>2. Client \in Hosts /\ Server \in Hosts /\ Client # Server /\ (h = Client \/ h = Server)
  BY HostFacts DEF Hosts
<1>3. (conn[Client] # NoConn => isns[Client] = 1 /\ conn[Client].state # "SynReceived")'
  BY <1>1, <1>2 DEF Common
<1>4. (conn[Server] # NoConn => conn[Server].state # "SynSent")'
  BY <1>1, <1>2 DEF Common
<1>5. (\A g \in Hosts : reached[g] <= wrote[g] /\ wrote[g] <= MaxWrite[g])'
  BY DEF Common
<1> QED BY <1>3, <1>4, <1>5 DEF Common

LEMMA SelfKeeps ==
  ASSUME TcpType, TcpType', NEW h \in Hosts, NEW j \in Nat, NEW t \in Tcbs, GoodTcb(h, j, t), NEW S,
         net' = net \union S, UNCHANGED <<wrote, reached>>,
         \A seg \in S : "FIN" \notin seg.flags /\ (Acks(seg, h) => seg.ack = At(Peer(h), j, 0))
  PROVE  GoodTcb(h, j, t)'
<1>1. Grows
  BY QuietGrows
<1>2. GoodIn(h, j, t)'
  BY <1>1, InGrows DEF GoodTcb
<1>3. GoodQueue(h, j, t)'
  BY QueueSame DEF GoodTcb
<1>4. GoodFin(h, t)'
  BY <1>1, FinKept DEF GoodTcb, Grows
<1>5. GoodOut(h, j, t)'
  <2>1. FinSent(h)' => FinSent(h)
    BY FinSentKept
  <2> QED BY <2>1 DEF GoodTcb, GoodOut
<1>6. GoodAcks(h, j, t)'
  <2>1. ASSUME NEW seg \in net', Acks(seg, h)
        PROVE  \E m \in 0 .. Taken(t) : seg.ack = At(Peer(h), j, m)
    <3>1. CASE seg \in S
      <4>0. Taken(t) \in Nat
        BY StreamLen
      <4>1. 0 \in 0 .. Taken(t)
        BY <4>0
      <4> QED BY <2>1, <3>1, <4>1
    <3>2. CASE seg \in net
      BY <2>1, <3>2 DEF GoodTcb, GoodAcks
    <3> QED BY <3>1, <3>2
  <2>2. \A seg : Acks(seg, h)' => Acks(seg, h)
    BY DEF Acks, IsRst, IsJunk
  <2> QED BY <2>1, <2>2 DEF GoodAcks
<1> QED BY <1>2, <1>3, <1>4, <1>5, <1>6 DEF GoodTcb

LEMMA GoodBacklog ==
  ASSUME NEW h, NEW j, NEW t, backlog'[1] = t, GoodTcb(h, j, t)'
  PROVE  GoodTcb(h, j, backlog[1])'
BY DEF GoodTcb, GoodIn, GoodOut, GoodQueue, GoodAcks, GoodFin, Kept, Stream, Taken, FinIn, FinOut

(* A host without a connection, or with one whose handshake is going on,   *)
(* resets or answers a SYN.                                                *)
LEMMA AsideStep ==
  ASSUME TcpType, TcpType', Common, NEW j \in 0 .. MaxIsn - 1, SyncedOn(j), NEW h \in Hosts,
         ~ Synced(conn[h]), NEW u \in Tcbs \union {NoConn}, NEW S, conn' = [conn EXCEPT ![h] = u],
         net' = net \union S, UNCHANGED <<backlog, wrote, reached>>,
         \A seg \in S : /\ seg.from = h /\ "FIN" \notin seg.flags /\ Sorted(j, seg)'
                        /\ Acks(seg, h) => seg.ack = At(Peer(h), j, 0),
         isns'[Client] = 1, isns[Server] <= isns'[Server], HalfOpen',
         u # NoConn => h = Server /\ u.state = "SynReceived",
         u # NoConn /\ isns'[Server] = j + 1 => u = conn[h],
         h = Client => isns' = isns
  PROVE  Common' /\ SyncedOn(j)'
<1> DEFINE p == Peer(h)
<1>1. /\ p \in Hosts /\ Peer(p) = h /\ p # h /\ Hosts = {h, p} /\ j \in Nat
      /\ Client \in Hosts /\ Server \in Hosts /\ Client # Server
      /\ Peer(Server) = Client /\ Peer(Client) = Server
  BY HostFacts DEF Hosts
<1>2. conn'[h] = u /\ conn'[p] = conn[p]
  BY <1>1, ConnType
<1>3. HostMoves(h, S)
  <2>1. reached[p] \in Nat
    BY <1>1 DEF TcpType
  <2> QED BY <2>1 DEF HostMoves
<1>4. Grows
  BY QuietGrows
<1>5. conn'[Client] # NoConn => conn'[Client].state # "SynSent"
  BY <1>1, <1>2 DEF SyncedOn
<1>6. Common'
  <2>1. Dialling'
    BY <1>5 DEF Dialling
  <2>2. u # NoConn => u.state # IF h = Client THEN "SynReceived" ELSE "SynSent"
    BY <1>1
  <2> QED BY <2>1, <2>2, CommonAside
<1>7. (\A seg \in net : Sorted(j, seg))'
  <2>1. \A seg \in net : Sorted(j, seg)
    BY DEF SyncedOn, Sorted
  <2> QED BY <1>4, <2>1, SortedGrows
<1>8. (\A g \in Hosts : Synced(conn[g]) => GoodTcb(g, j, conn[g]))'
  <2>1. ~ Synced(conn[h])'
    BY <1>2 DEF Synced
  <2>2. ASSUME Synced(conn[p])' PROVE GoodTcb(p, j, conn[p])'
    <3>1. PICK v : v = conn[p]
      OBVIOUS
    <3>2. Synced(conn[p])
      BY <1>2, <2>2 DEF Synced
    <3>3. v \in Tcbs /\ GoodTcb(p, j, v)
      BY <1>1, <3>1, <3>2, ConnTcb DEF SyncedOn, Synced
    <3>4. GoodTcb(p, j, v)'
      BY <1>1, <1>3, <3>3, PeerKeeps
    <3>5. conn'[p] = v
      BY <1>2, <3>1
    <3> QED BY <3>4, <3>5, GoodConn
  <2> QED BY <1>1, <2>1, <2>2
<1>9. (backlog # <<>> =>
         /\ Len(backlog) = 1 /\ backlog[1].state = "Established"
         /\ GoodTcb(Server, j, backlog[1]) /\ backlog[1].queue = <<>>
         /\ ~ Synced(conn[Server]))'
  <2> SUFFICES ASSUME backlog # <<>>
               PROVE  GoodTcb(Server, j, backlog[1])' /\ ~ Synced(conn[Server])'
    BY DEF SyncedOn
  <2>1. ~ Synced(conn[Server])
    BY DEF SyncedOn
  <2>2. ~ Synced(conn[Server])'
    BY <1>1, <1>2, <2>1 DEF Synced
  <2>3. PICK v : v = backlog[1]
    OBVIOUS
  <2>4. v \in Tcbs /\ GoodTcb(Server, j, v)
    BY <2>3 DEF SyncedOn, TcpType
  <2>5. GoodTcb(Server, j, v)'
    <3>1. CASE h = Server
      BY <1>1, <2>4, <3>1, SelfKeeps
    <3>2. CASE h = Client
      BY <1>1, <1>3, <2>4, <3>2, PeerKeeps
    <3> QED BY <1>1, <3>1, <3>2
  <2>6. backlog'[1] = v
    BY <2>3
  <2> QED BY <2>2, <2>5, <2>6, GoodBacklog
<1>10. (conn[Server] # NoConn /\ conn[Server].state = "SynReceived" /\ isns[Server] = j + 1 =>
          backlog = <<>> /\ Untouched(j))'
  <2> SUFFICES ASSUME conn'[Server] # NoConn, conn'[Server].state = "SynReceived", isns'[Server] = j + 1
               PROVE  backlog' = <<>> /\ Untouched(j)'
    OBVIOUS
  <2>1. conn'[Server] = conn[Server] /\ isns[Server] = j + 1
    <3>1. CASE h = Server
      <4>1. u = conn[Server] /\ u # NoConn
        BY <1>2, <3>1
      <4>2. isns[Server] \in Nat /\ isns[Server] <= j + 1 /\ j < isns[Server]
        BY <1>1 DEF SyncedOn, TcpType
      <4> QED BY <1>1, <1>2, <3>1, <4>1, <4>2
    <3>2. CASE h = Client
      BY <1>1, <1>2, <3>2
    <3> QED BY <1>1, <3>1, <3>2
  <2>2. backlog = <<>> /\ Untouched(j)
    BY <2>1 DEF SyncedOn
  <2>3. ~ FinSent(Server)'
    <3>1. \A seg \in S : seg.from = Server => "FIN" \notin seg.flags
      OBVIOUS
    <3> QED BY <2>2, <3>1, FinSentKept DEF Untouched
  <2>4. (\A seg \in net : Acks(seg, Server) => seg.ack = At(Client, j, 0))'
    <3>1. \A seg : Acks(seg, Server)' => Acks(seg, Server)
      BY DEF Acks, IsRst, IsJunk
    <3>2. ASSUME NEW seg \in net', Acks(seg, Server) PROVE seg.ack = At(Client, j, 0)
      <4>1. CASE seg \in S
        BY <1>1, <3>2, <4>1 DEF Acks
      <4>2. CASE seg \in net
        BY <2>2, <3>2, <4>2 DEF Untouched
      <4> QED BY <4>1, <4>2
    <3> QED BY <3>1, <3>2
  <2> QED BY <2>2, <2>3, <2>4 DEF Untouched
<1>11. (j < isns[Server] /\ isns[Client] = 1 /\ (conn[Client] # NoConn => conn[Client].state # "SynSent"))'
  <2>1. j < isns[Server] /\ isns[Server] \in Nat /\ isns'[Server] \in Nat
    BY <1>1 DEF SyncedOn, TcpType
  <2>2. j < isns'[Server]
    BY <1>1, <2>1
  <2> QED BY <1>5, <2>2
<1> QED BY <1>6, <1>7, <1>8, <1>9, <1>10, <1>11 DEF SyncedOn, Sorted
(* accept and the end of the handshake move a control block of the server. *)
LEMMA ServerMoves ==
  ASSUME TcpType, TcpType', Common, NEW j \in 0 .. MaxIsn - 1, SyncedOn(j),
         NEW u \in Tcbs \union {NoConn}, NEW b \in Tcbs, conn' = [conn EXCEPT ![Server] = u],
         UNCHANGED <<isns, net, wrote, reached>>, GoodTcb(Server, j, b), b.state = "Established",
         \/ u = b /\ backlog' = <<>>
         \/ u = NoConn /\ b.queue = <<>> /\ backlog' = <<b>>
  PROVE  Common' /\ SyncedOn(j)'
<1>1. /\ Client \in Hosts /\ Server \in Hosts /\ Client # Server /\ Hosts = {Client, Server}
      /\ Peer(Server) = Client /\ Peer(Client) = Server /\ j \in Nat
  BY HostFacts DEF Hosts
<1>2. conn'[Server] = u /\ conn'[Client] = conn[Client]
  BY <1>1, ConnType
<1> DEFINE S == {}
<1>3. net' = net \union S /\ \A seg \in S : FALSE
  OBVIOUS
<1> HIDE DEF S
<1>4. HostMoves(Server, S)
  <2>1. reached[Client] \in Nat
    BY <1>1 DEF TcpType
  <2> QED BY <1>1, <1>3, <2>1 DEF HostMoves
<1>5. GoodTcb(Server, j, b)'
  BY <1>1, <1>3, SelfKeeps
<1>6. ~ (conn'[Server] # NoConn /\ conn'[Server].state = "SynReceived")
  BY <1>2 DEF Synced
<1>7. isns' = isns /\ isns[Client] = 1
  BY DEF SyncedOn
<1>8. Common'
  <2>1. HalfOpen'
    BY <1>6 DEF HalfOpen
  <2>2. Dialling'
    BY <1>2 DEF Dialling, SyncedOn
  <2>3. u # NoConn => u.state # IF Server = Client THEN "SynReceived" ELSE "SynSent"
    BY <1>1 DEF Synced
  <2> QED BY <1>1, <1>7, <2>1, <2>2, <2>3, CommonAside
<1>9. (\A seg \in net : Sorted(j, seg))'
  <2>1. \A seg \in net : Sorted(j, seg)
    BY DEF SyncedOn, Sorted
  <2>2. Grows
    BY <1>3, QuietGrows
  <2>3. isns[Server] <= isns'[Server]
    BY <1>1, <1>7 DEF TcpType
  <2> QED BY <1>3, <2>1, <2>2, <2>3, SortedGrows
<1>10. Synced(conn[Client])' => GoodTcb(Client, j, conn[Client])'
  <2> SUFFICES ASSUME Synced(conn[Client])' PROVE GoodTcb(Client, j, conn[Client])'
    OBVIOUS
  <2>1. PICK v : v = conn[Client]
    OBVIOUS
  <2>2. Synced(conn[Client])
    BY <1>2 DEF Synced
  <2>3. v \in Tcbs /\ GoodTcb(Client, j, v)
    BY <1>1, <2>1, <2>2, ConnTcb DEF SyncedOn, Synced
  <2>4. GoodTcb(Client, j, v)'
    BY <1>1, <1>4, <2>3, PeerKeeps
  <2> QED BY <1>2, <2>1, <2>4, GoodConn
<1>11. Synced(conn[Server])' => GoodTcb(Server, j, conn[Server])'
  <2> SUFFICES ASSUME Synced(conn[Server])' PROVE GoodTcb(Server, j, conn[Server])'
    OBVIOUS
  <2>1. conn'[Server] = b
    BY <1>2 DEF Synced
  <2> QED BY <1>5, <2>1, GoodConn
<1>12. (backlog # <<>> =>
          /\ Len(backlog) = 1 /\ backlog[1].state = "Established"
          /\ GoodTcb(Server, j, backlog[1]) /\ backlog[1].queue = <<>>
          /\ ~ Synced(conn[Server]))'
  <2> SUFFICES ASSUME backlog' # <<>>
               PROVE  (/\ Len(backlog) = 1 /\ backlog[1].state = "Established"
                       /\ GoodTcb(Server, j, backlog[1]) /\ backlog[1].queue = <<>>
                       /\ ~ Synced(conn[Server]))'
    OBVIOUS
  <2>1. u = NoConn /\ b.state = "Established" /\ b.queue = <<>> /\ backlog' = <<b>>
    OBVIOUS
  <2>2. Len(backlog') = 1 /\ backlog'[1] = b
    BY <2>1
  <2>3. GoodTcb(Server, j, backlog[1])'
    BY <1>5, <2>2, GoodBacklog
  <2>4. ~ Synced(conn[Server])'
    BY <1>2, <2>1 DEF Synced
  <2> QED BY <2>1, <2>2, <2>3, <2>4
<1>13. (j < isns[Server] /\ isns[Client] = 1 /\ (conn[Client] # NoConn => conn[Client].state # "SynSent"))'
  BY <1>2, <1>7 DEF SyncedOn
<1>14. (\A g \in Hosts : Synced(conn[g]) => GoodTcb(g, j, conn[g]))'
  BY <1>1, <1>10, <1>11
<1> QED BY <1>6, <1>8, <1>9, <1>12, <1>13, <1>14 DEF SyncedOn, Sorted

LEMMA AcceptSynced ==
  ASSUME TcpType, TcpType', Common, NEW j \in 0 .. MaxIsn - 1, SyncedOn(j), Accept
  PROVE  Common' /\ SyncedOn(j)'
<1>1. PICK b : b = backlog[1]
  OBVIOUS
<1>2. /\ backlog \in Seq(Tcbs) /\ backlog # <<>> /\ Len(backlog) = 1 /\ b.state = "Established"
      /\ GoodTcb(Server, j, b) /\ conn' = [conn EXCEPT ![Server] = Head(backlog)]
      /\ backlog' = Tail(backlog) /\ UNCHANGED <<isns, net, wrote, reached>>
  BY <1>1 DEF Accept, SyncedOn, TcpType
<1>3. Head(backlog) = b /\ backlog' = <<>> /\ b \in Tcbs
  BY <1>1, <1>2
<1> QED BY <1>2, <1>3, ServerMoves

LEMMA SynReceivedSynced ==
  ASSUME TcpType, TcpType', Common, NEW j \in 0 .. MaxIsn - 1, SyncedOn(j),
         NEW h \in Hosts, NEW seg, SegSynReceived(h, seg)
  PROVE  Common' /\ SyncedOn(j)'
<1>1. PICK t : t = conn[h]
  OBVIOUS
<1>2. /\ h = Server /\ t \in Tcbs /\ t # NoConn /\ t.state = "SynReceived" /\ seg \in net
      /\ seg.from = Client /\ "RST" \notin seg.flags /\ "ACK" \in seg.flags /\ seg.ack = t.nxt
      /\ j \in Nat /\ Client \in Hosts /\ Server \in Hosts /\ Client # Server
      /\ Peer(Server) = Client
  <2>1. t # NoConn /\ t.state = "SynReceived"
    BY <1>1 DEF SegSynReceived, Receives
  <2>2. h = Server
    BY <1>1, <2>1, HostFacts DEF Common, Hosts
  <2> QED BY <1>1, <2>1, <2>2, ConnTcb, HostFacts DEF SegSynReceived, Receives, Arrives
<1>3. /\ isns[Server] > 0 /\ t.nxt = Plus(Isn(Server, isns[Server] - 1), 1)
      /\ t.rcv = At(Client, 0, 0) /\ t.buffer = <<>> /\ t.read = <<>> /\ t.queue = <<>>
      /\ isns[Server] \in 0 .. MaxIsn /\ MaxIsn \in Nat
  BY <1>1, <1>2, BoundFacts DEF Common, HalfOpen, TcpType
<1> DEFINE i == isns[Server] - 1
<1>4. i \in 0 .. MaxIsn - 1 /\ isns[Server] = i + 1
  BY <1>3
<1>5. t.nxt = At(Server, i, 0)
  BY <1>2, <1>3 DEF At, Iss
<1> HIDE DEF i
<1>6. t.nxt = Plus(Isn(Server, i), 1) /\ t.nxt # 0
  <2>1. 0 \in 0 .. MaxWrite[Server] + 1
    BY <1>2, BoundFacts
  <2> QED BY <1>3, <1>4, <1>5, <2>1, ServerNumbers DEF i
<1>7. i = j
  <2>1. IsRst(seg) \/ IsOpening(seg) \/ IsJunk(seg) \/ IsOpen(seg, j)
    BY <1>2 DEF SyncedOn
  <2>2. ~ IsRst(seg) /\ ~ IsOpening(seg)
    BY <1>2 DEF IsRst, IsOpening
  <2>3. ~ IsJunk(seg)
    BY <1>2, <1>6 DEF IsJunk
  <2>4. PICK m \in 0 .. reached[Server] + Flag(FinSent(Server)) : seg.ack = At(Server, j, m)
    BY <1>2, <2>1, <2>2, <2>3, HostFacts DEF IsOpen
  <2>5. m \in 0 .. MaxWrite[Server] + 1
    <3>1. /\ reached[Server] \in Nat /\ wrote[Server] \in Nat /\ reached[Server] <= wrote[Server]
          /\ wrote[Server] <= MaxWrite[Server] /\ MaxWrite[Server] \in Nat
      BY <1>2, BoundFacts DEF TcpType, Common
    <3>2. Flag(FinSent(Server)) \in {0, 1}
      BY DEF Flag
    <3> QED BY <3>1, <3>2
  <2> QED BY <1>2, <1>4, <1>6, <2>4, <2>5, ServerNumbers
<1>8. backlog = <<>> /\ Untouched(j)
  BY <1>1, <1>2, <1>4, <1>7 DEF SyncedOn
<1> DEFINE b == [t EXCEPT !.una = seg.ack, !.state = "Established"]
<1>9. /\ conn' = [conn EXCEPT ![Server] = NoConn] /\ backlog' = <<b>>
      /\ UNCHANGED <<isns, net, wrote, reached>>
  BY <1>1, <1>2, <1>8 DEF SegSynReceived
<1>10. seg.ack \in SeqNums
  BY <1>2, SegmentFields DEF TcpType
<1>11. /\ b \in Tcbs /\ b.state = "Established" /\ b.read = <<>> /\ b.buffer = <<>> /\ b.queue = <<>>
       /\ b.una = t.nxt /\ b.nxt = t.nxt /\ b.rcv = t.rcv
  BY <1>2, <1>3, <1>10, TcbRecord DEF States
<1> HIDE DEF b
<1>12. /\ Stream(b) = <<>> /\ Len(Stream(b)) = 0 /\ Taken(b) = 0 /\ ~ FinIn(b) /\ ~ FinOut(b)
       /\ Flag(FinOut(b)) = 0
  BY <1>11 DEF Stream, Taken, FinIn, FinOut, Flag
<1>13. wrote[Server] = 0 /\ reached[Client] = 0 /\ ~ FinSent(Server)
  BY <1>8 DEF Untouched
<1>14. GoodIn(Server, j, b)
  <2>1. b.rcv = At(Client, j, 0)
    BY <1>3, <1>11, ClientAt
  <2> QED BY <1>2, <1>12, <1>13, <2>1 DEF GoodIn, Counts
<1>15. GoodOut(Server, j, b)
  BY <1>5, <1>7, <1>11, <1>12, <1>13 DEF GoodOut
<1>16. GoodQueue(Server, j, b)
  BY <1>11, <1>13 DEF GoodQueue, Kept
<1>17. GoodAcks(Server, j, b)
  BY <1>2, <1>8, <1>12 DEF GoodAcks, Untouched
<1>18. GoodFin(Server, b)
  BY <1>11 DEF GoodFin
<1>19. GoodTcb(Server, j, b)
  BY <1>14, <1>15, <1>16, <1>17, <1>18 DEF GoodTcb
<1> DEFINE u == NoConn
<1>20. u \in Tcbs \union {NoConn} /\ u = NoConn /\ conn' = [conn EXCEPT ![Server] = u]
  BY <1>9
<1> QED BY <1>9, <1>11, <1>19, <1>20, ServerMoves
LEMMA RstFacts ==
  ASSUME NEW h, NEW f, f.from = h, IsRst(f)
  PROVE  "FIN" \notin f.flags /\ ~ Acks(f, h) /\ \A j : Sorted(j, f)'
BY DEF IsRst, Acks, Sorted

LEMMA RstForFacts ==
  ASSUME NEW h, NEW seg PROVE RstFor(h, seg).from = h /\ IsRst(RstFor(h, seg))
BY DEF RstFor, IsRst, Segment

(* A reset of what is not synchronised, or the answer to a stray.          *)
LEMMA AsideReset ==
  ASSUME TcpType, TcpType', Common, NEW j \in 0 .. MaxIsn - 1, SyncedOn(j), NEW h \in Hosts,
         ~ Synced(conn[h]), NEW S, \A f \in S : f.from = h /\ IsRst(f), net' = net \union S,
         conn' = conn \/ conn' = [conn EXCEPT ![h] = NoConn],
         UNCHANGED <<backlog, isns, wrote, reached>>
  PROVE  Common' /\ SyncedOn(j)'
<1>0. /\ Client \in Hosts /\ Server \in Hosts /\ Client # Server /\ (h = Client \/ h = Server)
  BY HostFacts DEF Hosts
<1>1. PICK u \in Tcbs \union {NoConn} : conn' = [conn EXCEPT ![h] = u] /\ (u = conn[h] \/ u = NoConn)
  <2>1. CASE conn' = conn
    <3> DEFINE u == conn[h]
    <3>1. u \in Tcbs \union {NoConn} /\ conn' = [conn EXCEPT ![h] = u]
      BY <2>1 DEF TcpType
    <3> QED BY <3>1
  <2>2. CASE conn' = [conn EXCEPT ![h] = NoConn]
    BY <2>2
  <2> QED BY <2>1, <2>2
<1>2. u # NoConn => h = Server /\ u.state = "SynReceived" /\ u = conn[h]
  BY <1>0, <1>1 DEF Synced, SyncedOn, Common
<1>3. \A f \in S : /\ f.from = h /\ "FIN" \notin f.flags /\ Sorted(j, f)'
                   /\ Acks(f, h) => f.ack = At(Peer(h), j, 0)
  BY RstFacts
<1>4. HalfOpen'
  <2>1. conn'[Server] = conn[Server] \/ conn'[Server] = NoConn
    BY <1>0, <1>1, ConnType
  <2> QED BY <2>1 DEF HalfOpen, Common
<1>5. isns'[Client] = 1 /\ isns[Server] <= isns'[Server] /\ isns' = isns
  BY <1>0 DEF SyncedOn, TcpType
<1> QED BY <1>1, <1>2, <1>3, <1>4, <1>5, AsideStep

(* A SYN of the client.                                                    *)
LEMMA SynFacts ==
  ASSUME NEW seg \in net, IsSyn(seg), Unsynced \/ \E j : SyncedOn(j)
  PROVE  seg.from = Client /\ seg.flags = {"SYN"} /\ seg.seq = Isn(Client, 0)
<1>1. IsRst(seg) \/ IsOpening(seg) \/ IsJunk(seg) \/ \E j : IsOpen(seg, j)
  BY DEF Unsynced, SyncedOn
<1>2. "SYN" \in seg.flags /\ "ACK" \notin seg.flags
  BY DEF IsSyn
<1>3. ~ IsRst(seg) /\ ~ IsJunk(seg) /\ ~ (\E j : IsOpen(seg, j))
  BY <1>2 DEF IsRst, IsJunk, IsOpen
<1> QED BY <1>1, <1>2, <1>3 DEF IsOpening

(* The control block of a passive open, and its SYN-ACK.                   *)
LEMMA PassiveFacts ==
  ASSUME TcpType, TcpType', NEW seg \in net, PassiveOpen(seg), ~ (Len(backlog) >= MaxBacklog),
         seg.seq = Isn(Client, 0)
  PROVE  \E u \in Tcbs, f \in net' :
           /\ conn' = [conn EXCEPT ![Server] = u] /\ net' = net \union {f}
           /\ u.state = "SynReceived" /\ HalfOpen'
           /\ f.from = Server /\ f.flags = {"SYN", "ACK"} /\ f.data = <<>>
           /\ f.ack = Plus(Isn(Client, 0), 1) /\ IsOpening(f)'
           /\ isns' = [isns EXCEPT ![Server] = @ + 1]
<1>0. PICK i : i = isns[Server]
  OBVIOUS
<1> DEFINE r == Plus(Isn(Client, 0), 1)
           u == NewTcb("SynReceived", Isn(Server, i), r)
           f == Segment(Server, u.una, u.rcv, {"SYN", "ACK"}, <<>>)
<1>1. Server \in Hosts /\ Client \in Hosts /\ i \in Nat /\ isns \in [Hosts -> 0 .. MaxIsn]
      /\ Client # Server
  BY <1>0, HostFacts DEF TcpType
<1>2. /\ conn' = [conn EXCEPT ![Server] = u] /\ net' = net \union {f}
      /\ isns' = [isns EXCEPT ![Server] = @ + 1]
  BY <1>0 DEF PassiveOpen, NextIsn
<1>3. isns'[Server] = i + 1
  BY <1>0, <1>1, <1>2
<1>4. u \in Tcbs
  <2>1. Isn(Server, i) \in SeqNums /\ Isn(Client, 0) \in SeqNums
    BY <1>1, ZeroType, IsnType
  <2>2. Isn(Client, 0) \in Nat
    BY <2>1, BoundFacts DEF SeqNums
  <2>3. r \in SeqNums
    BY <2>2, ZeroType, PlusType
  <2> QED BY <2>1, <2>3, NewTcbType DEF States
<1>5. /\ u.state = "SynReceived" /\ u.una = Isn(Server, i) /\ u.nxt = Plus(Isn(Server, i), 1)
      /\ u.rcv = r /\ u.buffer = <<>> /\ u.read = <<>> /\ u.queue = <<>>
  BY DEF NewTcb
<1>6. /\ f.from = Server /\ f.flags = {"SYN", "ACK"} /\ f.data = <<>> /\ f.ack = u.rcv /\ f.seq = u.una
  BY DEF Segment
<1> HIDE DEF u, f
<1>7. conn'[Server] = u
  BY <1>1, <1>2, <1>4, ConnType
<1>8. HalfOpen'
  <2>1. isns'[Server] > 0 /\ isns'[Server] - 1 = i
    BY <1>1, <1>3
  <2>2. r = At(Client, 0, 0)
    BY DEF At, Iss
  <2> QED BY <1>5, <1>7, <2>1, <2>2 DEF HalfOpen
<1>9. IsOpening(f)'
  <2>1. i \in 0 .. isns'[Server] - 1
    BY <1>1, <1>3
  <2>2. \E x \in 0 .. isns'[Server] - 1 : f.seq = Isn(Server, x)
    BY <1>5, <1>6, <2>1
  <2> QED BY <1>5, <1>6, <2>2 DEF IsOpening
<1> QED BY <1>2, <1>4, <1>5, <1>6, <1>8, <1>9

LEMMA PassiveOpenSynced ==
  ASSUME TcpType, TcpType', Common, NEW j \in 0 .. MaxIsn - 1, SyncedOn(j),
         NEW seg \in net, PassiveOpen(seg)
  PROVE  Common' /\ SyncedOn(j)'
<1>1. /\ Client \in Hosts /\ Server \in Hosts /\ Client # Server /\ Peer(Server) = Client
      /\ conn[Server] = NoConn /\ IsSyn(seg) /\ UNCHANGED <<backlog, wrote, reached>>
  BY HostFacts DEF PassiveOpen
<1>2. ~ Synced(conn[Server])
  BY <1>1 DEF Synced
<1>3. CASE Len(backlog) >= MaxBacklog
  <2> DEFINE S == {RstFor(Server, seg)}
  <2>1. net' = net \union S /\ UNCHANGED <<conn, isns>>
    BY <1>3 DEF PassiveOpen
  <2>2. \A f \in S : f.from = Server /\ IsRst(f)
    BY RstForFacts
  <2> HIDE DEF S
  <2> QED BY <1>1, <1>2, <2>1, <2>2, AsideReset
<1>4. CASE ~ (Len(backlog) >= MaxBacklog)
  <2>1. seg.seq = Isn(Client, 0)
    BY <1>1, SynFacts
  <2>2. PICK u \in Tcbs, f \in net' :
           /\ conn' = [conn EXCEPT ![Server] = u] /\ net' = net \union {f}
           /\ u.state = "SynReceived" /\ HalfOpen'
           /\ f.from = Server /\ f.flags = {"SYN", "ACK"} /\ f.data = <<>>
           /\ f.ack = Plus(Isn(Client, 0), 1) /\ IsOpening(f)'
           /\ isns' = [isns EXCEPT ![Server] = @ + 1]
    BY <1>4, <2>1, PassiveFacts
  <2>3. f.ack = At(Client, j, 0)
    BY <2>2 DEF At, Iss
  <2> DEFINE S == {f}
  <2>4. \A x \in S : /\ x.from = Server /\ "FIN" \notin x.flags /\ Sorted(j, x)'
                     /\ Acks(x, Server) => x.ack = At(Peer(Server), j, 0)
    BY <1>1, <2>2, <2>3 DEF Sorted
  <2>5. net' = net \union S
    BY <2>2
  <2> HIDE DEF S
  <2>6. /\ isns[Server] \in Nat /\ isns[Client] = 1 /\ j < isns[Server] /\ j \in Nat
        /\ isns \in [Hosts -> 0 .. MaxIsn]
    BY <1>1 DEF SyncedOn, TcpType
  <2>7. isns'[Server] = isns[Server] + 1 /\ isns'[Client] = 1
    BY <1>1, <2>2, <2>6
  <2>8. isns[Server] <= isns'[Server] /\ isns'[Server] # j + 1
    BY <2>6, <2>7
  <2>9. /\ u \in Tcbs \union {NoConn} /\ (u # NoConn => Server = Server /\ u.state = "SynReceived")
        /\ (u # NoConn /\ isns'[Server] = j + 1 => u = conn[Server])
        /\ (Server = Client => isns' = isns)
    BY <1>1, <2>2, <2>8
  <2> QED BY <1>1, <1>2, <2>2, <2>4, <2>5, <2>7, <2>8, <2>9, AsideStep
<1> QED BY <1>3, <1>4
LEMMA HalfOpenOnly ==
  ASSUME Common, NEW j, SyncedOn(j), NEW h \in Hosts, conn[h] # NoConn, ~ Synced(conn[h])
  PROVE  /\ h = Server /\ conn[h].state = "SynReceived"
         /\ conn[h].buffer = <<>> /\ conn[h].queue = <<>>
<1>1. h = Client \/ h = Server
  BY DEF Hosts
<1> QED BY <1>1 DEF Synced, SyncedOn, Common, HalfOpen

LEMMA SyncedHandle ==
  ASSUME TcpType, TcpType', Common, NEW j \in 0 .. MaxIsn - 1, SyncedOn(j),
         NEW h \in Hosts, NEW seg \in net, Handle(h, seg)
  PROVE  Common' /\ SyncedOn(j)'
<1> DEFINE S == {}
<1>1. \A f \in S : f.from = h /\ IsRst(f)
  OBVIOUS
<1>2. net = net \union S
  OBVIOUS
<1> HIDE DEF S
<1>3. CASE Reset(h, seg)
  <2>1. conn' = [conn EXCEPT ![h] = NoConn] /\ net' = net \union S
        /\ UNCHANGED <<backlog, isns, wrote, reached>>
    BY <1>2, <1>3 DEF Reset
  <2>2. CASE Synced(conn[h])
    BY <1>1, <2>1, <2>2, GoneStep
  <2>3. CASE ~ Synced(conn[h])
    BY <1>1, <2>1, <2>3, AsideReset
  <2> QED BY <2>2, <2>3
<1>4. CASE Stray(h, seg)
  <2> DEFINE R == {RstFor(h, seg)}
  <2>1. net' = net \union R /\ UNCHANGED <<conn, backlog, isns, wrote, reached>> /\ conn[h] = NoConn
    BY <1>4 DEF Stray
  <2>2. \A f \in R : f.from = h /\ IsRst(f)
    BY RstForFacts
  <2>3. ~ Synced(conn[h])
    BY <2>1 DEF Synced
  <2> HIDE DEF R
  <2> QED BY <2>1, <2>2, <2>3, AsideReset
<1>5. CASE SegSynSent(h, seg)
  <2>1. conn[h] # NoConn /\ conn[h].state = "SynSent"
    BY <1>5 DEF SegSynSent, Receives
  <2>2. h = Client \/ h = Server
    BY DEF Hosts
  <2> QED BY <2>1, <2>2 DEF Common, SyncedOn
<1>6. CASE SegSynReceived(h, seg)
  BY <1>6, SynReceivedSynced
<1>7. CASE SegEstablished(h, seg)
  <2>1. Synced(conn[h])
    BY <1>7 DEF SegEstablished, Receives, Synced
  <2> QED BY <1>7, <2>1, EstablishedSynced
<1>8. CASE SegFinWait1(h, seg)
  <2>1. Synced(conn[h])
    BY <1>8 DEF SegFinWait1, Receives, Synced
  <2> QED BY <1>8, <2>1, FinWait1Synced
<1>9. CASE SegFinWait2(h, seg)
  <2>1. Synced(conn[h])
    BY <1>9 DEF SegFinWait2, Receives, Synced
  <2> QED BY <1>9, <2>1, FinWait2Synced
<1>10. CASE SegClosing(h, seg)
  <2>1. Synced(conn[h])
    BY <1>10 DEF SegClosing, Receives, Synced
  <2> QED BY <1>10, <2>1, ClosingSynced
<1>11. CASE SegLastAck(h, seg)
  <2>1. Synced(conn[h])
    BY <1>11 DEF SegLastAck, Receives, Synced
  <2>2. conn' = [conn EXCEPT ![h] = NoConn] /\ net' = net \union S
        /\ UNCHANGED <<backlog, isns, wrote, reached>>
    BY <1>2, <1>11 DEF SegLastAck
  <2> QED BY <1>1, <2>1, <2>2, GoneStep
<1>12. CASE SegTimeWait(h, seg)
  <2>1. Synced(conn[h])
    BY <1>12 DEF SegTimeWait, Receives, Synced
  <2> QED BY <1>12, <2>1, TimeWaitSynced
<1> QED BY <1>3, <1>4, <1>5, <1>6, <1>7, <1>8, <1>9, <1>10, <1>11, <1>12 DEF Handle

LEMMA SyncedStep ==
  ASSUME TcpType, TcpType', Common, NEW j \in 0 .. MaxIsn - 1, SyncedOn(j), TcpNext
  PROVE  Common' /\ SyncedOn(j)'
<1>1. CASE Connect
  BY <1>1 DEF Connect, SyncedOn
<1>2. CASE Accept
  BY <1>2, AcceptSynced
<1>3. ASSUME NEW h \in Hosts, NEW n \in 1 .. Mss, Send(h, n) PROVE Common' /\ SyncedOn(j)'
  <2>1. Synced(conn[h])
    BY <1>3 DEF Send, Synced
  <2> QED BY <1>3, <2>1, SendSynced
<1>4. ASSUME NEW h \in Hosts, Recv(h) PROVE Common' /\ SyncedOn(j)'
  <2>1. Synced(conn[h])
    BY <1>4, HalfOpenOnly DEF Recv
  <2> QED BY <1>4, <2>1, RecvSynced
<1>5. ASSUME NEW h \in Hosts, Close(h) PROVE Common' /\ SyncedOn(j)'
  <2>1. Synced(conn[h])
    BY <1>5 DEF Close, Synced
  <2> QED BY <1>5, <2>1, CloseSynced
<1>6. ASSUME NEW h \in Hosts, TimeWaitExpires(h) PROVE Common' /\ SyncedOn(j)'
  <2>1. Synced(conn[h])
    BY <1>6 DEF TimeWaitExpires, Synced
  <2> DEFINE S == {}
  <2>2. \A f \in S : f.from = h /\ IsRst(f)
    OBVIOUS
  <2>3. conn' = [conn EXCEPT ![h] = NoConn] /\ net' = net \union S
        /\ UNCHANGED <<backlog, isns, wrote, reached>>
    BY <1>6 DEF TimeWaitExpires
  <2> HIDE DEF S
  <2> QED BY <2>1, <2>2, <2>3, GoneStep
<1>7. ASSUME NEW h \in Hosts, NEW i \in 1 .. MaxWrite[h] + 1, Retransmit(h, i)
      PROVE  Common' /\ SyncedOn(j)'
  <2>1. conn[h] # NoConn /\ i \in 1 .. Len(conn[h].queue)
    BY <1>7 DEF Retransmit
  <2>2. Synced(conn[h])
    <3> SUFFICES ASSUME ~ Synced(conn[h]) PROVE FALSE
      OBVIOUS
    <3>1. conn[h].queue = <<>>
      BY <2>1, HalfOpenOnly
    <3> QED BY <2>1, <3>1
  <2> QED BY <1>7, <2>2, RetransmitSynced
<1>8. ASSUME NEW seg \in net, PassiveOpen(seg) PROVE Common' /\ SyncedOn(j)'
  BY <1>8, PassiveOpenSynced
<1>9. ASSUME NEW seg \in net, NEW h \in Hosts, Handle(h, seg) PROVE Common' /\ SyncedOn(j)'
  BY <1>9, SyncedHandle
<1> QED BY <1>1, <1>2, <1>3, <1>4, <1>5, <1>6, <1>7, <1>8, <1>9 DEF TcpNext

-----------------------------------------------------------------------------
(* The steps before any host is synchronised.                              *)
LEMMA UnsyncedAside ==
  ASSUME TcpType, TcpType', Common, Unsynced, NEW h \in Hosts,
         NEW u \in Tcbs \union {NoConn}, NEW S, conn' = [conn EXCEPT ![h] = u], ~ Synced(u),
         net' = net \union S, \A f \in S : IsRst(f) \/ IsOpening(f)' \/ IsJunk(f),
         UNCHANGED <<backlog, wrote, reached>>, isns'[Client] = 1,
         isns[Server] <= isns'[Server], HalfOpen', Dialling',
         u # NoConn => u.state # IF h = Client THEN "SynReceived" ELSE "SynSent"
  PROVE  Common' /\ Unsynced'
<1>1. Common'
  BY CommonAside
<1>2. conn'[h] = u /\ \A g \in Hosts : g # h => conn'[g] = conn[g]
  BY ConnType
<1>3. Client \in Hosts /\ Server \in Hosts
  BY HostFacts
<1>4. ~ Synced(conn[Client])' /\ ~ Synced(conn[Server])'
  BY <1>2, <1>3 DEF Unsynced, Synced
<1>5. (\A seg \in net : IsRst(seg) \/ IsOpening(seg) \/ IsJunk(seg))'
  <2> SUFFICES ASSUME NEW seg \in net' PROVE (IsRst(seg) \/ IsOpening(seg) \/ IsJunk(seg))'
    OBVIOUS
  <2>1. (IsRst(seg) => IsRst(seg)') /\ (IsJunk(seg) => IsJunk(seg)')
    BY DEF IsRst, IsJunk
  <2>2. CASE seg \in S
    BY <2>1, <2>2
  <2>3. CASE seg \in net
    BY <2>1, <2>3, OpeningGrows DEF Unsynced
  <2> QED BY <2>2, <2>3
<1>6. (backlog = <<>> /\ \A g \in Hosts : wrote[g] = 0)'
  BY DEF Unsynced
<1> QED BY <1>1, <1>4, <1>5, <1>6 DEF Unsynced

LEMMA UnsyncedReset ==
  ASSUME TcpType, TcpType', Common, Unsynced, NEW h \in Hosts, isns[Client] = 1, NEW S,
         \A f \in S : IsRst(f), net' = net \union S,
         conn' = conn \/ conn' = [conn EXCEPT ![h] = NoConn],
         UNCHANGED <<backlog, isns, wrote, reached>>
  PROVE  Common' /\ Unsynced'
<1>0. /\ Client \in Hosts /\ Server \in Hosts /\ Client # Server /\ (h = Client \/ h = Server)
  BY HostFacts DEF Hosts
<1>1. PICK u \in Tcbs \union {NoConn} : conn' = [conn EXCEPT ![h] = u] /\ (u = conn[h] \/ u = NoConn)
  <2>1. CASE conn' = conn
    <3> DEFINE u == conn[h]
    <3>1. u \in Tcbs \union {NoConn} /\ conn' = [conn EXCEPT ![h] = u]
      BY <2>1 DEF TcpType
    <3> QED BY <3>1
  <2>2. CASE conn' = [conn EXCEPT ![h] = NoConn]
    BY <2>2
  <2> QED BY <2>1, <2>2
<1>2. u # NoConn => u.state # IF h = Client THEN "SynReceived" ELSE "SynSent"
  BY <1>0, <1>1 DEF Common
<1>3. ~ Synced(u)
  BY <1>0, <1>1 DEF Synced, Unsynced
<1>4. \A g \in Hosts : conn'[g] = conn[g] \/ conn'[g] = NoConn
  BY <1>1, ConnType
<1>5. HalfOpen'
  BY <1>0, <1>4 DEF HalfOpen, Common
<1>6. Dialling'
  BY <1>0, <1>4 DEF Dialling, Common
<1>7. isns'[Client] = 1 /\ isns[Server] <= isns'[Server]
  BY <1>0 DEF TcpType
<1> QED BY <1>1, <1>2, <1>3, <1>5, <1>6, <1>7, UnsyncedAside

LEMMA ConnectUnsynced ==
  ASSUME TcpType, TcpType', Common, Unsynced, Connect PROVE Common' /\ Unsynced'
<1>1. /\ Client \in Hosts /\ Server \in Hosts /\ Client # Server
      /\ isns[Client] = 0 /\ UNCHANGED <<backlog, wrote, reached>>
      /\ isns \in [Hosts -> 0 .. MaxIsn] /\ isns' = [isns EXCEPT ![Client] = 1]
  BY HostFacts DEF Connect, TcpType
<1> DEFINE iss == Isn(Client, 0)
           u == [NewTcb("SynSent", iss, 0) EXCEPT !.queue = <<Entry(iss, <<Junk>>)>>]
           S == {Segment(Client, iss, 0, {"SYN"}, <<>>)}
<1>2. conn' = [conn EXCEPT ![Client] = u] /\ net' = net \union S
  BY <1>1 DEF Connect, NextIsn
<1>3. isns'[Client] = 1 /\ isns'[Server] = isns[Server] /\ isns[Server] <= isns'[Server]
  BY <1>1
<1>4. conn'[Client] = u /\ conn'[Server] = conn[Server]
  BY <1>1, <1>2 DEF TcpType
<1>5. u \in Tcbs \union {NoConn}
  <2>1. conn'[Client] \in Tcbs \union {NoConn}
    BY <1>1 DEF TcpType
  <2> QED BY <1>4, <2>1
<1>6. /\ u.state = "SynSent" /\ u.nxt = Plus(iss, 1) /\ u.rcv = 0 /\ u.buffer = <<>>
      /\ u.read = <<>> /\ u.queue = <<Entry(iss, <<Junk>>)>>
  BY DEF NewTcb
<1>7. \A f \in S : f.from = Client /\ f.flags = {"SYN"} /\ f.seq = iss /\ f.data = <<>>
  BY DEF Segment
<1> HIDE DEF u, S
<1>8. HalfOpen'
  BY <1>3, <1>4 DEF HalfOpen, Common
<1>9. Dialling'
  <2>1. Plus(iss, 1) = At(Client, 0, 0)
    BY DEF At, Iss
  <2>2. \A i \in 1 .. Len(u.queue) : u.queue[i].seq = iss /\ u.queue[i].data = <<Junk>>
    BY <1>6 DEF Entry
  <2> QED BY <1>4, <1>6, <2>1, <2>2 DEF Dialling
<1>10. \A f \in S : IsRst(f) \/ IsOpening(f)' \/ IsJunk(f)
  BY <1>7 DEF IsOpening
<1>11. ~ Synced(u) /\ u.state # "SynReceived"
  BY <1>6 DEF Synced
<1> QED BY <1>1, <1>2, <1>3, <1>5, <1>8, <1>9, <1>10, <1>11, UnsyncedAside

LEMMA RetransmitUnsynced ==
  ASSUME TcpType, TcpType', Common, Unsynced, NEW h \in Hosts, NEW i, Retransmit(h, i)
  PROVE  Common' /\ Unsynced'
<1>1. /\ Client \in Hosts /\ Server \in Hosts /\ Client # Server /\ (h = Client \/ h = Server)
  BY HostFacts DEF Hosts
<1>2. PICK t : t = conn[h]
  OBVIOUS
<1>3. /\ t # NoConn /\ t \in Tcbs /\ i \in 1 .. Len(t.queue)
      /\ UNCHANGED <<backlog, isns, wrote, reached>>
  BY <1>2, ConnTcb DEF Retransmit
<1>4. h = Client /\ t.state = "SynSent"
  <2>1. CASE h = Server
    <3>1. t.queue = <<>>
      BY <1>2, <1>3, <2>1 DEF Unsynced, Synced, Common, HalfOpen
    <3>2. Len(t.queue) = 0
      BY <3>1
    <3> QED BY <1>3, <3>2
  <2>2. CASE h = Client
    BY <1>2, <1>3, <2>2 DEF Unsynced, Synced, Common
  <2> QED BY <1>1, <2>1, <2>2
<1>5. isns[Client] = 1 /\ isns[Server] <= isns'[Server]
  BY <1>1, <1>2, <1>3, <1>4 DEF Common, TcpType
<1> DEFINE e == t.queue[i]
<1>6. /\ t.nxt = At(Client, 0, 0) /\ t.rcv = 0 /\ t.buffer = <<>> /\ t.read = <<>>
      /\ \A x \in 1 .. Len(t.queue) : t.queue[x].seq = Isn(Client, 0) /\ t.queue[x].data = <<Junk>>
  BY <1>2, <1>3, <1>4 DEF Common, Dialling
<1>7. t.queue \in Queues /\ e \in Entries /\ e.seq = Isn(Client, 0) /\ e.data = <<Junk>>
  BY <1>3, <1>6, TcbFields DEF Queues
<1>8. CASE e.count >= MAX_RETRANSMIT
  <2> DEFINE S == {Segment(h, t.nxt, t.rcv, {"RST"}, <<>>)}
  <2>1. conn' = [conn EXCEPT ![h] = NoConn] /\ net' = net \union S
    BY <1>2, <1>8 DEF Retransmit
  <2>2. \A x \in S : IsRst(x)
    BY DEF IsRst, Segment
  <2> HIDE DEF S
  <2> QED BY <1>3, <1>5, <2>1, <2>2, UnsyncedReset
<1>9. CASE ~ (e.count >= MAX_RETRANSMIT)
  <2> DEFINE f == [e EXCEPT !.count = Counted(e.count)]
             q == [t.queue EXCEPT ![i] = f]
             u == [t EXCEPT !.queue = q]
             S == {Segment(h, e.seq, t.rcv, {"ACK"}, e.data)}
  <2>1. conn' = [conn EXCEPT ![h] = u] /\ net' = net \union S
    BY <1>2, <1>9 DEF Retransmit, TcpType
  <2>2. f \in Entries /\ f.seq = e.seq /\ f.data = e.data
    BY <1>7 DEF Entries, Counted
  <2>3. \A x \in S : IsJunk(x)
    BY <1>4, <1>6, <1>7 DEF Segment, IsJunk
  <2> HIDE DEF f, S
  <2>4. q \in Queues /\ Len(q) = Len(t.queue) /\ \A x \in 1 .. Len(q) : q[x] = IF x = i THEN f ELSE t.queue[x]
    BY <1>3, <1>7, <2>2 DEF Queues
  <2> HIDE DEF q
  <2>5. /\ u \in Tcbs /\ u.read = t.read /\ u.buffer = t.buffer /\ u.state = t.state
        /\ u.rcv = t.rcv /\ u.nxt = t.nxt /\ u.queue = q
    BY <1>3, <2>4, TcbRecord
  <2> HIDE DEF u
  <2>6. conn'[Client] = u /\ conn'[Server] = conn[Server]
    BY <1>1, <1>4, <2>1, <2>5, ConnType
  <2>7. \A x \in 1 .. Len(u.queue) : u.queue[x].seq = Isn(Client, 0) /\ u.queue[x].data = <<Junk>>
    BY <1>6, <1>7, <2>2, <2>4, <2>5
  <2>8. Dialling'
    BY <1>6, <2>5, <2>6, <2>7 DEF Dialling
  <2>9. HalfOpen'
    BY <1>3, <2>6 DEF HalfOpen, Common
  <2>10. ~ Synced(u) /\ u.state # "SynReceived" /\ isns'[Client] = 1
    BY <1>3, <1>4, <1>5, <2>5 DEF Synced
  <2> QED BY <1>3, <1>4, <1>5, <2>1, <2>3, <2>5, <2>8, <2>9, <2>10, UnsyncedAside
<1> QED BY <1>8, <1>9

LEMMA PassiveOpenUnsynced ==
  ASSUME TcpType, TcpType', Common, Unsynced, NEW seg \in net, PassiveOpen(seg)
  PROVE  Common' /\ Unsynced'
<1>1. /\ Client \in Hosts /\ Server \in Hosts /\ Client # Server /\ Peer(Server) = Client
      /\ conn[Server] = NoConn /\ IsSyn(seg) /\ UNCHANGED <<backlog, wrote, reached>>
      /\ isns[Client] = 1 /\ isns \in [Hosts -> 0 .. MaxIsn]
  BY HostFacts DEF PassiveOpen, Common, TcpType
<1>2. CASE Len(backlog) >= MaxBacklog
  <2> DEFINE S == {RstFor(Server, seg)}
  <2>1. net' = net \union S /\ UNCHANGED <<conn, isns>>
    BY <1>2 DEF PassiveOpen
  <2>2. \A f \in S : IsRst(f)
    BY RstForFacts
  <2> HIDE DEF S
  <2> QED BY <1>1, <2>1, <2>2, UnsyncedReset
<1>3. CASE ~ (Len(backlog) >= MaxBacklog)
  <2>1. seg.seq = Isn(Client, 0)
    BY <1>1, SynFacts
  <2>2. PICK u \in Tcbs, f \in net' :
           /\ conn' = [conn EXCEPT ![Server] = u] /\ net' = net \union {f}
           /\ u.state = "SynReceived" /\ HalfOpen'
           /\ f.from = Server /\ f.flags = {"SYN", "ACK"} /\ f.data = <<>>
           /\ f.ack = Plus(Isn(Client, 0), 1) /\ IsOpening(f)'
           /\ isns' = [isns EXCEPT ![Server] = @ + 1]
    BY <1>3, <2>1, PassiveFacts
  <2> DEFINE S == {f}
  <2>3. net' = net \union S /\ \A x \in S : IsRst(x) \/ IsOpening(x)' \/ IsJunk(x)
    BY <2>2
  <2> HIDE DEF S
  <2>4. isns'[Client] = 1 /\ isns[Server] <= isns'[Server]
    BY <1>1, <2>2
  <2>5. Dialling'
    <3>1. conn'[Client] = conn[Client]
      BY <1>1, <2>2, ConnType
    <3> QED BY <3>1 DEF Dialling, Common
  <2>6. ~ Synced(u) /\ u.state # "SynSent" /\ u \in Tcbs \union {NoConn}
    BY <2>2 DEF Synced
  <2> QED BY <1>1, <2>2, <2>3, <2>4, <2>5, <2>6, UnsyncedAside
<1> QED BY <1>2, <1>3

(* The SYN-ACK of the draw i synchronises the client with stream i.        *)
LEMMA SynAckSynced ==
  ASSUME TcpType, TcpType', Common, Unsynced, NEW i \in 0 .. isns[Server] - 1, NEW t \in Tcbs,
         t = conn[Client], t # NoConn, t.state = "SynSent", NEW u \in Tcbs, NEW f,
         conn' = [conn EXCEPT ![Client] = u], net' = net \union {f}, f = AckOf(Client, u),
         u.rcv = Plus(Isn(Server, i), 1), u.una = Plus(Isn(Client, 0), 1),
         u.state = "Established", u.queue = <<>>,
         u.nxt = t.nxt, u.buffer = t.buffer, u.read = t.read,
         isns[Client] = 1, UNCHANGED <<backlog, isns, wrote, reached>>
  PROVE  Common' /\ SyncedOn(i)'
<1>1. /\ Client \in Hosts /\ Server \in Hosts /\ Client # Server
      /\ Peer(Server) = Client /\ Peer(Client) = Server
  BY HostFacts
<1>2. /\ isns[Server] \in Nat /\ i \in Nat /\ i < isns[Server]
      /\ wrote[Client] = 0 /\ wrote[Server] = 0 /\ reached[Client] \in Nat /\ reached[Server] \in Nat
      /\ \A g \in Hosts : wrote'[g] = 0
  BY <1>1 DEF TcpType, Unsynced
<1>3. reached[Client] = 0 /\ reached[Server] = 0
  BY <1>1, <1>2 DEF Common
<1>4. conn'[Client] = u /\ conn'[Server] = conn[Server]
  BY <1>1, ConnType
<1>5. t.nxt = At(Client, 0, 0) /\ t.buffer = <<>> /\ t.read = <<>>
  BY DEF Common, Dialling
<1>6. /\ f.from = Client /\ f.flags = {"ACK"} /\ f.ack = u.rcv /\ f.data = <<>>
  BY DEF AckOf, Segment
<1>7. u.rcv = At(Server, i, 0) /\ u.una = At(Client, i, 0)
  BY <1>1 DEF At, Iss
<1>8. /\ ~ Synced(conn[Server])'
  BY <1>4 DEF Synced, Unsynced
<1>9. HalfOpen' /\ Dialling'
  <2>1. HalfOpen'
    BY <1>4 DEF HalfOpen, Common
  <2>2. Dialling'
    BY <1>4 DEF Dialling
  <2> QED BY <2>1, <2>2
<1>10. Common'
  <2>1. isns'[Client] = 1 /\ u.state # "SynReceived" /\ u \in Tcbs \union {NoConn}
    OBVIOUS
  <2> QED BY <1>1, <1>9, <2>1, CommonAside
<1>11. \A seg \in net : IsRst(seg) \/ IsOpening(seg) \/ IsJunk(seg)
  BY DEF Unsynced
<1>12. (~ FinSent(Client) /\ ~ FinSent(Server))'
  <2>1. \A seg \in net' : "FIN" \notin seg.flags
    BY <1>6, <1>11 DEF IsRst, IsOpening, IsJunk
  <2> QED BY <2>1 DEF FinSent
<1>13. (\A seg \in net : Sorted(i, seg))'
  <2> SUFFICES ASSUME NEW seg \in net' PROVE Sorted(i, seg)'
    OBVIOUS
  <2>1. CASE seg \in net
    BY <1>11, <2>1 DEF Sorted, IsRst, IsOpening, IsJunk
  <2>2. CASE seg = f
    <3>1. (\E m \in 0 .. reached[Server] + Flag(FinSent(Server)) : f.ack = At(Server, i, m))'
      <4>1. 0 \in 0 .. reached'[Server] + Flag(FinSent(Server)')
        BY <1>3 DEF Flag
      <4> QED BY <1>6, <1>7, <4>1
    <3>2. IsOpen(f, i)'
      BY <1>1, <1>6, <3>1 DEF IsOpen
    <3> QED BY <2>2, <3>2 DEF Sorted
  <2> QED BY <2>1, <2>2
<1>14. GoodTcb(Client, i, u)'
  <2>1. /\ ~ FinIn(u) /\ ~ FinOut(u) /\ Stream(u) = <<>> /\ Len(Stream(u)) = 0
        /\ Taken(u) = 0 /\ Flag(FinOut(u)) = 0
    <3>1. ~ FinIn(u) /\ ~ FinOut(u)
      BY DEF FinIn, FinOut
    <3>2. Stream(u) = <<>>
      BY <1>5 DEF Stream
    <3>3. Len(Stream(u)) = 0
      BY <3>2
    <3> QED BY <3>1, <3>2, <3>3 DEF Taken, Flag
  <2>2. GoodIn(Client, i, u)'
    <3>1. Counts(Stream(u))
      BY <2>1 DEF Counts
    <3> QED BY <1>1, <1>3, <1>7, <2>1, <3>1 DEF GoodIn
  <2>3. GoodOut(Client, i, u)'
    <3>1. u.nxt = At(Client, i, 0)
      BY <1>5, ClientAt
    <3>2. wrote'[Client] + Flag(FinOut(u)) = 0 /\ 0 \in 0 .. 0
      BY <1>1, <1>2, <2>1
    <3> QED BY <1>7, <1>12, <3>1, <3>2 DEF GoodOut
  <2>4. GoodQueue(Client, i, u)'
    BY <1>1, <1>2 DEF GoodQueue, Kept
  <2>5. GoodAcks(Client, i, u)'
    <3>1. ASSUME NEW seg \in net', Acks(seg, Client)'
          PROVE  \E m \in 0 .. Taken(u) : seg.ack = At(Server, i, m)
      <4>1. seg \notin net
        BY <1>1, <1>11, <3>1 DEF Acks, IsRst, IsJunk, IsOpening
      <4>2. seg = f /\ 0 \in 0 .. Taken(u)
        BY <2>1, <4>1
      <4> QED BY <1>6, <1>7, <4>2
    <3> QED BY <1>1, <3>1 DEF GoodAcks
  <2>6. GoodFin(Client, u)'
    BY DEF GoodFin
  <2> QED BY <2>2, <2>3, <2>4, <2>5, <2>6 DEF GoodTcb
<1>15. Untouched(i)'
  <2>1. ASSUME NEW seg \in net', Acks(seg, Server)' PROVE seg.ack = At(Client, i, 0)
    <3>1. seg \in net
      BY <1>1, <1>6, <2>1 DEF Acks
    <3>2. seg.ack = Plus(Isn(Client, 0), 1)
      BY <1>1, <1>11, <2>1, <3>1 DEF Acks, IsRst, IsJunk, IsOpening
    <3> QED BY <3>2 DEF At, Iss
  <2> QED BY <1>1, <1>2, <1>3, <1>12, <2>1 DEF Untouched
<1>16. backlog' = <<>>
  BY DEF Unsynced
<1>17. (\A g \in Hosts : Synced(conn[g]) => GoodTcb(g, i, conn[g]))'
  <2>1. Synced(conn[Client])' => GoodTcb(Client, i, conn[Client])'
    BY <1>4, <1>14, GoodConn
  <2> QED BY <1>8, <2>1 DEF Hosts
<1> QED BY <1>2, <1>4, <1>10, <1>13, <1>15, <1>16, <1>17 DEF SyncedOn, Sorted

LEMMA SynSentUnsynced ==
  ASSUME TcpType, TcpType', Common, Unsynced, NEW h \in Hosts, NEW seg \in net, SegSynSent(h, seg)
  PROVE  Common' /\ (Unsynced \/ \E j \in 0 .. MaxIsn - 1 : SyncedOn(j))'
<1>1. PICK t : t = conn[h]
  OBVIOUS
<1>2. /\ t # NoConn /\ t \in Tcbs /\ t.state = "SynSent" /\ seg.from = Peer(h)
      /\ "RST" \notin seg.flags /\ "SYN" \in seg.flags /\ "ACK" \in seg.flags
      /\ UNCHANGED <<backlog, isns, wrote, reached>>
  BY <1>1, ConnTcb DEF SegSynSent, Receives, Arrives
<1>3. h = Client /\ isns[Client] = 1 /\ Server \in Hosts /\ Client # Server
  <2>1. h = Client \/ h = Server
    BY DEF Hosts
  <2> QED BY <1>1, <1>2, <2>1, HostFacts DEF Common
<1>4. CASE seg.ack # conn[h].nxt
  <2> DEFINE S == {Segment(h, seg.ack, 0, {"RST"}, <<>>)}
  <2>1. net' = net \union S /\ UNCHANGED conn
    BY <1>4 DEF SegSynSent
  <2>2. \A f \in S : IsRst(f)
    BY DEF IsRst, Segment
  <2> HIDE DEF S
  <2> QED BY <1>2, <1>3, <2>1, <2>2, UnsyncedReset
<1>5. CASE seg.ack = conn[h].nxt
  <2>1. IsOpening(seg)
    BY <1>2 DEF Unsynced, IsRst, IsJunk
  <2>2. PICK i \in 0 .. isns[Server] - 1 : seg.seq = Isn(Server, i)
    BY <1>2, <2>1 DEF IsOpening
  <2>3. seg.ack = Plus(Isn(Client, 0), 1)
    BY <1>2, <2>1 DEF IsOpening
  <2> DEFINE u == [t EXCEPT !.rcv = Plus(seg.seq, 1), !.una = seg.ack,
                            !.state = "Established", !.queue = <<>>]
             f == AckOf(Client, u)
  <2>4. conn' = [conn EXCEPT ![Client] = u] /\ net' = net \union {f}
    BY <1>1, <1>3, <1>5 DEF SegSynSent
  <2>5. u \in Tcbs
    <3>1. seg \in Segments
      BY DEF TcpType
    <3>2. seg.ack \in SeqNums /\ seg.seq \in Nat
      BY <3>1, SegmentFields, BoundFacts DEF SeqNums
    <3>3. Plus(seg.seq, 1) \in SeqNums /\ "Established" \in States
      BY <3>2, PlusType DEF States
    <3>4. <<>> \in Queues
      BY DEF Queues
    <3> QED BY <1>2, <3>2, <3>3, <3>4, TcbRecord
  <2>6. /\ u.rcv = Plus(Isn(Server, i), 1) /\ u.una = Plus(Isn(Client, 0), 1)
        /\ u.state = "Established" /\ u.queue = <<>>
        /\ u.nxt = t.nxt /\ u.buffer = t.buffer /\ u.read = t.read
    BY <1>2, <2>2, <2>3, TcbRecord
  <2>7. f = AckOf(Client, u)
    OBVIOUS
  <2> HIDE DEF u, f
  <2>8. Common' /\ SyncedOn(i)'
    BY <1>1, <1>2, <1>3, <2>4, <2>5, <2>6, <2>7, SynAckSynced
  <2>9. i \in 0 .. MaxIsn - 1
    BY <1>3, BoundFacts DEF TcpType
  <2> QED BY <2>8, <2>9
<1> QED BY <1>4, <1>5

LEMMA UnsyncedHandle ==
  ASSUME TcpType, TcpType', Common, Unsynced, NEW h \in Hosts, NEW seg \in net, Handle(h, seg)
  PROVE  Common' /\ (Unsynced \/ \E j \in 0 .. MaxIsn - 1 : SyncedOn(j))'
<1>1. /\ ~ Synced(conn[h]) /\ isns[Client] = 1 /\ Client # Server
      /\ Peer(Server) = Client /\ Client \in Hosts /\ Server \in Hosts
  BY HostFacts DEF Unsynced, Hosts, Common
<1>2. CASE Reset(h, seg)
  <2> DEFINE S == {}
  <2>1. (\A f \in S : IsRst(f)) /\ net' = net \union S
    BY <1>2 DEF Reset
  <2>2. conn' = [conn EXCEPT ![h] = NoConn] /\ UNCHANGED <<backlog, isns, wrote, reached>>
    BY <1>2 DEF Reset
  <2> HIDE DEF S
  <2> QED BY <1>1, <2>1, <2>2, UnsyncedReset
<1>3. CASE Stray(h, seg)
  <2> DEFINE S == {RstFor(h, seg)}
  <2>1. net' = net \union S /\ UNCHANGED <<conn, backlog, isns, wrote, reached>>
    BY <1>3 DEF Stray
  <2>2. \A f \in S : IsRst(f)
    BY RstForFacts
  <2> HIDE DEF S
  <2> QED BY <1>1, <2>1, <2>2, UnsyncedReset
<1>4. CASE SegSynSent(h, seg)
  BY <1>4, SynSentUnsynced
<1>5. CASE SegSynReceived(h, seg)
  <2>1. /\ conn[h] # NoConn /\ conn[h].state = "SynReceived" /\ seg.from = Peer(h)
        /\ "RST" \notin seg.flags /\ "ACK" \in seg.flags /\ seg.ack = conn[h].nxt
    BY <1>5 DEF SegSynReceived, Receives, Arrives
  <2>2. h = Server
    BY <2>1 DEF Common, Hosts
  <2>3. IsJunk(seg)
    BY <1>1, <2>1, <2>2 DEF Unsynced, IsRst, IsOpening
  <2>4. isns[Server] > 0 /\ conn[Server].nxt = Plus(Isn(Server, isns[Server] - 1), 1)
    BY <2>1, <2>2 DEF Common, HalfOpen
  <2>5. PICK j : j = isns[Server] - 1
    OBVIOUS
  <2>6. j \in 0 .. MaxIsn - 1 /\ 0 \in 0 .. MaxWrite[Server] + 1
    <3>1. isns[Server] \in 0 .. MaxIsn /\ MaxWrite[Server] \in Nat /\ MaxIsn \in Nat
      BY <1>1, BoundFacts DEF TcpType
    <3> QED BY <2>4, <2>5, <3>1
  <2>7. At(Server, j, 0) = Plus(Isn(Server, j), 1)
    BY <1>1 DEF At, Iss
  <2>8. seg.ack = 0 /\ seg.ack = At(Server, j, 0)
    BY <2>1, <2>2, <2>3, <2>4, <2>5, <2>7 DEF IsJunk
  <2>9. At(Server, j, 0) # 0
    BY <2>6, ServerNumbers
  <2> QED BY <2>8, <2>9
<1>6. CASE \/ SegEstablished(h, seg) \/ SegFinWait1(h, seg) \/ SegFinWait2(h, seg)
           \/ SegClosing(h, seg) \/ SegLastAck(h, seg) \/ SegTimeWait(h, seg)
  <2>1. conn[h] # NoConn /\ conn[h].state \notin {"SynSent", "SynReceived"}
    BY <1>6 DEF SegEstablished, SegFinWait1, SegFinWait2, SegClosing, SegLastAck, SegTimeWait, Receives
  <2> QED BY <1>1, <2>1 DEF Synced
<1> QED BY <1>2, <1>3, <1>4, <1>5, <1>6 DEF Handle

LEMMA UnsyncedStep ==
  ASSUME TcpType, TcpType', Common, Unsynced, TcpNext
  PROVE  Common' /\ (Unsynced \/ \E j \in 0 .. MaxIsn - 1 : SyncedOn(j))'
<1>1. \A h \in Hosts : ~ Synced(conn[h])
  BY DEF Unsynced, Hosts
<1>2. CASE Connect
  BY <1>2, ConnectUnsynced
<1>3. CASE Accept
  BY <1>3 DEF Accept, Unsynced
<1>4. ASSUME NEW h \in Hosts, (\E n \in 1 .. Mss : Send(h, n)) \/ Close(h) \/ TimeWaitExpires(h)
      PROVE  FALSE
  <2>1. conn[h] # NoConn /\ conn[h].state \in {"Established", "CloseWait", "TimeWait"}
    BY <1>4 DEF Send, Close, TimeWaitExpires
  <2> QED BY <1>1, <2>1 DEF Synced
<1>5. ASSUME NEW h \in Hosts, Recv(h) PROVE FALSE
  <2>1. conn[h] # NoConn /\ conn[h].buffer # <<>> /\ conn[h].state \in {"SynSent", "SynReceived"}
    BY <1>1, <1>5 DEF Recv, Synced
  <2>2. h = Client \/ h = Server
    BY DEF Hosts
  <2> QED BY <2>1, <2>2 DEF Common, HalfOpen, Dialling
<1>6. ASSUME NEW h \in Hosts, NEW i, Retransmit(h, i) PROVE Common' /\ Unsynced'
  BY <1>6, RetransmitUnsynced
<1>7. ASSUME NEW seg \in net, PassiveOpen(seg) PROVE Common' /\ Unsynced'
  BY <1>7, PassiveOpenUnsynced
<1>8. ASSUME NEW seg \in net, NEW h \in Hosts, Handle(h, seg)
      PROVE  Common' /\ (Unsynced \/ \E j \in 0 .. MaxIsn - 1 : SyncedOn(j))'
  BY <1>8, UnsyncedHandle
<1> QED BY <1>2, <1>3, <1>4, <1>5, <1>6, <1>7, <1>8 DEF TcpNext

-----------------------------------------------------------------------------
(* The invariant, and what follows from it.                                *)
LEMMA TcpInvInit == TcpInit => TcpInv
<1> SUFFICES ASSUME TcpInit PROVE TcpInv
  OBVIOUS
<1>1. TcpType
  BY TcpTypeInit
<1>2. Client \in Hosts /\ Server \in Hosts
  BY HostFacts
<1>3. /\ conn[Client] = NoConn /\ conn[Server] = NoConn /\ backlog = <<>> /\ net = {}
      /\ \A h \in Hosts : wrote[h] = 0 /\ reached[h] = 0
  BY <1>2 DEF TcpInit
<1>4. Common
  <2>1. \A h \in Hosts : reached[h] <= wrote[h] /\ wrote[h] <= MaxWrite[h]
    BY <1>3, BoundFacts
  <2> QED BY <1>3, <2>1 DEF Common, HalfOpen, Dialling
<1>5. Unsynced
  BY <1>3 DEF Unsynced, Synced
<1> QED BY <1>1, <1>4, <1>5 DEF TcpInv

LEMMA TcpInvStep == ASSUME TcpInv, [TcpNext]_vars PROVE TcpInv'
<1>1. TcpType /\ TcpType' /\ Common
  BY TcpTypeStep DEF TcpInv
<1>2. CASE UNCHANGED vars
  <2>1. UNCHANGED <<conn, backlog, isns, net, wrote, reached>>
    BY <1>2 DEF vars
  <2>2. Common'
    BY <1>1, <2>1 DEF Common, HalfOpen, Dialling
  <2>3. Unsynced => Unsynced'
    BY <2>1 DEF Unsynced, Synced, IsRst, IsJunk, IsOpening
  <2>4. ASSUME NEW j \in 0 .. MaxIsn - 1, SyncedOn(j) PROVE SyncedOn(j)'
    <3>1. \A h : FinSent(h)' <=> FinSent(h)
      BY <2>1 DEF FinSent
    <3>2. \A h, t : GoodTcb(h, j, t) => GoodTcb(h, j, t)'
      BY <2>1, <3>1 DEF GoodTcb, GoodIn, GoodOut, GoodQueue, GoodAcks, GoodFin, Kept, Placed, Acks,
                        IsRst, IsJunk
    <3>3. \A seg \in net : IsOpen(seg, j) => IsOpen(seg, j)'
      BY <2>1, <3>1 DEF IsOpen, Placed
    <3>4. \A seg \in net : IsRst(seg) \/ IsOpening(seg) \/ IsJunk(seg) =>
                           IsRst(seg)' \/ IsOpening(seg)' \/ IsJunk(seg)'
      BY <2>1 DEF IsRst, IsOpening, IsJunk
    <3>5. Untouched(j) => Untouched(j)'
      BY <2>1, <3>1 DEF Untouched, Acks, IsRst, IsJunk
    <3>6. \A h : conn'[h] = conn[h] /\ (Synced(conn[h])' <=> Synced(conn[h]))
      BY <2>1 DEF Synced
    <3>7. \A h \in Hosts : GoodTcb(h, j, conn[h]) => GoodTcb(h, j, conn[h])'
      BY <3>2, <3>6, GoodConn
    <3>8. GoodTcb(Server, j, backlog[1]) => GoodTcb(Server, j, backlog[1])'
      BY <2>1, <3>2, GoodBacklog
    <3> QED BY <2>1, <2>4, <3>3, <3>4, <3>5, <3>6, <3>7, <3>8 DEF SyncedOn
  <2> QED BY <1>1, <2>2, <2>3, <2>4 DEF TcpInv
<1>3. CASE TcpNext
  <2>1. CASE Unsynced
    BY <1>1, <1>3, <2>1, UnsyncedStep DEF TcpInv
  <2>2. ASSUME NEW j \in 0 .. MaxIsn - 1, SyncedOn(j) PROVE TcpInv'
    BY <1>1, <1>3, <2>2, SyncedStep DEF TcpInv
  <2> QED BY <2>1, <2>2 DEF TcpInv
<1> QED BY <1>2, <1>3

LEMMA TcpInvariant == TcpSpec => []TcpInv
BY TcpInvInit, TcpInvStep, PTL DEF TcpSpec

LEMMA InvPrefix == TcpInv => StreamIsPrefix
<1> SUFFICES ASSUME TcpInv, NEW h \in Hosts, conn[h] # NoConn
             PROVE  LET s == conn[h].read \o conn[h].buffer IN
                      Len(s) <= wrote[Peer(h)] /\ \A j \in 1 .. Len(s) : s[j] = j
  BY DEF StreamIsPrefix
<1> DEFINE s == conn[h].read \o conn[h].buffer
<1>1. TcpType /\ Common /\ Peer(h) \in Hosts /\ wrote[Peer(h)] \in Nat
  BY HostFacts DEF TcpInv, TcpType
<1>2. CASE Synced(conn[h])
  <2>1. PICK j \in 0 .. MaxIsn - 1 : SyncedOn(j)
    BY <1>2 DEF TcpInv, Unsynced, Hosts
  <2>2. GoodTcb(h, j, conn[h]) /\ conn[h] \in Tcbs
    BY <1>1, <1>2, <2>1, SyncedFacts
  <2>3. Counts(s) /\ Len(s) <= reached[Peer(h)]
    BY <2>2 DEF GoodTcb, GoodIn, Stream
  <2>4. Len(s) \in Nat
    BY <2>2, StreamLen DEF Stream
  <2>5. reached[Peer(h)] <= wrote[Peer(h)] /\ reached[Peer(h)] \in Nat
    BY <1>1 DEF Common, TcpType
  <2> HIDE DEF s
  <2>6. Len(s) <= wrote[Peer(h)] /\ \A x \in 1 .. Len(s) : s[x] = x
    BY <1>1, <2>3, <2>4, <2>5 DEF Counts
  <2> QED BY <2>6 DEF s
<1>3. CASE ~ Synced(conn[h])
  <2>1. conn[h].read = <<>> /\ conn[h].buffer = <<>>
    BY <1>1, <1>3 DEF Synced, Common, HalfOpen, Dialling, Hosts
  <2>2. s = <<>>
    BY <2>1
  <2>3. Len(s) = 0 /\ 1 .. Len(s) = {}
    BY <2>2
  <2> HIDE DEF s
  <2>4. Len(s) <= wrote[Peer(h)] /\ \A x \in 1 .. Len(s) : s[x] = x
    BY <1>1, <2>3
  <2> QED BY <2>4 DEF s
<1> QED BY <1>2, <1>3

LEMMA InvNothingForgotten == TcpInv => NothingForgotten
<1> SUFFICES ASSUME TcpInv, NEW h \in Hosts, conn[h] # NoConn, conn[h].state # "SynReceived"
             PROVE  Kept(h, conn[h])
  BY DEF NothingForgotten, Kept
<1>1. TcpType /\ Common
  BY DEF TcpInv
<1>2. CASE Unsynced
  BY <1>2 DEF Unsynced, Kept
<1>3. ASSUME NEW j \in 0 .. MaxIsn - 1, SyncedOn(j) PROVE Kept(h, conn[h])
  <2>1. Synced(conn[h])
    BY <1>1, <1>3, HalfOpenOnly
  <2> QED BY <1>3, <2>1 DEF SyncedOn, GoodTcb, GoodQueue
<1> QED BY <1>2, <1>3 DEF TcpInv

LEMMA InvHalfClose == TcpInv => HalfCloseAgreed
<1> SUFFICES ASSUME TcpInv, NEW h \in Hosts, conn[h] # NoConn, conn[Peer(h)] # NoConn,
                    conn[h].state = "FinWait2", conn[Peer(h)].state = "Established"
             PROVE  FALSE
  BY DEF HalfCloseAgreed
<1>1. TcpType /\ Common /\ Peer(h) \in Hosts /\ Peer(Peer(h)) = h
  BY HostFacts DEF TcpInv
<1>2. Synced(conn[h]) /\ Synced(conn[Peer(h)])
  BY DEF Synced
<1>3. PICK j \in 0 .. MaxIsn - 1 : SyncedOn(j)
  BY <1>2 DEF TcpInv, Unsynced, Hosts
<1> DEFINE t == conn[h]
           p == conn[Peer(h)]
<1>4. /\ j \in Nat /\ t \in Tcbs /\ GoodTcb(h, j, t) /\ wrote[h] \in Nat /\ MaxWrite[h] \in Nat
      /\ wrote[h] <= MaxWrite[h] /\ reached[h] \in Nat /\ reached[h] <= wrote[h]
  BY <1>1, <1>2, <1>3, SyncedFacts
<1>5. p \in Tcbs /\ GoodTcb(Peer(h), j, p)
  BY <1>1, <1>2, <1>3, SyncedFacts
<1>6. t.nxt = At(h, j, wrote[h] + 1)
  <2>1. Flag(FinOut(t)) = 1
    BY DEF Flag, FinOut
  <2> QED BY <1>4, <2>1 DEF GoodTcb, GoodOut
<1>7. PICK seg \in net : Acks(seg, Peer(h)) /\ seg.ack = t.nxt
  BY <1>4 DEF GoodTcb, GoodFin
<1>8. PICK m \in 0 .. Taken(p) : seg.ack = At(h, j, m)
  BY <1>1, <1>5, <1>7 DEF GoodTcb, GoodAcks
<1>9. Taken(p) = Len(Stream(p)) /\ Len(Stream(p)) \in Nat
  <2>1. Flag(FinIn(p)) = 0 /\ Len(Stream(p)) \in Nat
    BY <1>5, StreamLen DEF Flag, FinIn
  <2> QED BY <2>1 DEF Taken
<1>10. Len(Stream(p)) <= reached[h]
  BY <1>1, <1>5 DEF GoodTcb, GoodIn
<1>11. m \in 0 .. MaxWrite[h] + 2 /\ wrote[h] + 1 \in 0 .. MaxWrite[h] + 2 /\ m # wrote[h] + 1
  <2> DEFINE n == Taken(p)
  <2>1. m \in 0 .. n /\ n \in Nat /\ n <= reached[h]
    BY <1>8, <1>9, <1>10
  <2> HIDE DEF n
  <2> QED BY <1>4, <2>1
<1>12. At(h, j, m) = At(h, j, wrote[h] + 1)
  BY <1>6, <1>7, <1>8
<1>13. m = wrote[h] + 1
  <2> DEFINE k == wrote[h] + 1
  <2>1. k \in 0 .. MaxWrite[h] + 2 /\ At(h, j, m) = At(h, j, k)
    BY <1>11, <1>12
  <2> HIDE DEF k
  <2>2. m = k
    BY <1>4, <1>11, <2>1, AtInjective
  <2> QED BY <2>2 DEF k
<1> QED BY <1>11, <1>13

-----------------------------------------------------------------------------
(* TcpSocketTable keeps its state well formed under loss, duplication and  *)
(* reordering: every control block and segment carries numbers of the      *)
(* sequence space, and no handler leaves a state that is not one of        *)
(* TcpState's.                                                             *)
THEOREM TcpTypeCorrect == TcpSpec => []TcpType
<1>1. TcpInv => TcpType
  BY DEF TcpInv
<1> QED BY <1>1, TcpInvariant, PTL

(* What recv hands the application is a prefix of what the peer wrote      *)
(* (handle_established takes payload in order only), for any number of     *)
(* bytes within the bounds of NumbersAssumption and any number of losses,  *)
(* duplicates, resets and reopened connections of the server.              *)
THEOREM StreamPrefix == TcpSpec => []StreamIsPrefix
BY InvPrefix, TcpInvariant, PTL

(* process_ack drops a byte from the retransmit queue only after the peer  *)
(* put it into its receive buffer.                                         *)
THEOREM NothingLost == TcpSpec => []NothingForgotten
BY InvNothingForgotten, TcpInvariant, PTL

(* A host that took its FIN for acknowledged (FIN_WAIT_2) is never wrong   *)
(* about it: the peer is not in ESTABLISHED.                               *)
THEOREM HalfClose == TcpSpec => []HalfCloseAgreed
BY InvHalfClose, TcpInvariant, PTL

=============================================================================
