----------------------------- MODULE SocketRelay -----------------------------
(***************************************************************************)
(* A socket system call: the kernel relay net_socket_relay_full sends the  *)
(* request on the channel "stack" and waits for the answer on the channel  *)
(* "stack_reply", which all callers share; the service loop of             *)
(* nexacore-net-image takes requests, lets NetworkService handle them and  *)
(* sends the answers.  The answer to a TCP Connect is deferred until the   *)
(* handshake ends (pending_connect) or a deadline passes.  An answer that  *)
(* does not fit the service's 4096-byte buffer is not sent at all.         *)
(*                                                                         *)
(* The relay runs with interrupts masked, so sending and the first look at *)
(* the reply channel are one step.  A request carries the caller and a     *)
(* number; the code's messages carry neither, so no guard looks at them.   *)
(***************************************************************************)
EXTENDS Integers, Sequences, FiniteSets

CONSTANTS
    Clients,            \* tasks that make socket calls
    Depth,              \* IPC_QUEUE_DEPTH
    Numbers,            \* bound: call numbers are reused modulo Numbers
    NoRequest,
    DeadlineReached,    \* whether a handshake may outlast CONNECT_TIMEOUT_MS
    MaxUnanswered       \* bound: answers that do not fit the buffer

\* "other" is every request that is answered at once, a Connect the TCP table
\* refuses included.  The NIC driver is up.
Ops == {"connect", "other"}
Requests == [client : Clients, n : 0 .. Numbers - 1, op : Ops]

ASSUME RelayAssumption ==
    /\ IsFiniteSet(Clients)
    /\ Depth \in Nat \ {0}
    /\ Numbers \in Nat \ {0}
    /\ NoRequest \notin Requests
    /\ DeadlineReached \in BOOLEAN
    /\ MaxUnanswered \in Nat

VARIABLES
    stack,              \* queue of the request channel
    replies,            \* queue of the reply channel, each entry the request
                        \* it answers
    receivers,          \* waiters_recv of the reply channel
    phase,              \* of each client: "user", "sending" (parked on a full
                        \* request queue), "parked" or "woken" in the receive
                        \* loop
    request,            \* the client's latest request
    pending_connect,    \* the Connect whose answer is deferred, or NoRequest
    syn_sent,           \* Connects whose TCP connection is in SynSent
    deadline,           \* connect_deadline_ms is armed
    outbox,             \* the answer the service is about to send, if any
    leftover,           \* history: how many answers have been given that the
                        \* end of a handshake will give again
    unanswered          \* history: how many requests were dropped with their
                        \* answer

clientvars == <<phase, request>>
tcpvars == <<pending_connect, syn_sent, deadline>>
counts == <<leftover, unanswered>>
rvars == <<stack, replies, receivers, phase, request, pending_connect,
           syn_sent, deadline, outbox, leftover, unanswered>>

Init ==
    /\ stack = <<>>
    /\ replies = <<>>
    /\ receivers = <<>>
    /\ phase = [c \in Clients |-> "user"]
    /\ request = [c \in Clients |-> NoRequest]
    /\ pending_connect = NoRequest
    /\ syn_sent = {}
    /\ deadline = FALSE
    /\ outbox = NoRequest
    /\ leftover = 0
    /\ unanswered = 0

----------------------------------------------------------------------------
(* net_socket_relay_full.                                                  *)

\* The receive loop: take the front answer, whoever it is for, or park.
RelayReceive(c) ==
    IF replies = <<>>
    THEN /\ receivers' = Append(receivers, c)
         /\ phase' = [phase EXCEPT ![c] = "parked"]
         /\ UNCHANGED replies
    ELSE /\ replies' = Tail(replies)
         /\ phase' = [phase EXCEPT ![c] = "user"]
         /\ UNCHANGED receivers

StackFull == Len(stack) >= Depth

\* A new number, so that requests of one client can be told apart.
Numbered(c, op) ==
    [client |-> c, op |-> op,
     n |-> IF request[c] = NoRequest THEN 0 ELSE (request[c].n + 1) % Numbers]

\* The call: the send loop, and on success the receive loop at once.
SocketCall(c, op) ==
    /\ phase[c] = "user"
    /\ request' = [request EXCEPT ![c] = Numbered(c, op)]
    /\ IF StackFull
       THEN /\ phase' = [phase EXCEPT ![c] = "sending"]
            /\ UNCHANGED <<stack, replies, receivers>>
       ELSE /\ stack' = Append(stack, Numbered(c, op))
            /\ RelayReceive(c)
    /\ UNCHANGED <<tcpvars, outbox, counts>>

\* Woken from the send: there is room.  (A pass that finds none parks again;
\* that no wake-up is lost is shown of the registry, in Ipc.)
SendRetry(c) ==
    /\ phase[c] = "sending" /\ ~StackFull
    /\ stack' = Append(stack, request[c])
    /\ RelayReceive(c)
    /\ UNCHANGED <<request, tcpvars, outbox, counts>>

ReceiveRetry(c) ==
    /\ phase[c] = "woken"
    /\ RelayReceive(c)
    /\ UNCHANGED <<stack, request, tcpvars, outbox, counts>>

----------------------------------------------------------------------------
(* The service loop.  It sends what it has to say before it does anything  *)
(* else, hence outbox = NoRequest in the other steps.                      *)

\* Mutants: a second Connect takes the place of the first; the pending
\* Connect is answered at once and again when the handshake ends.
ConnectRequest_Overwrites(r) ==
    /\ pending_connect' = r /\ syn_sent' = syn_sent \cup {r}
    /\ deadline' = TRUE /\ UNCHANGED outbox
ConnectRequest_AnswersTwice(r) ==
    /\ pending_connect' = r /\ syn_sent' = syn_sent \cup {r}
    /\ deadline' = TRUE /\ outbox' = r

\* handle_socket_request, Connect: one at a time, answered later.
ConnectRequest(r) ==
    IF pending_connect # NoRequest
    THEN outbox' = r /\ UNCHANGED tcpvars
    ELSE /\ pending_connect' = r
         /\ syn_sent' = syn_sent \cup {r}
         /\ deadline' = TRUE
         /\ UNCHANGED outbox

\* try_receive on "stack" and handle_socket_request.
ServeRequest ==
    /\ outbox = NoRequest /\ stack # <<>>
    /\ stack' = Tail(stack)
    /\ IF Head(stack).op = "connect" THEN ConnectRequest(Head(stack))
       ELSE outbox' = Head(stack) /\ UNCHANGED tcpvars
    /\ UNCHANGED <<replies, receivers, clientvars, counts>>

\* The same when the answer does not fit tx_buf: encode_into fails and there
\* is no reply.  The relay lets a Recv ask for as many bytes as the buffer has.
ServeOversized ==
    /\ outbox = NoRequest /\ stack # <<>> /\ Head(stack).op = "other"
    /\ unanswered < MaxUnanswered
    /\ stack' = Tail(stack)
    /\ unanswered' = unanswered + 1
    /\ UNCHANGED <<replies, receivers, clientvars, tcpvars, outbox, leftover>>

\* Mutant: the answer is queued and nobody is woken.
SendReply_NoWake ==
    /\ outbox # NoRequest /\ Len(replies) < Depth
    /\ replies' = Append(replies, outbox)
    /\ outbox' = NoRequest
    /\ UNCHANGED <<stack, receivers, phase, request, tcpvars, counts>>

\* sys_ipc_send on "stack_reply": the longest waiting caller is woken.  The
\* service is its only sender, so a full queue simply delays it.
SendReply ==
    /\ outbox # NoRequest /\ Len(replies) < Depth
    /\ replies' = Append(replies, outbox)
    /\ outbox' = NoRequest
    /\ IF receivers = <<>> THEN UNCHANGED <<receivers, phase>>
       ELSE /\ receivers' = Tail(receivers)
            /\ phase' = [phase EXCEPT ![Head(receivers)] = "woken"]
    /\ UNCHANGED <<stack, request, tcpvars, counts>>

\* resolve_pending_connect, and the loop's `if replies > 0': the connection
\* r has left SynSent.
ResolvePendingConnect(r) ==
    /\ syn_sent' = syn_sent \ {r}
    /\ IF pending_connect = r
       THEN pending_connect' = NoRequest /\ outbox' = r /\ deadline' = FALSE
       ELSE UNCHANGED <<pending_connect, outbox, deadline>>

\* handle_frame: a SYN-ACK establishes the connection or a RST refuses it.
HandshakeEnds(r) ==
    /\ outbox = NoRequest /\ r \in syn_sent
    /\ ResolvePendingConnect(r)
    /\ UNCHANGED <<stack, replies, receivers, clientvars, counts>>

\* The loop's backstop after 30 s: the caller is answered, the service's
\* pending_connect is not touched.
DeadlineExpires ==
    /\ DeadlineReached
    /\ outbox = NoRequest /\ deadline
    /\ outbox' = pending_connect
    /\ deadline' = FALSE
    /\ leftover' = leftover + 1
    /\ UNCHANGED <<stack, replies, receivers, clientvars, pending_connect,
                   syn_sent, unanswered>>

\* tick: TCP gives up after MAX_RETRANSMIT SYNs, 63 s after the first, which
\* is after the deadline.
ConnectTimesOut(r) ==
    /\ DeadlineReached
    /\ outbox = NoRequest /\ r \in syn_sent /\ ~deadline
    /\ ResolvePendingConnect(r)
    /\ UNCHANGED <<stack, replies, receivers, clientvars, counts>>

----------------------------------------------------------------------------
Retry(c) == SendRetry(c) \/ ReceiveRetry(c)

Next ==
    \/ \E c \in Clients, op \in Ops : SocketCall(c, op)
    \/ \E c \in Clients : SendRetry(c)
    \/ \E c \in Clients : ReceiveRetry(c)
    \/ ServeRequest
    \/ ServeOversized
    \/ SendReply
    \/ \E r \in syn_sent : HandshakeEnds(r)
    \/ DeadlineExpires
    \/ \E r \in syn_sent : ConnectTimesOut(r)

\* The service never stops polling, a woken caller is dispatched, and every
\* handshake ends, if only by its timeout.
Spec ==
    /\ Init
    /\ [][Next]_rvars
    /\ WF_rvars(ServeRequest)
    /\ WF_rvars(SendReply)
    /\ WF_rvars(\E r \in syn_sent : HandshakeEnds(r) \/ ConnectTimesOut(r))
    /\ \A c \in Clients : WF_rvars(Retry(c))

----------------------------------------------------------------------------
(* Properties.                                                             *)

Waiting == {c \in Clients : phase[c] \in {"parked", "woken"}}
Present(r) == IF r = NoRequest THEN 0 ELSE 1

TypeOK ==
    /\ stack \in Seq(Requests) /\ Len(stack) <= Depth
    /\ replies \in Seq(Requests) /\ Len(replies) <= Depth
    /\ receivers \in Seq(Clients)
    /\ phase \in [Clients -> {"user", "sending", "parked", "woken"}]
    /\ request \in [Clients -> Requests \cup {NoRequest}]
    /\ pending_connect \in Requests \cup {NoRequest}
    /\ syn_sent \subseteq Requests
    /\ deadline \in BOOLEAN
    /\ outbox \in Requests \cup {NoRequest}
    /\ leftover \in Nat
    /\ unanswered \in Nat

\* However calls, answers and handshakes interleave, the answers on their way
\* are as many as the callers that wait for one, plus one for each deadline that
\* passed, less one for each answer that did not fit: no answer is lost when a
\* Connect is refused, deferred or timed out, only a deadline leaves one over,
\* and only an oversized answer leaves a caller waiting in vain.
AnswersBalance ==
    Cardinality(Waiting) + leftover =
        Len(stack) + Present(outbox) + Present(pending_connect) + unanswered
          + Len(replies)

\* A queued answer that is not left over has somebody awake to take it, also
\* when a newcomer took the answer another caller had been woken for.
AnswerHasTaker ==
    Len(replies) <= Cardinality({c \in Clients : phase[c] = "woken"}) + leftover

\* Both: answers and callers match in number, and somebody awake takes them.
AnswersMatch == AnswersBalance /\ AnswerHasTaker

\* A deferred answer always has a handshake that will release it, and no
\* handshake outlives the caller it was started for: a second Connect cannot
\* clobber the first, also after a deadline passed.
PendingIsHalfOpen ==
    syn_sent = IF pending_connect = NoRequest THEN {} ELSE {pending_connect}

NewCall == \E c \in Clients, op \in Ops : SocketCall(c, op)

\* As long as no handshake outlasts its deadline and every answer fits, the
\* callers that are inside a call when the last new call is made all return,
\* although they share both channels, find them full and take each other's
\* answers.  (While new calls keep coming a single caller may lose every race
\* for the answer.)
OutstandingCallsReturn ==
    [](leftover = 0 /\ unanswered = 0) /\ <>[][~NewCall]_rvars =>
        <>[](\A c \in Clients : phase[c] = "user")
=============================================================================
