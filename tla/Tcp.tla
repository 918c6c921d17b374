--------------------------------- MODULE Tcp ---------------------------------
(***************************************************************************)
(* The TCP of crates/nexacore-net/src/tcp.rs: two hosts running            *)
(* TcpSocketTable, a client that opens one connection and a server that    *)
(* listens, over a network that loses, duplicates and reorders segments.   *)
(*                                                                         *)
(* The network is the set of segments ever sent: one that is never         *)
(* delivered is lost, one delivered twice is duplicated.  Sequence numbers *)
(* wrap at SeqMod (2^32).  A byte of payload is modelled by its position   *)
(* in the stream its host wrote.  Clocks are abstracted: a queued segment  *)
(* or a TIME_WAIT may expire at any tick.  The windows, the round-trip     *)
(* estimate and the congestion window are left out: send() consults none.  *)
(***************************************************************************)
EXTENDS Integers, Sequences, FiniteSets

CONSTANTS Client, Server,   \* the two hosts
          NoConn,           \* no control block for the address pair
          Junk,             \* the SYN packet resent as payload
          SeqMod,           \* sequence numbers (2^32)
          FirstIsn,         \* TcpSocketTable::next_isn of each host
          IsnStep,          \* its increment
          Mss,              \* bytes of a segment
          MAX_RETRANSMIT,   \* retransmissions before the reset
          MaxBacklog,       \* ListenQueue::max_backlog
          MaxWrite,         \* bound: bytes each host writes
          MaxIsn            \* bound: initial sequence numbers drawn

Hosts == {Client, Server}
Peer(h) == IF h = Client THEN Server ELSE Client

ASSUME TcpAssumption ==
  /\ Client # Server
  /\ SeqMod \in Nat \ {0} /\ SeqMod % 2 = 0
  /\ FirstIsn \in [Hosts -> 0 .. SeqMod - 1]
  /\ IsnStep \in Nat
  /\ Mss \in Nat \ {0}
  /\ MAX_RETRANSMIT \in Nat /\ MaxBacklog \in Nat
  /\ MaxWrite \in [Hosts -> Nat] /\ MaxIsn \in Nat \ {0}

SeqNums == 0 .. SeqMod - 1

States == {"SynSent", "SynReceived", "Established", "FinWait1", "FinWait2",
           "CloseWait", "Closing", "LastAck", "TimeWait"}

(* The initial sequence number that next_isn gives host h after i others.  *)
Isn(h, i) == (FirstIsn[h] + i * IsnStep) % SeqMod

VARIABLES
  conn,     \* TcpSocketTable::connections of each host, for the one pair
  backlog,  \* ListenQueue::backlog of the server
  isns,     \* initial sequence numbers each host has drawn
  net,      \* the segments sent
  wrote,    \* bytes each host's application wrote
  reached   \* bytes of a host that have reached the peer's receive buffer

vars == <<conn, backlog, isns, net, wrote, reached>>

-----------------------------------------------------------------------------
(* Sequence-number arithmetic: wrapping_add, seq_lt, seq_le.               *)
\* Mutant: the addition does not wrap.
Plus_NoWrap(a, n) == a + n

Plus(a, n) == (a + n) % SeqMod
SeqLt(a, b) == a # b /\ 2 * ((b - a) % SeqMod) < SeqMod
SeqLe(a, b) == a = b \/ SeqLt(a, b)

NextIsn(h) == Isn(h, isns[h])

(* The bounds on the bytes written keep a stream within half the sequence  *)
(* space, within one increment of next_isn, and (the server's) clear of    *)
(* the 0 that a control block in SYN_SENT sends as its acknowledgement.    *)
ASSUME NumbersAssumption ==
  /\ \A h \in Hosts : 2 * (MaxWrite[h] + 3) <= SeqMod
  /\ \A i, j \in 0 .. MaxIsn - 1 : \A k \in 1 .. MaxWrite[Server] + 2 :
       /\ Plus(Isn(Server, j), k) # 0
       /\ Plus(Isn(Server, j), k) = Plus(Isn(Server, i), 1) => i = j

(* build_tcp_segment; PSH and the window are not read by any receiver.     *)
Segment(h, seq, ack, flags, data) ==
  [from |-> h, seq |-> seq, ack |-> ack, flags |-> flags, data |-> data]

(* A pure ACK of control block t, and the RST that answers a stray.        *)
AckOf(h, t) == Segment(h, t.nxt, t.rcv, {"ACK"}, <<>>)
RstFor(h, seg) ==
  IF "ACK" \in seg.flags THEN Segment(h, seg.ack, 0, {"RST"}, <<>>)
  ELSE Segment(h, 0, Plus(seg.seq, 1), {"RST", "ACK"}, <<>>)

Entry(seq, data) == [seq |-> seq, data |-> data, count |-> 0]

(* TcpControlBlock::new_syn_sent and new_syn_received.                     *)
NewTcb(state, iss, rcv) ==
  [state |-> state, una |-> iss, nxt |-> Plus(iss, 1), rcv |-> rcv,
   buffer |-> <<>>, read |-> <<>>, queue |-> <<>>, dups |-> 0]

TcpInit ==
  /\ conn = [h \in Hosts |-> NoConn]
  /\ backlog = <<>>
  /\ isns = [h \in Hosts |-> 0]
  /\ net = {}
  /\ wrote = [h \in Hosts |-> 0]
  /\ reached = [h \in Hosts |-> 0]

-----------------------------------------------------------------------------
(* The application: connect, accept, send, recv, close.                    *)

(* connect queues the whole SYN packet for retransmission; tick_connection *)
(* will send it as the payload of a plain ACK.                             *)
Connect ==
  /\ conn[Client] = NoConn
  /\ isns[Client] = 0
  /\ LET iss == NextIsn(Client) IN
       /\ conn' = [conn EXCEPT ![Client] =
            [NewTcb("SynSent", iss, 0) EXCEPT !.queue = <<Entry(iss, <<Junk>>)>>]]
       /\ net' = net \union {Segment(Client, iss, 0, {"SYN"}, <<>>)}
  /\ isns' = [isns EXCEPT ![Client] = 1]
  /\ UNCHANGED <<backlog, wrote, reached>>

(* accept moves a completed connection into the table, over what is there. *)
Accept ==
  /\ backlog # <<>>
  /\ conn' = [conn EXCEPT ![Server] = Head(backlog)]
  /\ backlog' = Tail(backlog)
  /\ UNCHANGED <<isns, net, wrote, reached>>

(* One chunk of send: at most Mss bytes, queued until acknowledged.        *)
Send(h, n) ==
  /\ conn[h] # NoConn
  /\ conn[h].state \in {"Established", "CloseWait"}
  /\ wrote[h] + n <= MaxWrite[h]
  /\ LET t == conn[h]
         data == [j \in 1 .. n |-> wrote[h] + j]
     IN /\ net' = net \union {Segment(h, t.nxt, t.rcv, {"ACK"}, data)}
        /\ conn' = [conn EXCEPT ![h].nxt = Plus(@, n),
                                ![h].queue = Append(@, Entry(t.nxt, data))]
  /\ wrote' = [wrote EXCEPT ![h] = @ + n]
  /\ UNCHANGED <<backlog, isns, reached>>

Recv(h) ==
  /\ conn[h] # NoConn
  /\ conn[h].buffer # <<>>
  /\ conn' = [conn EXCEPT ![h].read = @ \o conn[h].buffer, ![h].buffer = <<>>]
  /\ UNCHANGED <<backlog, isns, net, wrote, reached>>

(* close sends a FIN and does not queue it for retransmission.             *)
Close(h) ==
  /\ conn[h] # NoConn
  /\ conn[h].state \in {"Established", "CloseWait"}
  /\ net' = net \union
       {Segment(h, conn[h].nxt, conn[h].rcv, {"FIN", "ACK"}, <<>>)}
  /\ conn' = [conn EXCEPT
       ![h].nxt = Plus(@, 1),
       ![h].state = IF @ = "Established" THEN "FinWait1" ELSE "LastAck"]
  /\ UNCHANGED <<backlog, isns, wrote, reached>>

-----------------------------------------------------------------------------
(* handle_segment, one action per state of the receiving connection.       *)

Arrives(h, seg) == seg \in net /\ seg.from = Peer(h)

(* A segment for the connection of h while it is in one of the states S.   *)
Receives(h, seg, S) ==
  /\ Arrives(h, seg)
  /\ conn[h] # NoConn
  /\ conn[h].state \in S
  /\ "RST" \notin seg.flags

Reset(h, seg) ==
  /\ Arrives(h, seg)
  /\ "RST" \in seg.flags
  /\ conn[h] # NoConn
  /\ conn' = [conn EXCEPT ![h] = NoConn]
  /\ UNCHANGED <<backlog, isns, net, wrote, reached>>

IsSyn(seg) == "SYN" \in seg.flags /\ "ACK" \notin seg.flags

(* A SYN for the listener: refused when the backlog is full.               *)
PassiveOpen(seg) ==
  /\ Arrives(Server, seg)
  /\ conn[Server] = NoConn
  /\ IsSyn(seg)
  /\ UNCHANGED <<backlog, wrote, reached>>
  /\ IF Len(backlog) >= MaxBacklog
       THEN /\ net' = net \union {RstFor(Server, seg)}
            /\ UNCHANGED <<conn, isns>>
       ELSE /\ isns[Server] < MaxIsn
            /\ LET t == NewTcb("SynReceived", NextIsn(Server), Plus(seg.seq, 1))
               IN /\ conn' = [conn EXCEPT ![Server] = t]
                  /\ net' = net \union
                       {Segment(Server, t.una, t.rcv, {"SYN", "ACK"}, <<>>)}
            /\ isns' = [isns EXCEPT ![Server] = @ + 1]

(* No connection and no listener for it: answered by a RST.                *)
Stray(h, seg) ==
  /\ Arrives(h, seg)
  /\ conn[h] = NoConn
  /\ "RST" \notin seg.flags
  /\ ~ (h = Server /\ IsSyn(seg))
  /\ net' = net \union {RstFor(h, seg)}
  /\ UNCHANGED <<conn, backlog, isns, wrote, reached>>

SegSynSent(h, seg) ==
  /\ Receives(h, seg, {"SynSent"})
  /\ {"SYN", "ACK"} \subseteq seg.flags
  /\ IF seg.ack # conn[h].nxt
       THEN /\ net' = net \union {Segment(h, seg.ack, 0, {"RST"}, <<>>)}
            /\ UNCHANGED conn
       ELSE LET t == [conn[h] EXCEPT !.rcv = Plus(seg.seq, 1), !.una = seg.ack,
                                     !.state = "Established", !.queue = <<>>]
            IN /\ conn' = [conn EXCEPT ![h] = t]
               /\ net' = net \union {AckOf(h, t)}
  /\ UNCHANGED <<backlog, isns, wrote, reached>>

(* The last ACK of the handshake moves the block to the backlog: until it  *)
(* is accepted no segment finds it.                                        *)
SegSynReceived(h, seg) ==
  /\ Receives(h, seg, {"SynReceived"})
  /\ "ACK" \in seg.flags
  /\ seg.ack = conn[h].nxt
  /\ conn' = [conn EXCEPT ![h] = NoConn]
  /\ backlog' = Append(backlog,
       [conn[h] EXCEPT !.una = seg.ack, !.state = "Established"])
  /\ UNCHANGED <<isns, net, wrote, reached>>

\* Mutant: an entry is dropped as soon as its first byte is expected.
Outstanding_First(e, ack) == SeqLt(ack, e.seq)

Outstanding(e, ack) == SeqLt(ack, Plus(e.seq, Len(e.data)))

(* process_ack retains the entries that are not fully acknowledged.        *)
Unacked(queue, ack) ==
  LET kept[i \in 0 .. Len(queue)] ==
        IF i = 0 THEN <<>>
        ELSE IF Outstanding(queue[i], ack) THEN Append(kept[i - 1], queue[i])
        ELSE kept[i - 1]
  IN kept[Len(queue)]

IsNewAck(t, ack) == SeqLt(t.una, ack) /\ SeqLe(ack, t.nxt)

IsDupAck(t, ack) == ack = t.una /\ t.queue # <<>>

(* The duplicate-ACK counter matters only when it reaches 3.               *)
Bumped(d) == IF d < 4 THEN d + 1 ELSE 4

(* process_ack: the control block it leaves ...                            *)
Acked(t, ack) ==
  IF IsDupAck(t, ack) THEN [t EXCEPT !.dups = Bumped(@)]
  ELSE IF IsNewAck(t, ack)
    THEN [t EXCEPT !.dups = 0, !.una = ack, !.queue = Unacked(@, ack)]
  ELSE t

(* ... and the fast retransmission of the oldest segment.                  *)
FastRetransmit(h, t, ack) ==
  IF IsDupAck(t, ack) /\ Bumped(t.dups) = 3
    THEN {Segment(h, t.queue[1].seq, t.rcv, {"ACK"}, t.queue[1].data)}
    ELSE {}

\* Mutant: payload is taken whatever its sequence number.
InOrder_Any(t, seg) == seg.data # <<>>

(* Payload is taken in order only; anything else is dropped unanswered.    *)
InOrder(t, seg) == seg.data # <<>> /\ seg.seq = t.rcv

Received(t, seg) ==
  [t EXCEPT !.buffer = @ \o seg.data, !.rcv = Plus(@, Len(seg.data))]

(* A FIN advances rcv_nxt; its sequence number is not looked at.           *)
FinSeen(t, state) == [t EXCEPT !.rcv = Plus(@, 1), !.state = state]

(* A second connection of the server may be given the same bytes again.    *)
LongerOf(m, n) == IF m < n THEN n ELSE m

SegEstablished(h, seg) ==
  /\ Receives(h, seg, {"Established"})
  /\ LET t0 == conn[h]
         t1 == IF "ACK" \in seg.flags THEN Acked(t0, seg.ack) ELSE t0
         fast == IF "ACK" \in seg.flags THEN FastRetransmit(h, t0, seg.ack) ELSE {}
         t2 == IF InOrder(t1, seg) THEN Received(t1, seg) ELSE t1
         dataAck == IF InOrder(t1, seg) THEN {AckOf(h, t2)} ELSE {}
         t3 == IF "FIN" \in seg.flags THEN FinSeen(t2, "CloseWait") ELSE t2
         finAck == IF "FIN" \in seg.flags THEN {AckOf(h, t3)} ELSE {}
     IN /\ conn' = [conn EXCEPT ![h] = t3]
        /\ net' = net \union fast \union dataAck \union finAck
        /\ reached' = IF InOrder(t1, seg)
                        THEN [reached EXCEPT ![Peer(h)] =
                                LongerOf(@, Len(t2.read) + Len(t2.buffer))]
                        ELSE reached
  /\ UNCHANGED <<backlog, isns, wrote>>

\* Mutant: any acknowledgement is taken for the acknowledgement of the FIN.
FinAcked_ByAny(t, seg) == "ACK" \in seg.flags

FinAcked(t, seg) == "ACK" \in seg.flags /\ seg.ack = t.nxt

(* The acknowledgement of the FIN, then the peer's own FIN.  Payload is    *)
(* not read any more and the retransmit queue is left as it is.            *)
SegFinWait1(h, seg) ==
  /\ Receives(h, seg, {"FinWait1"})
  /\ LET t0 == conn[h]
         t1 == IF FinAcked(t0, seg)
                 THEN [t0 EXCEPT !.una = seg.ack, !.state = "FinWait2"] ELSE t0
         t2 == FinSeen(t1, IF t1.state = "FinWait2" THEN "TimeWait" ELSE "Closing")
     IN IF "FIN" \in seg.flags
          THEN /\ conn' = [conn EXCEPT ![h] = t2]
               /\ net' = net \union {AckOf(h, t2)}
          ELSE /\ conn' = [conn EXCEPT ![h] = t1]
               /\ UNCHANGED net
  /\ UNCHANGED <<backlog, isns, wrote, reached>>

SegFinWait2(h, seg) ==
  /\ Receives(h, seg, {"FinWait2"})
  /\ "FIN" \in seg.flags
  /\ LET t == FinSeen(conn[h], "TimeWait") IN
       /\ conn' = [conn EXCEPT ![h] = t]
       /\ net' = net \union {AckOf(h, t)}
  /\ UNCHANGED <<backlog, isns, wrote, reached>>

SegClosing(h, seg) ==
  /\ Receives(h, seg, {"Closing"})
  /\ FinAcked(conn[h], seg)
  /\ conn' = [conn EXCEPT ![h].state = "TimeWait"]
  /\ UNCHANGED <<backlog, isns, net, wrote, reached>>

SegLastAck(h, seg) ==
  /\ Receives(h, seg, {"LastAck"})
  /\ FinAcked(conn[h], seg)
  /\ conn' = [conn EXCEPT ![h] = NoConn]
  /\ UNCHANGED <<backlog, isns, net, wrote, reached>>

SegTimeWait(h, seg) ==
  /\ Receives(h, seg, {"TimeWait"})
  /\ "FIN" \in seg.flags
  /\ net' = net \union {AckOf(h, conn[h])}
  /\ UNCHANGED <<conn, backlog, isns, wrote, reached>>

-----------------------------------------------------------------------------
(* tick_connection.                                                        *)
TimeWaitExpires(h) ==
  /\ conn[h] # NoConn
  /\ conn[h].state = "TimeWait"
  /\ conn' = [conn EXCEPT ![h] = NoConn]
  /\ UNCHANGED <<backlog, isns, net, wrote, reached>>

\* Mutant: the retransmission is not counted.
Counted_Not(n) == n

Counted(n) == n + 1

(* The timer of the i-th queued segment of h runs out.                     *)
Retransmit(h, i) ==
  /\ conn[h] # NoConn
  /\ i \in 1 .. Len(conn[h].queue)
  /\ LET t == conn[h]
         e == t.queue[i]
     IN IF e.count >= MAX_RETRANSMIT
          THEN /\ conn' = [conn EXCEPT ![h] = NoConn]
               /\ net' = net \union {Segment(h, t.nxt, t.rcv, {"RST"}, <<>>)}
          ELSE /\ conn' = [conn EXCEPT ![h].queue[i].count = Counted(@)]
               /\ net' = net \union {Segment(h, e.seq, t.rcv, {"ACK"}, e.data)}
  /\ UNCHANGED <<backlog, isns, wrote, reached>>

-----------------------------------------------------------------------------
Handle(h, seg) ==
  \/ Reset(h, seg) \/ Stray(h, seg)
  \/ SegSynSent(h, seg) \/ SegSynReceived(h, seg) \/ SegEstablished(h, seg)
  \/ SegFinWait1(h, seg) \/ SegFinWait2(h, seg) \/ SegClosing(h, seg)
  \/ SegLastAck(h, seg) \/ SegTimeWait(h, seg)

TcpNext ==
  \/ Connect \/ Accept
  \/ \E h \in Hosts :
       \/ \E n \in 1 .. Mss : Send(h, n)
       \/ Recv(h) \/ Close(h) \/ TimeWaitExpires(h)
       \/ \E i \in 1 .. MaxWrite[h] + 1 : Retransmit(h, i)
  \/ \E seg \in net : PassiveOpen(seg) \/ \E h \in Hosts : Handle(h, seg)

(* The service loop ticks the table on every pass, so the timer of the     *)
(* oldest queued segment runs out again and again while it is queued.      *)
TcpSpec == TcpInit /\ [][TcpNext]_vars /\ \A h \in Hosts : WF_vars(Retransmit(h, 1))

-----------------------------------------------------------------------------
Segments ==
  [from : Hosts, seq : SeqNums, ack : SeqNums,
   flags : SUBSET {"SYN", "ACK", "FIN", "RST"}, data : Seq(Nat \union {Junk})]
Tcbs ==
  [state : States, una : SeqNums, nxt : SeqNums, rcv : SeqNums,
   buffer : Seq(Nat \union {Junk}), read : Seq(Nat \union {Junk}),
   queue : Seq([seq : SeqNums, data : Seq(Nat \union {Junk}), count : Nat]),
   dups : 0 .. 4]

TcpType ==
  /\ conn \in [Hosts -> Tcbs \union {NoConn}]
  /\ backlog \in Seq(Tcbs)
  /\ isns \in [Hosts -> 0 .. MaxIsn]
  /\ net \subseteq Segments
  /\ wrote \in [Hosts -> Nat]
  /\ reached \in [Hosts -> Nat]

(* What a connection hands its application is a prefix of what the peer    *)
(* wrote: no byte twice, none skipped, none of the resent SYN packet, under*)
(* any loss, duplication and reordering and across the wrap of the         *)
(* sequence numbers.                                                       *)
StreamIsPrefix ==
  \A h \in Hosts : conn[h] # NoConn =>
    LET s == conn[h].read \o conn[h].buffer IN
      Len(s) <= wrote[Peer(h)] /\ \A j \in 1 .. Len(s) : s[j] = j

(* A byte the sender no longer keeps for retransmission was put into the   *)
(* peer's receive buffer (process_ack drops what is acknowledged, and      *)
(* nothing else).  A connection whose handshake is not complete has sent   *)
(* nothing yet.                                                            *)
NothingForgotten ==
  \A h \in Hosts : conn[h] # NoConn /\ conn[h].state # "SynReceived" =>
    \A b \in 1 .. wrote[h] :
      \/ b <= reached[h]
      \/ \E i \in 1 .. Len(conn[h].queue) :
           \E j \in 1 .. Len(conn[h].queue[i].data) :
             conn[h].queue[i].data[j] = b

(* A host that took its FIN for acknowledged (FIN_WAIT_2) is right: the    *)
(* peer does not believe the connection is still open for reading.         *)
HalfCloseAgreed ==
  \A h \in Hosts :
    conn[h] # NoConn /\ conn[Peer(h)] # NoConn =>
      ~ (conn[h].state = "FinWait2" /\ conn[Peer(h)].state = "Established")

(* Retransmission ends: a queued segment (the SYN of a connect included)   *)
(* is acknowledged or the connection is reset.                             *)
RetransmissionEnds ==
  \A h \in Hosts :
    (conn[h] # NoConn /\ conn[h].queue # <<>>)
      ~> (conn[h] = NoConn \/ conn[h].queue = <<>>)
=============================================================================
