------------------------------ MODULE Reliable ------------------------------
(***************************************************************************)
(* One direction of the control channel of a key: ProtoStackBase           *)
(* (openvpn/ssl/protostack.hpp) over the reliability layer                 *)
(* (openvpn/reliable) and, with tls-auth or tls-crypt, the replay filter   *)
(* of KeyContext::decapsulate (openvpn/ssl/proto.hpp), over UDP: packets   *)
(* are lost, repeated and reordered.                                       *)
(*                                                                         *)
(* Message 0 is the raw reset; the others pass through TLS, which each end *)
(* starts when it has what it needs of the other direction.  Handlers end  *)
(* in flush(), so acknowledgements do not wait: a received packet is       *)
(* answered in the step that receives it.                                  *)
(***************************************************************************)
EXTENDS PacketId, Sequences, FiniteSets

CONSTANTS
    Data,             \* contents of messages
    Span,             \* reliable_window, 4 in the code
    ReplayProtected,  \* tls-auth or tls-crypt: packets carry an identifier
    MaxMessages,      \* bound on the messages written
    MaxBare,          \* bound on the packets sent without a message
    MaxNow            \* bound on the receiver's clock

ASSUME ReliableAssumption ==
    /\ Span \in Nat \ {0}
    /\ ReplayProtected \in BOOLEAN
    /\ MaxMessages \in Nat /\ MaxBare \in Nat /\ MaxNow \in Nat
    /\ MaxMessages + MaxBare <= MaxId  \* identifiers do not wrap

VARIABLES
    written,    \* all that was written; what has no id yet is app_write_queue
    rel_send,   \* the sender: ids, unacknowledged packets, packet identifiers
    rel_recv,   \* the receiver: messages that wait, replay filter
    delivered,  \* what the receiver has handed up
    net,        \* packets under way
    now         \* the receiver's clock

vars == <<written, rel_send, rel_recv, delivered, net, now>>

\* Identifiers all have one time: it changes only when they wrap.
Pid == 0..MaxId
PidOf(n) == [id |-> n, time |-> 1]

Messages == [kind : {"message"}, id : Nat, data : Data, pid : Pid]
Acks == [kind : {"ack"}, id : Nat]
Bare == [kind : {"bare"}, pid : Pid]

\* Unacknowledged messages lie in the window of the sender, messages that wait
\* in that of the receiver.
TypeOK ==
    /\ written \in Seq(Data)
    /\ delivered \in Seq(Data)
    /\ rel_send \in [next : Nat, head : Nat, unacked : SUBSET Messages, pid : Pid,
                     bare : 0..MaxBare, ssl_started : BOOLEAN]
    /\ rel_recv \in [head : Nat, got : SUBSET Messages, ssl_started : BOOLEAN, filter : Receivers]
    /\ net \subseteq Messages \cup Acks \cup Bare
    /\ now \in 1..(MaxNow + 1)
    /\ \A p \in rel_send.unacked : rel_send.head <= p.id /\ p.id < rel_send.head + Span
    /\ \A p \in rel_recv.got : rel_recv.head <= p.id /\ p.id < rel_recv.head + Span

Init ==
    /\ written = <<>>
    /\ rel_send = [next |-> 0, head |-> 0, unacked |-> {}, pid |-> 0, bare |-> 0,
                   ssl_started |-> FALSE]
    /\ rel_recv = [head |-> 0, got |-> {}, ssl_started |-> FALSE, filter |-> NewReceiver]
    /\ delivered = <<>>
    /\ net = {}
    /\ now = 1

-----------------------------------------------------------------------------
(* The sender.                                                             *)

\* What flush() numbers: the messages that the window and TLS let go.
Ready(w, s) ==
    {i \in s.next..(Len(w) - 1) : i < s.head + Span /\ (i = 0 \/ s.ssl_started)}

\* Encapsulation gives a message its packet identifier, once: a packet that is
\* sent again is the same packet.
Packet(w, s, i) ==
    [kind |-> "message", id |-> i, data |-> w[i + 1],
     pid |-> IF ReplayProtected THEN s.pid + 1 + (i - s.next) ELSE 0]

\* Mutant of Flush: the packet is sent and not kept.
FlushForgets(w, s) ==
    LET n == Cardinality(Ready(w, s))
    IN  [s EXCEPT !.next = @ + n, !.pid = IF ReplayProtected THEN @ + n ELSE 0]

\* down_stack_raw and down_stack_app.
Flush(w, s) ==
    LET n == Cardinality(Ready(w, s))
    IN  [s EXCEPT !.next = @ + n,
                  !.unacked = @ \cup {Packet(w, s, i) : i \in Ready(w, s)},
                  !.pid = IF ReplayProtected THEN @ + n ELSE 0]

\* What flush() puts on the network.
Sent(w, s) == {Packet(w, s, i) : i \in Ready(w, s)}

Unacked(s) == {p.id : p \in s.unacked}

\* Mutant of Purged: the head follows the first acknowledgement.
PurgedAll(s) == [s EXCEPT !.head = s.next]

\* MessageWindow::purge: the head moves up to the first message that is not
\* acknowledged.
Purged(s) ==
    [s EXCEPT !.head = CHOOSE i \in Unacked(s) \cup {s.next} :
                           \A j \in Unacked(s) \cup {s.next} : i <= j]

\* ReliableSend::ack; an id outside the window changes nothing.
Ack(s, id) == Purged([s EXCEPT !.unacked = {p \in @ : p.id # id}])

Write(d) ==
    /\ Len(written) < MaxMessages
    /\ written' = Append(written, d)
    /\ rel_send' = Flush(written', rel_send)
    /\ net' = net \cup Sent(written', rel_send)
    /\ UNCHANGED <<rel_recv, delivered, now>>

\* post_ack_action calls start_handshake when nothing is unacknowledged, and
\* the reset of the peer has come, which belongs to the other direction.
SenderStartsSsl ==
    /\ ~rel_send.ssl_started
    /\ rel_send.next > 0 /\ rel_send.unacked = {}
    /\ LET s == [rel_send EXCEPT !.ssl_started = TRUE]
       IN  rel_send' = Flush(written, s) /\ net' = net \cup Sent(written, s)
    /\ UNCHANGED <<written, rel_recv, delivered, now>>

\* The network delivers the packet p, and keeps a copy or does not.
Arrives(p) == p \in net /\ \E rest \in {net, net \ {p}} : net' = rest

ReceiveAck(a) ==
    /\ a \in net /\ a.kind = "ack"
    /\ LET s == Ack(rel_send, a.id)
       IN  /\ rel_send' = Flush(written, s)
           /\ \E rest \in {net, net \ {a}} : net' = rest \cup Sent(written, s)
    /\ UNCHANGED <<written, rel_recv, delivered, now>>

\* retransmit(): the messages whose time has come, as they were sent.
Retransmit(due) ==
    /\ due # {} /\ due \subseteq rel_send.unacked
    /\ ~(due \subseteq net)
    /\ net' = net \cup due
    /\ UNCHANGED <<written, rel_send, rel_recv, delivered, now>>

\* An acknowledgement for the other direction takes an identifier too.
SendBare ==
    /\ ReplayProtected
    /\ rel_send.bare < MaxBare
    /\ rel_send' = [rel_send EXCEPT !.pid = @ + 1, !.bare = @ + 1]
    /\ net' = net \cup {[kind |-> "bare", pid |-> rel_send.pid + 1]}
    /\ UNCHANGED <<written, rel_recv, delivered, now>>

-----------------------------------------------------------------------------
(* The receiver.                                                           *)

InWindow(r, id) == id >= r.head /\ id < r.head + Span
PreWindow(r, id) == id < r.head

PidOk(r, p) == ~ReplayProtected \/ Accepts(r.filter, PidOf(p.pid), now)

Filtered(r, p, mod) ==
    IF ReplayProtected
    THEN [r EXCEPT !.filter = TestAdd(@, PidOf(p.pid), now, mod)] ELSE r

\* ReliableRecv::receive, which puts a message in its slot of the window.
Put(r, p) == [r EXCEPT !.got = {q \in @ : q.id # p.id} \cup {p}]

\* up_sequenced hands up the messages from the head on; without TLS only a raw one.
Sequenced(r) ==
    {i \in r.head..(r.head + Span - 1) :
        /\ \A j \in r.head..i : \E q \in r.got : q.id = j
        /\ r.ssl_started \/ i = 0}

DataAt(r, i) == (CHOOSE q \in r.got : q.id = i).data

\* Mutant of Advanced: the last message handed up keeps its slot.
AdvancedShort(r) ==
    LET n == Cardinality(Sequenced(r))
    IN  IF n = 0 THEN r
        ELSE [r EXCEPT !.head = @ + n - 1, !.got = {q \in @ : q.id >= r.head + n - 1}]

Advanced(r) ==
    LET n == Cardinality(Sequenced(r))
    IN  [r EXCEPT !.head = @ + n, !.got = {q \in @ : q.id >= r.head + n}]

HandedUp(r) == [i \in 1..Cardinality(Sequenced(r)) |-> DataAt(r, r.head + i - 1)]

\* Mutant of AckToSender: a message is acknowledged, whatever becomes of it.
AckToSenderAlways(r, p) == TRUE

\* Messages that were handed up are acknowledged again; one beyond the window
\* is not.  "even replayed packets must be ACKed or protocol could deadlock"
AckToSender(r, p) ==
    IF PidOk(r, p) THEN InWindow(r, p.id) \/ PreWindow(r, p.id) ELSE p.pid # 0

\* decapsulate, up_sequenced, and the acknowledgement that flush() sends.
ReceiveMessage(p) ==
    /\ p \in net /\ p.kind = "message"
    /\ LET accepted == PidOk(rel_recv, p) /\ InWindow(rel_recv, p.id)
           r == Filtered(rel_recv, p, accepted)
           acks == IF AckToSender(rel_recv, p) THEN {[kind |-> "ack", id |-> p.id]} ELSE {}
       IN  /\ \E rest \in {net, net \ {p}} : net' = rest \cup acks
           /\ IF accepted
              THEN /\ rel_recv' = Advanced(Put(r, p))
                   /\ delivered' = delivered \o HandedUp(Put(r, p))
              ELSE rel_recv' = r /\ UNCHANGED delivered
    /\ UNCHANGED <<written, rel_send, now>>

ReceiveBare(p) ==
    /\ p.kind = "bare"
    /\ Arrives(p)
    /\ rel_recv' = Filtered(rel_recv, p, TRUE)
    /\ UNCHANGED <<written, rel_send, delivered, now>>

\* start_handshake at the receiver, which has had the reset: it goes on with
\* the messages that wait.
ReceiverStartsSsl ==
    /\ ~rel_recv.ssl_started
    /\ rel_recv.head > 0
    /\ LET r == [rel_recv EXCEPT !.ssl_started = TRUE]
       IN  rel_recv' = Advanced(r) /\ delivered' = delivered \o HandedUp(r)
    /\ UNCHANGED <<written, rel_send, net, now>>

-----------------------------------------------------------------------------
(* The network and the clock.                                              *)

Lose(p) ==
    /\ p \in net
    /\ net' = net \ {p}
    /\ UNCHANGED <<written, rel_send, rel_recv, delivered, now>>

Tick ==
    /\ now <= MaxNow
    /\ now' = now + 1
    /\ UNCHANGED <<written, rel_send, rel_recv, delivered, net>>

Next ==
    \/ \E d \in Data : Write(d)
    \/ \E p \in net : ReceiveMessage(p) \/ ReceiveAck(p) \/ ReceiveBare(p) \/ Lose(p)
    \/ \E due \in SUBSET rel_send.unacked : Retransmit(due)
    \/ SendBare \/ SenderStartsSsl \/ ReceiverStartsSsl \/ Tick

Spec == Init /\ [][Next]_vars

\* The first message that is not acknowledged is sent again until it is, and
\* what is sent again and again arrives, the message and its acknowledgement;
\* each end starts TLS in the end.
Fairness ==
    /\ WF_vars(\E p \in rel_send.unacked \ net : p.id = rel_send.head /\ Retransmit({p}))
    /\ SF_vars(\E p \in net : p.kind = "message" /\ p.id = rel_send.head /\ ReceiveMessage(p))
    /\ SF_vars(\E p \in net : p.kind = "ack" /\ p.id = rel_send.head /\ ReceiveAck(p))
    /\ WF_vars(SenderStartsSsl) /\ WF_vars(ReceiverStartsSsl)

FairSpec == Spec /\ Fairness

-----------------------------------------------------------------------------

Fifo == INSTANCE ReliableFifo WITH Data <- Data, written <- written, delivered <- delivered

\* The reliability layer implements the channel: what is handed up is what was
\* written, once and in order, whatever the network does to the packets and
\* whichever of them the replay filter refuses.
FifoSpec == Fifo!Spec

\* ReliableSend::ack erases a message: nobody sends it again.  So the peer has
\* it then, handed up or waiting for the ones before it.
AckedIsReceived ==
    \A i \in 0..(rel_send.next - 1) :
        i \notin Unacked(rel_send) => i < rel_recv.head \/ \E q \in rel_recv.got : q.id = i

\* The two windows stay in step: once TLS runs, the receiver has a slot for
\* every message that is under way for the first time, so none is turned away.
ReceiverHasRoom ==
    rel_recv.ssl_started =>
        \A p \in rel_send.unacked : p.id < rel_recv.head + Span

\* Whatever is written is delivered in the end: no acknowledgement, window edge
\* or message that waits for TLS stalls the channel, and nor does the replay
\* filter.  (Writes are bounded: what was written is all delivered some time.)
AllDelivered == []<>(Len(delivered) = Len(written))

=============================================================================
