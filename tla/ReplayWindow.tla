---------------------------- MODULE ReplayWindow ----------------------------
(***************************************************************************)
(* One numbered packet stream: a sender takes identifiers from             *)
(* PacketIDSend, the network duplicates, reorders and loses the packets,   *)
(* and the receiver asks PacketIDReceive whether to accept each.           *)
(***************************************************************************)
EXTENDS PacketId

CONSTANTS
    LongForm,  \* identifiers carry a time (control channel); else MaxId ends the stream
    MaxNow     \* bound on the clock

ASSUME ReplayWindowAssumption == LongForm \in BOOLEAN /\ MaxNow \in Nat \ {0}

VARIABLES
    snd,       \* PacketIDSend
    sent,      \* identifiers on the network; each may arrive any number of times
    rcv,       \* PacketIDReceive
    accepted,  \* history: how often the receiver has accepted each identifier
    now        \* the clock of both sides, in seconds

vars == <<snd, sent, rcv, accepted, now>>

Packets == [id : 1..MaxId, time : 1..MaxNow]

\* The ranges of the window: its base and extent stay within the ring.
TypeOK ==
    /\ snd \in Senders
    /\ sent \subseteq Packets
    /\ rcv \in Receivers
    /\ accepted \in [Packets -> Nat]
    /\ now \in 1..MaxNow

Init ==
    /\ snd = NewSender
    /\ sent = {}
    /\ rcv = NewReceiver
    /\ accepted = [p \in Packets |-> 0]
    /\ now = 1

\* The ids of one second do not wrap: 2^32 packets take longer than that.
Send ==
    /\ Wraps(snd) => LongForm /\ now > snd.time
    /\ snd' = NextPid(snd, now)
    /\ sent' = sent \cup {snd'}
    /\ UNCHANGED <<rcv, accepted, now>>

\* test_add(pin, now, false): the control channel looks before it has read on.
Test(p) ==
    /\ rcv' = TestAdd(rcv, p, now, FALSE)
    /\ UNCHANGED <<snd, sent, accepted, now>>

\* test_add(pin, now, true)
Add(p) ==
    /\ rcv' = TestAdd(rcv, p, now, TRUE)
    /\ accepted' = IF Accepts(rcv, p, now) THEN [accepted EXCEPT ![p] = @ + 1] ELSE accepted
    /\ UNCHANGED <<snd, sent, now>>

Tick ==
    /\ now < MaxNow
    /\ now' = now + 1
    /\ UNCHANGED <<snd, sent, rcv, accepted>>

Next == Send \/ (\E p \in sent : Test(p) \/ Add(p)) \/ Tick

Spec == Init /\ [][Next]_vars

-----------------------------------------------------------------------------
\* "no packet-id (i.e. sequence number + optional timestamp) is accepted more
\* than once" (packet_id.hpp:225), however packets are repeated and reordered,
\* the window slides round its ring, the clock runs and the numbering wraps.
NoReplay == \A p \in Packets : accepted[p] <= 1

\* The window has no false alarms: what test_add calls a replay was accepted.
\* The history that a new time leaves behind, and bits that a jump skips in the
\* ring, must not be taken for those of new ids.
NoFalseReplay ==
    \A p \in sent : Verdict(Aged(rcv, now), p) = "PKTID_REPLAY" => accepted[p] = 1

\* An identifier is used for one packet only, also over the wrap of a long id.
NoReuse == [][snd' # snd => snd' \notin sent]_vars

=============================================================================
