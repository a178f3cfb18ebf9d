---------------------------- MODULE KeyContexts ----------------------------
(***************************************************************************)
(* The data channel keys of one session: a ProtoContext in client mode and *)
(* one in server mode (the pairing test/ssl/proto.cpp runs), each with a   *)
(* primary KeyContext, the key it transmits on, and perhaps a secondary    *)
(* one, new or retiring.  Sources: openvpn/ssl/proto.hpp.                  *)
(*                                                                         *)
(* What is abstracted:                                                     *)
(*  - TLS and the key exchange are the one message "auth" each way, the    *)
(*    hard and the soft reset are "reset".  The reliability layer below    *)
(*    (module Reliable) retransmits what is unacknowledged: a message can  *)
(*    arrive while the context that sent it lives and has no               *)
(*    acknowledgement, late or, if that context goes first, never.  A      *)
(*    packet does not outlive its context.                                 *)
(*  - Times are relative: "due" is next_event_time - now, "age" is         *)
(*    now - construct_time; both stop changing where the code's            *)
(*    comparisons no longer tell values apart.                             *)
(*  - Error paths of TCP (a packet that fails to decrypt invalidates the   *)
(*    key) are left out, and so is the deferred data channel set-up.       *)
(***************************************************************************)
EXTENDS Naturals

CONSTANTS
    HandshakeWindow,    \* handshake_window, 60 s by default
    BecomePrimary,      \* become_primary, at most handshake_window
    Renegotiate,        \* renegotiate of the client, 3600 s by default
    TranWindow,         \* tran-window, renegotiate by default
    MaxKeyId,           \* KEY_ID_MASK, 7 in the code
    DataLimited,        \* is the cipher one with 64-bit blocks?
    MaxLag,             \* the network may withhold packets for so long
    NoKey               \* an empty slot

ASSUME KeyAssumption ==
    /\ {HandshakeWindow, BecomePrimary, Renegotiate, MaxKeyId} \subseteq Nat \ {0}
    /\ {TranWindow, MaxLag} \subseteq Nat
    /\ DataLimited \in BOOLEAN

VARIABLES
    proto,  \* the ProtoContext of each peer
    lag     \* how long packets have been withheld

vars == <<proto, lag>>

Peer == {"client", "server"}

Other(p) == IF p = "client" THEN "server" ELSE "client"

Slot == {"primary", "secondary"}

KeyId == 0..MaxKeyId

(***************************************************************************)
(* The state of a KeyContext, without the C_ and S_ its peer implies.      *)
(* C_INITIAL and S_INITIAL are left within the call that creates them.     *)
(***************************************************************************)
State == {"WAIT_RESET", "WAIT_RESET_ACK", "WAIT_AUTH", "WAIT_AUTH_ACK", "ACTIVE"}

Event == {"NONE", "ACTIVE", "NEGOTIATE", "BECOME_PRIMARY", "PRIMARY_PENDING",
          "RENEGOTIATE", "RENEGOTIATE_FORCE", "RENEGOTIATE_QUEUE", "EXPIRE"}

Message == {"reset", "auth"}

(***************************************************************************)
(* The configuration: keys expire a transition window after the time for   *)
(* renegotiation; a server waits a handshake window longer before it       *)
(* renegotiates by itself, "avoid renegotiation collision with client".    *)
(***************************************************************************)
Expire == Renegotiate + TranWindow

RenegotiateOf(p) ==
    IF p = "server" THEN Renegotiate + HandshakeWindow ELSE Renegotiate

\* A key limit starts a renegotiation this long after: one second or two.
LimitDelay(p) == IF p = "server" THEN 2 ELSE 1

\* How long data limits may put off the expiry of a key.
Grace == IF DataLimited THEN 4 * HandshakeWindow ELSE 0

MaxAge == Expire + Renegotiate + 4 * HandshakeWindow

KeyContext == [
    id      : KeyId,
    state   : State,
    unacked : SUBSET Message,   \* rel_send: sent, not acknowledged
    event   : Event,            \* current_event
    next    : Event,            \* next_event
    due     : Nat,              \* next_event_time - now
    age     : 0..MaxAge,        \* now - construct_time
    fired   : BOOLEAN,          \* key_limit_renegotiation_fired
    green   : BOOLEAN,          \* has data been decrypted with the key?
    valid   : BOOLEAN]          \* ~invalidated_

\* An empty slot is no context.
ASSUME NoKeyAssumption == NoKey \notin KeyContext

-----------------------------------------------------------------------------
(* KeyContext *)

SetEvent(c, current, next, due) ==
    [c EXCEPT !.event = current, !.next = next, !.due = due]

\* The time until the context is as old as t.
Remaining(c, t) == IF c.age < t THEN t - c.age ELSE 0

\* next_key_id, the constructor and, for the initiator, start().
NewContext(id, initiator) == [
    id |-> id, state |-> "WAIT_RESET",
    unacked |-> IF initiator THEN {"reset"} ELSE {},
    event |-> "NONE", next |-> "NEGOTIATE", due |-> HandshakeWindow,
    age |-> 0, fired |-> FALSE, green |-> FALSE, valid |-> TRUE]

\* Mutant of PrepareExpire: a retiring key expires when it should have renegotiated.
PrepareExpireEarly(c, current) ==
    SetEvent(c, current, "EXPIRE",
             IF c.fired THEN 2 * HandshakeWindow ELSE Remaining(c, Renegotiate))

\* Mutant of PrepareExpire: the expiry time counts from now, not from the construction of the key.
PrepareExpireLate(c, current) ==
    SetEvent(c, current, "EXPIRE",
             IF c.fired THEN 2 * HandshakeWindow ELSE Expire)

PrepareExpire(c, current) ==
    SetEvent(c, current, "EXPIRE",
             IF c.fired THEN 2 * HandshakeWindow ELSE Remaining(c, Expire))

Invalidate(c) ==
    IF c.valid
    THEN [c EXCEPT !.valid = FALSE, !.next = "NONE", !.due = 0]
    ELSE c

\* A renegotiated key of a client waits for data from the peer.
DataLimitDefer(p, c) ==
    p = "client" /\ DataLimited /\ c.id # 0 /\ ~c.green

\* Mutant of ProcessNextEvent: a new key does not schedule the next renegotiation.
ProcessNextEventOnce(p, c) ==
    CASE c.next = "BECOME_PRIMARY" -> SetEvent(c, "BECOME_PRIMARY", "NONE", 0)
      [] c.next \in {"RENEGOTIATE", "RENEGOTIATE_FORCE"} ->
            PrepareExpire(c, c.next)
      [] c.next \in {"NEGOTIATE", "PRIMARY_PENDING", "EXPIRE"} ->
            [Invalidate(c) EXCEPT !.event = c.next]
      [] OTHER -> c

\* process_next_event, for a context whose next event is due.
ProcessNextEvent(p, c) ==
    CASE c.next = "BECOME_PRIMARY" ->
            IF DataLimitDefer(p, c)
            THEN SetEvent(c, "NONE", "PRIMARY_PENDING", 2 * HandshakeWindow)
            ELSE SetEvent(c, "BECOME_PRIMARY", "RENEGOTIATE",
                          Remaining(c, RenegotiateOf(p)))
      [] c.next \in {"RENEGOTIATE", "RENEGOTIATE_FORCE"} ->
            PrepareExpire(c, c.next)
      [] c.next \in {"NEGOTIATE", "PRIMARY_PENDING", "EXPIRE"} ->
            [Invalidate(c) EXCEPT !.event = c.next]
      [] OTHER -> c

Due(c) == c.event = "NONE" /\ c.next # "NONE" /\ c.due = 0

\* event_pending: a context that is polled for its event.
Polled(p, c) == IF c # NoKey /\ Due(c) THEN ProcessNextEvent(p, c) ELSE c

SetNextEventIfUnspecified(c) ==
    IF c.next = "NONE" /\ c.valid THEN PrepareExpire(c, "NONE") ELSE c

KeyLimitReneg(p, c, event, t) == SetEvent(c, "NONE", event, t + LimitDelay(p))

\* Mutant of Active: the peers turn to the new key at once, as in OpenVPN 2.x.
ActiveAtOnce(c) ==
    [SetEvent(c, "ACTIVE", "BECOME_PRIMARY", 0) EXCEPT !.state = "ACTIVE"]

\* active(), called by post_ack_action.
Active(c) ==
    [SetEvent(c, "ACTIVE", "BECOME_PRIMARY", BecomePrimary)
        EXCEPT !.state = "ACTIVE"]

\* Once everything sent is acknowledged the handshake goes on.
PostAckAction(p, c) ==
    CASE c.unacked # {} -> c
      [] c.unacked = {} /\ c.state = "WAIT_RESET_ACK" ->
            [c EXCEPT !.state = "WAIT_AUTH",
                      !.unacked = IF p = "client" THEN {"auth"} ELSE {}]
      [] c.unacked = {} /\ c.state = "WAIT_AUTH_ACK" -> Active(c)
      [] OTHER -> c

(***************************************************************************)
(* raw_recv and app_recv.  The server answers a reset with a reset and an  *)
(* auth with an auth; the client answers neither.                          *)
(***************************************************************************)
Awaits(c, m) == c.state = (IF m = "reset" THEN "WAIT_RESET" ELSE "WAIT_AUTH")

Received(p, c, m) ==
    [c EXCEPT !.state = IF m = "reset" THEN "WAIT_RESET_ACK" ELSE "WAIT_AUTH_ACK",
              !.unacked = IF p = "server" THEN @ \cup {m} ELSE @]

HasReceived(c, m) ==
    IF m = "reset" THEN c.state # "WAIT_RESET"
                   ELSE c.state \in {"WAIT_AUTH_ACK", "ACTIVE"}

-----------------------------------------------------------------------------
(* ProtoContext *)

ProtoContext == [
    primary   : KeyContext,
    secondary : KeyContext \cup {NoKey},
    upcoming  : KeyId]                      \* upcoming_key_id

\* Mutant of NextKeyId: the key ids never recycle.
NextKeyIdOnward(id) == id + 1

\* Mutant of NextKeyId: the key id stays.
NextKeyIdSame(id) == id

\* After the last key id comes 1: only the first key has id 0.
NextKeyId(id) == IF id = MaxKeyId THEN 1 ELSE id + 1

\* Mutant of NewSecondary: a secondary context is not replaced.
NewSecondaryIfFree(s, initiator) ==
    IF s.secondary # NoKey THEN s
    ELSE [s EXCEPT !.secondary = NewContext(s.upcoming, initiator),
                   !.upcoming = NextKeyId(s.upcoming)]

\* new_secondary_key (and start(), for the initiator): whatever was the
\* secondary is gone.
NewSecondary(s, initiator) ==
    [s EXCEPT !.secondary = NewContext(s.upcoming, initiator),
              !.upcoming = NextKeyId(s.upcoming)]

Promote(s) ==
    [s EXCEPT !.primary = s.secondary,
              !.secondary = PrepareExpire(s.primary, "NONE")]

Disconnect(s) ==
    [s EXCEPT !.primary = Invalidate(@),
              !.secondary = IF @ = NoKey THEN NoKey ELSE Invalidate(@)]

HasSecondary(s) == s.secondary # NoKey /\ s.secondary.valid

\* process_primary_event, after event_pending.
ProcessPrimaryEvent(p, s) ==
    LET c     == Polled(p, s.primary)
        taken == [s EXCEPT !.primary = [c EXCEPT !.event = "NONE"]]
        done  == CASE c.event \in {"RENEGOTIATE", "RENEGOTIATE_FORCE"} ->
                        NewSecondary(taken, TRUE)
                   [] c.event = "EXPIRE" /\ HasSecondary(s) -> Promote(taken)
                   [] c.event = "EXPIRE" /\ ~HasSecondary(s) -> Disconnect(taken)
                   [] c.event = "NEGOTIATE" -> Disconnect(taken)
                   [] OTHER -> taken
    IN  IF c.event = "NONE"
        THEN [s EXCEPT !.primary = c]
        ELSE [done EXCEPT !.primary = SetNextEventIfUnspecified(@)]

\* process_secondary_event, after event_pending.
ProcessSecondaryEvent(p, s) ==
    LET c     == Polled(p, s.secondary)
        taken == [s EXCEPT !.secondary = [c EXCEPT !.event = "NONE"]]
        done  == CASE c.event = "ACTIVE" ->
                        [taken EXCEPT !.primary = PrepareExpire(@, "NONE")]
                   [] c.event = "BECOME_PRIMARY" /\ c.valid -> Promote(taken)
                   [] c.event = "EXPIRE" -> [taken EXCEPT !.secondary = NoKey]
                   [] c.event = "RENEGOTIATE_QUEUE" /\ c.next = "BECOME_PRIMARY" ->
                        [taken EXCEPT !.primary =
                            KeyLimitReneg(p, @, "RENEGOTIATE_FORCE", c.due)]
                   [] c.event \in {"NEGOTIATE", "PRIMARY_PENDING", "RENEGOTIATE_FORCE"} ->
                        NewSecondary(taken, TRUE)
                   [] OTHER -> taken
    IN  CASE c = NoKey -> s
          [] c # NoKey /\ c.event = "NONE" -> [s EXCEPT !.secondary = c]
          [] OTHER -> [done EXCEPT !.secondary =
                        IF @ = NoKey THEN NoKey ELSE SetNextEventIfUnspecified(@)]

\* The session is over once its primary key is invalid.
Over(p) == ~proto[p].primary.valid

Pending(p) ==
    /\ ~Over(p)
    /\ \E slot \in Slot :
         LET c == proto[p][slot] IN c # NoKey /\ (c.event # "NONE" \/ Due(c))

-----------------------------------------------------------------------------
(* Packets between the peers *)

\* A valid context of p in a slot.
Lives(p, slot) == proto[p][slot] # NoKey /\ proto[p][slot].valid

\* PacketType: the slot that a control packet for a key id belongs to, or the
\* demand for a new secondary key, or nothing.
Destination(s, id, m) ==
    CASE s.primary.id = id -> "primary"
      [] s.primary.id # id /\ s.secondary # NoKey /\ s.secondary.id = id -> "secondary"
      [] OTHER -> IF m = "reset" /\ id # 0 /\ id = s.upcoming THEN "soft_reset" ELSE "drop"

\* What p makes of message m of a context with this id: control_net_recv,
\* then the flush that follows.
AfterMessage(p, s, id, m) ==
    LET to   == Destination(s, id, m)
        t    == IF to = "soft_reset" THEN NewSecondary(s, FALSE) ELSE s
        slot == IF to = "primary" THEN "primary" ELSE "secondary"
    IN  [t EXCEPT ![slot] = PostAckAction(p, Received(p, @, m))]

\* Would message m for key id change anything at p?
Accepts(p, id, m) ==
    LET s  == proto[p]
        to == Destination(s, id, m)
    IN  \/ to = "soft_reset"
        \/ to \in Slot /\ s[to].valid /\ Awaits(s[to], m)

CanReceive(p, slot, m) ==
    /\ ~Over(p) /\ ~Over(Other(p))
    /\ Lives(Other(p), slot)
    /\ m \in proto[Other(p)][slot].unacked
    /\ Accepts(p, proto[Other(p)][slot].id, m)

\* The peer's context with this key has message m of p's context in the slot.
CanBeAcked(p, slot, m) ==
    /\ ~Over(p) /\ ~Over(Other(p))
    /\ Lives(p, slot)
    /\ m \in proto[p][slot].unacked
    /\ LET s  == proto[Other(p)]
           to == Destination(s, proto[p][slot].id, m)
       IN  to \in Slot /\ s[to].valid /\ HasReceived(s[to], m)

-----------------------------------------------------------------------------
(* Actions.  An event that is pending is processed before anything else    *)
(* happens at its peer: flush() ends every handler.                        *)

\* control_net_recv of a message of the peer's context in the slot.
Receive(p, slot, m) ==
    /\ ~Pending(p)
    /\ CanReceive(p, slot, m)
    /\ proto' = [proto EXCEPT ![p] =
                    AfterMessage(p, @, proto[Other(p)][slot].id, m)]
    /\ UNCHANGED lag

\* An acknowledgement arrives, on its own or with a message.
Acked(p, slot, m) ==
    /\ ~Pending(p)
    /\ CanBeAcked(p, slot, m)
    /\ LET c == proto[p][slot]
       IN  proto' = [proto EXCEPT ![p][slot] =
                        PostAckAction(p, [c EXCEPT !.unacked = @ \ {m}])]
    /\ UNCHANGED lag

\* Can p decrypt with the key in the slot, and the peer transmit with it?
DataArrives(p, slot) ==
    /\ ~Over(p) /\ ~Over(Other(p))
    /\ Lives(p, slot)
    /\ LET c    == proto[p][slot]
           peer == proto[Other(p)].primary
       IN  /\ c.state = "ACTIVE" /\ peer.state = "ACTIVE"
           /\ c.id = peer.id
           /\ slot = "secondary" => c.id # proto[p].primary.id

\* data_decrypt of the first packet with a key: data_limit_event, Green.
FirstData(p, slot) ==
    /\ DataLimited
    /\ ~Pending(p)
    /\ DataArrives(p, slot)
    /\ ~proto[p][slot].green
    /\ proto' = [proto EXCEPT ![p][slot] =
                    LET c == [@ EXCEPT !.green = TRUE]
                    IN  IF c.next = "PRIMARY_PENDING"
                        THEN SetEvent(c, "NONE", "BECOME_PRIMARY", 1)
                        ELSE c]
    /\ UNCHANGED lag

\* schedule_key_limit_renegotiation: the key has encrypted or decrypted as
\* much as it may.  A secondary key only decrypts.
KeyLimit(p, slot) ==
    /\ DataLimited
    /\ ~Pending(p)
    /\ ~Over(p) /\ Lives(p, slot)
    /\ slot = "secondary" => DataArrives(p, slot) /\ proto[p][slot].green
    /\ proto[p][slot].state = "ACTIVE"
    /\ ~proto[p][slot].fired
    /\ proto' = [proto EXCEPT ![p][slot] =
                    LET c == [@ EXCEPT !.fired = TRUE]
                    IN  IF c.next = "BECOME_PRIMARY"
                        THEN [c EXCEPT !.event = "RENEGOTIATE_QUEUE"]
                        ELSE KeyLimitReneg(p, c, "RENEGOTIATE", 0)]
    /\ UNCHANGED lag

\* One round of process_events in flush().
ProcessEvents(p) ==
    /\ Pending(p)
    /\ proto' = [proto EXCEPT ![p] =
                    ProcessSecondaryEvent(p, ProcessPrimaryEvent(p, @))]
    /\ UNCHANGED lag

\* keepalive_housekeeping: nothing comes from a peer whose session is over.
KeepaliveTimeout(p) ==
    /\ ~Over(p) /\ ~Pending(p) /\ Over(Other(p))
    /\ proto' = [proto EXCEPT ![p] = Disconnect(@)]
    /\ UNCHANGED lag

Aged(c) ==
    IF c = NoKey THEN c
    ELSE [c EXCEPT !.due = IF @ > 0 THEN @ - 1 ELSE 0,
                   !.age = IF @ < MaxAge THEN @ + 1 ELSE @]

\* Something the network could hand over now.  Keepalives are data too, so a
\* peer that transmits with a key is heard even when there is no traffic.
Withheld ==
    \E p \in Peer, slot \in Slot :
        \/ \E m \in Message : CanReceive(p, slot, m) \/ CanBeAcked(p, slot, m)
        \/ DataLimited /\ DataArrives(p, slot) /\ ~proto[p][slot].green

\* Time passes.  The housekeeping timer runs the events of a moment before
\* time goes on, and the network withholds packets for MaxLag at most.
Tick ==
    /\ \A p \in Peer : ~Pending(p)
    /\ Withheld => lag < MaxLag
    /\ proto' = [p \in Peer |->
                    IF Over(p) THEN proto[p]
                    ELSE [proto[p] EXCEPT !.primary = Aged(@), !.secondary = Aged(@)]]
    /\ lag' = IF Withheld THEN lag + 1 ELSE 0

\* reset() at both ends and start() at the client.
Init ==
    /\ proto = [p \in Peer |->
                  [primary |-> NewContext(0, p = "client"),
                   secondary |-> NoKey, upcoming |-> 1]]
    /\ lag = 0

Next ==
    \/ \E p \in Peer, slot \in Slot, m \in Message :
         Receive(p, slot, m) \/ Acked(p, slot, m)
    \/ \E p \in Peer, slot \in Slot : FirstData(p, slot) \/ KeyLimit(p, slot)
    \/ \E p \in Peer : ProcessEvents(p) \/ KeepaliveTimeout(p)
    \/ Tick

Spec == Init /\ [][Next]_vars

\* Packets that the network withholds for MaxLag arrive, the event loop runs
\* the housekeeping timer and the keepalive timer, and time goes on.
Fairness ==
    /\ \A p \in Peer, slot \in Slot :
         /\ \A m \in Message : WF_vars(Receive(p, slot, m)) /\ WF_vars(Acked(p, slot, m))
         /\ WF_vars(FirstData(p, slot))
    /\ \A p \in Peer : WF_vars(ProcessEvents(p)) /\ WF_vars(KeepaliveTimeout(p))
    /\ WF_vars(Tick)

FairSpec == Spec /\ Fairness

-----------------------------------------------------------------------------
(* Properties *)

TypeOK ==
    /\ proto \in [Peer -> ProtoContext]
    /\ lag \in 0..MaxLag

\* A peer that has begun to transmit with a key has a counterpart that can
\* decrypt what it sends: each end turns to the new key by a timer of its own
\* (KEV_BECOME_PRIMARY, "more reliable than the immediate rollover"), and
\* retires or wipes the old one by another, without asking its peer.
Transmits(p) ==
    /\ ~Over(p) /\ ~Over(Other(p)) /\ ~Pending(p)
    /\ proto[p].primary.state = "ACTIVE"
    /\ proto[p].primary.next # "BECOME_PRIMARY"

SharedKey ==
    \A p \in Peer : Transmits(p) =>
        \E slot \in Slot :
            /\ Lives(Other(p), slot)
            /\ proto[Other(p)][slot].id = proto[p].primary.id
            /\ proto[Other(p)][slot].state = "ACTIVE"

\* While the network withholds packets for less than a handshake window no
\* session ends by PRIMARY_EXPIRE, HANDSHAKE_TIMEOUT or for want of an answer:
\* one renegotiation follows another, and neither peer's collides with or
\* wipes the key that the session still needs.
SessionSurvives == \A p \in Peer : ~Over(p)

\* The two contexts of a peer have different key ids, although ids recycle
\* (next_key_id): packets are matched to a context by key id alone.
DistinctKeyIds ==
    \A p \in Peer :
        proto[p].secondary # NoKey =>
            proto[p].secondary.id # proto[p].primary.id

\* active() is called "when initial KeyContext transitions to ACTIVE state"
\* (proto.hpp:3649) and for no other: a key still negotiating is not made
\* primary by the expiry of the old one.
ActiveIsInitial ==
    \A p \in Peer :
        proto[p].primary.event = "ACTIVE" => proto[p].primary.id = 0

\* A key is not transmitted with for ever, whatever renegotiations failed,
\* collided or were forced in between.  Without data limits prepare_expire sets
\* the same expiry time however often it retires a key.  With them the expiry is
\* put off: a key whose limit has fired is given two handshake windows from now
\* each time, and the limit of the key to come forces a renegotiation in place
\* of the expiry.  Grace bounds what comes of both.
KeyAgeBounded ==
    \A p \in Peer : ~Over(p) => proto[p].primary.age <= Expire + Grace

\* promote_secondary_to_primary swaps the contexts: it never brings back the
\* key it retired earlier, which waits as the secondary for its expiry.
Retired(c) == c # NoKey /\ c.next = "EXPIRE"

RetiredStaysRetired ==
    [][\A p \in Peer :
          proto[p].primary.id # proto'[p].primary.id =>
              ~Retired(proto[p].secondary)]_vars

\* While packets are withheld for less than a handshake window each key is
\* replaced by another in the end: renegotiation follows renegotiation, started
\* by the client's timer or the server's.
KeysAreRefreshed ==
    \A p \in Peer, id \in KeyId :
        proto[p].primary.id = id ~> proto[p].primary.id # id

\* schedule_key_limit_renegotiation: "If primary, renegotiate now (within a
\* second or two). If secondary, queue the renegotiation request until key
\* reaches primary" (proto.hpp:2116-2118).  A primary key that has reached its
\* limit has a renegotiation due within LimitDelay, or one under way.
LimitHonoured ==
    \A p \in Peer :
        LET c == proto[p].primary
            s == proto[p].secondary
        IN  ~Over(p) /\ ~Pending(p) /\ c.fired =>
              \/ c.next \in {"RENEGOTIATE", "RENEGOTIATE_FORCE"} /\ c.due <= LimitDelay(p)
              \/ s # NoKey /\ ~Retired(s)

=============================================================================
