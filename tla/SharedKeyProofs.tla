-------------------------- MODULE SharedKeyProofs --------------------------
(***************************************************************************)
(* Proofs about KeyContexts, for every configuration of times in which     *)
(* packets are withheld for less than a handshake and less than it takes a *)
(* new key to become primary (PromptNetwork), and ciphers without a limit  *)
(* on the data of a key: the peers always share a data key and no session  *)
(* is lost.                                                                *)
(*                                                                         *)
(* The peers do not tell each other when they change keys, so the argument *)
(* is one about clocks.  All of them are measured against the age of the   *)
(* client's newest key, x.  The client begins every handshake, because the *)
(* server's key is the younger one and waits a handshake window longer.    *)
(* A handshake that is not over has something to receive or acknowledge,   *)
(* and thus is as old as the network is late at most.                      *)
(***************************************************************************)
EXTENDS KeyContextsProofs

\* The delays the keys are made for.
PromptNetwork ==
    /\ ~DataLimited
    /\ MaxKeyId >= 3
    /\ MaxLag < HandshakeWindow
    /\ MaxLag < BecomePrimary
    /\ BecomePrimary + MaxLag < Renegotiate
    /\ BecomePrimary + MaxLag < TranWindow

-----------------------------------------------------------------------------
(* Two contexts of one key, x of the client and y of the server.           *)

Is(c, state, unacked) == c.state = state /\ c.unacked = unacked

\* The server has answered with its reset, and with its auth.
Met(y) == Is(y, "WAIT_RESET_ACK", {"reset"}) \/ Is(y, "WAIT_AUTH", {})
Agreed(y) == Is(y, "WAIT_AUTH_ACK", {"auth"}) \/ Is(y, "ACTIVE", {})

\* How far one end of a handshake can be from the other.
Shaking(x, y) ==
    \/ Is(x, "WAIT_RESET", {"reset"}) /\ Is(y, "WAIT_RESET", {})
    \/ /\ Is(x, "WAIT_RESET", {"reset"}) \/ Is(x, "WAIT_RESET", {})
       /\ Is(y, "WAIT_RESET_ACK", {"reset"})
    \/ (Is(x, "WAIT_RESET_ACK", {"reset"}) \/ Is(x, "WAIT_AUTH", {"auth"})) /\ Met(y)
    \/ (Is(x, "WAIT_AUTH", {"auth"}) \/ Is(x, "WAIT_AUTH", {})) /\ Is(y, "WAIT_AUTH_ACK", {"auth"})
    \/ (Is(x, "WAIT_AUTH_ACK", {"auth"}) \/ Is(x, "ACTIVE", {})) /\ Agreed(y)

\* The clock of a context c whose key the client has had for `age`, and whose
\* next renegotiation is at the age t.  A handshake is no older than l.
Clock(c, age, t, l) ==
    \/ /\ c.next = "NEGOTIATE" /\ c.event = "NONE" /\ c.state # "ACTIVE"
       /\ age <= l /\ c.age + c.due = HandshakeWindow
    \/ /\ c.next = "BECOME_PRIMARY" /\ c.state = "ACTIVE"
       /\ c.event = "NONE" \/ (c.event = "ACTIVE" /\ age <= l)
       /\ BecomePrimary <= age + c.due /\ age + c.due <= BecomePrimary + MaxLag
    \/ /\ c.next = "RENEGOTIATE" /\ c.event = "NONE" /\ c.state = "ACTIVE"
       /\ BecomePrimary <= age /\ c.age + c.due = t

Pair(x, y, l) ==
    /\ x.valid /\ y.valid /\ ~x.fired /\ ~y.fired /\ x.id = y.id
    /\ Shaking(x, y)
    /\ y.age <= x.age
    /\ Clock(x, x.age, Renegotiate, l)
    /\ Clock(y, x.age, Renegotiate + HandshakeWindow, l)

Young(c) == c.next \in {"NEGOTIATE", "BECOME_PRIMARY"}

-----------------------------------------------------------------------------
(* The key before.                                                         *)

Settled(c) == c.valid /\ ~c.fired /\ Is(c, "ACTIVE", {}) /\ c.event = "NONE"

\* The client's old key expires, since it began to renegotiate.
OldClient(o, x) ==
    /\ Settled(o) /\ o.next = "EXPIRE"
    /\ o.age = Renegotiate + x.age /\ o.age + o.due = Expire

\* The server's waits for its own renegotiation until the new key is active.
OldServer(q, x, l) ==
    /\ Settled(q)
    /\ q.age <= Renegotiate + x.age
    /\ \/ q.next = "RENEGOTIATE" /\ q.age + q.due = Renegotiate + HandshakeWindow /\ x.age <= l
       \/ q.next = "EXPIRE" /\ q.age + q.due = Expire

\* What is left of the key before, and what id it does not have.
Left(r, ids) == r # NoKey => Settled(r) /\ r.next = "EXPIRE" /\ r.id \notin ids

-----------------------------------------------------------------------------
(* The peers, with the client's part first: c and s, and l for lag.        *)

\* Both are at the same key.
Together(c, s, l) ==
    LET x == c.primary
        y == s.primary
    IN  /\ Pair(x, y, l)
        /\ Young(x) \/ Young(y) => x.id = 0
        /\ c.upcoming = NextKeyId(x.id) /\ s.upcoming = NextKeyId(x.id)
        /\ Left(c.secondary, {x.id, NextKeyId(x.id)})
        /\ Left(s.secondary, {x.id, NextKeyId(x.id)})

\* The client has begun to renegotiate and the server does not know.
Offered(c, s, l) ==
    LET x == c.secondary
        k == c.primary.id
    IN  /\ x # NoKey /\ x.valid /\ ~x.fired
        /\ Is(x, "WAIT_RESET", {"reset"}) /\ x.next = "NEGOTIATE"
        /\ Clock(x, x.age, Renegotiate, l)
        /\ OldClient(c.primary, x)
        /\ OldServer(s.primary, x, l) /\ s.primary.next = "RENEGOTIATE"
        /\ s.primary.id = k /\ x.id = NextKeyId(k)
        /\ s.upcoming = x.id /\ c.upcoming = NextKeyId(x.id)
        /\ Left(s.secondary, {k, x.id})

\* The new key is negotiated, and then waits at both ends.
Negotiated(c, s, l) ==
    LET x == c.secondary
        y == s.secondary
        k == c.primary.id
    IN  /\ x # NoKey /\ y # NoKey /\ Pair(x, y, l) /\ Young(x) /\ Young(y)
        /\ y.state # "WAIT_RESET"
        /\ OldClient(c.primary, x)
        /\ OldServer(s.primary, x, l)
        /\ y.next = "BECOME_PRIMARY" /\ y.event = "NONE" => s.primary.next = "EXPIRE"
        /\ s.primary.id = k /\ x.id = NextKeyId(k)
        /\ s.upcoming = NextKeyId(x.id) /\ c.upcoming = NextKeyId(x.id)

\* One has turned to the new key, the other has not.
ClientAhead(c, s, l) ==
    LET x == c.primary
        y == s.secondary
        k == s.primary.id
    IN  /\ y # NoKey /\ Pair(x, y, l) /\ ~Young(x) /\ Young(y) /\ y.event = "NONE"
        /\ c.secondary # NoKey /\ OldClient(c.secondary, x)
        /\ OldServer(s.primary, x, l) /\ s.primary.next = "EXPIRE"
        /\ c.secondary.id = k /\ x.id = NextKeyId(k)
        /\ s.upcoming = NextKeyId(x.id) /\ c.upcoming = NextKeyId(x.id)

ServerAhead(c, s, l) ==
    LET x == c.secondary
        y == s.primary
        k == c.primary.id
    IN  /\ x # NoKey /\ Pair(x, y, l) /\ Young(x) /\ ~Young(y) /\ x.event = "NONE"
        /\ OldClient(c.primary, x)
        /\ s.secondary # NoKey /\ OldServer(s.secondary, x, l) /\ s.secondary.next = "EXPIRE"
        /\ s.secondary.id = k /\ x.id = NextKeyId(k)
        /\ s.upcoming = NextKeyId(x.id) /\ c.upcoming = NextKeyId(x.id)

Synchronous(c, s, l) ==
    \/ Together(c, s, l)
    \/ Offered(c, s, l)
    \/ Negotiated(c, s, l)
    \/ ClientAhead(c, s, l)
    \/ ServerAhead(c, s, l)

SInv == Synchronous(proto["client"], proto["server"], lag)

-----------------------------------------------------------------------------
(* The handshake.                                                          *)

\* The delays are numbers, as far apart as the argument needs.
LEMMA Delays ==
    ASSUME PromptNetwork
    PROVE  /\ HandshakeWindow \in Nat /\ BecomePrimary \in Nat /\ Renegotiate \in Nat
           /\ TranWindow \in Nat /\ MaxLag \in Nat /\ MaxKeyId \in Nat
           /\ MaxKeyId >= 3 /\ MaxLag < HandshakeWindow /\ MaxLag < BecomePrimary
           /\ BecomePrimary + MaxLag < Renegotiate /\ BecomePrimary + MaxLag < TranWindow
           /\ Expire = Renegotiate + TranWindow
           /\ MaxAge = Renegotiate + TranWindow + Renegotiate + 4 * HandshakeWindow
  BY KeyAssumption DEF PromptNetwork, Expire, MaxAge

\* The fields of a context.
LEMMA Fields ==
    ASSUME NEW c \in KeyContext
    PROVE  /\ c.id \in KeyId /\ c.state \in State /\ c.unacked \in SUBSET Message
           /\ c.event \in Event /\ c.next \in Event /\ c.due \in Nat /\ c.age \in Nat
           /\ c.age <= MaxAge /\ c.fired \in BOOLEAN /\ c.valid \in BOOLEAN
  BY Times DEF KeyContext

\* d is c with another state and other messages to acknowledge.
Restated(c, d, st, un) ==
    /\ d \in KeyContext /\ Is(d, st, un)
    /\ d.id = c.id /\ d.age = c.age /\ d.valid = c.valid /\ d.fired = c.fired
    /\ d.next = c.next /\ d.event = c.event /\ d.due = c.due

\* A context with another state.
LEMMA Restates ==
    ASSUME NEW c \in KeyContext, NEW st \in State, NEW un \in SUBSET Message
    PROVE  Restated(c, [c EXCEPT !.state = st, !.unacked = un], st, un)
  BY DEF Restated, Is, KeyContext

\* What post_ack_action makes of a handshake: it goes on at its pace, or ends
\* with active().
GoesOn(p, c, e, st, un) ==
    /\ e.id = c.id /\ e.age = c.age /\ e.valid = c.valid /\ e.fired = c.fired
    /\ e.next = "NEGOTIATE" \/ (e.next = "BECOME_PRIMARY" /\ e.event = "ACTIVE")
    /\ un # {} => Is(e, st, un)
    /\ un = {} /\ st = "WAIT_RESET_ACK" =>
         Is(e, "WAIT_AUTH", IF p = "client" THEN {"auth"} ELSE {})
    /\ un = {} /\ st = "WAIT_AUTH_ACK" => Is(e, "ACTIVE", {})
    /\ st \notin {"WAIT_RESET_ACK", "WAIT_AUTH_ACK"} => Is(e, st, un)

\* post_ack_action takes the clock of a handshake along.
LEMMA PostAckGoesOn ==
    ASSUME PromptNetwork, NEW c, NEW p \in Peer,
           NEW age \in Nat, NEW t \in Nat, NEW l \in 0..MaxLag,
           Clock(c, age, t, l), c.state # "ACTIVE",
           NEW st \in State \ {"ACTIVE"}, NEW un, NEW d, Restated(c, d, st, un)
    PROVE  GoesOn(p, c, PostAckAction(p, d), st, un) /\ Clock(PostAckAction(p, d), age, t, l)
  <1> DEFINE e == PostAckAction(p, d)
  <1>1. /\ c.next = "NEGOTIATE" /\ c.event = "NONE"
        /\ age <= l /\ c.age + c.due = HandshakeWindow
    BY DEF Clock
  <1>2. /\ d.id = c.id /\ d.age = c.age /\ d.valid = c.valid /\ d.next = c.next
        /\ d.event = c.event /\ d.due = c.due /\ d.fired = c.fired /\ d.state = st /\ d.unacked = un
        /\ d \in KeyContext /\ Is(d, st, un)
    BY DEF Restated, Is
  <1>3. Clock(d, age, t, l)
    BY <1>1, <1>2 DEF Clock
  <1>4. CASE un # {} \/ st \notin {"WAIT_RESET_ACK", "WAIT_AUTH_ACK"}
    <2>1. e = d
      BY <1>2, <1>4 DEF PostAckAction
    <2> HIDE DEF e
    <2> QED BY <1>1, <1>2, <1>3, <1>4, <2>1 DEF e, GoesOn
  <1>5. CASE un = {} /\ st = "WAIT_RESET_ACK"
    <2> DEFINE ans == IF p = "client" THEN {"auth"} ELSE {}
    <2>1. e = [d EXCEPT !.state = "WAIT_AUTH", !.unacked = ans]
      BY <1>2, <1>5 DEF PostAckAction
    <2>2. ans \in SUBSET Message /\ "WAIT_AUTH" \in State
      BY DEF Message, State
    <2>3. Restated(d, e, "WAIT_AUTH", ans)
      <3> HIDE DEF ans, e
      <3> QED BY <1>2, <2>1, <2>2, Restates
    <2> HIDE DEF e
    <2>4. Clock(e, age, t, l)
      BY <1>1, <1>2, <2>3 DEF Clock, Restated, Is
    <2>5. GoesOn(p, c, e, st, un)
      BY <1>1, <1>2, <1>5, <2>3 DEF GoesOn, Restated
    <2> QED BY <2>4, <2>5 DEF e
  <1>6. CASE un = {} /\ st = "WAIT_AUTH_ACK"
    <2>1. e = Active(d)
      BY <1>2, <1>6 DEF PostAckAction
    <2>2. /\ e.id = d.id /\ e.age = d.age /\ e.valid = d.valid /\ e.fired = d.fired
          /\ e.next = "BECOME_PRIMARY"
          /\ e.event = "ACTIVE" /\ e.due = BecomePrimary /\ e.state = "ACTIVE" /\ e.unacked = un
      BY <1>2, <2>1 DEF Active, SetEvent, KeyContext
    <2> HIDE DEF e
    <2>3. BecomePrimary <= age + BecomePrimary /\ age + BecomePrimary <= BecomePrimary + MaxLag
      BY <1>1, Delays
    <2>4. Clock(e, age, t, l)
      BY <1>1, <1>6, <2>2, <2>3 DEF Clock
    <2>5. GoesOn(p, c, e, st, un)
      BY <1>2, <1>6, <2>2 DEF GoesOn, Is
    <2> QED BY <2>4, <2>5 DEF e
  <1> QED BY <1>4, <1>5, <1>6

\* e is what a message or an acknowledgement makes of the context c: its key
\* is the same, and when it is agreed upon the event ACTIVE waits.
Moved(c, e) ==
    /\ e.id = c.id /\ e.age = c.age
    /\ e.next = "NEGOTIATE" \/ (e.next = "BECOME_PRIMARY" /\ e.event = "ACTIVE")

\* The parts of a pair that a handshake goes on with.
LEMMA PairParts ==
    ASSUME PromptNetwork, NEW x \in KeyContext, NEW y \in KeyContext, NEW l \in 0..MaxLag,
           Pair(x, y, l)
    PROVE  /\ x.age \in Nat /\ Renegotiate \in Nat /\ Renegotiate + HandshakeWindow \in Nat
           /\ x.unacked \in SUBSET Message /\ y.unacked \in SUBSET Message
           /\ x.state \in State /\ y.state \in State
           /\ Clock(x, x.age, Renegotiate, l)
           /\ Clock(y, x.age, Renegotiate + HandshakeWindow, l)
           /\ Shaking(x, y)
  BY Delays, Fields DEF Pair

\* Nothing else of a pair depends on the state of its handshake.
LEMMA PairOnwards ==
    ASSUME NEW x, NEW y, NEW l, Pair(x, y, l), NEW d, NEW e,
           d.id = x.id, d.age = x.age, d.valid = x.valid, d.fired = x.fired,
           e.id = y.id, e.age = y.age, e.valid = y.valid, e.fired = y.fired,
           Clock(d, x.age, Renegotiate, l),
           Clock(e, x.age, Renegotiate + HandshakeWindow, l),
           Shaking(d, e)
    PROVE  Pair(d, e, l)
  BY DEF Pair

\* The client receives an answer.
LEMMA ClientReceives ==
    ASSUME PromptNetwork, NEW x \in KeyContext, NEW y \in KeyContext, NEW l \in 0..MaxLag,
           Pair(x, y, l), NEW m \in Message, m \in y.unacked, Awaits(x, m)
    PROVE  LET e == PostAckAction("client", Received("client", x, m))
           IN  Pair(e, y, l) /\ Moved(x, e)
  <1> DEFINE st == IF m = "reset" THEN "WAIT_RESET_ACK" ELSE "WAIT_AUTH_ACK"
             e == PostAckAction("client", [x EXCEPT !.state = st, !.unacked = x.unacked])
  <1>0. PostAckAction("client", Received("client", x, m)) = e
    BY DEF Received
  <1>1. /\ st \in State \ {"ACTIVE"} /\ x.state # "ACTIVE" /\ "client" \in Peer
        /\ x.unacked \in SUBSET Message
    BY PairParts DEF State, Awaits, Peer
  <1>2. GoesOn("client", x, e, st, x.unacked) /\ Clock(e, x.age, Renegotiate, l)
    <2> DEFINE d == [x EXCEPT !.state = st, !.unacked = x.unacked]
    <2>1. Clock(x, x.age, Renegotiate, l) /\ x.age \in Nat /\ Renegotiate \in Nat
      BY PairParts
    <2> HIDE DEF st
    <2>2. Restated(x, d, st, x.unacked)
      BY <1>1, Restates
    <2> HIDE DEF d
    <2>3. /\ GoesOn("client", x, PostAckAction("client", d), st, x.unacked)
          /\ Clock(PostAckAction("client", d), x.age, Renegotiate, l)
      BY <1>1, <2>1, <2>2, PostAckGoesOn
    <2> QED BY <2>3 DEF d
  <1> HIDE DEF e
  <1>3. CASE m = "reset"
    <2>1. /\ Is(x, "WAIT_RESET", {"reset"}) \/ Is(x, "WAIT_RESET", {})
          /\ Is(y, "WAIT_RESET_ACK", {"reset"})
      BY <1>3, PairParts DEF Shaking, Is, Awaits, Met, Agreed
    <2>2. Is(e, "WAIT_RESET_ACK", {"reset"}) \/ Is(e, "WAIT_AUTH", {"auth"})
      BY <1>2, <1>3, <2>1 DEF Is, GoesOn
    <2>3. Shaking(e, y)
      BY <2>1, <2>2 DEF Shaking, Met
    <2> QED BY <1>0, <1>2, <2>3, PairParts, PairOnwards DEF Moved, GoesOn
  <1>4. CASE m = "auth"
    <2>1. /\ Is(x, "WAIT_AUTH", {"auth"}) \/ Is(x, "WAIT_AUTH", {})
          /\ Is(y, "WAIT_AUTH_ACK", {"auth"})
      BY <1>4, PairParts DEF Shaking, Is, Awaits, Met, Agreed
    <2>2. Is(e, "WAIT_AUTH_ACK", {"auth"}) \/ Is(e, "ACTIVE", {})
      BY <1>2, <1>4, <2>1 DEF Is, GoesOn
    <2>3. Shaking(e, y)
      BY <2>1, <2>2 DEF Shaking, Agreed
    <2> QED BY <1>0, <1>2, <2>3, PairParts, PairOnwards DEF Moved, GoesOn
  <1> QED BY <1>3, <1>4 DEF Message

\* The server receives a message and answers it.
LEMMA ServerReceives ==
    ASSUME PromptNetwork, NEW x \in KeyContext, NEW y \in KeyContext, NEW l \in 0..MaxLag,
           Pair(x, y, l), NEW m \in Message, m \in x.unacked, Awaits(y, m)
    PROVE  LET e == PostAckAction("server", Received("server", y, m))
           IN  Pair(x, e, l) /\ Moved(y, e) /\ e.state # "WAIT_RESET"
  <1> DEFINE st == IF m = "reset" THEN "WAIT_RESET_ACK" ELSE "WAIT_AUTH_ACK"
             un == y.unacked \cup {m}
             e == PostAckAction("server", [y EXCEPT !.state = st, !.unacked = un])
  <1>0. PostAckAction("server", Received("server", y, m)) = e
    BY DEF Received
  <1>1. /\ st \in State \ {"ACTIVE"} /\ y.state # "ACTIVE" /\ "server" \in Peer
        /\ un \in SUBSET Message /\ un # {}
    BY PairParts DEF State, Awaits, Peer
  <1>2. GoesOn("server", y, e, st, un) /\ Clock(e, x.age, Renegotiate + HandshakeWindow, l)
    <2> DEFINE d == [y EXCEPT !.state = st, !.unacked = un]
    <2>1. /\ Clock(y, x.age, Renegotiate + HandshakeWindow, l)
          /\ x.age \in Nat /\ Renegotiate + HandshakeWindow \in Nat
      BY PairParts
    <2> HIDE DEF st, un
    <2>2. Restated(y, d, st, un)
      BY <1>1, Restates
    <2> HIDE DEF d
    <2>3. /\ GoesOn("server", y, PostAckAction("server", d), st, un)
          /\ Clock(PostAckAction("server", d), x.age, Renegotiate + HandshakeWindow, l)
      BY <1>1, <2>1, <2>2, PostAckGoesOn
    <2> QED BY <2>3 DEF d
  <1> HIDE DEF e
  <1>3. CASE m = "reset"
    <2>1. Is(x, "WAIT_RESET", {"reset"}) /\ Is(y, "WAIT_RESET", {})
      BY <1>3, PairParts DEF Shaking, Is, Awaits, Met, Agreed
    <2>2. Is(e, "WAIT_RESET_ACK", {"reset"})
      BY <1>2, <1>3, <2>1 DEF Is, GoesOn
    <2>3. Shaking(x, e) /\ e.state # "WAIT_RESET"
      BY <2>1, <2>2 DEF Shaking, Is
    <2> QED BY <1>0, <1>2, <2>3, PairParts, PairOnwards DEF Moved, GoesOn
  <1>4. CASE m = "auth"
    <2>1. Is(x, "WAIT_AUTH", {"auth"}) /\ Is(y, "WAIT_AUTH", {})
      BY <1>4, PairParts DEF Shaking, Is, Awaits, Met, Agreed
    <2>2. Is(e, "WAIT_AUTH_ACK", {"auth"})
      BY <1>2, <1>4, <2>1 DEF Is, GoesOn
    <2>3. Shaking(x, e) /\ e.state # "WAIT_RESET"
      BY <2>1, <2>2 DEF Shaking, Is
    <2> QED BY <1>0, <1>2, <2>3, PairParts, PairOnwards DEF Moved, GoesOn
  <1> QED BY <1>3, <1>4 DEF Message

\* What an acknowledgement leaves unacknowledged.
LEMMA AckedContext ==
    ASSUME NEW c \in KeyContext, NEW m
    PROVE  [c EXCEPT !.unacked = @ \ {m}] =
              [c EXCEPT !.state = c.state, !.unacked = c.unacked \ {m}]
  BY DEF KeyContext

\* The client's message is acknowledged.
LEMMA ClientAcked ==
    ASSUME PromptNetwork, NEW x \in KeyContext, NEW y \in KeyContext, NEW l \in 0..MaxLag,
           Pair(x, y, l), NEW m \in Message, m \in x.unacked, HasReceived(y, m)
    PROVE  LET e == PostAckAction("client", [x EXCEPT !.unacked = @ \ {m}])
           IN  Pair(e, y, l) /\ Moved(x, e)
  <1> DEFINE un == x.unacked \ {m}
             e == PostAckAction("client", [x EXCEPT !.state = x.state, !.unacked = un])
  <1>0. PostAckAction("client", [x EXCEPT !.unacked = @ \ {m}]) = e
    BY AckedContext
  <1>1. /\ x.state \in State \ {"ACTIVE"} /\ x.state # "ACTIVE"
        /\ un \in SUBSET Message /\ "client" \in Peer
    BY PairParts DEF Peer, Shaking, Is
  <1>2. GoesOn("client", x, e, x.state, un) /\ Clock(e, x.age, Renegotiate, l)
    <2> DEFINE d == [x EXCEPT !.state = x.state, !.unacked = un]
    <2>1. Clock(x, x.age, Renegotiate, l) /\ x.age \in Nat /\ Renegotiate \in Nat
      BY PairParts
    <2> HIDE DEF un
    <2>2. Restated(x, d, x.state, un)
      BY <1>1, Restates
    <2> HIDE DEF d
    <2>3. /\ GoesOn("client", x, PostAckAction("client", d), x.state, un)
          /\ Clock(PostAckAction("client", d), x.age, Renegotiate, l)
      BY <1>1, <2>1, <2>2, PostAckGoesOn
    <2> QED BY <2>3 DEF d
  <1>3. un = {} \/ x.unacked # {m}
    OBVIOUS
  <1> HIDE DEF e
  <1>4. CASE m = "reset"
    <2>1. \/ Is(x, "WAIT_RESET", {"reset"}) /\ Is(y, "WAIT_RESET_ACK", {"reset"})
          \/ Is(x, "WAIT_RESET_ACK", {"reset"}) /\ Met(y)
      BY <1>4, PairParts DEF Shaking, Is, HasReceived
    <2>2. un = {}
      BY <1>4, <2>1 DEF Is
    <2>3. \/ Is(e, "WAIT_RESET", {}) /\ Is(y, "WAIT_RESET_ACK", {"reset"})
          \/ Is(e, "WAIT_AUTH", {"auth"}) /\ Met(y)
      BY <1>2, <2>1, <2>2 DEF Is, GoesOn
    <2>4. Shaking(e, y)
      BY <2>3 DEF Shaking
    <2> QED BY <1>0, <1>2, <2>4, PairParts, PairOnwards DEF Moved, GoesOn
  <1>5. CASE m = "auth"
    <2>1. \/ Is(x, "WAIT_AUTH", {"auth"}) /\ Is(y, "WAIT_AUTH_ACK", {"auth"})
          \/ Is(x, "WAIT_AUTH_ACK", {"auth"}) /\ Agreed(y)
      BY <1>5, PairParts DEF Shaking, Is, HasReceived, Met, Agreed
    <2>2. un = {}
      BY <1>5, <2>1 DEF Is
    <2>3. \/ Is(e, "WAIT_AUTH", {}) /\ Is(y, "WAIT_AUTH_ACK", {"auth"})
          \/ Is(e, "ACTIVE", {}) /\ Agreed(y)
      BY <1>2, <2>1, <2>2 DEF Is, GoesOn
    <2>4. Shaking(e, y)
      BY <2>3 DEF Shaking
    <2> QED BY <1>0, <1>2, <2>4, PairParts, PairOnwards DEF Moved, GoesOn
  <1> QED BY <1>4, <1>5 DEF Message

\* The server's answer is acknowledged.
LEMMA ServerAcked ==
    ASSUME PromptNetwork, NEW x \in KeyContext, NEW y \in KeyContext, NEW l \in 0..MaxLag,
           Pair(x, y, l), NEW m \in Message, m \in y.unacked, HasReceived(x, m)
    PROVE  LET e == PostAckAction("server", [y EXCEPT !.unacked = @ \ {m}])
           IN  Pair(x, e, l) /\ Moved(y, e) /\ e.state # "WAIT_RESET"
  <1> DEFINE un == y.unacked \ {m}
             e == PostAckAction("server", [y EXCEPT !.state = y.state, !.unacked = un])
  <1>0. PostAckAction("server", [y EXCEPT !.unacked = @ \ {m}]) = e
    BY AckedContext
  <1>1. /\ y.state \in State \ {"ACTIVE"} /\ y.state # "ACTIVE"
        /\ un \in SUBSET Message /\ "server" \in Peer
    BY PairParts DEF Peer, Shaking, Is, Met, Agreed
  <1>2. GoesOn("server", y, e, y.state, un) /\ Clock(e, x.age, Renegotiate + HandshakeWindow, l)
    <2> DEFINE d == [y EXCEPT !.state = y.state, !.unacked = un]
    <2>1. /\ Clock(y, x.age, Renegotiate + HandshakeWindow, l)
          /\ x.age \in Nat /\ Renegotiate + HandshakeWindow \in Nat
      BY PairParts
    <2> HIDE DEF un
    <2>2. Restated(y, d, y.state, un)
      BY <1>1, Restates
    <2> HIDE DEF d
    <2>3. /\ GoesOn("server", y, PostAckAction("server", d), y.state, un)
          /\ Clock(PostAckAction("server", d), x.age, Renegotiate + HandshakeWindow, l)
      BY <1>1, <2>1, <2>2, PostAckGoesOn
    <2> QED BY <2>3 DEF d
  <1> HIDE DEF e
  <1>4. CASE m = "reset"
    <2>1. /\ Is(x, "WAIT_RESET_ACK", {"reset"}) \/ Is(x, "WAIT_AUTH", {"auth"})
          /\ Is(y, "WAIT_RESET_ACK", {"reset"})
      BY <1>4, PairParts DEF Shaking, Is, HasReceived, Met, Agreed
    <2>2. un = {}
      BY <1>4, <2>1 DEF Is
    <2>3. Is(e, "WAIT_AUTH", {})
      BY <1>2, <2>1, <2>2 DEF Is, GoesOn
    <2>4. Shaking(x, e) /\ e.state # "WAIT_RESET"
      BY <2>1, <2>3 DEF Shaking, Met, Is
    <2> QED BY <1>0, <1>2, <2>4, PairParts, PairOnwards DEF Moved, GoesOn
  <1>5. CASE m = "auth"
    <2>1. /\ Is(x, "WAIT_AUTH_ACK", {"auth"}) \/ Is(x, "ACTIVE", {})
          /\ Is(y, "WAIT_AUTH_ACK", {"auth"})
      BY <1>5, PairParts DEF Shaking, Is, HasReceived, Met, Agreed
    <2>2. un = {}
      BY <1>5, <2>1 DEF Is
    <2>3. Is(e, "ACTIVE", {})
      BY <1>2, <2>1, <2>2 DEF Is, GoesOn
    <2>4. Shaking(x, e) /\ e.state # "WAIT_RESET"
      BY <2>1, <2>3 DEF Shaking, Agreed, Is
    <2> QED BY <1>0, <1>2, <2>4, PairParts, PairOnwards DEF Moved, GoesOn
  <1> QED BY <1>4, <1>5 DEF Message

\* A handshake that is not over has something to receive or to acknowledge.
LEMMA HandshakeGoesOn ==
    ASSUME NEW x, NEW y, Shaking(x, y), x.state # "ACTIVE" \/ y.state # "ACTIVE"
    PROVE  \E m \in Message :
              \/ m \in x.unacked /\ (Awaits(y, m) \/ HasReceived(y, m))
              \/ m \in y.unacked /\ (Awaits(x, m) \/ HasReceived(x, m))
  BY DEF Shaking, Is, Met, Agreed, Awaits, HasReceived, Message

-----------------------------------------------------------------------------
(* What process_events does, exactly, in the cases that arise.             *)

\* Nothing happens to a context.
Quiet(c) == c.event = "NONE" /\ ~Due(c)

\* The three events of a context that change it alone.
Told(c) == [c EXCEPT !.event = "NONE"]

Turned(p, c) == SetEvent(c, "NONE", "RENEGOTIATE", Remaining(c, RenegotiateOf(p)))

Retiring(c) == PrepareExpire(c, "NONE")

\* prepare_expire and reset_event.
LEMMA RetiringIs ==
    ASSUME NEW c \in KeyContext, NEW ev
    PROVE  Told(PrepareExpire(c, ev)) = Retiring(c)
  BY DEF Told, PrepareExpire, Retiring, SetEvent, KeyContext

\* Such a context needs no set_next_event_if_unspecified.
LEMMA NextIsSet ==
    ASSUME NEW c \in KeyContext
    PROVE  /\ c.next # "NONE" => Told(c).next # "NONE"
           /\ \A p : Turned(p, c).next = "RENEGOTIATE"
           /\ Retiring(c).next = "EXPIRE"
           /\ \A d : d.next # "NONE" => SetNextEventIfUnspecified(d) = d
  BY DEF Told, Turned, Retiring, PrepareExpire, SetEvent, SetNextEventIfUnspecified, KeyContext

\* A record with what it has.
LEMMA SameSlots ==
    ASSUME NEW s \in ProtoContext
    PROVE  [s EXCEPT !.primary = s.primary] = s /\ [s EXCEPT !.secondary = s.secondary] = s
  BY DEF ProtoContext

\* The fields of a ProtoContext.
LEMMA SlotFields ==
    ASSUME NEW s \in ProtoContext
    PROVE  /\ s.primary \in KeyContext /\ s.upcoming \in KeyId /\ s.primary # NoKey
           /\ s.secondary # NoKey => s.secondary \in KeyContext
  BY NoKeyAssumption DEF ProtoContext

\* The primary context: nothing.
LEMMA PrimaryQuiet ==
    ASSUME NEW s \in ProtoContext, NEW p \in Peer, Quiet(s.primary)
    PROVE  ProcessPrimaryEvent(p, s) = s
  <1>1. Polled(p, s.primary) = s.primary
    BY DEF Polled, Quiet
  <1>2. ProcessPrimaryEvent(p, s) = [s EXCEPT !.primary = s.primary]
    BY <1>1 DEF ProcessPrimaryEvent, Quiet
  <1> QED BY <1>2, SameSlots

\* The primary context: the tail of the handler.
LEMMA PrimaryHandled ==
    ASSUME NEW s \in ProtoContext, NEW a, a.next # "NONE"
    PROVE  LET t == [s EXCEPT !.primary = a]
           IN  [t EXCEPT !.primary = SetNextEventIfUnspecified(@)] = t
  <1>1. SetNextEventIfUnspecified(a) = a
    BY DEF SetNextEventIfUnspecified
  <1> QED BY <1>1 DEF ProtoContext

\* The primary context: the first key is active.
LEMMA PrimaryActive ==
    ASSUME NEW s \in ProtoContext, NEW p \in Peer,
           s.primary.event = "ACTIVE", s.primary.next = "BECOME_PRIMARY"
    PROVE  ProcessPrimaryEvent(p, s) = [s EXCEPT !.primary = Told(s.primary)]
  <1> DEFINE t == [s EXCEPT !.primary = Told(s.primary)]
  <1>1. Polled(p, s.primary) = s.primary
    BY DEF Polled, Due
  <1>2. ProcessPrimaryEvent(p, s) = [t EXCEPT !.primary = SetNextEventIfUnspecified(@)]
    BY <1>1 DEF ProcessPrimaryEvent, Told
  <1>3. Told(s.primary).next # "NONE"
    BY SlotFields, NextIsSet
  <1> QED BY <1>2, <1>3, PrimaryHandled

\* The primary context: the first key becomes primary, which it is.
LEMMA PrimaryTurns ==
    ASSUME PromptNetwork, NEW s \in ProtoContext, NEW p \in Peer,
           Due(s.primary), s.primary.next = "BECOME_PRIMARY"
    PROVE  ProcessPrimaryEvent(p, s) = [s EXCEPT !.primary = Turned(p, s.primary)]
  <1> DEFINE c == SetEvent(s.primary, "BECOME_PRIMARY", "RENEGOTIATE",
                           Remaining(s.primary, RenegotiateOf(p)))
             t == [s EXCEPT !.primary = Turned(p, s.primary)]
  <1>0. s.primary \in KeyContext /\ s.primary # NoKey /\ ~DataLimitDefer(p, s.primary)
    BY SlotFields DEF PromptNetwork, DataLimitDefer
  <1>1. Polled(p, s.primary) = c
    BY <1>0 DEF Polled, ProcessNextEvent
  <1>2. c.event = "BECOME_PRIMARY" /\ [c EXCEPT !.event = "NONE"] = Turned(p, s.primary)
    BY <1>0 DEF SetEvent, Turned, KeyContext
  <1>3. ProcessPrimaryEvent(p, s) = [t EXCEPT !.primary = SetNextEventIfUnspecified(@)]
    <2> HIDE DEF c
    <2> QED BY <1>1, <1>2 DEF ProcessPrimaryEvent
  <1>4. Turned(p, s.primary).next # "NONE"
    BY <1>0, NextIsSet
  <1> QED BY <1>3, <1>4, PrimaryHandled

\* The primary context: a renegotiation begins.
LEMMA PrimaryRenegotiates ==
    ASSUME PromptNetwork, NEW s \in ProtoContext, NEW p \in Peer,
           Due(s.primary), s.primary.next = "RENEGOTIATE"
    PROVE  ProcessPrimaryEvent(p, s) =
               [s EXCEPT !.primary = Retiring(s.primary),
                         !.secondary = NewContext(s.upcoming, TRUE),
                         !.upcoming = NextKeyId(s.upcoming)]
  <1> DEFINE c == PrepareExpire(s.primary, "RENEGOTIATE")
             q == [s EXCEPT !.primary = Told(c)]
             t == NewSecondary(q, TRUE)
  <1>0. s.primary \in KeyContext /\ s.primary # NoKey
    BY SlotFields
  <1>1. Polled(p, s.primary) = c
    BY <1>0 DEF Polled, ProcessNextEvent
  <1>2. c.event = "RENEGOTIATE" /\ Told(c) = Retiring(s.primary)
    BY <1>0, RetiringIs DEF PrepareExpire, SetEvent, KeyContext
  <1>3. ProcessPrimaryEvent(p, s) = [t EXCEPT !.primary = SetNextEventIfUnspecified(@)]
    <2> HIDE DEF c
    <2> QED BY <1>1, <1>2 DEF ProcessPrimaryEvent, Told
  <1>4. Told(c).next # "NONE"
    BY <1>0, <1>2, NextIsSet
  <1> HIDE DEF c
  <1>5. t.primary = Told(c) /\ t = [s EXCEPT !.primary = Told(c),
                         !.secondary = NewContext(s.upcoming, TRUE),
                         !.upcoming = NextKeyId(s.upcoming)]
    BY DEF NewSecondary, ProtoContext
  <1>6. SetNextEventIfUnspecified(t.primary) = t.primary
    BY <1>4, <1>5 DEF SetNextEventIfUnspecified
  <1>7. [t EXCEPT !.primary = SetNextEventIfUnspecified(@)] = t
    BY <1>5, <1>6 DEF ProtoContext
  <1> QED BY <1>2, <1>3, <1>5, <1>7

\* The secondary context: nothing.
LEMMA SecondaryQuiet ==
    ASSUME NEW s \in ProtoContext, NEW p \in Peer,
           s.secondary # NoKey => Quiet(s.secondary)
    PROVE  ProcessSecondaryEvent(p, s) = s
  <1>1. Polled(p, s.secondary) = s.secondary
    BY DEF Polled, Quiet
  <1>2. ProcessSecondaryEvent(p, s) \in {s, [s EXCEPT !.secondary = s.secondary]}
    BY <1>1 DEF ProcessSecondaryEvent, Quiet
  <1> QED BY <1>2, SameSlots

\* The secondary context: the tail of the handler.
LEMMA SecondaryHandled ==
    ASSUME NEW t \in ProtoContext, t.secondary \in KeyContext, t.secondary.next # "NONE"
    PROVE  [t EXCEPT !.secondary =
               IF @ = NoKey THEN NoKey ELSE SetNextEventIfUnspecified(@)] = t
  <1>1. SetNextEventIfUnspecified(t.secondary) = t.secondary /\ t.secondary # NoKey
    BY NoKeyAssumption DEF SetNextEventIfUnspecified
  <1> QED BY <1>1 DEF ProtoContext

\* What the changed contexts are.
LEMMA ChangedFields ==
    ASSUME NEW c \in KeyContext, NEW p \in Peer
    PROVE  Told(c) \in KeyContext /\ Turned(p, c) \in KeyContext /\ Retiring(c) \in KeyContext
  <1>1. /\ {"NONE", "RENEGOTIATE", "EXPIRE"} \subseteq Event
        /\ Remaining(c, RenegotiateOf(p)) \in Nat
    BY RemainingOk, Times DEF Event
  <1>2. Told(c) \in KeyContext
    BY <1>1 DEF Told, KeyContext
  <1>3. Turned(p, c) \in KeyContext
    BY <1>1, SetEventOk DEF Turned
  <1>4. Retiring(c) \in KeyContext
    BY <1>1, PrepareExpireOk DEF Retiring, Scheduled
  <1> QED BY <1>2, <1>3, <1>4

\* The secondary context: a renegotiated key is active, and the old one
\* begins to retire.
LEMMA SecondaryActive ==
    ASSUME NEW s \in ProtoContext, NEW p \in Peer, s.secondary # NoKey,
           s.secondary.event = "ACTIVE", s.secondary.next = "BECOME_PRIMARY"
    PROVE  ProcessSecondaryEvent(p, s) =
               [s EXCEPT !.primary = Retiring(s.primary), !.secondary = Told(s.secondary)]
  <1> DEFINE c == s.secondary
             t == [s EXCEPT !.primary = Retiring(s.primary), !.secondary = Told(c)]
             u == [s EXCEPT !.secondary = Told(c)]
  <1>0. s.primary \in KeyContext /\ c \in KeyContext
    BY SlotFields
  <1>1. Polled(p, c) = c
    BY DEF Polled, Due
  <1>2. [u EXCEPT !.primary = PrepareExpire(@, "NONE")] = t
    BY DEF Retiring, ProtoContext
  <1>3. ProcessSecondaryEvent(p, s) =
            [[u EXCEPT !.primary = PrepareExpire(@, "NONE")] EXCEPT !.secondary =
                IF @ = NoKey THEN NoKey ELSE SetNextEventIfUnspecified(@)]
    BY <1>1 DEF ProcessSecondaryEvent, Told
  <1>4. /\ Told(c).next # "NONE" /\ Told(c) \in KeyContext /\ Retiring(s.primary) \in KeyContext
    BY <1>0, NextIsSet, ChangedFields
  <1>5. t \in ProtoContext /\ t.secondary = Told(c)
    BY <1>4 DEF ProtoContext
  <1> HIDE DEF t
  <1> QED BY <1>2, <1>3, <1>4, <1>5, SecondaryHandled DEF t

\* The secondary context: a renegotiated key becomes primary.
LEMMA SecondaryTurns ==
    ASSUME PromptNetwork, NEW s \in ProtoContext, NEW p \in Peer, s.secondary # NoKey,
           Due(s.secondary), s.secondary.next = "BECOME_PRIMARY", s.secondary.valid
    PROVE  ProcessSecondaryEvent(p, s) =
               [s EXCEPT !.primary = Turned(p, s.secondary), !.secondary = Retiring(s.primary)]
  <1> DEFINE c == SetEvent(s.secondary, "BECOME_PRIMARY", "RENEGOTIATE",
                           Remaining(s.secondary, RenegotiateOf(p)))
             t == [s EXCEPT !.primary = Turned(p, s.secondary), !.secondary = Retiring(s.primary)]
             u == [s EXCEPT !.secondary = Told(c)]
  <1>0. /\ s.primary \in KeyContext /\ s.secondary \in KeyContext
        /\ ~DataLimitDefer(p, s.secondary)
    BY SlotFields DEF PromptNetwork, DataLimitDefer
  <1>1. Polled(p, s.secondary) = c
    BY <1>0 DEF Polled, ProcessNextEvent
  <1>2. c.event = "BECOME_PRIMARY" /\ c.valid /\ Told(c) = Turned(p, s.secondary)
    BY <1>0 DEF SetEvent, Turned, Told, KeyContext
  <1>3. c # NoKey
    <2>1. /\ {"BECOME_PRIMARY", "RENEGOTIATE"} \subseteq Event
          /\ Remaining(s.secondary, RenegotiateOf(p)) \in Nat
      BY <1>0, RemainingOk, Times DEF Event
    <2> QED BY <1>0, <2>1, SetEventOk, NoKeyAssumption
  <1> HIDE DEF c
  <1>4. Promote(u) = t
    BY <1>2 DEF Promote, Retiring, ProtoContext
  <1>5. ProcessSecondaryEvent(p, s) =
            [Promote(u) EXCEPT !.secondary =
                IF @ = NoKey THEN NoKey ELSE SetNextEventIfUnspecified(@)]
    BY <1>1, <1>2, <1>3 DEF ProcessSecondaryEvent, Told
  <1>6. /\ Retiring(s.primary).next # "NONE" /\ Retiring(s.primary) \in KeyContext
        /\ Turned(p, s.secondary) \in KeyContext
    BY <1>0, NextIsSet, ChangedFields
  <1>7. t \in ProtoContext /\ t.secondary = Retiring(s.primary)
    BY <1>6 DEF ProtoContext
  <1> HIDE DEF t
  <1> QED BY <1>4, <1>5, <1>6, <1>7, SecondaryHandled DEF t

\* The secondary context: a retired key is wiped.
LEMMA SecondaryExpires ==
    ASSUME NEW s \in ProtoContext, NEW p \in Peer, s.secondary # NoKey,
           Due(s.secondary), s.secondary.next = "EXPIRE"
    PROVE  ProcessSecondaryEvent(p, s) = [s EXCEPT !.secondary = NoKey]
  <1> DEFINE c == [Invalidate(s.secondary) EXCEPT !.event = "EXPIRE"]
             u == [s EXCEPT !.secondary = Told(c)]
  <1>0. s.secondary \in KeyContext
    BY SlotFields
  <1>1. Polled(p, s.secondary) = c
    BY DEF Polled, ProcessNextEvent
  <1>2. c.event = "EXPIRE" /\ c \in KeyContext /\ c # NoKey
    <2>1. Invalidate(s.secondary) \in KeyContext /\ "EXPIRE" \in Event
      BY <1>0, InvalidateOk DEF Scheduled, Event
    <2> QED BY <2>1, NoKeyAssumption DEF KeyContext
  <1> HIDE DEF c
  <1>3. ProcessSecondaryEvent(p, s) =
            [[u EXCEPT !.secondary = NoKey] EXCEPT !.secondary =
                IF @ = NoKey THEN NoKey ELSE SetNextEventIfUnspecified(@)]
    BY <1>1, <1>2 DEF ProcessSecondaryEvent, Told
  <1>4. [u EXCEPT !.secondary = NoKey] = [s EXCEPT !.secondary = NoKey]
    BY DEF ProtoContext
  <1>5. [[s EXCEPT !.secondary = NoKey] EXCEPT !.secondary =
                IF @ = NoKey THEN NoKey ELSE SetNextEventIfUnspecified(@)]
          = [s EXCEPT !.secondary = NoKey]
    BY DEF ProtoContext
  <1> QED BY <1>3, <1>4, <1>5

-----------------------------------------------------------------------------
(* Clocks.                                                                 *)

\* What the events leave of a context.
LEMMA ToldFields ==
    ASSUME NEW c \in KeyContext
    PROVE  LET d == Told(c)
           IN  /\ d.id = c.id /\ d.state = c.state /\ d.unacked = c.unacked /\ d.valid = c.valid
               /\ d.fired = c.fired /\ d.age = c.age /\ d.next = c.next /\ d.due = c.due
               /\ d.event = "NONE"
  BY DEF Told, KeyContext

\* The fields of a context that has become primary, or was told to.
LEMMA TurnedFields ==
    ASSUME NEW c \in KeyContext, NEW p
    PROVE  LET d == Turned(p, c)
           IN  /\ d.id = c.id /\ d.state = c.state /\ d.unacked = c.unacked /\ d.valid = c.valid
               /\ d.fired = c.fired /\ d.age = c.age
               /\ d.next = "RENEGOTIATE" /\ d.event = "NONE"
               /\ d.due = Remaining(c, RenegotiateOf(p))
  BY DEF Turned, SetEvent, KeyContext

\* The fields of a context that prepare_expire has retired.
LEMMA RetiringFields ==
    ASSUME NEW c \in KeyContext, ~c.fired
    PROVE  LET d == Retiring(c)
           IN  /\ d.id = c.id /\ d.state = c.state /\ d.unacked = c.unacked /\ d.valid = c.valid
               /\ d.fired = c.fired /\ d.age = c.age
               /\ d.next = "EXPIRE" /\ d.event = "NONE"
               /\ d.due = Remaining(c, Expire)
  BY DEF Retiring, PrepareExpire, SetEvent, KeyContext

\* While one of a pair is young the client's key is not old.
LEMMA YoungIsEarly ==
    ASSUME PromptNetwork, NEW c \in KeyContext, NEW age \in Nat, NEW t \in Nat,
           NEW l \in 0..MaxLag, Clock(c, age, t, l), Young(c)
    PROVE  age <= BecomePrimary + MaxLag
  <1>1. age <= l \/ age + c.due <= BecomePrimary + MaxLag
    BY DEF Clock, Young
  <1>2. c.due \in Nat
    BY Fields
  <1> QED BY <1>1, <1>2, Delays

\* The handshake is not about to time out, and a young key not to renegotiate.
LEMMA Timely ==
    ASSUME PromptNetwork, NEW x \in KeyContext, NEW y \in KeyContext, NEW l \in 0..MaxLag,
           Pair(x, y, l)
    PROVE  /\ x.age \in Nat /\ x.age <= Renegotiate
           /\ Young(x) \/ Young(y) => x.age <= BecomePrimary + MaxLag
           /\ x.next = "NEGOTIATE" => x.due > 0
           /\ y.next = "NEGOTIATE" => y.due > 0
           /\ y.next = "RENEGOTIATE" => y.due > 0
           /\ x.next = "RENEGOTIATE" /\ Young(y) => x.due > 0
           /\ x.next \in {"NEGOTIATE", "BECOME_PRIMARY", "RENEGOTIATE"}
           /\ y.next \in {"NEGOTIATE", "BECOME_PRIMARY", "RENEGOTIATE"}
  <1>0. /\ x.age \in Nat /\ x.due \in Nat /\ y.age \in Nat /\ y.due \in Nat
        /\ y.age <= x.age
        /\ Renegotiate \in Nat /\ Renegotiate + HandshakeWindow \in Nat
        /\ Clock(x, x.age, Renegotiate, l)
        /\ Clock(y, x.age, Renegotiate + HandshakeWindow, l)
    BY Fields, Delays DEF Pair
  <1>1. Young(x) \/ Young(y) => x.age <= BecomePrimary + MaxLag
    BY <1>0, YoungIsEarly
  <1>2. /\ x.next = "NEGOTIATE" => x.age <= l /\ x.age + x.due = HandshakeWindow
        /\ y.next = "NEGOTIATE" => x.age <= l /\ y.age + y.due = HandshakeWindow
        /\ x.next = "RENEGOTIATE" => x.age + x.due = Renegotiate
        /\ y.next = "RENEGOTIATE" => y.age + y.due = Renegotiate + HandshakeWindow
        /\ x.next \in {"NEGOTIATE", "BECOME_PRIMARY", "RENEGOTIATE"}
        /\ y.next \in {"NEGOTIATE", "BECOME_PRIMARY", "RENEGOTIATE"}
    BY <1>0 DEF Clock
  <1>3. x.age <= Renegotiate
    BY <1>0, <1>1, <1>2, Delays DEF Young
  <1>4. /\ x.next = "NEGOTIATE" => x.due > 0
        /\ y.next = "NEGOTIATE" => y.due > 0
    BY <1>0, <1>2, Delays
  <1>5. y.next = "RENEGOTIATE" => y.due > 0
    BY <1>0, <1>2, <1>3, Delays
  <1>6. x.next = "RENEGOTIATE" /\ Young(y) => x.due > 0
    BY <1>0, <1>1, <1>2, Delays
  <1> QED BY <1>0, <1>1, <1>2, <1>3, <1>4, <1>5, <1>6

\* Nor does the key before expire yet.
LEMMA OldIsQuiet ==
    ASSUME PromptNetwork, NEW x \in KeyContext, NEW l \in 0..MaxLag,
           x.age <= BecomePrimary + MaxLag
    PROVE  /\ \A o \in KeyContext : OldClient(o, x) => Quiet(o)
           /\ \A q \in KeyContext : OldServer(q, x, l) => Quiet(q)
  <1>1. x.age \in Nat
    BY Fields
  <1>2. ASSUME NEW o \in KeyContext, OldClient(o, x) PROVE Quiet(o)
    <2>1. o.age \in Nat /\ o.due \in Nat /\ o.age = Renegotiate + x.age /\ o.age + o.due = Expire
      BY <1>2, Fields DEF OldClient
    <2>2. o.due > 0
      BY <1>1, <2>1, Delays
    <2> QED BY <1>2, <2>2 DEF Quiet, Due, OldClient, Settled
  <1>3. ASSUME NEW q \in KeyContext, OldServer(q, x, l) PROVE Quiet(q)
    <2>1. /\ q.age \in Nat /\ q.due \in Nat /\ q.age <= Renegotiate + x.age
          /\ \/ q.age + q.due = Renegotiate + HandshakeWindow /\ x.age <= l
             \/ q.age + q.due = Expire
      BY <1>3, Fields DEF OldServer
    <2>2. q.due > 0
      BY <1>1, <2>1, Delays
    <2> QED BY <1>3, <2>2 DEF Quiet, Due, OldServer, Settled
  <1> QED BY <1>2, <1>3

\* A young context turns: the key has been there long enough, and not too long.
LEMMA TurnedClock ==
    ASSUME PromptNetwork, NEW c \in KeyContext, NEW p \in Peer,
           NEW age \in Nat, NEW l \in 0..MaxLag, c.age <= age,
           Clock(c, age, RenegotiateOf(p), l), Due(c), c.next = "BECOME_PRIMARY"
    PROVE  Clock(Turned(p, c), age, RenegotiateOf(p), l)
  <1> DEFINE t == RenegotiateOf(p)
  <1>1. /\ c.state = "ACTIVE" /\ c.due = 0
        /\ BecomePrimary <= age + c.due /\ age + c.due <= BecomePrimary + MaxLag
    BY DEF Clock, Due
  <1>2. t \in Nat /\ Renegotiate <= t
    BY Delays DEF RenegotiateOf
  <1>3. c.age \in Nat /\ Remaining(c, t) = IF c.age < t THEN t - c.age ELSE 0
    BY Fields DEF Remaining
  <1> HIDE DEF t
  <1>4. BecomePrimary <= age /\ c.age + Remaining(c, t) = t
    BY <1>1, <1>2, <1>3, Delays
  <1> QED BY <1>1, <1>4, TurnedFields DEF Clock, t

\* A handshake is not touched by events.
LEMMA SameShaking ==
    ASSUME NEW x, NEW y, Shaking(x, y),
           NEW d, d.state = x.state, d.unacked = x.unacked,
           NEW e, e.state = y.state, e.unacked = y.unacked
    PROVE  Shaking(d, e)
  BY DEF Shaking, Is, Met, Agreed

\* The clock of a context that has been told it is active.
LEMMA ToldClock ==
    ASSUME PromptNetwork, NEW c \in KeyContext, NEW age, NEW t, NEW l,
           Clock(c, age, t, l), c.event = "ACTIVE"
    PROVE  Clock(Told(c), age, t, l) /\ c.next = "BECOME_PRIMARY" /\ c.state = "ACTIVE"
  BY ToldFields DEF Clock

\* The events of a pair, at the client.
LEMMA ClientEvents ==
    ASSUME PromptNetwork, NEW x \in KeyContext, NEW y \in KeyContext, NEW l \in 0..MaxLag,
           Pair(x, y, l)
    PROVE  /\ x.event = "ACTIVE" => Pair(Told(x), y, l)
           /\ Due(x) /\ x.next = "BECOME_PRIMARY" =>
                Pair(Turned("client", x), y, l) /\ BecomePrimary <= x.age
  <1>0. x.age \in Nat /\ x.age <= x.age
    BY Fields
  <1>1. ASSUME x.event = "ACTIVE" PROVE Pair(Told(x), y, l)
    <2>1. Clock(Told(x), x.age, Renegotiate, l)
      BY <1>1, PairParts, ToldClock
    <2>2. Shaking(Told(x), y)
      BY PairParts, ToldFields, SameShaking
    <2> QED BY <2>1, <2>2, PairParts, ToldFields, PairOnwards
  <1>2. ASSUME Due(x), x.next = "BECOME_PRIMARY"
        PROVE  Pair(Turned("client", x), y, l) /\ BecomePrimary <= x.age
    <2>0. RenegotiateOf("client") = Renegotiate /\ "client" \in Peer
      BY DEF RenegotiateOf, Peer
    <2>1. Clock(Turned("client", x), x.age, Renegotiate, l)
      BY <1>0, <1>2, <2>0, PairParts, TurnedClock
    <2>2. Shaking(Turned("client", x), y)
      BY PairParts, TurnedFields, SameShaking
    <2>3. BecomePrimary <= x.age
      BY <2>1, TurnedFields DEF Clock
    <2> QED BY <2>1, <2>2, <2>3, PairParts, TurnedFields, PairOnwards
  <1> QED BY <1>1, <1>2

\* The events of a pair, at the server.
LEMMA ServerEvents ==
    ASSUME PromptNetwork, NEW x \in KeyContext, NEW y \in KeyContext, NEW l \in 0..MaxLag,
           Pair(x, y, l)
    PROVE  /\ y.event = "ACTIVE" => Pair(x, Told(y), l)
           /\ Due(y) /\ y.next = "BECOME_PRIMARY" =>
                Pair(x, Turned("server", y), l) /\ BecomePrimary <= x.age
  <1>0. x.age \in Nat /\ y.age <= x.age
    BY Fields DEF Pair
  <1>1. ASSUME y.event = "ACTIVE" PROVE Pair(x, Told(y), l)
    <2>1. Clock(Told(y), x.age, Renegotiate + HandshakeWindow, l)
      BY <1>1, PairParts, ToldClock
    <2>2. Shaking(x, Told(y))
      BY PairParts, ToldFields, SameShaking
    <2> QED BY <2>1, <2>2, PairParts, ToldFields, PairOnwards
  <1>2. ASSUME Due(y), y.next = "BECOME_PRIMARY"
        PROVE  Pair(x, Turned("server", y), l) /\ BecomePrimary <= x.age
    <2>0. RenegotiateOf("server") = Renegotiate + HandshakeWindow /\ "server" \in Peer
      BY DEF RenegotiateOf, Peer
    <2>1. Clock(Turned("server", y), x.age, Renegotiate + HandshakeWindow, l)
      BY <1>0, <1>2, <2>0, PairParts, TurnedClock
    <2>2. Shaking(x, Turned("server", y))
      BY PairParts, TurnedFields, SameShaking
    <2>3. BecomePrimary <= x.age
      BY <2>1, TurnedFields DEF Clock
    <2> QED BY <2>1, <2>2, <2>3, PairParts, TurnedFields, PairOnwards
  <1> QED BY <1>1, <1>2

\* When a key could have become primary its handshake is over at both ends.
LEMMA LongAgreed ==
    ASSUME PromptNetwork, NEW x \in KeyContext, NEW y \in KeyContext, NEW l \in 0..MaxLag,
           Pair(x, y, l), BecomePrimary <= x.age
    PROVE  /\ Is(x, "ACTIVE", {}) /\ x.event = "NONE" /\ x.next # "NEGOTIATE"
           /\ Is(y, "ACTIVE", {}) /\ y.event = "NONE" /\ y.next # "NEGOTIATE"
  <1>1. ~(x.age <= l)
    BY Delays, Fields
  <1>2. /\ x.state = "ACTIVE" /\ x.event = "NONE" /\ x.next # "NEGOTIATE"
        /\ y.state = "ACTIVE" /\ y.event = "NONE" /\ y.next # "NEGOTIATE"
    BY <1>1, PairParts DEF Clock
  <1>3. Is(x, "ACTIVE", {}) /\ Is(y, "ACTIVE", {})
    BY <1>2, PairParts DEF Shaking, Is, Met, Agreed
  <1> QED BY <1>2, <1>3

\* The same holds of a pair of which one is no longer young.
LEMMA TurnedIsOld ==
    ASSUME PromptNetwork, NEW x \in KeyContext, NEW y \in KeyContext, NEW l \in 0..MaxLag,
           Pair(x, y, l), ~Young(x) \/ ~Young(y)
    PROVE  BecomePrimary <= x.age
  BY PairParts DEF Clock, Young

-----------------------------------------------------------------------------
(* Events, when both peers are at the same key.                            *)

\* Three ids in a row are different, however they recycle.
LEMMA KeyIdsDiffer ==
    ASSUME PromptNetwork, NEW k \in KeyId
    PROVE  LET n == NextKeyId(k)
               m == NextKeyId(n)
           IN  /\ n \in KeyId /\ m \in KeyId /\ n # 0 /\ m # 0
               /\ n # k /\ m # n /\ m # k
  BY Delays DEF NextKeyId, KeyId

\* What is left of the key before stays, or expires.
LEMMA LeftExpires ==
    ASSUME NEW s \in ProtoContext, NEW p \in Peer, NEW ids, Left(s.secondary, ids)
    PROVE  \E r \in {s.secondary, NoKey} :
              ProcessSecondaryEvent(p, s) = [s EXCEPT !.secondary = r]
  <1>1. CASE s.secondary # NoKey => Quiet(s.secondary)
    BY <1>1, SecondaryQuiet, SameSlots
  <1>2. CASE s.secondary # NoKey /\ ~Quiet(s.secondary)
    <2>1. Due(s.secondary) /\ s.secondary.next = "EXPIRE"
      BY <1>2 DEF Left, Settled, Quiet
    <2> QED BY <1>2, <2>1, SecondaryExpires
  <1> QED BY <1>1, <1>2

\* The client's key has changed, but not its id.
LEMMA TogetherAtClient ==
    ASSUME NEW c \in ProtoContext, NEW s \in ProtoContext, NEW l, Together(c, s, l),
           NEW x \in KeyContext, Pair(x, s.primary, l), x.id = c.primary.id,
           Young(x) => Young(c.primary) \/ Young(s.primary),
           NEW r \in {c.secondary, NoKey}
    PROVE  Together([c EXCEPT !.primary = x, !.secondary = r], s, l)
  <1> DEFINE d == [c EXCEPT !.primary = x, !.secondary = r]
  <1>1. d.primary = x /\ d.secondary = r /\ d.upcoming = c.upcoming
    BY DEF ProtoContext
  <1>2. Left(r, {x.id, NextKeyId(x.id)})
    BY DEF Together, Left
  <1> HIDE DEF d
  <1> QED BY <1>1, <1>2 DEF Together, d

\* The server's.
LEMMA TogetherAtServer ==
    ASSUME NEW c \in ProtoContext, NEW s \in ProtoContext, NEW l, Together(c, s, l),
           NEW y \in KeyContext, Pair(c.primary, y, l), y.id = s.primary.id,
           Young(y) => Young(c.primary) \/ Young(s.primary),
           NEW r \in {s.secondary, NoKey}
    PROVE  Together(c, [s EXCEPT !.primary = y, !.secondary = r], l)
  <1> DEFINE t == [s EXCEPT !.primary = y, !.secondary = r]
  <1>1. t.primary = y /\ t.secondary = r /\ t.upcoming = s.upcoming
    BY DEF ProtoContext
  <1>2. s.primary.id = c.primary.id
    BY DEF Together, Pair
  <1>3. Left(r, {c.primary.id, NextKeyId(c.primary.id)})
    BY DEF Together, Left
  <1> HIDE DEF t
  <1> QED BY <1>1, <1>2, <1>3 DEF Together, t

\* The events of a context of a pair.
LEMMA PairEvents ==
    ASSUME PromptNetwork, NEW c \in KeyContext, NEW age, NEW t, NEW l, Clock(c, age, t, l)
    PROVE  \/ Quiet(c)
           \/ c.event = "ACTIVE" /\ c.next = "BECOME_PRIMARY"
           \/ Due(c) /\ c.next \in {"NEGOTIATE", "BECOME_PRIMARY", "RENEGOTIATE"}
  BY DEF Clock, Quiet, Due

\* The fields of a context that start() leaves.
LEMMA NewFields ==
    ASSUME NEW id \in KeyId, NEW initiator \in BOOLEAN
    PROVE  LET c == NewContext(id, initiator)
           IN  /\ c \in KeyContext /\ c # NoKey
               /\ c.id = id /\ c.state = "WAIT_RESET"
               /\ c.unacked = IF initiator THEN {"reset"} ELSE {}
               /\ c.event = "NONE" /\ c.next = "NEGOTIATE" /\ c.due = HandshakeWindow
               /\ c.age = 0 /\ ~c.fired /\ c.valid
  <1>1. NewContext(id, initiator) \in KeyContext
    BY NewContextOk DEF Scheduled
  <1>2. NewContext(id, initiator) # NoKey
    BY <1>1, NoKeyAssumption
  <1> QED BY <1>1, <1>2 DEF NewContext

\* A new handshake has its time.
LEMMA NewIsQuiet ==
    ASSUME PromptNetwork, NEW id \in KeyId, NEW initiator \in BOOLEAN,
           NEW t, NEW l \in 0..MaxLag
    PROVE  Quiet(NewContext(id, initiator)) /\ Clock(NewContext(id, initiator), 0, t, l)
  <1> DEFINE c == NewContext(id, initiator)
  <1>1. /\ c.event = "NONE" /\ c.next = "NEGOTIATE" /\ c.state = "WAIT_RESET"
        /\ c.due = HandshakeWindow /\ c.age = 0
    BY NewFields
  <1>2. HandshakeWindow > 0 /\ 0 <= l /\ 0 + HandshakeWindow = HandshakeWindow
    BY Delays
  <1> HIDE DEF c
  <1> QED BY <1>1, <1>2 DEF Quiet, Due, Clock, c

\* The client's key is as old as it gets: it offers another.
LEMMA ClientOffers ==
    ASSUME PromptNetwork, NEW c \in ProtoContext, NEW s \in ProtoContext, NEW l \in 0..MaxLag,
           Together(c, s, l), Due(c.primary), c.primary.next = "RENEGOTIATE"
    PROVE  Offered([c EXCEPT !.primary = Retiring(c.primary),
                             !.secondary = NewContext(c.upcoming, TRUE),
                             !.upcoming = NextKeyId(c.upcoming)], s, l)
  <1> DEFINE o == c.primary
             q == s.primary
             x == NewContext(c.upcoming, TRUE)
             d == [c EXCEPT !.primary = Retiring(o), !.secondary = x,
                            !.upcoming = NextKeyId(c.upcoming)]
  <1>1. /\ d.primary = Retiring(o) /\ d.secondary = x /\ d.upcoming = NextKeyId(c.upcoming)
        /\ o \in KeyContext /\ q \in KeyContext /\ c.upcoming \in KeyId
        /\ o.due = 0 /\ o.event = "NONE"
    BY SlotFields DEF ProtoContext, Due
  <1>2. /\ Pair(o, q, l) /\ o.id = q.id /\ o.valid /\ ~o.fired /\ q.valid /\ ~q.fired
        /\ q.age <= o.age /\ Shaking(o, q)
        /\ c.upcoming = NextKeyId(o.id) /\ s.upcoming = NextKeyId(o.id)
        /\ Left(s.secondary, {o.id, NextKeyId(o.id)})
    BY DEF Together, Pair
  <1>3. o.age = Renegotiate /\ BecomePrimary <= o.age /\ ~Young(q)
    <2>1. o.age + o.due = Renegotiate /\ BecomePrimary <= o.age /\ o.age \in Nat
      BY <1>1, <1>2, PairParts DEF Clock
    <2>2. ~(o.age <= BecomePrimary + MaxLag)
      BY <1>1, <2>1, Delays
    <2> QED BY <1>1, <1>2, <2>1, <2>2, Timely
  <1>4. Is(o, "ACTIVE", {}) /\ Is(q, "ACTIVE", {}) /\ q.event = "NONE"
    BY <1>1, <1>2, <1>3, LongAgreed
  <1>5. q.next = "RENEGOTIATE" /\ q.age + q.due = Renegotiate + HandshakeWindow
    BY <1>1, <1>2, <1>3, PairParts DEF Clock, Young
  <1>6. /\ x \in KeyContext /\ x # NoKey /\ x.valid /\ ~x.fired /\ Is(x, "WAIT_RESET", {"reset"})
        /\ x.next = "NEGOTIATE" /\ x.age = 0 /\ x.id = c.upcoming
        /\ Clock(x, x.age, Renegotiate, l)
    <2>1. /\ x \in KeyContext /\ x # NoKey /\ x.valid /\ ~x.fired /\ x.state = "WAIT_RESET"
          /\ x.unacked = {"reset"} /\ x.next = "NEGOTIATE" /\ x.age = 0 /\ x.id = c.upcoming
      BY <1>1, NewFields
    <2>2. Clock(x, 0, Renegotiate, l)
      BY <1>1, NewIsQuiet
    <2> HIDE DEF x
    <2> QED BY <2>1, <2>2 DEF Is
  <1> HIDE DEF d, x
  <1>7. OldClient(Retiring(o), x) /\ Retiring(o).id = o.id
    <2>1. Remaining(o, Expire) = Expire - Renegotiate /\ Expire \in Nat /\ Renegotiate \in Nat
      BY <1>3, Delays DEF Remaining
    <2>2. Retiring(o).age + Retiring(o).due = Expire /\ Retiring(o).age = Renegotiate + x.age
      BY <1>1, <1>2, <1>3, <1>6, <2>1, RetiringFields
    <2> QED BY <1>1, <1>2, <1>4, <2>2, RetiringFields DEF OldClient, Settled, Is
  <1>8. OldServer(q, x, l)
    <2>1. q.age <= Renegotiate + x.age /\ x.age <= l
      BY <1>2, <1>3, <1>6, Delays
    <2> QED BY <1>2, <1>4, <1>5, <2>1 DEF OldServer, Settled
  <1>9. Offered(d, s, l)
    BY <1>1, <1>2, <1>5, <1>6, <1>7, <1>8 DEF Offered
  <1> QED BY <1>9 DEF d, x

\* process_events of a client at the server's key.
LEMMA TogetherClientEvents ==
    ASSUME PromptNetwork, NEW c \in ProtoContext, NEW s \in ProtoContext, NEW l \in 0..MaxLag,
           Together(c, s, l)
    PROVE  Synchronous(ProcessSecondaryEvent("client", ProcessPrimaryEvent("client", c)), s, l)
  <1> DEFINE x == c.primary
             ids == {x.id, NextKeyId(x.id)}
             b == ProcessPrimaryEvent("client", c)
             d == ProcessSecondaryEvent("client", b)
  <1>0. /\ "client" \in Peer /\ x \in KeyContext /\ s.primary \in KeyContext
        /\ Pair(x, s.primary, l) /\ Left(c.secondary, ids)
        /\ Clock(x, x.age, Renegotiate, l)
    BY SlotFields DEF Peer, Together, Pair
  <1>1. ASSUME NEW a \in KeyContext, Pair(a, s.primary, l), a.id = x.id,
               Young(a) => Young(x) \/ Young(s.primary), b = [c EXCEPT !.primary = a]
        PROVE  Synchronous(d, s, l)
    <2> HIDE DEF ids, b
    <2>1. PICK r \in {c.secondary, NoKey} : d = [c EXCEPT !.primary = a, !.secondary = r]
      <3>1. b \in ProtoContext /\ b.secondary = c.secondary
        BY <1>1 DEF ProtoContext
      <3>2. PICK r \in {b.secondary, NoKey} : d = [b EXCEPT !.secondary = r]
        BY <1>0, <3>1, LeftExpires
      <3>3. [b EXCEPT !.secondary = r] = [c EXCEPT !.primary = a, !.secondary = r]
        BY <1>1
      <3> QED BY <3>1, <3>2, <3>3
    <2> HIDE DEF d
    <2>2. Together(d, s, l)
      BY <1>0, <1>1, <2>1, TogetherAtClient
    <2> QED BY <2>2 DEF Synchronous, d, b
  <1>2. CASE Quiet(x)
    <2>1. b = [c EXCEPT !.primary = x]
      BY <1>0, <1>2, PrimaryQuiet, SameSlots
    <2> QED BY <1>0, <1>1, <2>1
  <1>3. CASE x.event = "ACTIVE" /\ x.next = "BECOME_PRIMARY"
    <2>1. b = [c EXCEPT !.primary = Told(x)]
      BY <1>0, <1>3, PrimaryActive
    <2>2. Told(x) \in KeyContext /\ Told(x).id = x.id /\ Young(x)
      BY <1>0, <1>3, ChangedFields, ToldFields DEF Young
    <2>3. Pair(Told(x), s.primary, l)
      BY <1>0, <1>3, ClientEvents
    <2> QED BY <1>1, <2>1, <2>2, <2>3
  <1>4. CASE Due(x) /\ x.next = "BECOME_PRIMARY"
    <2>1. b = [c EXCEPT !.primary = Turned("client", x)]
      BY <1>0, <1>4, PrimaryTurns
    <2>2. Turned("client", x) \in KeyContext /\ Turned("client", x).id = x.id /\ Young(x)
      BY <1>0, <1>4, ChangedFields, TurnedFields DEF Young
    <2>3. Pair(Turned("client", x), s.primary, l)
      BY <1>0, <1>4, ClientEvents
    <2> QED BY <1>1, <2>1, <2>2, <2>3
  <1>5. CASE Due(x) /\ x.next = "RENEGOTIATE"
    <2>1. b = [c EXCEPT !.primary = Retiring(x), !.secondary = NewContext(c.upcoming, TRUE),
                        !.upcoming = NextKeyId(c.upcoming)]
      BY <1>0, <1>5, PrimaryRenegotiates
    <2>2. Retiring(x) \in KeyContext /\ c.upcoming \in KeyId /\ NextKeyId(c.upcoming) \in KeyId
      BY <1>0, ChangedFields, SlotFields, NextKeyIdOk
    <2>3. NewContext(c.upcoming, TRUE) \in KeyContext /\ Quiet(NewContext(c.upcoming, TRUE))
      BY <2>2, NewFields, NewIsQuiet
    <2>4. b \in ProtoContext /\ b.secondary = NewContext(c.upcoming, TRUE)
      BY <2>1, <2>2, <2>3 DEF ProtoContext
    <2>5. Offered([c EXCEPT !.primary = Retiring(x), !.secondary = NewContext(c.upcoming, TRUE),
                           !.upcoming = NextKeyId(c.upcoming)], s, l)
      BY <1>5, ClientOffers
    <2> HIDE DEF b
    <2>6. d = b
      BY <1>0, <2>3, <2>4, SecondaryQuiet
    <2> HIDE DEF d
    <2>7. Offered(d, s, l)
      BY <2>1, <2>5, <2>6
    <2> QED BY <2>7 DEF Synchronous, d, b
  <1>6. ~(Due(x) /\ x.next = "NEGOTIATE")
    BY <1>0, Timely DEF Due
  <1> QED BY <1>0, <1>2, <1>3, <1>4, <1>5, <1>6, PairEvents

\* process_events of a server at the client's key.
LEMMA TogetherServerEvents ==
    ASSUME PromptNetwork, NEW c \in ProtoContext, NEW s \in ProtoContext, NEW l \in 0..MaxLag,
           Together(c, s, l)
    PROVE  Synchronous(c, ProcessSecondaryEvent("server", ProcessPrimaryEvent("server", s)), l)
  <1> DEFINE y == s.primary
             ids == {y.id, NextKeyId(y.id)}
             b == ProcessPrimaryEvent("server", s)
             d == ProcessSecondaryEvent("server", b)
  <1>0. /\ "server" \in Peer /\ y \in KeyContext /\ c.primary \in KeyContext
        /\ Pair(c.primary, y, l) /\ Left(s.secondary, ids)
        /\ Clock(y, c.primary.age, Renegotiate + HandshakeWindow, l)
    BY SlotFields DEF Peer, Together, Pair
  <1>1. ASSUME NEW a \in KeyContext, Pair(c.primary, a, l), a.id = y.id,
               Young(a) => Young(c.primary) \/ Young(y), b = [s EXCEPT !.primary = a]
        PROVE  Synchronous(c, d, l)
    <2> HIDE DEF ids, b
    <2>1. PICK r \in {s.secondary, NoKey} : d = [s EXCEPT !.primary = a, !.secondary = r]
      <3>1. b \in ProtoContext /\ b.secondary = s.secondary
        BY <1>1 DEF ProtoContext
      <3>2. PICK r \in {b.secondary, NoKey} : d = [b EXCEPT !.secondary = r]
        BY <1>0, <3>1, LeftExpires
      <3>3. [b EXCEPT !.secondary = r] = [s EXCEPT !.primary = a, !.secondary = r]
        BY <1>1
      <3> QED BY <3>1, <3>2, <3>3
    <2> HIDE DEF d
    <2>2. Together(c, d, l)
      BY <1>0, <1>1, <2>1, TogetherAtServer
    <2> QED BY <2>2 DEF Synchronous, d, b
  <1>2. CASE Quiet(y)
    <2>1. b = [s EXCEPT !.primary = y]
      BY <1>0, <1>2, PrimaryQuiet, SameSlots
    <2> QED BY <1>0, <1>1, <2>1
  <1>3. CASE y.event = "ACTIVE" /\ y.next = "BECOME_PRIMARY"
    <2>1. b = [s EXCEPT !.primary = Told(y)]
      BY <1>0, <1>3, PrimaryActive
    <2>2. Told(y) \in KeyContext /\ Told(y).id = y.id /\ Young(y)
      BY <1>0, <1>3, ChangedFields, ToldFields DEF Young
    <2>3. Pair(c.primary, Told(y), l)
      BY <1>0, <1>3, ServerEvents
    <2> QED BY <1>1, <2>1, <2>2, <2>3
  <1>4. CASE Due(y) /\ y.next = "BECOME_PRIMARY"
    <2>1. b = [s EXCEPT !.primary = Turned("server", y)]
      BY <1>0, <1>4, PrimaryTurns
    <2>2. Turned("server", y) \in KeyContext /\ Turned("server", y).id = y.id /\ Young(y)
      BY <1>0, <1>4, ChangedFields, TurnedFields DEF Young
    <2>3. Pair(c.primary, Turned("server", y), l)
      BY <1>0, <1>4, ServerEvents
    <2> QED BY <1>1, <2>1, <2>2, <2>3
  <1>6. ~(Due(y) /\ y.next \in {"NEGOTIATE", "RENEGOTIATE"})
    BY <1>0, Timely DEF Due
  <1> QED BY <1>0, <1>2, <1>3, <1>4, <1>6, PairEvents

-----------------------------------------------------------------------------
(* Events, during a renegotiation.                                         *)

\* Nothing happens at a peer.
LEMMA AllQuiet ==
    ASSUME NEW s \in ProtoContext, NEW p \in Peer,
           Quiet(s.primary), s.secondary # NoKey => Quiet(s.secondary)
    PROVE  ProcessSecondaryEvent(p, ProcessPrimaryEvent(p, s)) = s
  BY PrimaryQuiet, SecondaryQuiet

\* prepare_expire, of a key that had its expiry time or waits for its own
\* renegotiation, when the key after it is d.
LEMMA RetiringOld ==
    ASSUME PromptNetwork, NEW x \in KeyContext, NEW d, d.age = x.age, NEW l \in 0..MaxLag,
           x.age <= BecomePrimary + MaxLag
    PROVE  /\ \A o \in KeyContext : OldClient(o, x) =>
                OldClient(Retiring(o), d) /\ Retiring(o).id = o.id
           /\ \A q \in KeyContext : OldServer(q, x, l) =>
                /\ OldServer(Retiring(q), d, l) /\ Retiring(q).next = "EXPIRE"
                /\ Retiring(q).id = q.id
  <1>1. x.age \in Nat /\ Expire \in Nat /\ Renegotiate + x.age <= Expire
    BY Fields, Delays
  <1>2. ASSUME NEW o \in KeyContext, ~o.fired, o.age <= Expire
        PROVE  Retiring(o).age + Retiring(o).due = Expire
    <2>1. o.age \in Nat /\ Remaining(o, Expire) = IF o.age < Expire THEN Expire - o.age ELSE 0
      BY Fields DEF Remaining
    <2>2. o.age + Remaining(o, Expire) = Expire
      BY <1>1, <1>2, <2>1
    <2> QED BY <1>2, <2>2, RetiringFields
  <1>3. ASSUME NEW o \in KeyContext, OldClient(o, x)
        PROVE  OldClient(Retiring(o), d) /\ Retiring(o).id = o.id
    <2>1. o.age = Renegotiate + x.age /\ ~o.fired /\ o.age <= Expire
      BY <1>1, <1>3 DEF OldClient, Settled
    <2>2. Retiring(o).age + Retiring(o).due = Expire
      BY <1>2, <2>1
    <2> QED BY <1>3, <2>1, <2>2, RetiringFields DEF OldClient, Settled, Is
  <1>4. ASSUME NEW q \in KeyContext, OldServer(q, x, l)
        PROVE  /\ OldServer(Retiring(q), d, l) /\ Retiring(q).next = "EXPIRE"
               /\ Retiring(q).id = q.id
    <2>1. q.age <= Renegotiate + x.age /\ ~q.fired /\ q.age \in Nat
      BY <1>4, Fields DEF OldServer, Settled
    <2>2. q.age <= Expire
      BY <1>1, <2>1, Delays
    <2>3. Retiring(q).age + Retiring(q).due = Expire
      BY <1>2, <2>1, <2>2
    <2> QED BY <1>4, <2>1, <2>3, RetiringFields DEF OldServer, Settled, Is
  <1> QED BY <1>3, <1>4

\* The age of the key before is measured by that of the new one, and by nothing else of it.
LEMMA OldSame ==
    ASSUME NEW o, NEW x, NEW d, d.age = x.age, NEW l
    PROVE  /\ OldClient(o, x) => OldClient(o, d)
           /\ OldServer(o, x, l) => OldServer(o, d, l)
  BY DEF OldClient, OldServer

\* A retired key is what is left, if its id is not in use.
LEMMA OldIsLeft ==
    ASSUME NEW o, NEW x, NEW l, OldClient(o, x) \/ (OldServer(o, x, l) /\ o.next = "EXPIRE"),
           NEW ids, o.id \notin ids
    PROVE  Left(o, ids)
  BY DEF OldClient, OldServer, Left

\* Events at the client while its offer is on the way.
LEMMA OfferedClientEvents ==
    ASSUME PromptNetwork, NEW c \in ProtoContext, NEW s \in ProtoContext, NEW l \in 0..MaxLag,
           Offered(c, s, l)
    PROVE  Synchronous(ProcessSecondaryEvent("client", ProcessPrimaryEvent("client", c)), s, l)
  <1> DEFINE x == c.secondary
  <1>1. /\ x \in KeyContext /\ c.primary \in KeyContext /\ "client" \in Peer
        /\ x.next = "NEGOTIATE" /\ OldClient(c.primary, x) /\ Clock(x, x.age, Renegotiate, l)
    BY SlotFields DEF Offered, Peer
  <1>2. x.age <= BecomePrimary + MaxLag /\ x.age \in Nat /\ x.due \in Nat /\ Renegotiate \in Nat
    BY <1>1, YoungIsEarly, Fields, Delays DEF Young
  <1>3. Quiet(c.primary)
    BY <1>1, <1>2, OldIsQuiet
  <1>4. Quiet(x)
    <2>1. x.event = "NONE" /\ x.age <= l /\ x.age + x.due = HandshakeWindow
      BY <1>1 DEF Clock
    <2>2. x.due > 0
      BY <1>2, <2>1, Delays
    <2> QED BY <2>1, <2>2 DEF Quiet, Due
  <1> QED BY <1>1, <1>3, <1>4, AllQuiet DEF Synchronous

\* And at the server.
LEMMA OfferedServerEvents ==
    ASSUME PromptNetwork, NEW c \in ProtoContext, NEW s \in ProtoContext, NEW l \in 0..MaxLag,
           Offered(c, s, l)
    PROVE  Synchronous(c, ProcessSecondaryEvent("server", ProcessPrimaryEvent("server", s)), l)
  <1> DEFINE x == c.secondary
             ids == {c.primary.id, x.id}
             d == ProcessSecondaryEvent("server", ProcessPrimaryEvent("server", s))
  <1>1. /\ x \in KeyContext /\ s.primary \in KeyContext /\ "server" \in Peer
        /\ x.next = "NEGOTIATE" /\ OldServer(s.primary, x, l) /\ Clock(x, x.age, Renegotiate, l)
        /\ Left(s.secondary, ids)
    BY SlotFields DEF Offered, Peer
  <1>2. x.age <= BecomePrimary + MaxLag
    BY <1>1, YoungIsEarly, Fields, Delays DEF Young
  <1>3. ProcessPrimaryEvent("server", s) = s
    BY <1>1, <1>2, OldIsQuiet, PrimaryQuiet
  <1> HIDE DEF ids
  <1>4. PICK r \in {s.secondary, NoKey} : d = [s EXCEPT !.secondary = r]
    BY <1>1, <1>3, LeftExpires
  <1>5. d.primary = s.primary /\ d.secondary = r /\ d.upcoming = s.upcoming
    BY <1>4 DEF ProtoContext
  <1>6. Left(r, ids)
    BY <1>1 DEF Left
  <1> HIDE DEF d
  <1>7. Offered(c, d, l)
    BY <1>5, <1>6 DEF Offered, ids
  <1> QED BY <1>7 DEF Synchronous, d

\* What is known of the contexts while the new key waits at both ends.
LEMMA NegotiatedParts ==
    ASSUME PromptNetwork, NEW c \in ProtoContext, NEW s \in ProtoContext, NEW l \in 0..MaxLag,
           Negotiated(c, s, l)
    PROVE  /\ c.secondary \in KeyContext /\ s.secondary \in KeyContext
           /\ c.primary \in KeyContext /\ s.primary \in KeyContext
           /\ Pair(c.secondary, s.secondary, l)
           /\ c.secondary.age <= BecomePrimary + MaxLag
           /\ OldClient(c.primary, c.secondary) /\ OldServer(s.primary, c.secondary, l)
           /\ Quiet(c.primary) /\ Quiet(s.primary)
           /\ Clock(c.secondary, c.secondary.age, Renegotiate, l)
           /\ Clock(s.secondary, c.secondary.age, Renegotiate + HandshakeWindow, l)
  <1>1. /\ c.secondary \in KeyContext /\ s.secondary \in KeyContext
        /\ c.primary \in KeyContext /\ s.primary \in KeyContext
        /\ Pair(c.secondary, s.secondary, l) /\ Young(c.secondary)
        /\ OldClient(c.primary, c.secondary) /\ OldServer(s.primary, c.secondary, l)
    BY SlotFields DEF Negotiated
  <1>2. c.secondary.age <= BecomePrimary + MaxLag
    BY <1>1, Timely
  <1> QED BY <1>1, <1>2, OldIsQuiet DEF Pair

\* Events at the client with a new key.
LEMMA NegotiatedClientEvents ==
    ASSUME PromptNetwork, NEW c \in ProtoContext, NEW s \in ProtoContext, NEW l \in 0..MaxLag,
           Negotiated(c, s, l)
    PROVE  Synchronous(ProcessSecondaryEvent("client", ProcessPrimaryEvent("client", c)), s, l)
  <1> DEFINE x == c.secondary
             y == s.secondary
             d == ProcessSecondaryEvent("client", ProcessPrimaryEvent("client", c))
  <1>0. "client" \in Peer
    BY DEF Peer
  <1>1. /\ x \in KeyContext /\ y \in KeyContext /\ c.primary \in KeyContext
        /\ Pair(x, y, l) /\ x.age <= BecomePrimary + MaxLag
        /\ OldClient(c.primary, x) /\ OldServer(s.primary, x, l)
        /\ Clock(x, x.age, Renegotiate, l)
        /\ ProcessPrimaryEvent("client", c) = c /\ Quiet(c.primary)
    BY <1>0, NegotiatedParts, PrimaryQuiet
  <1>2. x # NoKey /\ y # NoKey /\ Young(x) /\ Young(y) /\ x.valid
    BY DEF Negotiated, Pair
  <1>3. CASE Quiet(x)
    <2>1. d = c
      BY <1>0, <1>1, <1>3, AllQuiet
    <2> QED BY <2>1 DEF Synchronous
  <1>4. CASE x.event = "ACTIVE" /\ x.next = "BECOME_PRIMARY"
    <2>1. d = [c EXCEPT !.primary = Retiring(c.primary), !.secondary = Told(x)]
      BY <1>0, <1>1, <1>2, <1>4, SecondaryActive
    <2>2. d.primary = Retiring(c.primary) /\ d.secondary = Told(x) /\ d.upcoming = c.upcoming
      BY <2>1 DEF ProtoContext
    <2>3. /\ Told(x) # NoKey /\ Told(x).age = x.age /\ Told(x).id = x.id /\ Young(Told(x))
      BY <1>0, <1>1, <1>2, ChangedFields, ToldFields, NoKeyAssumption DEF Young
    <2>4. Pair(Told(x), y, l)
      BY <1>1, <1>4, ClientEvents
    <2>5. OldClient(Retiring(c.primary), Told(x)) /\ Retiring(c.primary).id = c.primary.id
      BY <1>1, <2>3, RetiringOld
    <2>6. OldServer(s.primary, Told(x), l)
      BY <1>1, <2>3, OldSame
    <2> HIDE DEF d
    <2>7. Negotiated(d, s, l)
      BY <2>2, <2>3, <2>4, <2>5, <2>6 DEF Negotiated
    <2> QED BY <2>7 DEF Synchronous, d
  <1>5. CASE Due(x) /\ x.next = "BECOME_PRIMARY"
    <2>1. d = [c EXCEPT !.primary = Turned("client", x), !.secondary = Retiring(c.primary)]
      BY <1>0, <1>1, <1>2, <1>5, SecondaryTurns
    <2>2. /\ d.primary = Turned("client", x) /\ d.secondary = Retiring(c.primary)
          /\ d.upcoming = c.upcoming
      BY <2>1 DEF ProtoContext
    <2>3. /\ Turned("client", x).age = x.age /\ Turned("client", x).id = x.id
          /\ ~Young(Turned("client", x)) /\ Retiring(c.primary) # NoKey
      BY <1>0, <1>1, ChangedFields, TurnedFields, NoKeyAssumption DEF Young
    <2>4. Pair(Turned("client", x), y, l) /\ BecomePrimary <= x.age
      BY <1>1, <1>5, ClientEvents
    <2>5. y.event = "NONE" /\ y.next = "BECOME_PRIMARY"
      BY <1>1, <1>2, <2>4, LongAgreed DEF Young
    <2>6. /\ OldClient(Retiring(c.primary), Turned("client", x))
          /\ Retiring(c.primary).id = c.primary.id
      BY <1>1, <2>3, RetiringOld
    <2>7. OldServer(s.primary, Turned("client", x), l) /\ s.primary.next = "EXPIRE"
      BY <1>1, <2>3, <2>5, OldSame DEF Negotiated
    <2> HIDE DEF d
    <2>8. ClientAhead(d, s, l)
      BY <1>2, <2>2, <2>3, <2>4, <2>5, <2>6, <2>7 DEF Negotiated, ClientAhead
    <2> QED BY <2>8 DEF Synchronous, d
  <1>6. ~(Due(x) /\ x.next \in {"NEGOTIATE", "RENEGOTIATE"})
    BY <1>1, <1>2, Timely DEF Due
  <1> QED BY <1>1, <1>3, <1>4, <1>5, <1>6, PairEvents

\* And at the server.
LEMMA NegotiatedServerEvents ==
    ASSUME PromptNetwork, NEW c \in ProtoContext, NEW s \in ProtoContext, NEW l \in 0..MaxLag,
           Negotiated(c, s, l)
    PROVE  Synchronous(c, ProcessSecondaryEvent("server", ProcessPrimaryEvent("server", s)), l)
  <1> DEFINE x == c.secondary
             y == s.secondary
             d == ProcessSecondaryEvent("server", ProcessPrimaryEvent("server", s))
  <1>0. "server" \in Peer
    BY DEF Peer
  <1>1. /\ x \in KeyContext /\ y \in KeyContext /\ s.primary \in KeyContext
        /\ Pair(x, y, l) /\ x.age <= BecomePrimary + MaxLag
        /\ OldClient(c.primary, x) /\ OldServer(s.primary, x, l)
        /\ Clock(y, x.age, Renegotiate + HandshakeWindow, l)
        /\ ProcessPrimaryEvent("server", s) = s /\ Quiet(s.primary)
    BY <1>0, NegotiatedParts, PrimaryQuiet
  <1>2. x # NoKey /\ y # NoKey /\ Young(x) /\ Young(y) /\ y.valid
    BY DEF Negotiated, Pair
  <1>3. CASE Quiet(y)
    <2>1. d = s
      BY <1>0, <1>1, <1>3, AllQuiet
    <2> QED BY <2>1 DEF Synchronous
  <1>4. CASE y.event = "ACTIVE" /\ y.next = "BECOME_PRIMARY"
    <2>1. d = [s EXCEPT !.primary = Retiring(s.primary), !.secondary = Told(y)]
      BY <1>0, <1>1, <1>2, <1>4, SecondaryActive
    <2>2. d.primary = Retiring(s.primary) /\ d.secondary = Told(y) /\ d.upcoming = s.upcoming
      BY <2>1 DEF ProtoContext
    <2>3. /\ Told(y) # NoKey /\ Told(y).state = y.state /\ Young(Told(y))
      BY <1>0, <1>1, <1>2, ChangedFields, ToldFields, NoKeyAssumption DEF Young
    <2>4. Pair(x, Told(y), l)
      BY <1>1, <1>4, ServerEvents
    <2>5. /\ OldServer(Retiring(s.primary), x, l) /\ Retiring(s.primary).id = s.primary.id
          /\ Retiring(s.primary).next = "EXPIRE"
      BY <1>1, RetiringOld
    <2> HIDE DEF d
    <2>6. Negotiated(c, d, l)
      BY <1>1, <1>2, <2>2, <2>3, <2>4, <2>5 DEF Negotiated
    <2> QED BY <2>6 DEF Synchronous, d
  <1>5. CASE Due(y) /\ y.next = "BECOME_PRIMARY"
    <2>1. d = [s EXCEPT !.primary = Turned("server", y), !.secondary = Retiring(s.primary)]
      BY <1>0, <1>1, <1>2, <1>5, SecondaryTurns
    <2>2. /\ d.primary = Turned("server", y) /\ d.secondary = Retiring(s.primary)
          /\ d.upcoming = s.upcoming
      BY <2>1 DEF ProtoContext
    <2>3. ~Young(Turned("server", y)) /\ Retiring(s.primary) # NoKey
      BY <1>0, <1>1, ChangedFields, TurnedFields, NoKeyAssumption DEF Young
    <2>4. Pair(x, Turned("server", y), l) /\ BecomePrimary <= x.age
      BY <1>1, <1>5, ServerEvents
    <2>5. x.event = "NONE"
      BY <1>1, <2>4, LongAgreed
    <2>6. /\ OldServer(Retiring(s.primary), x, l) /\ Retiring(s.primary).id = s.primary.id
          /\ Retiring(s.primary).next = "EXPIRE"
      BY <1>1, RetiringOld
    <2> HIDE DEF d
    <2>7. ServerAhead(c, d, l)
      BY <1>1, <1>2, <2>2, <2>3, <2>4, <2>5, <2>6 DEF Negotiated, ServerAhead
    <2> QED BY <2>7 DEF Synchronous, d
  <1>6. ~(Due(y) /\ y.next \in {"NEGOTIATE", "RENEGOTIATE"})
    BY <1>1, Timely DEF Due
  <1> QED BY <1>1, <1>3, <1>4, <1>5, <1>6, PairEvents

\* Events when the client has turned to the new key.
LEMMA ClientAheadEvents ==
    ASSUME PromptNetwork, NEW c \in ProtoContext, NEW s \in ProtoContext, NEW l \in 0..MaxLag,
           ClientAhead(c, s, l)
    PROVE  /\ Synchronous(ProcessSecondaryEvent("client", ProcessPrimaryEvent("client", c)), s, l)
           /\ Synchronous(c, ProcessSecondaryEvent("server", ProcessPrimaryEvent("server", s)), l)
  <1> DEFINE x == c.primary
             y == s.secondary
             k == s.primary.id
             d == ProcessSecondaryEvent("server", ProcessPrimaryEvent("server", s))
  <1>0. "client" \in Peer /\ "server" \in Peer
    BY DEF Peer
  <1>1. /\ x \in KeyContext /\ y \in KeyContext /\ c.secondary \in KeyContext
        /\ s.primary \in KeyContext /\ k \in KeyId
        /\ Pair(x, y, l) /\ ~Young(x) /\ Young(y) /\ y # NoKey /\ y.event = "NONE" /\ y.valid
        /\ OldClient(c.secondary, x) /\ OldServer(s.primary, x, l) /\ s.primary.next = "EXPIRE"
        /\ c.secondary # NoKey /\ c.secondary.id = k /\ x.id = NextKeyId(k)
        /\ s.upcoming = NextKeyId(x.id) /\ c.upcoming = NextKeyId(x.id)
    BY SlotFields, Fields DEF ClientAhead, Pair
  <1>2. /\ x.age <= BecomePrimary + MaxLag /\ x.next = "RENEGOTIATE" /\ x.due > 0
        /\ y.next = "NEGOTIATE" => y.due > 0
    BY <1>1, Timely DEF Young
  <1>3. Quiet(c.secondary) /\ Quiet(s.primary)
    BY <1>1, <1>2, OldIsQuiet
  <1>4. Quiet(x)
    BY <1>1, <1>2, TurnedIsOld, LongAgreed DEF Quiet, Due
  <1>5. ProcessSecondaryEvent("client", ProcessPrimaryEvent("client", c)) = c
    BY <1>0, <1>3, <1>4, AllQuiet
  <1>6. ProcessPrimaryEvent("server", s) = s
    BY <1>0, <1>3, PrimaryQuiet
  <1>7. CASE Quiet(y)
    <2>1. d = s
      BY <1>0, <1>3, <1>7, AllQuiet
    <2> QED BY <1>5, <2>1 DEF Synchronous
  <1>8. CASE Due(y) /\ y.next = "BECOME_PRIMARY"
    <2>1. d = [s EXCEPT !.primary = Turned("server", y), !.secondary = Retiring(s.primary)]
      BY <1>0, <1>1, <1>6, <1>8, SecondaryTurns
    <2>2. /\ d.primary = Turned("server", y) /\ d.secondary = Retiring(s.primary)
          /\ d.upcoming = s.upcoming
      BY <2>1 DEF ProtoContext
    <2>3. ~Young(Turned("server", y)) /\ Pair(x, Turned("server", y), l)
      BY <1>1, <1>8, ServerEvents, TurnedFields DEF Young
    <2>4. k \notin {x.id, NextKeyId(x.id)}
      BY <1>1, KeyIdsDiffer
    <2>5. Left(c.secondary, {x.id, NextKeyId(x.id)})
      BY <1>1, <2>4, OldIsLeft
    <2>6. Left(Retiring(s.primary), {x.id, NextKeyId(x.id)})
      BY <1>1, <1>2, <2>4, RetiringOld, OldIsLeft
    <2> HIDE DEF d
    <2>7. Together(c, d, l)
      BY <1>1, <2>2, <2>3, <2>5, <2>6 DEF Together
    <2> QED BY <1>5, <2>7 DEF Synchronous, d
  <1> QED BY <1>1, <1>2, <1>7, <1>8 DEF Quiet, Due, Young

\* Events when the server has.
LEMMA ServerAheadEvents ==
    ASSUME PromptNetwork, NEW c \in ProtoContext, NEW s \in ProtoContext, NEW l \in 0..MaxLag,
           ServerAhead(c, s, l)
    PROVE  /\ Synchronous(ProcessSecondaryEvent("client", ProcessPrimaryEvent("client", c)), s, l)
           /\ Synchronous(c, ProcessSecondaryEvent("server", ProcessPrimaryEvent("server", s)), l)
  <1> DEFINE x == c.secondary
             y == s.primary
             k == c.primary.id
             d == ProcessSecondaryEvent("client", ProcessPrimaryEvent("client", c))
  <1>0. "client" \in Peer /\ "server" \in Peer
    BY DEF Peer
  <1>1. /\ x \in KeyContext /\ y \in KeyContext /\ c.primary \in KeyContext
        /\ s.secondary \in KeyContext /\ k \in KeyId
        /\ Pair(x, y, l) /\ Young(x) /\ ~Young(y) /\ x # NoKey /\ x.event = "NONE" /\ x.valid
        /\ OldClient(c.primary, x) /\ OldServer(s.secondary, x, l) /\ s.secondary.next = "EXPIRE"
        /\ s.secondary # NoKey /\ s.secondary.id = k /\ x.id = NextKeyId(k)
        /\ s.upcoming = NextKeyId(x.id) /\ c.upcoming = NextKeyId(x.id)
    BY SlotFields, Fields DEF ServerAhead, Pair
  <1>2. /\ x.age <= BecomePrimary + MaxLag /\ y.next = "RENEGOTIATE" /\ y.due > 0
        /\ x.next = "NEGOTIATE" => x.due > 0
    BY <1>1, Timely DEF Young
  <1>3. Quiet(c.primary) /\ Quiet(s.secondary)
    BY <1>1, <1>2, OldIsQuiet
  <1>4. Quiet(y)
    BY <1>1, <1>2, TurnedIsOld, LongAgreed DEF Quiet, Due
  <1>5. ProcessSecondaryEvent("server", ProcessPrimaryEvent("server", s)) = s
    BY <1>0, <1>3, <1>4, AllQuiet
  <1>6. ProcessPrimaryEvent("client", c) = c
    BY <1>0, <1>3, PrimaryQuiet
  <1>7. CASE Quiet(x)
    <2>1. d = c
      BY <1>0, <1>3, <1>7, AllQuiet
    <2> QED BY <1>5, <2>1 DEF Synchronous
  <1>8. CASE Due(x) /\ x.next = "BECOME_PRIMARY"
    <2> DEFINE z == Turned("client", x)
    <2>1. d = [c EXCEPT !.primary = z, !.secondary = Retiring(c.primary)]
      BY <1>0, <1>1, <1>6, <1>8, SecondaryTurns
    <2>2. d.primary = z /\ d.secondary = Retiring(c.primary) /\ d.upcoming = c.upcoming
      BY <2>1 DEF ProtoContext
    <2>3. ~Young(z) /\ Pair(z, y, l) /\ z.id = x.id /\ z.age = x.age
      BY <1>1, <1>8, ClientEvents, TurnedFields DEF Young
    <2> HIDE DEF z
    <2>4. k \notin {x.id, NextKeyId(x.id)}
      BY <1>1, KeyIdsDiffer
    <2>5. Left(s.secondary, {x.id, NextKeyId(x.id)})
      BY <1>1, <2>4, OldIsLeft
    <2>6. Left(Retiring(c.primary), {x.id, NextKeyId(x.id)})
      BY <1>1, <1>2, <2>4, RetiringOld, OldIsLeft
    <2> HIDE DEF d
    <2>7. Together(d, s, l)
      BY <1>1, <2>2, <2>3, <2>5, <2>6 DEF Together
    <2> QED BY <1>5, <2>7 DEF Synchronous, d
  <1> QED BY <1>1, <1>2, <1>7, <1>8 DEF Quiet, Due, Young

-----------------------------------------------------------------------------
(* Messages.                                                               *)

\* A key that is settled has nothing to send.
LEMMA NothingToSend ==
    ASSUME NEW o, NEW m, m \in o.unacked
    PROVE  /\ \A x : ~OldClient(o, x)
           /\ \A x, l : ~OldServer(o, x, l)
           /\ \A ids : Left(o, ids) => o = NoKey
           /\ ~Is(o, "ACTIVE", {})
  BY DEF OldClient, OldServer, Left, Settled, Is

\* A packet with the key of the primary context.
LEMMA ForPrimary ==
    ASSUME NEW s \in ProtoContext, NEW p, NEW m, NEW id, s.primary.id = id
    PROVE  /\ Destination(s, id, m) = "primary"
           /\ AfterMessage(p, s, id, m) =
                 [s EXCEPT !.primary = PostAckAction(p, Received(p, s.primary, m))]
  BY DEF Destination, AfterMessage

\* A packet with the key of the secondary context only.
LEMMA ForSecondary ==
    ASSUME NEW s \in ProtoContext, NEW p, NEW m, NEW id,
           s.primary.id # id, s.secondary # NoKey, s.secondary.id = id
    PROVE  /\ Destination(s, id, m) = "secondary"
           /\ AfterMessage(p, s, id, m) =
                 [s EXCEPT !.secondary = PostAckAction(p, Received(p, s.secondary, m))]
  BY DEF Destination, AfterMessage

\* The peer c takes message m from the context of s in the slot.
Hears(c, s, slot, m) ==
    LET to == Destination(c, s[slot].id, m)
    IN  /\ s[slot] # NoKey /\ s[slot].valid /\ m \in s[slot].unacked
        /\ to = "soft_reset" \/ (to \in Slot /\ c[to].valid /\ Awaits(c[to], m))

\* The key of a handshake of which a context waits for a message is young.
LEMMA AwaitingIsYoung ==
    ASSUME NEW c, NEW age, NEW t, NEW l, Clock(c, age, t, l), c.state # "ACTIVE"
    PROVE  Young(c)
  BY DEF Clock, Young

\* What a message makes of a context is one.
LEMMA ReceivedIsContext ==
    ASSUME NEW c, Scheduled(c), NEW p \in Peer, NEW m \in Message
    PROVE  PostAckAction(p, Received(p, c, m)) \in KeyContext
  <1> DEFINE e == Received(p, c, m)
  <1>1. Scheduled(e)
    BY ReceivedOk
  <1> HIDE DEF e
  <1>2. Scheduled(PostAckAction(p, e))
    BY <1>1, PostAckActionOk
  <1> QED BY <1>2 DEF Scheduled, e

\* And an acknowledgement.
LEMMA AckedIsContext ==
    ASSUME NEW c, Scheduled(c), NEW p \in Peer, NEW m,
           NEW d, d = [c EXCEPT !.unacked = @ \ {m}]
    PROVE  PostAckAction(p, d) \in KeyContext
  <1>1. Scheduled(d)
    BY DEF Scheduled, KeyContext
  <1>2. Scheduled(PostAckAction(p, d))
    BY <1>1, PostAckActionOk
  <1> QED BY <1>2 DEF Scheduled

\* The new key moves on at the client.
LEMMA NegotiatedAtClient ==
    ASSUME PromptNetwork, NEW c \in ProtoContext, NEW s \in ProtoContext, NEW l,
           Negotiated(c, s, l), NEW x \in KeyContext, Pair(x, s.secondary, l),
           Moved(c.secondary, x)
    PROVE  Negotiated([c EXCEPT !.secondary = x], s, l)
  <1> DEFINE d == [c EXCEPT !.secondary = x]
  <1>1. d.primary = c.primary /\ d.secondary = x /\ d.upcoming = c.upcoming
    BY DEF ProtoContext
  <1>2. x # NoKey /\ Young(x) /\ x.age = c.secondary.age /\ x.id = c.secondary.id
    BY NoKeyAssumption DEF Moved, Young
  <1>3. OldClient(c.primary, x) /\ OldServer(s.primary, x, l)
    BY <1>2, OldSame DEF Negotiated
  <1> HIDE DEF d
  <1>4. Negotiated(d, s, l)
    BY <1>1, <1>2, <1>3 DEF Negotiated
  <1> QED BY <1>4 DEF d

\* And at the server.
LEMMA NegotiatedAtServer ==
    ASSUME PromptNetwork, NEW c \in ProtoContext, NEW s \in ProtoContext, NEW l,
           Negotiated(c, s, l), NEW y \in KeyContext, Pair(c.secondary, y, l),
           Moved(s.secondary, y), y.state # "WAIT_RESET"
    PROVE  Negotiated(c, [s EXCEPT !.secondary = y], l)
  <1> DEFINE d == [s EXCEPT !.secondary = y]
  <1>1. d.primary = s.primary /\ d.secondary = y /\ d.upcoming = s.upcoming
    BY DEF ProtoContext
  <1>2. /\ y # NoKey /\ Young(y)
        /\ y.next = "BECOME_PRIMARY" => y.event = "ACTIVE"
    BY NoKeyAssumption DEF Moved, Young
  <1> HIDE DEF d
  <1>3. Negotiated(c, d, l)
    BY <1>1, <1>2 DEF Negotiated
  <1> QED BY <1>3 DEF d

\* When one has turned to the new key there is nothing to say.
LEMMA AheadIsSilent ==
    ASSUME PromptNetwork, NEW c \in ProtoContext, NEW s \in ProtoContext, NEW l \in 0..MaxLag,
           ClientAhead(c, s, l) \/ ServerAhead(c, s, l), NEW slot \in Slot, NEW m
    PROVE  m \notin c[slot].unacked /\ m \notin s[slot].unacked
  <1>1. CASE ClientAhead(c, s, l)
    <2>1. Is(c.primary, "ACTIVE", {}) /\ Is(s.secondary, "ACTIVE", {})
      BY <1>1, SlotFields, TurnedIsOld, LongAgreed DEF ClientAhead
    <2>2. OldClient(c.secondary, c.primary) /\ OldServer(s.primary, c.primary, l)
      BY <1>1 DEF ClientAhead
    <2> QED BY <2>1, <2>2, NothingToSend DEF Slot
  <1>2. CASE ServerAhead(c, s, l)
    <2>1. Is(c.secondary, "ACTIVE", {}) /\ Is(s.primary, "ACTIVE", {})
      BY <1>2, SlotFields, TurnedIsOld, LongAgreed DEF ServerAhead
    <2>2. OldClient(c.primary, c.secondary) /\ OldServer(s.secondary, c.secondary, l)
      BY <1>2 DEF ServerAhead
    <2> QED BY <2>1, <2>2, NothingToSend DEF Slot
  <1> QED BY <1>1, <1>2

\* Where the contexts of a renegotiation are found by their key.
LEMMA NegotiatedSlots ==
    ASSUME PromptNetwork, NEW c \in ProtoContext, NEW s \in ProtoContext, NEW l \in 0..MaxLag,
           Negotiated(c, s, l)
    PROVE  LET id == c.secondary.id
           IN  /\ s.secondary.id = id /\ c.primary.id # id /\ s.primary.id # id
               /\ c.secondary # NoKey /\ s.secondary # NoKey
  <1>1. c.primary.id \in KeyId /\ c.secondary.id = NextKeyId(c.primary.id)
    BY SlotFields, Fields DEF Negotiated
  <1>2. c.secondary.id # c.primary.id
    BY <1>1, KeyIdsDiffer
  <1> QED BY <1>2 DEF Negotiated, Pair

\* control_net_recv at the client.
LEMMA ClientHears ==
    ASSUME PromptNetwork, NEW c, Good(c), NEW s, Good(s), NEW l \in 0..MaxLag,
           Synchronous(c, s, l), NEW slot \in Slot, NEW m \in Message,
           Hears(c, s, slot, m)
    PROVE  Synchronous(AfterMessage("client", c, s[slot].id, m), s, l)
  <1> DEFINE id == s[slot].id
             d == AfterMessage("client", c, id, m)
             e(x) == PostAckAction("client", Received("client", x, m))
  <1>0. /\ c \in ProtoContext /\ s \in ProtoContext /\ "client" \in Peer
        /\ Scheduled(c.primary) /\ (c.secondary # NoKey => Scheduled(c.secondary))
        /\ s[slot] # NoKey /\ m \in s[slot].unacked
        /\ c.primary \in KeyContext /\ s.primary \in KeyContext
    BY SlotFields DEF Good, Peer, Hears
  <1>1. CASE Together(c, s, l)
    <2>1. slot = "primary" /\ Pair(c.primary, s.primary, l) /\ id = c.primary.id
      BY <1>0, <1>1, NothingToSend DEF Slot, Together, Pair
    <2>2. Destination(c, id, m) = "primary" /\ d = [c EXCEPT !.primary = e(c.primary)]
      BY <1>0, <2>1, ForPrimary
    <2>3. Awaits(c.primary, m) /\ m \in s.primary.unacked
      BY <1>0, <2>1, <2>2 DEF Hears
    <2>4. Pair(e(c.primary), s.primary, l) /\ Moved(c.primary, e(c.primary))
      BY <1>0, <2>1, <2>3, ClientReceives
    <2>5. e(c.primary) \in KeyContext
      BY <1>0, ReceivedIsContext
    <2>6. Young(c.primary)
      BY <2>1, <2>3, AwaitingIsYoung DEF Pair, Awaits
    <2> DEFINE x == e(c.primary)
    <2> HIDE DEF e
    <2>7. Together([c EXCEPT !.primary = x, !.secondary = c.secondary], s, l)
      BY <1>0, <1>1, <2>4, <2>5, <2>6, TogetherAtClient DEF Moved
    <2>8. d = [c EXCEPT !.primary = x, !.secondary = c.secondary]
      BY <1>0, <2>2 DEF ProtoContext
    <2> QED BY <2>7, <2>8 DEF Synchronous
  <1>2. CASE Offered(c, s, l)
    BY <1>0, <1>2, NothingToSend DEF Slot, Offered
  <1>3. CASE Negotiated(c, s, l)
    <2>0. slot = "secondary"
      BY <1>0, <1>3, NothingToSend DEF Slot, Negotiated
    <2>1. /\ Pair(c.secondary, s.secondary, l) /\ id = c.secondary.id /\ c.primary.id # id
          /\ c.secondary # NoKey /\ c.secondary \in KeyContext /\ s.secondary \in KeyContext
      BY <1>0, <1>3, <2>0, NegotiatedSlots, NegotiatedParts
    <2>2. Destination(c, id, m) = "secondary" /\ d = [c EXCEPT !.secondary = e(c.secondary)]
      BY <1>0, <2>1, ForSecondary
    <2>3. Awaits(c.secondary, m) /\ m \in s.secondary.unacked
      BY <1>0, <2>0, <2>2 DEF Hears
    <2>4. Pair(e(c.secondary), s.secondary, l) /\ Moved(c.secondary, e(c.secondary))
      BY <2>1, <2>3, ClientReceives
    <2>5. e(c.secondary) \in KeyContext
      BY <1>0, <2>1, ReceivedIsContext
    <2> DEFINE x == e(c.secondary)
    <2> HIDE DEF e
    <2>6. Negotiated([c EXCEPT !.secondary = x], s, l)
      BY <1>0, <1>3, <2>4, <2>5, NegotiatedAtClient
    <2> QED BY <2>2, <2>6 DEF Synchronous
  <1>4. ~ClientAhead(c, s, l) /\ ~ServerAhead(c, s, l)
    BY <1>0, AheadIsSilent
  <1> QED BY <1>1, <1>2, <1>3, <1>4 DEF Synchronous

\* The server answers the offer with a secondary context of its own.
LEMMA ServerAnswers ==
    ASSUME PromptNetwork, NEW c, Good(c), NEW s, Good(s), NEW l \in 0..MaxLag,
           Offered(c, s, l)
    PROVE  LET id == c.secondary.id
           IN  /\ Destination(s, id, "reset") = "soft_reset"
               /\ Negotiated(c, AfterMessage("server", s, id, "reset"), l)
  <1> DEFINE x == c.secondary
             k == c.primary.id
             n == NewContext(s.upcoming, FALSE)
             y == [n EXCEPT !.state = "WAIT_RESET_ACK", !.unacked = {"reset"}]
             d == AfterMessage("server", s, x.id, "reset")
  <1>1. /\ c \in ProtoContext /\ s \in ProtoContext /\ s.upcoming \in KeyId /\ k \in KeyId
        /\ x \in KeyContext /\ x # NoKey
        /\ s.primary.id = k /\ x.id = NextKeyId(k) /\ s.upcoming = x.id
        /\ s.secondary # NoKey => s.secondary.id # x.id
    BY SlotFields, Fields DEF Good, Offered, Left
  <1>2. Destination(s, x.id, "reset") = "soft_reset"
    <2>1. x.id # k /\ x.id # 0
      BY <1>1, KeyIdsDiffer
    <2> QED BY <1>1, <2>1 DEF Destination
  <1>3. /\ n \in KeyContext /\ n.id = s.upcoming /\ n.unacked = {} /\ n.event = "NONE"
        /\ n.next = "NEGOTIATE" /\ n.due = HandshakeWindow /\ n.age = 0 /\ ~n.fired /\ n.valid
    BY <1>1, NewFields
  <1> HIDE DEF n
  <1>4. Restated(n, y, "WAIT_RESET_ACK", {"reset"})
    BY <1>3, Restates DEF State, Message
  <1>5. Received("server", n, "reset") = y
    BY <1>3 DEF Received
  <1>6. PostAckAction("server", y) = y
    BY <1>4 DEF PostAckAction, Restated, Is
  <1>7. d = [[s EXCEPT !.secondary = n, !.upcoming = NextKeyId(s.upcoming)] EXCEPT !.secondary = y]
    <2> HIDE DEF y
    <2>1. NewSecondary(s, FALSE) = [s EXCEPT !.secondary = n, !.upcoming = NextKeyId(s.upcoming)]
      BY DEF NewSecondary, n
    <2>2. [s EXCEPT !.secondary = n, !.upcoming = NextKeyId(s.upcoming)].secondary = n
      BY <1>1 DEF ProtoContext
    <2> QED BY <1>2, <1>5, <1>6, <2>1, <2>2 DEF AfterMessage
  <1> HIDE DEF y
  <1>8. d.primary = s.primary /\ d.secondary = y /\ d.upcoming = NextKeyId(x.id)
    BY <1>1, <1>7 DEF ProtoContext
  <1> HIDE DEF d
  <1>9. Pair(x, y, l) /\ Young(x) /\ Young(y) /\ y.state # "WAIT_RESET" /\ y.next = "NEGOTIATE"
    <2>1. /\ x.valid /\ Is(x, "WAIT_RESET", {"reset"}) /\ x.next = "NEGOTIATE"
          /\ Clock(x, x.age, Renegotiate, l)
      BY DEF Offered
    <2>2. Clock(y, x.age, Renegotiate + HandshakeWindow, l)
      BY <1>3, <1>4, <2>1, Delays DEF Clock, Restated, Is
    <2>3. Shaking(x, y)
      BY <1>4, <2>1 DEF Shaking, Restated
    <2>4. y.age <= x.age
      BY <1>1, <1>3, <1>4, Fields DEF Restated
    <2>5. ~x.fired
      BY DEF Offered
    <2> QED BY <1>1, <1>3, <1>4, <2>1, <2>2, <2>3, <2>4, <2>5 DEF Pair, Young, Restated, Is
  <1>10. y # NoKey
    BY <1>4, NoKeyAssumption DEF Restated
  <1>11. Negotiated(c, d, l)
    BY <1>1, <1>8, <1>9, <1>10 DEF Negotiated, Offered
  <1> QED BY <1>2, <1>11 DEF d

\* control_net_recv at the server.
LEMMA ServerHears ==
    ASSUME PromptNetwork, NEW c, Good(c), NEW s, Good(s), NEW l \in 0..MaxLag,
           Synchronous(c, s, l), NEW slot \in Slot, NEW m \in Message,
           Hears(s, c, slot, m)
    PROVE  Synchronous(c, AfterMessage("server", s, c[slot].id, m), l)
  <1> DEFINE id == c[slot].id
             d == AfterMessage("server", s, id, m)
             e(y) == PostAckAction("server", Received("server", y, m))
  <1>0. /\ c \in ProtoContext /\ s \in ProtoContext /\ "server" \in Peer
        /\ Scheduled(s.primary) /\ (s.secondary # NoKey => Scheduled(s.secondary))
        /\ c[slot] # NoKey /\ m \in c[slot].unacked
        /\ c.primary \in KeyContext /\ s.primary \in KeyContext
    BY SlotFields DEF Good, Peer, Hears
  <1>1. CASE Together(c, s, l)
    <2>1. slot = "primary" /\ Pair(c.primary, s.primary, l) /\ id = s.primary.id
      BY <1>0, <1>1, NothingToSend DEF Slot, Together, Pair
    <2>2. Destination(s, id, m) = "primary" /\ d = [s EXCEPT !.primary = e(s.primary)]
      BY <1>0, <2>1, ForPrimary
    <2>3. Awaits(s.primary, m) /\ m \in c.primary.unacked
      BY <1>0, <2>1, <2>2 DEF Hears
    <2>4. Pair(c.primary, e(s.primary), l) /\ Moved(s.primary, e(s.primary))
      BY <1>0, <2>1, <2>3, ServerReceives
    <2>5. e(s.primary) \in KeyContext
      BY <1>0, ReceivedIsContext
    <2>6. Young(s.primary)
      BY <2>1, <2>3, AwaitingIsYoung DEF Pair, Awaits
    <2> DEFINE y == e(s.primary)
    <2> HIDE DEF e
    <2>7. Together(c, [s EXCEPT !.primary = y, !.secondary = s.secondary], l)
      BY <1>0, <1>1, <2>4, <2>5, <2>6, TogetherAtServer DEF Moved
    <2>8. d = [s EXCEPT !.primary = y, !.secondary = s.secondary]
      BY <1>0, <2>2 DEF ProtoContext
    <2> QED BY <2>7, <2>8 DEF Synchronous
  <1>2. CASE Offered(c, s, l)
    <2>1. slot = "secondary" /\ m = "reset"
      BY <1>0, <1>2, NothingToSend DEF Slot, Offered, Is
    <2>2. Negotiated(c, d, l)
      BY <1>2, <2>1, ServerAnswers
    <2> QED BY <2>2 DEF Synchronous
  <1>3. CASE Negotiated(c, s, l)
    <2>0. slot = "secondary"
      BY <1>0, <1>3, NothingToSend DEF Slot, Negotiated
    <2>1. /\ Pair(c.secondary, s.secondary, l) /\ id = s.secondary.id /\ s.primary.id # id
          /\ s.secondary # NoKey /\ c.secondary \in KeyContext /\ s.secondary \in KeyContext
      BY <1>0, <1>3, <2>0, NegotiatedSlots, NegotiatedParts
    <2>2. Destination(s, id, m) = "secondary" /\ d = [s EXCEPT !.secondary = e(s.secondary)]
      BY <1>0, <2>1, ForSecondary
    <2>3. Awaits(s.secondary, m) /\ m \in c.secondary.unacked
      BY <1>0, <2>0, <2>2 DEF Hears
    <2>4. /\ Pair(c.secondary, e(s.secondary), l) /\ Moved(s.secondary, e(s.secondary))
          /\ e(s.secondary).state # "WAIT_RESET"
      BY <2>1, <2>3, ServerReceives
    <2>5. e(s.secondary) \in KeyContext
      BY <1>0, <2>1, ReceivedIsContext
    <2> DEFINE y == e(s.secondary)
    <2> HIDE DEF e
    <2>6. Negotiated(c, [s EXCEPT !.secondary = y], l)
      BY <1>0, <1>3, <2>4, <2>5, NegotiatedAtServer
    <2> QED BY <2>2, <2>6 DEF Synchronous
  <1>4. ~ClientAhead(c, s, l) /\ ~ServerAhead(c, s, l)
    BY <1>0, AheadIsSilent
  <1> QED BY <1>1, <1>2, <1>3, <1>4 DEF Synchronous

-----------------------------------------------------------------------------
(* Acknowledgements.                                                       *)

\* The message m of the context of c in the slot is acknowledged by s.
Confirmed(c, s, slot, m) ==
    LET to == Destination(s, c[slot].id, m)
    IN  /\ c[slot] # NoKey /\ c[slot].valid /\ m \in c[slot].unacked
        /\ to \in Slot /\ s[to].valid /\ HasReceived(s[to], m)

Confirm(p, c, slot, m) ==
    [c EXCEPT ![slot] = PostAckAction(p, [c[slot] EXCEPT !.unacked = @ \ {m}])]

\* A handshake with something to acknowledge is young.
LEMMA UnackedIsYoung ==
    ASSUME PromptNetwork, NEW x \in KeyContext, NEW y \in KeyContext, NEW l \in 0..MaxLag,
           Pair(x, y, l), NEW m
    PROVE  m \in x.unacked => Young(x)
  <1> SUFFICES ASSUME m \in x.unacked PROVE Young(x)
    OBVIOUS
  <1>1. ~Is(x, "ACTIVE", {})
    BY NothingToSend
  <1> QED BY <1>1, PairParts, AwaitingIsYoung DEF Shaking, Is

\* The same at the server.
LEMMA UnackedAtServer ==
    ASSUME PromptNetwork, NEW x \in KeyContext, NEW y \in KeyContext, NEW l \in 0..MaxLag,
           Pair(x, y, l), NEW m
    PROVE  m \in y.unacked => Young(y)
  <1> SUFFICES ASSUME m \in y.unacked PROVE Young(y)
    OBVIOUS
  <1>1. ~Is(y, "ACTIVE", {})
    BY NothingToSend
  <1> QED BY <1>1, PairParts, AwaitingIsYoung DEF Shaking, Is, Met, Agreed

\* ack_rcvd at the client.
LEMMA ClientConfirmed ==
    ASSUME PromptNetwork, NEW c, Good(c), NEW s, Good(s), NEW l \in 0..MaxLag,
           Synchronous(c, s, l), NEW slot \in Slot, NEW m \in Message,
           Confirmed(c, s, slot, m)
    PROVE  Synchronous(Confirm("client", c, slot, m), s, l)
  <1> DEFINE id == c[slot].id
             d == Confirm("client", c, slot, m)
             e(x) == PostAckAction("client", [x EXCEPT !.unacked = @ \ {m}])
  <1>0. /\ c \in ProtoContext /\ s \in ProtoContext /\ "client" \in Peer
        /\ Scheduled(c.primary) /\ (c.secondary # NoKey => Scheduled(c.secondary))
        /\ c[slot] # NoKey /\ m \in c[slot].unacked
        /\ c.primary \in KeyContext /\ s.primary \in KeyContext
    BY SlotFields DEF Good, Peer, Confirmed
  <1>1. CASE Together(c, s, l)
    <2>1. slot = "primary" /\ Pair(c.primary, s.primary, l) /\ id = s.primary.id
      BY <1>0, <1>1, NothingToSend DEF Slot, Together, Pair
    <2>2. Destination(s, id, m) = "primary"
      BY <1>0, <2>1, ForPrimary
    <2>3. HasReceived(s.primary, m) /\ m \in c.primary.unacked
      BY <1>0, <2>1, <2>2 DEF Confirmed
    <2>4. Pair(e(c.primary), s.primary, l) /\ Moved(c.primary, e(c.primary))
      BY <1>0, <2>1, <2>3, ClientAcked
    <2>5. e(c.primary) \in KeyContext
      BY <1>0, AckedIsContext
    <2>6. Young(c.primary)
      BY <1>0, <2>1, <2>3, UnackedIsYoung
    <2> DEFINE x == e(c.primary)
    <2>7. d = [c EXCEPT !.primary = x]
      BY <2>1 DEF Confirm
    <2> HIDE DEF e, d
    <2>8. d = [c EXCEPT !.primary = x, !.secondary = c.secondary]
      BY <1>0, <2>7 DEF ProtoContext
    <2>9. Together([c EXCEPT !.primary = x, !.secondary = c.secondary], s, l)
      BY <1>0, <1>1, <2>4, <2>5, <2>6, TogetherAtClient DEF Moved
    <2>10. Together(d, s, l)
      BY <2>8, <2>9
    <2> QED BY <2>10 DEF Synchronous, d
  <1>2. CASE Offered(c, s, l)
    <2>1. slot = "secondary" /\ m = "reset"
      BY <1>0, <1>2, NothingToSend DEF Slot, Offered, Is
    <2>2. Destination(s, id, m) = "soft_reset"
      BY <1>2, <2>1, ServerAnswers
    <2> QED BY <2>2 DEF Confirmed, Slot
  <1>3. CASE Negotiated(c, s, l)
    <2>0. slot = "secondary"
      BY <1>0, <1>3, NothingToSend DEF Slot, Negotiated
    <2>1. /\ Pair(c.secondary, s.secondary, l) /\ id = s.secondary.id /\ s.primary.id # id
          /\ s.secondary # NoKey /\ c.secondary \in KeyContext /\ s.secondary \in KeyContext
      BY <1>0, <1>3, <2>0, NegotiatedSlots, NegotiatedParts
    <2>2. Destination(s, id, m) = "secondary"
      BY <1>0, <2>1, ForSecondary
    <2>3. HasReceived(s.secondary, m) /\ m \in c.secondary.unacked
      BY <1>0, <2>0, <2>2 DEF Confirmed
    <2>4. Pair(e(c.secondary), s.secondary, l) /\ Moved(c.secondary, e(c.secondary))
      BY <2>1, <2>3, ClientAcked
    <2>5. e(c.secondary) \in KeyContext
      BY <1>0, <2>0, AckedIsContext
    <2> DEFINE x == e(c.secondary)
    <2>6. d = [c EXCEPT !.secondary = x]
      BY <2>0 DEF Confirm
    <2> HIDE DEF e, d
    <2>7. Negotiated([c EXCEPT !.secondary = x], s, l)
      BY <1>0, <1>3, <2>4, <2>5, NegotiatedAtClient
    <2>8. Negotiated(d, s, l)
      BY <2>6, <2>7
    <2> QED BY <2>8 DEF Synchronous, d
  <1>4. ~ClientAhead(c, s, l) /\ ~ServerAhead(c, s, l)
    BY <1>0, AheadIsSilent
  <1> QED BY <1>1, <1>2, <1>3, <1>4 DEF Synchronous

\* ack_rcvd at the server.
LEMMA ServerConfirmed ==
    ASSUME PromptNetwork, NEW c, Good(c), NEW s, Good(s), NEW l \in 0..MaxLag,
           Synchronous(c, s, l), NEW slot \in Slot, NEW m \in Message,
           Confirmed(s, c, slot, m)
    PROVE  Synchronous(c, Confirm("server", s, slot, m), l)
  <1> DEFINE id == s[slot].id
             d == Confirm("server", s, slot, m)
             e(y) == PostAckAction("server", [y EXCEPT !.unacked = @ \ {m}])
  <1>0. /\ c \in ProtoContext /\ s \in ProtoContext /\ "server" \in Peer
        /\ Scheduled(s.primary) /\ (s.secondary # NoKey => Scheduled(s.secondary))
        /\ s[slot] # NoKey /\ m \in s[slot].unacked
        /\ c.primary \in KeyContext /\ s.primary \in KeyContext
    BY SlotFields DEF Good, Peer, Confirmed
  <1>1. CASE Together(c, s, l)
    <2>1. slot = "primary" /\ Pair(c.primary, s.primary, l) /\ id = c.primary.id
      BY <1>0, <1>1, NothingToSend DEF Slot, Together, Pair
    <2>2. Destination(c, id, m) = "primary"
      BY <1>0, <2>1, ForPrimary
    <2>3. HasReceived(c.primary, m) /\ m \in s.primary.unacked
      BY <1>0, <2>1, <2>2 DEF Confirmed
    <2>4. Pair(c.primary, e(s.primary), l) /\ Moved(s.primary, e(s.primary))
      BY <1>0, <2>1, <2>3, ServerAcked
    <2>5. e(s.primary) \in KeyContext
      BY <1>0, AckedIsContext
    <2>6. Young(s.primary)
      BY <1>0, <2>1, <2>3, UnackedAtServer
    <2> DEFINE y == e(s.primary)
    <2>7. d = [s EXCEPT !.primary = y]
      BY <2>1 DEF Confirm
    <2> HIDE DEF e, d
    <2>8. d = [s EXCEPT !.primary = y, !.secondary = s.secondary]
      BY <1>0, <2>7 DEF ProtoContext
    <2>9. Together(c, [s EXCEPT !.primary = y, !.secondary = s.secondary], l)
      BY <1>0, <1>1, <2>4, <2>5, <2>6, TogetherAtServer DEF Moved
    <2>10. Together(c, d, l)
      BY <2>8, <2>9
    <2> QED BY <2>10 DEF Synchronous, d
  <1>2. CASE Offered(c, s, l)
    BY <1>0, <1>2, NothingToSend DEF Slot, Offered
  <1>3. CASE Negotiated(c, s, l)
    <2>0. slot = "secondary"
      BY <1>0, <1>3, NothingToSend DEF Slot, Negotiated
    <2>1. /\ Pair(c.secondary, s.secondary, l) /\ id = c.secondary.id /\ c.primary.id # id
          /\ c.secondary # NoKey /\ c.secondary \in KeyContext /\ s.secondary \in KeyContext
      BY <1>0, <1>3, <2>0, NegotiatedSlots, NegotiatedParts
    <2>2. Destination(c, id, m) = "secondary"
      BY <1>0, <2>1, ForSecondary
    <2>3. HasReceived(c.secondary, m) /\ m \in s.secondary.unacked
      BY <1>0, <2>0, <2>2 DEF Confirmed
    <2>4. /\ Pair(c.secondary, e(s.secondary), l) /\ Moved(s.secondary, e(s.secondary))
          /\ e(s.secondary).state # "WAIT_RESET"
      BY <2>1, <2>3, ServerAcked
    <2>5. e(s.secondary) \in KeyContext
      BY <1>0, <2>0, AckedIsContext
    <2> DEFINE y == e(s.secondary)
    <2>6. d = [s EXCEPT !.secondary = y]
      BY <2>0 DEF Confirm
    <2> HIDE DEF e, d
    <2>7. Negotiated(c, [s EXCEPT !.secondary = y], l)
      BY <1>0, <1>3, <2>4, <2>5, NegotiatedAtServer
    <2>8. Negotiated(c, d, l)
      BY <2>6, <2>7
    <2> QED BY <2>8 DEF Synchronous, d
  <1>4. ~ClientAhead(c, s, l) /\ ~ServerAhead(c, s, l)
    BY <1>0, AheadIsSilent
  <1> QED BY <1>1, <1>2, <1>3, <1>4 DEF Synchronous
-----------------------------------------------------------------------------
(* Time.                                                                   *)

\* A second later.
Later(c, d) ==
    /\ d.id = c.id /\ d.state = c.state /\ d.unacked = c.unacked /\ d.valid = c.valid
    /\ d.fired = c.fired /\ d.event = c.event /\ d.next = c.next
    /\ c.due > 0 => d.due = c.due - 1
    /\ c.age < MaxAge => d.age = c.age + 1

\* What the time that passes does to a context.
LEMMA AgedFields ==
    ASSUME NEW c \in KeyContext
    PROVE  Aged(c) \in KeyContext /\ Aged(c) # NoKey /\ Later(c, Aged(c))
  <1> DEFINE due == IF c.due > 0 THEN c.due - 1 ELSE 0
             age == IF c.age < MaxAge THEN c.age + 1 ELSE c.age
  <1>1. due \in Nat /\ age \in 0..MaxAge
    BY Times DEF KeyContext
  <1>2. Aged(c) = [c EXCEPT !.due = due, !.age = age]
    BY NoKeyAssumption DEF Aged
  <1>3. /\ c.due > 0 => due = c.due - 1
        /\ c.age < MaxAge => age = c.age + 1
    OBVIOUS
  <1> HIDE DEF due, age
  <1>4. Aged(c) \in KeyContext /\ Later(c, Aged(c))
    BY <1>1, <1>2, <1>3 DEF KeyContext, Later
  <1> QED BY <1>4, NoKeyAssumption

\* A clock goes on with the client's, when the handshake is no older than m.
LEMMA ClockTicks ==
    ASSUME PromptNetwork, NEW c \in KeyContext, NEW age \in Nat, NEW t \in Nat,
           NEW l \in 0..MaxLag, Clock(c, age, t, l), Quiet(c), c.age < MaxAge,
           NEW m \in 0..MaxLag, c.state # "ACTIVE" => m = l + 1,
           NEW d \in KeyContext, Later(c, d)
    PROVE  Clock(d, age + 1, t, m) /\ d.age = c.age + 1
  <1>1. /\ c.event = "NONE" /\ c.due > 0 /\ c.due \in Nat /\ c.age \in Nat
        /\ d.due \in Nat /\ d.age \in Nat
    BY Fields DEF Clock, Quiet, Due
  <1>2. /\ d.state = c.state /\ d.event = "NONE" /\ d.next = c.next
        /\ d.due = c.due - 1 /\ d.age = c.age + 1
    BY <1>1 DEF Later
  <1>3. d.age + d.due = c.age + c.due /\ age + 1 + d.due = age + c.due
    BY <1>1, <1>2
  <1>4. CASE c.next = "NEGOTIATE"
    <2>1. c.state # "ACTIVE" /\ age <= l /\ c.age + c.due = HandshakeWindow /\ m = l + 1
      BY <1>4 DEF Clock
    <2>2. age + 1 <= m
      BY <2>1
    <2> QED BY <1>2, <1>3, <1>4, <2>1, <2>2 DEF Clock
  <1>5. CASE c.next = "BECOME_PRIMARY"
    <2>1. /\ c.state = "ACTIVE"
          /\ BecomePrimary <= age + c.due /\ age + c.due <= BecomePrimary + MaxLag
      BY <1>5 DEF Clock
    <2>2. BecomePrimary <= age + 1 + d.due /\ age + 1 + d.due <= BecomePrimary + MaxLag
      BY <1>3, <2>1
    <2> QED BY <1>2, <1>5, <2>1, <2>2 DEF Clock
  <1>6. CASE c.next = "RENEGOTIATE"
    <2>1. c.state = "ACTIVE" /\ BecomePrimary <= age /\ c.age + c.due = t
      BY <1>6 DEF Clock
    <2>2. BecomePrimary <= age + 1
      BY <2>1, Delays
    <2> QED BY <1>2, <1>3, <1>6, <2>1, <2>2 DEF Clock
  <1> QED BY <1>4, <1>5, <1>6 DEF Clock

\* So do those of a pair.
LEMMA PairTicks ==
    ASSUME PromptNetwork, NEW x \in KeyContext, NEW y \in KeyContext, NEW l \in 0..MaxLag,
           Pair(x, y, l), Quiet(x), Quiet(y), NEW m \in 0..MaxLag,
           x.state # "ACTIVE" \/ y.state # "ACTIVE" => m = l + 1,
           NEW d \in KeyContext, Later(x, d), NEW e \in KeyContext, Later(y, e)
    PROVE  Pair(d, e, m) /\ d.age = x.age + 1
  <1>1. /\ x.age \in Nat /\ y.age \in Nat /\ x.age <= Renegotiate /\ y.age <= x.age
        /\ Renegotiate \in Nat /\ Renegotiate + HandshakeWindow \in Nat
    BY Timely, Delays, Fields DEF Pair
  <1>2. x.age < MaxAge /\ y.age < MaxAge
    BY <1>1, Delays
  <1>3. Clock(x, x.age, Renegotiate, l) /\ Clock(y, x.age, Renegotiate + HandshakeWindow, l)
    BY DEF Pair
  <1>4. Clock(d, x.age + 1, Renegotiate, m) /\ d.age = x.age + 1
    BY <1>1, <1>2, <1>3, ClockTicks
  <1>5. Clock(e, x.age + 1, Renegotiate + HandshakeWindow, m) /\ e.age = y.age + 1
    BY <1>1, <1>2, <1>3, ClockTicks
  <1>6. Shaking(d, e)
    BY PairParts, SameShaking DEF Later
  <1>7. e.age <= d.age
    BY <1>1, <1>4, <1>5
  <1> QED BY <1>4, <1>5, <1>6, <1>7 DEF Pair, Later

\* The old keys grow older with the new one.
LEMMA OldTicks ==
    ASSUME PromptNetwork, NEW x \in KeyContext, NEW l \in 0..MaxLag,
           x.age <= BecomePrimary + MaxLag, NEW d, d.age = x.age + 1,
           NEW o \in KeyContext, Quiet(o), NEW e \in KeyContext, Later(o, e),
           NEW m \in 0..MaxLag
    PROVE  /\ OldClient(o, x) => OldClient(e, d)
           /\ OldServer(o, x, l) /\ (o.next = "RENEGOTIATE" => m = l + 1) => OldServer(e, d, m)
  <1>1. x.age \in Nat /\ o.age \in Nat /\ o.due \in Nat
    BY Fields
  <1>2. ASSUME Settled(o), o.next # "NONE", o.age <= Renegotiate + x.age
        PROVE  Settled(e) /\ e.next = o.next /\ e.age = o.age + 1 /\ e.due = o.due - 1
    <2>1. o.age < MaxAge
      BY <1>1, <1>2, Delays
    <2>2. o.due > 0
      BY <1>1, <1>2 DEF Quiet, Due
    <2> QED BY <1>2, <2>1, <2>2 DEF Later, Settled, Is
  <1>3. ASSUME OldClient(o, x) PROVE OldClient(e, d)
    <2>1. /\ Settled(o) /\ o.next = "EXPIRE" /\ o.age = Renegotiate + x.age
          /\ o.age + o.due = Expire
      BY <1>3 DEF OldClient
    <2>2. o.age <= Renegotiate + x.age
      BY <1>1, <2>1
    <2>3. Settled(e) /\ e.next = "EXPIRE" /\ e.age = o.age + 1 /\ e.due = o.due - 1
      BY <1>2, <2>1, <2>2
    <2>4. e.age = Renegotiate + d.age /\ e.age + e.due = Expire
      BY <1>1, <2>1, <2>3, Delays
    <2> QED BY <2>3, <2>4 DEF OldClient
  <1>4. ASSUME OldServer(o, x, l), o.next = "RENEGOTIATE" => m = l + 1
        PROVE  OldServer(e, d, m)
    <2>1. /\ Settled(o) /\ o.next # "NONE" /\ o.age <= Renegotiate + x.age
          /\ \/ /\ o.next = "RENEGOTIATE" /\ x.age <= l
                /\ o.age + o.due = Renegotiate + HandshakeWindow
             \/ o.next = "EXPIRE" /\ o.age + o.due = Expire
      BY <1>4 DEF OldServer
    <2>2. Settled(e) /\ e.next = o.next /\ e.age = o.age + 1 /\ e.due = o.due - 1
      BY <1>2, <2>1
    <2>3. e.age + e.due = o.age + o.due /\ e.age <= Renegotiate + d.age
      BY <1>1, <2>1, <2>2, Delays
    <2>4. o.next = "RENEGOTIATE" => d.age <= m
      BY <1>1, <1>4, <2>1
    <2> QED BY <2>1, <2>2, <2>3, <2>4 DEF OldServer
  <1> QED BY <1>3, <1>4

\* What is left waits to expire.
LEMMA LeftTicks ==
    ASSUME NEW o, o # NoKey => o \in KeyContext, NEW ids, Left(o, ids)
    PROVE  Left(Aged(o), ids)
  <1>1. CASE o = NoKey
    BY <1>1 DEF Left, Aged
  <1>2. CASE o # NoKey
    <2>1. o \in KeyContext /\ Later(o, Aged(o))
      BY <1>2, AgedFields
    <2> QED BY <1>2, <2>1 DEF Left, Later, Settled, Is
  <1> QED BY <1>1, <1>2

\* A message or an acknowledgement is on the way.
InFlight(c, s) ==
    \E slot \in Slot, m \in Message :
        \/ Hears(c, s, slot, m) \/ Hears(s, c, slot, m)
        \/ Confirmed(c, s, slot, m) \/ Confirmed(s, c, slot, m)

\* A second goes by for a ProtoContext, and no event is due in it.
Elapsed(c) == [c EXCEPT !.primary = Aged(@), !.secondary = Aged(@)]

Still(c) == Quiet(c.primary) /\ (c.secondary # NoKey => Quiet(c.secondary))

\* The parts of a ProtoContext a second later.
LEMMA ElapsedFields ==
    ASSUME NEW c \in ProtoContext
    PROVE  /\ Elapsed(c).primary = Aged(c.primary) /\ Elapsed(c).secondary = Aged(c.secondary)
           /\ Elapsed(c).upcoming = c.upcoming
           /\ Aged(c.primary) \in KeyContext /\ Later(c.primary, Aged(c.primary))
           /\ c.secondary # NoKey => /\ Aged(c.secondary) \in KeyContext
                                     /\ Aged(c.secondary) # NoKey
                                     /\ Later(c.secondary, Aged(c.secondary))
  <1>1. /\ Elapsed(c).primary = Aged(c.primary) /\ Elapsed(c).secondary = Aged(c.secondary)
        /\ Elapsed(c).upcoming = c.upcoming
    BY DEF Elapsed, ProtoContext
  <1> QED BY <1>1, SlotFields, AgedFields

\* A handshake that is not over, of which the peers have the contexts in slots
\* where its packets find them.
LEMMA HandshakeInFlight ==
    ASSUME NEW c, NEW s, NEW sc \in Slot, NEW ss \in Slot,
           c[sc] # NoKey, s[ss] # NoKey, c[sc].valid, s[ss].valid, Shaking(c[sc], s[ss]),
           \A m : Destination(c, s[ss].id, m) = sc, \A m : Destination(s, c[sc].id, m) = ss,
           c[sc].state # "ACTIVE" \/ s[ss].state # "ACTIVE"
    PROVE  InFlight(c, s)
  <1>1. PICK m \in Message :
            \/ m \in c[sc].unacked /\ (Awaits(s[ss], m) \/ HasReceived(s[ss], m))
            \/ m \in s[ss].unacked /\ (Awaits(c[sc], m) \/ HasReceived(c[sc], m))
    BY HandshakeGoesOn
  <1>2. \/ Hears(s, c, sc, m) \/ Confirmed(c, s, sc, m)
        \/ Hears(c, s, ss, m) \/ Confirmed(s, c, ss, m)
    BY <1>1 DEF Hears, Confirmed
  <1> QED BY <1>2 DEF InFlight

\* Time passes while both are at the same key.
LEMMA TogetherTicks ==
    ASSUME PromptNetwork, NEW c \in ProtoContext, NEW s \in ProtoContext, NEW l \in 0..MaxLag,
           Together(c, s, l), Still(c), Still(s),
           NEW m \in 0..MaxLag, InFlight(c, s) => m = l + 1
    PROVE  Synchronous(Elapsed(c), Elapsed(s), m)
  <1> DEFINE x == c.primary
             y == s.primary
             d == Elapsed(c)
             e == Elapsed(s)
             ids == {x.id, NextKeyId(x.id)}
  <1>1. /\ x \in KeyContext /\ y \in KeyContext /\ x # NoKey /\ y # NoKey /\ Quiet(x) /\ Quiet(y)
        /\ c.secondary # NoKey => c.secondary \in KeyContext
        /\ s.secondary # NoKey => s.secondary \in KeyContext
    BY SlotFields DEF Still
  <1>2. /\ Pair(x, y, l) /\ (Young(x) \/ Young(y) => x.id = 0)
        /\ c.upcoming = NextKeyId(x.id) /\ s.upcoming = NextKeyId(x.id)
        /\ Left(c.secondary, ids) /\ Left(s.secondary, ids)
    BY DEF Together
  <1>3. /\ x.valid /\ y.valid /\ x.id = y.id /\ Shaking(x, y)
    BY <1>2 DEF Pair
  <1>4. x.state # "ACTIVE" \/ y.state # "ACTIVE" => m = l + 1
    <2>1. ASSUME x.state # "ACTIVE" \/ y.state # "ACTIVE" PROVE InFlight(c, s)
      <3>1. /\ \A n : Destination(c, y.id, n) = "primary"
            /\ \A n : Destination(s, x.id, n) = "primary"
        BY <1>3, ForPrimary
      <3>2. "primary" \in Slot
        BY DEF Slot
      <3> QED BY <1>1, <1>3, <2>1, <3>1, <3>2, HandshakeInFlight
    <2> QED BY <2>1
  <1>5. /\ d.primary = Aged(x) /\ d.upcoming = c.upcoming /\ d.secondary = Aged(c.secondary)
        /\ e.primary = Aged(y) /\ e.upcoming = s.upcoming /\ e.secondary = Aged(s.secondary)
        /\ Aged(x) \in KeyContext /\ Later(x, Aged(x))
        /\ Aged(y) \in KeyContext /\ Later(y, Aged(y))
    BY ElapsedFields
  <1>6. Pair(Aged(x), Aged(y), m)
    BY <1>1, <1>2, <1>4, <1>5, PairTicks
  <1>7. Left(Aged(c.secondary), ids) /\ Left(Aged(s.secondary), ids)
    BY <1>1, <1>2, LeftTicks
  <1>8. Aged(x).id = x.id /\ Aged(x).next = x.next /\ Aged(y).next = y.next
    BY <1>5 DEF Later
  <1> HIDE DEF d, e
  <1>9. Together(d, e, m)
    BY <1>2, <1>5, <1>6, <1>7, <1>8 DEF Together, Young
  <1> QED BY <1>9 DEF Synchronous, d, e

\* While the client's offer is on its way.
LEMMA OfferedTicks ==
    ASSUME PromptNetwork, NEW c, Good(c), NEW s, Good(s), NEW l \in 0..MaxLag,
           Offered(c, s, l), Still(c), Still(s),
           NEW m \in 0..MaxLag, InFlight(c, s) => m = l + 1
    PROVE  Synchronous(Elapsed(c), Elapsed(s), m)
  <1> DEFINE x == c.secondary
             k == c.primary.id
             d == Elapsed(c)
             e == Elapsed(s)
             ids == {k, x.id}
  <1>1. /\ c \in ProtoContext /\ s \in ProtoContext /\ x \in KeyContext /\ x # NoKey
        /\ c.primary \in KeyContext /\ s.primary \in KeyContext
        /\ Quiet(x) /\ Quiet(c.primary) /\ Quiet(s.primary)
        /\ s.secondary # NoKey => s.secondary \in KeyContext
    BY SlotFields DEF Still, Good, Offered
  <1>2. /\ x.valid /\ ~x.fired /\ Is(x, "WAIT_RESET", {"reset"}) /\ x.next = "NEGOTIATE"
        /\ Clock(x, x.age, Renegotiate, l)
        /\ OldClient(c.primary, x) /\ OldServer(s.primary, x, l)
        /\ s.primary.next = "RENEGOTIATE"
        /\ s.primary.id = k /\ x.id = NextKeyId(k)
        /\ s.upcoming = x.id /\ c.upcoming = NextKeyId(x.id)
        /\ Left(s.secondary, ids)
    BY DEF Offered
  <1>3. m = l + 1
    <2>1. Destination(s, x.id, "reset") = "soft_reset"
      BY ServerAnswers
    <2>2. Hears(s, c, "secondary", "reset")
      BY <1>1, <1>2, <2>1 DEF Hears, Is
    <2>3. "secondary" \in Slot /\ "reset" \in Message
      BY DEF Slot, Message
    <2> QED BY <2>2, <2>3 DEF InFlight
  <1>4. /\ d.primary = Aged(c.primary) /\ d.upcoming = c.upcoming /\ d.secondary = Aged(x)
        /\ e.primary = Aged(s.primary) /\ e.upcoming = s.upcoming /\ e.secondary = Aged(s.secondary)
        /\ Aged(x) \in KeyContext /\ Aged(x) # NoKey /\ Later(x, Aged(x))
        /\ Aged(c.primary) \in KeyContext /\ Later(c.primary, Aged(c.primary))
        /\ Aged(s.primary) \in KeyContext /\ Later(s.primary, Aged(s.primary))
    BY <1>1, ElapsedFields
  <1>5. x.age \in Nat /\ x.age <= BecomePrimary + MaxLag /\ x.age < MaxAge /\ Renegotiate \in Nat
    <2>1. x.age \in Nat /\ Renegotiate \in Nat
      BY <1>1, Fields, Delays
    <2>2. x.age <= BecomePrimary + MaxLag
      BY <1>1, <1>2, <2>1, YoungIsEarly DEF Young
    <2> QED BY <2>1, <2>2, Delays
  <1>6. Clock(Aged(x), x.age + 1, Renegotiate, m) /\ Aged(x).age = x.age + 1
    BY <1>1, <1>2, <1>3, <1>4, <1>5, ClockTicks
  <1>7. OldClient(Aged(c.primary), Aged(x)) /\ OldServer(Aged(s.primary), Aged(x), m)
    BY <1>1, <1>2, <1>3, <1>4, <1>5, <1>6, OldTicks
  <1>8. Left(Aged(s.secondary), ids)
    BY <1>1, <1>2, LeftTicks
  <1>9. /\ Aged(x).id = x.id /\ Aged(x).next = x.next /\ Aged(x).valid = x.valid
        /\ Aged(x).fired = x.fired /\ Is(Aged(x), "WAIT_RESET", {"reset"})
        /\ Aged(c.primary).id = c.primary.id /\ Aged(s.primary).id = s.primary.id
        /\ Aged(s.primary).next = s.primary.next
    BY <1>2, <1>4 DEF Later, Is
  <1> HIDE DEF d, e
  <1>10. Offered(d, e, m)
    BY <1>2, <1>4, <1>6, <1>7, <1>8, <1>9 DEF Offered
  <1> QED BY <1>10 DEF Synchronous, d, e

\* While the new key is negotiated, or waits at both ends: the server's own
\* renegotiation is put off before its time comes.
LEMMA NegotiatedTicks ==
    ASSUME PromptNetwork, NEW c \in ProtoContext, NEW s \in ProtoContext, NEW l \in 0..MaxLag,
           Negotiated(c, s, l), Still(c), Still(s),
           NEW m \in 0..MaxLag, InFlight(c, s) => m = l + 1
    PROVE  Synchronous(Elapsed(c), Elapsed(s), m)
  <1> DEFINE x == c.secondary
             y == s.secondary
             k == c.primary.id
             d == Elapsed(c)
             e == Elapsed(s)
  <1>1. /\ x \in KeyContext /\ y \in KeyContext /\ x # NoKey /\ y # NoKey
        /\ c.primary \in KeyContext /\ s.primary \in KeyContext
        /\ Quiet(x) /\ Quiet(y) /\ Quiet(c.primary) /\ Quiet(s.primary)
        /\ x.age <= BecomePrimary + MaxLag
    BY NegotiatedParts, NegotiatedSlots DEF Still
  <1>2. /\ Pair(x, y, l) /\ Young(x) /\ Young(y) /\ y.state # "WAIT_RESET"
        /\ OldClient(c.primary, x) /\ OldServer(s.primary, x, l)
        /\ y.next = "BECOME_PRIMARY" /\ y.event = "NONE" => s.primary.next = "EXPIRE"
        /\ s.primary.id = k /\ x.id = NextKeyId(k)
        /\ s.upcoming = NextKeyId(x.id) /\ c.upcoming = NextKeyId(x.id)
    BY DEF Negotiated
  <1>3. /\ x.valid /\ y.valid /\ y.id = x.id /\ c.primary.id # x.id /\ s.primary.id # x.id
        /\ Shaking(x, y) /\ Clock(y, x.age, Renegotiate + HandshakeWindow, l)
    BY <1>2, NegotiatedSlots DEF Pair
  <1>4. x.state # "ACTIVE" \/ y.state # "ACTIVE" => m = l + 1
    <2>1. ASSUME x.state # "ACTIVE" \/ y.state # "ACTIVE" PROVE InFlight(c, s)
      <3>1. /\ \A n : Destination(c, y.id, n) = "secondary"
            /\ \A n : Destination(s, x.id, n) = "secondary"
        BY <1>1, <1>3, ForSecondary
      <3>2. "secondary" \in Slot
        BY DEF Slot
      <3> QED BY <1>1, <1>3, <2>1, <3>1, <3>2, HandshakeInFlight
    <2> QED BY <2>1
  <1>5. s.primary.next = "RENEGOTIATE" => m = l + 1
    <2>1. ASSUME s.primary.next = "RENEGOTIATE" PROVE y.state # "ACTIVE"
      <3>1. y.event = "NONE"
        BY <1>1 DEF Quiet
      <3>2. y.next = "NEGOTIATE"
        BY <1>2, <2>1, <3>1 DEF Young
      <3> QED BY <1>3, <3>2 DEF Clock
    <2> QED BY <1>4, <2>1
  <1>6. /\ d.primary = Aged(c.primary) /\ d.upcoming = c.upcoming /\ d.secondary = Aged(x)
        /\ e.primary = Aged(s.primary) /\ e.upcoming = s.upcoming /\ e.secondary = Aged(y)
        /\ Aged(x) \in KeyContext /\ Aged(x) # NoKey /\ Later(x, Aged(x))
        /\ Aged(y) \in KeyContext /\ Aged(y) # NoKey /\ Later(y, Aged(y))
        /\ Aged(c.primary) \in KeyContext /\ Later(c.primary, Aged(c.primary))
        /\ Aged(s.primary) \in KeyContext /\ Later(s.primary, Aged(s.primary))
    BY <1>1, ElapsedFields
  <1>7. Pair(Aged(x), Aged(y), m) /\ Aged(x).age = x.age + 1
    BY <1>1, <1>2, <1>4, <1>6, PairTicks
  <1>8. OldClient(Aged(c.primary), Aged(x)) /\ OldServer(Aged(s.primary), Aged(x), m)
    BY <1>1, <1>2, <1>5, <1>6, <1>7, OldTicks
  <1>9. /\ Aged(x).id = x.id /\ Aged(x).next = x.next /\ Aged(y).next = y.next
        /\ Aged(y).event = y.event /\ Aged(y).state = y.state
        /\ Aged(c.primary).id = c.primary.id /\ Aged(s.primary).id = s.primary.id
        /\ Aged(s.primary).next = s.primary.next
    BY <1>6 DEF Later
  <1> HIDE DEF d, e
  <1>10. Negotiated(d, e, m)
    BY <1>2, <1>6, <1>7, <1>8, <1>9 DEF Negotiated, Young
  <1> QED BY <1>10 DEF Synchronous, d, e

\* While one has turned and the other has not.
LEMMA ClientAheadTicks ==
    ASSUME PromptNetwork, NEW c \in ProtoContext, NEW s \in ProtoContext, NEW l \in 0..MaxLag,
           ClientAhead(c, s, l), Still(c), Still(s), NEW m \in 0..MaxLag
    PROVE  Synchronous(Elapsed(c), Elapsed(s), m)
  <1> DEFINE x == c.primary
             y == s.secondary
             o == c.secondary
             q == s.primary
             d == Elapsed(c)
             e == Elapsed(s)
  <1>1. /\ Pair(x, y, l) /\ ~Young(x) /\ Young(y) /\ y.event = "NONE"
        /\ y # NoKey /\ o # NoKey /\ OldClient(o, x)
        /\ OldServer(q, x, l) /\ q.next = "EXPIRE"
        /\ o.id = q.id /\ x.id = NextKeyId(q.id)
        /\ s.upcoming = NextKeyId(x.id) /\ c.upcoming = NextKeyId(x.id)
    BY DEF ClientAhead
  <1>2. /\ x \in KeyContext /\ y \in KeyContext /\ o \in KeyContext /\ q \in KeyContext
        /\ Quiet(x) /\ Quiet(y) /\ Quiet(o) /\ Quiet(q)
    BY <1>1, SlotFields DEF Still
  <1>3. x.state = "ACTIVE" /\ y.state = "ACTIVE" /\ x.age <= BecomePrimary + MaxLag
    BY <1>1, <1>2, TurnedIsOld, LongAgreed, Timely DEF Is
  <1>4. /\ d.primary = Aged(x) /\ d.upcoming = c.upcoming /\ d.secondary = Aged(o)
        /\ e.primary = Aged(q) /\ e.upcoming = s.upcoming /\ e.secondary = Aged(y)
        /\ Aged(x) \in KeyContext /\ Later(x, Aged(x))
        /\ Aged(y) \in KeyContext /\ Aged(y) # NoKey /\ Later(y, Aged(y))
        /\ Aged(o) \in KeyContext /\ Aged(o) # NoKey /\ Later(o, Aged(o))
        /\ Aged(q) \in KeyContext /\ Later(q, Aged(q))
    BY <1>1, <1>2, ElapsedFields
  <1>5. Pair(Aged(x), Aged(y), m) /\ Aged(x).age = x.age + 1
    BY <1>1, <1>2, <1>3, <1>4, PairTicks
  <1>6. OldClient(Aged(o), Aged(x)) /\ OldServer(Aged(q), Aged(x), m)
    BY <1>1, <1>2, <1>3, <1>4, <1>5, OldTicks
  <1>7. /\ Aged(x).id = x.id /\ Aged(x).next = x.next
        /\ Aged(y).next = y.next /\ Aged(y).event = y.event
        /\ Aged(o).id = o.id /\ Aged(q).id = q.id /\ Aged(q).next = q.next
    BY <1>4 DEF Later
  <1> HIDE DEF d, e
  <1>8. ClientAhead(d, e, m)
    BY <1>1, <1>4, <1>5, <1>6, <1>7 DEF ClientAhead, Young
  <1> QED BY <1>8 DEF Synchronous, d, e

\* The other way round.
LEMMA ServerAheadTicks ==
    ASSUME PromptNetwork, NEW c \in ProtoContext, NEW s \in ProtoContext, NEW l \in 0..MaxLag,
           ServerAhead(c, s, l), Still(c), Still(s), NEW m \in 0..MaxLag
    PROVE  Synchronous(Elapsed(c), Elapsed(s), m)
  <1> DEFINE x == c.secondary
             y == s.primary
             o == c.primary
             q == s.secondary
             d == Elapsed(c)
             e == Elapsed(s)
  <1>1. /\ Pair(x, y, l) /\ Young(x) /\ ~Young(y) /\ x.event = "NONE"
        /\ x # NoKey /\ q # NoKey /\ OldClient(o, x)
        /\ OldServer(q, x, l) /\ q.next = "EXPIRE"
        /\ q.id = o.id /\ x.id = NextKeyId(o.id)
        /\ s.upcoming = NextKeyId(x.id) /\ c.upcoming = NextKeyId(x.id)
    BY DEF ServerAhead
  <1>2. /\ x \in KeyContext /\ y \in KeyContext /\ o \in KeyContext /\ q \in KeyContext
        /\ Quiet(x) /\ Quiet(y) /\ Quiet(o) /\ Quiet(q)
    BY <1>1, SlotFields DEF Still
  <1>3. x.state = "ACTIVE" /\ y.state = "ACTIVE" /\ x.age <= BecomePrimary + MaxLag
    BY <1>1, <1>2, TurnedIsOld, LongAgreed, Timely DEF Is
  <1>4. /\ d.primary = Aged(o) /\ d.upcoming = c.upcoming /\ d.secondary = Aged(x)
        /\ e.primary = Aged(y) /\ e.upcoming = s.upcoming /\ e.secondary = Aged(q)
        /\ Aged(x) \in KeyContext /\ Aged(x) # NoKey /\ Later(x, Aged(x))
        /\ Aged(y) \in KeyContext /\ Later(y, Aged(y))
        /\ Aged(o) \in KeyContext /\ Later(o, Aged(o))
        /\ Aged(q) \in KeyContext /\ Aged(q) # NoKey /\ Later(q, Aged(q))
    BY <1>1, <1>2, ElapsedFields
  <1>5. Pair(Aged(x), Aged(y), m) /\ Aged(x).age = x.age + 1
    BY <1>1, <1>2, <1>3, <1>4, PairTicks
  <1>6. OldClient(Aged(o), Aged(x)) /\ OldServer(Aged(q), Aged(x), m)
    BY <1>1, <1>2, <1>3, <1>4, <1>5, OldTicks
  <1>7. /\ Aged(x).id = x.id /\ Aged(x).next = x.next /\ Aged(x).event = x.event
        /\ Aged(y).next = y.next
        /\ Aged(o).id = o.id /\ Aged(q).id = q.id /\ Aged(q).next = q.next
    BY <1>4 DEF Later
  <1> HIDE DEF d, e
  <1>8. ServerAhead(d, e, m)
    BY <1>1, <1>4, <1>5, <1>6, <1>7 DEF ServerAhead, Young
  <1> QED BY <1>8 DEF Synchronous, d, e

-----------------------------------------------------------------------------
(* The invariant: the peers are synchronous in every state.                *)

\* No session has ended.
LEMMA NobodyIsOver ==
    ASSUME NEW c, NEW s, NEW l, Synchronous(c, s, l)
    PROVE  c.primary.valid /\ s.primary.valid
  BY DEF Synchronous, Together, Offered, Negotiated, ClientAhead, ServerAhead, Pair,
         OldClient, OldServer, Settled

\* The parts of a state that the lemmas above are about.
LEMMA Peers ==
    ASSUME IInv, SInv
    PROVE  /\ proto \in [Peer -> ProtoContext] /\ lag \in 0..MaxLag
           /\ Good(proto["client"]) /\ Good(proto["server"])
           /\ proto["client"] \in ProtoContext /\ proto["server"] \in ProtoContext
           /\ Synchronous(proto["client"], proto["server"], lag)
           /\ \A p \in Peer : ~Over(p)
  <1>1. /\ proto \in [Peer -> ProtoContext] /\ lag \in 0..MaxLag
        /\ Good(proto["client"]) /\ Good(proto["server"])
        /\ Synchronous(proto["client"], proto["server"], lag)
    BY DEF IInv, TypeOK, Peer, SInv
  <1>2. proto["client"].primary.valid /\ proto["server"].primary.valid
    BY <1>1, NobodyIsOver
  <1> QED BY <1>1, <1>2 DEF Over, Peer, Good

\* Only one peer changes.
LEMMA ClientChanges ==
    ASSUME proto \in [Peer -> ProtoContext], NEW d, Synchronous(d, proto["server"], lag),
           proto' = [proto EXCEPT !["client"] = d], UNCHANGED lag
    PROVE  SInv'
  <1>1. proto'["client"] = d /\ proto'["server"] = proto["server"]
    BY DEF Peer
  <1> QED BY <1>1 DEF SInv

\* The other.
LEMMA ServerChanges ==
    ASSUME proto \in [Peer -> ProtoContext], NEW d, Synchronous(proto["client"], d, lag),
           proto' = [proto EXCEPT !["server"] = d], UNCHANGED lag
    PROVE  SInv'
  <1>1. proto'["server"] = d /\ proto'["client"] = proto["client"]
    BY DEF Peer
  <1> QED BY <1>1 DEF SInv

\* A message arrives.
LEMMA ReceiveSync ==
    ASSUME PromptNetwork, IInv, SInv, NEW p \in Peer, NEW slot \in Slot, NEW m \in Message,
           Receive(p, slot, m)
    PROVE  SInv'
  <1> DEFINE c == proto["client"]
             s == proto["server"]
  <1>1. /\ proto \in [Peer -> ProtoContext] /\ lag \in 0..MaxLag /\ Good(c) /\ Good(s)
        /\ Synchronous(c, s, lag)
    BY Peers
  <1>2. /\ Hears(proto[p], proto[Other(p)], slot, m) /\ UNCHANGED lag
        /\ proto' = [proto EXCEPT ![p] =
                        AfterMessage(p, proto[p], proto[Other(p)][slot].id, m)]
    BY <1>1 DEF Receive, CanReceive, Lives, Accepts, Hears
  <1>3. CASE p = "client"
    <2>1. Other(p) = "server"
      BY <1>3 DEF Other
    <2>2. Hears(c, s, slot, m)
      BY <1>2, <1>3, <2>1
    <2>3. Synchronous(AfterMessage("client", c, s[slot].id, m), s, lag)
      <3> HIDE DEF c, s
      <3> QED BY <1>1, <2>2, ClientHears
    <2>4. proto' = [proto EXCEPT !["client"] = AfterMessage("client", c, s[slot].id, m)]
      BY <1>2, <1>3, <2>1
    <2> QED BY <1>1, <1>2, <2>3, <2>4, ClientChanges
  <1>4. CASE p = "server"
    <2>1. Other(p) = "client"
      BY <1>4 DEF Other
    <2>2. Hears(s, c, slot, m)
      BY <1>2, <1>4, <2>1
    <2>3. Synchronous(c, AfterMessage("server", s, c[slot].id, m), lag)
      <3> HIDE DEF c, s
      <3> QED BY <1>1, <2>2, ServerHears
    <2>4. proto' = [proto EXCEPT !["server"] = AfterMessage("server", s, c[slot].id, m)]
      BY <1>2, <1>4, <2>1
    <2> QED BY <1>1, <1>2, <2>3, <2>4, ServerChanges
  <1> QED BY <1>3, <1>4 DEF Peer

\* An acknowledgement arrives.
LEMMA AckedSync ==
    ASSUME PromptNetwork, IInv, SInv, NEW p \in Peer, NEW slot \in Slot, NEW m \in Message,
           Acked(p, slot, m)
    PROVE  SInv'
  <1> DEFINE c == proto["client"]
             s == proto["server"]
  <1>1. /\ proto \in [Peer -> ProtoContext] /\ lag \in 0..MaxLag /\ Good(c) /\ Good(s)
        /\ Synchronous(c, s, lag)
    BY Peers
  <1>2. /\ Confirmed(proto[p], proto[Other(p)], slot, m) /\ UNCHANGED lag
        /\ proto' = [proto EXCEPT ![p][slot] =
                        PostAckAction(p, [proto[p][slot] EXCEPT !.unacked = @ \ {m}])]
    BY DEF Acked, CanBeAcked, Lives, Confirmed
  <1>3. proto' = [proto EXCEPT ![p] = Confirm(p, proto[p], slot, m)]
    <2> DEFINE a == PostAckAction(p, [proto[p][slot] EXCEPT !.unacked = @ \ {m}])
    <2>1. proto' = [proto EXCEPT ![p][slot] = a]
      BY <1>2
    <2>2. Confirm(p, proto[p], slot, m) = [proto[p] EXCEPT ![slot] = a]
      BY DEF Confirm
    <2> HIDE DEF a
    <2>3. proto' = [proto EXCEPT ![p] = [proto[p] EXCEPT ![slot] = a]]
      BY <2>1
    <2> QED BY <2>2, <2>3
  <1>4. CASE p = "client"
    <2>1. Other(p) = "server"
      BY <1>4 DEF Other
    <2>2. Confirmed(c, s, slot, m)
      BY <1>2, <1>4, <2>1
    <2>3. Synchronous(Confirm("client", c, slot, m), s, lag)
      <3> HIDE DEF c, s
      <3> QED BY <1>1, <2>2, ClientConfirmed
    <2>4. proto' = [proto EXCEPT !["client"] = Confirm("client", c, slot, m)]
      BY <1>3, <1>4
    <2> QED BY <1>1, <1>2, <2>3, <2>4, ClientChanges
  <1>5. CASE p = "server"
    <2>1. Other(p) = "client"
      BY <1>5 DEF Other
    <2>2. Confirmed(s, c, slot, m)
      BY <1>2, <1>5, <2>1
    <2>3. Synchronous(c, Confirm("server", s, slot, m), lag)
      <3> HIDE DEF c, s
      <3> QED BY <1>1, <2>2, ServerConfirmed
    <2>4. proto' = [proto EXCEPT !["server"] = Confirm("server", s, slot, m)]
      BY <1>3, <1>5
    <2> QED BY <1>1, <1>2, <2>3, <2>4, ServerChanges
  <1> QED BY <1>4, <1>5 DEF Peer

\* Events are processed.
LEMMA ProcessEventsSync ==
    ASSUME PromptNetwork, IInv, SInv, NEW p \in Peer, ProcessEvents(p)
    PROVE  SInv'
  <1> DEFINE c == proto["client"]
             s == proto["server"]
             d(q) == ProcessSecondaryEvent(q, ProcessPrimaryEvent(q, proto[q]))
  <1>1. /\ proto \in [Peer -> ProtoContext] /\ lag \in 0..MaxLag
        /\ c \in ProtoContext /\ s \in ProtoContext /\ Synchronous(c, s, lag)
    BY Peers
  <1>2. proto' = [proto EXCEPT ![p] = d(p)] /\ UNCHANGED lag
    BY DEF ProcessEvents
  <1>3. Synchronous(d("client"), s, lag) /\ Synchronous(c, d("server"), lag)
    <2> HIDE DEF c, s
    <2>1. CASE Together(c, s, lag)
      BY <1>1, <2>1, TogetherClientEvents, TogetherServerEvents DEF c, s
    <2>2. CASE Offered(c, s, lag)
      BY <1>1, <2>2, OfferedClientEvents, OfferedServerEvents DEF c, s
    <2>3. CASE Negotiated(c, s, lag)
      BY <1>1, <2>3, NegotiatedClientEvents, NegotiatedServerEvents DEF c, s
    <2>4. CASE ClientAhead(c, s, lag)
      BY <1>1, <2>4, ClientAheadEvents DEF c, s
    <2>5. CASE ServerAhead(c, s, lag)
      BY <1>1, <2>5, ServerAheadEvents DEF c, s
    <2> QED BY <1>1, <2>1, <2>2, <2>3, <2>4, <2>5 DEF Synchronous
  <1> HIDE DEF d
  <1>4. CASE p = "client"
    BY <1>1, <1>2, <1>3, <1>4, ClientChanges
  <1>5. CASE p = "server"
    BY <1>1, <1>2, <1>3, <1>5, ServerChanges
  <1> QED BY <1>4, <1>5 DEF Peer

\* What is on its way is withheld when time passes.
LEMMA InFlightIsWithheld ==
    ASSUME \A p \in Peer : ~Over(p), InFlight(proto["client"], proto["server"])
    PROVE  Withheld
  <1> DEFINE c == proto["client"]
             s == proto["server"]
  <1>1. /\ "client" \in Peer /\ "server" \in Peer
        /\ Other("client") = "server" /\ Other("server") = "client"
        /\ ~Over("client") /\ ~Over("server")
    BY DEF Peer, Other
  <1>2. ASSUME NEW slot \in Slot, NEW m \in Message
        PROVE  /\ Hears(c, s, slot, m) => CanReceive("client", slot, m)
               /\ Hears(s, c, slot, m) => CanReceive("server", slot, m)
               /\ Confirmed(c, s, slot, m) => CanBeAcked("client", slot, m)
               /\ Confirmed(s, c, slot, m) => CanBeAcked("server", slot, m)
    BY <1>1 DEF Hears, Confirmed, CanReceive, CanBeAcked, Accepts, Lives
  <1>3. PICK slot \in Slot, m \in Message :
            \/ Hears(c, s, slot, m) \/ Hears(s, c, slot, m)
            \/ Confirmed(c, s, slot, m) \/ Confirmed(s, c, slot, m)
    BY DEF InFlight
  <1>4. \E p \in Peer : CanReceive(p, slot, m) \/ CanBeAcked(p, slot, m)
    BY <1>1, <1>2, <1>3
  <1> QED BY <1>4 DEF Withheld

\* Time passes.
LEMMA TickSync ==
    ASSUME PromptNetwork, IInv, SInv, Tick
    PROVE  SInv'
  <1> DEFINE c == proto["client"]
             s == proto["server"]
  <1>1. /\ proto \in [Peer -> ProtoContext] /\ lag \in 0..MaxLag /\ Good(c) /\ Good(s)
        /\ c \in ProtoContext /\ s \in ProtoContext /\ Synchronous(c, s, lag)
        /\ \A p \in Peer : ~Over(p)
    BY Peers
  <1>2. ASSUME NEW p \in Peer PROVE Still(proto[p])
    <2>1. /\ ~Pending(p) /\ ~Over(p) /\ proto[p].primary # NoKey
          /\ "primary" \in Slot /\ "secondary" \in Slot
      BY <1>1, SlotFields DEF Tick, Slot
    <2> QED BY <2>1 DEF Pending, Still, Quiet
  <1>3. Still(c) /\ Still(s)
    BY <1>2 DEF Peer
  <1>4. proto'["client"] = Elapsed(c) /\ proto'["server"] = Elapsed(s)
    BY <1>1 DEF Tick, Elapsed, Peer
  <1>5. lag' \in 0..MaxLag /\ (InFlight(c, s) => lag' = lag + 1)
    <2>1. InFlight(c, s) => Withheld
      BY <1>1, InFlightIsWithheld
    <2>2. (Withheld /\ lag < MaxLag /\ lag' = lag + 1) \/ (~Withheld /\ lag' = 0)
      BY Zenon DEF Tick
    <2>3. lag' \in 0..MaxLag
      BY <1>1, <2>2, Delays
    <2> QED BY <2>1, <2>2, <2>3
  <1> DEFINE m == lag'
  <1>6. m \in 0..MaxLag /\ (InFlight(c, s) => m = lag + 1)
    BY <1>5
  <1>7. Synchronous(Elapsed(c), Elapsed(s), m)
    <2> HIDE DEF c, s, m
    <2>1. CASE Together(c, s, lag)
      BY <1>1, <1>3, <1>6, <2>1, TogetherTicks
    <2>2. CASE Offered(c, s, lag)
      BY <1>1, <1>3, <1>6, <2>2, OfferedTicks
    <2>3. CASE Negotiated(c, s, lag)
      BY <1>1, <1>3, <1>6, <2>3, NegotiatedTicks
    <2>4. CASE ClientAhead(c, s, lag)
      BY <1>1, <1>3, <1>6, <2>4, ClientAheadTicks
    <2>5. CASE ServerAhead(c, s, lag)
      BY <1>1, <1>3, <1>6, <2>5, ServerAheadTicks
    <2> QED BY <1>1, <2>1, <2>2, <2>3, <2>4, <2>5 DEF Synchronous
  <1> QED BY <1>4, <1>7 DEF SInv

\* At the start the client's hard reset is on its way.
LEMMA InitSync ==
    ASSUME PromptNetwork, Init
    PROVE  SInv
  <1> DEFINE x == NewContext(0, TRUE)
             y == NewContext(0, FALSE)
             c == [primary |-> x, secondary |-> NoKey, upcoming |-> 1]
             s == [primary |-> y, secondary |-> NoKey, upcoming |-> 1]
  <1>1. proto["client"] = c /\ proto["server"] = s /\ lag = 0
    <2>1. /\ proto["client"].primary = NewContext(0, TRUE)
          /\ proto["server"].primary = NewContext(0, FALSE)
      BY DEF Init, Peer
    <2> QED BY <2>1 DEF Init, Peer
  <1>2. 0 \in KeyId /\ NextKeyId(0) = 1
    BY Delays DEF KeyId, NextKeyId
  <1>3. /\ x \in KeyContext /\ x.id = 0 /\ Is(x, "WAIT_RESET", {"reset"})
        /\ x.event = "NONE" /\ x.next = "NEGOTIATE" /\ x.due = HandshakeWindow
        /\ x.age = 0 /\ x.valid /\ ~x.fired
    BY <1>2, NewFields DEF Is
  <1>4. /\ y \in KeyContext /\ y.id = 0 /\ Is(y, "WAIT_RESET", {})
        /\ y.event = "NONE" /\ y.next = "NEGOTIATE" /\ y.due = HandshakeWindow
        /\ y.age = 0 /\ y.valid /\ ~y.fired
    BY <1>2, NewFields DEF Is
  <1>5. /\ c.primary = x /\ c.secondary = NoKey /\ c.upcoming = 1
        /\ s.primary = y /\ s.secondary = NoKey /\ s.upcoming = 1
    OBVIOUS
  <1> HIDE DEF x, y, c, s
  <1>6. x.age <= 0 /\ x.age + x.due = HandshakeWindow /\ y.age + y.due = HandshakeWindow
        /\ y.age <= x.age
    BY <1>3, <1>4, Delays
  <1>7. Pair(x, y, 0)
    BY <1>3, <1>4, <1>6 DEF Pair, Shaking, Clock, Is
  <1>8. Together(c, s, 0)
    BY <1>2, <1>3, <1>5, <1>7 DEF Together, Left
  <1> QED BY <1>1, <1>8 DEF SInv, Synchronous

\* Every step.
LEMMA NextSync ==
    ASSUME PromptNetwork, IInv, SInv, [Next]_vars
    PROVE  SInv'
  <1>1. ASSUME NEW p \in Peer, NEW slot \in Slot, NEW m \in Message,
               Receive(p, slot, m) \/ Acked(p, slot, m)
        PROVE  SInv'
    BY <1>1, ReceiveSync, AckedSync
  <1>2. ASSUME NEW p \in Peer, NEW slot \in Slot, FirstData(p, slot) \/ KeyLimit(p, slot)
        PROVE  SInv'
    BY <1>2 DEF FirstData, KeyLimit, PromptNetwork
  <1>3. ASSUME NEW p \in Peer, ProcessEvents(p) PROVE SInv'
    BY <1>3, ProcessEventsSync
  <1>4. ASSUME NEW p \in Peer, KeepaliveTimeout(p) PROVE SInv'
    <2>1. Other(p) \in Peer /\ Over(Other(p))
      BY <1>4 DEF KeepaliveTimeout, Other, Peer
    <2> QED BY <2>1, Peers
  <1>5. CASE Tick
    BY <1>5, TickSync
  <1>6. CASE UNCHANGED vars
    BY <1>6 DEF vars, SInv
  <1> QED BY <1>1, <1>2, <1>3, <1>4, <1>5, <1>6 DEF Next

-----------------------------------------------------------------------------
(* Theorems                                                                *)

\* The clocks of the peers stay together: at every moment both are at the same
\* key, or the client has offered the next, or it is negotiated, or one of them
\* has turned to it and the other has not, and the timers of process_next_event
\* leave no sixth possibility.
THEOREM KeysSynchronous ==
    ASSUME PromptNetwork
    PROVE  Spec => [](IInv /\ SInv)
  <1>1. Init => IInv /\ SInv
    BY InitInv, InitSync
  <1>2. (IInv /\ SInv) /\ [Next]_vars => (IInv /\ SInv)'
    BY NextInv, NextSync
  <1> QED BY <1>1, <1>2, PTL DEF Spec

\* What one peer transmits with, the other can decrypt with: at every moment of
\* a renegotiation, from either end's become-primary timer to either end's
\* wiping of the old key.
THEOREM KeyIsShared ==
    ASSUME PromptNetwork
    PROVE  Spec => []SharedKey
  <1>1. ASSUME IInv, SInv PROVE SharedKey
    <2> DEFINE c == proto["client"]
               s == proto["server"]
               Shared(a, b) ==
                  a.primary.state = "ACTIVE" /\ a.primary.next # "BECOME_PRIMARY" =>
                    \E slot \in Slot :
                        /\ b[slot] # NoKey /\ b[slot].valid
                        /\ b[slot].id = a.primary.id /\ b[slot].state = "ACTIVE"
    <2>1. /\ lag \in 0..MaxLag /\ c \in ProtoContext /\ s \in ProtoContext
          /\ Synchronous(c, s, lag)
      BY <1>1, Peers
    <2>2. "primary" \in Slot /\ "secondary" \in Slot
      BY DEF Slot
    <2>3. /\ c.primary \in KeyContext /\ s.primary \in KeyContext
          /\ c.primary # NoKey /\ s.primary # NoKey
          /\ c.secondary # NoKey => c.secondary \in KeyContext
          /\ s.secondary # NoKey => s.secondary \in KeyContext
      BY <2>1, SlotFields
    <2>4. Shared(c, s) /\ Shared(s, c)
      <3> HIDE DEF c, s
      <3>1. CASE Together(c, s, lag)
        <4>1. /\ Pair(c.primary, s.primary, lag) /\ c.primary.id = s.primary.id
              /\ c.primary.valid /\ s.primary.valid
          BY <3>1 DEF Together, Pair
        <4>2. /\ c.primary.state = "ACTIVE" /\ c.primary.next # "BECOME_PRIMARY" => ~Young(c.primary)
              /\ s.primary.state = "ACTIVE" /\ s.primary.next # "BECOME_PRIMARY" => ~Young(s.primary)
          BY <4>1 DEF Pair, Clock, Young
        <4>3. ~Young(c.primary) \/ ~Young(s.primary) =>
                 c.primary.state = "ACTIVE" /\ s.primary.state = "ACTIVE"
          BY <2>1, <2>3, <4>1, TurnedIsOld, LongAgreed DEF Is
        <4> QED BY <2>2, <2>3, <4>1, <4>2, <4>3
      <3>2. CASE Offered(c, s, lag) \/ Negotiated(c, s, lag)
        <4>1. /\ c.primary.id = s.primary.id /\ c.primary.valid /\ s.primary.valid
              /\ c.primary.state = "ACTIVE" /\ s.primary.state = "ACTIVE"
          BY <3>2 DEF Offered, Negotiated, OldClient, OldServer, Settled, Is
        <4> QED BY <2>2, <2>3, <4>1
      <3>3. CASE ClientAhead(c, s, lag)
        <4>1. /\ Pair(c.primary, s.secondary, lag) /\ ~Young(c.primary)
              /\ s.secondary # NoKey /\ c.secondary # NoKey
              /\ c.secondary.id = s.primary.id /\ c.secondary.valid
              /\ c.secondary.state = "ACTIVE"
          BY <3>3 DEF ClientAhead, OldClient, Settled, Is
        <4>2. s.secondary.id = c.primary.id /\ s.secondary.valid
          BY <4>1 DEF Pair
        <4>3. s.secondary.state = "ACTIVE"
          BY <2>1, <2>3, <4>1, TurnedIsOld, LongAgreed DEF Is
        <4> QED BY <2>2, <4>1, <4>2, <4>3
      <3>4. CASE ServerAhead(c, s, lag)
        <4>1. /\ Pair(c.secondary, s.primary, lag) /\ ~Young(s.primary)
              /\ s.secondary # NoKey /\ c.secondary # NoKey
              /\ s.secondary.id = c.primary.id /\ s.secondary.valid
              /\ s.secondary.state = "ACTIVE"
          BY <3>4 DEF ServerAhead, OldServer, Settled, Is
        <4>2. c.secondary.id = s.primary.id /\ c.secondary.valid
          BY <4>1 DEF Pair
        <4>3. c.secondary.state = "ACTIVE"
          BY <2>1, <2>3, <4>1, TurnedIsOld, LongAgreed DEF Is
        <4> QED BY <2>2, <4>1, <4>2, <4>3
      <3> QED BY <2>1, <3>1, <3>2, <3>3, <3>4 DEF Synchronous
    <2>5. Other("client") = "server" /\ Other("server") = "client"
      BY DEF Other
    <2> QED BY <2>4, <2>5 DEF SharedKey, Transmits, Lives, Peer
  <1> QED BY <1>1, KeysSynchronous, PTL

\* No session ends by PRIMARY_EXPIRE, HANDSHAKE_TIMEOUT or the keepalive
\* timeout: each renegotiation succeeds before process_primary_event finds the
\* primary expired, and a server's own never comes to wipe the client's.
THEOREM NoSessionEnds ==
    ASSUME PromptNetwork
    PROVE  Spec => []SessionSurvives
  <1>1. ASSUME IInv, SInv PROVE SessionSurvives
    BY <1>1, Peers DEF SessionSurvives
  <1> QED BY <1>1, KeysSynchronous, PTL

\* A packet's key id names one context of its receiver: next_key_id hands out
\* an id only when the key that had it last is gone.
THEOREM KeyIdsAreDistinct ==
    ASSUME PromptNetwork
    PROVE  Spec => []DistinctKeyIds
  <1>1. ASSUME IInv, SInv PROVE DistinctKeyIds
    <2> DEFINE c == proto["client"]
               s == proto["server"]
    <2>1. c \in ProtoContext /\ s \in ProtoContext /\ Synchronous(c, s, lag)
      BY <1>1, Peers
    <2>2. c.primary.id \in KeyId /\ s.primary.id \in KeyId
      BY <2>1, SlotFields, Fields
    <2>3. NextKeyId(c.primary.id) # c.primary.id /\ NextKeyId(s.primary.id) # s.primary.id
      BY <2>2, KeyIdsDiffer
    <2>4. /\ c.secondary # NoKey => c.secondary.id # c.primary.id
          /\ s.secondary # NoKey => s.secondary.id # s.primary.id
      <3> HIDE DEF c, s
      <3> QED BY <2>1, <2>3 DEF Synchronous, Together, Offered, Negotiated, ClientAhead,
                                ServerAhead, Pair, Left
    <2> QED BY <2>4 DEF DistinctKeyIds, Peer
  <1> QED BY <1>1, KeysSynchronous, PTL

\* active() is called in the primary slot for the initial key alone: a key that
\* is promoted has long been active at both ends.
THEOREM OnlyInitialActive ==
    ASSUME PromptNetwork
    PROVE  Spec => []ActiveIsInitial
  <1>1. ASSUME IInv, SInv PROVE ActiveIsInitial
    <2> DEFINE c == proto["client"]
               s == proto["server"]
    <2>1. Synchronous(c, s, lag)
      BY <1>1, Peers
    <2>2. /\ c.primary.event = "ACTIVE" => c.primary.id = 0
          /\ s.primary.event = "ACTIVE" => s.primary.id = 0
      <3> HIDE DEF c, s
      <3>1. CASE Together(c, s, lag)
        <4>1. /\ c.primary.event = "ACTIVE" => Young(c.primary)
              /\ s.primary.event = "ACTIVE" => Young(s.primary)
          BY <3>1 DEF Together, Pair, Clock, Young
        <4> QED BY <3>1, <4>1 DEF Together, Pair
      <3>2. CASE Offered(c, s, lag) \/ Negotiated(c, s, lag)
        BY <3>2 DEF Offered, Negotiated, OldClient, OldServer, Settled
      <3>3. CASE ClientAhead(c, s, lag)
        <4>1. c.primary.event # "ACTIVE"
          BY <3>3 DEF ClientAhead, Pair, Clock, Young
        <4> QED BY <3>3, <4>1 DEF ClientAhead, OldServer, Settled
      <3>4. CASE ServerAhead(c, s, lag)
        <4>1. s.primary.event # "ACTIVE"
          BY <3>4 DEF ServerAhead, Pair, Clock, Young
        <4> QED BY <3>4, <4>1 DEF ServerAhead, OldClient, Settled
      <3> QED BY <2>1, <3>1, <3>2, <3>3, <3>4 DEF Synchronous
    <2> QED BY <2>2 DEF ActiveIsInitial, Peer
  <1> QED BY <1>1, KeysSynchronous, PTL

\* With no limit on the data of a key nobody transmits with one older than
\* renegotiate plus tran-window: the expiry that prepare_expire sets counts
\* from the construction of the key.
THEOREM KeysDoNotOutlive ==
    ASSUME PromptNetwork
    PROVE  Spec => []KeyAgeBounded
  <1>1. ASSUME IInv, SInv PROVE KeyAgeBounded
    <2> DEFINE c == proto["client"]
               s == proto["server"]
    <2>1. /\ lag \in 0..MaxLag /\ c \in ProtoContext /\ s \in ProtoContext
          /\ Synchronous(c, s, lag)
      BY <1>1, Peers
    <2>2. /\ c.primary \in KeyContext /\ s.primary \in KeyContext
          /\ c.secondary # NoKey => c.secondary \in KeyContext
          /\ s.secondary # NoKey => s.secondary \in KeyContext
      BY <2>1, SlotFields
    <2>3. ASSUME NEW x \in KeyContext, NEW y \in KeyContext, Pair(x, y, lag)
          PROVE  x.age <= Expire /\ y.age <= Expire
      <3>1. x.age \in Nat /\ y.age \in Nat /\ x.age <= Renegotiate /\ y.age <= x.age
        BY <2>1, <2>3, Timely, Fields DEF Pair
      <3> QED BY <3>1, Delays
    <2>4. ASSUME NEW o \in KeyContext, NEW x \in KeyContext,
                 OldClient(o, x) \/ OldServer(o, x, lag)
          PROVE  o.age <= Expire
      <3>1. o.age \in Nat /\ o.due \in Nat /\ x.age \in Nat
        BY Fields
      <3>2. \/ o.age + o.due = Expire
            \/ o.age <= Renegotiate + x.age /\ x.age <= lag
        BY <2>4 DEF OldClient, OldServer
      <3>3. lag \in Nat /\ lag <= MaxLag
        BY <2>1, Delays
      <3> QED BY <3>1, <3>2, <3>3, Delays
    <2>5. c.primary.age <= Expire /\ s.primary.age <= Expire
      <3> HIDE DEF c, s
      <3>1. CASE Together(c, s, lag)
        BY <2>2, <2>3, <3>1 DEF Together
      <3>2. CASE Offered(c, s, lag)
        <4>1. /\ c.secondary \in KeyContext
              /\ OldClient(c.primary, c.secondary) /\ OldServer(s.primary, c.secondary, lag)
          BY <2>2, <3>2 DEF Offered
        <4> QED BY <2>2, <2>4, <4>1
      <3>3. CASE Negotiated(c, s, lag)
        <4>1. /\ c.secondary \in KeyContext
              /\ OldClient(c.primary, c.secondary) /\ OldServer(s.primary, c.secondary, lag)
          BY <2>2, <3>3 DEF Negotiated
        <4> QED BY <2>2, <2>4, <4>1
      <3>4. CASE ClientAhead(c, s, lag)
        <4>1. /\ s.secondary \in KeyContext /\ Pair(c.primary, s.secondary, lag)
              /\ OldServer(s.primary, c.primary, lag)
          BY <2>2, <3>4 DEF ClientAhead
        <4> QED BY <2>2, <2>3, <2>4, <4>1
      <3>5. CASE ServerAhead(c, s, lag)
        <4>1. /\ c.secondary \in KeyContext /\ Pair(c.secondary, s.primary, lag)
              /\ OldClient(c.primary, c.secondary)
          BY <2>2, <3>5 DEF ServerAhead
        <4> QED BY <2>2, <2>3, <2>4, <4>1
      <3> QED BY <2>1, <3>1, <3>2, <3>3, <3>4, <3>5 DEF Synchronous
    <2>6. Grace = 0 /\ Expire + 0 = Expire
      BY Delays DEF PromptNetwork, Grace
    <2> HIDE DEF c, s
    <2>7. c.primary.age <= Expire + Grace /\ s.primary.age <= Expire + Grace
      BY <2>5, <2>6
    <2> QED BY <2>7 DEF KeyAgeBounded, Peer, c, s
  <1> QED BY <1>1, KeysSynchronous, PTL

=============================================================================
