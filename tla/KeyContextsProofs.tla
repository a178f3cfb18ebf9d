------------------------- MODULE KeyContextsProofs -------------------------
(***************************************************************************)
(* Proofs about KeyContexts, for every configuration of times and every    *)
(* network: the types of contexts, that a valid context always has a next  *)
(* event, so that no key outlives all its deadlines, and that key id 0     *)
(* belongs to the first key alone.                                         *)
(***************************************************************************)
EXTENDS KeyContexts, TLAPS

\* set_next_event_if_unspecified has nothing left to do: a valid context has
\* a deadline.
Scheduled(c) == c \in KeyContext /\ (c.valid => c.next # "NONE")

\* A ProtoContext whose contexts are scheduled and of which at most one has
\* key id 0, which is never handed out again.
Good(s) ==
    /\ s \in ProtoContext
    /\ Scheduled(s.primary)
    /\ s.secondary # NoKey => Scheduled(s.secondary)
    /\ s.upcoming # 0
    /\ s.secondary # NoKey => s.primary.id # 0 \/ s.secondary.id # 0

IInv ==
    /\ TypeOK
    /\ \A p \in Peer : Good(proto[p])

-----------------------------------------------------------------------------
(* Contexts *)

\* The derived times are numbers.
LEMMA Times ==
    /\ Expire \in Nat /\ MaxAge \in Nat
    /\ \A p : RenegotiateOf(p) \in Nat /\ LimitDelay(p) \in Nat
  BY KeyAssumption DEF Expire, MaxAge, RenegotiateOf, LimitDelay

\* set_event changes the events of a context and nothing else.
LEMMA SetEventOk ==
    ASSUME NEW c \in KeyContext, NEW current \in Event, NEW next \in Event, NEW due \in Nat
    PROVE  LET d == SetEvent(c, current, next, due)
           IN  /\ d \in KeyContext
               /\ d.id = c.id /\ d.valid = c.valid /\ d.next = next /\ d.event = current
  BY DEF SetEvent, KeyContext

\* A deadline is set.
LEMMA SetDeadline ==
    ASSUME NEW c \in KeyContext, NEW current \in Event, NEW next \in Event \ {"NONE"},
           NEW due \in Nat
    PROVE  /\ Scheduled(SetEvent(c, current, next, due))
           /\ SetEvent(c, current, next, due).id = c.id
  BY SetEventOk DEF Scheduled

\* The time that remains is a number.
LEMMA RemainingOk ==
    ASSUME NEW c \in KeyContext, NEW t \in Nat
    PROVE  Remaining(c, t) \in Nat
  BY Times DEF Remaining, KeyContext

\* A new context has its deadline for the negotiation.
LEMMA NewContextOk ==
    ASSUME NEW id \in KeyId, NEW initiator \in BOOLEAN
    PROVE  Scheduled(NewContext(id, initiator)) /\ NewContext(id, initiator).id = id
  <1>1. HandshakeWindow \in Nat /\ 0 \in 0..MaxAge
    BY Times, KeyAssumption
  <1>2. (IF initiator THEN {"reset"} ELSE {}) \in SUBSET Message
    BY DEF Message
  <1> QED BY <1>1, <1>2 DEF NewContext, Scheduled, KeyContext, State, Event

\* prepare_expire always leaves a deadline.
LEMMA PrepareExpireOk ==
    ASSUME NEW c \in KeyContext, NEW current \in Event
    PROVE  LET d == PrepareExpire(c, current)
           IN  /\ Scheduled(d)
               /\ d.id = c.id /\ d.valid = c.valid /\ d.event = current /\ d.next = "EXPIRE"
  <1> DEFINE due == IF c.fired THEN 2 * HandshakeWindow ELSE Remaining(c, Expire)
  <1>1. due \in Nat
    BY RemainingOk, Times, KeyAssumption
  <1>2. "EXPIRE" \in Event
    BY DEF Event
  <1> HIDE DEF due
  <1>3. SetEvent(c, current, "EXPIRE", due) \in KeyContext
    BY <1>1, <1>2, SetEventOk
  <1> QED BY <1>1, <1>2, <1>3, SetEventOk DEF PrepareExpire, Scheduled, due

\* invalidate ends a context: it has no deadline any more.
LEMMA InvalidateOk ==
    ASSUME NEW c \in KeyContext
    PROVE  Scheduled(Invalidate(c)) /\ Invalidate(c).id = c.id /\ ~Invalidate(c).valid
  BY DEF Invalidate, Scheduled, KeyContext, Event

\* reset_event, and the event that is set by kev_error.
LEMMA EventOk ==
    ASSUME NEW c, Scheduled(c), NEW ev \in Event
    PROVE  Scheduled([c EXCEPT !.event = ev]) /\ [c EXCEPT !.event = ev].id = c.id
  BY DEF Scheduled, KeyContext

\* Whatever event is due, the next deadline is set or the context is invalid.
LEMMA ProcessNextEventOk ==
    ASSUME NEW c, Scheduled(c), NEW p \in Peer
    PROVE  Scheduled(ProcessNextEvent(p, c)) /\ ProcessNextEvent(p, c).id = c.id
  <1>0. c \in KeyContext /\ c.next \in Event
    BY DEF Scheduled, KeyContext
  <1>1. CASE c.next = "BECOME_PRIMARY"
    <2>1. 2 * HandshakeWindow \in Nat /\ Remaining(c, RenegotiateOf(p)) \in Nat
      BY <1>0, RemainingOk, Times, KeyAssumption
    <2>2. /\ "NONE" \in Event /\ "BECOME_PRIMARY" \in Event
          /\ "PRIMARY_PENDING" \in Event \ {"NONE"} /\ "RENEGOTIATE" \in Event \ {"NONE"}
      BY DEF Event
    <2>3. CASE DataLimitDefer(p, c)
      <3>1. ProcessNextEvent(p, c) = SetEvent(c, "NONE", "PRIMARY_PENDING", 2 * HandshakeWindow)
        BY <1>1, <2>3 DEF ProcessNextEvent
      <3> QED BY <1>0, <2>1, <2>2, <3>1, SetDeadline
    <2>4. CASE ~DataLimitDefer(p, c)
      <3>1. ProcessNextEvent(p, c) =
              SetEvent(c, "BECOME_PRIMARY", "RENEGOTIATE", Remaining(c, RenegotiateOf(p)))
        BY <1>1, <2>4 DEF ProcessNextEvent
      <3> QED BY <1>0, <2>1, <2>2, <3>1, SetDeadline
    <2> QED BY <2>3, <2>4
  <1>2. CASE c.next \in {"RENEGOTIATE", "RENEGOTIATE_FORCE"}
    <2>1. ProcessNextEvent(p, c) = PrepareExpire(c, c.next)
      BY <1>2 DEF ProcessNextEvent
    <2> QED BY <1>0, <2>1, PrepareExpireOk
  <1>3. CASE c.next \in {"NEGOTIATE", "PRIMARY_PENDING", "EXPIRE"}
    <2>1. ProcessNextEvent(p, c) = [Invalidate(c) EXCEPT !.event = c.next]
      BY <1>3 DEF ProcessNextEvent
    <2> QED BY <1>0, <2>1, InvalidateOk, EventOk
  <1>4. CASE c.next \notin {"BECOME_PRIMARY", "RENEGOTIATE", "RENEGOTIATE_FORCE",
                            "NEGOTIATE", "PRIMARY_PENDING", "EXPIRE"}
    BY <1>4 DEF ProcessNextEvent
  <1> QED BY <1>1, <1>2, <1>3, <1>4

\* event_pending keeps what a context is.
LEMMA PolledOk ==
    ASSUME NEW c, Scheduled(c), NEW p \in Peer
    PROVE  Scheduled(Polled(p, c)) /\ Polled(p, c).id = c.id
  BY ProcessNextEventOk DEF Polled

\* set_next_event_if_unspecified leaves a deadline and nothing else changes.
LEMMA SetNextEventOk ==
    ASSUME NEW c, Scheduled(c)
    PROVE  /\ Scheduled(SetNextEventIfUnspecified(c))
           /\ SetNextEventIfUnspecified(c).id = c.id
  <1>1. c \in KeyContext /\ "NONE" \in Event
    BY DEF Scheduled, Event
  <1> QED BY <1>1, PrepareExpireOk DEF SetNextEventIfUnspecified

\* key_limit_reneg sets a deadline.
LEMMA KeyLimitRenegOk ==
    ASSUME NEW c \in KeyContext, NEW p \in Peer, NEW event \in Event \ {"NONE"}, NEW t \in Nat
    PROVE  /\ Scheduled(KeyLimitReneg(p, c, event, t))
           /\ KeyLimitReneg(p, c, event, t).id = c.id
  <1>1. t + LimitDelay(p) \in Nat /\ "NONE" \in Event
    BY Times DEF Event
  <1> QED BY <1>1, SetDeadline DEF KeyLimitReneg

\* A change of anything but the deadline, the id and the validity.
LEMMA StateOk ==
    ASSUME NEW c, Scheduled(c), NEW st \in State, NEW un \in SUBSET Message
    PROVE  /\ Scheduled([c EXCEPT !.state = st, !.unacked = un])
           /\ [c EXCEPT !.state = st, !.unacked = un].id = c.id
  BY DEF Scheduled, KeyContext

\* active() sets the deadline to become primary.
LEMMA ActiveOk ==
    ASSUME NEW c \in KeyContext
    PROVE  Scheduled(Active(c)) /\ Active(c).id = c.id
  <1> DEFINE d == SetEvent(c, "ACTIVE", "BECOME_PRIMARY", BecomePrimary)
  <1>1. "ACTIVE" \in Event /\ "BECOME_PRIMARY" \in Event \ {"NONE"} /\ BecomePrimary \in Nat
    BY KeyAssumption DEF Event
  <1>2. Scheduled(d) /\ d.id = c.id
    BY <1>1, SetDeadline
  <1>3. Active(c) = [d EXCEPT !.state = "ACTIVE"]
    BY DEF Active
  <1> HIDE DEF d
  <1> QED BY <1>2, <1>3 DEF Scheduled, KeyContext, State

\* post_ack_action keeps what a context is.
LEMMA PostAckActionOk ==
    ASSUME NEW c, Scheduled(c), NEW p \in Peer
    PROVE  Scheduled(PostAckAction(p, c)) /\ PostAckAction(p, c).id = c.id
  <1>1. CASE c.unacked # {}
    BY <1>1 DEF PostAckAction
  <1>2. CASE c.unacked = {} /\ c.state = "WAIT_RESET_ACK"
    <2> DEFINE un == IF p = "client" THEN {"auth"} ELSE {}
    <2>1. PostAckAction(p, c) = [c EXCEPT !.state = "WAIT_AUTH", !.unacked = un]
      BY <1>2 DEF PostAckAction
    <2>2. un \in SUBSET Message /\ "WAIT_AUTH" \in State
      BY DEF Message, State
    <2> HIDE DEF un
    <2>3. /\ Scheduled([c EXCEPT !.state = "WAIT_AUTH", !.unacked = un])
          /\ [c EXCEPT !.state = "WAIT_AUTH", !.unacked = un].id = c.id
      BY <2>2, StateOk, Zenon
    <2> QED BY <2>1, <2>3, Zenon
  <1>3. CASE c.unacked = {} /\ c.state = "WAIT_AUTH_ACK"
    <2>1. PostAckAction(p, c) = Active(c)
      BY <1>3 DEF PostAckAction
    <2> QED BY <2>1, ActiveOk DEF Scheduled
  <1>4. CASE c.unacked = {} /\ c.state \notin {"WAIT_RESET_ACK", "WAIT_AUTH_ACK"}
    BY <1>4 DEF PostAckAction
  <1> QED BY <1>1, <1>2, <1>3, <1>4

\* So does raw_recv, and app_recv.
LEMMA ReceivedOk ==
    ASSUME NEW c, Scheduled(c), NEW p \in Peer, NEW m \in Message
    PROVE  Scheduled(Received(p, c, m)) /\ Received(p, c, m).id = c.id
  <1> DEFINE st == IF m = "reset" THEN "WAIT_RESET_ACK" ELSE "WAIT_AUTH_ACK"
             un == IF p = "server" THEN c.unacked \cup {m} ELSE c.unacked
  <1>1. st \in State /\ un \in SUBSET Message
    BY DEF State, Scheduled, KeyContext
  <1>2. Received(p, c, m) = [c EXCEPT !.state = st, !.unacked = un]
    BY DEF Received
  <1> HIDE DEF st, un
  <1>3. /\ Scheduled([c EXCEPT !.state = st, !.unacked = un])
        /\ [c EXCEPT !.state = st, !.unacked = un].id = c.id
    BY <1>1, StateOk, Zenon
  <1> QED BY <1>2, <1>3, Zenon

\* Time passes for a context.
LEMMA AgedOk ==
    ASSUME NEW c, Scheduled(c), c # NoKey
    PROVE  Scheduled(Aged(c)) /\ Aged(c).id = c.id
  <1> DEFINE due == IF c.due > 0 THEN c.due - 1 ELSE 0
             age == IF c.age < MaxAge THEN c.age + 1 ELSE c.age
  <1>1. due \in Nat /\ age \in 0..MaxAge
    BY Times DEF Scheduled, KeyContext
  <1>2. Aged(c) = [c EXCEPT !.due = due, !.age = age]
    BY DEF Aged
  <1> HIDE DEF due, age
  <1> QED BY <1>1, <1>2 DEF Scheduled, KeyContext

-----------------------------------------------------------------------------
(* ProtoContext *)

\* Another context in the primary slot, of an id that the secondary does not share if it is 0.
LEMMA SetPrimaryOk ==
    ASSUME NEW s, Good(s), NEW a, Scheduled(a),
           s.secondary # NoKey => a.id # 0 \/ s.secondary.id # 0
    PROVE  LET t == [s EXCEPT !.primary = a]
           IN  /\ Good(t)
               /\ t.primary = a /\ t.secondary = s.secondary /\ t.upcoming = s.upcoming
  BY DEF Good, Scheduled, ProtoContext

\* The same for the secondary slot.
LEMMA SetSecondaryOk ==
    ASSUME NEW s, Good(s), NEW b, b # NoKey => Scheduled(b),
           b # NoKey => s.primary.id # 0 \/ b.id # 0
    PROVE  LET t == [s EXCEPT !.secondary = b]
           IN  /\ Good(t)
               /\ t.primary = s.primary /\ t.secondary = b /\ t.upcoming = s.upcoming
  BY DEF Good, Scheduled, ProtoContext

\* next_key_id: 0 is never the upcoming id again.
LEMMA NextKeyIdOk ==
    ASSUME NEW id \in KeyId
    PROVE  NextKeyId(id) \in KeyId /\ NextKeyId(id) # 0
  BY KeyAssumption DEF NextKeyId, KeyId

\* new_secondary_key takes an id other than 0 and leaves the primary alone.
LEMMA NewSecondaryOk ==
    ASSUME NEW s, Good(s), NEW initiator \in BOOLEAN
    PROVE  /\ Good(NewSecondary(s, initiator))
           /\ NewSecondary(s, initiator).primary = s.primary
           /\ Scheduled(NewSecondary(s, initiator).secondary)
           /\ NewSecondary(s, initiator).secondary.id # 0
  <1> DEFINE c == NewContext(s.upcoming, initiator)
             n == NextKeyId(s.upcoming)
  <1>1. s.upcoming \in KeyId /\ s.upcoming # 0 /\ s \in ProtoContext
    BY DEF Good, ProtoContext
  <1>2. Scheduled(c) /\ c.id = s.upcoming
    BY <1>1, NewContextOk
  <1>3. n \in KeyId /\ n # 0
    BY <1>1, NextKeyIdOk
  <1>4. NewSecondary(s, initiator) = [s EXCEPT !.secondary = c, !.upcoming = n]
    BY DEF NewSecondary
  <1> HIDE DEF c, n
  <1> DEFINE t == [s EXCEPT !.secondary = c, !.upcoming = n]
  <1>5. t \in ProtoContext /\ t.primary = s.primary /\ t.secondary = c /\ t.upcoming = n
    BY <1>1, <1>2, <1>3 DEF ProtoContext, Scheduled
  <1> HIDE DEF t
  <1>6. Good(t)
    BY <1>1, <1>2, <1>3, <1>5 DEF Good
  <1> QED BY <1>1, <1>2, <1>4, <1>5, <1>6 DEF t

\* The swap: the old primary expires, the new one has the deadline it had.
LEMMA PromoteOk ==
    ASSUME NEW s, Good(s), Scheduled(s.secondary),
           s.primary.id # 0 \/ s.secondary.id # 0
    PROVE  Good(Promote(s)) /\ Promote(s).secondary = PrepareExpire(s.primary, "NONE")
  <1> DEFINE c == PrepareExpire(s.primary, "NONE")
             d == s.secondary
  <1>1. s \in ProtoContext /\ s.primary \in KeyContext /\ "NONE" \in Event
    BY DEF Good, ProtoContext, Event
  <1>2. Scheduled(c) /\ c.id = s.primary.id
    BY <1>1, PrepareExpireOk
  <1>3. Promote(s) = [s EXCEPT !.primary = d, !.secondary = c]
    BY DEF Promote
  <1>4. Scheduled(d) /\ (s.primary.id # 0 \/ d.id # 0)
    OBVIOUS
  <1> HIDE DEF c, d
  <1> DEFINE t == [s EXCEPT !.primary = d, !.secondary = c]
  <1>5. t \in ProtoContext /\ t.primary = d /\ t.secondary = c /\ t.upcoming = s.upcoming
    BY <1>1, <1>2, <1>4 DEF ProtoContext, Scheduled
  <1> HIDE DEF t
  <1>6. Good(t)
    BY <1>2, <1>4, <1>5 DEF Good
  <1> QED BY <1>3, <1>5, <1>6 DEF t, c

\* disconnect invalidates both contexts.
LEMMA DisconnectOk ==
    ASSUME NEW s, Good(s)
    PROVE  Good(Disconnect(s)) /\ Disconnect(s).primary.id = s.primary.id
  <1> DEFINE a == Invalidate(s.primary)
             b == IF s.secondary = NoKey THEN NoKey ELSE Invalidate(s.secondary)
  <1>1. s \in ProtoContext /\ Scheduled(a) /\ a.id = s.primary.id
    BY InvalidateOk DEF Good, ProtoContext
  <1>2. b # NoKey => Scheduled(b) /\ b.id = s.secondary.id /\ s.secondary # NoKey
    BY InvalidateOk DEF Good, ProtoContext
  <1>3. Disconnect(s) = [s EXCEPT !.primary = a, !.secondary = b]
    BY DEF Disconnect
  <1> HIDE DEF a, b
  <1> DEFINE t == [s EXCEPT !.primary = a, !.secondary = b]
  <1>4. t \in ProtoContext /\ t.primary = a /\ t.secondary = b /\ t.upcoming = s.upcoming
    BY <1>1, <1>2 DEF ProtoContext, Scheduled
  <1> HIDE DEF t
  <1>5. Good(t)
    BY <1>1, <1>2, <1>4 DEF Good
  <1> QED BY <1>1, <1>3, <1>4, <1>5 DEF t

-----------------------------------------------------------------------------
(* Events *)

\* set_next_event_if_unspecified, on a context in its slot.
LEMMA SpecifiedOk ==
    ASSUME NEW s, Good(s)
    PROVE  /\ Good([s EXCEPT !.primary = SetNextEventIfUnspecified(@)])
           /\ Good([s EXCEPT !.secondary =
                      IF @ = NoKey THEN NoKey ELSE SetNextEventIfUnspecified(@)])
  <1>1. /\ Scheduled(s.primary)
        /\ s.secondary # NoKey => Scheduled(s.secondary)
        /\ s.secondary # NoKey => s.primary.id # 0 \/ s.secondary.id # 0
    BY DEF Good
  <1> DEFINE a == SetNextEventIfUnspecified(s.primary)
             b == IF s.secondary = NoKey THEN NoKey ELSE SetNextEventIfUnspecified(s.secondary)
  <1>2. Scheduled(a) /\ a.id = s.primary.id
    BY <1>1, SetNextEventOk
  <1>3. b # NoKey => Scheduled(b) /\ b.id = s.secondary.id /\ s.secondary # NoKey
    BY <1>1, SetNextEventOk
  <1> HIDE DEF a, b
  <1>4. Good([s EXCEPT !.primary = a])
    BY <1>1, <1>2, SetPrimaryOk
  <1>5. Good([s EXCEPT !.secondary = b])
    BY <1>1, <1>3, SetSecondaryOk
  <1> QED BY <1>4, <1>5 DEF a, b

\* process_primary_event.
LEMMA ProcessPrimaryEventOk ==
    ASSUME NEW s, Good(s), NEW p \in Peer
    PROVE  Good(ProcessPrimaryEvent(p, s))
  <1> DEFINE c     == Polled(p, s.primary)
             free  == [c EXCEPT !.event = "NONE"]
             taken == [s EXCEPT !.primary = free]
             done  == CASE c.event \in {"RENEGOTIATE", "RENEGOTIATE_FORCE"} ->
                             NewSecondary(taken, TRUE)
                        [] c.event = "EXPIRE" /\ HasSecondary(s) -> Promote(taken)
                        [] c.event = "EXPIRE" /\ ~HasSecondary(s) -> Disconnect(taken)
                        [] c.event = "NEGOTIATE" -> Disconnect(taken)
                        [] OTHER -> taken
  <1>1. /\ Scheduled(s.primary)
        /\ s.secondary # NoKey => Scheduled(s.secondary)
        /\ s.secondary # NoKey => s.primary.id # 0 \/ s.secondary.id # 0
        /\ "NONE" \in Event
    BY DEF Good, Event
  <1>2. Scheduled(c) /\ c.id = s.primary.id
    BY <1>1, PolledOk
  <1>3. ProcessPrimaryEvent(p, s) =
          IF c.event = "NONE" THEN [s EXCEPT !.primary = c]
          ELSE [done EXCEPT !.primary = SetNextEventIfUnspecified(@)]
    BY DEF ProcessPrimaryEvent
  <1> HIDE DEF c
  <1>4. CASE c.event = "NONE"
    BY <1>1, <1>2, <1>3, <1>4, SetPrimaryOk
  <1>5. CASE c.event # "NONE"
    <2>1. Scheduled(free) /\ free.id = s.primary.id
      BY <1>1, <1>2, EventOk
    <2> HIDE DEF free
    <2>2. /\ Good(taken)
          /\ taken.secondary = s.secondary /\ taken.primary = free
      BY <1>1, <2>1, SetPrimaryOk
    <2> HIDE DEF taken
    <2>3. CASE c.event \in {"RENEGOTIATE", "RENEGOTIATE_FORCE"}
      <3>1. done = NewSecondary(taken, TRUE)
        BY <2>3
      <3> HIDE DEF done
      <3>2. Good(done)
        BY <2>2, <3>1, NewSecondaryOk
      <3> QED BY <1>3, <1>5, <3>2, SpecifiedOk
    <2>4. CASE c.event = "EXPIRE" /\ HasSecondary(s)
      <3>1. done = Promote(taken)
        BY <2>4
      <3>2. Scheduled(taken.secondary) /\ (taken.primary.id # 0 \/ taken.secondary.id # 0)
        BY <1>1, <2>1, <2>2, <2>4 DEF HasSecondary
      <3>3. Good(Promote(taken))
        BY <2>2, <3>2, PromoteOk
      <3> HIDE DEF done
      <3> QED BY <1>3, <1>5, <3>1, <3>3, SpecifiedOk
    <2>5. CASE \/ c.event = "EXPIRE" /\ ~HasSecondary(s)
               \/ c.event = "NEGOTIATE"
      <3>1. done = Disconnect(taken)
        BY <2>5
      <3> HIDE DEF done
      <3>2. Good(done)
        BY <2>2, <3>1, DisconnectOk
      <3> QED BY <1>3, <1>5, <3>2, SpecifiedOk
    <2>6. CASE c.event \notin {"RENEGOTIATE", "RENEGOTIATE_FORCE", "EXPIRE", "NEGOTIATE"}
      <3>1. done = taken
        BY <2>6
      <3> HIDE DEF done
      <3> QED BY <1>3, <1>5, <2>2, <3>1, SpecifiedOk
    <2> QED BY <2>3, <2>4, <2>5, <2>6
  <1> QED BY <1>4, <1>5

\* process_secondary_event.
LEMMA ProcessSecondaryEventOk ==
    ASSUME NEW s, Good(s), NEW p \in Peer
    PROVE  Good(ProcessSecondaryEvent(p, s))
  <1> DEFINE c     == Polled(p, s.secondary)
             free  == [c EXCEPT !.event = "NONE"]
             taken == [s EXCEPT !.secondary = free]
             done  == CASE c.event = "ACTIVE" ->
                             [taken EXCEPT !.primary = PrepareExpire(@, "NONE")]
                        [] c.event = "BECOME_PRIMARY" /\ c.valid -> Promote(taken)
                        [] c.event = "EXPIRE" -> [taken EXCEPT !.secondary = NoKey]
                        [] c.event = "RENEGOTIATE_QUEUE" /\ c.next = "BECOME_PRIMARY" ->
                             [taken EXCEPT !.primary =
                                 KeyLimitReneg(p, @, "RENEGOTIATE_FORCE", c.due)]
                        [] c.event \in {"NEGOTIATE", "PRIMARY_PENDING", "RENEGOTIATE_FORCE"} ->
                             NewSecondary(taken, TRUE)
                        [] OTHER -> taken
             final == [done EXCEPT !.secondary =
                         IF @ = NoKey THEN NoKey ELSE SetNextEventIfUnspecified(@)]
  <1>1. "NONE" \in Event
    BY DEF Event
  <1>2. CASE c = NoKey
    BY <1>2 DEF ProcessSecondaryEvent
  <1>3. CASE c # NoKey
    <2>1. /\ s.secondary # NoKey
          /\ Scheduled(s.primary) /\ Scheduled(s.secondary)
          /\ s.primary.id # 0 \/ s.secondary.id # 0
      BY <1>3 DEF Polled, Good
    <2>2. Scheduled(c) /\ c.id = s.secondary.id
      BY <2>1, PolledOk
    <2>3. /\ c.event = "NONE" => ProcessSecondaryEvent(p, s) = [s EXCEPT !.secondary = c]
          /\ c.event # "NONE" => ProcessSecondaryEvent(p, s) = final
      BY <1>3 DEF ProcessSecondaryEvent
    <2> HIDE DEF c
    <2>4. CASE c.event = "NONE"
      BY <2>1, <2>2, <2>3, <2>4, SetSecondaryOk
    <2>5. CASE c.event # "NONE"
      <3>1. Scheduled(free) /\ free.id = s.secondary.id
        BY <1>1, <2>2, EventOk
      <3> HIDE DEF free
      <3>2. /\ Good(taken)
            /\ taken.primary = s.primary /\ taken.secondary = free
        BY <2>1, <3>1, SetSecondaryOk
      <3>3. s.primary \in KeyContext /\ c.due \in Nat
        BY <2>1, <2>2 DEF Scheduled, KeyContext
      <3>4. ASSUME Good(done) PROVE Good(ProcessSecondaryEvent(p, s))
        <4> HIDE DEF taken, done
        <4>1. Good(final)
          BY <3>4, SpecifiedOk
        <4> QED BY <2>3, <2>5, <4>1
      <3> HIDE DEF taken
      <3>5. ASSUME c.event = "ACTIVE" PROVE Good(done)
        <4>1. done = [taken EXCEPT !.primary = PrepareExpire(s.primary, "NONE")]
          BY <3>2, <3>5
        <4>2. /\ Scheduled(PrepareExpire(s.primary, "NONE"))
              /\ PrepareExpire(s.primary, "NONE").id = s.primary.id
          BY <1>1, <3>3, PrepareExpireOk
        <4> HIDE DEF done
        <4> QED BY <2>1, <3>1, <3>2, <4>1, <4>2, SetPrimaryOk
      <3>6. ASSUME c.event = "BECOME_PRIMARY", c.valid PROVE Good(done)
        <4>1. done = Promote(taken)
          BY <3>6
        <4> QED BY <2>1, <3>1, <3>2, <4>1, PromoteOk
      <3>7. ASSUME c.event = "EXPIRE" PROVE Good(done)
        <4>1. done = [taken EXCEPT !.secondary = NoKey]
          BY <3>7
        <4> HIDE DEF done
        <4> QED BY <3>2, <4>1, SetSecondaryOk
      <3>8. ASSUME c.event = "RENEGOTIATE_QUEUE", c.next = "BECOME_PRIMARY" PROVE Good(done)
        <4> DEFINE a == KeyLimitReneg(p, s.primary, "RENEGOTIATE_FORCE", c.due)
        <4>1. done = [taken EXCEPT !.primary = a]
          BY <3>2, <3>8
        <4>2. "RENEGOTIATE_FORCE" \in Event \ {"NONE"}
          BY DEF Event
        <4>3. Scheduled(a) /\ a.id = s.primary.id
          BY <3>3, <4>2, KeyLimitRenegOk
        <4> HIDE DEF a, done
        <4> QED BY <2>1, <3>1, <3>2, <4>1, <4>3, SetPrimaryOk
      <3>9. ASSUME c.event \in {"NEGOTIATE", "PRIMARY_PENDING", "RENEGOTIATE_FORCE"}
            PROVE  Good(done)
        <4>1. done = NewSecondary(taken, TRUE)
          BY <3>9
        <4> QED BY <3>2, <4>1, NewSecondaryOk
      <3>10. ASSUME ~(c.event = "BECOME_PRIMARY" /\ c.valid),
                    ~(c.event = "RENEGOTIATE_QUEUE" /\ c.next = "BECOME_PRIMARY"),
                    c.event \notin {"ACTIVE", "EXPIRE", "NEGOTIATE", "PRIMARY_PENDING",
                                    "RENEGOTIATE_FORCE"}
             PROVE  Good(done)
        <4>1. done = taken
          BY <3>10
        <4> QED BY <3>2, <4>1
      <3> QED BY <3>4, <3>5, <3>6, <3>7, <3>8, <3>9, <3>10
    <2> QED BY <2>4, <2>5
  <1> QED BY <1>2, <1>3

-----------------------------------------------------------------------------
(* Packets *)

\* A context of a peer is changed in its place.
LEMMA SetSlotOk ==
    ASSUME NEW s, Good(s), NEW slot \in Slot,
           slot = "secondary" => s.secondary # NoKey,
           NEW a, Scheduled(a), a.id = s[slot].id
    PROVE  Good([s EXCEPT ![slot] = a])
  <1>1. s.secondary # NoKey => s.primary.id # 0 \/ s.secondary.id # 0
    BY DEF Good
  <1>2. CASE slot = "primary"
    <2>1. [s EXCEPT ![slot] = a] = [s EXCEPT !.primary = a] /\ s[slot] = s.primary
      BY <1>2
    <2> QED BY <1>1, <2>1, SetPrimaryOk
  <1>3. CASE slot = "secondary"
    <2>1. [s EXCEPT ![slot] = a] = [s EXCEPT !.secondary = a] /\ s[slot] = s.secondary
      BY <1>3
    <2> QED BY <1>1, <2>1, SetSecondaryOk
  <1> QED BY <1>2, <1>3 DEF Slot

\* The context in a slot that is not empty.
LEMMA InSlot ==
    ASSUME NEW s, Good(s), NEW slot \in Slot,
           slot = "secondary" => s.secondary # NoKey
    PROVE  Scheduled(s[slot])
  BY DEF Good, Slot

\* A packet for a key id goes to the context that has it, or makes one.
LEMMA AfterMessageOk ==
    ASSUME NEW s, Good(s), NEW p \in Peer, NEW id, NEW m \in Message,
           Destination(s, id, m) # "drop"
    PROVE  Good(AfterMessage(p, s, id, m))
  <1> DEFINE to   == Destination(s, id, m)
             t    == IF to = "soft_reset" THEN NewSecondary(s, FALSE) ELSE s
             slot == IF to = "primary" THEN "primary" ELSE "secondary"
             a    == PostAckAction(p, Received(p, t[slot], m))
  <1>1. slot \in Slot
    BY DEF Slot
  <1>2. CASE to = "soft_reset"
    <2>1. t = NewSecondary(s, FALSE) /\ slot = "secondary"
      BY <1>2
    <2>2. Good(t) /\ Scheduled(t.secondary)
      BY <2>1, NewSecondaryOk
    <2> HIDE DEF t, to
    <2>3. a = PostAckAction(p, Received(p, t.secondary, m))
      BY <2>1
    <2>4. Scheduled(a) /\ a.id = t.secondary.id
      BY <2>2, <2>3, ReceivedOk, PostAckActionOk
    <2>5. t.primary.id # 0 \/ a.id # 0
      BY <2>1, <2>4, NewSecondaryOk
    <2> HIDE DEF a
    <2>6. Good([t EXCEPT !.secondary = a])
      BY <2>2, <2>4, <2>5, SetSecondaryOk
    <2>7. AfterMessage(p, s, id, m) = [t EXCEPT !.secondary = a]
      BY <2>1 DEF AfterMessage, t, to, a
    <2> QED BY <2>6, <2>7
  <1>3. CASE to \in Slot
    <2>1. t = s /\ slot = to /\ (slot = "secondary" => s.secondary # NoKey)
      BY <1>3 DEF Slot, Destination
    <2>2. AfterMessage(p, s, id, m) = [s EXCEPT ![slot] = a]
      BY <2>1 DEF AfterMessage
    <2> HIDE DEF t, to, slot
    <2>3. a = PostAckAction(p, Received(p, s[slot], m))
      BY <2>1
    <2>4. Scheduled(s[slot])
      BY <1>1, <2>1, InSlot
    <2>5. Scheduled(a) /\ a.id = s[slot].id
      BY <2>3, <2>4, ReceivedOk, PostAckActionOk
    <2> HIDE DEF a
    <2>6. Good([s EXCEPT ![slot] = a])
      BY <1>1, <2>1, <2>5, SetSlotOk
    <2> QED BY <2>2, <2>6
  <1>4. to \in Slot \cup {"soft_reset", "drop"}
    BY DEF Destination, Slot
  <1> QED BY <1>2, <1>3, <1>4

-----------------------------------------------------------------------------
(* Actions *)

\* A peer is changed, the other one not.
LEMMA ChangedOk ==
    ASSUME IInv, NEW p \in Peer, NEW s, Good(s),
           proto' = [proto EXCEPT ![p] = s], lag' \in 0..MaxLag
    PROVE  IInv'
  <1>1. s \in ProtoContext
    BY DEF Good
  <1>2. TypeOK'
    BY <1>1 DEF IInv, TypeOK
  <1>3. \A q \in Peer : proto'[q] = IF q = p THEN s ELSE proto[q]
    BY DEF IInv, TypeOK
  <1>4. \A q \in Peer : Good(proto'[q])
    BY <1>3 DEF IInv
  <1> QED BY <1>2, <1>4 DEF IInv

\* A context of a peer is changed and keeps its key id.
LEMMA ContextChangedOk ==
    ASSUME IInv, NEW p \in Peer, NEW slot \in Slot,
           slot = "secondary" => proto[p].secondary # NoKey,
           NEW a, Scheduled(a), a.id = proto[p][slot].id,
           proto' = [proto EXCEPT ![p][slot] = a], UNCHANGED lag
    PROVE  IInv'
  <1>1. Good(proto[p]) /\ lag' \in 0..MaxLag
    BY DEF IInv, TypeOK
  <1>2. Good([proto[p] EXCEPT ![slot] = a])
    BY <1>1, SetSlotOk
  <1>3. proto' = [proto EXCEPT ![p] = [proto[p] EXCEPT ![slot] = a]]
    OBVIOUS
  <1> QED BY <1>1, <1>2, <1>3, ChangedOk

\* reset() and start() establish it.
LEMMA InitInv ==
    ASSUME Init PROVE IInv
  <1>0. 0 \in KeyId /\ 1 \in KeyId /\ 0 \in 0..MaxLag
    BY KeyAssumption DEF KeyId
  <1>1. ASSUME NEW p \in Peer PROVE Good(proto[p]) /\ proto[p] \in ProtoContext
    <2> DEFINE c == NewContext(0, p = "client")
    <2>1. Scheduled(c)
      BY <1>0, NewContextOk
    <2>2. proto[p] = [primary |-> c, secondary |-> NoKey, upcoming |-> 1]
      BY <1>1 DEF Init
    <2> HIDE DEF c
    <2> QED BY <1>0, <2>1, <2>2 DEF Good, Scheduled, ProtoContext
  <1>2. proto \in [Peer -> ProtoContext]
    BY <1>1 DEF Init
  <1> QED BY <1>0, <1>1, <1>2 DEF IInv, TypeOK, Init

\* A control packet.
LEMMA ReceiveInv ==
    ASSUME IInv, NEW p \in Peer, NEW slot \in Slot, NEW m \in Message, Receive(p, slot, m)
    PROVE  IInv'
  <1> DEFINE id == proto[Other(p)][slot].id
  <1>1. Good(proto[p]) /\ lag' \in 0..MaxLag
    BY DEF IInv, TypeOK, Receive
  <1>2. Accepts(p, id, m) /\ proto' = [proto EXCEPT ![p] = AfterMessage(p, proto[p], id, m)]
    BY DEF Receive, CanReceive
  <1> HIDE DEF id
  <1>3. Destination(proto[p], id, m) # "drop"
    BY <1>2 DEF Accepts, Slot
  <1>4. Good(AfterMessage(p, proto[p], id, m))
    BY <1>1, <1>3, AfterMessageOk
  <1> QED BY <1>1, <1>2, <1>4, ChangedOk

\* An acknowledgement.
LEMMA AckedInv ==
    ASSUME IInv, NEW p \in Peer, NEW slot \in Slot, NEW m \in Message, Acked(p, slot, m)
    PROVE  IInv'
  <1> DEFINE c == proto[p][slot]
             d == [c EXCEPT !.unacked = @ \ {m}]
             a == PostAckAction(p, d)
  <1>1. Good(proto[p]) /\ (slot = "secondary" => proto[p].secondary # NoKey)
    BY DEF IInv, Acked, CanBeAcked, Lives
  <1>2. proto' = [proto EXCEPT ![p][slot] = a] /\ UNCHANGED lag
    BY DEF Acked
  <1>3. Scheduled(c)
    BY <1>1, InSlot
  <1>4. Scheduled(d) /\ d.id = c.id
    <2> HIDE DEF c
    <2> QED BY <1>3 DEF Scheduled, KeyContext
  <1>5. Scheduled(a) /\ a.id = c.id
    <2> HIDE DEF c, d
    <2> QED BY <1>4, PostAckActionOk
  <1> HIDE DEF d, a
  <1> QED BY <1>1, <1>2, <1>5, ContextChangedOk

\* The first data with a key.
LEMMA FirstDataInv ==
    ASSUME IInv, NEW p \in Peer, NEW slot \in Slot, FirstData(p, slot)
    PROVE  IInv'
  <1> DEFINE c == proto[p][slot]
             d == [c EXCEPT !.green = TRUE]
             a == IF d.next = "PRIMARY_PENDING"
                  THEN SetEvent(d, "NONE", "BECOME_PRIMARY", 1) ELSE d
  <1>1. Good(proto[p]) /\ (slot = "secondary" => proto[p].secondary # NoKey)
    BY DEF IInv, FirstData, DataArrives, Lives
  <1>2. proto' = [proto EXCEPT ![p][slot] = a] /\ UNCHANGED lag
    BY DEF FirstData
  <1>3. Scheduled(c)
    BY <1>1, InSlot
  <1>4. Scheduled(d) /\ d.id = c.id
    <2> HIDE DEF c
    <2> QED BY <1>3 DEF Scheduled, KeyContext
  <1>5. "NONE" \in Event /\ "BECOME_PRIMARY" \in Event \ {"NONE"} /\ 1 \in Nat
    BY DEF Event
  <1>6. Scheduled(a) /\ a.id = c.id
    <2> HIDE DEF c, d
    <2>1. d \in KeyContext
      BY <1>4 DEF Scheduled
    <2>2. /\ Scheduled(SetEvent(d, "NONE", "BECOME_PRIMARY", 1))
          /\ SetEvent(d, "NONE", "BECOME_PRIMARY", 1).id = d.id
      BY <1>5, <2>1, SetDeadline
    <2> QED BY <1>4, <2>2
  <1> HIDE DEF d, a
  <1> QED BY <1>1, <1>2, <1>6, ContextChangedOk

\* A key has reached its limit.
LEMMA KeyLimitInv ==
    ASSUME IInv, NEW p \in Peer, NEW slot \in Slot, KeyLimit(p, slot)
    PROVE  IInv'
  <1> DEFINE c == proto[p][slot]
             d == [c EXCEPT !.fired = TRUE]
             a == IF d.next = "BECOME_PRIMARY"
                  THEN [d EXCEPT !.event = "RENEGOTIATE_QUEUE"]
                  ELSE KeyLimitReneg(p, d, "RENEGOTIATE", 0)
  <1>1. Good(proto[p]) /\ (slot = "secondary" => proto[p].secondary # NoKey)
    BY DEF IInv, KeyLimit, Lives
  <1>2. proto' = [proto EXCEPT ![p][slot] = a] /\ UNCHANGED lag
    BY DEF KeyLimit
  <1>3. Scheduled(c)
    BY <1>1, InSlot
  <1>4. Scheduled(d) /\ d.id = c.id
    <2> HIDE DEF c
    <2> QED BY <1>3 DEF Scheduled, KeyContext
  <1>5. "RENEGOTIATE_QUEUE" \in Event /\ "RENEGOTIATE" \in Event \ {"NONE"} /\ 0 \in Nat
    BY DEF Event
  <1>6. Scheduled(a) /\ a.id = c.id
    <2> HIDE DEF c, d
    <2>1. d \in KeyContext
      BY <1>4 DEF Scheduled
    <2>2. /\ Scheduled(KeyLimitReneg(p, d, "RENEGOTIATE", 0))
          /\ KeyLimitReneg(p, d, "RENEGOTIATE", 0).id = d.id
      BY <1>5, <2>1, KeyLimitRenegOk
    <2>3. /\ Scheduled([d EXCEPT !.event = "RENEGOTIATE_QUEUE"])
          /\ [d EXCEPT !.event = "RENEGOTIATE_QUEUE"].id = d.id
      BY <1>4, <1>5, EventOk
    <2> QED BY <1>4, <2>2, <2>3
  <1> HIDE DEF d, a
  <1> QED BY <1>1, <1>2, <1>6, ContextChangedOk

\* Events, and the end of a session.
LEMMA ProcessEventsInv ==
    ASSUME IInv, NEW p \in Peer, ProcessEvents(p)
    PROVE  IInv'
  <1>1. Good(proto[p]) /\ lag' \in 0..MaxLag
    BY DEF IInv, TypeOK, ProcessEvents
  <1>2. Good(ProcessPrimaryEvent(p, proto[p]))
    BY <1>1, ProcessPrimaryEventOk
  <1>3. Good(ProcessSecondaryEvent(p, ProcessPrimaryEvent(p, proto[p])))
    BY <1>2, ProcessSecondaryEventOk
  <1> QED BY <1>1, <1>3, ChangedOk DEF ProcessEvents

\* The other end has gone.
LEMMA KeepaliveTimeoutInv ==
    ASSUME IInv, NEW p \in Peer, KeepaliveTimeout(p)
    PROVE  IInv'
  <1>1. Good(proto[p]) /\ lag' \in 0..MaxLag
    BY DEF IInv, TypeOK, KeepaliveTimeout
  <1>2. Good(Disconnect(proto[p]))
    BY <1>1, DisconnectOk
  <1> QED BY <1>1, <1>2, ChangedOk DEF KeepaliveTimeout

\* Time.
LEMMA TickInv ==
    ASSUME IInv, Tick
    PROVE  IInv'
  <1>1. lag' \in 0..MaxLag
    <2>1. lag \in Nat /\ MaxLag \in Nat
      BY KeyAssumption DEF IInv, TypeOK
    <2>2. \/ lag < MaxLag /\ lag' = lag + 1
          \/ lag' = 0
      BY Zenon DEF Tick
    <2> QED BY <2>1, <2>2
  <1>2. ASSUME NEW p \in Peer PROVE Good(proto'[p])
    <2> DEFINE s == proto[p]
               t == [s EXCEPT !.primary = Aged(s.primary), !.secondary = Aged(s.secondary)]
    <2>1. Good(s)
      BY DEF IInv
    <2>2. proto'[p] = s \/ proto'[p] = t
      BY DEF Tick
    <2> HIDE DEF s
    <2>3. Good(t)
      <3>1. /\ s \in ProtoContext /\ Scheduled(s.primary)
            /\ s.secondary # NoKey => Scheduled(s.secondary)
            /\ s.upcoming # 0
            /\ s.secondary # NoKey => s.primary.id # 0 \/ s.secondary.id # 0
        BY <2>1 DEF Good
      <3> DEFINE a == Aged(s.primary)
                 b == Aged(s.secondary)
      <3>2. Scheduled(a) /\ a.id = s.primary.id
        BY <3>1, AgedOk DEF Aged
      <3>3. /\ s.secondary = NoKey => b = NoKey
            /\ s.secondary # NoKey => Scheduled(b) /\ b.id = s.secondary.id
        BY <3>1, AgedOk DEF Aged
      <3> HIDE DEF a, b
      <3>4. t = [s EXCEPT !.primary = a, !.secondary = b]
        BY DEF a, b
      <3> HIDE DEF t
      <3>5. /\ t \in ProtoContext
            /\ t.primary = a /\ t.secondary = b /\ t.upcoming = s.upcoming
        BY <3>1, <3>2, <3>3, <3>4 DEF ProtoContext, Scheduled
      <3> QED BY <3>1, <3>2, <3>3, <3>5 DEF Good
    <2> HIDE DEF t
    <2> QED BY <2>1, <2>2, <2>3
  <1>3. proto' \in [Peer -> ProtoContext]
    <2>1. DOMAIN proto' = Peer /\ proto' = [p \in Peer |-> proto'[p]]
      BY DEF Tick
    <2>2. \A p \in Peer : proto'[p] \in ProtoContext
      BY <1>2 DEF Good
    <2> QED BY <2>1, <2>2
  <1> QED BY <1>1, <1>2, <1>3 DEF IInv, TypeOK

\* Every step.
LEMMA NextInv ==
    ASSUME IInv, [Next]_vars
    PROVE  IInv'
  <1>1. ASSUME NEW p \in Peer, NEW slot \in Slot, NEW m \in Message, Receive(p, slot, m)
        PROVE  IInv'
    BY <1>1, ReceiveInv
  <1>2. ASSUME NEW p \in Peer, NEW slot \in Slot, NEW m \in Message, Acked(p, slot, m)
        PROVE  IInv'
    BY <1>2, AckedInv
  <1>3. ASSUME NEW p \in Peer, NEW slot \in Slot, FirstData(p, slot)
        PROVE  IInv'
    BY <1>3, FirstDataInv
  <1>4. ASSUME NEW p \in Peer, NEW slot \in Slot, KeyLimit(p, slot)
        PROVE  IInv'
    BY <1>4, KeyLimitInv
  <1>5. ASSUME NEW p \in Peer, ProcessEvents(p) PROVE IInv'
    BY <1>5, ProcessEventsInv
  <1>6. ASSUME NEW p \in Peer, KeepaliveTimeout(p) PROVE IInv'
    BY <1>6, KeepaliveTimeoutInv
  <1>7. CASE Tick
    BY <1>7, TickInv
  <1>8. CASE UNCHANGED vars
    BY <1>8 DEF vars, IInv, TypeOK
  <1> QED BY <1>1, <1>2, <1>3, <1>4, <1>5, <1>6, <1>7, <1>8 DEF Next

-----------------------------------------------------------------------------
(* Theorems *)

\* What process_primary_event, process_secondary_event and the handlers that
\* lead to them keep, however late the network is: well-typed contexts, each
\* with a deadline while it is valid, and at most one with key id 0.
THEOREM KeysInductive == Spec => []IInv
  <1>1. Init => IInv
    BY InitInv
  <1>2. IInv /\ [Next]_vars => IInv'
    BY NextInv
  <1> QED BY <1>1, <1>2, PTL DEF Spec

\* The key ids, states, events and times of the contexts stay in their ranges,
\* for every configuration of times and every cipher: next_key_id wraps, and
\* every branch of process_next_event and of the two event handlers leaves a
\* context that the others can work with.
THEOREM KeysTypeCorrect == Spec => []TypeOK
  <1>1. IInv => TypeOK
    BY DEF IInv
  <1> QED BY <1>1, KeysInductive, PTL

\* A valid context has a next event: "set_next_event_if_unspecified" leaves
\* nothing undone on any path, including those that skip it, so that no
\* context and no key outlives the events of its life unnoticed.
AlwaysScheduled ==
    \A p \in Peer, slot \in Slot :
        Lives(p, slot) => proto[p][slot].next # "NONE"

\* No handler leaves a valid context without a next event.
THEOREM KeysScheduled == Spec => []AlwaysScheduled
  <1>1. ASSUME IInv PROVE AlwaysScheduled
    <2> SUFFICES ASSUME NEW p \in Peer, NEW slot \in Slot, Lives(p, slot)
                 PROVE  proto[p][slot].next # "NONE"
      BY DEF AlwaysScheduled
    <2>1. Good(proto[p]) /\ (slot = "secondary" => proto[p].secondary # NoKey)
      BY <1>1 DEF IInv, Lives
    <2>2. Scheduled(proto[p][slot])
      BY <2>1, InSlot
    <2> QED BY <2>2 DEF Scheduled, Lives
  <1> QED BY <1>1, KeysInductive, PTL

\* "if key_id is 0, it is the first key" (proto.hpp:3875): the upcoming id is
\* never 0 again and the two contexts of a peer are not both of that id, however
\* often the ids recycle, so that a new context (new_secondary_key) is never
\* taken for the first one by data_limit_defer or by a reset packet.
FirstKeyUnique ==
    \A p \in Peer :
        /\ proto[p].upcoming # 0
        /\ proto[p].secondary # NoKey /\ proto[p].primary.id = 0 =>
             proto[p].secondary.id # 0

\* Key id 0 is the first key's for good, through every swap and recycling.
THEOREM KeysFirstKey == Spec => []FirstKeyUnique
  <1>1. IInv => FirstKeyUnique
    BY DEF IInv, Good, FirstKeyUnique
  <1> QED BY <1>1, KeysInductive, PTL

-----------------------------------------------------------------------------
(* Retirement: a key that has been retired waits as the secondary for its  *)
(* expiry and never comes back, for every configuration of times and every *)
(* network.                                                                *)
(*                                                                         *)
(* Nothing in promote_secondary_to_primary looks at what it promotes.  It  *)
(* is right because a primary that is about to expire never has a retired  *)
(* key beside it: whatever sets its expiry also replaces the secondary, or *)
(* comes from a secondary that is new.                                     *)

\* A context past its time as the key to transmit on, by its next event: only
\* such a context expires, or renegotiates.
Old(c) == c.next \in {"EXPIRE", "RENEGOTIATE", "RENEGOTIATE_FORCE"}

\* Where a context is in its life.  Between two steps an event is waiting only
\* if it was set by active() or by a key limit.
Phased(c) ==
    /\ c.event \in {"NONE", "ACTIVE", "RENEGOTIATE_QUEUE"}
    /\ c.event # "NONE" => c.next \in {"BECOME_PRIMARY", "NONE"}
    /\ c.next \notin {"ACTIVE", "RENEGOTIATE_QUEUE"}
    /\ c.next = "BECOME_PRIMARY" => c.valid
    /\ c.next = "NEGOTIATE" => c.state # "ACTIVE"
    /\ c.next = "PRIMARY_PENDING" => ~c.green

\* A primary that is about to expire has no old context beside it.
Aligned(s) ==
    /\ Phased(s.primary)
    /\ s.secondary # NoKey =>
          Phased(s.secondary) /\ (Old(s.secondary) => s.primary.next # "EXPIRE")

\* What a step makes of a peer; the second part is RetiredStaysRetired.
Steps(s, t) ==
    /\ Aligned(t)
    /\ s.primary.id # t.primary.id => ~Retired(s.secondary)

RInv == IInv /\ \A p \in Peer : Aligned(proto[p])

-----------------------------------------------------------------------------
(* Contexts *)

\* set_event, field by field.
LEMMA SetEventFields ==
    ASSUME NEW c \in KeyContext, NEW current, NEW next, NEW due
    PROVE  LET d == SetEvent(c, current, next, due)
           IN  /\ d.event = current /\ d.next = next
               /\ d.state = c.state /\ d.green = c.green /\ d.valid = c.valid
  BY DEF SetEvent, KeyContext

\* A retiring context waits for its expiry, and for nothing else.
LEMMA PrepareExpirePhased ==
    ASSUME NEW c \in KeyContext
    PROVE  LET d == PrepareExpire(c, "NONE")
           IN  Phased(d) /\ d.next = "EXPIRE"
  BY SetEventFields DEF PrepareExpire, Phased

LEMMA NewContextPhased ==
    ASSUME NEW id, NEW initiator
    PROVE  LET d == NewContext(id, initiator)
           IN  Phased(d) /\ ~Old(d) /\ d.next = "NEGOTIATE" /\ d.event = "NONE" /\ d.valid
  BY DEF NewContext, Phased, Old

LEMMA InvalidatePhased ==
    ASSUME NEW c \in KeyContext, Phased(c)
    PROVE  LET d == Invalidate(c)
           IN  Phased(d) /\ d.next \in {c.next, "NONE"}
  BY DEF Invalidate, KeyContext, Phased

\* An event that is reset leaves the phase of the next one.
LEMMA FreePhased ==
    ASSUME NEW c \in KeyContext, c.next \notin {"ACTIVE", "RENEGOTIATE_QUEUE"},
           c.next = "BECOME_PRIMARY" => c.valid,
           c.next = "NEGOTIATE" => c.state # "ACTIVE",
           c.next = "PRIMARY_PENDING" => ~c.green
    PROVE  LET d == [c EXCEPT !.event = "NONE"]
           IN  Phased(d) /\ d.next = c.next
  BY DEF KeyContext, Phased

\* What event_pending makes of a context: nothing, or the event that was next.
LEMMA PolledPhased ==
    ASSUME NEW c, Scheduled(c), Phased(c), NEW p \in Peer
    PROVE  LET d == Polled(p, c)
           IN  /\ d.next \notin {"ACTIVE", "RENEGOTIATE_QUEUE"}
               /\ d.next = "BECOME_PRIMARY" => d.valid
               /\ d.next = "NEGOTIATE" => d.state # "ACTIVE"
               /\ d.next = "PRIMARY_PENDING" => ~d.green
               /\ d.event \in {"ACTIVE", "RENEGOTIATE_QUEUE"} => d = c
               /\ d.event = "BECOME_PRIMARY" =>
                     c.next = "BECOME_PRIMARY" /\ d.next = "RENEGOTIATE" /\ d.valid
               /\ d.event = "EXPIRE" => c.next = "EXPIRE"
               /\ Old(d) => Old(c) \/ d.event = "BECOME_PRIMARY"
               /\ d.next = "EXPIRE" =>
                     c.next = "EXPIRE" \/ d.event \in {"RENEGOTIATE", "RENEGOTIATE_FORCE"}
  <1> DEFINE d == Polled(p, c)
  <1>0. c \in KeyContext
    BY DEF Scheduled
  <1>1. CASE d = c
    BY <1>1 DEF Phased
  <1>2. CASE d # c
    <2>1. c \in KeyContext /\ d = ProcessNextEvent(p, c) /\ c.event = "NONE"
      BY <1>0, <1>2 DEF Polled, Due
    <2>2. CASE c.next = "BECOME_PRIMARY" /\ DataLimitDefer(p, c)
      <3>1. d = SetEvent(c, "NONE", "PRIMARY_PENDING", 2 * HandshakeWindow) /\ ~c.green
        BY <2>1, <2>2 DEF ProcessNextEvent, DataLimitDefer
      <3>2. d.event = "NONE" /\ d.next = "PRIMARY_PENDING" /\ ~d.green
        BY <2>1, <3>1, SetEventFields
      <3> QED BY <3>2 DEF Old
    <2>3. CASE c.next = "BECOME_PRIMARY" /\ ~DataLimitDefer(p, c)
      <3>1. d = SetEvent(c, "BECOME_PRIMARY", "RENEGOTIATE", Remaining(c, RenegotiateOf(p)))
        BY <2>1, <2>3 DEF ProcessNextEvent
      <3>2. d.event = "BECOME_PRIMARY" /\ d.next = "RENEGOTIATE" /\ d.valid
        BY <2>1, <2>3, <3>1, SetEventFields DEF Phased
      <3> QED BY <2>3, <3>2
    <2>4. CASE c.next \in {"RENEGOTIATE", "RENEGOTIATE_FORCE"}
      <3>1. d = PrepareExpire(c, c.next)
        BY <2>1, <2>4 DEF ProcessNextEvent
      <3>2. d.event = c.next /\ d.next = "EXPIRE"
        BY <2>1, <3>1, SetEventFields DEF PrepareExpire
      <3> QED BY <2>4, <3>2 DEF Old
    <2>5. CASE c.next \in {"NEGOTIATE", "PRIMARY_PENDING", "EXPIRE"}
      <3> DEFINE e == Invalidate(c)
      <3>1. d = [e EXCEPT !.event = c.next]
        BY <2>1, <2>5 DEF ProcessNextEvent
      <3>2. e \in KeyContext /\ Phased(e) /\ e.next \in {c.next, "NONE"}
        BY <2>1, InvalidatePhased, InvalidateOk DEF Scheduled
      <3> HIDE DEF e
      <3>3. /\ d.event = c.next /\ d.next = e.next
            /\ d.state = e.state /\ d.green = e.green /\ d.valid = e.valid
        BY <3>1, <3>2 DEF KeyContext
      <3> QED BY <2>5, <3>2, <3>3 DEF Phased, Old
    <2> QED BY <1>2, <2>1, <2>2, <2>3, <2>4, <2>5 DEF ProcessNextEvent
  <1> QED BY <1>1, <1>2

\* A scheduled context has nothing unspecified.
LEMMA SpecifiedSame ==
    ASSUME NEW c, Scheduled(c)
    PROVE  SetNextEventIfUnspecified(c) = c
  BY DEF SetNextEventIfUnspecified, Scheduled

\* post_ack_action either leaves the events of a context alone or makes it
\* active, which it becomes before it is old.
LEMMA PostAckPhased ==
    ASSUME NEW c \in KeyContext, Phased(c), c.valid, NEW p \in Peer
    PROVE  LET d == PostAckAction(p, c)
           IN  Phased(d) /\ d.next \in {c.next, "BECOME_PRIMARY"}
  <1>1. CASE c.unacked # {}
    BY <1>1 DEF PostAckAction
  <1>2. CASE c.unacked = {} /\ c.state = "WAIT_RESET_ACK"
    <2> DEFINE un == IF p = "client" THEN {"auth"} ELSE {}
               d == [c EXCEPT !.state = "WAIT_AUTH", !.unacked = un]
    <2>1. PostAckAction(p, c) = d
      BY <1>2 DEF PostAckAction
    <2> HIDE DEF un
    <2>2. /\ d.event = c.event /\ d.next = c.next /\ d.valid = c.valid
          /\ d.green = c.green /\ d.state = "WAIT_AUTH"
      BY DEF KeyContext
    <2> HIDE DEF d
    <2> QED BY <2>1, <2>2 DEF Phased
  <1>3. CASE c.unacked = {} /\ c.state = "WAIT_AUTH_ACK"
    <2> DEFINE e == SetEvent(c, "ACTIVE", "BECOME_PRIMARY", BecomePrimary)
               d == [e EXCEPT !.state = "ACTIVE"]
    <2>1. PostAckAction(p, c) = d
      BY <1>3 DEF PostAckAction, Active
    <2>2. /\ d.event = "ACTIVE" /\ d.next = "BECOME_PRIMARY" /\ d.valid = c.valid
      BY DEF SetEvent, KeyContext
    <2> HIDE DEF d
    <2> QED BY <2>1, <2>2 DEF Phased
  <1>4. CASE c.unacked = {} /\ c.state \notin {"WAIT_RESET_ACK", "WAIT_AUTH_ACK"}
    BY <1>4 DEF PostAckAction
  <1> QED BY <1>1, <1>2, <1>3, <1>4

LEMMA ReceivedPhased ==
    ASSUME NEW c \in KeyContext, Phased(c), NEW p \in Peer, NEW m \in Message
    PROVE  LET d == Received(p, c, m)
           IN  Phased(d) /\ d.next = c.next /\ d.valid = c.valid
  <1> DEFINE st == IF m = "reset" THEN "WAIT_RESET_ACK" ELSE "WAIT_AUTH_ACK"
             un == IF p = "server" THEN c.unacked \cup {m} ELSE c.unacked
             d == [c EXCEPT !.state = st, !.unacked = un]
  <1>1. st # "ACTIVE" /\ Received(p, c, m) = d
    BY DEF Received
  <1> HIDE DEF st, un
  <1>2. /\ d.event = c.event /\ d.next = c.next /\ d.valid = c.valid
        /\ d.green = c.green /\ d.state = st
    BY DEF KeyContext
  <1> HIDE DEF d
  <1> QED BY <1>1, <1>2 DEF Phased

-----------------------------------------------------------------------------
(* The handlers of events.                                                 *)

\* disconnect takes next events away and adds none.
LEMMA DisconnectSteps ==
    ASSUME NEW s, Good(s), Aligned(s)
    PROVE  LET t == Disconnect(s)
           IN  /\ Aligned(t) /\ t.primary.id = s.primary.id
               /\ t.secondary # NoKey =>
                     s.secondary # NoKey /\ t.secondary.next \in {s.secondary.next, "NONE"}
  <1> DEFINE a == Invalidate(s.primary)
             b == IF s.secondary = NoKey THEN NoKey ELSE Invalidate(s.secondary)
             t == [s EXCEPT !.primary = a, !.secondary = b]
  <1>1. Disconnect(s) = t
    BY DEF Disconnect
  <1>2. /\ s.primary \in KeyContext /\ s \in ProtoContext
        /\ s.secondary # NoKey => s.secondary \in KeyContext
    BY DEF Good, Scheduled
  <1>3. Phased(a) /\ a.next \in {s.primary.next, "NONE"} /\ a.id = s.primary.id
    BY <1>2, InvalidatePhased, InvalidateOk DEF Aligned
  <1>4. b # NoKey =>
          s.secondary # NoKey /\ Phased(b) /\ b.next \in {s.secondary.next, "NONE"}
    BY <1>2, InvalidatePhased DEF Aligned
  <1> HIDE DEF a, b
  <1>5. t.primary = a /\ t.secondary = b
    BY <1>2 DEF ProtoContext
  <1> HIDE DEF t
  <1> QED BY <1>1, <1>3, <1>4, <1>5 DEF Aligned, Old

\* The swap, beside a primary that has had its time.
LEMMA PromoteSteps ==
    ASSUME NEW s, Good(s), Phased(s.secondary), s.secondary.next # "EXPIRE"
    PROVE  Aligned(Promote(s))
  <1> DEFINE c == PrepareExpire(s.primary, "NONE")
             d == s.secondary
             t == [s EXCEPT !.primary = d, !.secondary = c]
  <1>1. s \in ProtoContext /\ s.primary \in KeyContext /\ Promote(s) = t
    BY DEF Good, Scheduled, Promote
  <1>2. Phased(c) /\ c.next = "EXPIRE"
    BY <1>1, PrepareExpirePhased
  <1>3. Phased(d) /\ d.next # "EXPIRE"
    OBVIOUS
  <1> HIDE DEF c, d
  <1>4. t.primary = d /\ t.secondary = c
    BY <1>1 DEF ProtoContext
  <1> HIDE DEF t
  <1> QED BY <1>1, <1>2, <1>3, <1>4 DEF Aligned

\* A new secondary context, whatever the deadline of the primary.
LEMMA NewSecondarySteps ==
    ASSUME NEW s, Good(s), Phased(s.primary), NEW initiator \in BOOLEAN
    PROVE  LET t == NewSecondary(s, initiator)
           IN  /\ Aligned(t) /\ t.primary = s.primary
               /\ t.secondary.next = "NEGOTIATE" /\ t.secondary.event = "NONE"
               /\ t.secondary.valid /\ Phased(t.secondary)
  <1> DEFINE c == NewContext(s.upcoming, initiator)
             t == NewSecondary(s, initiator)
  <1>1. Phased(c) /\ ~Old(c) /\ c.next = "NEGOTIATE" /\ c.event = "NONE" /\ c.valid
    BY NewContextPhased
  <1>2. t.secondary = c /\ t.primary = s.primary
    BY DEF NewSecondary, Good, ProtoContext
  <1> HIDE DEF c, t
  <1> QED BY <1>1, <1>2 DEF Aligned, t

\* process_primary_event: the last part is about the secondary that
\* process_secondary_event then finds.
LEMMA PrimarySteps ==
    ASSUME NEW s, Good(s), Aligned(s), NEW p \in Peer
    PROVE  LET t == ProcessPrimaryEvent(p, s)
           IN  /\ Steps(s, t)
               /\ Retired(s.secondary) /\ t.secondary # NoKey =>
                     t.secondary.next # "BECOME_PRIMARY"
  <1> DEFINE c     == Polled(p, s.primary)
             free  == [c EXCEPT !.event = "NONE"]
             taken == [s EXCEPT !.primary = free]
             done  == CASE c.event \in {"RENEGOTIATE", "RENEGOTIATE_FORCE"} ->
                             NewSecondary(taken, TRUE)
                        [] c.event = "EXPIRE" /\ HasSecondary(s) -> Promote(taken)
                        [] c.event = "EXPIRE" /\ ~HasSecondary(s) -> Disconnect(taken)
                        [] c.event = "NEGOTIATE" -> Disconnect(taken)
                        [] OTHER -> taken
             t     == ProcessPrimaryEvent(p, s)
  <1> SUFFICES /\ Steps(s, t)
               /\ Retired(s.secondary) /\ t.secondary # NoKey =>
                     t.secondary.next # "BECOME_PRIMARY"
    OBVIOUS
  <1>1. /\ Scheduled(s.primary) /\ s \in ProtoContext /\ "NONE" \in Event
        /\ s.secondary # NoKey => Scheduled(s.secondary)
        /\ s.secondary # NoKey => s.primary.id # 0 \/ s.secondary.id # 0
        /\ Phased(s.primary)
    BY DEF Good, Event, Aligned
  <1>2. Scheduled(c) /\ c.id = s.primary.id /\ c \in KeyContext
    BY <1>1, PolledOk DEF Scheduled
  <1>3. /\ c.next \notin {"ACTIVE", "RENEGOTIATE_QUEUE"}
        /\ c.next = "BECOME_PRIMARY" => c.valid
        /\ c.next = "NEGOTIATE" => c.state # "ACTIVE"
        /\ c.next = "PRIMARY_PENDING" => ~c.green
        /\ c.event = "EXPIRE" => s.primary.next = "EXPIRE"
        /\ c.next = "EXPIRE" =>
              s.primary.next = "EXPIRE" \/ c.event \in {"RENEGOTIATE", "RENEGOTIATE_FORCE"}
    BY <1>1, PolledPhased
  <1>4. t = IF c.event = "NONE" THEN [s EXCEPT !.primary = c]
            ELSE [done EXCEPT !.primary = SetNextEventIfUnspecified(@)]
    BY DEF ProcessPrimaryEvent
  <1> HIDE DEF c, t
  <1>5. Phased(free) /\ free.next = c.next /\ Scheduled(free) /\ free.id = s.primary.id
    BY <1>1, <1>2, <1>3, FreePhased, EventOk
  <1>6. c.event = "NONE" => c = free
    BY <1>2 DEF KeyContext
  <1> HIDE DEF free
  <1>7. Good(taken) /\ taken.secondary = s.secondary /\ taken.primary = free
    BY <1>1, <1>5, SetPrimaryOk
  <1>8. ASSUME c.event # "NONE", Good(done) PROVE t = done
    <2> HIDE DEF taken, done
    <2>1. SetNextEventIfUnspecified(done.primary) = done.primary /\ done \in ProtoContext
      BY <1>8, SpecifiedSame DEF Good
    <2>2. [done EXCEPT !.primary = done.primary] = done
      BY <2>1 DEF ProtoContext
    <2> QED BY <1>4, <1>8, <2>1, <2>2
  <1>9. CASE c.event = "NONE"
    <2>1. t = taken
      BY <1>4, <1>6, <1>9
    <2> HIDE DEF taken
    <2> QED BY <1>3, <1>5, <1>7, <1>9, <2>1 DEF Steps, Aligned, Retired
  <1> HIDE DEF taken
  <1>10. CASE c.event \in {"RENEGOTIATE", "RENEGOTIATE_FORCE"}
    <2>1. done = NewSecondary(taken, TRUE)
      BY <1>10
    <2> HIDE DEF done
    <2>2. t = NewSecondary(taken, TRUE)
      BY <1>7, <1>8, <1>10, <2>1, NewSecondaryOk
    <2> QED BY <1>5, <1>7, <2>2, NewSecondarySteps DEF Steps
  <1>11. CASE c.event = "EXPIRE" /\ HasSecondary(s)
    <2>1. done = Promote(taken)
      BY <1>11
    <2> HIDE DEF done
    <2>2. s.secondary # NoKey /\ ~Old(s.secondary) /\ Phased(s.secondary)
      BY <1>3, <1>11 DEF HasSecondary, Aligned
    <2>3. Scheduled(taken.secondary) /\ (taken.primary.id # 0 \/ taken.secondary.id # 0)
      BY <1>1, <1>5, <1>7, <2>2
    <2>4. t = Promote(taken)
      BY <1>7, <1>8, <1>11, <2>1, <2>3, PromoteOk
    <2>5. Aligned(Promote(taken))
      BY <1>7, <2>2, PromoteSteps DEF Old
    <2> QED BY <2>2, <2>4, <2>5 DEF Steps, Retired, Old
  <1>12. CASE \/ c.event = "EXPIRE" /\ ~HasSecondary(s)
              \/ c.event = "NEGOTIATE"
    <2>1. done = Disconnect(taken)
      BY <1>12
    <2> HIDE DEF done
    <2>2. t = Disconnect(taken)
      BY <1>7, <1>8, <1>12, <2>1, DisconnectOk
    <2>3. Aligned(taken)
      BY <1>3, <1>5, <1>7, <1>12 DEF Aligned
    <2> QED BY <1>5, <1>7, <2>2, <2>3, DisconnectSteps DEF Steps, Retired
  <1>13. CASE c.event \notin {"NONE", "RENEGOTIATE", "RENEGOTIATE_FORCE", "EXPIRE", "NEGOTIATE"}
    <2>1. done = taken
      BY <1>13
    <2> HIDE DEF done
    <2>2. t = taken
      BY <1>7, <1>8, <1>13, <2>1
    <2> QED BY <1>3, <1>5, <1>7, <1>13, <2>2 DEF Steps, Aligned, Retired
  <1> QED BY <1>9, <1>10, <1>11, <1>12, <1>13
\* process_secondary_event promotes a context only when it was to become
\* primary.
LEMMA SecondarySteps ==
    ASSUME NEW s, Good(s), Aligned(s), NEW p \in Peer
    PROVE  LET t == ProcessSecondaryEvent(p, s)
           IN  /\ Aligned(t)
               /\ s.primary.id # t.primary.id =>
                     s.secondary # NoKey /\ s.secondary.next = "BECOME_PRIMARY"
  <1> DEFINE c     == Polled(p, s.secondary)
             free  == [c EXCEPT !.event = "NONE"]
             taken == [s EXCEPT !.secondary = free]
             done  == CASE c.event = "ACTIVE" ->
                             [taken EXCEPT !.primary = PrepareExpire(@, "NONE")]
                        [] c.event = "BECOME_PRIMARY" /\ c.valid -> Promote(taken)
                        [] c.event = "EXPIRE" -> [taken EXCEPT !.secondary = NoKey]
                        [] c.event = "RENEGOTIATE_QUEUE" /\ c.next = "BECOME_PRIMARY" ->
                             [taken EXCEPT !.primary =
                                 KeyLimitReneg(p, @, "RENEGOTIATE_FORCE", c.due)]
                        [] c.event \in {"NEGOTIATE", "PRIMARY_PENDING", "RENEGOTIATE_FORCE"} ->
                             NewSecondary(taken, TRUE)
                        [] OTHER -> taken
             final == [done EXCEPT !.secondary =
                         IF @ = NoKey THEN NoKey ELSE SetNextEventIfUnspecified(@)]
             t     == ProcessSecondaryEvent(p, s)
  <1> SUFFICES /\ Aligned(t)
               /\ s.primary.id # t.primary.id =>
                     s.secondary # NoKey /\ s.secondary.next = "BECOME_PRIMARY"
    OBVIOUS
  <1>1. CASE c = NoKey
    <2>1. t = s
      BY <1>1 DEF ProcessSecondaryEvent
    <2> HIDE DEF t
    <2> QED BY <2>1
  <1>2. CASE c # NoKey
    <2>1. /\ s.secondary # NoKey /\ "NONE" \in Event
          /\ Scheduled(s.primary) /\ Scheduled(s.secondary)
          /\ s.primary.id # 0 \/ s.secondary.id # 0
          /\ Phased(s.primary) /\ Phased(s.secondary)
          /\ Old(s.secondary) => s.primary.next # "EXPIRE"
      BY <1>2 DEF Polled, Good, Aligned, Event
    <2>2. Scheduled(c) /\ c.id = s.secondary.id /\ c \in KeyContext
      BY <2>1, PolledOk DEF Scheduled
    <2>3. /\ c.next \notin {"ACTIVE", "RENEGOTIATE_QUEUE"}
          /\ c.next = "BECOME_PRIMARY" => c.valid
          /\ c.next = "NEGOTIATE" => c.state # "ACTIVE"
          /\ c.next = "PRIMARY_PENDING" => ~c.green
          /\ c.event \in {"ACTIVE", "RENEGOTIATE_QUEUE"} => c = s.secondary
          /\ c.event = "BECOME_PRIMARY" =>
                s.secondary.next = "BECOME_PRIMARY" /\ c.next = "RENEGOTIATE" /\ c.valid
          /\ Old(c) => Old(s.secondary) \/ c.event = "BECOME_PRIMARY"
      BY <2>1, PolledPhased
    <2>4. /\ c.event = "NONE" => t = [s EXCEPT !.secondary = c]
          /\ c.event # "NONE" => t = final
      BY <1>2 DEF ProcessSecondaryEvent
    <2> HIDE DEF c, t
    <2>5. /\ Phased(free) /\ free.next = c.next /\ Scheduled(free)
          /\ free.id = s.secondary.id
      BY <2>1, <2>2, <2>3, FreePhased, EventOk
    <2>6. c.event = "NONE" => c = free
      BY <2>2 DEF KeyContext
    <2>7. s.primary \in KeyContext /\ c.due \in Nat
      BY <2>1, <2>2 DEF Scheduled, KeyContext
    <2> HIDE DEF free
    <2>8. /\ Good(taken) /\ taken \in ProtoContext
          /\ taken.primary = s.primary /\ taken.secondary = free
      BY <2>1, <2>5, SetSecondaryOk DEF Good
    <2>9. ASSUME c.event # "NONE", Good(done) PROVE t = done
      <3> HIDE DEF taken, done
      <3>1. /\ done.secondary # NoKey =>
                  SetNextEventIfUnspecified(done.secondary) = done.secondary
            /\ done \in ProtoContext
        BY <2>9, SpecifiedSame DEF Good
      <3>2. [done EXCEPT !.secondary = done.secondary] = done
        BY <3>1 DEF ProtoContext
      <3>3. final = [done EXCEPT !.secondary = done.secondary]
        BY <3>1
      <3> QED BY <2>4, <2>9, <3>2, <3>3
    <2>10. c.event # "BECOME_PRIMARY" => Aligned(taken)
      <3> HIDE DEF taken
      <3> QED BY <2>1, <2>3, <2>5, <2>8 DEF Aligned, Old
    <2>11. CASE c.event = "NONE"
      <3>1. t = taken
        BY <2>4, <2>6, <2>11
      <3> HIDE DEF taken
      <3> QED BY <2>8, <2>10, <2>11, <3>1
    <2> HIDE DEF taken
    <2>12. CASE c.event = "ACTIVE"
      <3> DEFINE a == PrepareExpire(s.primary, "NONE")
                 x == [taken EXCEPT !.primary = a]
      <3>1. done = x
        BY <2>8, <2>12
      <3> HIDE DEF done
      <3>2. Scheduled(a) /\ a.id = s.primary.id /\ Phased(a)
        BY <2>1, <2>7, PrepareExpireOk, PrepareExpirePhased
      <3> HIDE DEF a
      <3>3. Good(x) /\ x.primary = a /\ x.secondary = free
        BY <2>1, <2>5, <2>8, <3>2, SetPrimaryOk
      <3>4. t = x
        BY <2>9, <2>12, <3>1, <3>3
      <3>5. ~Old(free)
        BY <2>1, <2>3, <2>5, <2>12 DEF Phased, Old
      <3> HIDE DEF x
      <3> QED BY <2>5, <3>2, <3>3, <3>4, <3>5 DEF Aligned
    <2>13. CASE c.event = "BECOME_PRIMARY"
      <3>1. done = Promote(taken)
        BY <2>3, <2>13
      <3> HIDE DEF done
      <3>2. Good(Promote(taken))
        BY <2>1, <2>5, <2>8, PromoteOk
      <3>3. t = Promote(taken)
        BY <2>9, <2>13, <3>1, <3>2
      <3>4. Aligned(Promote(taken))
        BY <2>3, <2>5, <2>8, <2>13, PromoteSteps
      <3> QED BY <2>1, <2>3, <2>13, <3>3, <3>4
    <2>14. CASE c.event = "EXPIRE"
      <3> DEFINE x == [taken EXCEPT !.secondary = NoKey]
      <3>1. done = x
        BY <2>14
      <3> HIDE DEF done
      <3>2. Good(x) /\ x.primary = s.primary /\ x.secondary = NoKey
        BY <2>8, SetSecondaryOk
      <3>3. t = x
        BY <2>9, <2>14, <3>1, <3>2
      <3> HIDE DEF x
      <3> QED BY <2>1, <3>2, <3>3 DEF Aligned
    <2>15. CASE c.event = "RENEGOTIATE_QUEUE" /\ c.next = "BECOME_PRIMARY"
      <3> DEFINE a == KeyLimitReneg(p, s.primary, "RENEGOTIATE_FORCE", c.due)
                 x == [taken EXCEPT !.primary = a]
      <3>1. done = x
        BY <2>8, <2>15
      <3> HIDE DEF done
      <3>2. Scheduled(a) /\ a.id = s.primary.id
        <4>1. "RENEGOTIATE_FORCE" \in Event \ {"NONE"}
          BY DEF Event
        <4> QED BY <2>7, <4>1, KeyLimitRenegOk
      <3>3. a.next = "RENEGOTIATE_FORCE" /\ a.event = "NONE"
        BY <2>7, SetEventFields DEF KeyLimitReneg
      <3> HIDE DEF a
      <3>4. Good(x) /\ x.primary = a /\ x.secondary = free
        BY <2>1, <2>5, <2>8, <3>2, SetPrimaryOk
      <3>5. t = x
        BY <2>9, <2>15, <3>1, <3>4
      <3> HIDE DEF x
      <3> QED BY <2>5, <3>2, <3>3, <3>4, <3>5 DEF Aligned, Phased
    <2>16. CASE c.event \in {"NEGOTIATE", "PRIMARY_PENDING", "RENEGOTIATE_FORCE"}
      <3>1. done = NewSecondary(taken, TRUE)
        BY <2>16
      <3> HIDE DEF done
      <3>2. t = NewSecondary(taken, TRUE)
        BY <2>8, <2>9, <2>16, <3>1, NewSecondaryOk
      <3> QED BY <2>1, <2>8, <3>2, NewSecondarySteps
    <2>17. CASE /\ ~(c.event = "RENEGOTIATE_QUEUE" /\ c.next = "BECOME_PRIMARY")
                /\ c.event \notin {"NONE", "ACTIVE", "BECOME_PRIMARY", "EXPIRE", "NEGOTIATE",
                                    "PRIMARY_PENDING", "RENEGOTIATE_FORCE"}
      <3>1. done = taken
        BY <2>17
      <3> HIDE DEF done
      <3> QED BY <2>8, <2>9, <2>10, <2>17, <3>1
    <2> QED BY <2>11, <2>12, <2>13, <2>14, <2>15, <2>16, <2>17
  <1> QED BY <1>1, <1>2
-----------------------------------------------------------------------------
(* Packets, key limits and time.                                           *)

\* One context changes and keeps its id; it does not get old by that.
LEMMA SlotSteps ==
    ASSUME NEW s, Good(s), Aligned(s), NEW slot \in Slot,
           slot = "secondary" => s.secondary # NoKey,
           NEW a, Phased(a), a.id = s[slot].id,
           slot = "primary" /\ a.next = "EXPIRE" => s.primary.next = "EXPIRE",
           slot = "secondary" /\ Old(a) => Old(s.secondary)
    PROVE  Steps(s, [s EXCEPT ![slot] = a])
  <1> DEFINE t == [s EXCEPT ![slot] = a]
  <1>1. s \in ProtoContext
    BY DEF Good
  <1>2. CASE slot = "primary"
    <2>1. t.primary = a /\ t.secondary = s.secondary /\ a.id = s.primary.id
      BY <1>1, <1>2 DEF ProtoContext
    <2> HIDE DEF t
    <2>2. Steps(s, t)
      BY <1>2, <2>1 DEF Steps, Aligned
    <2> QED BY <2>2 DEF t
  <1>3. CASE slot = "secondary"
    <2>1. t.primary = s.primary /\ t.secondary = a
      BY <1>1, <1>3 DEF ProtoContext
    <2> HIDE DEF t
    <2>2. Steps(s, t)
      BY <1>3, <2>1 DEF Steps, Aligned
    <2> QED BY <2>2 DEF t
  <1> QED BY <1>2, <1>3 DEF Slot

\* The phase of the context in a slot.
LEMMA InSlotPhased ==
    ASSUME NEW s, Good(s), Aligned(s), NEW slot \in Slot,
           slot = "secondary" => s.secondary # NoKey
    PROVE  s[slot] \in KeyContext /\ Phased(s[slot])
  BY InSlot DEF Aligned, Slot, Scheduled

\* A control packet for a context of the peer.
LEMMA HandledPhased ==
    ASSUME NEW c, Scheduled(c), Phased(c), c.valid, NEW p \in Peer, NEW m \in Message
    PROVE  LET d == PostAckAction(p, Received(p, c, m))
           IN  Phased(d) /\ d.next \in {c.next, "BECOME_PRIMARY"} /\ d.id = c.id
  <1> DEFINE r == Received(p, c, m)
  <1>1. /\ Phased(r) /\ r.next = c.next /\ r.valid
        /\ Scheduled(r) /\ r.id = c.id /\ r \in KeyContext
    BY ReceivedPhased, ReceivedOk DEF Scheduled
  <1> HIDE DEF r
  <1>2. LET d == PostAckAction(p, r)
        IN  Phased(d) /\ d.next \in {c.next, "BECOME_PRIMARY"} /\ d.id = c.id
    BY <1>1, PostAckPhased, PostAckActionOk
  <1> QED BY <1>2 DEF r

\* A control packet that is accepted.
LEMMA MessageSteps ==
    ASSUME NEW s, Good(s), Aligned(s), NEW p \in Peer, NEW id, NEW m \in Message,
           LET to == Destination(s, id, m)
           IN  to = "soft_reset" \/ (to \in Slot /\ s[to].valid)
    PROVE  Steps(s, AfterMessage(p, s, id, m))
  <1> DEFINE to   == Destination(s, id, m)
             t    == IF to = "soft_reset" THEN NewSecondary(s, FALSE) ELSE s
             slot == IF to = "primary" THEN "primary" ELSE "secondary"
             a    == PostAckAction(p, Received(p, t[slot], m))
  <1>1. CASE to = "soft_reset"
    <2>1. t = NewSecondary(s, FALSE) /\ slot = "secondary"
      BY <1>1
    <2>2. AfterMessage(p, s, id, m) = [t EXCEPT !.secondary = a]
      BY <2>1 DEF AfterMessage, t, to, a
    <2> HIDE DEF t, to
    <2>3. a = PostAckAction(p, Received(p, t.secondary, m))
      BY <2>1
    <2>4. /\ Good(t) /\ Scheduled(t.secondary) /\ t.primary = s.primary
          /\ t.secondary.next = "NEGOTIATE" /\ t.secondary.valid /\ Phased(t.secondary)
          /\ Phased(s.primary)
      BY <2>1, NewSecondaryOk, NewSecondarySteps DEF Aligned
    <2>5. Phased(a) /\ ~Old(a)
      BY <2>3, <2>4, HandledPhased DEF Old
    <2> HIDE DEF a
    <2> DEFINE u == [t EXCEPT !.secondary = a]
    <2>6. u.primary = s.primary /\ u.secondary = a
      BY <2>4 DEF Good, ProtoContext
    <2> HIDE DEF u
    <2>7. Steps(s, u)
      BY <2>4, <2>5, <2>6 DEF Steps, Aligned
    <2> QED BY <2>2, <2>7 DEF u
  <1>2. CASE to \in Slot /\ s[to].valid
    <2>1. /\ t = s /\ slot = to /\ slot \in Slot /\ s[slot].valid
          /\ slot = "secondary" => s.secondary # NoKey
      BY <1>2 DEF Slot, Destination
    <2>2. AfterMessage(p, s, id, m) = [s EXCEPT ![slot] = a]
      BY <2>1 DEF AfterMessage
    <2> HIDE DEF t, to, slot
    <2>3. a = PostAckAction(p, Received(p, s[slot], m))
      BY <2>1
    <2>4. Scheduled(s[slot]) /\ Phased(s[slot])
      BY <2>1, InSlot, InSlotPhased
    <2>5. Phased(a) /\ a.next \in {s[slot].next, "BECOME_PRIMARY"} /\ a.id = s[slot].id
      BY <2>1, <2>3, <2>4, HandledPhased
    <2> HIDE DEF a
    <2>6. Steps(s, [s EXCEPT ![slot] = a])
      BY <2>1, <2>5, SlotSteps DEF Old
    <2> QED BY <2>2, <2>6
  <1> QED BY <1>1, <1>2

\* Time passes for a context.
LEMMA AgedPhased ==
    ASSUME NEW c \in KeyContext, Phased(c)
    PROVE  Phased(Aged(c)) /\ Aged(c).next = c.next
  <1> DEFINE due == IF c.due > 0 THEN c.due - 1 ELSE 0
             age == IF c.age < MaxAge THEN c.age + 1 ELSE c.age
             d   == [c EXCEPT !.due = due, !.age = age]
  <1>1. Aged(c) = c \/ Aged(c) = d
    BY DEF Aged
  <1> HIDE DEF due, age
  <1>2. /\ d.event = c.event /\ d.next = c.next /\ d.valid = c.valid
        /\ d.green = c.green /\ d.state = c.state
    BY DEF KeyContext
  <1> HIDE DEF d
  <1> QED BY <1>1, <1>2 DEF Phased

-----------------------------------------------------------------------------
(* Actions                                                                 *)

\* A peer is changed, the other one not.
LEMMA PeerSteps ==
    ASSUME RInv, NEW p \in Peer, NEW s, Steps(proto[p], s),
           proto' = [proto EXCEPT ![p] = s]
    PROVE  \A q \in Peer : Steps(proto[q], proto'[q])
  <1>1. \A q \in Peer : proto'[q] = IF q = p THEN s ELSE proto[q]
    BY DEF RInv, IInv, TypeOK
  <1>2. \A q \in Peer : Steps(proto[q], proto[q])
    BY DEF RInv, Steps
  <1> QED BY <1>1, <1>2

\* A context of a peer is changed.
LEMMA ContextSteps ==
    ASSUME RInv, NEW p \in Peer, NEW slot \in Slot,
           slot = "secondary" => proto[p].secondary # NoKey,
           NEW a, Phased(a), a.id = proto[p][slot].id,
           slot = "primary" /\ a.next = "EXPIRE" => proto[p].primary.next = "EXPIRE",
           slot = "secondary" /\ Old(a) => Old(proto[p].secondary),
           proto' = [proto EXCEPT ![p][slot] = a]
    PROVE  \A q \in Peer : Steps(proto[q], proto'[q])
  <1>1. Good(proto[p]) /\ Aligned(proto[p])
    BY DEF RInv, IInv
  <1>2. Steps(proto[p], [proto[p] EXCEPT ![slot] = a])
    BY <1>1, SlotSteps
  <1>3. proto' = [proto EXCEPT ![p] = [proto[p] EXCEPT ![slot] = a]]
    OBVIOUS
  <1> QED BY <1>2, <1>3, PeerSteps

LEMMA AckedSteps ==
    ASSUME RInv, NEW p \in Peer, NEW slot \in Slot, NEW m \in Message, Acked(p, slot, m)
    PROVE  \A q \in Peer : Steps(proto[q], proto'[q])
  <1> DEFINE c == proto[p][slot]
             d == [c EXCEPT !.unacked = @ \ {m}]
             a == PostAckAction(p, d)
  <1>1. /\ Good(proto[p]) /\ Aligned(proto[p])
        /\ slot = "secondary" => proto[p].secondary # NoKey
        /\ c.valid
    BY DEF RInv, IInv, Acked, CanBeAcked, Lives, Slot
  <1>2. proto' = [proto EXCEPT ![p][slot] = a]
    BY DEF Acked
  <1>3. c \in KeyContext /\ Phased(c) /\ Scheduled(c)
    BY <1>1, InSlot, InSlotPhased
  <1>4. d \in KeyContext /\ Scheduled(d) /\ d.id = c.id /\ Phased(d) /\ d.next = c.next /\ d.valid
    <2> HIDE DEF c
    <2>1. /\ d \in KeyContext /\ d.id = c.id /\ d.next = c.next /\ d.valid = c.valid
          /\ d.event = c.event /\ d.state = c.state /\ d.green = c.green
      BY <1>3 DEF KeyContext
    <2> HIDE DEF d
    <2> QED BY <1>1, <1>3, <2>1 DEF Scheduled, Phased
  <1>5. Phased(a) /\ a.next \in {c.next, "BECOME_PRIMARY"} /\ a.id = c.id
    <2> HIDE DEF c, d
    <2> QED BY <1>4, PostAckPhased, PostAckActionOk
  <1> HIDE DEF d, a
  <1> QED BY <1>1, <1>2, <1>5, ContextSteps DEF Old

LEMMA FirstDataSteps ==
    ASSUME RInv, NEW p \in Peer, NEW slot \in Slot, FirstData(p, slot)
    PROVE  \A q \in Peer : Steps(proto[q], proto'[q])
  <1> DEFINE c == proto[p][slot]
             d == [c EXCEPT !.green = TRUE]
             e == SetEvent(d, "NONE", "BECOME_PRIMARY", 1)
             a == IF d.next = "PRIMARY_PENDING" THEN e ELSE d
  <1>1. /\ Good(proto[p]) /\ Aligned(proto[p])
        /\ slot = "secondary" => proto[p].secondary # NoKey
        /\ c.valid
    BY DEF RInv, IInv, FirstData, DataArrives, Lives, Slot
  <1>2. proto' = [proto EXCEPT ![p][slot] = a]
    BY DEF FirstData
  <1>3. c \in KeyContext /\ Phased(c)
    BY <1>1, InSlotPhased
  <1>4. Phased(a) /\ a.next \in {c.next, "BECOME_PRIMARY"} /\ a.id = c.id
    <2> HIDE DEF c
    <2>1. /\ d \in KeyContext /\ d.id = c.id /\ d.next = c.next /\ d.valid = c.valid
          /\ d.event = c.event /\ d.state = c.state
      BY <1>3 DEF KeyContext
    <2> HIDE DEF d
    <2>2. /\ e.event = "NONE" /\ e.next = "BECOME_PRIMARY" /\ e.valid = d.valid
          /\ e.id = d.id
      BY <2>1 DEF SetEvent, KeyContext
    <2> HIDE DEF e
    <2> QED BY <1>1, <1>3, <2>1, <2>2 DEF Phased
  <1> HIDE DEF d, e, a
  <1> QED BY <1>1, <1>2, <1>4, ContextSteps DEF Old

\* A key whose limit is reached is active: if it is not yet to become primary,
\* it has been.
LEMMA KeyLimitSteps ==
    ASSUME RInv, NEW p \in Peer, NEW slot \in Slot, KeyLimit(p, slot)
    PROVE  \A q \in Peer : Steps(proto[q], proto'[q])
  <1> DEFINE c == proto[p][slot]
             d == [c EXCEPT !.fired = TRUE]
             u == [d EXCEPT !.event = "RENEGOTIATE_QUEUE"]
             l == KeyLimitReneg(p, d, "RENEGOTIATE", 0)
             a == IF d.next = "BECOME_PRIMARY" THEN u ELSE l
  <1>1. /\ Good(proto[p]) /\ Aligned(proto[p])
        /\ slot = "secondary" => proto[p].secondary # NoKey /\ c.green
        /\ c.valid /\ c.state = "ACTIVE"
    BY DEF RInv, IInv, KeyLimit, Lives, Slot
  <1>2. proto' = [proto EXCEPT ![p][slot] = a]
    BY DEF KeyLimit
  <1>3. c \in KeyContext /\ Phased(c) /\ Scheduled(c)
    BY <1>1, InSlot, InSlotPhased
  <1>4. /\ Phased(a) /\ a.id = c.id /\ (a.next # "EXPIRE" \/ a.next = c.next)
        /\ slot = "secondary" /\ Old(a) => Old(c)
    <2> HIDE DEF c
    <2>1. /\ d \in KeyContext /\ d.id = c.id /\ d.next = c.next /\ d.valid = c.valid
          /\ d.event = c.event /\ d.state = c.state /\ d.green = c.green
      BY <1>3 DEF KeyContext
    <2> HIDE DEF d
    <2>2. /\ u.event = "RENEGOTIATE_QUEUE" /\ u.next = d.next /\ u.valid = d.valid
          /\ u.id = d.id /\ u.state = d.state /\ u.green = d.green
      BY <2>1 DEF KeyContext
    <2>3. l.event = "NONE" /\ l.next = "RENEGOTIATE" /\ l.id = d.id
      BY <2>1 DEF KeyLimitReneg, SetEvent, KeyContext
    <2> HIDE DEF u, l
    <2>4. CASE d.next = "BECOME_PRIMARY"
      BY <1>1, <2>1, <2>2, <2>4 DEF Phased, Old
    <2>5. CASE d.next # "BECOME_PRIMARY"
      <3>1. Phased(l)
        BY <2>3 DEF Phased
      <3>2. slot = "secondary" => Old(c)
        BY <1>1, <1>3, <2>1, <2>5 DEF Phased, Scheduled, KeyContext, Event, Old
      <3> QED BY <2>1, <2>3, <2>5, <3>1, <3>2
    <2> QED BY <2>4, <2>5
  <1> HIDE DEF d, u, l, a
  <1> QED BY <1>1, <1>2, <1>4, ContextSteps

\* Every step.
LEMMA NextSteps ==
    ASSUME RInv, [Next]_vars
    PROVE  \A q \in Peer : Steps(proto[q], proto'[q])
  <1>0. \A q \in Peer : Good(proto[q]) /\ Aligned(proto[q])
    BY DEF RInv, IInv
  <1>1. ASSUME NEW p \in Peer, NEW slot \in Slot, NEW m \in Message, Receive(p, slot, m)
        PROVE  \A q \in Peer : Steps(proto[q], proto'[q])
    <2> DEFINE id == proto[Other(p)][slot].id
    <2>1. Accepts(p, id, m) /\ proto' = [proto EXCEPT ![p] = AfterMessage(p, proto[p], id, m)]
      BY <1>1 DEF Receive, CanReceive
    <2> HIDE DEF id
    <2>2. Steps(proto[p], AfterMessage(p, proto[p], id, m))
      BY <1>0, <2>1, MessageSteps DEF Accepts
    <2> QED BY <2>1, <2>2, PeerSteps
  <1>2. ASSUME NEW p \in Peer, NEW slot \in Slot, NEW m \in Message, Acked(p, slot, m)
        PROVE  \A q \in Peer : Steps(proto[q], proto'[q])
    BY <1>2, AckedSteps
  <1>3. ASSUME NEW p \in Peer, NEW slot \in Slot, FirstData(p, slot)
        PROVE  \A q \in Peer : Steps(proto[q], proto'[q])
    BY <1>3, FirstDataSteps
  <1>4. ASSUME NEW p \in Peer, NEW slot \in Slot, KeyLimit(p, slot)
        PROVE  \A q \in Peer : Steps(proto[q], proto'[q])
    BY <1>4, KeyLimitSteps
  <1>5. ASSUME NEW p \in Peer, ProcessEvents(p)
        PROVE  \A q \in Peer : Steps(proto[q], proto'[q])
    <2> DEFINE s == ProcessPrimaryEvent(p, proto[p])
               t == ProcessSecondaryEvent(p, s)
    <2>1. /\ Good(s) /\ Steps(proto[p], s)
          /\ Retired(proto[p].secondary) /\ s.secondary # NoKey =>
                s.secondary.next # "BECOME_PRIMARY"
      BY <1>0, PrimarySteps, ProcessPrimaryEventOk
    <2>2. proto' = [proto EXCEPT ![p] = t]
      BY <1>5 DEF ProcessEvents
    <2> HIDE DEF s
    <2>3. /\ Aligned(t)
          /\ s.primary.id # t.primary.id =>
                s.secondary # NoKey /\ s.secondary.next = "BECOME_PRIMARY"
      BY <2>1, SecondarySteps DEF Steps
    <2> HIDE DEF t
    <2>4. Steps(proto[p], t)
      BY <2>1, <2>3 DEF Steps
    <2> QED BY <2>2, <2>4, PeerSteps
  <1>6. ASSUME NEW p \in Peer, KeepaliveTimeout(p)
        PROVE  \A q \in Peer : Steps(proto[q], proto'[q])
    <2>1. Steps(proto[p], Disconnect(proto[p]))
      BY <1>0, DisconnectSteps DEF Steps
    <2> QED BY <1>6, <2>1, PeerSteps DEF KeepaliveTimeout
  <1>7. ASSUME Tick, NEW q \in Peer
        PROVE  Steps(proto[q], proto'[q])
    <2> DEFINE s == proto[q]
               a == Aged(s.primary)
               b == Aged(s.secondary)
               t == [s EXCEPT !.primary = a, !.secondary = b]
    <2>1. proto'[q] = s \/ proto'[q] = t
      BY <1>7 DEF Tick
    <2>2. Good(s) /\ Aligned(s) /\ s \in ProtoContext
      BY <1>0 DEF Good
    <2> HIDE DEF s
    <2>3. Phased(a) /\ a.next = s.primary.next /\ a.id = s.primary.id
      BY <2>2, AgedPhased, AgedOk DEF Good, Scheduled, Aligned, Aged
    <2>4. b # NoKey => s.secondary # NoKey /\ Phased(b) /\ b.next = s.secondary.next
      BY <2>2, AgedPhased DEF Good, Scheduled, Aligned, Aged
    <2> HIDE DEF a, b
    <2>5. t.primary = a /\ t.secondary = b
      BY <2>2 DEF ProtoContext
    <2> HIDE DEF t
    <2>6. Steps(s, t) /\ Steps(s, s)
      BY <2>2, <2>3, <2>4, <2>5 DEF Steps, Aligned, Old
    <2> QED BY <2>1, <2>6 DEF s
  <1>8. CASE UNCHANGED vars
    BY <1>0, <1>8 DEF vars, Steps
  <1> QED BY <1>1, <1>2, <1>3, <1>4, <1>5, <1>6, <1>7, <1>8 DEF Next

-----------------------------------------------------------------------------
(* Theorems                                                                *)

\* At both ends no primary that is about to expire has a retired or aged key
\* beside it, and an event that waits is one of active() or of a key limit.
THEOREM KeysAligned == Spec => []RInv
  <1>1. Init => RInv
    <2> SUFFICES ASSUME Init, NEW p \in Peer
                 PROVE  Aligned(proto[p])
      BY InitInv DEF RInv
    <2> DEFINE c == NewContext(0, p = "client")
    <2>1. Phased(c)
      BY NewContextPhased
    <2>2. proto[p] = [primary |-> c, secondary |-> NoKey, upcoming |-> 1]
      BY DEF Init
    <2> HIDE DEF c
    <2> QED BY <2>1, <2>2 DEF Aligned
  <1>2. RInv /\ [Next]_vars => RInv'
    BY NextInv, NextSteps DEF RInv, Steps
  <1> QED BY <1>1, <1>2, PTL DEF Spec

\* promote_secondary_to_primary never brings back the key that it retired,
\* however renegotiations fail, collide, are forced or are late.
THEOREM RetiredForGood == Spec => RetiredStaysRetired
  <1>1. RInv /\ [Next]_vars =>
            [\A p \in Peer :
                proto[p].primary.id # proto'[p].primary.id =>
                    ~Retired(proto[p].secondary)]_vars
    BY NextSteps DEF Steps
  <1> QED BY <1>1, KeysAligned, PTL DEF Spec, RetiredStaysRetired
=============================================================================
