---------------------- MODULE ClientConnectWaitsProofs ----------------------
(***************************************************************************)
(* Proofs about the waits of ClientConnect, for every configuration, every *)
(* set of errors and any number of sessions: no attempt is without the     *)
(* timer that ends it, and no wait left over from an earlier attempt, or   *)
(* resolution that ends late, replaces a session that was answered.        *)
(*                                                                         *)
(* A wait is armed, or its handler is queued; the argument follows it from *)
(* the one to the other.                                                   *)
(***************************************************************************)
EXTENDS ClientConnectProofs

-----------------------------------------------------------------------------
(* The inductive invariant.                                                *)

\* Every wait, armed or expired, was armed for a session that was started.
Numbered ==
    /\ cc.session.state = "live" => cc.generation >= 1
    /\ cc.timers.conn = NotArmed \/ (cc.timers.conn >= 1 /\ cc.timers.conn <= cc.generation)
    /\ \A op \in Ops, gen \in Nat :
          Queued(op, gen) => gen <= cc.generation /\ (op = "conn" => gen >= 1)

\* A silent session is under a server poll or restart wait.
Polled ==
    ~HttpProxy /\ cc.session.state = "live" /\ ~cc.session.first =>
        \/ cc.timers.server_poll = cc.generation \/ Queued("server_poll", cc.generation)
        \/ cc.timers.restart_wait = cc.generation \/ Queued("restart_wait", cc.generation)

\* conn_timer_pending is true from the start of an attempt until it connects,
\* and tells of a wait that is there.
Timed ==
    ConnTimeout =>
        /\ cc.session.state = "live" /\ ~cc.session.reached => cc.timers.conn_pending
        /\ cc.timers.conn_pending /\ ~cc.halt =>
              cc.timers.conn # NotArmed \/ \E gen \in Nat : Queued("conn", gen)

\* The application has asked for a new session.
Asked == asked \cap {"resume", "reconnect"} # {}

\* No session yet, and no wait that would start one.
Blank ==
    /\ cc.session.state = "none"
    /\ cc.timers.restart_wait = NotArmed /\ cc.timers.server_poll = NotArmed
    /\ \A gen \in Nat : ~Queued("restart_wait", gen) /\ ~Queued("server_poll", gen)

\* As long as it has not, nothing restarts a session that lives, and there is
\* none while the names are being resolved.
Quiet ==
    ~Asked =>
        /\ calling \notin {"resume", "reconnect"}
        /\ \A gen \in Nat : ~Queued("resume", gen) /\ ~Queued("reconnect", gen)
        /\ cc.session.state = "live" =>
              cc.timers.restart_wait = NotArmed /\ ~Queued("restart_wait", cc.generation)
        /\ cc.resolving => Blank

WaitsInv ==
    /\ Numbered /\ Polled /\ Timed /\ Quiet
    /\ thread \in {"idle", "setup"} => Blank /\ ~cc.resolving

-----------------------------------------------------------------------------
(* What an operation makes of an object.                                   *)

\* A new client, with the waits that new_client() arms.
Fresh(c, d) ==
    /\ ~c.halt /\ ~d.halt
    /\ d.generation = c.generation + 1
    /\ d.session = NewSession
    /\ d.timers = StartTimers(c.timers, d.generation)

Halts(c, d) ==
    /\ Good(d) /\ d.halt
    /\ d.generation \in {c.generation, c.generation + 1}

\* The session is gone, by a pause or because it ended.
Ends(c, d) ==
    /\ d.generation = c.generation /\ d.resolving = c.resolving
    /\ d.session.state # "live"
    /\ c.session.state = "none" => d.session.state = "none"
    /\ \/ d.timers = NoTimers
       \/ /\ c.session.state = "live" /\ d.halt = c.halt
          /\ \/ /\ d.timers.conn = c.timers.conn
                /\ d.timers.conn_pending = c.timers.conn_pending
             \/ d.timers.conn = NotArmed /\ ~d.timers.conn_pending

\* What there is of a session goes on.
Goes(c, d) ==
    /\ d.generation = c.generation /\ d.resolving = c.resolving /\ d.halt = c.halt
    /\ d.session.state = c.session.state
    /\ c.session.first => d.session.first
    /\ c.session.reached => d.session.reached
    /\ \/ /\ d.timers.server_poll = c.timers.server_poll
          /\ d.timers.restart_wait = c.timers.restart_wait
       \/ Asked /\ d.timers.restart_wait = c.generation
    /\ \/ /\ d.timers.conn = c.timers.conn
          /\ d.timers.conn_pending = c.timers.conn_pending
       \/ /\ d.timers.conn = NotArmed /\ ~d.timers.conn_pending
          /\ d.session.reached
       \/ /\ d.timers.conn = c.generation /\ c.session.state = "live"
          /\ d.timers.conn_pending = c.timers.conn_pending

\* The second part is AnsweredSessionKept.
Turns(c, d) ==
    /\ \/ Fresh(c, d) /\ (d.resolving => Asked)
       \/ Halts(c, d) \/ Ends(c, d) \/ Goes(c, d)
    /\ c.session.state = "live" /\ c.session.first /\ d.generation # c.generation => Asked

LEMMA NewClientFresh ==
    ASSUME NEW c, Good(c), ~c.halt
    PROVE  Fresh(c, NewClient(c)) /\ NewClient(c).resolving = c.resolving
  BY DEF Fresh, NewClient, Good, Objects

LEMMA SelfGoes ==
    ASSUME NEW c
    PROVE  Turns(c, c)
  BY DEF Turns, Goes

-----------------------------------------------------------------------------
(* The queue.                                                              *)

\* A handler that is posted is queued beside those that were.
LEMMA Posted ==
    ASSUME queue \in Seq(Handler), NEW h \in Handler, queue' = Append(queue, h)
    PROVE  \A op, gen : Queued(op, gen)' <=> Queued(op, gen) \/ h = [op |-> op, gen |-> gen]
  <1>1. /\ Len(queue') = Len(queue) + 1 /\ Len(queue) \in Nat
        /\ \A i \in 1..Len(queue) : queue'[i] = queue[i]
        /\ queue'[Len(queue) + 1] = h
    OBVIOUS
  <1> SUFFICES ASSUME NEW op, NEW gen
               PROVE  Queued(op, gen)' <=> Queued(op, gen) \/ h = [op |-> op, gen |-> gen]
    OBVIOUS
  <1> DEFINE r == [op |-> op, gen |-> gen]
  <1>2. Queued(op, gen) <=> \E i \in 1..Len(queue) : queue[i] = r
    BY DEF Queued
  <1>3. Queued(op, gen)' <=> \E i \in 1..Len(queue') : queue'[i] = r
    BY DEF Queued
  <1> HIDE DEF r
  <1>4. ASSUME NEW i \in 1..Len(queue), queue[i] = r
        PROVE  \E j \in 1..Len(queue') : queue'[j] = r
    <2>1. i \in 1..Len(queue') /\ queue'[i] = r
      BY <1>1, <1>4
    <2> QED BY <2>1
  <1>5. ASSUME h = r
        PROVE  \E j \in 1..Len(queue') : queue'[j] = r
    <2>1. Len(queue) + 1 \in 1..Len(queue')
      BY <1>1
    <2> QED BY <1>1, <1>5, <2>1
  <1>6. ASSUME NEW j \in 1..Len(queue'), queue'[j] = r
        PROVE  h = r \/ \E i \in 1..Len(queue) : queue[i] = r
    <2>1. j \in 1..Len(queue) \/ j = Len(queue) + 1
      BY <1>1
    <2> QED BY <1>1, <1>6, <2>1
  <1>7. h = r <=> h = [op |-> op, gen |-> gen]
    BY DEF r
  <1> QED BY <1>2, <1>3, <1>4, <1>5, <1>6, <1>7

\* A handler that runs leaves the others in the queue.
LEMMA Taken ==
    ASSUME queue \in Seq(Handler), queue # <<>>, queue' = Tail(queue)
    PROVE  /\ Head(queue) \in Handler
           /\ Queued(Head(queue).op, Head(queue).gen)
           /\ \A op, gen : /\ Queued(op, gen)' => Queued(op, gen)
                           /\ Queued(op, gen) => \/ Queued(op, gen)'
                                                 \/ Head(queue) = [op |-> op, gen |-> gen]
  <1>1. /\ Len(queue') = Len(queue) - 1 /\ Len(queue) \in Nat /\ Len(queue) >= 1
        /\ Head(queue) = queue[1] /\ Head(queue) \in Handler
        /\ \A i \in 1..Len(queue') : queue'[i] = queue[i + 1]
    OBVIOUS
  <1>2. Queued(Head(queue).op, Head(queue).gen)
    <2>1. Head(queue) = [op |-> Head(queue).op, gen |-> Head(queue).gen]
      BY <1>1 DEF Handler
    <2>2. 1 \in 1..Len(queue)
      BY <1>1
    <2> QED BY <1>1, <2>1, <2>2 DEF Queued
  <1>3. ASSUME NEW op, NEW gen
        PROVE  /\ Queued(op, gen)' => Queued(op, gen)
               /\ Queued(op, gen) => \/ Queued(op, gen)'
                                     \/ Head(queue) = [op |-> op, gen |-> gen]
    <2> DEFINE r == [op |-> op, gen |-> gen]
    <2>1. Queued(op, gen) <=> \E i \in 1..Len(queue) : queue[i] = r
      BY DEF Queued
    <2>2. Queued(op, gen)' <=> \E i \in 1..Len(queue') : queue'[i] = r
      BY DEF Queued
    <2> HIDE DEF r
    <2>3. ASSUME NEW j \in 1..Len(queue'), queue'[j] = r
          PROVE  \E i \in 1..Len(queue) : queue[i] = r
      <3>1. j + 1 \in 1..Len(queue)
        BY <1>1
      <3> QED BY <1>1, <2>3, <3>1
    <2>4. ASSUME NEW i \in 1..Len(queue), queue[i] = r, i # 1
          PROVE  \E j \in 1..Len(queue') : queue'[j] = r
      <3>1. i - 1 \in 1..Len(queue') /\ (i - 1) + 1 = i
        BY <1>1, <2>4
      <3> QED BY <1>1, <2>4, <3>1
    <2>5. Head(queue) = r <=> Head(queue) = [op |-> op, gen |-> gen]
      BY DEF r
    <2> QED BY <1>1, <2>1, <2>2, <2>3, <2>4, <2>5
  <1> QED BY <1>1, <1>2, <1>3

LEMMA Kept ==
    ASSUME UNCHANGED queue
    PROVE  \A op, gen : Queued(op, gen)' <=> Queued(op, gen)
  BY DEF Queued
-----------------------------------------------------------------------------
(* A step that runs an operation.                                          *)

\* A handler may leave the queue unless it is the timer of what goes on.
LEMMA TurnStep ==
    ASSUME IInv, IInv', WaitsInv, Turns(cc, cc'),
           UNCHANGED <<asked, calling>>, thread' \notin {"idle", "setup"},
           \A op, gen : Queued(op, gen)' => Queued(op, gen),
           \A gen \in Nat : Queued("conn", gen) /\ ~cc'.halt => Queued("conn", gen)',
           \A op \in {"restart_wait", "server_poll"} :
              /\ Queued(op, cc.generation) /\ cc'.generation = cc.generation
              /\ cc'.session.state = "live" /\ ~cc'.session.first
              => Queued(op, cc.generation)'
    PROVE  WaitsInv'
  <1>1. /\ Good(cc) /\ Good(cc')
        /\ cc.generation \in Nat /\ cc'.generation \in Nat
        /\ cc'.generation \in {cc.generation, cc.generation + 1}
        /\ cc.timers \in TimerSets /\ cc.session \in Sessions
    BY IInvGood DEF Turns, Fresh, Halts, Ends, Goes, Good, Objects, IInv, TypeOK
  <1>2. Numbered /\ Polled /\ Timed /\ Quiet
    BY DEF WaitsInv
  <1>3. CASE Halts(cc, cc')
    <2>1. /\ cc'.session.state # "live" /\ ~cc'.resolving /\ cc'.halt
          /\ cc'.timers.conn = NotArmed
      BY <1>3 DEF Halts, Good, Released
    <2>2. Numbered'
      BY <1>1, <1>2, <2>1 DEF Numbered
    <2>3. Polled' /\ Timed'
      BY <2>1 DEF Polled, Timed
    <2>4. Quiet'
      BY <1>2, <2>1 DEF Quiet, Asked, Ops, ApiOps
    <2> QED BY <2>2, <2>3, <2>4 DEF WaitsInv
  <1>4. CASE Fresh(cc, cc') /\ (cc'.resolving => Asked)
    <2>1. /\ cc'.generation = cc.generation + 1
          /\ cc'.session.state = "live" /\ ~cc'.session.first /\ ~cc'.session.reached
          /\ cc'.timers.restart_wait = NotArmed
          /\ ~HttpProxy => cc'.timers.server_poll = cc'.generation
          /\ cc'.timers.conn = IF ConnTimeout /\ ~cc.timers.conn_pending
                               THEN cc'.generation ELSE cc.timers.conn
          /\ cc'.timers.conn_pending = (cc.timers.conn_pending \/ ConnTimeout)
      BY <1>4 DEF Fresh, NewSession, StartTimers
    <2>2. Numbered'
      <3>1. cc.timers.conn \in Waits /\ cc'.generation >= 1
        BY <1>1, <2>1 DEF TimerSets
      <3>2. \/ cc'.timers.conn = NotArmed
            \/ cc'.timers.conn >= 1 /\ cc'.timers.conn <= cc'.generation
        BY <1>1, <1>2, <2>1, <3>1 DEF Numbered, Waits, NotArmed
      <3>3. ASSUME NEW op \in Ops, NEW gen \in Nat, Queued(op, gen)'
            PROVE  gen <= cc'.generation /\ (op = "conn" => gen >= 1)
        <4>1. gen <= cc.generation /\ (op = "conn" => gen >= 1)
          BY <1>2, <3>3 DEF Numbered
        <4> QED BY <1>1, <2>1, <4>1
      <3> QED BY <3>1, <3>2, <3>3 DEF Numbered
    <2>3. Polled'
      BY <2>1 DEF Polled
    <2>4. Timed'
      <3>1. CASE cc.timers.conn_pending /\ ConnTimeout
        <4>1. ~cc.halt
          BY <1>4 DEF Fresh
        <4>2. cc.timers.conn # NotArmed \/ \E gen \in Nat : Queued("conn", gen)
          BY <1>2, <3>1, <4>1 DEF Timed
        <4>3. cc'.timers.conn # NotArmed \/ \E gen \in Nat : Queued("conn", gen)'
          BY <1>4, <2>1, <3>1, <4>2 DEF Fresh
        <4> QED BY <2>1, <4>3 DEF Timed
      <3>2. CASE ~cc.timers.conn_pending /\ ConnTimeout
        <4>1. cc'.timers.conn # NotArmed
          BY <1>1, <2>1, <3>2 DEF NotArmed
        <4> QED BY <2>1, <3>2, <4>1 DEF Timed
      <3>3. CASE ~ConnTimeout
        BY <3>3 DEF Timed
      <3> QED BY <3>1, <3>2, <3>3
    <2>5. Quiet'
      <3>1. ~Queued("restart_wait", cc.generation)'
        BY <1>1, <1>2, <2>1, <2>2 DEF Numbered, Ops
      <3> QED BY <1>2, <1>4, <2>1, <3>1 DEF Quiet, Asked
    <2> QED BY <2>2, <2>3, <2>4, <2>5 DEF WaitsInv
  <1>5. CASE Ends(cc, cc')
    <2>1. cc'.generation = cc.generation /\ cc'.session.state # "live"
      BY <1>5 DEF Ends
    <2>2. \/ cc'.timers = NoTimers
          \/ cc'.timers.conn = NotArmed /\ ~cc'.timers.conn_pending
          \/ /\ cc'.timers.conn = cc.timers.conn /\ cc'.halt = cc.halt
             /\ cc'.timers.conn_pending = cc.timers.conn_pending
      BY <1>5 DEF Ends
    <2>3. /\ NoTimers.conn = NotArmed /\ ~NoTimers.conn_pending
          /\ NoTimers.restart_wait = NotArmed /\ NoTimers.server_poll = NotArmed
      BY DEF NoTimers
    <2>4. Numbered'
      BY <1>1, <1>2, <2>1, <2>2, <2>3 DEF Numbered
    <2>5. Polled'
      BY <2>1 DEF Polled
    <2>6. Timed'
      BY <1>2, <2>1, <2>2, <2>3 DEF Timed
    <2>7. Quiet'
      <3>1. ASSUME ~Asked, cc.resolving
            PROVE  Blank'
        <4>1. Blank
          BY <1>2, <3>1 DEF Quiet
        <4>2. cc'.timers = NoTimers /\ cc'.session.state = "none"
          BY <1>5, <4>1 DEF Ends, Blank
        <4> QED BY <2>3, <4>1, <4>2 DEF Blank
      <3>2. cc'.resolving = cc.resolving
        BY <1>5 DEF Ends
      <3> QED BY <1>2, <2>1, <3>1, <3>2 DEF Quiet, Asked
    <2> QED BY <2>4, <2>5, <2>6, <2>7 DEF WaitsInv
  <1>6. CASE Goes(cc, cc')
    <2>1. /\ cc'.generation = cc.generation /\ cc'.resolving = cc.resolving
          /\ cc'.halt = cc.halt /\ cc'.session.state = cc.session.state
      BY <1>6 DEF Goes
    <2>2. Numbered'
      BY <1>1, <1>2, <1>6, <2>1 DEF Numbered, Goes
    <2>3. Polled'
      BY <1>2, <1>6, <2>1 DEF Polled, Goes
    <2>4. Timed'
      <3>1. cc.generation # NotArmed
        BY <1>1 DEF NotArmed
      <3>2. CASE /\ cc'.timers.conn = cc.timers.conn
                 /\ cc'.timers.conn_pending = cc.timers.conn_pending
        BY <1>2, <1>6, <2>1, <3>2 DEF Timed, Goes
      <3>3. CASE ~cc'.timers.conn_pending /\ cc'.session.reached
        BY <3>3 DEF Timed
      <3>4. CASE /\ cc'.timers.conn = cc.generation
                 /\ cc'.timers.conn_pending = cc.timers.conn_pending
        BY <1>2, <1>6, <2>1, <3>1, <3>4 DEF Timed, Goes
      <3> QED BY <1>6, <3>2, <3>3, <3>4 DEF Goes
    <2>5. Quiet'
      <3> SUFFICES ASSUME ~Asked
                   PROVE  Quiet'
        BY DEF Quiet, Asked
      <3>1. /\ cc'.timers.server_poll = cc.timers.server_poll
            /\ cc'.timers.restart_wait = cc.timers.restart_wait
        BY <1>6 DEF Goes
      <3>2. cc'.resolving => Blank'
        BY <1>2, <2>1, <3>1 DEF Quiet, Blank
      <3> QED BY <1>2, <2>1, <3>1, <3>2 DEF Quiet
    <2> QED BY <2>2, <2>3, <2>4, <2>5 DEF WaitsInv
  <1> QED BY <1>3, <1>4, <1>5, <1>6 DEF Turns

\* A step that keeps the queue.
LEMMA QueueKept ==
    ASSUME IInv, IInv', WaitsInv, Turns(cc, cc'),
           UNCHANGED <<asked, calling, queue>>, thread' \notin {"idle", "setup"}
    PROVE  WaitsInv'
  <1>1. \A op, gen : Queued(op, gen)' <=> Queued(op, gen)
    BY Kept
  <1> QED BY <1>1, TurnStep

-----------------------------------------------------------------------------
(* The operations of the object.                                           *)

LEMMA StopTurns ==
    ASSUME NEW c, NEW d, Good(d), d.generation \in {c.generation, c.generation + 1},
           c.session.state = "live" /\ c.session.first /\ d.generation # c.generation => Asked
    PROVE  Turns(c, Stop(d))
  BY StopGood DEF Turns, Halts

\* new_client() from an object b that differs from c in what it tells.
LEMMA NewClientTurns ==
    ASSUME NEW c, NEW b, Good(b), ~b.halt, ~c.halt,
           b.generation = c.generation, b.timers = c.timers,
           b.resolving => Asked,
           c.session.state = "live" /\ c.session.first => Asked
    PROVE  Turns(c, NewClient(b))
  BY NewClientFresh DEF Turns, Fresh

LEMMA PauseTurns ==
    ASSUME NEW c, Good(c)
    PROVE  Turns(c, Pause(c))
  <1>1. CASE c.halt \/ c.paused
    BY <1>1, SelfGoes DEF Pause
  <1>2. CASE ~(c.halt \/ c.paused)
    <2>1. /\ Pause(c).generation = c.generation /\ Pause(c).resolving = c.resolving
          /\ Pause(c).session.state = HaltClient(c) /\ Pause(c).timers = NoTimers
      BY <1>2 DEF Pause, CancelTimers, Good, Objects, Sessions
    <2> QED BY <2>1 DEF Turns, Ends, HaltClient
  <1> QED BY <1>1, <1>2

LEMMA ResumeTurns ==
    ASSUME NEW c, Good(c), Asked
    PROVE  Turns(c, Resume(c))
  <1>1. CASE c.halt \/ ~c.paused
    BY <1>1, SelfGoes DEF Resume
  <1>2. CASE ~c.halt /\ c.paused
    <2> DEFINE t == Tell(c.told, "resumed")
               b == [c EXCEPT !.paused = FALSE, !.told = t]
    <2>1. Resume(c) = NewClient(b)
      BY <1>2 DEF Resume
    <2>2. t \in Tellings
      BY TellTyped DEF Good, Objects, Phases
    <2> HIDE DEF t
    <2>3. /\ b \in Objects /\ ~b.halt
          /\ b.timers = c.timers /\ b.generation = c.generation
      BY <1>2, <2>2 DEF Good, Objects
    <2>4. Good(b)
      BY <2>3 DEF Good, Released, Current
    <2> HIDE DEF b
    <2> QED BY <1>2, <2>1, <2>3, <2>4, NewClientTurns
  <1> QED BY <1>1, <1>2

LEMMA ReconnectTurns ==
    ASSUME NEW c, Good(c), Asked
    PROVE  Turns(c, Reconnect(c))
  <1>1. CASE c.halt
    BY <1>1, SelfGoes DEF Reconnect
  <1>2. CASE ~c.halt
    <2> DEFINE k == [c.timers EXCEPT !.server_poll = NotArmed, !.restart_wait = c.generation]
    <2>1. /\ k.restart_wait = c.generation /\ k.conn = c.timers.conn
          /\ k.conn_pending = c.timers.conn_pending
      BY DEF Good, Objects, TimerSets
    <2>2. Reconnect(c) = [c EXCEPT !.timers = k]
      BY <1>2 DEF Reconnect, Good, Objects
    <2> HIDE DEF k
    <2>3. /\ Reconnect(c).generation = c.generation /\ Reconnect(c).resolving = c.resolving
          /\ Reconnect(c).halt = c.halt /\ Reconnect(c).session = c.session
          /\ Reconnect(c).timers = k
      BY <2>2 DEF Good, Objects
    <2> QED BY <2>1, <2>3 DEF Turns, Goes
  <1> QED BY <1>1, <1>2

\* A wait of the current generation starts a client, unless it came too late.
LEMMA RestartWaitTurns ==
    ASSUME NEW c, Good(c), NEW gen,
           gen = c.generation /\ (c.session.state = "live" \/ c.resolving) => Asked
    PROVE  /\ Turns(c, RestartWait(c, gen))
           /\ gen = c.generation /\ RestartWait(c, gen).generation = c.generation
                 => c.halt
  <1>1. CASE gen # c.generation \/ c.halt
    BY <1>1, SelfGoes DEF RestartWait
  <1>2. CASE ~(gen # c.generation \/ c.halt) /\ c.paused
    <2> DEFINE t == Tell(c.told, "resumed")
               b == [c EXCEPT !.paused = FALSE, !.told = t]
    <2>1. RestartWait(c, gen) = NewClient(b)
      BY <1>2 DEF RestartWait, Resume
    <2>2. t \in Tellings
      BY TellTyped DEF Good, Objects, Phases
    <2> HIDE DEF t
    <2>3. /\ b \in Objects /\ ~b.halt /\ b.resolving = c.resolving
          /\ b.timers = c.timers /\ b.generation = c.generation
      BY <1>2, <2>2 DEF Good, Objects
    <2>4. Good(b)
      BY <2>3 DEF Good, Released, Current
    <2> HIDE DEF b
    <2>5. Turns(c, NewClient(b)) /\ NewClient(b).generation = c.generation + 1
      BY <1>2, <2>3, <2>4, NewClientTurns, NewClientFresh DEF Fresh
    <2>6. c.generation \in Nat
      BY DEF Good, Objects
    <2> QED BY <2>1, <2>5, <2>6
  <1>3. CASE ~(gen # c.generation \/ c.halt) /\ ~c.paused
    <2>1. RestartWait(c, gen) = NewClient(c)
      BY <1>3 DEF RestartWait
    <2>2. Turns(c, NewClient(c)) /\ NewClient(c).generation = c.generation + 1
      BY <1>3, NewClientTurns, NewClientFresh DEF Fresh
    <2>3. c.generation \in Nat
      BY DEF Good, Objects
    <2> QED BY <2>1, <2>2, <2>3
  <1> QED BY <1>1, <1>2, <1>3

LEMMA ServerPollTurns ==
    ASSUME NEW c, Good(c), NEW gen, gen = c.generation /\ c.resolving => Asked
    PROVE  /\ Turns(c, ServerPoll(c, gen))
           /\ gen = c.generation /\ ServerPoll(c, gen).generation = c.generation
                 => c.halt \/ (c.session.first /\ ServerPoll(c, gen) = c)
  <1>1. CASE gen # c.generation \/ c.halt \/ c.session.first
    BY <1>1, SelfGoes DEF ServerPoll
  <1>2. CASE ~(gen # c.generation \/ c.halt \/ c.session.first)
    <2>1. ServerPoll(c, gen) = NewClient(c)
      BY <1>2 DEF ServerPoll
    <2>2. Turns(c, NewClient(c)) /\ NewClient(c).generation = c.generation + 1
      BY <1>2, NewClientTurns, NewClientFresh DEF Fresh
    <2>3. c.generation \in Nat
      BY DEF Good, Objects
    <2> QED BY <2>1, <2>2, <2>3
  <1> QED BY <1>1, <1>2

LEMMA ConnTimerTurns ==
    ASSUME NEW c, Good(c), NEW gen
    PROVE  Turns(c, ConnTimer(c, gen)) /\ ConnTimer(c, gen).halt
  <1>1. CASE c.halt
    BY <1>1, SelfGoes DEF ConnTimer
  <1>2. CASE ~c.halt
    <2> DEFINE f == [c EXCEPT !.told.fatal = "CONNECTION_TIMEOUT"]
    <2>1. Good(f) /\ f.generation = c.generation
      BY FatalGood
    <2>2. ConnTimer(c, gen) = Stop(f)
      BY <1>2 DEF ConnTimer
    <2> HIDE DEF f
    <2> QED BY <2>1, <2>2, StopTurns, StopGood
  <1> QED BY <1>1, <1>2

\* The session connects: its connection timer is gone.
Connects(c, d) ==
    /\ d.generation = c.generation /\ d.resolving = c.resolving /\ d.halt = c.halt
    /\ d.session.state = c.session.state /\ d.session.first = c.session.first
    /\ d.session.reached
    /\ d.timers.server_poll = c.timers.server_poll
    /\ d.timers.restart_wait = c.timers.restart_wait
    /\ d.timers.conn = NotArmed /\ ~d.timers.conn_pending

LEMMA ProtoConnects ==
    ASSUME NEW c, Good(c)
    PROVE  Connects(c, ProtoConnected(c))
  <1> DEFINE k == [c.timers EXCEPT !.conn = NotArmed, !.conn_pending = FALSE]
             s == [c.session EXCEPT !.reached = TRUE]
             t == [Tell(c.told, "connected") EXCEPT !.last_connected = TRUE]
  <1>1. /\ k.conn = NotArmed /\ ~k.conn_pending
        /\ k.server_poll = c.timers.server_poll /\ k.restart_wait = c.timers.restart_wait
    BY DEF Good, Objects, TimerSets
  <1>2. s.state = c.session.state /\ s.first = c.session.first /\ s.reached
    BY DEF Good, Objects, Sessions
  <1>3. ProtoConnected(c) = [c EXCEPT !.timers = k, !.session = s, !.told = t]
    BY DEF ProtoConnected, Good, Objects
  <1> HIDE DEF k, s, t
  <1>4. /\ ProtoConnected(c).timers = k /\ ProtoConnected(c).session = s
        /\ ProtoConnected(c).generation = c.generation
        /\ ProtoConnected(c).resolving = c.resolving /\ ProtoConnected(c).halt = c.halt
    BY <1>3 DEF Good, Objects
  <1> QED BY <1>1, <1>2, <1>4 DEF Connects

\* The object of a session that ended, from the object c of the live one.
LEMMA ProtoTerminateTurns ==
    ASSUME NEW c, Good(c), c.session.state = "live",
           NEW s \in Sessions, s.state = "halted",
           NEW e \in ErrorCodes \ UnhandledErrors
    PROVE  LET d == ProtoTerminate([c EXCEPT !.session = s], e)
           IN  \/ Good(d) /\ d.halt /\ d.generation = c.generation
               \/ Ends(c, d) /\ d.timers # NoTimers
  <1> DEFINE b == [c EXCEPT !.session = s]
             f == [b EXCEPT !.told.fatal = e]
             r == [b EXCEPT !.relay = "handed"]
             d == ProtoTerminate(b, e)
  <1>1. ~c.halt /\ c.generation \in Nat /\ c.timers \in TimerSets
    BY LiveRuns DEF Good, Objects
  <1>2. /\ Good(b) /\ b.session = s /\ b.generation = c.generation /\ b.timers = c.timers
        /\ b.resolving = c.resolving /\ b.halt = c.halt
    BY SessionGood
  <1>3. /\ Good(f) /\ f.generation = c.generation /\ f.halt = c.halt
    <2> HIDE DEF b
    <2> QED BY <1>2, FatalGood
  <1>4. f.session = s /\ f.timers = c.timers /\ f.resolving = c.resolving
    BY <1>2 DEF Good, Objects
  <1>5. /\ r.session = s /\ r.timers = c.timers /\ r.resolving = c.resolving
        /\ r.generation = c.generation /\ r.halt = c.halt /\ r \in Objects
    BY <1>2 DEF Good, Objects
  <1>6. d \in {QueueRestart(b), QueueRestart(r), QueueRestart(f), Stop(f)}
    BY DEF ProtoTerminate, ErrorCodes, RestartErrors, StopErrors, UnhandledErrors
  <1>7. ASSUME NEW x \in Objects, x.session = s, x.timers = c.timers,
               x.resolving = c.resolving, x.generation = c.generation, x.halt = c.halt
        PROVE  Ends(c, QueueRestart(x)) /\ QueueRestart(x).timers # NoTimers
    <2> DEFINE k == [x.timers EXCEPT !.server_poll = NotArmed, !.restart_wait = x.generation]
    <2>1. /\ k.restart_wait = c.generation /\ k.conn = c.timers.conn
          /\ k.conn_pending = c.timers.conn_pending
      BY <1>1, <1>7 DEF TimerSets
    <2>2. QueueRestart(x) = [x EXCEPT !.timers = k]
      BY <1>7 DEF QueueRestart, Objects
    <2> HIDE DEF k
    <2>3. /\ QueueRestart(x).generation = c.generation
          /\ QueueRestart(x).resolving = c.resolving
          /\ QueueRestart(x).halt = c.halt /\ QueueRestart(x).session = s
          /\ QueueRestart(x).timers = k
      BY <1>7, <2>2 DEF Objects
    <2>4. k # NoTimers
      BY <1>1, <2>1 DEF NoTimers, NotArmed
    <2> QED BY <2>1, <2>3, <2>4 DEF Ends
  <1>8. b \in Objects /\ f \in Objects
    BY <1>2, <1>3 DEF Good
  <1> HIDE DEF b, f, r
  <1>9. CASE d = Stop(f)
    BY <1>3, <1>9, StopGood DEF b
  <1>10. CASE d \in {QueueRestart(b), QueueRestart(r), QueueRestart(f)}
    BY <1>2, <1>3, <1>4, <1>5, <1>7, <1>8, <1>10 DEF b
  <1> QED BY <1>6, <1>9, <1>10

-----------------------------------------------------------------------------
(* Steps of the specification, one lemma for each group of actions.        *)

\* What a step does to the session that was answered: AnsweredSessionKept.
Answered ==
    cc.session.state = "live" /\ cc.session.first /\ cc'.generation # cc.generation => Asked

\* An operation, and stop() when its client throws.
LEMMA BecomeTurns ==
    ASSUME Good(cc), NEW d, Good(d), Turns(cc, d), Become(d)
    PROVE  Turns(cc, cc')
  <1>1. d.generation \in {cc.generation, cc.generation + 1}
    BY DEF Turns, Fresh, Halts, Ends, Goes
  <1>2. Turns(cc, Stop(d))
    BY <1>1, StopTurns DEF Turns
  <1> QED BY <1>2 DEF Become

\* A handler ran and made the object d.
LEMMA HandlerTurns ==
    ASSUME IInv, IInv', WaitsInv, NEW op, RunHandler(op),
           NEW d, Good(d), Turns(cc, d), Become(d),
           op = "conn" => d.halt,
           op = "restart_wait" /\ Head(queue).gen = cc.generation
               /\ d.generation = cc.generation => cc.halt,
           op = "server_poll" /\ Head(queue).gen = cc.generation
               /\ d.generation = cc.generation => cc.halt \/ (cc.session.first /\ d = cc)
    PROVE  WaitsInv' /\ Answered
  <1> DEFINE h == Head(queue)
  <1>1. Good(cc)
    BY IInvGood
  <1>2. Turns(cc, cc')
    BY <1>1, BecomeTurns
  <1>3. /\ UNCHANGED <<asked, calling>> /\ thread' \notin {"idle", "setup"}
        /\ queue \in Seq(Handler) /\ queue # <<>> /\ queue' = Tail(queue) /\ h.op = op
    BY DEF IInv, TypeOK, RunHandler, Become
  <1>4. \A o, gen : /\ Queued(o, gen)' => Queued(o, gen)
                    /\ Queued(o, gen) => Queued(o, gen)' \/ h = [op |-> o, gen |-> gen]
    BY <1>3, Taken
  <1> HIDE DEF h
  <1>5. cc' # d => cc'.halt /\ cc'.session.state # "live"
    <2>1. Good(Stop(d)) /\ Stop(d).halt
      BY StopGood
    <2>2. cc' # d => cc' = Stop(d)
      BY DEF Become
    <2>3. cc' = Stop(d) => cc'.halt /\ cc'.session.state # "live"
      BY <2>1 DEF Good, Released
    <2> QED BY <2>2, <2>3
  <1>6. ASSUME NEW gen \in Nat, Queued("conn", gen), ~cc'.halt
        PROVE  Queued("conn", gen)'
    <2>1. h # [op |-> "conn", gen |-> gen]
      BY <1>3, <1>5, <1>6
    <2> QED BY <1>4, <1>6, <2>1
  <1>7. ASSUME NEW o \in {"restart_wait", "server_poll"},
               Queued(o, cc.generation), cc'.generation = cc.generation,
               cc'.session.state = "live", ~cc'.session.first
        PROVE  Queued(o, cc.generation)'
    <2>1. cc' = d /\ ~cc.halt
      <3>1. cc' = d
        BY <1>5, <1>7
      <3>2. ~d.halt
        BY <1>7, <3>1, LiveRuns
      <3> QED BY <1>1, <1>7, <3>1, <3>2 DEF Turns, Fresh, Halts, Ends, Goes, Good, Objects
    <2>2. h # [op |-> o, gen |-> cc.generation]
      BY <1>3, <1>7, <2>1 DEF h
    <2> QED BY <1>4, <1>7, <2>2
  <1> QED BY <1>2, <1>3, <1>4, <1>6, <1>7, TurnStep DEF Turns, Answered

LEMMA HandlersWait ==
    IInv /\ IInv' /\ WaitsInv /\ Handlers => WaitsInv' /\ Answered
  <1> SUFFICES ASSUME IInv, IInv', WaitsInv, Handlers
               PROVE  WaitsInv' /\ Answered
    OBVIOUS
  <1>1. Good(cc) /\ Quiet
    BY IInvGood DEF WaitsInv
  <1>2. ASSUME NEW op, RunHandler(op)
        PROVE  /\ Head(queue).gen \in Nat /\ op \in Ops
               /\ Queued(op, Head(queue).gen)
    BY <1>2, Taken DEF RunHandler, IInv, TypeOK, Handler
  <1>3. CASE OnStop
    <2>1. Good(Stop(cc)) /\ Turns(cc, Stop(cc))
      BY <1>1, StopGood, StopTurns
    <2> QED BY <1>3, <2>1, HandlerTurns DEF OnStop
  <1>4. CASE OnPause
    <2>1. Good(Pause(cc)) /\ Turns(cc, Pause(cc))
      BY <1>1, PauseFollows, PauseTurns DEF Follows
    <2> QED BY <1>4, <2>1, HandlerTurns DEF OnPause
  <1>5. CASE OnResume
    <2>1. Asked
      BY <1>1, <1>2, <1>5 DEF OnResume, Quiet
    <2>2. Good(Resume(cc)) /\ Turns(cc, Resume(cc))
      BY <1>1, <2>1, ResumeFollows, ResumeTurns DEF Follows
    <2> QED BY <1>5, <2>2, HandlerTurns DEF OnResume
  <1>6. CASE OnReconnect
    <2>1. Asked
      BY <1>1, <1>2, <1>6 DEF OnReconnect, Quiet
    <2>2. Good(Reconnect(cc)) /\ Turns(cc, Reconnect(cc))
      BY <1>1, <2>1, ReconnectFollows, ReconnectTurns DEF Follows
    <2> QED BY <1>6, <2>2, HandlerTurns DEF OnReconnect
  <1>7. CASE OnRestartWait
    <2> DEFINE g == Head(queue).gen
               d == RestartWait(cc, g)
    <2>1. g \in Nat /\ Queued("restart_wait", g)
      BY <1>2, <1>7 DEF OnRestartWait
    <2>2. g = cc.generation /\ (cc.session.state = "live" \/ cc.resolving) => Asked
      BY <1>1, <2>1 DEF Quiet, Blank
    <2>3. RunHandler("restart_wait") /\ Become(d)
      BY <1>7 DEF OnRestartWait
    <2> HIDE DEF g
    <2>4. /\ Good(d) /\ Turns(cc, d)
          /\ g = cc.generation /\ d.generation = cc.generation => cc.halt
      BY <1>1, <2>2, RestartWaitFollows, RestartWaitTurns DEF Follows
    <2> HIDE DEF d
    <2> QED BY <2>3, <2>4, HandlerTurns DEF g
  <1>8. CASE OnServerPoll
    <2> DEFINE g == Head(queue).gen
               d == ServerPoll(cc, g)
    <2>1. g \in Nat /\ Queued("server_poll", g)
      BY <1>2, <1>8 DEF OnServerPoll
    <2>2. g = cc.generation /\ cc.resolving => Asked
      BY <1>1, <2>1 DEF Quiet, Blank
    <2>3. RunHandler("server_poll") /\ Become(d)
      BY <1>8 DEF OnServerPoll
    <2> HIDE DEF g
    <2>4. /\ Good(d) /\ Turns(cc, d)
          /\ g = cc.generation /\ d.generation = cc.generation
                => cc.halt \/ (cc.session.first /\ d = cc)
      BY <1>1, <2>2, ServerPollFollows, ServerPollTurns DEF Follows
    <2> HIDE DEF d
    <2> QED BY <2>3, <2>4, HandlerTurns DEF g
  <1>9. CASE OnConnTimer
    <2> DEFINE d == ConnTimer(cc, Head(queue).gen)
    <2>1. Good(d) /\ Turns(cc, d) /\ d.halt
      BY <1>1, ConnTimerFollows, ConnTimerTurns DEF Follows
    <2>2. RunHandler("conn") /\ Become(d)
      BY <1>9 DEF OnConnTimer
    <2> HIDE DEF d
    <2> QED BY <2>1, <2>2, HandlerTurns
  <1>10. CASE OnClockTick
    <2> DEFINE d == [cc EXCEPT !.clock_tick = TRUE]
    <2>1. /\ d \in Objects
          /\ d.halt = cc.halt /\ d.generation = cc.generation /\ d.timers = cc.timers
          /\ d.session = cc.session /\ d.resolving = cc.resolving /\ d.asio_work = cc.asio_work
      BY <1>1 DEF Good, Objects
    <2>2. Good(d) /\ Turns(cc, d)
      BY <1>1, <2>1 DEF Good, Released, Current, Turns, Goes
    <2>3. RunHandler("clock_tick") /\ Become(d)
      BY <1>10 DEF OnClockTick
    <2> HIDE DEF d
    <2> QED BY <2>2, <2>3, HandlerTurns
  <1> QED BY <1>3, <1>4, <1>5, <1>6, <1>7, <1>8, <1>9, <1>10 DEF Handlers

\* A resolution that ends while a session lives had been overtaken by a call.
LEMMA PreResolveWaits ==
    IInv /\ IInv' /\ WaitsInv /\ PreResolveDone => WaitsInv' /\ Answered
  <1> SUFFICES ASSUME IInv, IInv', WaitsInv, PreResolveDone
               PROVE  WaitsInv' /\ Answered
    OBVIOUS
  <1> DEFINE b == [cc EXCEPT !.resolving = FALSE]
  <1>1. Good(cc) /\ ~cc.halt /\ Quiet
    BY IInvGood DEF Good, Released, PreResolveDone, WaitsInv
  <1>2. /\ b \in Objects /\ ~b.halt /\ ~b.resolving
        /\ b.generation = cc.generation /\ b.timers = cc.timers
    BY <1>1 DEF Good, Objects
  <1>3. Good(b)
    BY <1>1, <1>2 DEF Good, Released, Current
  <1>4. cc.session.state = "live" => Asked
    BY <1>1 DEF PreResolveDone, Quiet, Blank
  <1>5. /\ Become(NewClient(b)) /\ thread = "running"
        /\ UNCHANGED <<foreign, stopped, asked, calling, queue>>
    BY DEF PreResolveDone
  <1> HIDE DEF b
  <1>6. Good(NewClient(b)) /\ Turns(cc, NewClient(b))
    BY <1>1, <1>2, <1>3, <1>4, NewClientGood, NewClientTurns
  <1>7. Turns(cc, cc')
    BY <1>1, <1>5, <1>6, BecomeTurns
  <1>8. thread' \notin {"idle", "setup"}
    BY <1>5 DEF Become
  <1> QED BY <1>5, <1>7, <1>8, QueueKept DEF Turns, Answered

\* The application: what it asks is noted before it is posted.
LEMMA ApiWaits ==
    IInv /\ WaitsInv /\ Api => WaitsInv' /\ Answered
  <1> SUFFICES ASSUME IInv, WaitsInv, Api
               PROVE  WaitsInv' /\ Answered
    OBVIOUS
  <1>1. UNCHANGED <<thread, cc>> /\ cc.generation \in Nat
    BY DEF Api, ApiStop, ApiPause, ApiResume, ApiReconnect, ApiCall, ApiPosts,
           IInv, TypeOK, Objects
  <1>2. Asked => Asked'
    BY DEF Api, ApiStop, ApiPause, ApiResume, ApiReconnect, ApiCall, ApiPosts, Asked
  <1>3. calling' \in {"resume", "reconnect"} => calling = calling' \/ Asked'
    BY DEF Api, ApiStop, ApiPause, ApiResume, ApiReconnect, ApiCall, ApiPosts, Asked
  <1>4. ASSUME NEW op \in ApiOps, queue' = Append(queue, [op |-> op, gen |-> 0]),
               op \in {"resume", "reconnect"} => Asked'
        PROVE  WaitsInv'
    <2> DEFINE h == [op |-> op, gen |-> 0]
    <2>1. h \in Handler /\ queue \in Seq(Handler)
      BY DEF Handler, Ops, IInv, TypeOK
    <2>2. \A o, gen : Queued(o, gen)' <=> Queued(o, gen) \/ h = [op |-> o, gen |-> gen]
      BY <1>4, <2>1, Posted
    <2>3. \A o, gen : h = [op |-> o, gen |-> gen] => o = op /\ gen = 0
      OBVIOUS
    <2> HIDE DEF h
    <2>4. \A gen : \A o \in {"restart_wait", "server_poll", "conn"} :
              Queued(o, gen)' <=> Queued(o, gen)
      BY <2>2, <2>3 DEF ApiOps
    <2>5. Numbered'
      BY <1>1, <2>2, <2>3 DEF WaitsInv, Numbered, ApiOps
    <2>6. Polled' /\ Timed'
      BY <1>1, <2>4 DEF WaitsInv, Polled, Timed
    <2>7. Blank => Blank'
      BY <1>1, <2>4 DEF Blank
    <2>8. Quiet'
      <3>1. ~Asked' => \A gen \in Nat : ~Queued("resume", gen)' /\ ~Queued("reconnect", gen)'
        BY <1>2, <1>4, <2>2, <2>3 DEF WaitsInv, Quiet
      <3> QED BY <1>1, <1>2, <1>3, <2>4, <2>7, <3>1 DEF WaitsInv, Quiet
    <2> QED BY <1>1, <2>5, <2>6, <2>7, <2>8 DEF WaitsInv
  <1>5. CASE UNCHANGED queue
    <2>1. \A op, gen : Queued(op, gen)' <=> Queued(op, gen)
      BY <1>5, Kept
    <2>2. Numbered' /\ Polled' /\ Timed' /\ (Blank <=> Blank')
      BY <1>1, <2>1 DEF WaitsInv, Numbered, Polled, Timed, Blank
    <2>3. Quiet'
      <3>1. ~Asked' => \A gen \in Nat : ~Queued("resume", gen)' /\ ~Queued("reconnect", gen)'
        BY <1>2, <2>1 DEF WaitsInv, Quiet
      <3>2. ~Asked' => calling' \notin {"resume", "reconnect"}
        BY <1>2, <1>3 DEF WaitsInv, Quiet
      <3>3. \A gen : Queued("restart_wait", gen)' <=> Queued("restart_wait", gen)
        BY <2>1
      <3> QED BY <1>1, <1>2, <2>2, <3>1, <3>2, <3>3 DEF WaitsInv, Quiet
    <2> QED BY <1>1, <2>2, <2>3 DEF WaitsInv, Answered
  <1>6. \/ UNCHANGED queue
        \/ \E op \in ApiOps : /\ queue' = Append(queue, [op |-> op, gen |-> 0])
                              /\ op \in {"resume", "reconnect"} => Asked'
    <2>1. CASE ApiStop
      BY <2>1 DEF ApiStop, Post, ApiOps
    <2>2. CASE ApiPause \/ ApiResume \/ ApiReconnect
      BY <2>2 DEF ApiPause, ApiResume, ApiReconnect, ApiCall
    <2>3. CASE ApiPosts
      <3>1. calling \in {"resume", "reconnect"} => Asked'
        BY <1>2, <2>3 DEF ApiPosts, WaitsInv, Quiet
      <3> QED BY <2>3, <3>1 DEF ApiPosts, Post, IInv, TypeOK
    <2> QED BY <2>1, <2>2, <2>3 DEF Api
  <1> QED BY <1>1, <1>4, <1>5, <1>6 DEF Answered

\* A wait that expires becomes a handler of the same generation.
LEMMA TimersWait ==
    IInv /\ WaitsInv /\ Timers => WaitsInv' /\ Answered
  <1> SUFFICES ASSUME IInv, WaitsInv, Timers
               PROVE  WaitsInv' /\ Answered
    OBVIOUS
  <1>1. Good(cc) /\ queue \in Seq(Handler) /\ cc.generation \in Nat /\ cc.timers \in TimerSets
    BY IInvGood DEF Good, Objects, IInv, TypeOK
  <1>2. ASSUME NEW timer \in {"restart_wait", "server_poll", "conn"}, Expire(timer)
        PROVE  WaitsInv' /\ Answered
    <2> DEFINE g == cc.timers[timer]
               h == [op |-> timer, gen |-> g]
               k == [cc.timers EXCEPT ![timer] = NotArmed]
    <2>1. /\ g \in Nat /\ g # NotArmed
          /\ queue' = Append(queue, h)
          /\ UNCHANGED <<thread, asked, calling>> /\ thread = "running"
          /\ cc' = [cc EXCEPT !.timers = k]
      BY <1>1, <1>2 DEF Expire, Good, Objects, TimerSets, Waits
    <2>2. /\ cc'.generation = cc.generation /\ cc'.session = cc.session
          /\ cc'.resolving = cc.resolving /\ cc'.halt = cc.halt /\ cc'.timers = k
      BY <1>1, <2>1 DEF Good, Objects
    <2>3. h \in Handler
      BY <2>1 DEF Handler, Ops
    <2>4. \A op, gen : Queued(op, gen)' <=> Queued(op, gen) \/ h = [op |-> op, gen |-> gen]
      BY <1>1, <2>1, <2>3, Posted
    <2>5. \A op, gen : h = [op |-> op, gen |-> gen] <=> op = timer /\ gen = g
      OBVIOUS
    <2>6. \A op, gen : Queued(op, gen)' <=> Queued(op, gen) \/ (op = timer /\ gen = g)
      BY <2>4, <2>5
    <2>7. /\ timer = "restart_wait" => g = cc.timers.restart_wait /\ g = cc.generation
          /\ timer = "server_poll" => g = cc.timers.server_poll /\ g = cc.generation
          /\ timer = "conn" => g = cc.timers.conn /\ g >= 1 /\ g <= cc.generation
      BY <1>1, <2>1 DEF Good, Current, WaitsInv, Numbered
    <2>8. /\ k.restart_wait = IF timer = "restart_wait" THEN NotArmed ELSE cc.timers.restart_wait
          /\ k.server_poll = IF timer = "server_poll" THEN NotArmed ELSE cc.timers.server_poll
          /\ k.conn = IF timer = "conn" THEN NotArmed ELSE cc.timers.conn
          /\ k.conn_pending = cc.timers.conn_pending
      BY <1>1 DEF TimerSets
    <2> HIDE DEF g, h, k
    <2>9. Numbered'
      <3>1. ASSUME NEW op \in Ops, NEW gen \in Nat, Queued(op, gen)'
            PROVE  gen <= cc'.generation /\ (op = "conn" => gen >= 1)
        <4>1. CASE Queued(op, gen)
          BY <2>2, <4>1 DEF WaitsInv, Numbered
        <4>2. CASE op = timer /\ gen = g
          BY <1>1, <2>2, <2>7, <4>2
        <4> QED BY <2>6, <3>1, <4>1, <4>2
      <3> QED BY <2>2, <2>8, <3>1 DEF WaitsInv, Numbered
    <2>10. Polled'
      <3> SUFFICES ASSUME ~HttpProxy, cc.session.state = "live", ~cc.session.first
                   PROVE  \/ cc'.timers.server_poll = cc.generation
                          \/ Queued("server_poll", cc.generation)'
                          \/ cc'.timers.restart_wait = cc.generation
                          \/ Queued("restart_wait", cc.generation)'
        BY <2>2 DEF Polled
      <3>1. /\ Queued("server_poll", cc.generation) => Queued("server_poll", cc.generation)'
            /\ Queued("restart_wait", cc.generation) => Queued("restart_wait", cc.generation)'
            /\ timer = "server_poll" => Queued("server_poll", cc.generation)'
            /\ timer = "restart_wait" => Queued("restart_wait", cc.generation)'
        BY <2>2, <2>6, <2>7
      <3> QED BY <2>2, <2>8, <3>1 DEF WaitsInv, Polled
    <2>11. Timed'
      <3>1. timer = "conn" => \E gen \in Nat : Queued("conn", gen)'
        <4> PICK n \in Nat : n = g
          BY <2>1
        <4> QED BY <2>6
      <3>2. \A gen \in Nat : Queued("conn", gen) => Queued("conn", gen)'
        BY <2>6
      <3>3. ASSUME ConnTimeout, cc.timers.conn_pending, ~cc.halt
            PROVE  cc'.timers.conn # NotArmed \/ \E gen \in Nat : Queued("conn", gen)'
        BY <2>1, <2>2, <2>8, <3>1, <3>2, <3>3 DEF WaitsInv, Timed
      <3> QED BY <2>2, <2>8, <3>3 DEF WaitsInv, Timed
    <2>12. Quiet'
      <3> SUFFICES ASSUME ~Asked
                   PROVE  Quiet'
        BY <2>1 DEF Quiet, Asked
      <3>1. Quiet
        BY DEF WaitsInv
      <3>2. \A gen \in Nat : ~Queued("resume", gen)' /\ ~Queued("reconnect", gen)'
        BY <2>6, <3>1 DEF Quiet
      <3>3. cc.session.state = "live" =>
                cc'.timers.restart_wait = NotArmed /\ ~Queued("restart_wait", cc.generation)'
        <4> SUFFICES ASSUME cc.session.state = "live"
                     PROVE  cc'.timers.restart_wait = NotArmed /\ ~Queued("restart_wait", cc.generation)'
          OBVIOUS
        <4>1. cc.timers.restart_wait = NotArmed /\ ~Queued("restart_wait", cc.generation)
          BY <3>1 DEF Quiet
        <4>2. timer # "restart_wait"
          BY <2>1, <2>7, <4>1
        <4> QED BY <2>2, <2>6, <2>8, <4>1, <4>2
      <3>4. cc.resolving => Blank'
        <4> SUFFICES ASSUME cc.resolving
                     PROVE  Blank'
          OBVIOUS
        <4>1. Blank
          BY <3>1 DEF Quiet
        <4>2. timer = "conn"
          BY <2>1, <2>7, <4>1 DEF Blank
        <4> QED BY <2>2, <2>6, <2>8, <4>1, <4>2 DEF Blank
      <3> QED BY <2>1, <2>2, <3>1, <3>2, <3>3, <3>4 DEF Quiet
    <2> QED BY <2>1, <2>2, <2>9, <2>10, <2>11, <2>12, <1>1 DEF WaitsInv, Answered
  <1>3. CASE ClockTickExpires
    <2> DEFINE h == [op |-> "clock_tick", gen |-> 0]
    <2>1. /\ queue' = Append(queue, h)
          /\ UNCHANGED <<thread, asked, calling>> /\ thread = "running"
          /\ cc'.generation = cc.generation /\ cc'.session = cc.session
          /\ cc'.resolving = cc.resolving /\ cc'.halt = cc.halt /\ cc'.timers = cc.timers
      BY <1>1, <1>3 DEF ClockTickExpires, Good, Objects
    <2>2. h \in Handler
      BY DEF Handler, Ops
    <2>3. \A op, gen : Queued(op, gen)' <=> Queued(op, gen) \/ h = [op |-> op, gen |-> gen]
      BY <1>1, <2>1, <2>2, Posted
    <2>4. \A op, gen : h = [op |-> op, gen |-> gen] => op = "clock_tick" /\ gen = 0
      OBVIOUS
    <2> HIDE DEF h
    <2>5. \A gen : \A op \in ApiOps \cup {"restart_wait", "server_poll", "conn"} :
              Queued(op, gen)' <=> Queued(op, gen)
      BY <2>3, <2>4 DEF ApiOps
    <2>6. Numbered'
      BY <1>1, <2>1, <2>3, <2>4 DEF WaitsInv, Numbered
    <2>7. Polled' /\ Timed'
      BY <2>1, <2>5 DEF WaitsInv, Polled, Timed
    <2>8. Blank => Blank'
      BY <2>1, <2>5 DEF Blank
    <2>9. Quiet'
      <3>1. ~Asked => \A gen \in Nat : ~Queued("resume", gen)' /\ ~Queued("reconnect", gen)'
        BY <2>5 DEF WaitsInv, Quiet, ApiOps
      <3>2. ~Queued("restart_wait", cc.generation) => ~Queued("restart_wait", cc.generation)'
        BY <2>1, <2>5
      <3> QED BY <2>1, <2>8, <3>1, <3>2 DEF WaitsInv, Quiet, Asked
    <2> QED BY <1>1, <2>1, <2>6, <2>7, <2>9 DEF WaitsInv, Answered
  <1> QED
    BY <1>2, <1>3 DEF Timers, RestartWaitExpires, ServerPollExpires, ConnTimerExpires

\* A step that touches neither the object nor the queue.
LEMMA StillWaits ==
    ASSUME WaitsInv, UNCHANGED <<cc, queue, asked, calling>>,
           thread' \in {"idle", "setup"} => thread \in {"idle", "setup"}
    PROVE  WaitsInv' /\ Answered
  <1>1. \A op, gen : Queued(op, gen)' <=> Queued(op, gen)
    BY Kept
  <1>2. Numbered' /\ Polled' /\ Timed' /\ (Blank <=> Blank')
    BY <1>1 DEF WaitsInv, Numbered, Polled, Timed, Blank
  <1>3. Quiet'
    BY <1>1, <1>2 DEF WaitsInv, Quiet, Asked
  <1> QED BY <1>2, <1>3 DEF WaitsInv, Answered

\* session->start() finds an object without a session or a wait.
LEMMA SetupWaits ==
    IInv /\ IInv' /\ WaitsInv /\ Setup => WaitsInv' /\ Answered
  <1> SUFFICES ASSUME IInv, IInv', WaitsInv, Setup
               PROVE  WaitsInv' /\ Answered
    OBVIOUS
  <1>1. CASE Connect \/ SetupFails \/ EnableForeignThreadAccess
    <2>1. /\ UNCHANGED <<cc, queue, asked, calling>>
          /\ thread' \in {"idle", "setup"} => thread \in {"idle", "setup"}
      BY <1>1 DEF Connect, SetupFails, EnableForeignThreadAccess
    <2> QED BY <2>1, StillWaits
  <1>2. CASE SessionStart
    <2> DEFINE c == [cc EXCEPT !.clock_tick = ClockTick]
    <2>1. /\ Good(cc) /\ Blank /\ ~cc.resolving /\ ~cc.halt
          /\ UNCHANGED <<queue, asked, calling>> /\ thread' \notin {"idle", "setup"}
      BY <1>2, IInvGood DEF SessionStart, IInv, WaitsInv
    <2>2. /\ c \in Objects /\ c.halt = cc.halt /\ ~c.resolving
          /\ c.generation = cc.generation /\ c.timers = cc.timers /\ c.session = cc.session
      BY <2>1, ConstantsAssumption DEF Good, Objects
    <2>3. Good(c)
      BY <2>1, <2>2 DEF Good, Released, Current
    <2>4. cc' = [c EXCEPT !.resolving = TRUE] \/ cc' = NewClient(c)
      BY <1>2 DEF SessionStart
    <2> HIDE DEF c
    <2>5. CASE cc' = [c EXCEPT !.resolving = TRUE]
      <3>1. /\ cc'.generation = cc.generation /\ cc'.timers = cc.timers
            /\ cc'.session = cc.session /\ cc'.halt = cc.halt
        BY <2>1, <2>2, <2>5 DEF Objects
      <3>2. \A op, gen : Queued(op, gen)' <=> Queued(op, gen)
        BY <2>1, Kept
      <3>3. Numbered' /\ Polled' /\ Timed' /\ Blank'
        BY <2>1, <3>1, <3>2 DEF WaitsInv, Numbered, Polled, Timed, Blank
      <3>4. Quiet'
        BY <2>1, <3>1, <3>2, <3>3 DEF WaitsInv, Quiet, Asked, Blank
      <3> QED BY <2>1, <3>1, <3>3, <3>4 DEF WaitsInv, Answered
    <2>6. CASE cc' = NewClient(c)
      <3>1. Turns(cc, NewClient(c))
        BY <2>1, <2>2, <2>3, NewClientTurns DEF Blank
      <3> QED BY <2>1, <2>6, <3>1, QueueKept DEF Turns, Answered
    <2> QED BY <2>4, <2>5, <2>6
  <1> QED BY <1>1, <1>2 DEF Setup

\* What a live session reports.
LEMMA SessionWaits ==
    IInv /\ IInv' /\ WaitsInv /\ SessionEvents => WaitsInv' /\ Answered
  <1> SUFFICES ASSUME IInv, IInv', WaitsInv, SessionEvents
               PROVE  WaitsInv' /\ Answered
    OBVIOUS
  <1>1. /\ Good(cc) /\ ~cc.halt /\ cc.session.state = "live"
        /\ UNCHANGED <<asked, calling, queue>> /\ thread' \notin {"idle", "setup"}
    BY IInvGood, LiveRuns
       DEF SessionEvents, SessionRuns, FirstPacket, SessionConnects, AuthPending,
           SessionTerminates, TerminatesWith, TerminatesThenPushReply, SessionFailsUnhandled
  <1>2. SUFFICES Turns(cc, cc')
    BY <1>1, QueueKept DEF Turns, Answered
  <1>3. /\ cc \in Objects /\ cc.session \in Sessions /\ cc.timers \in TimerSets
    BY <1>1 DEF Good, Objects
  <1>4. CASE FirstPacket
    <2> DEFINE s == [cc.session EXCEPT !.first = TRUE]
    <2>1. s.state = cc.session.state /\ s.first /\ s.reached = cc.session.reached
      BY <1>3 DEF Sessions
    <2>2. cc' = [cc EXCEPT !.session = s]
      BY <1>3, <1>4 DEF FirstPacket, Objects
    <2> HIDE DEF s
    <2>3. /\ cc'.session = s /\ cc'.timers = cc.timers /\ cc'.generation = cc.generation
          /\ cc'.resolving = cc.resolving /\ cc'.halt = cc.halt
      BY <1>3, <2>2 DEF Objects
    <2> QED BY <2>1, <2>3 DEF Turns, Goes
  <1>5. CASE SessionConnects
    <2>1. Connects(cc, cc')
      BY <1>1, <1>5, ProtoConnects DEF SessionConnects
    <2> QED BY <2>1 DEF Connects, Turns, Goes
  <1>6. CASE AuthPending
    <2> PICK wait \in {cc.timers.conn} \cup (IF cc.timers.conn_pending THEN {cc.generation} ELSE {}) :
          cc' = [cc EXCEPT !.session.auth_pending = TRUE, !.timers.conn = wait]
      BY <1>6 DEF AuthPending
    <2> DEFINE s == [cc.session EXCEPT !.auth_pending = TRUE]
               k == [cc.timers EXCEPT !.conn = wait]
    <2>1. /\ s.state = cc.session.state /\ s.first = cc.session.first
          /\ s.reached = cc.session.reached
      BY <1>3 DEF Sessions
    <2>2. /\ k.server_poll = cc.timers.server_poll /\ k.restart_wait = cc.timers.restart_wait
          /\ k.conn_pending = cc.timers.conn_pending
          /\ k.conn = cc.timers.conn \/ k.conn = cc.generation
      BY <1>3 DEF TimerSets
    <2>3. cc' = [cc EXCEPT !.session = s, !.timers = k]
      BY <1>3 DEF Objects
    <2> HIDE DEF s, k
    <2>4. /\ cc'.session = s /\ cc'.timers = k /\ cc'.generation = cc.generation
          /\ cc'.resolving = cc.resolving /\ cc'.halt = cc.halt
      BY <1>3, <2>3 DEF Objects
    <2> QED BY <1>1, <2>1, <2>2, <2>4 DEF Turns, Goes
  <1>7. ASSUME NEW e \in ErrorCodes \ UnhandledErrors
        PROVE  LET d == ProtoTerminate([cc EXCEPT !.session.state = "halted"], e)
               IN  \/ Good(d) /\ d.halt /\ d.generation = cc.generation
                   \/ Good(d) /\ Ends(cc, d) /\ d.timers # NoTimers
    <2> DEFINE s == [cc.session EXCEPT !.state = "halted"]
               c == [cc EXCEPT !.session = s]
    <2>1. s \in Sessions /\ s.state = "halted"
      BY <1>3 DEF Sessions
    <2>2. [cc EXCEPT !.session.state = "halted"] = c
      BY <1>3 DEF Objects
    <2> HIDE DEF s
    <2>3. Good(c) /\ ~c.halt
      BY <1>1, <2>1, SessionGood
    <2>4. Good(ProtoTerminate(c, e))
      BY <2>3, ProtoTerminateGood
    <2> QED BY <1>1, <2>1, <2>2, <2>4, ProtoTerminateTurns
  <1>8. CASE SessionTerminates
    <2> PICK e \in Errors \ UnhandledErrors :
          cc' = ProtoTerminate([cc EXCEPT !.session.state = "halted"], e)
      BY <1>8 DEF SessionTerminates, TerminatesWith
    <2>1. e \in ErrorCodes \ UnhandledErrors
      BY ConstantsAssumption
    <2>2. \/ Good(cc') /\ cc'.halt /\ cc'.generation = cc.generation
          \/ Ends(cc, cc')
      BY <1>7, <2>1
    <2> QED BY <2>2 DEF Turns, Halts, Ends
  <1>9. CASE TerminatesThenPushReply
    <2> PICK e \in Errors \cap {"AUTH_FAILED", "DYNAMIC_CHALLENGE",
                                "CLIENT_HALT", "CLIENT_RESTART"} :
          LET c == ProtoTerminate([cc EXCEPT !.session.state = "halted"], e)
          IN  cc' = ProtoConnected([c EXCEPT !.session.orphan_tun = TRUE])
      BY <1>9 DEF TerminatesThenPushReply
    <2> DEFINE c == ProtoTerminate([cc EXCEPT !.session.state = "halted"], e)
               s == [c.session EXCEPT !.orphan_tun = TRUE]
               o == [c EXCEPT !.session = s]
    <2>1. e \in ErrorCodes \ UnhandledErrors
      BY ConstantsAssumption DEF UnhandledErrors
    <2>2. \/ Good(c) /\ c.halt /\ c.generation = cc.generation
          \/ Good(c) /\ Ends(cc, c) /\ c.timers # NoTimers
      BY <1>7, <2>1
    <2>3. cc' = ProtoConnected([c EXCEPT !.session.orphan_tun = TRUE])
      OBVIOUS
    <2> HIDE DEF c
    <2>4. s \in Sessions /\ s.state = c.session.state
      BY <2>2 DEF Good, Objects, Sessions
    <2>5. [c EXCEPT !.session.orphan_tun = TRUE] = o
      BY <2>2 DEF Good, Objects
    <2>6. s.state = "live" => ~c.halt
      BY <2>2, <2>4, LiveRuns
    <2> HIDE DEF s
    <2>7. /\ Good(o) /\ o.session = s /\ o.halt = c.halt /\ o.generation = c.generation
          /\ o.timers = c.timers /\ o.resolving = c.resolving
      BY <2>2, <2>4, <2>6, SessionGood
    <2>8. cc' = ProtoConnected(o)
      BY <2>3, <2>5
    <2> HIDE DEF o
    <2>9. Good(cc') /\ Connects(o, cc')
      BY <2>7, <2>8, ProtoConnectedGood, ProtoConnects
    <2>10. CASE c.halt /\ c.generation = cc.generation
      BY <2>7, <2>9, <2>10 DEF Connects, Turns, Halts
    <2>11. CASE Ends(cc, c) /\ c.timers # NoTimers
      <3>1. /\ c.generation = cc.generation /\ c.resolving = cc.resolving
            /\ c.session.state # "live" /\ c.halt = cc.halt
        BY <2>11 DEF Ends
      <3>2. /\ cc'.generation = cc.generation /\ cc'.resolving = cc.resolving
            /\ cc'.halt = cc.halt /\ cc'.session.state # "live"
            /\ cc'.timers.conn = NotArmed /\ ~cc'.timers.conn_pending
        BY <2>4, <2>7, <2>9, <3>1 DEF Connects
      <3> QED BY <1>1, <3>2 DEF Turns, Ends
    <2> QED BY <2>2, <2>10, <2>11
  <1>10. CASE SessionFailsUnhandled
    BY <1>1, <1>10, StopTurns DEF SessionFailsUnhandled
  <1> QED BY <1>4, <1>5, <1>6, <1>8, <1>9, <1>10 DEF SessionEvents

-----------------------------------------------------------------------------
(* The theorems.                                                           *)

LEMMA InitWaits ==
    Init => WaitsInv
  <1> SUFFICES ASSUME Init
               PROVE  WaitsInv
    OBVIOUS
  <1>1. /\ cc.session.state = "none" /\ ~cc.resolving /\ cc.timers = NoTimers
        /\ calling = "none"
    BY DEF Init, NewSession
  <1>2. /\ NoTimers.restart_wait = NotArmed /\ NoTimers.server_poll = NotArmed
        /\ NoTimers.conn = NotArmed /\ ~NoTimers.conn_pending
    BY DEF NoTimers
  <1>3. \A op, gen : ~Queued(op, gen)
    BY DEF Init, Queued
  <1> QED BY <1>1, <1>2, <1>3 DEF WaitsInv, Numbered, Polled, Timed, Quiet, Blank

LEMMA NextWaits ==
    IInv /\ WaitsInv /\ [Next]_vars => WaitsInv' /\ Answered
  <1> SUFFICES ASSUME IInv, WaitsInv, [Next]_vars
               PROVE  WaitsInv' /\ Answered
    OBVIOUS
  <1>1. IInv'
    BY NextIInv
  <1>2. CASE Setup
    BY <1>1, <1>2, SetupWaits
  <1>3. CASE Api
    BY <1>3, ApiWaits
  <1>4. CASE Handlers
    BY <1>1, <1>4, HandlersWait
  <1>5. CASE Timers
    BY <1>5, TimersWait
  <1>6. CASE PreResolveDone
    BY <1>1, <1>6, PreResolveWaits
  <1>7. CASE SessionEvents
    BY <1>1, <1>7, SessionWaits
  <1>8. CASE RunReturns
    BY <1>8, StillWaits DEF RunReturns
  <1>9. CASE UNCHANGED vars
    BY <1>9, StillWaits DEF vars
  <1> QED BY <1>2, <1>3, <1>4, <1>5, <1>6, <1>7, <1>8, <1>9 DEF Next

\* The invariant of the waits holds in every state of every connect() call.
THEOREM WaitsInductive == Spec => [](IInv /\ WaitsInv)
  <1>1. Init => IInv /\ WaitsInv
    BY InitIInv, InitWaits
  <1>2. IInv /\ WaitsInv /\ [Next]_vars => IInv' /\ WaitsInv'
    BY NextIInv, NextWaits
  <1> QED BY <1>1, <1>2, PTL DEF Spec

\* An attempt that no server answers is always given up: server_poll_timer or
\* restart_wait_timer of its generation is armed or about to be handled.
THEOREM NoAttemptIsSilent == Spec => []NoSilentSession
  <1>1. WaitsInv => NoSilentSession
    BY DEF WaitsInv, Polled, NoSilentSession
  <1> QED BY <1>1, WaitsInductive, PTL

\* conn_timer_pending never hides a conn_timer that is gone: an attempt that
\* is not connected is under connTimeout.
THEOREM AttemptsAreTimed == Spec => []ConnTimeoutCovers
  <1>1. IInv /\ WaitsInv => ConnTimeoutCovers
    <2> SUFFICES ASSUME IInv, WaitsInv, ConnTimeout, cc.session.state = "live",
                        ~cc.session.reached, cc.timers.conn = NotArmed
                 PROVE  \E gen \in 1..cc.generation : Queued("conn", gen)
      BY DEF ConnTimeoutCovers
    <2>1. ~cc.halt /\ cc.generation \in Nat
      BY IInvGood, LiveRuns DEF Good, Objects
    <2>2. PICK gen \in Nat : Queued("conn", gen)
      BY <2>1 DEF WaitsInv, Timed
    <2>3. gen \in 1..cc.generation
      BY <2>1, <2>2 DEF WaitsInv, Numbered, Ops
    <2> QED BY <2>2, <2>3
  <1> QED BY <1>1, WaitsInductive, PTL

\* Waits and resolutions left over from earlier attempts replace no session
\* that the server has answered; only resume() and reconnect() do.
THEOREM AnsweredIsKept == Spec => AnsweredSessionKept
  <1>1. IInv /\ WaitsInv /\ [Next]_vars =>
            [cc.session.state = "live" /\ cc.session.first /\ cc'.generation # cc.generation
                => asked \cap {"resume", "reconnect"} # {}]_vars
    BY NextWaits DEF Answered, Asked
  <1> QED BY <1>1, WaitsInductive, PTL DEF Spec, AnsweredSessionKept
=============================================================================
