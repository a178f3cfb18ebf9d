------------------------ MODULE ClientConnectProofs ------------------------
(***************************************************************************)
(* Proofs about ClientConnect, for every configuration, every set of       *)
(* errors and any number of sessions.                                      *)
(*                                                                         *)
(* The operations of the object are functions, so what each preserves is   *)
(* proved once, about any object c; the steps of Next then only have to    *)
(* say which operation they apply.                                         *)
(***************************************************************************)
EXTENDS ClientConnect, TLAPS

-----------------------------------------------------------------------------
(* The inductive invariant.                                                *)

\* What stop() has let go of; HaltReleases says this of cc.
Released(c) ==
    c.halt =>
        /\ c.session.state # "live" /\ ~c.resolving /\ ~c.asio_work
        /\ c.timers.restart_wait = NotArmed
        /\ c.timers.server_poll = NotArmed
        /\ c.timers.conn = NotArmed

\* The waits that compare generations; WaitsAreCurrent says this of cc.
Current(c) ==
    /\ c.timers.restart_wait \in {NotArmed, c.generation}
    /\ c.timers.server_poll \in {NotArmed, c.generation}
    /\ HttpProxy => c.timers.server_poll = NotArmed

Good(c) == c \in Objects /\ Released(c) /\ Current(c)

\* The work of the object that keeps io_context.run() from returning, but for
\* a handler that is queued already.
Working(c) ==
    \/ c.session.state = "live"
    \/ c.resolving
    \/ c.asio_work
    \/ c.timers.restart_wait # NotArmed

\* NeverOutOfWork is not inductive: an expired restart wait works only if its
\* generation is the current one, and nothing but the generation says so.
IInv ==
    /\ TypeOK
    /\ Released(cc)
    /\ Current(cc)
    /\ thread \in {"idle", "setup"} => ~cc.halt
    /\ thread \in {"started", "running"} /\ ~cc.halt =>
           Working(cc) \/ Queued("restart_wait", cc.generation)

\* d comes of an operation on c: a stopped object stays stopped and starts
\* nothing, and d is without work only as c was.
Follows(c, d) ==
    /\ Good(d)
    /\ c.halt => d.halt /\ d.generation = c.generation
    /\ ~d.halt => Working(d) \/ (~Working(c) /\ d.generation = c.generation)

\* What a step may never do to a stopped object.
Stays == cc.halt => cc'.halt /\ cc'.generation = cc.generation

-----------------------------------------------------------------------------
(* The operations of the object.                                           *)

\* An event leaves what the delegate was told in its range.
LEMMA TellTyped ==
    ASSUME NEW t \in Tellings, NEW p \in Phases
    PROVE  /\ Tell(t, p) \in Tellings
           /\ Tell(t, p).phase = p /\ Tell(t, p).events = t.events + 1
  <1>1. Tell(t, p) = [t EXCEPT !.phase = p, !.events = t.events + 1]
    BY DEF Tell
  <1> HIDE DEF Tell
  <1>2. t.events + 1 \in Nat
    BY DEF Tellings
  <1> QED BY <1>1, <1>2 DEF Tellings

\* stop() leaves a stopped object of the same generation.
LEMMA StopGood ==
    ASSUME NEW c, Good(c)
    PROVE  /\ Good(Stop(c))
           /\ Stop(c).halt
           /\ Stop(c).generation = c.generation
  <1> DEFINE s == [c.session EXCEPT !.state = HaltClient(c)]
             t == Tell(c.told, "disconnected")
  <1>1. /\ NoTimers \in TimerSets
        /\ NoTimers.restart_wait = NotArmed
        /\ NoTimers.server_poll = NotArmed
        /\ NoTimers.conn = NotArmed
    BY DEF NoTimers, TimerSets, Waits
  <1>2. s \in Sessions /\ s.state # "live"
    BY DEF HaltClient, Good, Objects, Sessions
  <1>3. t \in Tellings
    BY TellTyped DEF Good, Objects, Phases
  <1>4. StopNow(c) = [c EXCEPT !.halt = TRUE, !.resolving = FALSE, !.session = s,
                               !.timers = NoTimers, !.asio_work = FALSE,
                               !.clock_tick = FALSE, !.told = t]
    BY DEF StopNow, CancelTimers, Good, Objects
  <1> HIDE DEF s, t
  <1>5. StopNow(c) \in Objects
    BY <1>1, <1>2, <1>3, <1>4 DEF Good, Objects
  <1>6. /\ StopNow(c).halt
        /\ StopNow(c).generation = c.generation
        /\ StopNow(c).session = s
        /\ StopNow(c).timers = NoTimers
        /\ ~StopNow(c).resolving
        /\ ~StopNow(c).asio_work
    BY <1>4 DEF Good, Objects
  <1>7. Released(StopNow(c)) /\ Current(StopNow(c))
    BY <1>1, <1>2, <1>6 DEF Released, Current
  <1> QED BY <1>5, <1>6, <1>7 DEF Stop, Good

\* new_client() of an object that is not stopped gives a live session of the
\* next generation.
LEMMA NewClientGood ==
    ASSUME NEW c, Good(c), ~c.halt
    PROVE  /\ Good(NewClient(c))
           /\ ~NewClient(c).halt
           /\ Working(NewClient(c))
  <1> DEFINE g == c.generation + 1
             k == StartTimers(c.timers, g)
             t == IF c.generation > 0 /\ c.relay # "handed"
                  THEN Tell(c.told, "reconnecting") ELSE c.told
             r == IF c.relay = "handed" THEN "used" ELSE "none"
  <1>1. g \in Nat /\ r \in {"none", "handed", "used"}
    BY DEF Good, Objects
  <1>2. k \in TimerSets
    BY ConstantsAssumption DEF StartTimers, Good, Objects, TimerSets, Waits, NotArmed
  <1>3. /\ k.restart_wait = NotArmed
        /\ k.server_poll \in {NotArmed, g}
        /\ HttpProxy => k.server_poll = NotArmed
    BY DEF StartTimers, Good, Current
  <1>4. NewSession \in Sessions /\ NewSession.state = "live"
    BY DEF NewSession, Sessions
  <1>5. t \in Tellings
    BY TellTyped DEF Good, Objects, Phases
  <1>6. NewClient(c) = [c EXCEPT !.generation = g, !.asio_work = FALSE, !.told = t,
                                 !.session = NewSession, !.relay = r, !.timers = k]
    BY DEF NewClient, Good, Objects
  <1> HIDE DEF g, k, t, r
  <1>7. NewClient(c) \in Objects
    BY <1>1, <1>2, <1>4, <1>5, <1>6 DEF Good, Objects
  <1>8. /\ ~NewClient(c).halt
        /\ NewClient(c).generation = g
        /\ NewClient(c).session = NewSession
        /\ NewClient(c).timers = k
    BY <1>6 DEF Good, Objects
  <1> QED BY <1>3, <1>4, <1>7, <1>8 DEF Good, Released, Current, Working

\* stop() and new_client() are operations in the sense of Follows, also one
\* after the other: an operation, and stop() when its client throws.
LEMMA StopFollows ==
    ASSUME NEW c, NEW d, Follows(c, d)
    PROVE  Follows(c, Stop(d))
  <1> Good(d) /\ (c.halt => d.halt /\ d.generation = c.generation)
    BY DEF Follows
  <1> QED BY StopGood DEF Follows

LEMMA SelfFollows ==
    ASSUME NEW c, Good(c)
    PROVE  Follows(c, c)
  BY DEF Follows

\* pause() takes the waits away and puts a work guard in their place.
LEMMA PauseFollows ==
    ASSUME NEW c, Good(c)
    PROVE  Follows(c, Pause(c))
  <1>1. CASE c.halt \/ c.paused
    <2> Pause(c) = c BY <1>1 DEF Pause
    <2> QED BY SelfFollows
  <1>2. CASE ~(c.halt \/ c.paused)
    <2> DEFINE s == [c.session EXCEPT !.state = HaltClient(c)]
               t == Tell(c.told, "paused")
    <2>1. /\ NoTimers \in TimerSets
          /\ NoTimers.restart_wait = NotArmed
          /\ NoTimers.server_poll = NotArmed
      BY DEF NoTimers, TimerSets, Waits
    <2>2. s \in Sessions
      BY DEF HaltClient, Good, Objects, Sessions
    <2>3. t \in Tellings
      BY TellTyped DEF Good, Objects, Phases
    <2>4. Pause(c) = [c EXCEPT !.paused = TRUE, !.session = s, !.timers = NoTimers,
                               !.asio_work = TRUE, !.told = t]
      BY <1>2 DEF Pause, CancelTimers, Good, Objects
    <2> HIDE DEF s, t
    <2>5. Pause(c) \in Objects
      BY <2>1, <2>2, <2>3, <2>4 DEF Good, Objects
    <2>6. ~Pause(c).halt /\ Pause(c).asio_work /\ Pause(c).timers = NoTimers
      BY <1>2, <2>4 DEF Good, Objects
    <2> QED BY <1>2, <2>1, <2>5, <2>6 DEF Follows, Good, Released, Current, Working
  <1> QED BY <1>1, <1>2

\* resume() starts a client, if the object is paused and not stopped.
LEMMA ResumeFollows ==
    ASSUME NEW c, Good(c)
    PROVE  /\ Follows(c, Resume(c))
           /\ ~c.halt /\ c.paused => Working(Resume(c))
  <1>1. CASE c.halt \/ ~c.paused
    <2> Resume(c) = c BY <1>1 DEF Resume
    <2> QED BY <1>1, SelfFollows
  <1>2. CASE ~c.halt /\ c.paused
    <2> DEFINE t == Tell(c.told, "resumed")
               d == [c EXCEPT !.paused = FALSE, !.told = t]
    <2>1. t \in Tellings
      BY TellTyped DEF Good, Objects, Phases
    <2>2. Resume(c) = NewClient(d)
      BY <1>2 DEF Resume
    <2> HIDE DEF t
    <2>3. d \in Objects
      BY <2>1 DEF Good, Objects
    <2>4. ~d.halt /\ d.timers = c.timers /\ d.generation = c.generation
      BY <1>2 DEF Good, Objects
    <2>5. Good(d)
      BY <2>3, <2>4 DEF Good, Released, Current
    <2> HIDE DEF d
    <2> QED BY <1>2, <2>2, <2>4, <2>5, NewClientGood DEF Follows
  <1> QED BY <1>1, <1>2

\* A restart queued for a session that ended, or asked for by reconnect(), arms
\* the wait with the current generation.
LEMMA QueueRestartFollows ==
    ASSUME NEW c, Good(c), ~c.halt
    PROVE  /\ Follows(c, QueueRestart(c))
           /\ Working(QueueRestart(c))
           /\ ~QueueRestart(c).halt
  <1> DEFINE k == [c.timers EXCEPT !.server_poll = NotArmed, !.restart_wait = c.generation]
  <1>1. k \in TimerSets
    BY DEF Good, Objects, TimerSets, Waits
  <1>2. /\ k.restart_wait = c.generation /\ k.server_poll = NotArmed
        /\ c.generation \in Nat /\ c.generation # NotArmed
    BY DEF Good, Objects, TimerSets, NotArmed
  <1>3. QueueRestart(c) = [c EXCEPT !.timers = k]
    BY DEF QueueRestart, Good, Objects
  <1> HIDE DEF k
  <1>4. QueueRestart(c) \in Objects
    BY <1>1, <1>3 DEF Good, Objects
  <1>5. /\ ~QueueRestart(c).halt /\ QueueRestart(c).timers = k
        /\ QueueRestart(c).generation = c.generation
    BY <1>3 DEF Good, Objects
  <1> QED BY <1>2, <1>4, <1>5 DEF Follows, Good, Released, Current, Working

LEMMA ReconnectFollows ==
    ASSUME NEW c, Good(c)
    PROVE  Follows(c, Reconnect(c))
  <1>1. CASE c.halt
    BY <1>1, SelfFollows DEF Reconnect
  <1>2. CASE ~c.halt
    BY <1>2, QueueRestartFollows DEF Reconnect, QueueRestart
  <1> QED BY <1>1, <1>2

\* restart_wait_callback of the current generation starts a client.
LEMMA RestartWaitFollows ==
    ASSUME NEW c, Good(c), NEW gen
    PROVE  /\ Follows(c, RestartWait(c, gen))
           /\ gen = c.generation /\ ~c.halt => Working(RestartWait(c, gen))
  <1>1. CASE gen # c.generation \/ c.halt
    BY <1>1, SelfFollows DEF RestartWait
  <1>2. CASE ~(gen # c.generation \/ c.halt) /\ c.paused
    BY <1>2, ResumeFollows DEF RestartWait
  <1>3. CASE ~(gen # c.generation \/ c.halt) /\ ~c.paused
    BY <1>3, NewClientGood DEF RestartWait, Follows
  <1> QED BY <1>1, <1>2, <1>3

LEMMA ServerPollFollows ==
    ASSUME NEW c, Good(c), NEW gen
    PROVE  Follows(c, ServerPoll(c, gen))
  <1>1. CASE gen # c.generation \/ c.halt \/ c.session.first
    BY <1>1, SelfFollows DEF ServerPoll
  <1>2. CASE ~(gen # c.generation \/ c.halt \/ c.session.first)
    BY <1>2, NewClientGood DEF ServerPoll, Follows
  <1> QED BY <1>1, <1>2

\* Telling a fatal event leaves the object as good as it is.
LEMMA FatalGood ==
    ASSUME NEW c, Good(c), NEW e \in ErrorCodes \cup {"CONNECTION_TIMEOUT"}
    PROVE  LET d == [c EXCEPT !.told.fatal = e]
           IN  Good(d) /\ d.halt = c.halt /\ d.generation = c.generation
  <1> DEFINE t == [c.told EXCEPT !.fatal = e]
             d == [c EXCEPT !.told = t]
  <1>1. t \in Tellings
    BY DEF Good, Objects, Tellings
  <1> HIDE DEF t
  <1>2. d \in Objects
    BY <1>1 DEF Good, Objects
  <1>3. /\ d.halt = c.halt /\ d.generation = c.generation /\ d.timers = c.timers
        /\ d.session = c.session /\ d.resolving = c.resolving /\ d.asio_work = c.asio_work
    BY DEF Good, Objects
  <1>4. Good(d)
    BY <1>2, <1>3 DEF Good, Released, Current
  <1> QED BY <1>3, <1>4 DEF t

LEMMA ConnTimerFollows ==
    ASSUME NEW c, Good(c), NEW gen
    PROVE  Follows(c, ConnTimer(c, gen))
  <1>1. CASE c.halt
    BY <1>1, SelfFollows DEF ConnTimer
  <1>2. CASE ~c.halt
    BY <1>2, FatalGood, StopGood DEF ConnTimer, Follows
  <1> QED BY <1>1, <1>2

\* What happens to the session of an object that is not stopped, short of its
\* end, leaves the object good.
LEMMA SessionGood ==
    ASSUME NEW c, Good(c), NEW s \in Sessions, s.state = "live" => ~c.halt
    PROVE  LET d == [c EXCEPT !.session = s]
           IN  /\ Good(d) /\ d.session = s
               /\ d.halt = c.halt /\ d.generation = c.generation /\ d.timers = c.timers
               /\ d.resolving = c.resolving /\ d.asio_work = c.asio_work
  <1> DEFINE d == [c EXCEPT !.session = s]
  <1>1. d \in Objects
    BY DEF Good, Objects
  <1>2. /\ d.halt = c.halt /\ d.generation = c.generation /\ d.timers = c.timers
        /\ d.session = s /\ d.resolving = c.resolving /\ d.asio_work = c.asio_work
    BY DEF Good, Objects
  <1> QED BY <1>1, <1>2 DEF Good, Released, Current

\* A live session belongs to an object that is not stopped.
LEMMA LiveRuns ==
    ASSUME NEW c, Good(c), c.session.state = "live"
    PROVE  ~c.halt
  BY DEF Good, Released

\* client_proto_connected() and the Connected event take away the connection
\* timer only.
LEMMA ProtoConnectedGood ==
    ASSUME NEW c, Good(c)
    PROVE  LET d == ProtoConnected(c)
           IN  /\ Good(d) /\ d.halt = c.halt /\ d.generation = c.generation
               /\ Working(d) = Working(c)
  <1> DEFINE k == [c.timers EXCEPT !.conn = NotArmed, !.conn_pending = FALSE]
             s == [c.session EXCEPT !.reached = TRUE]
             t == [Tell(c.told, "connected") EXCEPT !.last_connected = TRUE]
             d == ProtoConnected(c)
  <1>1. k \in TimerSets
    BY DEF Good, Objects, TimerSets, Waits
  <1>2. s \in Sessions /\ s.state = c.session.state
    BY DEF Good, Objects, Sessions
  <1>3. t \in Tellings
    <2>1. Tell(c.told, "connected") \in Tellings
      BY TellTyped DEF Good, Objects, Phases
    <2> QED BY <2>1 DEF Tellings
  <1>4. /\ k.restart_wait = c.timers.restart_wait /\ k.conn = NotArmed
        /\ k.server_poll = c.timers.server_poll
    BY DEF Good, Objects, TimerSets
  <1>5. d = [c EXCEPT !.timers = k, !.session = s, !.told = t]
    BY DEF ProtoConnected, Good, Objects
  <1> HIDE DEF k, s, t, d
  <1>6. d \in Objects
    BY <1>1, <1>2, <1>3, <1>5 DEF Good, Objects
  <1>7. /\ d.halt = c.halt /\ d.generation = c.generation /\ d.timers = k
        /\ d.session = s /\ d.resolving = c.resolving /\ d.asio_work = c.asio_work
    BY <1>5 DEF Good, Objects
  <1>8. Good(d)
    BY <1>2, <1>4, <1>6, <1>7 DEF Good, Released, Current
  <1>9. Working(d) = Working(c)
    BY <1>2, <1>4, <1>7 DEF Working
  <1> QED BY <1>7, <1>8, <1>9 DEF d

\* client_proto_terminate(): the object of a session that ended is stopped, or
\* has its restart wait armed.
LEMMA ProtoTerminateGood ==
    ASSUME NEW c, Good(c), ~c.halt, NEW e \in ErrorCodes \ UnhandledErrors
    PROVE  LET d == ProtoTerminate(c, e)
           IN  Good(d) /\ (d.halt \/ Working(d))
  <1> DEFINE f == [c EXCEPT !.told.fatal = e]
             r == [c EXCEPT !.relay = "handed"]
  <1>1. Good(f) /\ ~f.halt
    BY FatalGood
  <1>2. Good(r) /\ ~r.halt
    <2>1. r \in Objects
      BY DEF Good, Objects
    <2>2. /\ ~r.halt /\ r.generation = c.generation /\ r.timers = c.timers
          /\ r.session = c.session /\ r.resolving = c.resolving /\ r.asio_work = c.asio_work
      BY DEF Good, Objects
    <2> QED BY <2>1, <2>2 DEF Good, Released, Current
  <1> HIDE DEF f, r
  <1>3. /\ Good(QueueRestart(c)) /\ Working(QueueRestart(c))
        /\ Good(QueueRestart(f)) /\ Working(QueueRestart(f))
        /\ Good(QueueRestart(r)) /\ Working(QueueRestart(r))
        /\ Good(Stop(f)) /\ Stop(f).halt
    BY <1>1, <1>2, QueueRestartFollows, StopGood DEF Follows
  <1>4. ProtoTerminate(c, e) \in {QueueRestart(c), QueueRestart(r), QueueRestart(f), Stop(f)}
    BY DEF ProtoTerminate, ErrorCodes, RestartErrors, StopErrors, UnhandledErrors, f, r
  <1> QED BY <1>3, <1>4

-----------------------------------------------------------------------------
(* The queue.                                                              *)

\* Queued("restart_wait", gen) of a queue q.
Has(q, gen) == \E i \in 1..Len(q) : q[i] = [op |-> "restart_wait", gen |-> gen]

\* Posting a handler loses none, and adds it.
LEMMA AppendHas ==
    ASSUME NEW q \in Seq(Handler), NEW h \in Handler, NEW gen
    PROVE  /\ Append(q, h) \in Seq(Handler)
           /\ Has(q, gen) => Has(Append(q, h), gen)
           /\ h = [op |-> "restart_wait", gen |-> gen] => Has(Append(q, h), gen)
  <1>1. Append(q, h) \in Seq(Handler) /\ Len(Append(q, h)) = Len(q) + 1
    OBVIOUS
  <1>2. /\ \A i \in 1..Len(q) : Append(q, h)[i] = q[i]
        /\ Append(q, h)[Len(q) + 1] = h
    OBVIOUS
  <1>3. Len(q) \in Nat
    OBVIOUS
  <1>4. Has(q, gen) => Has(Append(q, h), gen)
    <2> SUFFICES ASSUME NEW i \in 1..Len(q), q[i] = [op |-> "restart_wait", gen |-> gen]
                 PROVE  Has(Append(q, h), gen)
      BY DEF Has
    <2>1. i \in 1..Len(Append(q, h)) /\ Append(q, h)[i] = q[i]
      BY <1>1, <1>2, <1>3
    <2> QED BY <2>1 DEF Has
  <1>5. h = [op |-> "restart_wait", gen |-> gen] => Has(Append(q, h), gen)
    <2>1. Len(q) + 1 \in 1..Len(Append(q, h))
      BY <1>1, <1>3
    <2> QED BY <1>2, <2>1 DEF Has
  <1> QED BY <1>1, <1>4, <1>5

\* Taking the oldest handler loses only that.
LEMMA TailHas ==
    ASSUME NEW q \in Seq(Handler), q # <<>>, NEW gen
    PROVE  /\ Head(q) \in Handler
           /\ Tail(q) \in Seq(Handler)
           /\ Has(q, gen) => \/ Head(q) = [op |-> "restart_wait", gen |-> gen]
                             \/ Has(Tail(q), gen)
  <1>1. /\ Tail(q) \in Seq(Handler) /\ Len(Tail(q)) = Len(q) - 1
        /\ Head(q) = q[1] /\ Head(q) \in Handler
        /\ \A i \in 1..Len(Tail(q)) : Tail(q)[i] = q[i + 1]
    OBVIOUS
  <1>2. Has(q, gen) => \/ Head(q) = [op |-> "restart_wait", gen |-> gen]
                       \/ Has(Tail(q), gen)
    <2> SUFFICES ASSUME NEW i \in 1..Len(q), q[i] = [op |-> "restart_wait", gen |-> gen],
                        i # 1
                 PROVE  Has(Tail(q), gen)
      BY <1>1 DEF Has
    <2>1. i - 1 \in 1..Len(Tail(q))
      BY <1>1
    <2>2. Tail(q)[i - 1] = q[(i - 1) + 1] /\ (i - 1) + 1 = i
      BY <1>1, <2>1
    <2> QED BY <2>1, <2>2 DEF Has
  <1> QED BY <1>1, <1>2

-----------------------------------------------------------------------------
(* Steps of the specification, by what they do to the object.              *)

\* What IInv says of the object.
LEMMA IInvGood ==
    IInv => Good(cc)
  BY DEF IInv, TypeOK, Good

\* A step that keeps the queue, and makes the object d.
LEMMA ObjectStep ==
    ASSUME IInv, thread = "running",
           NEW d, Follows(cc, d), cc' = d,
           thread' \in {"running", "returned"},
           UNCHANGED <<foreign, stopped, asked, calling, queue>>
    PROVE  IInv' /\ Stays
  <1>1. TypeOK'
    BY DEF IInv, TypeOK, Follows, Good
  <1>2. Released(cc') /\ Current(cc')
    BY DEF Follows, Good
  <1>3. ~d.halt => Working(d) \/ Queued("restart_wait", d.generation)'
    <2> SUFFICES ASSUME ~d.halt, ~Working(d)
                 PROVE  Queued("restart_wait", d.generation)'
      OBVIOUS
    <2>1. ~Working(cc) /\ d.generation = cc.generation /\ ~cc.halt
      BY DEF Follows
    <2> QED BY <2>1 DEF IInv, Queued
  <1> QED BY <1>1, <1>2, <1>3 DEF IInv, Stays, Follows

\* A handler runs and makes the object d, or d is stopped because its client
\* threw.
LEMMA HandlerStep ==
    ASSUME IInv, NEW op, RunHandler(op), NEW d, Follows(cc, d), Become(d),
           op = "restart_wait" /\ Head(queue).gen = cc.generation /\ ~d.halt => Working(d)
    PROVE  IInv' /\ Stays
  <1>1. queue \in Seq(Handler) /\ queue # <<>> /\ queue' = Tail(queue) /\ Head(queue).op = op
    BY DEF IInv, TypeOK, RunHandler
  <1>2. queue' \in Seq(Handler) /\ Head(queue) \in Handler
    BY <1>1, TailHas
  <1>3. Follows(cc, cc')
    BY StopFollows DEF Become
  <1>4. thread' \in {"running", "returned"}
    BY DEF Become, RunHandler
  <1>5. TypeOK'
    BY <1>2, <1>3, <1>4 DEF IInv, TypeOK, Follows, Good, RunHandler
  <1>6. Released(cc') /\ Current(cc')
    BY <1>3 DEF Follows, Good
  <1>7. ~cc'.halt => Working(cc') \/ Has(queue', cc'.generation)
    <2> SUFFICES ASSUME ~cc'.halt, ~Working(cc')
                 PROVE  Has(queue', cc'.generation)
      OBVIOUS
    <2>1. ~cc.halt /\ ~Working(cc) /\ cc'.generation = cc.generation
      BY <1>3 DEF Follows
    <2>2. Has(queue, cc.generation)
      BY <2>1 DEF IInv, Queued, Has, RunHandler
    <2>3. cc' = d
      BY StopGood DEF Become, Follows
    <2>4. Head(queue) # [op |-> "restart_wait", gen |-> cc.generation]
      BY <1>1, <2>3
    <2> QED BY <1>1, <2>1, <2>2, <2>4, TailHas
  <1> QED BY <1>3, <1>4, <1>5, <1>6, <1>7 DEF IInv, Queued, Has, Stays, Follows

-----------------------------------------------------------------------------
(* The steps, one lemma for each group of actions.                         *)

LEMMA HandlersInv ==
    IInv /\ Handlers => IInv' /\ Stays
  <1> SUFFICES ASSUME IInv, Handlers
               PROVE  IInv' /\ Stays
    OBVIOUS
  <1>1. Good(cc)
    BY IInvGood
  <1>2. CASE OnStop
    <2>1. Follows(cc, Stop(cc))
      BY <1>1, StopGood DEF Follows
    <2> QED BY <1>2, <2>1, HandlerStep DEF OnStop
  <1>3. CASE OnPause
    BY <1>1, <1>3, PauseFollows, HandlerStep DEF OnPause
  <1>4. CASE OnResume
    BY <1>1, <1>4, ResumeFollows, HandlerStep DEF OnResume
  <1>5. CASE OnReconnect
    BY <1>1, <1>5, ReconnectFollows, HandlerStep DEF OnReconnect
  <1>6. CASE OnRestartWait
    <2> DEFINE d == RestartWait(cc, Head(queue).gen)
    <2>1. Follows(cc, d)
      BY <1>1, RestartWaitFollows
    <2>2. Head(queue).gen = cc.generation /\ ~d.halt => Working(d)
      BY <1>1, <2>1, RestartWaitFollows DEF Follows
    <2>3. RunHandler("restart_wait") /\ Become(d)
      BY <1>6 DEF OnRestartWait
    <2> HIDE DEF d
    <2> QED BY <2>1, <2>2, <2>3, HandlerStep
  <1>7. CASE OnServerPoll
    BY <1>1, <1>7, ServerPollFollows, HandlerStep DEF OnServerPoll
  <1>8. CASE OnConnTimer
    BY <1>1, <1>8, ConnTimerFollows, HandlerStep DEF OnConnTimer
  <1>9. CASE OnClockTick
    <2> DEFINE d == [cc EXCEPT !.clock_tick = TRUE]
    <2>1. d \in Objects
      BY <1>1 DEF Good, Objects
    <2>2. /\ d.halt = cc.halt /\ d.generation = cc.generation /\ d.timers = cc.timers
          /\ d.session = cc.session /\ d.resolving = cc.resolving /\ d.asio_work = cc.asio_work
      BY <1>1 DEF Good, Objects
    <2>3. Follows(cc, d)
      BY <1>1, <2>1, <2>2 DEF Follows, Good, Released, Current, Working
    <2>4. RunHandler("clock_tick") /\ Become(d)
      BY <1>9 DEF OnClockTick
    <2> HIDE DEF d
    <2> QED BY <2>3, <2>4, HandlerStep
  <1> QED BY <1>2, <1>3, <1>4, <1>5, <1>6, <1>7, <1>8, <1>9 DEF Handlers

\* Before the thread runs the io_context, the object is not stopped, and it has
\* a session or a resolution when it gets there.
LEMMA SetupInv ==
    IInv /\ Setup => IInv' /\ Stays
  <1> SUFFICES ASSUME IInv, Setup
               PROVE  IInv' /\ Stays
    OBVIOUS
  <1>1. Good(cc)
    BY IInvGood
  <1>2. CASE Connect
    BY <1>2 DEF Connect, IInv, TypeOK, Stays
  <1>3. CASE SetupFails
    BY <1>3 DEF SetupFails, IInv, TypeOK, Stays
  <1>4. CASE EnableForeignThreadAccess
    BY <1>4 DEF EnableForeignThreadAccess, IInv, TypeOK, Queued, Stays
  <1>5. CASE SessionStart
    <2> DEFINE c == [cc EXCEPT !.clock_tick = ClockTick]
               d == [c EXCEPT !.resolving = TRUE]
    <2>1. c \in Objects
      BY <1>1, ConstantsAssumption DEF Good, Objects
    <2>2. /\ c.halt = cc.halt /\ c.generation = cc.generation /\ c.timers = cc.timers
          /\ c.session = cc.session /\ c.resolving = cc.resolving /\ c.asio_work = cc.asio_work
      BY <1>1 DEF Good, Objects
    <2>3. thread = "setup" /\ ~cc.halt
      BY <1>5 DEF SessionStart, IInv
    <2>4. Good(c) /\ ~c.halt
      BY <1>1, <2>1, <2>2, <2>3 DEF Good, Released, Current
    <2>5. /\ thread' \in {"started", "returned"}
          /\ UNCHANGED <<foreign, stopped, asked, calling, queue>>
          /\ cc' = d \/ cc' = NewClient(c)
      BY <1>5 DEF SessionStart
    <2> HIDE DEF c
    <2>6. d \in Objects
      BY <2>4 DEF Good, Objects
    <2>7. /\ ~d.halt /\ d.generation = c.generation /\ d.timers = c.timers
          /\ d.session = c.session /\ d.resolving
      BY <2>4 DEF Good, Objects
    <2>8. Good(d) /\ Working(d) /\ ~d.halt
      BY <2>4, <2>6, <2>7 DEF Good, Released, Current, Working
    <2> HIDE DEF d
    <2>9. Good(cc') /\ Working(cc') /\ ~cc'.halt
      BY <2>4, <2>5, <2>8, NewClientGood
    <2>10. TypeOK'
      BY <2>5, <2>9 DEF IInv, TypeOK, Good
    <2> QED BY <2>3, <2>5, <2>9, <2>10 DEF IInv, Good, Stays
  <1> QED BY <1>2, <1>3, <1>4, <1>5 DEF Setup

\* The application only adds handlers to the queue.
LEMMA ApiInv ==
    IInv /\ Api => IInv' /\ Stays
  <1> SUFFICES ASSUME IInv, Api
               PROVE  IInv' /\ Stays
    OBVIOUS
  <1>1. queue' = queue \/ \E op \in ApiOps : queue' = Append(queue, [op |-> op, gen |-> 0])
    BY DEF Api, ApiStop, ApiPause, ApiResume, ApiReconnect, ApiCall, ApiPosts, Post,
           IInv, TypeOK, ApiOps
  <1>2. /\ queue' \in Seq(Handler)
        /\ \A gen : Has(queue, gen) => Has(queue', gen)
    <2>1. CASE queue' = queue
      BY <2>1 DEF IInv, TypeOK
    <2>2. CASE \E op \in ApiOps : queue' = Append(queue, [op |-> op, gen |-> 0])
      <3> PICK op \in ApiOps : queue' = Append(queue, [op |-> op, gen |-> 0])
        BY <2>2
      <3>1. [op |-> op, gen |-> 0] \in Handler /\ queue \in Seq(Handler)
        BY DEF Handler, Ops, IInv, TypeOK
      <3> QED BY <3>1, AppendHas
    <2> QED BY <1>1, <2>1, <2>2
  <1>3. UNCHANGED <<thread, foreign, cc>>
    BY DEF Api, ApiStop, ApiPause, ApiResume, ApiReconnect, ApiCall, ApiPosts
  <1>4. TypeOK'
    <2>1. stopped' \in BOOLEAN /\ calling' \in ApiOps \cup {"none"} /\ asked' \subseteq ApiOps
      BY DEF Api, ApiStop, ApiPause, ApiResume, ApiReconnect, ApiCall, ApiPosts,
             IInv, TypeOK, ApiOps
    <2> QED BY <1>2, <1>3, <2>1 DEF IInv, TypeOK
  <1>5. Has(queue, cc.generation) => Has(queue', cc'.generation)
    BY <1>2, <1>3
  <1> QED BY <1>3, <1>4, <1>5 DEF IInv, Queued, Has, Stays

\* An expired restart wait becomes a handler of the current generation.
LEMMA TimersInv ==
    IInv /\ Timers => IInv' /\ Stays
  <1> SUFFICES ASSUME IInv, Timers
               PROVE  IInv' /\ Stays
    OBVIOUS
  <1>1. Good(cc) /\ queue \in Seq(Handler)
    BY IInvGood DEF IInv, TypeOK
  <1>2. ASSUME NEW timer \in {"restart_wait", "server_poll", "conn"}, Expire(timer)
        PROVE  IInv' /\ Stays
    <2> DEFINE k == [cc.timers EXCEPT ![timer] = NotArmed]
               h == [op |-> timer, gen |-> cc.timers[timer]]
               d == [cc EXCEPT !.timers = k]
    <2>1. /\ cc.timers \in TimerSets
          /\ cc.timers[timer] \in Nat
          /\ thread = "running" /\ queue' = Append(queue, h)
          /\ UNCHANGED <<thread, foreign, stopped, asked, calling>>
      BY <1>1, <1>2 DEF Expire, Good, Objects, TimerSets, Waits
    <2>2. cc' = d
      BY <1>1, <1>2 DEF Expire, Good, Objects
    <2>3. /\ k \in TimerSets
          /\ k.restart_wait \in {NotArmed, cc.timers.restart_wait}
          /\ k.server_poll \in {NotArmed, cc.timers.server_poll}
          /\ k.conn \in {NotArmed, cc.timers.conn}
          /\ timer # "restart_wait" => k.restart_wait = cc.timers.restart_wait
      BY <2>1 DEF TimerSets, Waits
    <2>4. h \in Handler
      BY <2>1 DEF Handler, Ops
    <2> HIDE DEF k
    <2>5. d \in Objects
      BY <1>1, <2>3 DEF Good, Objects
    <2>6. /\ d.halt = cc.halt /\ d.generation = cc.generation /\ d.timers = k
          /\ d.session = cc.session /\ d.resolving = cc.resolving /\ d.asio_work = cc.asio_work
      BY <1>1 DEF Good, Objects
    <2>7. Good(d)
      BY <1>1, <2>3, <2>5, <2>6 DEF Good, Released, Current
    <2>8. /\ queue' \in Seq(Handler)
          /\ Has(queue, d.generation) => Has(queue', d.generation)
          /\ h = [op |-> "restart_wait", gen |-> d.generation] => Has(queue', d.generation)
      BY <1>1, <2>1, <2>4, AppendHas
    <2>9. timer = "restart_wait" => h = [op |-> "restart_wait", gen |-> d.generation]
      BY <1>1, <2>1, <2>6 DEF Good, Current, NotArmed
    <2>10. Working(cc) => Working(d) \/ Has(queue', d.generation)
      BY <2>3, <2>6, <2>8, <2>9 DEF Working
    <2> HIDE DEF d, h
    <2>11. TypeOK'
      BY <2>1, <2>2, <2>7, <2>8 DEF IInv, TypeOK, Good
    <2> QED BY <2>1, <2>2, <2>6, <2>7, <2>8, <2>10, <2>11 DEF IInv, Good, Queued, Has, Stays
  <1>3. CASE ClockTickExpires
    <2> DEFINE d == [cc EXCEPT !.clock_tick = FALSE]
               h == [op |-> "clock_tick", gen |-> 0]
    <2>1. /\ thread = "running" /\ queue' = Append(queue, h) /\ cc' = d
          /\ UNCHANGED <<thread, foreign, stopped, asked, calling>>
      BY <1>3 DEF ClockTickExpires
    <2>2. d \in Objects
      BY <1>1 DEF Good, Objects
    <2>3. /\ d.halt = cc.halt /\ d.generation = cc.generation /\ d.timers = cc.timers
          /\ d.session = cc.session /\ d.resolving = cc.resolving /\ d.asio_work = cc.asio_work
      BY <1>1 DEF Good, Objects
    <2>4. Good(d) /\ Working(d) = Working(cc)
      BY <1>1, <2>2, <2>3 DEF Good, Released, Current, Working
    <2>5. h \in Handler
      BY DEF Handler, Ops
    <2>6. queue' \in Seq(Handler) /\ (Has(queue, d.generation) => Has(queue', d.generation))
      BY <1>1, <2>1, <2>5, AppendHas
    <2> HIDE DEF d, h
    <2>7. TypeOK'
      BY <2>1, <2>4, <2>6 DEF IInv, TypeOK, Good
    <2> QED BY <2>1, <2>3, <2>4, <2>6, <2>7 DEF IInv, Good, Queued, Has, Stays
  <1> QED
    BY <1>2, <1>3 DEF Timers, RestartWaitExpires, ServerPollExpires, ConnTimerExpires

LEMMA PreResolveInv ==
    IInv /\ PreResolveDone => IInv' /\ Stays
  <1> SUFFICES ASSUME IInv, PreResolveDone
               PROVE  IInv' /\ Stays
    OBVIOUS
  <1> DEFINE c == [cc EXCEPT !.resolving = FALSE]
             d == NewClient(c)
  <1>1. Good(cc) /\ ~cc.halt
    BY IInvGood DEF Good, Released, PreResolveDone
  <1>2. c \in Objects
    BY <1>1 DEF Good, Objects
  <1>3. /\ ~c.halt /\ c.generation = cc.generation /\ c.timers = cc.timers
    BY <1>1 DEF Good, Objects
  <1>4. Good(c)
    BY <1>1, <1>2, <1>3 DEF Good, Released, Current
  <1>5. /\ thread = "running" /\ Become(d)
        /\ UNCHANGED <<foreign, stopped, asked, calling, queue>>
    BY DEF PreResolveDone
  <1> HIDE DEF c
  <1>6. Follows(cc, d)
    BY <1>1, <1>3, <1>4, NewClientGood DEF Follows
  <1> HIDE DEF d
  <1>7. Follows(cc, Stop(d))
    BY <1>6, StopFollows
  <1>8. CASE cc' = d /\ UNCHANGED thread
    BY <1>5, <1>6, <1>8, ObjectStep
  <1>9. CASE cc' = Stop(d) /\ thread' = "returned"
    BY <1>5, <1>7, <1>9, ObjectStep
  <1> QED BY <1>5, <1>8, <1>9 DEF Become

\* A session reports only while it is live, so while the object is not stopped;
\* when it ends, it leaves a stopped object or an armed restart wait.
LEMMA SessionEventsInv ==
    IInv /\ SessionEvents => IInv' /\ Stays
  <1> SUFFICES ASSUME IInv, SessionEvents
               PROVE  IInv' /\ Stays
    OBVIOUS
  <1>1. Good(cc) /\ thread = "running" /\ cc.session.state = "live" /\ ~cc.halt
    BY IInvGood, LiveRuns DEF SessionEvents, SessionRuns, FirstPacket, SessionConnects,
         AuthPending, SessionTerminates, TerminatesWith, TerminatesThenPushReply,
         SessionFailsUnhandled
  <1>2. Working(cc)
    BY <1>1 DEF Working
  <1>3. ASSUME NEW d, Good(d), d.halt \/ Working(d), cc' = d,
               thread' \in {"running", "returned"},
               UNCHANGED <<foreign, stopped, asked, calling, queue>>
        PROVE  IInv' /\ Stays
    BY <1>1, <1>3, ObjectStep DEF Follows
  <1>4. CASE FirstPacket
    <2> DEFINE s == [cc.session EXCEPT !.first = TRUE]
               d == [cc EXCEPT !.session = s]
    <2>1. s \in Sessions /\ s.state = "live"
      BY <1>1 DEF Good, Objects, Sessions
    <2>2. cc' = d /\ UNCHANGED <<thread, foreign, stopped, asked, calling, queue>>
      BY <1>1, <1>4 DEF FirstPacket, Good, Objects
    <2> HIDE DEF s
    <2>3. Good(d) /\ Working(d)
      BY <1>1, <2>1, SessionGood DEF Working
    <2> HIDE DEF d
    <2> QED BY <1>1, <1>3, <2>2, <2>3
  <1>5. CASE SessionConnects
    <2> DEFINE d == ProtoConnected(cc)
    <2>1. cc' = d /\ UNCHANGED <<thread, foreign, stopped, asked, calling, queue>>
      BY <1>5 DEF SessionConnects
    <2>2. Good(d) /\ Working(d)
      BY <1>1, <1>2, ProtoConnectedGood
    <2> HIDE DEF d
    <2> QED BY <1>1, <1>3, <2>1, <2>2
  <1>6. CASE AuthPending
    <2> PICK wait \in {cc.timers.conn}
                          \cup (IF cc.timers.conn_pending THEN {cc.generation} ELSE {}) :
          cc' = [cc EXCEPT !.session.auth_pending = TRUE, !.timers.conn = wait]
      BY <1>6 DEF AuthPending
    <2> DEFINE s == [cc.session EXCEPT !.auth_pending = TRUE]
               k == [cc.timers EXCEPT !.conn = wait]
               d == [cc EXCEPT !.session = s, !.timers = k]
    <2>1. s \in Sessions /\ s.state = "live"
      BY <1>1 DEF Good, Objects, Sessions
    <2>2. wait \in Waits
      BY <1>1 DEF Good, Objects, TimerSets, Waits
    <2>3. /\ k \in TimerSets /\ k.restart_wait = cc.timers.restart_wait
          /\ k.server_poll = cc.timers.server_poll
      BY <1>1, <2>2 DEF Good, Objects, TimerSets
    <2>4. cc' = d /\ UNCHANGED <<thread, foreign, stopped, asked, calling, queue>>
      BY <1>1, <1>6 DEF AuthPending, Good, Objects
    <2> HIDE DEF s, k
    <2>5. d \in Objects
      BY <1>1, <2>1, <2>3 DEF Good, Objects
    <2>6. ~d.halt /\ d.generation = cc.generation /\ d.timers = k /\ d.session = s
      BY <1>1 DEF Good, Objects
    <2>7. Good(d) /\ Working(d)
      BY <1>1, <2>1, <2>3, <2>5, <2>6 DEF Good, Released, Current, Working
    <2> HIDE DEF d
    <2> QED BY <1>1, <1>3, <2>4, <2>7
  <1>7. ASSUME NEW e \in ErrorCodes \ UnhandledErrors
        PROVE  LET d == ProtoTerminate([cc EXCEPT !.session.state = "halted"], e)
               IN  Good(d) /\ (d.halt \/ Working(d))
    <2> DEFINE s == [cc.session EXCEPT !.state = "halted"]
               c == [cc EXCEPT !.session = s]
    <2>1. s \in Sessions /\ s.state # "live"
      BY <1>1 DEF Good, Objects, Sessions
    <2>2. [cc EXCEPT !.session.state = "halted"] = c
      BY <1>1 DEF Good, Objects
    <2> HIDE DEF s
    <2>3. Good(c) /\ ~c.halt
      BY <1>1, <2>1, SessionGood
    <2> HIDE DEF c
    <2> QED BY <2>2, <2>3, ProtoTerminateGood
  <1>8. CASE SessionTerminates
    <2> PICK e \in Errors \ UnhandledErrors :
          cc' = ProtoTerminate([cc EXCEPT !.session.state = "halted"], e)
      BY <1>8 DEF SessionTerminates, TerminatesWith
    <2> DEFINE d == ProtoTerminate([cc EXCEPT !.session.state = "halted"], e)
    <2>1. e \in ErrorCodes \ UnhandledErrors
      BY ConstantsAssumption
    <2>2. Good(d) /\ (d.halt \/ Working(d))
      BY <1>7, <2>1
    <2>3. cc' = d /\ UNCHANGED <<thread, foreign, stopped, asked, calling, queue>>
      BY <1>8 DEF SessionTerminates, TerminatesWith
    <2> HIDE DEF d
    <2> QED BY <1>1, <1>3, <2>2, <2>3
  <1>9. CASE TerminatesThenPushReply
    <2> PICK e \in Errors \cap {"AUTH_FAILED", "DYNAMIC_CHALLENGE",
                                "CLIENT_HALT", "CLIENT_RESTART"} :
          LET c == ProtoTerminate([cc EXCEPT !.session.state = "halted"], e)
          IN  cc' = ProtoConnected([c EXCEPT !.session.orphan_tun = TRUE])
      BY <1>9 DEF TerminatesThenPushReply
    <2> DEFINE c == ProtoTerminate([cc EXCEPT !.session.state = "halted"], e)
               s == [c.session EXCEPT !.orphan_tun = TRUE]
               o == [c EXCEPT !.session = s]
               d == ProtoConnected(o)
    <2>1. e \in ErrorCodes \ UnhandledErrors
      BY ConstantsAssumption DEF UnhandledErrors
    <2>2. Good(c) /\ (c.halt \/ Working(c))
      BY <1>7, <2>1
    <2>3. cc' = ProtoConnected([c EXCEPT !.session.orphan_tun = TRUE])
      OBVIOUS
    <2> HIDE DEF c
    <2>4. s \in Sessions /\ s.state = c.session.state
      BY <2>2 DEF Good, Objects, Sessions
    <2>5. [c EXCEPT !.session.orphan_tun = TRUE] = o
      BY <2>2 DEF Good, Objects
    <2>6. s.state = "live" => ~c.halt
      BY <2>2, <2>4, LiveRuns
    <2> HIDE DEF s
    <2>7. Good(o) /\ (o.halt \/ Working(o))
      BY <2>2, <2>4, <2>6, SessionGood DEF Working
    <2> HIDE DEF o
    <2>8. Good(d) /\ (d.halt \/ Working(d))
      BY <2>7, ProtoConnectedGood
    <2>9. cc' = d /\ UNCHANGED <<thread, foreign, stopped, asked, calling, queue>>
      BY <1>9, <2>3, <2>5 DEF TerminatesThenPushReply
    <2> HIDE DEF d
    <2> QED BY <1>1, <1>3, <2>8, <2>9
  <1>10. CASE SessionFailsUnhandled
    <2> DEFINE d == Stop(cc)
    <2>1. Good(d) /\ d.halt
      BY <1>1, StopGood
    <2>2. /\ cc' = d /\ thread' = "returned"
          /\ UNCHANGED <<foreign, stopped, asked, calling, queue>>
      BY <1>10 DEF SessionFailsUnhandled
    <2> HIDE DEF d
    <2> QED BY <1>3, <2>1, <2>2
  <1> QED BY <1>4, <1>5, <1>6, <1>8, <1>9, <1>10 DEF SessionEvents

-----------------------------------------------------------------------------
(* The theorems.                                                           *)

LEMMA InitIInv ==
    Init => IInv
  <1> SUFFICES ASSUME Init
               PROVE  IInv
    OBVIOUS
  <1>1. [NewSession EXCEPT !.state = "none"] \in Sessions
    BY DEF NewSession, Sessions
  <1>2. /\ NoTimers \in TimerSets /\ NoTimers.restart_wait = NotArmed
        /\ NoTimers.server_poll = NotArmed
    BY DEF NoTimers, TimerSets, Waits
  <1>3. cc \in Objects
    BY <1>1, <1>2 DEF Init, Objects, Tellings, Phases
  <1>4. ~cc.halt /\ cc.timers = NoTimers
    BY DEF Init
  <1>5. TypeOK
    <2> <<>> \in Seq(Handler)
      OBVIOUS
    <2> QED BY <1>3 DEF Init, TypeOK
  <1> QED BY <1>2, <1>4, <1>5 DEF Init, IInv, Released, Current

LEMMA NextIInv ==
    IInv /\ [Next]_vars => IInv' /\ Stays
  <1> SUFFICES ASSUME IInv, [Next]_vars
               PROVE  IInv' /\ Stays
    OBVIOUS
  <1>1. CASE Setup
    BY <1>1, SetupInv
  <1>2. CASE Api
    BY <1>2, ApiInv
  <1>3. CASE Handlers
    BY <1>3, HandlersInv
  <1>4. CASE Timers
    BY <1>4, TimersInv
  <1>5. CASE PreResolveDone
    BY <1>5, PreResolveInv
  <1>6. CASE SessionEvents
    BY <1>6, SessionEventsInv
  <1>7. CASE RunReturns
    BY <1>7 DEF RunReturns, IInv, TypeOK, Stays
  <1>8. CASE UNCHANGED vars
    BY <1>8 DEF vars, IInv, TypeOK, Queued, Stays
  <1> QED BY <1>1, <1>2, <1>3, <1>4, <1>5, <1>6, <1>7, <1>8 DEF Next

\* The inductive invariant holds in every state of every connect() call.
THEOREM Inductive == Spec => []IInv
  BY InitIInv, NextIInv, PTL DEF Spec

\* Every variable keeps its range, and every handler carries the generation of
\* a wait that was armed, however many sessions there are.
THEOREM TypeCorrect == Spec => []TypeOK
  <1>1. IInv => TypeOK
    BY DEF IInv
  <1> QED BY <1>1, Inductive, PTL

\* io_context.run() does not return before the session is stopped, so connect()
\* returns only after a disconnect (ovpncli.hpp:500) or an exception.
THEOREM RunsUntilStopped == Spec => []NeverOutOfWork
  <1>1. IInv => NeverOutOfWork
    <2> SUFFICES ASSUME IInv, thread = "running", ~cc.halt
                 PROVE  HasWork
      BY DEF NeverOutOfWork
    <2>1. Working(cc) \/ Queued("restart_wait", cc.generation)
      BY DEF IInv
    <2>2. CASE Working(cc)
      BY <2>2 DEF Working, HasWork
    <2>3. CASE Queued("restart_wait", cc.generation)
      <3>1. queue # <<>>
        BY <2>3 DEF Queued, IInv, TypeOK
      <3> QED BY <3>1 DEF HasWork
    <2> QED BY <2>1, <2>2, <2>3
  <1> QED BY <1>1, Inductive, PTL

\* A restart wait or server poll that is armed is always that of the current
\* session (restart_wait_callback and server_poll_callback drop any other).
THEOREM ArmedWaitsAreCurrent == Spec => []WaitsAreCurrent
  <1>1. IInv => WaitsAreCurrent
    BY DEF IInv, Current, WaitsAreCurrent
  <1> QED BY <1>1, Inductive, PTL

\* ClientConnect::stop() leaves no timer, session, resolution or work guard.
THEOREM StopReleases == Spec => []HaltReleases
  <1>1. IInv => HaltReleases
    BY DEF IInv, Released, HaltReleases
  <1> QED BY <1>1, Inductive, PTL

\* Handlers that run after ClientConnect::stop(), and those posted by calls
\* that had read halt before it, start no session.
THEOREM StoppedForGood == Spec => NoSessionAfterStop
  <1>1. IInv /\ IInv' /\ [Next]_vars =>
            [cc.halt => cc'.generation = cc.generation /\ cc'.session.state # "live"]_vars
    BY NextIInv DEF IInv, Released, Stays
  <1> QED BY <1>1, Inductive, PTL DEF Spec, NoSessionAfterStop

-----------------------------------------------------------------------------
(* Refinement: ClientConnect implements ConnectionEvents, for every        *)
(* configuration and any number of sessions, when no relay server is used  *)
(* and nothing is read behind the message that ends a session.  A server   *)
(* poll that had expired before a pause starts a client while paused: when *)
(* a relay hands that one over, Resume is told after Reconnecting.  With   *)
(* late control messages a stopped session may still tell Connected.       *)

\* The object is stopped exactly when Disconnected was told, and has connected
\* no session before its first.
Fits(c) ==
    /\ c.relay = "none"
    /\ c.halt <=> c.told.phase = "disconnected"
    /\ c.generation = 0 => c.session.state = "none" /\ ~c.session.reached

\* k is what an application that knows h knows when it was told e.
Hears(h, e, k) == Events!MayTell(h, e) /\ k = Events!Told(h, e)

\* What an attempt is told with: nothing if it is the first, Reconnecting
\* otherwise, and Resumed before it.
Attempts(h, k) ==
    \/ k = h
    \/ Hears(h, "reconnecting", k)
    \/ Hears(h, "resumed", k)
    \/ LET r == Events!Told(h, "resumed")
       IN  Hears(h, "resumed", r) /\ Hears(r, "reconnecting", k)

\* d comes of an operation on the object c: an attempt, or something else of
\* which one event may tell.
Speaks(c, d) ==
    /\ Good(d) /\ Fits(d)
    /\ \/ Attempts(Heard(c), Heard(d))
       \/ /\ d.generation = c.generation
          /\ \E e \in Events!Events : Hears(Heard(c), e, Heard(d))

\* The fields that Fits and Heard look at.
SameEvents(c, d) ==
    /\ d.told.phase = c.told.phase /\ d.told.events = c.told.events
    /\ d.halt = c.halt /\ d.paused = c.paused
    /\ d.generation = c.generation /\ d.relay = c.relay
    /\ d.session.reached = c.session.reached
    /\ c.session.state = "none" => d.session.state = "none"

LEMMA SameSpeaks ==
    ASSUME NEW c, NEW d, Fits(c), Good(d), SameEvents(c, d)
    PROVE  /\ Speaks(c, d)
           /\ Fits(d) /\ Heard(d) = Heard(c) /\ d.generation = c.generation
  BY DEF Speaks, Fits, Attempts, SameEvents, Heard

-----------------------------------------------------------------------------
(* What the operations tell.                                               *)

\* Disconnected is told by stop() of an object that is not stopped yet.
LEMMA StopTells ==
    ASSUME NEW d, Good(d), Fits(d), ~d.halt
    PROVE  /\ Good(Stop(d)) /\ Fits(Stop(d))
           /\ Stop(d).generation = d.generation
           /\ Hears(Heard(d), "disconnected", Heard(Stop(d)))
  <1>1. /\ Stop(d).told.phase = "disconnected"
        /\ Stop(d).told.events = d.told.events + 1
        /\ Stop(d).relay = d.relay /\ Stop(d).halt
        /\ Stop(d).paused = d.paused
        /\ Stop(d).generation = d.generation
        /\ Stop(d).session.state = HaltClient(d)
        /\ Stop(d).session.reached = d.session.reached
    BY DEF Stop, StopNow, Tell, Good, Objects, Tellings, Sessions
  <1>2. Fits(Stop(d))
    BY <1>1 DEF Fits, HaltClient
  <1>3. Heard(Stop(d)) = Events!Told(Heard(d), "disconnected")
    <2>1. d.session.reached \in BOOLEAN /\ d.paused \in BOOLEAN
      BY DEF Good, Objects, Sessions
    <2> QED BY <1>1, <2>1 DEF Heard, Events!Told
  <1>4. Events!MayTell(Heard(d), "disconnected")
    BY DEF Fits, Heard, Events!MayTell
  <1> QED BY <1>1, <1>2, <1>3, <1>4, StopGood DEF Hears

LEMMA StopSpeaks ==
    ASSUME NEW c, NEW d, Good(d), Fits(d), Heard(d) = Heard(c), d.generation = c.generation
    PROVE  Speaks(c, Stop(d))
  <1>1. CASE d.halt
    BY <1>1 DEF Stop, Speaks, Attempts
  <1>2. CASE ~d.halt
    BY <1>2, StopTells DEF Speaks, Events!Events
  <1> QED BY <1>1, <1>2

\* A further client is told as Reconnecting, the first one not at all.
LEMMA NewClientTells ==
    ASSUME NEW b, Good(b), Fits(b), ~b.halt
    PROVE  /\ Good(NewClient(b)) /\ Fits(NewClient(b))
           /\ \/ Heard(NewClient(b)) = Heard(b)
              \/ Hears(Heard(b), "reconnecting", Heard(NewClient(b)))
  <1>1. /\ NewClient(b).told =
               IF b.generation > 0 THEN Tell(b.told, "reconnecting") ELSE b.told
        /\ NewClient(b).relay = "none"
        /\ NewClient(b).paused = b.paused
        /\ NewClient(b).session = NewSession
        /\ NewClient(b).generation = b.generation + 1
        /\ ~NewClient(b).halt
    BY DEF NewClient, Fits, Good, Objects
  <1>2. b.generation \in Nat /\ ~NewSession.reached
    BY DEF Good, Objects, NewSession
  <1>3. /\ Tell(b.told, "reconnecting").phase = "reconnecting"
        /\ Tell(b.told, "reconnecting").events = b.told.events + 1
    BY DEF Tell, Good, Objects, Tellings
  <1>4. b.session.reached \in BOOLEAN /\ b.paused \in BOOLEAN /\ NewSession.reached = FALSE
    BY DEF Good, Objects, Sessions, NewSession
  <1>5. Fits(NewClient(b))
    BY <1>1, <1>2, <1>3 DEF Fits
  <1>6. CASE b.generation = 0
    <2>1. NewClient(b).told = b.told
      BY <1>1, <1>6
    <2>2. b.session.reached = FALSE
      BY <1>4, <1>6 DEF Fits
    <2>3. NewClient(b).session.reached = FALSE
      BY <1>1, <1>4
    <2> HIDE DEF NewClient, NewSession
    <2> Heard(NewClient(b)) = Heard(b)
      BY <1>1, <2>1, <2>2, <2>3 DEF Heard
    <2> QED BY <1>5, NewClientGood
  <1>7. CASE b.generation > 0
    <2>1. Heard(NewClient(b)) = Events!Told(Heard(b), "reconnecting")
      BY <1>1, <1>3, <1>4, <1>7 DEF Heard, Events!Told
    <2>2. Events!MayTell(Heard(b), "reconnecting")
      BY DEF Fits, Heard, Events!MayTell
    <2> QED BY <1>5, <2>1, <2>2, NewClientGood DEF Hears
  <1> QED BY <1>2, <1>6, <1>7

LEMMA NewClientSpeaks ==
    ASSUME NEW c, NEW b, Good(b), Fits(b), ~b.halt, Heard(b) = Heard(c)
    PROVE  Speaks(c, NewClient(b))
  BY NewClientTells DEF Speaks, Attempts

\* Pause is told by an object that is not paused yet.
LEMMA PauseSpeaks ==
    ASSUME NEW c, Good(c), Fits(c)
    PROVE  Speaks(c, Pause(c))
  <1>1. CASE c.halt \/ c.paused
    BY <1>1 DEF Pause, Speaks, Attempts
  <1>2. CASE ~(c.halt \/ c.paused)
    <2>1. /\ Pause(c).told.phase = "paused" /\ Pause(c).told.events = c.told.events + 1
          /\ Pause(c).relay = c.relay /\ Pause(c).halt = c.halt
          /\ Pause(c).paused = TRUE
          /\ Pause(c).generation = c.generation
          /\ Pause(c).session.state = HaltClient(c)
          /\ Pause(c).session.reached = c.session.reached
      BY <1>2 DEF Pause, Tell, Good, Objects, Tellings, Sessions
    <2>2. Good(Pause(c))
      BY PauseFollows DEF Follows
    <2>3. Fits(Pause(c))
      BY <1>2, <2>1 DEF Fits, HaltClient
    <2>4. c.session.reached \in BOOLEAN
      BY DEF Good, Objects, Sessions
    <2>5. Heard(Pause(c)) = Events!Told(Heard(c), "paused")
      BY <2>1, <2>4 DEF Heard, Events!Told
    <2>6. Events!MayTell(Heard(c), "paused")
      BY <1>2 DEF Fits, Heard, Events!MayTell
    <2> QED BY <2>1, <2>2, <2>3, <2>5, <2>6 DEF Speaks, Hears, Events!Events
  <1> QED BY <1>1, <1>2

\* Resume is told by an object that is paused, with the attempt it starts.
LEMMA ResumeSpeaks ==
    ASSUME NEW c, Good(c), Fits(c)
    PROVE  Speaks(c, Resume(c))
  <1>1. CASE c.halt \/ ~c.paused
    BY <1>1 DEF Resume, Speaks, Attempts
  <1>2. CASE ~c.halt /\ c.paused
    <2> DEFINE t == Tell(c.told, "resumed")
               b == [c EXCEPT !.paused = FALSE, !.told = t]
    <2>1. /\ t \in Tellings
          /\ t.phase = "resumed" /\ t.events = c.told.events + 1
      BY TellTyped DEF Good, Objects, Phases
    <2>2. Resume(c) = NewClient(b)
      BY <1>2 DEF Resume
    <2> HIDE DEF t
    <2>3. /\ b \in Objects /\ b.halt = c.halt /\ b.generation = c.generation
          /\ b.timers = c.timers /\ b.relay = c.relay /\ b.session = c.session
          /\ b.told = t /\ b.paused = FALSE
      BY <2>1 DEF Good, Objects
    <2>4. Good(b)
      BY <1>2, <2>3 DEF Good, Released, Current
    <2> HIDE DEF b
    <2>5. Fits(b)
      BY <1>2, <2>1, <2>3 DEF Fits
    <2>6. Heard(b) = Events!Told(Heard(c), "resumed")
      <3>1. c.session.reached \in BOOLEAN
        BY DEF Good, Objects, Sessions
      <3> QED BY <2>1, <2>3, <3>1 DEF Heard, Events!Told
    <2>7. Events!MayTell(Heard(c), "resumed")
      BY <1>2 DEF Fits, Heard, Events!MayTell
    <2>8. Attempts(Heard(c), Heard(NewClient(b)))
      BY <1>2, <2>3, <2>4, <2>5, <2>6, <2>7, NewClientTells DEF Attempts, Hears
    <2> QED BY <1>2, <2>2, <2>3, <2>4, <2>5, <2>8, NewClientTells DEF Speaks
  <1> QED BY <1>1, <1>2

LEMMA QueueRestartSpeaks ==
    ASSUME NEW c, Good(c), Fits(c), ~c.halt
    PROVE  Speaks(c, QueueRestart(c))
  <1>1. SameEvents(c, QueueRestart(c))
    BY DEF QueueRestart, SameEvents, Good, Objects
  <1>2. Good(QueueRestart(c))
    BY QueueRestartFollows DEF Follows
  <1> QED BY <1>1, <1>2, SameSpeaks

\* What the object is before an operation, it may be after it.
LEMMA SelfSpeaks ==
    ASSUME NEW c, Good(c), Fits(c)
    PROVE  /\ Speaks(c, c)
           /\ ~c.halt => Speaks(c, NewClient(c))
  BY NewClientSpeaks DEF Speaks, Attempts

LEMMA FatalSpeaks ==
    ASSUME NEW c, Good(c), Fits(c), NEW e \in ErrorCodes \cup {"CONNECTION_TIMEOUT"}
    PROVE  LET d == [c EXCEPT !.told.fatal = e]
           IN  Good(d) /\ Fits(d) /\ Heard(d) = Heard(c) /\ d.generation = c.generation
  <1> DEFINE d == [c EXCEPT !.told.fatal = e]
  <1>1. Good(d)
    BY FatalGood
  <1>2. SameEvents(c, d)
    BY DEF SameEvents, Good, Objects, Tellings
  <1> HIDE DEF d
  <1>3. Fits(d) /\ Heard(d) = Heard(c) /\ d.generation = c.generation
    BY <1>1, <1>2, SameSpeaks
  <1> QED BY <1>1, <1>3 DEF d

\* client_proto_terminate(): Disconnected, or nothing yet.
LEMMA ProtoTerminateSpeaks ==
    ASSUME NEW c, Good(c), Fits(c), ~c.halt,
           NEW e \in ErrorCodes \ UnhandledErrors, e # "RELAY"
    PROVE  Speaks(c, ProtoTerminate(c, e))
  <1> DEFINE f == [c EXCEPT !.told.fatal = e]
  <1>1. Good(f) /\ Fits(f) /\ Heard(f) = Heard(c) /\ f.generation = c.generation
    BY FatalSpeaks
  <1>2. ProtoTerminate(c, e) \in {QueueRestart(c), QueueRestart(f), Stop(f)}
    BY DEF ProtoTerminate, ErrorCodes, RestartErrors, StopErrors, UnhandledErrors
  <1> HIDE DEF f
  <1>3. Speaks(c, QueueRestart(c))
    BY QueueRestartSpeaks
  <1>4. Speaks(c, QueueRestart(f))
    <2>1. ~f.halt
      BY <1>1 DEF Fits, Heard
    <2> QED BY <1>1, <2>1, QueueRestartSpeaks DEF Speaks
  <1>5. Speaks(c, Stop(f))
    BY <1>1, StopSpeaks
  <1> QED BY <1>2, <1>3, <1>4, <1>5

-----------------------------------------------------------------------------
(* The steps.                                                              *)

\* The application hears a step of ConnectionEvents, or nothing.
Listened == Fits(cc') /\ [Events!Next]_(Heard(cc))

\* An operation is one such step.
LEMMA SpeaksListened ==
    ASSUME Speaks(cc, cc')
    PROVE  Listened
  <1> DEFINE h == Heard(cc)
             k == Heard(cc')
             r == Events!Told(h, "resumed")
  <1>1. Fits(cc')
    BY DEF Speaks
  <1>2. ASSUME NEW e \in Events!Events, Hears(h, e, k)
        PROVE  Events!Next
    BY <1>2 DEF Hears, Events!Next, Events!Tell
  <1>3. CASE k = h
    BY <1>1, <1>3 DEF Listened
  <1>4. CASE Hears(h, "resumed", r) /\ Hears(r, "reconnecting", k)
    <2>1. Events!ResumedReconnecting
      BY <1>4 DEF Hears, Events!ResumedReconnecting, Events!TellBoth
    <2> QED BY <1>1, <2>1 DEF Listened, Events!Next
  <1> QED
    BY <1>1, <1>2, <1>3, <1>4 DEF Speaks, Attempts, Listened, Events!Events

\* A handler makes the object d, or d is stopped because its client threw.
LEMMA BecomeTells ==
    ASSUME Good(cc), NEW d, Speaks(cc, d), Become(d)
    PROVE  Listened
  <1>1. CASE cc' = d
    BY <1>1, SpeaksListened
  <1>2. CASE d.generation > cc.generation /\ cc' = Stop(d) /\ ~d.halt
    <2> DEFINE h == Heard(cc)
               j == Heard(d)
               k == Heard(cc')
               r == Events!Told(h, "resumed")
    <2>1. Good(d) /\ Fits(d)
      BY DEF Speaks
    <2>2. Fits(cc') /\ Hears(j, "disconnected", k)
      BY <1>2, <2>1, StopTells
    <2>3. Attempts(h, j)
      <3>1. cc.generation \in Nat /\ d.generation # cc.generation
        BY <1>2, <2>1 DEF Good, Objects
      <3> QED BY <3>1 DEF Speaks
    <2> HIDE DEF h, j, k
    <2>4. CASE j = h
      <3>1. Events!Tell("disconnected")
        BY <2>2, <2>4 DEF Hears, Events!Tell, h, k
      <3> QED BY <2>2, <3>1 DEF Listened, Events!Next, Events!Events
    <2>5. CASE Hears(h, "reconnecting", j) \/ Hears(h, "resumed", j)
      <3>1. Events!StartFails
        BY <2>2, <2>5 DEF Hears, Events!StartFails, Events!TellBoth, h, k
      <3> QED BY <2>2, <3>1 DEF Listened, Events!Next
    <2>6. CASE Hears(h, "resumed", r) /\ Hears(r, "reconnecting", j)
      <3>1. Events!ResumeFails
        BY <2>2, <2>6 DEF Hears, Events!ResumeFails, h, k
      <3> QED BY <2>2, <3>1 DEF Listened, Events!Next
    <2> QED BY <2>3, <2>4, <2>5, <2>6 DEF Attempts
  <1>3. CASE cc' = Stop(d) /\ d.halt
    BY <1>1, <1>3 DEF Stop
  <1> QED BY <1>1, <1>2, <1>3 DEF Become

\* Steps that leave these events alone.
LEMMA SameTells ==
    ASSUME Fits(cc), Good(cc'), SameEvents(cc, cc')
    PROVE  Listened
  BY SameSpeaks, SpeaksListened

LEMMA HandlersTell ==
    ASSUME IInv, Good(cc'), Fits(cc), Handlers
    PROVE  Listened
  <1>1. Good(cc)
    BY IInvGood
  <1>2. ASSUME NEW d, Speaks(cc, d), Become(d)
        PROVE  Listened
    BY <1>1, <1>2, BecomeTells
  <1>3. CASE OnStop
    <2> DEFINE d == Stop(cc)
    <2>1. Speaks(cc, d)
      BY <1>1, StopSpeaks
    <2>2. Become(d)
      BY <1>3 DEF OnStop
    <2> HIDE DEF d
    <2> QED BY <1>2, <2>1, <2>2
  <1>4. CASE OnPause
    <2> DEFINE d == Pause(cc)
    <2>1. Speaks(cc, d)
      BY <1>1, PauseSpeaks
    <2>2. Become(d)
      BY <1>4 DEF OnPause
    <2> HIDE DEF d
    <2> QED BY <1>2, <2>1, <2>2
  <1>5. CASE OnResume
    <2> DEFINE d == Resume(cc)
    <2>1. Speaks(cc, d)
      BY <1>1, ResumeSpeaks
    <2>2. Become(d)
      BY <1>5 DEF OnResume
    <2> HIDE DEF d
    <2> QED BY <1>2, <2>1, <2>2
  <1>6. CASE OnReconnect
    <2> DEFINE d == Reconnect(cc)
    <2>1. d = IF cc.halt THEN cc ELSE QueueRestart(cc)
      BY DEF Reconnect, QueueRestart
    <2>2. Become(d)
      BY <1>6 DEF OnReconnect
    <2> HIDE DEF d
    <2>3. Speaks(cc, d)
      BY <1>1, <2>1, SelfSpeaks, QueueRestartSpeaks
    <2> QED BY <1>2, <2>2, <2>3
  <1>7. CASE OnRestartWait
    <2> DEFINE d == RestartWait(cc, Head(queue).gen)
    <2>1. Speaks(cc, d)
      BY <1>1, SelfSpeaks, ResumeSpeaks DEF RestartWait
    <2>2. Become(d)
      BY <1>7 DEF OnRestartWait
    <2> HIDE DEF d
    <2> QED BY <1>2, <2>1, <2>2
  <1>8. CASE OnServerPoll
    <2> DEFINE d == ServerPoll(cc, Head(queue).gen)
    <2>1. Speaks(cc, d)
      BY <1>1, SelfSpeaks DEF ServerPoll
    <2>2. Become(d)
      BY <1>8 DEF OnServerPoll
    <2> HIDE DEF d
    <2> QED BY <1>2, <2>1, <2>2
  <1>9. CASE OnConnTimer
    <2> DEFINE d == ConnTimer(cc, Head(queue).gen)
               f == [cc EXCEPT !.told.fatal = "CONNECTION_TIMEOUT"]
    <2>1. Good(f) /\ Fits(f) /\ Heard(f) = Heard(cc) /\ f.generation = cc.generation
      BY <1>1, FatalSpeaks
    <2>2. d = IF cc.halt THEN cc ELSE Stop(f)
      BY DEF ConnTimer
    <2>3. Become(d)
      BY <1>9 DEF OnConnTimer
    <2> HIDE DEF d, f
    <2>4. Speaks(cc, Stop(f))
      BY <2>1, StopSpeaks
    <2>5. Speaks(cc, d)
      BY <1>1, <2>2, <2>4, SelfSpeaks
    <2> QED BY <1>2, <2>3, <2>5
  <1>10. CASE OnClockTick
    <2>1. cc' = [cc EXCEPT !.clock_tick = TRUE]
      BY <1>1, <1>10 DEF OnClockTick, Become, Good, Objects
    <2>2. SameEvents(cc, cc')
      BY <1>1, <2>1 DEF SameEvents, Good, Objects
    <2> QED BY <2>2, SameTells
  <1> QED BY <1>3, <1>4, <1>5, <1>6, <1>7, <1>8, <1>9, <1>10 DEF Handlers

\* The first client of a connection that is starting, or has resolved its
\* remotes.
LEMMA StartTells ==
    ASSUME IInv, Good(cc'), Fits(cc), SessionStart \/ PreResolveDone
    PROVE  Listened
  <1>1. Good(cc) /\ ~cc.halt
    BY IInvGood DEF SessionStart, PreResolveDone, IInv, Good, Released
  <1>2. CASE SessionStart
    <2> DEFINE c == [cc EXCEPT !.clock_tick = ClockTick]
               d == [c EXCEPT !.resolving = TRUE]
    <2>1. /\ c \in Objects /\ c.timers = cc.timers /\ c.session = cc.session
          /\ SameEvents(cc, c)
      BY <1>1, ConstantsAssumption DEF SameEvents, Good, Objects
    <2>2. cc' = d \/ cc' = NewClient(c)
      BY <1>2 DEF SessionStart
    <2> HIDE DEF c
    <2>3. SameEvents(cc, d)
      BY <2>1 DEF SameEvents, Objects
    <2> HIDE DEF d
    <2>4. Good(c)
      BY <1>1, <2>1 DEF Good, Released, Current, SameEvents
    <2>5. Fits(c) /\ Heard(c) = Heard(cc) /\ ~c.halt
      BY <1>1, <2>1, <2>4, SameSpeaks DEF SameEvents
    <2>6. Speaks(cc, NewClient(c))
      BY <2>4, <2>5, NewClientSpeaks
    <2> QED BY <2>2, <2>3, <2>6, SameTells, SpeaksListened
  <1>3. CASE PreResolveDone
    <2> DEFINE c == [cc EXCEPT !.resolving = FALSE]
               d == NewClient(c)
    <2>1. c \in Objects /\ c.timers = cc.timers /\ SameEvents(cc, c)
      BY <1>1 DEF SameEvents, Good, Objects
    <2>2. Become(d)
      BY <1>3 DEF PreResolveDone
    <2> HIDE DEF c
    <2>3. Good(c)
      BY <1>1, <2>1 DEF Good, Released, Current, SameEvents
    <2>4. Fits(c) /\ Heard(c) = Heard(cc) /\ ~c.halt
      BY <1>1, <2>1, <2>3, SameSpeaks DEF SameEvents
    <2>5. Speaks(cc, d)
      BY <2>3, <2>4, NewClientSpeaks
    <2> HIDE DEF d
    <2> QED BY <1>1, <2>2, <2>5, BecomeTells
  <1> QED BY <1>2, <1>3

\* What a live session reports.
LEMMA SessionTells ==
    ASSUME ~LateControl, "RELAY" \notin Errors, IInv, Good(cc'), Fits(cc), SessionEvents
    PROVE  Listened
  <1>1. Good(cc) /\ ~cc.halt
    BY IInvGood, LiveRuns DEF SessionEvents, SessionRuns, FirstPacket, SessionConnects,
         AuthPending, SessionTerminates, TerminatesWith, TerminatesThenPushReply,
         SessionFailsUnhandled
  <1>2. CASE FirstPacket
    <2> DEFINE s == [cc.session EXCEPT !.first = TRUE]
    <2>1. cc' = [cc EXCEPT !.session = s]
      BY <1>1, <1>2 DEF FirstPacket, Good, Objects
    <2>2. s.reached = cc.session.reached /\ s.state = cc.session.state
      BY <1>1 DEF Good, Objects, Sessions
    <2> HIDE DEF s
    <2>3. SameEvents(cc, cc')
      BY <1>1, <2>1, <2>2 DEF SameEvents, Good, Objects
    <2> QED BY <2>3, SameTells
  <1>3. CASE AuthPending
    <2> PICK wait \in {cc.timers.conn}
                          \cup (IF cc.timers.conn_pending THEN {cc.generation} ELSE {}) :
          cc' = [cc EXCEPT !.session.auth_pending = TRUE, !.timers.conn = wait]
      BY <1>3 DEF AuthPending
    <2> DEFINE s == [cc.session EXCEPT !.auth_pending = TRUE]
               k == [cc.timers EXCEPT !.conn = wait]
    <2>1. cc' = [cc EXCEPT !.session = s, !.timers = k]
      BY <1>1 DEF Good, Objects
    <2>2. s.reached = cc.session.reached /\ s.state = cc.session.state
      BY <1>1 DEF Good, Objects, Sessions
    <2> HIDE DEF s, k
    <2>3. SameEvents(cc, cc')
      BY <1>1, <2>1, <2>2 DEF SameEvents, Good, Objects
    <2> QED BY <2>3, SameTells
  <1>4. CASE SessionConnects
    <2> DEFINE u == Tell(cc.told, "connected")
               t == [u EXCEPT !.last_connected = TRUE]
               s == [cc.session EXCEPT !.reached = TRUE]
               k == [cc.timers EXCEPT !.conn = NotArmed, !.conn_pending = FALSE]
    <2>1. cc' = [cc EXCEPT !.timers = k, !.session = s, !.told = t]
      BY <1>1, <1>4 DEF SessionConnects, ProtoConnected, Good, Objects
    <2>2. u \in Tellings /\ u.phase = "connected" /\ u.events = cc.told.events + 1
      BY <1>1, TellTyped DEF Good, Objects, Phases
    <2> HIDE DEF u
    <2>3. t.phase = "connected" /\ t.events = cc.told.events + 1
      BY <2>2 DEF Tellings
    <2>4. s.reached = TRUE
      BY <1>1 DEF Good, Objects, Sessions
    <2> HIDE DEF t, s, k
    <2>5. /\ cc'.told.phase = "connected" /\ cc'.told.events = cc.told.events + 1
          /\ cc'.relay = cc.relay /\ cc'.halt = cc.halt
          /\ cc'.generation = cc.generation /\ cc'.paused = cc.paused
          /\ cc'.session.reached = TRUE
      BY <1>1, <2>1, <2>3, <2>4 DEF Good, Objects
    <2>6. cc.generation # 0 /\ ~cc.session.reached
      BY <1>4 DEF SessionConnects, SessionRuns, AwaitsPushReply, Fits
    <2>7. Heard(cc') = Events!Told(Heard(cc), "connected")
      <3>1. cc.paused \in BOOLEAN
        BY <1>1 DEF Good, Objects
      <3> QED BY <2>5, <3>1 DEF Heard, Events!Told
    <2>8. Events!MayTell(Heard(cc), "connected")
      BY <1>1, <2>6 DEF Fits, Heard, Events!MayTell
    <2>9. Fits(cc')
      BY <1>1, <2>5, <2>6 DEF Fits
    <2> QED BY <2>5, <2>7, <2>8, <2>9, SpeaksListened DEF Speaks, Hears, Events!Events
  <1>5. CASE SessionTerminates
    <2> DEFINE c == [cc EXCEPT !.session.state = "halted"]
    <2>1. PICK e \in Errors \ UnhandledErrors : cc' = ProtoTerminate(c, e)
      BY <1>5 DEF SessionTerminates, TerminatesWith
    <2>2. /\ c \in Objects /\ c.timers = cc.timers /\ c.session.state = "halted"
          /\ SameEvents(cc, c)
      BY <1>1, <1>5 DEF SessionTerminates, TerminatesWith, SessionRuns, SameEvents,
                        Good, Objects, Sessions
    <2> HIDE DEF c
    <2>3. Good(c)
      BY <1>1, <2>2 DEF Good, Released, Current, SameEvents
    <2>4. /\ Fits(c) /\ Heard(c) = Heard(cc) /\ c.generation = cc.generation
          /\ ~c.halt
      BY <1>1, <2>2, <2>3, SameSpeaks DEF SameEvents
    <2>5. Speaks(c, ProtoTerminate(c, e))
      BY <2>3, <2>4, ConstantsAssumption, ProtoTerminateSpeaks
    <2>6. Speaks(cc, cc')
      BY <2>1, <2>4, <2>5 DEF Speaks
    <2> QED BY <2>6, SpeaksListened
  <1>6. CASE SessionFailsUnhandled
    <2>1. Speaks(cc, Stop(cc))
      BY <1>1, StopSpeaks
    <2> QED BY <1>6, <2>1, SpeaksListened DEF SessionFailsUnhandled
  <1> QED
    BY <1>2, <1>3, <1>4, <1>5, <1>6 DEF SessionEvents, TerminatesThenPushReply

LEMMA NextTells ==
    ASSUME ~LateControl, "RELAY" \notin Errors, IInv, Good(cc'), Fits(cc), [Next]_vars
    PROVE  Listened
  <1>1. CASE cc' = cc
    BY <1>1, SameTells DEF SameEvents
  <1>2. CASE Timers
    <2>1. SameEvents(cc, cc')
      BY <1>2 DEF Timers, RestartWaitExpires, ServerPollExpires, ConnTimerExpires,
                  ClockTickExpires, Expire, SameEvents, IInv, TypeOK, Objects
    <2> QED BY <2>1, SameTells
  <1>3. CASE Handlers
    BY <1>3, HandlersTell
  <1>4. CASE SessionStart \/ PreResolveDone
    BY <1>4, StartTells
  <1>5. CASE SessionEvents
    BY <1>5, SessionTells
  <1>6. CASE Api \/ RunReturns \/ UNCHANGED vars
    BY <1>1, <1>6 DEF Api, ApiStop, ApiPause, ApiResume, ApiReconnect, ApiCall, ApiPosts,
                      RunReturns, vars
  <1>7. CASE Connect \/ SetupFails \/ EnableForeignThreadAccess
    BY <1>1, <1>7 DEF Connect, SetupFails, EnableForeignThreadAccess
  <1> QED BY <1>2, <1>3, <1>4, <1>5, <1>6, <1>7 DEF Next, Setup

-----------------------------------------------------------------------------

\* The delegate hears the events of a connection in the order of
\* ConnectionEvents, each of them counted, whichever timers, calls and sessions
\* raced.
THEOREM EventsInOrder ==
    ASSUME ~LateControl, "RELAY" \notin Errors
    PROVE  Spec => EventsSpec
  <1>1. Init => Fits(cc) /\ Events!Init
    <2> SUFFICES ASSUME Init
                 PROVE  Fits(cc) /\ Events!Init
      OBVIOUS
    <2>1. /\ cc.told.phase = "idle" /\ cc.told.events = 0 /\ cc.relay = "none"
          /\ cc.halt = FALSE /\ cc.paused = FALSE /\ cc.generation = 0
          /\ cc.session.state = "none" /\ cc.session.reached = FALSE
      BY DEF Init, NewSession
    <2> QED BY <2>1 DEF Fits, Heard, Events!Init
  <1>2. IInv /\ IInv' /\ Fits(cc) /\ [Next]_vars => Fits(cc)' /\ [Events!Next]_(Heard(cc))
    <2> SUFFICES ASSUME IInv, IInv', Fits(cc), [Next]_vars
                 PROVE  Fits(cc)' /\ [Events!Next]_(Heard(cc))
      OBVIOUS
    <2>1. Good(cc')
      BY DEF IInv, TypeOK, Good, Released, Current
    <2>2. Listened
      BY <2>1, NextTells
    <2> QED BY <2>2 DEF Listened, Fits
  <1> QED BY <1>1, <1>2, Inductive, PTL DEF Spec, EventsSpec, Events!Spec
=============================================================================
