---------------------------- MODULE TunnelProofs ----------------------------
(***************************************************************************)
(* Proofs about Tunnel, for every configuration, every set of errors,      *)
(* options and descriptors, any number of sessions, and a core that leaves *)
(* the descriptor to the bridge (RetainSd, as on iOS): otherwise two       *)
(* owners close it, and NoForeignClose is false.                           *)
(*                                                                         *)
(* TunnelSpec implements Spec, so the invariant of ClientConnectProofs     *)
(* holds of it.  The rest is about the session: what a step that keeps or  *)
(* replaces it leaves of what it has reached.                              *)
(***************************************************************************)
EXTENDS Tunnel, ClientConnectProofs

-----------------------------------------------------------------------------
(* The tunnel.                                                             *)

\* Bridge and core agree about the tunnel.
Agreed(t) ==
    /\ t \in Tunnels
    /\ t.open <=> t.socket # None
    /\ t.settings = None <=> t.socket = None
    /\ t.sd = t.socket
    /\ t.persist /\ t.sd # None => t.saved = t.settings
    /\ ~t.foreign

LEMMA NoneIsNew ==
    None \notin Options /\ None \notin Descriptors
  BY TunAssumption

\* tun_builder_new and teardown take the socket away, and only that.
LEMMA ResetTunAgrees ==
    ASSUME NEW t, Agreed(t)
    PROVE  ResetTun(t) = [t EXCEPT !.socket = None, !.open = FALSE, !.settings = None]
  <1>1. InvalidateSockets(t) = [t EXCEPT !.socket = None, !.open = FALSE]
    BY DEF InvalidateSockets, Agreed, Tunnels
  <1> QED BY <1>1 DEF ResetTun, Agreed, Tunnels

\* TunPersist::close() leaves nothing of the tunnel.
LEMMA ClosePersistAgrees ==
    ASSUME RetainSd, NEW t, Agreed(t)
    PROVE  /\ Agreed(ClosePersist(t))
           /\ ClosePersist(t).sd = None
           /\ ClosePersist(t).persist = t.persist
  <1>1. ClosePersist(t) = [t EXCEPT !.socket = None, !.open = FALSE, !.settings = None,
                                    !.saved = None, !.sd = None]
    BY ResetTunAgrees DEF ClosePersist, CloseSd, Agreed, Tunnels
  <1> QED BY <1>1 DEF Agreed, Tunnels

LEMMA TunStopAgrees ==
    ASSUME RetainSd, NEW t, Agreed(t)
    PROVE  /\ Agreed(TunStop(t))
           /\ TunStop(t).persist = t.persist
           /\ t.persist => TunStop(t) = t
           /\ ~t.persist \/ t.sd = None => TunStop(t).sd = None
  BY ClosePersistAgrees DEF TunStop

LEMMA FinalizeAgrees ==
    ASSUME RetainSd, NEW t, Agreed(t)
    PROVE  /\ Agreed(Finalize(t))
           /\ Finalize(t).persist = t.persist
           /\ t.persist \/ t.sd = None => Finalize(t).sd = None
  BY ClosePersistAgrees DEF Finalize

\* The tunnel that a session starts or takes over has the options it was given.
LEMMA TunStartAgrees ==
    ASSUME RetainSd, NEW t, Agreed(t), NEW o \in Options, NEW d \in Descriptors
    PROVE  /\ Agreed(TunStart(t, o, d))
           /\ TunStart(t, o, d).sd # None
           /\ TunStart(t, o, d).settings = o
           /\ TunStart(t, o, d).persist = t.persist
  <1>1. CASE UsesPersisted(t, o)
    BY <1>1 DEF TunStart, UsesPersisted, Agreed
  <1>2. CASE ~UsesPersisted(t, o)
    <2> DEFINE s == IF t.persist THEN o ELSE None
    <2>1. s \in Options \cup {None} /\ (t.persist => s = o)
      OBVIOUS
    <2>2. EstablishTunnel(ResetTun(t), o, d)
              = [t EXCEPT !.socket = d, !.open = TRUE, !.settings = o]
      BY ResetTunAgrees DEF EstablishTunnel, Agreed, Tunnels
    <2> DEFINE u == [t EXCEPT !.socket = d, !.open = TRUE, !.settings = o, !.sd = d, !.saved = s]
    <2>3. TunStart(t, o, d) = u
      BY <1>2, <2>2 DEF TunStart, PersistTunState, CloseSd, Agreed, Tunnels
    <2> HIDE DEF s
    <2>4. /\ u.persist = t.persist /\ u.settings = o /\ u.socket = d /\ u.open = TRUE
          /\ u.sd = d /\ u.saved = s /\ u.foreign = t.foreign
      BY DEF Agreed, Tunnels
    <2>5. u \in Tunnels
      BY <2>1 DEF Agreed, Tunnels
    <2> HIDE DEF u
    <2>6. d # None /\ o # None /\ ~t.foreign
      BY NoneIsNew DEF Agreed
    <2>7. Agreed(u)
      BY <2>1, <2>4, <2>5, <2>6 DEF Agreed
    <2> QED BY <2>3, <2>4, <2>6, <2>7
  <1> QED BY <1>1, <1>2

\* Stopping the session, and then the object, gives a tunnel that agrees: none
\* at all unless it is persistent and the object goes on.
LEMMA FollowsAgrees ==
    ASSUME RetainSd, Agreed(tun), TunFollows
    PROVE  /\ Agreed(tun')
           /\ tun'.persist = tun.persist
           /\ ~Stopped /\ ~Halted => tun' = tun
           /\ tun.persist /\ ~Halted => tun' = tun
           /\ tun.persist /\ Halted => tun'.sd = None
           /\ ~tun.persist /\ Stopped => tun'.sd = None
           /\ tun.sd = None => tun'.sd = None
  <1> DEFINE t == IF Stopped THEN TunStop(tun) ELSE tun
  <1>1. /\ Agreed(t) /\ t.persist = tun.persist
        /\ ~Stopped \/ tun.persist => t = tun
        /\ ~tun.persist /\ Stopped => t.sd = None
        /\ tun.sd = None => t.sd = None
    <2>1. CASE Stopped
      BY <2>1, TunStopAgrees
    <2>2. CASE ~Stopped
      BY <2>2
    <2> QED BY <2>1, <2>2
  <1>2. tun' = IF Halted THEN Finalize(t) ELSE t
    BY DEF TunFollows
  <1> HIDE DEF t
  <1>3. /\ Agreed(Finalize(t)) /\ Finalize(t).persist = t.persist
        /\ t.persist \/ t.sd = None => Finalize(t).sd = None
    BY <1>1, FinalizeAgrees
  <1>4. CASE Halted
    <2> tun' = Finalize(t) BY <1>2, <1>4
    <2> QED BY <1>1, <1>3, <1>4
  <1>5. CASE ~Halted
    <2> tun' = t BY <1>2, <1>5
    <2> QED BY <1>1, <1>5
  <1> QED BY <1>4, <1>5

-----------------------------------------------------------------------------
(* What becomes of the session of an object.                               *)

\* The session has told Connected and goes on.
Up(c) == c.session.state = "live" /\ c.session.reached

\* d comes of c by something that connects no session: one that lives in d is
\* the one of c as it was, or a new one.
Keeps(c, d) ==
    d.session.state = "live" =>
        \/ /\ d.generation = c.generation
           /\ c.session.state = "live"
           /\ d.session.reached = c.session.reached
           /\ d.told.phase = c.told.phase
        \/ d.generation # c.generation /\ ~d.session.reached

LEMMA StoppedKeeps ==
    ASSUME NEW c, NEW d, Good(d), d.halt
    PROVE  Keeps(c, d)
  BY DEF Good, Released, Keeps

LEMMA StopKeeps ==
    ASSUME NEW c, NEW d, Good(d)
    PROVE  Keeps(c, Stop(d))
  BY StopGood, StoppedKeeps

LEMMA NewClientKeeps ==
    ASSUME NEW c, NEW b, Good(b), b.generation = c.generation
    PROVE  Keeps(c, NewClient(b))
  <1>1. NewClient(b).generation = b.generation + 1 /\ NewClient(b).session = NewSession
    BY DEF NewClient, Good, Objects
  <1>2. b.generation \in Nat /\ ~NewSession.reached
    BY DEF Good, Objects, NewSession
  <1> QED BY <1>1, <1>2 DEF Keeps

LEMMA PauseKeeps ==
    ASSUME NEW c, Good(c)
    PROVE  Keeps(c, Pause(c))
  <1>1. CASE c.halt \/ c.paused
    BY <1>1 DEF Pause, Keeps
  <1>2. CASE ~(c.halt \/ c.paused)
    <2>1. Pause(c).session.state = HaltClient(c)
      BY <1>2 DEF Pause, Good, Objects, Sessions
    <2> QED BY <2>1 DEF HaltClient, Keeps
  <1> QED BY <1>1, <1>2

LEMMA ResumeKeeps ==
    ASSUME NEW c, Good(c)
    PROVE  Keeps(c, Resume(c))
  <1>1. CASE c.halt \/ ~c.paused
    BY <1>1 DEF Resume, Keeps
  <1>2. CASE ~(c.halt \/ ~c.paused)
    <2> DEFINE t == Tell(c.told, "resumed")
               b == [c EXCEPT !.paused = FALSE, !.told = t]
    <2>1. t \in Tellings
      BY TellTyped DEF Good, Objects, Phases
    <2>2. Resume(c) = NewClient(b)
      BY <1>2 DEF Resume
    <2> HIDE DEF t
    <2>3. /\ b \in Objects /\ b.halt = c.halt /\ b.generation = c.generation
          /\ b.timers = c.timers
      BY <2>1 DEF Good, Objects
    <2>4. Good(b)
      BY <1>2, <2>3 DEF Good, Released, Current
    <2> HIDE DEF b
    <2> QED BY <2>2, <2>3, <2>4, NewClientKeeps
  <1> QED BY <1>1, <1>2

LEMMA QueueRestartKeeps ==
    ASSUME NEW c, Good(c)
    PROVE  /\ Keeps(c, QueueRestart(c))
           /\ QueueRestart(c).session = c.session
  <1>1. /\ QueueRestart(c).session = c.session /\ QueueRestart(c).told = c.told
        /\ QueueRestart(c).generation = c.generation
    BY DEF QueueRestart, Good, Objects
  <1> QED BY <1>1 DEF Keeps

LEMMA RestartWaitKeeps ==
    ASSUME NEW c, Good(c), NEW gen
    PROVE  Keeps(c, RestartWait(c, gen))
  <1>1. Keeps(c, c)
    BY DEF Keeps
  <1> QED BY <1>1, ResumeKeeps, NewClientKeeps DEF RestartWait

LEMMA ServerPollKeeps ==
    ASSUME NEW c, Good(c), NEW gen
    PROVE  Keeps(c, ServerPoll(c, gen))
  <1>1. Keeps(c, c)
    BY DEF Keeps
  <1> QED BY <1>1, NewClientKeeps DEF ServerPoll

LEMMA ConnTimerKeeps ==
    ASSUME NEW c, Good(c), NEW gen
    PROVE  Keeps(c, ConnTimer(c, gen))
  <1>1. Keeps(c, c)
    BY DEF Keeps
  <1>2. Good([c EXCEPT !.told.fatal = "CONNECTION_TIMEOUT"])
    BY FatalGood
  <1> QED BY <1>1, <1>2, StopKeeps DEF ConnTimer

\* A session that ended is not revived by what client_proto_terminate() does.
LEMMA ProtoTerminateEnds ==
    ASSUME NEW c, Good(c), c.session.state # "live", NEW e \in ErrorCodes \ UnhandledErrors
    PROVE  ProtoTerminate(c, e).session.state # "live"
  <1> DEFINE f == [c EXCEPT !.told.fatal = e]
             r == [c EXCEPT !.relay = "handed"]
  <1>1. f.session = c.session /\ r.session = c.session
    BY DEF Good, Objects
  <1>2. Good(f)
    BY FatalGood
  <1>3. Good(Stop(f)) /\ Stop(f).halt
    BY <1>2, StopGood
  <1>4. /\ QueueRestart(c).session = c.session
        /\ QueueRestart(f).session = c.session
        /\ QueueRestart(r).session = c.session
    BY DEF QueueRestart, Good, Objects
  <1>5. ProtoTerminate(c, e) \in {QueueRestart(c), QueueRestart(r), QueueRestart(f), Stop(f)}
    BY DEF ProtoTerminate, ErrorCodes, RestartErrors, StopErrors, UnhandledErrors
  <1> HIDE DEF f, r
  <1> QED BY <1>3, <1>4, <1>5 DEF Good, Released

-----------------------------------------------------------------------------
(* Steps of ClientConnect that connect no session.                         *)

\* A handler makes the object d, or d is stopped.
LEMMA BecomeKeeps ==
    ASSUME NEW d, Good(d), Keeps(cc, d), Become(d)
    PROVE  Keeps(cc, cc') /\ (thread' # thread => cc'.halt)
  BY StopKeeps, StopGood DEF Become

LEMMA HandlersKeep ==
    ASSUME IInv, Handlers
    PROVE  /\ Keeps(cc, cc')
           /\ thread = "running"
           /\ thread' # "running" => cc'.halt
  <1>1. Good(cc) /\ Keeps(cc, cc)
    BY IInvGood DEF Keeps
  <1>2. thread = "running"
    BY DEF Handlers, OnStop, OnPause, OnResume, OnReconnect, OnRestartWait, OnServerPoll,
           OnConnTimer, OnClockTick, RunHandler
  <1>3. ASSUME NEW d, Good(d), Keeps(cc, d), Become(d)
        PROVE  Keeps(cc, cc') /\ (thread' # "running" => cc'.halt)
    BY <1>2, <1>3, BecomeKeeps
  <1>4. CASE OnStop
    <2> DEFINE d == Stop(cc)
    <2>1. Good(d) /\ Keeps(cc, d)
      BY <1>1, StopGood, StopKeeps
    <2>2. Become(d)
      BY <1>4 DEF OnStop
    <2> HIDE DEF d
    <2> QED BY <1>2, <1>3, <2>1, <2>2
  <1>5. CASE OnPause
    <2> DEFINE d == Pause(cc)
    <2>1. Good(d) /\ Keeps(cc, d)
      BY <1>1, PauseFollows, PauseKeeps DEF Follows
    <2>2. Become(d)
      BY <1>5 DEF OnPause
    <2> HIDE DEF d
    <2> QED BY <1>2, <1>3, <2>1, <2>2
  <1>6. CASE OnResume
    <2> DEFINE d == Resume(cc)
    <2>1. Good(d) /\ Keeps(cc, d)
      BY <1>1, ResumeFollows, ResumeKeeps DEF Follows
    <2>2. Become(d)
      BY <1>6 DEF OnResume
    <2> HIDE DEF d
    <2> QED BY <1>2, <1>3, <2>1, <2>2
  <1>7. CASE OnReconnect
    <2> DEFINE d == Reconnect(cc)
    <2>1. d = cc \/ d = QueueRestart(cc)
      BY DEF Reconnect, QueueRestart
    <2>2. Good(d)
      BY <1>1, ReconnectFollows DEF Follows
    <2>3. Become(d)
      BY <1>7 DEF OnReconnect
    <2> HIDE DEF d
    <2>4. Keeps(cc, d)
      BY <1>1, <2>1, QueueRestartKeeps
    <2> QED BY <1>2, <1>3, <2>2, <2>3, <2>4
  <1>8. CASE OnRestartWait
    <2> DEFINE d == RestartWait(cc, Head(queue).gen)
    <2>1. Good(d) /\ Keeps(cc, d)
      BY <1>1, RestartWaitFollows, RestartWaitKeeps DEF Follows
    <2>2. Become(d)
      BY <1>8 DEF OnRestartWait
    <2> HIDE DEF d
    <2> QED BY <1>2, <1>3, <2>1, <2>2
  <1>9. CASE OnServerPoll
    <2> DEFINE d == ServerPoll(cc, Head(queue).gen)
    <2>1. Good(d) /\ Keeps(cc, d)
      BY <1>1, ServerPollFollows, ServerPollKeeps DEF Follows
    <2>2. Become(d)
      BY <1>9 DEF OnServerPoll
    <2> HIDE DEF d
    <2> QED BY <1>2, <1>3, <2>1, <2>2
  <1>10. CASE OnConnTimer
    <2> DEFINE d == ConnTimer(cc, Head(queue).gen)
    <2>1. Good(d) /\ Keeps(cc, d)
      BY <1>1, ConnTimerFollows, ConnTimerKeeps DEF Follows
    <2>2. Become(d)
      BY <1>10 DEF OnConnTimer
    <2> HIDE DEF d
    <2> QED BY <1>2, <1>3, <2>1, <2>2
  <1>11. CASE OnClockTick
    <2> DEFINE d == [cc EXCEPT !.clock_tick = TRUE]
    <2>1. /\ d \in Objects /\ d.halt = cc.halt /\ d.generation = cc.generation
          /\ d.timers = cc.timers /\ d.session = cc.session /\ d.told = cc.told
          /\ d.resolving = cc.resolving /\ d.asio_work = cc.asio_work
      BY <1>1 DEF Good, Objects
    <2>2. Become(d)
      BY <1>11 DEF OnClockTick
    <2> HIDE DEF d
    <2>3. Good(d) /\ Keeps(cc, d)
      BY <1>1, <2>1 DEF Good, Released, Current, Keeps
    <2> QED BY <1>2, <1>3, <2>2, <2>3
  <1> QED
    BY <1>2, <1>4, <1>5, <1>6, <1>7, <1>8, <1>9, <1>10, <1>11 DEF Handlers

\* The thread gets to run() through setup, and returns from there only.
LEMMA SetupKeeps ==
    ASSUME IInv, Setup
    PROVE  Keeps(cc, cc') /\ thread # "running"
  <1>1. thread # "running"
    BY DEF Setup, Connect, SetupFails, SessionStart, EnableForeignThreadAccess
  <1>2. CASE UNCHANGED cc
    BY <1>1, <1>2 DEF Keeps
  <1>3. CASE SessionStart
    <2> DEFINE c == [cc EXCEPT !.clock_tick = ClockTick]
               d == [c EXCEPT !.resolving = TRUE]
    <2>1. Good(cc) /\ ~cc.halt
      BY <1>3, IInvGood DEF SessionStart, IInv
    <2>2. /\ c \in Objects /\ c.halt = cc.halt /\ c.generation = cc.generation
          /\ c.timers = cc.timers /\ c.session = cc.session /\ c.told = cc.told
      BY <2>1, ConstantsAssumption DEF Good, Objects
    <2>3. cc' = d \/ cc' = NewClient(c)
      BY <1>3 DEF SessionStart
    <2> HIDE DEF c
    <2>4. d.session = c.session /\ d.told = c.told /\ d.generation = c.generation
      BY <2>2 DEF Objects
    <2>5. Good(c)
      BY <2>1, <2>2 DEF Good, Released, Current
    <2> HIDE DEF d
    <2>6. Keeps(cc, d) /\ Keeps(cc, NewClient(c))
      BY <2>2, <2>4, <2>5, NewClientKeeps DEF Keeps
    <2> QED BY <1>1, <2>3, <2>6
  <1> QED
    BY <1>2, <1>3 DEF Setup, Connect, SetupFails, EnableForeignThreadAccess

LEMMA TimersKeep ==
    ASSUME IInv, Timers
    PROVE  Keeps(cc, cc') /\ UNCHANGED thread
  <1>1. cc \in Objects
    BY DEF IInv, TypeOK
  <1>2. ASSUME NEW timer \in {"restart_wait", "server_poll", "conn"}, Expire(timer)
        PROVE  Keeps(cc, cc') /\ UNCHANGED thread
    <2>1. cc' = [cc EXCEPT !.timers = [cc.timers EXCEPT ![timer] = NotArmed]]
      BY <1>1, <1>2 DEF Expire, Objects
    <2>2. cc'.session = cc.session /\ cc'.told = cc.told /\ cc'.generation = cc.generation
      BY <1>1, <2>1 DEF Objects
    <2> QED BY <1>2, <2>2 DEF Expire, Keeps
  <1>3. CASE ClockTickExpires
    <2>1. cc'.session = cc.session /\ cc'.told = cc.told /\ cc'.generation = cc.generation
      BY <1>1, <1>3 DEF ClockTickExpires, Objects
    <2> QED BY <1>3, <2>1 DEF ClockTickExpires, Keeps
  <1> QED
    BY <1>2, <1>3 DEF Timers, RestartWaitExpires, ServerPollExpires, ConnTimerExpires

LEMMA PreResolveKeeps ==
    ASSUME IInv, PreResolveDone
    PROVE  Keeps(cc, cc') /\ (thread' # "running" => cc'.halt)
  <1> DEFINE c == [cc EXCEPT !.resolving = FALSE]
  <1>1. Good(cc) /\ ~cc.halt /\ thread = "running" /\ Become(NewClient(c))
    BY IInvGood DEF PreResolveDone, Good, Released
  <1>2. /\ c \in Objects /\ c.halt = cc.halt /\ c.generation = cc.generation
        /\ c.timers = cc.timers
    BY <1>1 DEF Good, Objects
  <1> HIDE DEF c
  <1>3. Good(c) /\ ~c.halt
    BY <1>1, <1>2 DEF Good, Released, Current
  <1>4. Good(NewClient(c)) /\ Keeps(cc, NewClient(c))
    BY <1>2, <1>3, NewClientGood, NewClientKeeps
  <1> QED BY <1>1, <1>4, BecomeKeeps

\* The session goes on as it is, but for what it has received.
LEMMA PacketKeeps ==
    ASSUME IInv, FirstPacket \/ AuthPending
    PROVE  Keeps(cc, cc') /\ UNCHANGED thread
  <1>1. cc \in Objects /\ cc.session.state = "live"
    BY DEF IInv, TypeOK, FirstPacket, AuthPending, SessionRuns
  <1>2. CASE FirstPacket
    BY <1>1, <1>2 DEF FirstPacket, Objects, Sessions, Keeps
  <1>3. CASE AuthPending
    <2> PICK wait \in {cc.timers.conn}
                          \cup (IF cc.timers.conn_pending THEN {cc.generation} ELSE {}) :
          cc' = [cc EXCEPT !.session.auth_pending = TRUE, !.timers.conn = wait]
      BY <1>3 DEF AuthPending
    <2> DEFINE k == [cc.timers EXCEPT !.conn = wait]
               s == [cc.session EXCEPT !.auth_pending = TRUE]
    <2>1. cc' = [cc EXCEPT !.session = s, !.timers = k] /\ s.reached = cc.session.reached
      BY <1>1 DEF Objects, Sessions
    <2> HIDE DEF s, k
    <2> QED BY <1>1, <1>3, <2>1 DEF AuthPending, Objects, Keeps
  <1> QED BY <1>2, <1>3

\* Nothing happens to the connection once connect() has returned.
LEMMA ReturnedStays ==
    ASSUME Goes, thread = "returned"
    PROVE  UNCHANGED <<thread, cc>>
  <1>1. CASE Setup
    BY <1>1 DEF Setup, Connect, SetupFails, SessionStart, EnableForeignThreadAccess
  <1>2. CASE Api
    BY <1>2 DEF Api, ApiStop, ApiPause, ApiResume, ApiReconnect, ApiCall, ApiPosts
  <1>3. CASE Handlers
    BY <1>3 DEF Handlers, OnStop, OnPause, OnResume, OnReconnect, OnRestartWait,
                OnServerPoll, OnConnTimer, OnClockTick, RunHandler
  <1>4. CASE Timers
    BY <1>4 DEF Timers, RestartWaitExpires, ServerPollExpires, ConnTimerExpires,
                ClockTickExpires, Expire
  <1>5. CASE PreResolveDone \/ FirstPacket \/ AuthPending \/ RunReturns
    BY <1>5 DEF PreResolveDone, FirstPacket, AuthPending, SessionRuns, RunReturns
  <1> QED BY <1>1, <1>2, <1>3, <1>4, <1>5 DEF Goes

\* All that Goes lets the connection do.
LEMMA GoesKeeps ==
    ASSUME IInv, Goes
    PROVE  /\ Keeps(cc, cc')
           /\ thread = "running" /\ thread' # "running" => cc'.halt
  <1>1. CASE Setup
    BY <1>1, SetupKeeps
  <1>2. CASE Api
    BY <1>2 DEF Api, ApiStop, ApiPause, ApiResume, ApiReconnect, ApiCall, ApiPosts, Keeps
  <1>3. CASE Handlers
    BY <1>3, HandlersKeep
  <1>4. CASE Timers
    BY <1>4, TimersKeep
  <1>5. CASE PreResolveDone
    BY <1>5, PreResolveKeeps
  <1>6. CASE FirstPacket \/ AuthPending
    BY <1>6, PacketKeeps
  <1>7. CASE RunReturns
    <2>1. cc' = cc /\ thread = "running" /\ ~HasWork
      BY <1>7 DEF RunReturns
    <2>2. cc.halt
      <3> SUFFICES ASSUME ~cc.halt
                   PROVE  FALSE
        OBVIOUS
      <3>1. Working(cc) \/ Queued("restart_wait", cc.generation)
        BY <2>1 DEF IInv
      <3>2. queue \in Seq(Handler)
        BY DEF IInv, TypeOK
      <3>3. Queued("restart_wait", cc.generation) => queue # <<>>
        BY <3>2 DEF Queued
      <3> QED BY <2>1, <3>1, <3>3 DEF Working, HasWork
    <2> QED BY <2>1, <2>2 DEF Keeps
  <1> QED
    BY <1>1, <1>2, <1>3, <1>4, <1>5, <1>6, <1>7 DEF Goes

\* A session that terminates does not live on, and run() goes on.
LEMMA TerminatesEnds ==
    ASSUME IInv, SessionTerminates
    PROVE  cc'.session.state # "live" /\ thread = "running" /\ UNCHANGED thread
  <1> DEFINE c == [cc EXCEPT !.session.state = "halted"]
  <1>1. Good(cc) /\ ~cc.halt /\ thread = "running" /\ UNCHANGED thread
    BY IInvGood, LiveRuns DEF SessionTerminates, TerminatesWith, SessionRuns
  <1>2. PICK e \in Errors \ UnhandledErrors : cc' = ProtoTerminate(c, e)
    BY DEF SessionTerminates, TerminatesWith
  <1>3. e \in ErrorCodes \ UnhandledErrors
    BY ConstantsAssumption
  <1>4. /\ c \in Objects /\ c.session.state = "halted" /\ c.halt = cc.halt
        /\ c.generation = cc.generation /\ c.timers = cc.timers
    BY <1>1 DEF Good, Objects, Sessions
  <1> HIDE DEF c
  <1>5. Good(c)
    BY <1>1, <1>4 DEF Good, Released, Current
  <1> QED BY <1>1, <1>2, <1>3, <1>4, <1>5, ProtoTerminateEnds

\* A tunnel that cannot be set up is fatal.
LEMMA TunErrorStops ==
    ASSUME IInv, NEW e \in TunErrors, TerminatesWith(e)
    PROVE  cc'.halt
  <1> DEFINE c == [cc EXCEPT !.session.state = "halted"]
             f == [c EXCEPT !.told.fatal = e]
  <1>1. Good(cc) /\ ~cc.halt
    BY IInvGood, LiveRuns DEF TerminatesWith, SessionRuns
  <1>2. /\ c \in Objects /\ c.session.state = "halted" /\ c.halt = cc.halt
        /\ c.generation = cc.generation /\ c.timers = cc.timers
    BY <1>1 DEF Good, Objects, Sessions
  <1>3. Good(c)
    BY <1>1, <1>2 DEF Good, Released, Current
  <1>4. cc' = ProtoTerminate(c, e)
    BY DEF TerminatesWith
  <1> HIDE DEF c
  <1>5. ProtoTerminate(c, e) = Stop(f)
    BY DEF ProtoTerminate, TunErrors, RestartErrors, StopErrors, UnhandledErrors
  <1>6. Good(f)
    BY <1>3, FatalGood DEF TunErrors, ErrorCodes, StopErrors
  <1> QED BY <1>4, <1>5, <1>6, StopGood

\* The session's terminations are those that leave the tunnel to Follow, and
\* those of a tunnel that could not be set up.
LEMMA TerminatesSplit ==
    /\ Terminates => SessionTerminates
    /\ TunFails => SessionTerminates
  BY DEF Terminates, TunFails, SessionTerminates, TunErrors, UnhandledErrors

\* control_recv of the PUSH_REPLY.
LEMMA SessionConnectsIsUp ==
    ASSUME IInv, SessionConnects
    PROVE  /\ Up(cc')
           /\ cc'.told.phase = "connected"
           /\ ~cc.halt /\ ~cc'.halt
           /\ ~cc.session.reached
           /\ thread = "running" /\ UNCHANGED thread
  <1>1. Good(cc) /\ ~cc.halt /\ cc.session.state = "live"
    BY IInvGood, LiveRuns DEF SessionConnects, SessionRuns
  <1> DEFINE u == Tell(cc.told, "connected")
             t == [u EXCEPT !.last_connected = TRUE]
             s == [cc.session EXCEPT !.reached = TRUE]
             k == [cc.timers EXCEPT !.conn = NotArmed, !.conn_pending = FALSE]
  <1>2. cc' = [cc EXCEPT !.timers = k, !.session = s, !.told = t]
    BY <1>1 DEF SessionConnects, ProtoConnected, Good, Objects
  <1>3. u \in Tellings /\ u.phase = "connected"
    BY <1>1, TellTyped DEF Good, Objects, Phases
  <1> HIDE DEF u
  <1>4. t.phase = "connected"
    BY <1>3 DEF Tellings
  <1>5. s.state = "live" /\ s.reached
    BY <1>1 DEF Good, Objects, Sessions
  <1> HIDE DEF t, s, k
  <1>6. /\ cc'.session.state = "live" /\ cc'.session.reached
        /\ cc'.told.phase = "connected" /\ cc'.halt = cc.halt
    BY <1>1, <1>2, <1>4, <1>5 DEF Good, Objects
  <1> QED BY <1>1, <1>6 DEF SessionConnects, SessionRuns, AwaitsPushReply, Up

-----------------------------------------------------------------------------
(* The inductive invariant.                                                *)

\* The tunnel of the session, and of the object: it is there while the session
\* is up, and afterwards only if it is persistent and the object goes on, or if
\* its tun client was never stopped.
TunInv ==
    /\ Agreed(tun)
    /\ Up(cc) => tun.sd # None /\ tun.settings = proto.options
    /\ IF TunLeft THEN tun.sd # None
       ELSE /\ ~tun.persist /\ ~Up(cc) => tun.sd = None
            /\ tun.persist /\ cc.halt => tun.sd = None
            /\ thread # "running" => tun.sd = None

\* The session: what releases INFO messages starts with the event Connected.
ProtoInv ==
    /\ proto \in Protos
    /\ PushRequestPending
    /\ cc.session.state = "live" /\ proto.info_hold # "holding" => cc.session.reached
    /\ Up(cc) => cc.told.phase = "connected"
    /\ proto.threw => thread = "returned"

\* A session that goes on is neither stopped nor replaced, and nothing happens
\* to its tunnel.
LEMMA UpStays ==
    ASSUME IInv', Keeps(cc, cc'), cc'.session.state = "live", ~Replaced
    PROVE  /\ cc.session.state = "live"
           /\ cc'.session.reached = cc.session.reached
           /\ cc'.told.phase = cc.told.phase
           /\ ~Stopped /\ ~Halted
  <1>1. ~cc'.halt
    BY DEF IInv, Released
  <1> QED BY <1>1 DEF Keeps, Replaced, Stopped, Halted

\* The connection goes on, and the tunnel follows.
LEMMA FollowTun ==
    ASSUME RetainSd, IInv', Stays, TunInv, ProtoInv, Follow, Keeps(cc, cc'),
           thread = "running" /\ thread' # "running" => cc'.halt,
           thread = "returned" => UNCHANGED <<thread, cc>>
    PROVE  TunInv'
  <1>1. TunFollows /\ Agreed(tun)
    BY DEF Follow, TunInv
  <1>2. Agreed(tun')
    BY <1>1, FollowsAgrees
  <1>3. ASSUME Up(cc')
        PROVE  tun'.sd # None /\ tun'.settings = proto'.options
    <2>1. ~Replaced
      BY <1>3 DEF Up, Keeps, Replaced
    <2>2. Up(cc) /\ ~Stopped /\ ~Halted
      BY <1>3, <2>1, UpStays DEF Up
    <2>3. tun' = tun /\ proto' = proto
      BY <1>1, <2>1, <2>2, FollowsAgrees DEF Follow
    <2> QED BY <2>2, <2>3 DEF TunInv
  <1>4. CASE TunLeft
    <2>1. UNCHANGED <<thread, cc>>
      BY <1>4 DEF TunLeft
    <2>2. ~Stopped /\ ~Halted /\ ~Replaced
      BY <2>1 DEF Stopped, Halted, Replaced
    <2>3. UNCHANGED <<tun, proto>>
      BY <1>1, <2>2, FollowsAgrees DEF Follow
    <2> QED BY <2>1, <2>3 DEF TunInv, TunLeft, Up
  <1>5. ASSUME TunLeft'
        PROVE  TunLeft
    <2>1. proto.threw
      BY <1>5 DEF TunLeft, Follow, NewProto, Cancelled, ProtoInv, Protos
    <2>2. thread = "returned" /\ UNCHANGED cc
      BY <2>1 DEF ProtoInv
    <2> QED BY <1>5, <2>1, <2>2 DEF TunLeft
  <1>6. ASSUME ~TunLeft, ~tun'.persist, ~Up(cc')
        PROVE  tun'.sd = None
    <2>1. ~tun.persist
      BY <1>1, <1>6, FollowsAgrees
    <2>2. CASE Up(cc)
      <3>1. Stopped
        <4> SUFFICES ASSUME ~Stopped
                     PROVE  FALSE
          OBVIOUS
        <4>1. cc'.session.state = "live" /\ ~Replaced
          BY <2>2 DEF Stopped, Up
        <4> QED BY <1>6, <2>2, <4>1, UpStays DEF Up
      <3> QED BY <1>1, <2>1, <3>1, FollowsAgrees
    <2>3. CASE ~Up(cc)
      BY <1>1, <1>6, <2>1, <2>3, FollowsAgrees DEF TunInv
    <2> QED BY <2>2, <2>3
  <1>7. ASSUME ~TunLeft, tun'.persist, cc'.halt
        PROVE  tun'.sd = None
    <2>1. tun.persist
      BY <1>1, <1>7, FollowsAgrees
    <2>2. CASE cc.halt
      BY <1>1, <1>7, <2>1, <2>2, FollowsAgrees DEF TunInv
    <2>3. CASE ~cc.halt
      BY <1>1, <1>7, <2>1, <2>3, FollowsAgrees DEF Halted
    <2> QED BY <2>2, <2>3
  <1>8. ASSUME ~TunLeft, thread' # "running"
        PROVE  tun'.sd = None
    <2>1. CASE thread = "running"
      <3>1. cc'.halt /\ ~Up(cc')
        BY <1>8, <2>1 DEF IInv, Released, Up
      <3> QED BY <1>6, <1>7, <1>8, <3>1
    <2>2. CASE thread # "running"
      BY <1>1, <1>8, <2>2, FollowsAgrees DEF TunInv
    <2> QED BY <2>1, <2>2
  <1> QED BY <1>2, <1>3, <1>6, <1>7, <1>8, <1>4, <1>5 DEF TunInv, Up

LEMMA FollowProto ==
    ASSUME IInv', ProtoInv, Follow, Keeps(cc, cc'),
           thread = "returned" => UNCHANGED <<thread, cc>>
    PROVE  ProtoInv'
  <1>1. proto' \in Protos
    <2>1. NewProto \in Protos
      BY DEF NewProto, Protos
    <2>2. Cancelled(proto) \in Protos
      BY DEF ProtoInv, Cancelled, Protos
    <2> QED BY <2>1, <2>2 DEF Follow, ProtoInv
  <1>2. proto'.threw => thread' = "returned"
    BY DEF ProtoInv, Protos, Follow, NewProto, Cancelled
  <1>3. CASE cc'.session.state # "live"
    BY <1>1, <1>3, <1>2 DEF ProtoInv, PushRequestPending, Up
  <1>4. CASE cc'.session.state = "live" /\ Replaced
    <2>1. ~cc'.session.reached
      BY <1>4 DEF Keeps, Replaced
    <2>2. proto' = NewProto
      BY <1>4 DEF Follow
    <2> QED BY <1>1, <1>2, <2>1, <2>2 DEF ProtoInv, PushRequestPending, Up, NewProto
  <1>5. CASE cc'.session.state = "live" /\ ~Replaced
    <2>1. /\ cc.session.state = "live" /\ ~Stopped
          /\ cc'.session.reached = cc.session.reached
          /\ cc'.told.phase = cc.told.phase
      BY <1>5, UpStays
    <2>2. proto' = proto
      BY <1>5, <2>1 DEF Follow
    <2> QED BY <1>1, <1>2, <2>1, <2>2 DEF ProtoInv, PushRequestPending, Up
  <1> QED BY <1>3, <1>4, <1>5

\* The steps of the session alone.
SessionAlone ==
    \/ Active \/ PushRequestExpires \/ SendPushRequest \/ PushContinues
    \/ RecvInfo \/ InfoHoldExpires \/ InfoHold

LEMMA AloneInv ==
    ASSUME SessionAlone
    PROVE  /\ UNCHANGED <<connectVars, tun>>
           /\ TunInv /\ ProtoInv => TunInv'
           /\ ProtoInv => ProtoInv'
  <1>1. UNCHANGED <<connectVars, tun>>
    BY DEF SessionAlone, Active, PushRequestExpires, SendPushRequest, PushContinues,
           RecvInfo, InfoHoldExpires, InfoHold
  <1>2. UNCHANGED <<thread, cc, tun>>
    BY <1>1 DEF connectVars, vars
  <1>3. ASSUME ProtoInv
        PROVE  /\ proto' \in Protos
               /\ proto'.options = proto.options /\ proto'.threw = proto.threw
               /\ cc.session.state = "live" /\ proto'.active /\ ~proto'.partial
                      => proto'.push # "off"
               /\ proto'.info_hold # "holding" /\ cc.session.state = "live"
                      => proto.info_hold # "holding"
    <2> USE <1>3 DEF ProtoInv, PushRequestPending, Protos
    <2>1. CASE Active
      BY <2>1 DEF Active
    <2>2. CASE PushRequestExpires
      BY <2>2 DEF PushRequestExpires
    <2>3. CASE SendPushRequest
      BY <2>3 DEF SendPushRequest
    <2>4. CASE PushContinues
      BY <2>4 DEF PushContinues
    <2>5. CASE RecvInfo
      BY <2>5 DEF RecvInfo
    <2>6. CASE InfoHoldExpires
      BY <2>6 DEF InfoHoldExpires
    <2>7. CASE InfoHold
      <3>1. HoldReleased(proto) \in Protos /\ HoldReleased(proto).options = proto.options
        BY DEF HoldReleased
      <3>2. /\ HoldReleased(proto).active = proto.active
            /\ HoldReleased(proto).partial = proto.partial
            /\ HoldReleased(proto).push = proto.push
            /\ HoldReleased(proto).threw = proto.threw
        BY DEF HoldReleased
      <3> QED BY <2>7, <3>1, <3>2 DEF InfoHold
    <2> QED BY <2>1, <2>2, <2>3, <2>4, <2>5, <2>6, <2>7 DEF SessionAlone
  <1>4. ProtoInv => ProtoInv'
    BY <1>2, <1>3 DEF ProtoInv, PushRequestPending, Up
  <1>5. TunInv /\ ProtoInv => TunInv'
    BY <1>2, <1>3 DEF TunInv, TunLeft, Up
  <1> QED BY <1>1, <1>4, <1>5

\* The PUSH_REPLY that completes the options connects the session, with the
\* tunnel of these options.
LEMMA PushReplyInv ==
    ASSUME IInv, PushReply
    PROVE  /\ RetainSd /\ TunInv /\ ProtoInv => TunInv'
           /\ ProtoInv => ProtoInv'
  <1>1. /\ Up(cc') /\ cc'.told.phase = "connected" /\ ~cc'.halt
        /\ ~cc.session.reached /\ thread = "running" /\ thread' = "running"
    BY SessionConnectsIsUp DEF PushReply
  <1>2. PICK o \in Options, d \in Descriptors :
          /\ tun' = TunStart(tun, o, d)
          /\ proto' = [proto EXCEPT !.partial = TRUE, !.options = o, !.info_hold = "armed"]
    BY DEF PushReply
  <1>3. ASSUME ProtoInv
        PROVE  /\ proto' \in Protos /\ proto'.partial /\ proto'.options = o
               /\ ~proto'.threw
    BY <1>1, <1>2, <1>3 DEF ProtoInv, Protos
  <1>4. ASSUME RetainSd, TunInv
        PROVE  Agreed(tun') /\ tun'.sd # None /\ tun'.settings = o
    BY <1>2, <1>4, TunStartAgrees DEF TunInv
  <1>5. ProtoInv => ProtoInv'
    BY <1>1, <1>3 DEF ProtoInv, PushRequestPending, Up
  <1>6. ASSUME RetainSd, TunInv, ProtoInv
        PROVE  TunInv'
    BY <1>1, <1>3, <1>4, <1>6 DEF TunInv, TunLeft, Up
  <1> QED BY <1>5, <1>6

\* A tunnel that cannot be set up leaves none, and ends the session.
LEMMA TunFailsInv ==
    ASSUME IInv, TunFails
    PROVE  /\ RetainSd /\ TunInv /\ ProtoInv => TunInv'
           /\ ProtoInv => ProtoInv'
  <1>1. cc'.session.state # "live" /\ thread = "running" /\ thread' = "running"
    BY TerminatesEnds, TerminatesSplit
  <1>2. ASSUME RetainSd, TunInv
        PROVE  Agreed(tun') /\ tun'.sd = None
    BY <1>2, ClosePersistAgrees DEF TunFails, TunInv
  <1>3. ASSUME ProtoInv
        PROVE  proto' \in Protos /\ ~proto'.threw
    BY <1>1, <1>3 DEF ProtoInv, TunFails, Cancelled, Protos
  <1> QED BY <1>1, <1>2, <1>3 DEF TunInv, TunLeft, ProtoInv, PushRequestPending, Up

\* An exception leaves the tunnel of a connected session up, and none else.
LEMMA SessionThrowsInv ==
    ASSUME IInv, SessionThrows
    PROVE  /\ RetainSd /\ TunInv /\ ProtoInv => TunInv'
           /\ ProtoInv => ProtoInv'
  <1>1. /\ thread = "running" /\ thread' = "returned" /\ cc' = Stop(cc)
        /\ cc.session.state = "live"
    BY DEF SessionThrows, SessionFailsUnhandled, SessionRuns
  <1>2. cc'.halt /\ cc'.session.state # "live" /\ cc'.session.reached = cc.session.reached
    <2>1. Good(cc) /\ ~cc.halt
      BY <1>1, IInvGood, LiveRuns
    <2>2. cc'.session.reached = cc.session.reached
      BY <1>1, <2>1 DEF Stop, StopNow, Good, Objects, Sessions
    <2> QED BY <1>1, <2>1, <2>2, StopGood DEF Good, Released
  <1>3. ASSUME ProtoInv
        PROVE  proto' \in Protos /\ proto'.threw
    <2>1. Cancelled(proto) \in Protos
      BY <1>3 DEF ProtoInv, Cancelled, Protos
    <2> QED BY <2>1 DEF SessionThrows, Protos
  <1>4. ProtoInv => ProtoInv'
    BY <1>1, <1>2, <1>3 DEF ProtoInv, PushRequestPending, Up
  <1>5. ASSUME RetainSd, TunInv, ProtoInv
        PROVE  TunInv'
    <2>1. Agreed(tun) /\ ~TunLeft
      BY <1>1, <1>5 DEF TunInv, TunLeft
    <2>2. CASE cc.session.reached
      <3>1. tun' = tun /\ tun.sd # None
        BY <1>1, <1>5, <2>2 DEF SessionThrows, TunInv, Up
      <3>2. TunLeft' /\ ~Up(cc')
        BY <1>1, <1>2, <1>3, <1>5, <2>2 DEF TunLeft, Up
      <3> QED BY <2>1, <3>1, <3>2 DEF TunInv, Up
    <2>3. CASE ~cc.session.reached
      <3>1. tun' = Finalize(tun) /\ (~tun.persist => tun.sd = None)
        BY <1>5, <2>1, <2>3 DEF SessionThrows, TunInv, Up
      <3>2. Agreed(tun') /\ tun'.sd = None
        BY <1>5, <2>1, <3>1, FinalizeAgrees
      <3>3. ~TunLeft' /\ ~Up(cc')
        BY <1>2, <2>3 DEF TunLeft, Up
      <3> QED BY <3>2, <3>3 DEF TunInv, Up
    <2> QED BY <2>2, <2>3
  <1> QED BY <1>4, <1>5

\* What each step of TunnelNext does to the connection.
LEMMA TunnelStep ==
    ASSUME TunnelNext
    PROVE  Next \/ UNCHANGED vars
  <1>1. CASE Goes
    BY <1>1 DEF Goes, Next, SessionEvents
  <1>2. CASE Terminates
    BY <1>2, TerminatesSplit DEF Next, SessionEvents
  <1>3. CASE PushReply
    BY <1>3 DEF PushReply, Next, SessionEvents
  <1>4. CASE TunFails
    BY <1>4, TerminatesSplit DEF Next, SessionEvents
  <1>5. CASE SessionAlone
    BY <1>5, AloneInv DEF connectVars
  <1>6. CASE SessionThrows
    BY <1>6 DEF SessionThrows, Next, SessionEvents
  <1> QED BY <1>1, <1>2, <1>3, <1>4, <1>5, <1>6 DEF TunnelNext, SessionAlone

LEMMA TunnelInitInv ==
    TunnelInit => TunInv /\ ProtoInv
  <1> SUFFICES ASSUME TunnelInit
               PROVE  TunInv /\ ProtoInv
    OBVIOUS
  <1>1. /\ cc.session.state = "none" /\ thread = "idle"
    BY DEF TunnelInit, Init, NewSession
  <1>2. Agreed(tun) /\ tun.sd = None
    BY DEF TunnelInit, NewTunnel, Agreed, Tunnels
  <1>3. proto \in Protos /\ ~proto.threw
    BY DEF TunnelInit, NewProto, Protos
  <1> QED BY <1>1, <1>2, <1>3 DEF TunInv, TunLeft, ProtoInv, PushRequestPending, Up

LEMMA TunnelNextInv ==
    ASSUME IInv, IInv', Stays, [TunnelNext]_allVars
    PROVE  /\ RetainSd /\ TunInv /\ ProtoInv => TunInv'
           /\ ProtoInv => ProtoInv'
  <1>1. CASE Goes
    BY <1>1, GoesKeeps, ReturnedStays, FollowTun, FollowProto DEF Goes
  <1>2. CASE Terminates
    <2>1. /\ cc'.session.state # "live" /\ Follow
          /\ thread = "running" /\ thread' = "running"
      BY <1>2, TerminatesEnds, TerminatesSplit DEF Terminates
    <2>2. Keeps(cc, cc')
      BY <2>1 DEF Keeps
    <2> QED BY <2>1, <2>2, FollowTun, FollowProto
  <1>3. CASE SessionAlone
    BY <1>3, AloneInv
  <1>4. CASE PushReply
    BY <1>4, PushReplyInv
  <1>5. CASE TunFails
    BY <1>5, TunFailsInv
  <1>6. CASE UNCHANGED allVars
    BY <1>6 DEF allVars, connectVars, vars, TunInv, TunLeft, ProtoInv, PushRequestPending, Up
  <1>7. CASE SessionThrows
    BY <1>7, SessionThrowsInv
  <1> QED BY <1>1, <1>2, <1>3, <1>4, <1>5, <1>6, <1>7 DEF TunnelNext, SessionAlone

-----------------------------------------------------------------------------
(* The theorems.                                                           *)

\* Whatever happens to the tunnel, the connection behaves as ClientConnect
\* says: its theorems hold of TunnelSpec too.
THEOREM TunnelImplements == TunnelSpec => Spec
  <1>1. TunnelInit => Init
    BY DEF TunnelInit
  <1>2. [TunnelNext]_allVars => [Next]_vars
    BY TunnelStep DEF allVars, connectVars
  <1> QED BY <1>1, <1>2, PTL DEF TunnelSpec, Spec

\* The invariant of the session holds, with either owner of the descriptor.
THEOREM ProtoInductive == TunnelSpec => []ProtoInv
  <1>1. [TunnelNext]_allVars => [Next]_vars
    BY TunnelStep DEF allVars, connectVars
  <1>2. IInv /\ IInv' /\ ProtoInv /\ [TunnelNext]_allVars => ProtoInv'
    BY <1>1, NextIInv, TunnelNextInv
  <1>3. TunnelInit => ProtoInv
    BY TunnelInitInv
  <1> QED BY <1>2, <1>3, TunnelImplements, Inductive, PTL DEF TunnelSpec

\* The invariant of the tunnel holds, when the descriptor is left to the bridge.
THEOREM TunInductive == ASSUME RetainSd PROVE TunnelSpec => [](TunInv /\ ProtoInv)
  <1>1. [TunnelNext]_allVars => [Next]_vars
    BY TunnelStep DEF allVars, connectVars
  <1>2. /\ IInv /\ IInv' /\ TunInv /\ ProtoInv /\ [TunnelNext]_allVars
           => TunInv' /\ ProtoInv'
    BY <1>1, NextIInv, TunnelNextInv
  <1>3. TunnelInit => TunInv /\ ProtoInv
    BY TunnelInitInv
  <1> QED BY <1>2, <1>3, TunnelImplements, Inductive, PTL DEF TunnelSpec

\* Every variable keeps its range.
THEOREM TunnelTypeCorrect == ASSUME RetainSd PROVE TunnelSpec => []TunnelTypeOK
  <1>1. IInv /\ TunInv /\ ProtoInv => TunnelTypeOK
    BY DEF IInv, TunInv, Agreed, ProtoInv, TunnelTypeOK
  <1> QED BY <1>1, TunInductive, TunnelImplements, Inductive, PTL

\* A session that has told Connected reads the open socket of the bridge, and
\* its tunnel is the one the server asked for, also when it took it over from
\* an earlier session (tun/builder/client.hpp:255-266).
THEOREM ConnectedUsesItsTunnel == ASSUME RetainSd PROVE TunnelSpec => []ConnectedHasTunnel
  <1>1. TunInv => ConnectedHasTunnel
    BY DEF TunInv, Agreed, Up, ConnectedHasTunnel
  <1> QED BY <1>1, TunInductive, PTL

\* connect() leaves no tunnel behind, persistent or not, since Session::stop()
\* or ClientOptions::finalize() has closed it; or it does so in one case alone,
\* when client_proto_terminate() threw out of the stop() of a connected session
\* (cliproto.hpp:238-241).
THEOREM ReturnsWithoutTunnel == ASSUME RetainSd PROVE TunnelSpec => []AllTornDown
  <1>1. TunInv => AllTornDown
    BY DEF TunInv, TunLeft, Agreed, AllTornDown
  <1> QED BY <1>1, TunInductive, PTL

\* No descriptor is closed a second time, or after somebody else has got its
\* number (tun/persist/tunwrap.hpp with retain_sd).
THEOREM ClosedOnce == ASSUME RetainSd PROVE TunnelSpec => []NoForeignClose
  <1>1. TunInv => NoForeignClose
    BY DEF TunInv, Agreed, NoForeignClose
  <1> QED BY <1>1, TunInductive, PTL

\* A persistent tunnel stays until the object is stopped, and changes only
\* with the options of a session.
THEOREM PersistentTunnelKept == ASSUME RetainSd PROVE TunnelSpec => TunnelKept
  <1>1. ASSUME IInv, IInv', TunInv, TunInv', ProtoInv, [TunnelNext]_allVars,
               tun.persist, tun.socket # None, ~cc'.halt
        PROVE  tun' = tun \/ (tun'.sd # None /\ tun'.settings = proto'.options)
    <2>1. Agreed(tun) /\ Agreed(tun')
      BY <1>1 DEF TunInv
    <2>2. CASE Goes \/ Terminates
      <3>1. TunFollows /\ ~Halted
        BY <1>1, <2>2 DEF Goes, Terminates, Follow, Halted
      <3> QED BY <1>1, <2>1, <3>1, FollowsAgrees
    <2>3. CASE SessionAlone
      BY <2>3, AloneInv
    <2>4. CASE PushReply
      <3>1. Up(cc')
        BY <1>1, <2>4, SessionConnectsIsUp DEF PushReply
      <3> QED BY <1>1, <3>1 DEF TunInv, Up
    <2>5. CASE TunFails
      <3>1. cc'.halt
        BY <1>1, <2>5, TunErrorStops DEF TunFails, TunErrors
      <3> QED BY <1>1, <3>1
    <2>6. CASE UNCHANGED allVars
      BY <2>6 DEF allVars
    <2>7. CASE SessionThrows
      <3>1. cc'.halt
        BY <1>1, <2>7, IInvGood, StopGood DEF SessionThrows, SessionFailsUnhandled
      <3> QED BY <1>1, <3>1
    <2> QED BY <1>1, <2>2, <2>3, <2>4, <2>5, <2>6, <2>7 DEF TunnelNext, SessionAlone
  <1>2. /\ IInv /\ IInv' /\ TunInv /\ TunInv' /\ ProtoInv /\ [TunnelNext]_allVars
        => [tun.persist /\ tun.socket # None /\ ~cc'.halt =>
               /\ tun'.socket # None /\ tun'.open
               /\ tun'.settings # tun.settings => proto'.options = tun'.settings]_allVars
    BY <1>1 DEF TunInv, Agreed
  <1> QED BY <1>2, TunInductive, TunnelImplements, Inductive, PTL DEF TunnelSpec, TunnelKept

\* send_push_request_callback never stops while the options are awaited.
THEOREM PushRequestsGoOn == TunnelSpec => []PushRequestPending
  <1>1. ProtoInv => PushRequestPending
    BY DEF ProtoInv
  <1> QED BY <1>1, ProtoInductive, PTL

\* info_hold_callback and control_recv hand INFO messages out only after
\* Connected, and before anything else the application is told.
THEOREM InfoAfterConnected == TunnelSpec => InfoWhileConnected
  <1>1. ASSUME ProtoInv, [TunnelNext]_allVars, proto'.info = "told", proto.info # "told"
        PROVE  cc.told.phase = "connected"
    <2> USE <1>1 DEF ProtoInv, Protos
    <2>1. CASE Follow
      BY <2>1 DEF Follow, NewProto, Cancelled
    <2>2. CASE Active \/ PushRequestExpires \/ SendPushRequest \/ PushContinues \/ InfoHoldExpires
      BY <2>2 DEF Active, PushRequestExpires, SendPushRequest, PushContinues, InfoHoldExpires
    <2>3. CASE RecvInfo
      BY <2>3 DEF RecvInfo, SessionRuns, Up
    <2>4. CASE InfoHold
      BY <2>4 DEF InfoHold, Up
    <2>5. CASE PushReply
      BY <2>5 DEF PushReply
    <2>6. CASE TunFails
      BY <2>6 DEF TunFails, Cancelled
    <2>7. CASE UNCHANGED allVars
      BY <2>7 DEF allVars
    <2>8. CASE SessionThrows
      BY <2>8 DEF SessionThrows, Cancelled
    <2> QED
      BY <2>1, <2>2, <2>3, <2>4, <2>5, <2>6, <2>7, <2>8 DEF TunnelNext, Goes, Terminates
  <1>2. ProtoInv /\ [TunnelNext]_allVars =>
            [proto'.info = "told" /\ proto.info # "told" => cc.told.phase = "connected"]_allVars
    BY <1>1
  <1> QED BY <1>2, ProtoInductive, PTL DEF TunnelSpec, InfoWhileConnected
=============================================================================
