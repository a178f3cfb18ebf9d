--------------------------- MODULE ClientConnect ---------------------------
(***************************************************************************)
(* The life of one connect() call of the adapter: the API that the         *)
(* application calls from any thread (client/ovpncli.cpp), the connection  *)
(* thread that sets a session up and then runs the io_context, and         *)
(* ClientConnect (openvpn/client/cliconnect.hpp), which starts one         *)
(* ClientProto::Session after the other until something is fatal.          *)
(*                                                                         *)
(* A session is seen here from above only: it lives, receives a first      *)
(* packet, connects, and terminates with the error that fatal() reports.   *)
(*                                                                         *)
(* Handlers posted by other threads and waits that have expired sit in one *)
(* FIFO queue.  A timer's cancel() or expires_after() aborts a wait that   *)
(* has not expired, but cannot recall a handler that is already queued     *)
(* with success: such a handler is stale when it runs.                     *)
(***************************************************************************)
EXTENDS Integers, Sequences

CONSTANTS
    HttpProxy,          \* an HTTP proxy is configured: no server poll timer
    ConnTimeout,        \* connTimeout > 0
    RetryOnAuthFailed,  \* AUTH_FAILED is retried
    ClockTick,          \* clockTickMS > 0
    LateControl,        \* a PUSH_REPLY may follow the message that ended the
                        \* session in the same read of the TLS object
    Errors,             \* what fatal() may report when a session terminates
    MaxGen              \* bound on the sessions that are started

\* How client_proto_terminate sorts the values of fatal().
RestartErrors == {"UNDEF", "CLIENT_RESTART", "TRANSPORT_ERROR"}
StopErrors == {"TUN_SETUP_FAILED", "TUN_IFACE_CREATE", "PROXY_ERROR",
               "PROXY_NEED_CREDS", "CERT_VERIFY_FAIL", "TLS_VERSION_MIN",
               "CLIENT_HALT", "INACTIVE_TIMEOUT", "RELAY_ERROR"}
UnhandledErrors == {"KEY_EXPANSION_ERROR"}
ErrorCodes == RestartErrors \cup StopErrors \cup UnhandledErrors
                \cup {"AUTH_FAILED", "DYNAMIC_CHALLENGE", "RELAY"}

\* Errors that take a message of the server, so at least one packet.
ServerErrors == ErrorCodes \ {"UNDEF", "TRANSPORT_ERROR", "PROXY_ERROR", "PROXY_NEED_CREDS"}

ASSUME ConstantsAssumption ==
    /\ {HttpProxy, ConnTimeout, RetryOnAuthFailed, ClockTick, LateControl} \subseteq BOOLEAN
    /\ Errors \subseteq ErrorCodes
    /\ MaxGen \in Nat \ {0}

VARIABLES
    thread,    \* the connection thread: where connect() is
    foreign,   \* foreign_thread_ready
    stopped,   \* Stop::stop_called of async_stop_local
    asked,     \* history: what the application called while connect() was running
    calling,   \* a pause, resume or reconnect that has passed the check of halt
    queue,     \* ready handlers of the io_context, oldest first
    cc         \* the ClientConnect object, with what it told the delegate

vars == <<thread, foreign, stopped, asked, calling, queue, cc>>

NotArmed == -1

ApiOps == {"stop", "pause", "resume", "reconnect"}
Ops == ApiOps \cup {"restart_wait", "server_poll", "conn", "clock_tick"}
Handler == [op : Ops, gen : Nat]

\* What the delegate was told last about the connection.
Phases == {"idle", "connected", "reconnecting", "paused", "resumed", "disconnected"}

\* The session that `client` points to.
Sessions ==
    [state : {"none", "live", "halted"},
     first : BOOLEAN,           \* first_packet_received()
     reached : BOOLEAN,         \* reached_connected_state()
     auth_pending : BOOLEAN,    \* it has seen AUTH_PENDING
     orphan_tun : BOOLEAN]      \* it started its tun after it was stopped

\* The waits, each with the generation it has captured.
Waits == Nat \cup {NotArmed}
TimerSets == [server_poll : Waits, restart_wait : Waits, conn : Waits, conn_pending : BOOLEAN]

\* What the delegate was told: the phase and the number of events that told of
\* one, the last fatal error, and whether MyClientEvents holds a last Connected
\* event.
Tellings ==
    [phase : Phases,
     events : Nat,
     fatal : ErrorCodes \cup {"none", "CONNECTION_TIMEOUT"},
     last_connected : BOOLEAN]

Objects ==
    [generation : Nat,
     halt : BOOLEAN,
     paused : BOOLEAN,
     session : Sessions,
     relay : {"none", "handed", "used"},   \* transport_factory_relay
     resolving : BOOLEAN,                  \* pre_resolve is under way
     timers : TimerSets,
     clock_tick : BOOLEAN,                 \* the wait of MyClockTick
     asio_work : BOOLEAN,
     told : Tellings]

\* The ranges of the fields; a handler carries the generation of an armed wait.
TypeOK ==
    /\ thread \in {"idle", "setup", "started", "running", "returned"}
    /\ foreign \in BOOLEAN
    /\ stopped \in BOOLEAN
    /\ asked \subseteq ApiOps
    /\ calling \in ApiOps \cup {"none"}
    /\ queue \in Seq(Handler)
    /\ cc \in Objects

NewSession ==
    [state |-> "live", first |-> FALSE, reached |-> FALSE,
     auth_pending |-> FALSE, orphan_tun |-> FALSE]

NoTimers ==
    [server_poll |-> NotArmed, restart_wait |-> NotArmed, conn |-> NotArmed,
     conn_pending |-> FALSE]

Init ==
    /\ thread = "idle"
    /\ foreign = FALSE
    /\ stopped = FALSE
    /\ asked = {}
    /\ calling = "none"
    /\ queue = <<>>
    /\ cc = [generation |-> 0, halt |-> FALSE, paused |-> FALSE,
             session |-> [NewSession EXCEPT !.state = "none"], relay |-> "none",
             resolving |-> FALSE, timers |-> NoTimers, clock_tick |-> FALSE,
             asio_work |-> FALSE,
             told |-> [phase |-> "idle", events |-> 0, fatal |-> "none",
                       last_connected |-> FALSE]]

-----------------------------------------------------------------------------
(* The operations of ClientConnect, as functions of the object c.          *)

\* add_event of an event that tells of phase p.
Tell(told, p) == [told EXCEPT !.phase = p, !.events = @ + 1]

HaltClient(c) == IF c.session.state = "live" THEN "halted" ELSE c.session.state

\* Mutant of CancelTimers: conn_timer_pending is not reset.
CancelTimersPending(timers) == [NoTimers EXCEPT !.conn_pending = timers.conn_pending]

CancelTimers(timers) == NoTimers

StopNow(c) ==
    [c EXCEPT !.halt = TRUE,
              !.resolving = FALSE,
              !.session.state = HaltClient(c),
              !.timers = CancelTimers(@),
              !.asio_work = FALSE,
              !.clock_tick = FALSE,
              !.told = Tell(@, "disconnected")]

\* Mutant of Stop: the work guard of a pause is kept.
StopKeepsWork(c) == IF c.halt THEN c ELSE [StopNow(c) EXCEPT !.asio_work = c.asio_work]

Stop(c) == IF c.halt THEN c ELSE StopNow(c)

StartTimers(timers, gen) ==
    [server_poll |-> IF HttpProxy THEN timers.server_poll ELSE gen,
     restart_wait |-> NotArmed,
     conn |-> IF ConnTimeout /\ ~timers.conn_pending THEN gen ELSE timers.conn,
     conn_pending |-> timers.conn_pending \/ ConnTimeout]

NewClient(c) ==
    [c EXCEPT !.generation = @ + 1,
              !.asio_work = FALSE,
              !.told = IF c.generation > 0 /\ c.relay # "handed"
                       THEN Tell(@, "reconnecting") ELSE @,
              !.session = NewSession,
              !.relay = IF @ = "handed" THEN "used" ELSE "none",
              !.timers = StartTimers(c.timers, c.generation + 1)]

\* Mutant of Pause: no work guard.
PauseIdle(c) ==
    IF c.halt \/ c.paused THEN c
    ELSE [c EXCEPT
              !.paused = TRUE,
              !.session.state = HaltClient(c),
              !.timers = CancelTimers(@),
              !.told = Tell(@, "paused")]

\* Mutant of Pause: a paused client is paused, and told of it, again.
PauseAgain(c) ==
    IF c.halt THEN c
    ELSE [c EXCEPT
              !.paused = TRUE,
              !.session.state = HaltClient(c),
              !.timers = CancelTimers(@),
              !.asio_work = TRUE,
              !.told = Tell(@, "paused")]

Pause(c) ==
    IF c.halt \/ c.paused THEN c
    ELSE [c EXCEPT
              !.paused = TRUE,
              !.session.state = HaltClient(c),
              !.timers = CancelTimers(@),
              !.asio_work = TRUE,
              !.told = Tell(@, "paused")]

Resume(c) ==
    IF c.halt \/ ~c.paused THEN c
    ELSE NewClient([c EXCEPT !.paused = FALSE, !.told = Tell(@, "resumed")])

\* Mutant of Reconnect: the wait captures the generation to come.
ReconnectNext(c) ==
    IF c.halt THEN c
    ELSE [c EXCEPT !.timers.server_poll = NotArmed, !.timers.restart_wait = c.generation + 1]

Reconnect(c) ==
    IF c.halt THEN c
    ELSE [c EXCEPT !.timers.server_poll = NotArmed, !.timers.restart_wait = c.generation]

\* Mutant of QueueRestart: the wait captures the generation to come.
QueueRestartNext(c) ==
    [c EXCEPT !.timers.server_poll = NotArmed, !.timers.restart_wait = c.generation + 1]

QueueRestart(c) ==
    [c EXCEPT !.timers.server_poll = NotArmed, !.timers.restart_wait = c.generation]

\* Mutant of RestartWait: halt is not looked at.
RestartWaitHalted(c, gen) ==
    IF gen # c.generation THEN c
    ELSE IF c.paused THEN Resume(c) ELSE NewClient(c)

RestartWait(c, gen) ==
    IF gen # c.generation \/ c.halt THEN c
    ELSE IF c.paused THEN Resume(c) ELSE NewClient(c)

\* Mutant of ServerPoll: first_packet_received() is not asked.
ServerPollAnyway(c, gen) ==
    IF gen # c.generation \/ c.halt THEN c ELSE NewClient(c)

ServerPoll(c, gen) ==
    IF gen # c.generation \/ c.halt \/ c.session.first THEN c ELSE NewClient(c)

\* pause_on_connection_timeout() is false in this adapter; gen is not compared.
ConnTimer(c, gen) ==
    IF c.halt THEN c ELSE Stop([c EXCEPT !.told.fatal = "CONNECTION_TIMEOUT"])

\* Mutant of ProtoConnected: no timer is left.
ProtoConnectedCancels(c) ==
    [c EXCEPT !.timers = CancelTimers(@),
              !.session.reached = TRUE,
              !.told = [Tell(@, "connected") EXCEPT !.last_connected = TRUE]]

\* client_proto_connected, then the Connected event.
ProtoConnected(c) ==
    [c EXCEPT !.timers.conn = NotArmed, !.timers.conn_pending = FALSE,
              !.session.reached = TRUE,
              !.told = [Tell(@, "connected") EXCEPT !.last_connected = TRUE]]

\* client_proto_terminate, called by the session as it stops with error e.
ProtoTerminate(c, e) ==
    LET failed == [c EXCEPT !.told.fatal = e]
    IN  CASE e \in RestartErrors -> QueueRestart(c)
          [] e = "RELAY" -> QueueRestart([c EXCEPT !.relay = "handed"])
          [] e = "AUTH_FAILED" ->
                 IF RetryOnAuthFailed THEN QueueRestart(failed) ELSE Stop(failed)
          [] e = "DYNAMIC_CHALLENGE" -> Stop(failed)
          [] e \in StopErrors -> Stop(failed)
          [] e \in UnhandledErrors -> c

-----------------------------------------------------------------------------
(* connect(): setting the session up on the connection thread.             *)

\* Every source of a further session leaves room for it under MaxGen.
Pending ==
    cc.generation + Len(queue)
        + (IF calling = "none" THEN 0 ELSE 1)
        + (IF cc.timers.restart_wait = NotArmed THEN 0 ELSE 1)
        + (IF cc.resolving THEN 1 ELSE 0)
Room == Pending < MaxGen

Connect ==
    /\ thread = "idle"
    /\ thread' = "setup"
    /\ UNCHANGED <<foreign, stopped, asked, calling, queue, cc>>

\* The options are refused, or lack the alias of an external PKI, before
\* there is a session.
SetupFails ==
    /\ thread = "setup"
    /\ thread' = "returned"
    /\ UNCHANGED <<foreign, stopped, asked, calling, queue, cc>>

\* session->start(): resolve the remotes first, or start a client at once.
\* An exception here finds session_started still false: nothing is stopped.
SessionStart ==
    /\ thread = "setup"
    /\ LET c == [cc EXCEPT !.clock_tick = ClockTick]
       IN  \/ cc' = [c EXCEPT !.resolving = TRUE] /\ thread' = "started"
           \/ cc' = NewClient(c) /\ thread' \in {"started", "returned"}
    /\ UNCHANGED <<foreign, stopped, asked, calling, queue>>

\* setup_async_stop_scopes, enable_foreign_thread_access, io_context.run().
EnableForeignThreadAccess ==
    /\ thread = "started"
    /\ foreign' = TRUE
    /\ thread' = "running"
    /\ UNCHANGED <<stopped, asked, calling, queue, cc>>

-----------------------------------------------------------------------------
(* The API, called from any thread.                                        *)

Post(op) == queue' = Append(queue, [op |-> op, gen |-> 0])

\* Mutant of ApiStop: the stop is noted, and not posted.
ApiStopLost ==
    /\ thread \in {"setup", "started", "running"}
    /\ asked' = asked \cup {"stop"}
    /\ stopped' = (stopped \/ foreign)
    /\ UNCHANGED <<thread, foreign, calling, queue, cc>>

\* Without foreign thread access the call does nothing; a second stop() finds
\* the scope list empty.
ApiStop ==
    /\ thread \in {"setup", "started", "running"}
    /\ asked' = asked \cup {"stop"}
    /\ IF foreign /\ ~stopped
       THEN stopped' = TRUE /\ Post("stop")
       ELSE UNCHANGED <<stopped, queue>>
    /\ UNCHANGED <<thread, foreign, calling, cc>>

\* `halt` is read without a lock, before the handler is posted.  Bound: one
\* such call at a time.
ApiCall(op) ==
    /\ thread = "running"
    /\ foreign
    /\ ~cc.halt
    /\ calling = "none"
    /\ Room
    /\ calling' = op
    /\ asked' = asked \cup {op}
    /\ UNCHANGED <<thread, foreign, stopped, queue, cc>>

ApiPosts ==
    /\ calling # "none"
    /\ Post(calling)
    /\ calling' = "none"
    /\ UNCHANGED <<thread, foreign, stopped, asked, cc>>

ApiPause == ApiCall("pause")
ApiResume == ApiCall("resume")
ApiReconnect == ApiCall("reconnect")

-----------------------------------------------------------------------------
(* Handlers that the io_context runs.                                      *)

\* A handler turns the object into c.  When that starts a client, start() may
\* throw out of io_context.run(), and connect() stops the session and returns.
Become(c) ==
    \/ cc' = c /\ UNCHANGED thread
    \/ /\ c.generation > cc.generation
       /\ cc' = Stop(c)
       /\ thread' = "returned"

RunHandler(op) ==
    /\ thread = "running"
    /\ queue # <<>>
    /\ Head(queue).op = op
    /\ queue' = Tail(queue)
    /\ UNCHANGED <<foreign, stopped, asked, calling>>

OnStop == RunHandler("stop") /\ Become(Stop(cc))
OnPause == RunHandler("pause") /\ Become(Pause(cc))
OnResume == RunHandler("resume") /\ Become(Resume(cc))
OnReconnect == RunHandler("reconnect") /\ Become(Reconnect(cc))
OnRestartWait == RunHandler("restart_wait") /\ Become(RestartWait(cc, Head(queue).gen))
OnServerPoll == RunHandler("server_poll") /\ Become(ServerPoll(cc, Head(queue).gen))
OnConnTimer == RunHandler("conn") /\ Become(ConnTimer(cc, Head(queue).gen))

\* The tick handler checks only its own error code, and schedules again.
OnClockTick == RunHandler("clock_tick") /\ Become([cc EXCEPT !.clock_tick = TRUE])

PreResolveDone ==
    /\ thread = "running"
    /\ cc.resolving
    /\ Become(NewClient([cc EXCEPT !.resolving = FALSE]))
    /\ UNCHANGED <<foreign, stopped, asked, calling, queue>>

\* Mutant of Expire: the generation is read when the wait is over.
ExpireCapturesLate(timer) ==
    /\ thread = "running"
    /\ cc.timers[timer] # NotArmed
    /\ cc' = [cc EXCEPT !.timers[timer] = NotArmed]
    /\ queue' = Append(queue, [op |-> timer, gen |-> cc'.timers[timer]])
    /\ UNCHANGED <<thread, foreign, stopped, asked, calling>>

\* The expired wait's handler becomes ready; no later cancel() reaches it.
Expire(timer) ==
    /\ thread = "running"
    /\ cc.timers[timer] # NotArmed
    /\ queue' = Append(queue, [op |-> timer, gen |-> cc.timers[timer]])
    /\ cc' = [cc EXCEPT !.timers[timer] = NotArmed]
    /\ UNCHANGED <<thread, foreign, stopped, asked, calling>>

RestartWaitExpires == Expire("restart_wait")
ConnTimerExpires == Expire("conn")
ServerPollExpires == Room /\ Expire("server_poll")

ClockTickExpires ==
    /\ thread = "running"
    /\ cc.clock_tick
    /\ queue' = Append(queue, [op |-> "clock_tick", gen |-> 0])
    /\ cc' = [cc EXCEPT !.clock_tick = FALSE]
    /\ UNCHANGED <<thread, foreign, stopped, asked, calling>>

\* io_context.run() returns when it is out of work.
HasWork ==
    \/ queue # <<>>
    \/ cc.session.state = "live"
    \/ cc.session.orphan_tun
    \/ cc.resolving
    \/ cc.asio_work
    \/ cc.clock_tick
    \/ \E timer \in {"restart_wait", "server_poll", "conn"} : cc.timers[timer] # NotArmed

RunReturns ==
    /\ thread = "running"
    /\ ~HasWork
    /\ thread' = "returned"
    /\ UNCHANGED <<foreign, stopped, asked, calling, queue, cc>>

-----------------------------------------------------------------------------
(* What a live session reports.                                            *)

SessionRuns == thread = "running" /\ cc.session.state = "live"

\* The session talks to a relay server, which may not give it a tunnel.
RelayMode(c) == "RELAY" \in Errors /\ c.relay # "used"

FirstPacket ==
    /\ SessionRuns
    /\ ~cc.session.first
    /\ cc' = [cc EXCEPT !.session.first = TRUE]
    /\ UNCHANGED <<thread, foreign, stopped, asked, calling, queue>>

AwaitsPushReply(c) == c.session.first /\ ~c.session.reached /\ ~RelayMode(c)

\* control_recv of the PUSH_REPLY that completes the options.
SessionConnects ==
    /\ SessionRuns
    /\ AwaitsPushReply(cc)
    /\ cc' = ProtoConnected(cc)
    /\ UNCHANGED <<thread, foreign, stopped, asked, calling, queue>>

\* The first AUTH_PENDING of a session extends a connection timeout that would
\* end sooner; an expired one that waits in the queue is not recalled.
AuthPending ==
    /\ SessionRuns
    /\ cc.session.first /\ ~cc.session.reached /\ ~cc.session.auth_pending
    /\ \E wait \in {cc.timers.conn} \cup (IF cc.timers.conn_pending THEN {cc.generation} ELSE {}) :
          cc' = [cc EXCEPT !.session.auth_pending = TRUE, !.timers.conn = wait]
    /\ UNCHANGED <<thread, foreign, stopped, asked, calling, queue>>

CanFail(c, e) ==
    /\ e \in ServerErrors => c.session.first
    /\ e \in {"PROXY_ERROR", "PROXY_NEED_CREDS"} => HttpProxy
    /\ e = "RELAY" => RelayMode(c)
    /\ e = "INACTIVE_TIMEOUT" => c.session.reached
    /\ e \in {"TUN_SETUP_FAILED", "TUN_IFACE_CREATE"} => AwaitsPushReply(c)

\* Session::stop(true), from a handler of the session.
TerminatesWith(e) ==
    /\ SessionRuns
    /\ Room
    /\ CanFail(cc, e)
    /\ cc' = ProtoTerminate([cc EXCEPT !.session.state = "halted"], e)
    /\ UNCHANGED <<thread, foreign, stopped, asked, calling, queue>>

SessionTerminates == \E e \in Errors \ UnhandledErrors : TerminatesWith(e)

\* up_sequenced goes on handing cleartext to control_recv, which does not look
\* at halt: a PUSH_REPLY behind the terminating message starts the tun.
TerminatesThenPushReply ==
    /\ LateControl
    /\ SessionRuns
    /\ Room
    /\ AwaitsPushReply(cc)
    /\ \E e \in Errors \cap {"AUTH_FAILED", "DYNAMIC_CHALLENGE",
                            "CLIENT_HALT", "CLIENT_RESTART"} :
          LET c == ProtoTerminate([cc EXCEPT !.session.state = "halted"], e)
          IN  cc' = ProtoConnected([c EXCEPT !.session.orphan_tun = TRUE])
    /\ UNCHANGED <<thread, foreign, stopped, asked, calling, queue>>

\* client_connect_unhandled_exception leaves io_context.run().
SessionFailsUnhandled ==
    /\ SessionRuns
    /\ \E e \in Errors \cap UnhandledErrors : CanFail(cc, e)
    /\ cc' = Stop(cc)
    /\ thread' = "returned"
    /\ UNCHANGED <<foreign, stopped, asked, calling, queue>>

-----------------------------------------------------------------------------

Setup == Connect \/ SetupFails \/ SessionStart \/ EnableForeignThreadAccess

Api == ApiStop \/ ApiPause \/ ApiResume \/ ApiReconnect \/ ApiPosts

Handlers ==
    \/ OnStop \/ OnPause \/ OnResume \/ OnReconnect
    \/ OnRestartWait \/ OnServerPoll \/ OnConnTimer \/ OnClockTick

Timers ==
    \/ RestartWaitExpires \/ ServerPollExpires
    \/ ConnTimerExpires \/ ClockTickExpires

SessionEvents ==
    \/ FirstPacket \/ SessionConnects \/ AuthPending \/ SessionTerminates
    \/ TerminatesThenPushReply \/ SessionFailsUnhandled

Next == Setup \/ Api \/ Handlers \/ Timers \/ PreResolveDone \/ SessionEvents \/ RunReturns

Spec == Init /\ [][Next]_vars

(***************************************************************************)
(* The connection thread keeps running: setup goes on, run() takes the     *)
(* oldest ready handler and returns when it is out of work.  An armed      *)
(* restart_wait_timer and clock tick expire, and name resolution answers   *)
(* or fails.  Nothing is assumed of the application, of the server, or of  *)
(* the timers that only end a session early.                               *)
(***************************************************************************)
Fairness ==
    /\ WF_vars(SessionStart)
    /\ WF_vars(EnableForeignThreadAccess)
    /\ WF_vars(Handlers)
    /\ WF_vars(RunReturns)
    /\ WF_vars(RestartWaitExpires)
    /\ WF_vars(ClockTickExpires)
    /\ WF_vars(PreResolveDone)

FairSpec == Spec /\ Fairness

-----------------------------------------------------------------------------
(* Properties. Queued(op, gen) is a handler that has yet to run.           *)

Queued(op, gen) == \E i \in 1..Len(queue) : queue[i] = [op |-> op, gen |-> gen]

\* connect() "doesn't return until disconnect" (ovpncli.hpp:500): while the
\* session is not stopped, something always keeps io_context.run() from
\* returning, in a restart wait, in a pause and while the names resolve.
\* cancel_timers() of one path must not take away the last of them.
NeverOutOfWork == thread = "running" /\ ~cc.halt => HasWork

\* The attempt that no server answers is always given up: as long as a live
\* session has received nothing, the server poll of its own generation, or a
\* restart wait asked for by reconnect(), is armed or about to run.
NoSilentSession ==
    ~HttpProxy /\ thread = "running" /\ cc.session.state = "live" /\ ~cc.session.first =>
        \/ cc.timers.server_poll = cc.generation \/ Queued("server_poll", cc.generation)
        \/ cc.timers.restart_wait = cc.generation \/ Queued("restart_wait", cc.generation)

\* With a connection timeout, conn_timer_pending never hides a timer that is
\* gone: whichever pauses, resumes, restarts and AUTH_PENDINGs came before, an
\* attempt that is not connected is under a timer, armed or about to run.
ConnTimeoutCovers ==
    ConnTimeout /\ thread = "running" /\ cc.session.state = "live" /\ ~cc.session.reached =>
        \/ cc.timers.conn # NotArmed
        \/ \E gen \in 1..cc.generation : Queued("conn", gen)

\* The waits that compare generations are never armed for an older session,
\* whose answer the callback would drop.
WaitsAreCurrent ==
    /\ cc.timers.restart_wait \in {NotArmed, cc.generation}
    /\ cc.timers.server_poll \in {NotArmed, cc.generation}

\* After stop() only the clock tick and handlers that are already queued are
\* left: no timer, session, resolution or work guard outlives it.
HaltReleases ==
    cc.halt =>
        /\ cc.session.state # "live" /\ ~cc.resolving /\ ~cc.asio_work
        /\ cc.timers.restart_wait = NotArmed /\ cc.timers.server_poll = NotArmed /\ cc.timers.conn = NotArmed

\* Nothing starts a session once the object is stopped: handlers that were
\* queued before the stop run after it and must find it.
NoSessionAfterStop ==
    [][cc.halt => cc'.generation = cc.generation /\ cc'.session.state # "live"]_vars

\* A session that the server has answered is not replaced behind the back of
\* the application: poll and restart waits left over from earlier attempts
\* miss it.
AnsweredSessionKept ==
    [][cc.session.state = "live" /\ cc.session.first /\ cc'.generation # cc.generation
          => asked \cap {"resume", "reconnect"} # {}]_vars

\* A stop that the session has accepted ends connect(): "Stop the client."
\* (ovpncli.hpp:515), from whichever thread and in whichever state it is.
StopReturns == stopped ~> thread = "returned"

\* ClientConnect is "an "always-try-to-reconnect" approach" that "Only gives up
\* on auth failure or other fatal errors" (cliconnect.hpp:66-68): a session
\* that ended is followed by another one, unless the object is stopped or paused.
AlwaysRetries ==
    (thread = "running" /\ cc.session.state = "halted") ~>
        (cc.session.state = "live" \/ cc.halt \/ cc.paused \/ thread = "returned")

\* A message behind the one that ended a session, as a late PUSH_REPLY, does
\* not take away the restart that the session has left: it is armed, or about
\* to run, until another session is there.
DeadSessionGivesWay ==
    thread = "running" /\ cc.session.state = "halted" /\ ~cc.halt /\ ~cc.paused =>
        cc.timers.restart_wait = cc.generation \/ Queued("restart_wait", cc.generation)

\* What the application has heard of an object: Connected of its last session
\* or not, and a Pause while it is paused.
Heard(c) ==
    [last |-> c.told.phase, events |-> c.told.events,
     up |-> c.session.reached, paused |-> c.paused]

Events == INSTANCE ConnectionEvents WITH heard <- Heard(cc)

\* The connection keeps what its events promise: whichever timers, calls and
\* sessions raced, the delegate hears Connected once of an attempt, Pause and
\* Resume in turns, and Disconnected once and last.
EventsSpec == Events!Spec

=============================================================================
