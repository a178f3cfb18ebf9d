------------------------------- MODULE Tunnel -------------------------------
(***************************************************************************)
(* A connection with its tunnel: ClientConnect, the part of its session    *)
(* that deals with pushed options and INFO messages (cliproto.hpp), and    *)
(* the tunnel that the tun client of the session sets up in the adapter    *)
(* (TunBridge).                                                            *)
(*                                                                         *)
(* What ClientConnect does to a session reaches the tunnel through         *)
(* Session::stop() and ClientOptions::finalize(): Follow says how.         *)
(* Control messages behind the one that ends a session are left to         *)
(* ClientConnect: LateControl is false here.                               *)
(***************************************************************************)
EXTENDS ClientConnect, TunBridge

ASSUME NoLateControl == ~LateControl

VARIABLES
    tun,      \* the tunnel
    proto     \* the session: pushed options, INFO messages and their timers

connectVars == vars
allVars == <<vars, tun, proto>>

TunErrors == {"TUN_SETUP_FAILED", "TUN_IFACE_CREATE"}

\* A wait that has expired is "ready": its handler is yet to run.  info_hold
\* keeps INFO messages until its timer, armed with Connected, releases them.
\* Bound: one INFO message in a session.
Protos ==
    [active : BOOLEAN,                                      \* the session key is there
     push : {"off", "armed", "ready"},                      \* push_request_timer
     partial : BOOLEAN,                                     \* received_options.partial()
     options : Options \cup {None},                         \* received_options, complete
     info_hold : {"holding", "armed", "ready", "released"},
     info : {"none", "held", "told"},
     threw : BOOLEAN]                                       \* its stop() was left by an exception

NewProto ==
    [active |-> FALSE, push |-> "off", partial |-> FALSE, options |-> None,
     info_hold |-> "holding", info |-> "none", threw |-> FALSE]

TunnelTypeOK ==
    /\ TypeOK
    /\ tun \in Tunnels
    /\ proto \in Protos

TunnelInit ==
    /\ Init
    /\ \E persist \in BOOLEAN : tun = NewTunnel(persist)
    /\ proto = NewProto

-----------------------------------------------------------------------------

\* Session::stop() cancels the timers that have not expired.
Cancelled(p) ==
    [p EXCEPT !.push = IF @ = "armed" THEN "off" ELSE @,
              !.info_hold = IF @ = "armed" THEN "holding" ELSE @]

Replaced == cc'.generation # cc.generation
Stopped == cc.session.state = "live" /\ (Replaced \/ cc'.session.state # "live")
Halted == cc'.halt /\ ~cc.halt

\* What becomes of the tunnel and of the session when ClientConnect goes on.
\* Handlers of a session that is replaced still run, and find it halted.
TunFollows ==
    LET t == IF Stopped THEN TunStop(tun) ELSE tun
    IN  tun' = IF Halted THEN Finalize(t) ELSE t

Follow ==
    /\ TunFollows
    /\ proto' = IF Replaced THEN NewProto ELSE IF Stopped THEN Cancelled(proto) ELSE proto

Idle == proto.push # "ready" /\ proto.info_hold # "ready"

\* ClientConnect goes on, and the session lives or ends without a PUSH_REPLY.
Goes ==
    /\ \/ Setup \/ Api \/ Handlers \/ Timers \/ PreResolveDone
       \/ FirstPacket \/ AuthPending
       \/ RunReturns /\ Idle
    /\ Follow

Terminates ==
    /\ \E e \in Errors \ (UnhandledErrors \cup TunErrors) : TerminatesWith(e)
    /\ Follow

\* client_proto_terminate() throws out of Session::stop(), before it stops the
\* tun client; as the session counts as halted nothing does that later.
\* finalize(true) finds a persistent tunnel in use if this session has it.
SessionThrows ==
    /\ SessionFailsUnhandled
    /\ tun' = IF cc.session.reached THEN tun ELSE Finalize(tun)
    /\ proto' = [Cancelled(proto) EXCEPT !.threw = TRUE]

-----------------------------------------------------------------------------
(* The session asks for its options and sets the tunnel up.                *)

\* active(): the first request goes out at once.
Active ==
    /\ SessionRuns
    /\ cc.session.first /\ ~proto.active
    /\ proto' = [proto EXCEPT !.active = TRUE, !.push = "armed"]
    /\ UNCHANGED <<connectVars, tun>>

PushRequestExpires ==
    /\ thread = "running"
    /\ proto.push = "armed"
    /\ proto' = [proto EXCEPT !.push = "ready"]
    /\ UNCHANGED <<connectVars, tun>>

\* Mutant of SendPushRequest: after AUTH_PENDING no further request is scheduled.
SendPushRequestOnce ==
    /\ thread = "running"
    /\ proto.push = "ready"
    /\ proto' = [proto EXCEPT !.push =
                    IF cc.session.state = "live" /\ ~proto.partial /\ ~cc.session.auth_pending
                    THEN "armed" ELSE "off"]
    /\ UNCHANGED <<connectVars, tun>>

\* send_push_request_callback: PUSH_REQUEST again and again, until the first
\* part of a reply.
SendPushRequest ==
    /\ thread = "running"
    /\ proto.push = "ready"
    /\ proto' = [proto EXCEPT !.push =
                    IF cc.session.state = "live" /\ ~proto.partial THEN "armed" ELSE "off"]
    /\ UNCHANGED <<connectVars, tun>>

\* A PUSH_REPLY that another one continues.
PushContinues ==
    /\ SessionRuns
    /\ AwaitsPushReply(cc) /\ proto.active
    /\ ~proto.partial
    /\ proto' = [proto EXCEPT !.partial = TRUE]
    /\ UNCHANGED <<connectVars, tun>>

\* The PUSH_REPLY that completes the options: the tunnel is set up or taken
\* over, ClientConnect hears of it, INFO is held for another second, and
\* Connected is told.
PushReply ==
    /\ SessionConnects
    /\ proto.active
    /\ \E o \in Options, d \in Descriptors :
          /\ tun' = TunStart(tun, o, d)
          /\ proto' = [proto EXCEPT !.partial = TRUE, !.options = o, !.info_hold = "armed"]

\* The delegate refuses the settings or is silent for 30 seconds, or there is
\* no socket pair, or something throws: whatever tunnel there was is closed.
TunFails ==
    /\ \E e \in Errors \cap TunErrors : TerminatesWith(e)
    /\ proto.active
    /\ tun' = ClosePersist(tun)
    /\ proto' = [Cancelled(proto) EXCEPT !.partial = TRUE]

-----------------------------------------------------------------------------
(* INFO messages.                                                          *)

RecvInfo ==
    /\ SessionRuns
    /\ proto.active
    /\ proto.info = "none"
    /\ proto' = [proto EXCEPT !.info = IF proto.info_hold = "released" THEN "told" ELSE "held"]
    /\ UNCHANGED <<connectVars, tun>>

InfoHoldExpires ==
    /\ thread = "running"
    /\ proto.info_hold = "armed"
    /\ proto' = [proto EXCEPT !.info_hold = "ready"]
    /\ UNCHANGED <<connectVars, tun>>

HoldReleased(p) ==
    [p EXCEPT !.info_hold = "released", !.info = IF @ = "held" THEN "told" ELSE @]

\* Mutant of InfoHold: halt is not looked at.
InfoHoldAnyway ==
    /\ thread = "running"
    /\ proto.info_hold = "ready"
    /\ proto' = HoldReleased(proto)
    /\ UNCHANGED <<connectVars, tun>>

InfoHold ==
    /\ thread = "running"
    /\ proto.info_hold = "ready"
    /\ proto' = IF cc.session.state = "live" THEN HoldReleased(proto)
                ELSE [proto EXCEPT !.info_hold = "holding"]
    /\ UNCHANGED <<connectVars, tun>>

-----------------------------------------------------------------------------

TunnelNext ==
    \/ Goes \/ Terminates \/ SessionThrows
    \/ Active \/ PushRequestExpires \/ SendPushRequest
    \/ PushContinues \/ PushReply \/ TunFails
    \/ RecvInfo \/ InfoHoldExpires \/ InfoHold

TunnelSpec == TunnelInit /\ [][TunnelNext]_allVars

-----------------------------------------------------------------------------

\* A session that has told Connected has a tunnel: the descriptor that the
\* core reads is the open socket of the bridge, and the delegate was last
\* asked for the options that this session was given.  A tunnel kept from an
\* earlier session must not be one with other settings, and nothing that ends
\* late for an earlier one takes it down.
ConnectedHasTunnel ==
    cc.session.state = "live" /\ cc.session.reached =>
        /\ tun.sd # None /\ tun.sd = tun.socket /\ tun.open
        /\ tun.settings = proto.options

\* The tun client of the last session was never stopped.
TunLeft == thread = "returned" /\ proto.threw /\ cc.session.reached

\* When connect() returns nothing of a tunnel is left, by whichever way it
\* ended: no settings with the delegate, no socket pair, no descriptor.  One way
\* alone leaves it up: a connected session that ends with an exception.
AllTornDown ==
    thread = "returned" =>
        IF TunLeft THEN tun.open /\ tun.sd = tun.socket
        ELSE tun.settings = None /\ tun.socket = None /\ tun.sd = None

\* "Keep tun interface active during pauses or reconnections" (ovpncli.hpp:210):
\* a persistent tunnel stays up until the object is stopped, and changes its
\* settings only for a session that is given other options.
TunnelKept ==
    [][tun.persist /\ tun.socket # None /\ ~cc'.halt =>
          /\ tun'.socket # None /\ tun'.open
          /\ tun'.settings # tun.settings => proto'.options = tun'.settings]_allVars

\* A number is closed only while it is the tunnel's own: when core and bridge
\* both let go of the tunnel, or it is replaced, nobody closes the descriptor
\* a second time, when it may be that of somebody else.
NoForeignClose == ~tun.foreign

\* A session with a key goes on asking until the server begins to answer:
\* neither an AUTH_PENDING nor a handler that ran late ends the requests.
PushRequestPending ==
    cc.session.state = "live" /\ proto.active /\ ~proto.partial => proto.push # "off"

\* "fire one second after Connected event" (cliproto.hpp:657-658): the
\* application hears INFO while it is told connected, not after a pause or
\* stop that came between the timer and its handler.
InfoWhileConnected ==
    [][proto'.info = "told" /\ proto.info # "told" => cc.told.phase = "connected"]_allVars

\* "returning a file descriptor to the tunnel, which the caller will henceforth
\* own" (tun/builder/base.hpp:214-215): the descriptor that the core holds is
\* open until the core closes it.
CallerOwnsDescriptor == tun.sd # None => tun.sd = tun.socket /\ tun.open

=============================================================================
