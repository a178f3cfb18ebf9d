------------------------------ MODULE TunBridge ------------------------------
(***************************************************************************)
(* The tunnel of the adapter: the settings it asks its delegate for and    *)
(* the socket pair of OpenVPNPacketFlowBridge on one side, the TunPersist  *)
(* object of the core, which keeps the number of the descriptor, on the    *)
(* other.  TunPersist belongs to the configuration when the tunnel is      *)
(* persistent, and to one session otherwise.                               *)
(*                                                                         *)
(* Both sides may close the descriptor, each by its number: `open` says    *)
(* whether the socket of the bridge still is, and `foreign` remembers that *)
(* a number was closed that was no longer, or never, the tunnel's.         *)
(***************************************************************************)

CONSTANTS
    RetainSd,      \* iOS: the core does not close the descriptor
    Options,       \* what a server may push
    Descriptors,   \* the numbers that a new openVPNSocket may get
    None

ASSUME TunAssumption ==
    /\ RetainSd \in BOOLEAN
    /\ None \notin Options \cup Descriptors

Tunnels ==
    [persist : BOOLEAN,                   \* config.tunPersist
     settings : Options \cup {None},      \* what the delegate was last asked for
     socket : Descriptors \cup {None},    \* openVPNSocket
     open : BOOLEAN,
     sd : Descriptors \cup {None},        \* the descriptor of TunPersist
     saved : Options \cup {None},         \* its options_
     foreign : BOOLEAN]

NewTunnel(persist) ==
    [persist |-> persist, settings |-> None, socket |-> None, open |-> FALSE,
     sd |-> None, saved |-> None, foreign |-> FALSE]

-----------------------------------------------------------------------------
(* The adapter.                                                            *)

\* CFSocketInvalidate closes the native socket.
InvalidateSockets(t) ==
    [t EXCEPT !.socket = None,
              !.open = FALSE,
              !.foreign = @ \/ (t.socket # None /\ ~t.open)]

\* tun_builder_new and tun_builder_teardown.
ResetTun(t) == [InvalidateSockets(t) EXCEPT !.settings = None]

\* The delegate accepts the settings, and a socket pair is made.
EstablishTunnel(t, o, d) == [t EXCEPT !.settings = o, !.socket = d, !.open = TRUE]

-----------------------------------------------------------------------------
(* TunPersist.                                                             *)

\* Mutant of CloseSd: the descriptor is closed, retained or not.
CloseSdAlways(t) ==
    IF t.sd = None THEN t
    ELSE [t EXCEPT !.sd = None,
                   !.open = @ /\ t.sd # t.socket,
                   !.foreign = @ \/ ~t.open \/ t.sd # t.socket]

CloseSd(t) ==
    IF RetainSd \/ t.sd = None THEN [t EXCEPT !.sd = None]
    ELSE [t EXCEPT !.sd = None,
                   !.open = @ /\ t.sd # t.socket,
                   !.foreign = @ \/ ~t.open \/ t.sd # t.socket]

\* close(), and what the destructor does.
ClosePersist(t) == CloseSd([ResetTun(t) EXCEPT !.saved = None])

\* Mutant of UsesPersisted: the options are not compared.
UsesPersistedAny(t, o) == t.persist /\ t.sd # None

UsesPersisted(t, o) == t.persist /\ t.sd # None /\ t.saved = o

\* persist_tun_state: the descriptor replaces the one of the tunnel before.
PersistTunState(t, o, d) ==
    [CloseSd(t) EXCEPT !.sd = d, !.saved = IF t.persist THEN o ELSE None]

-----------------------------------------------------------------------------
(* The tun client of a session.                                            *)

TunStart(t, o, d) ==
    IF UsesPersisted(t, o) THEN t
    ELSE PersistTunState(EstablishTunnel(ResetTun(t), o, d), o, d)

\* Mutant of TunStop: the persistent TunPersist is destroyed as well.
TunStopAlways(t) == IF t.sd = None THEN t ELSE ClosePersist(t)

\* The session's reference to TunPersist is dropped.
TunStop(t) == IF t.persist \/ t.sd = None THEN t ELSE ClosePersist(t)

\* Mutant of Finalize: the configuration keeps its TunPersist.
FinalizeKeeps(t) == t

\* finalize(true): the configuration's reference is dropped.
Finalize(t) == IF t.persist THEN ClosePersist(t) ELSE t

=============================================================================
