# A TLA+ model of SkVPNAdapter

SkVPNAdapter is an Objective-C++ VPN adapter for iOS and macOS
(`Sources/OpenVPNAdapter`) over the OpenVPN 3 core that is kept in its tree
(`Sources/OpenVPN3`). This directory holds TLA+ modules that model the parts
that carry the program's own logic, TLC configurations that check them, and
TLAPS proofs. Paths below are relative to `src/Sources` unless they say
otherwise; `OpenVPN3/` is left out of the paths of the core.

## 1. The system

### Threads and control

| Thread | Runs |
|---|---|
| application | calls `connect`, `disconnect`, `pause`, `resume`, `reconnect`, reads the connection information (`OpenVPNAdapterImpl.mm:107-165`) |
| connection thread | one per `connect()`: `connect_setup`, then `io_context.run()` with every timer, socket and posted handler (`client/ovpncli.cpp:894-1123`) |
| packet reading | completion handlers of `NEPacketTunnelFlow` write packets to a socket pair (`OpenVPNPacketFlowBridge.mm`) |
| delegate | the network settings are applied by the application, whose completion the connection thread waits for on a semaphore (`OpenVPNAdapterImpl.mm:332-464`) |

The core is an event loop. Objects talk by direct calls on the connection
thread; the only way in from other threads is a handler posted to the
`io_context`, and the only shared state is `foreign_thread_ready`, `Stop` (a
mutex), and the flag `halt`, which `thread_safe_*` read without a lock.

### Components, their state and what makes them correct

| Component | State | Operations | What must hold | Hard because |
|---|---|---|---|---|
| Connection lifecycle: `OpenVPNClient` (`client/ovpncli.cpp`), `ClientConnect` (`openvpn/client/cliconnect.hpp`) | generation, halt, paused, client, three timers, clock tick, work guard | connect, stop, pause, resume, reconnect, timer callbacks, session ends | connect() returns only after a disconnect; a stop is final and ends it; attempts are always bounded by a timer; stale timers do nothing | timers that expired but have not run, calls from other threads, exceptions out of handlers |
| Session: `ClientProto::Session` (`openvpn/client/cliproto.hpp`) | halt, fatal error, first packet, connected, received options, info hold, push and housekeeping timers | transport, tun and control receive, tun events, inactivity, stop | ends once, reports its fatal error, events in order | messages behind the one that ended it |
| Control channel: `ProtoContext`, `KeyContext`, `ProtoStackBase` (`openvpn/ssl`) | key states, renegotiation and expiry times, primary and secondary keys | handshake, renegotiation, promotion, expiry | both sides always share a data key | renegotiation by both sides at once, lost packets |
| Reliability layer (`openvpn/reliable`) | send window, receive window, pending acknowledgements | send, acknowledge, retransmit, receive, pop | messages are handed up once and in order | lost, duplicated, reordered packets, window edges |
| Replay protection (`openvpn/crypto/packet_id.hpp`) | id, time, bit history, backtrack | next id, test and add, reap | no packet is accepted twice; ids do not wrap | reordering, sliding window edges, expiry |
| Remote list (`openvpn/client/remotelist.hpp`) | item index, address index, resolved addresses, the pre-resolution | next, reset, pre-resolve, share, prune | every remote gets its turn; indices stay in range; addresses stay with their host | the list changes under the indices while sessions start |
| Tun (`openvpn/tun/builder/client.hpp`, `openvpn/tun/client/tunbase.hpp`, `openvpn/tun/persist`) | persisted descriptor, options, halt | tun_start, stop, disconnect, persist | a connected session has the tunnel of its options; a persistent one stays; a descriptor is closed once, by one owner | reuse over reconnects, ownership that differs by platform |
| Adapter bridge (`OpenVPNAdapter/library/OpenVPNAdapterImpl.mm`, `OpenVPNClient.mm`, `OpenVPNPacketFlowBridge.mm`) | settings builder, packet flow bridge, session name | establish, reset, events, read loop | the delegate's last settings win; one read loop per bridge | completion after the 30 s timeout, threads |
| Network settings (`OpenVPNNetworkSettingsBuilder.m`) | addresses, routes, DNS, MTU | tun_builder_* | settings are those of the last push | order of calls |
| Transports (`openvpn/transport/client`) | socket, resolver, halt | start, send, stop, resolve | a stopped transport calls nobody back | late completions |
| Configuration, credentials, option parsing, certificates, reachability, statistics, crypto, compression | values | getters, setters, pure functions | parsed values match | not concurrent; mostly data |

## 2. Modules

| Module | Models | Composed with |
|---|---|---|
| `ConnectionEvents` | abstract: the order of the events an application hears | instantiated by `ClientConnect` |
| `ClientConnect` | one `connect()`: the API, the connection thread, `ClientConnect`, a session seen from above | implements `ConnectionEvents` |
| `MCClientConnect` | sets of error codes for TLC | extends `ClientConnect` |
| `ClientConnectProofs` | the inductive invariant and what follows, the refinement of `ConnectionEvents` | extends `ClientConnect` |
| `ClientConnectWaitsProofs` | theorems about the waits, armed and queued | extends `ClientConnectProofs` |
| `TunBridge` | the adapter's settings and socket pair, the core's `TunPersist`: operators on one record | extended by `Tunnel` |
| `Tunnel` | a connection with its session's options, held INFO and tunnel | extends `ClientConnect` and `TunBridge`, implements `ClientConnect` |
| `MCTunnel` | sets of error codes for TLC | extends `Tunnel` |
| `TunnelProofs` | theorems, `TunnelSpec => Spec` among them | extends `Tunnel`, `ClientConnectProofs` |
| `RemoteList` | the servers of a profile, `PreResolve`, and the attempts that rotate through them | - |
| `MCRemoteList` | two profiles for TLC | extends `RemoteList` |
| `RemoteListProofs` | theorems | extends `RemoteList` |
| `PacketId` | `PacketIDSend` and `PacketIDReceive` as operators on records | extended by the two below |
| `ReplayWindow` | a numbered packet stream over a bad network | extends `PacketId` |
| `ReplayWindowProofs` | theorems | extends `ReplayWindow` |
| `ReliableFifo` | abstract: a FIFO channel | instantiated by `Reliable` |
| `Reliable` | one direction of the control channel | extends `PacketId`, implements `ReliableFifo` |
| `ReliableProofs` | theorems, the refinement among them | extends `Reliable` |
| `KeyContexts` | the data keys of a client and a server that renegotiate | - |
| `KeyContextsProofs` | theorems about each peer, the swap of its keys among them | extends `KeyContexts` |
| `SharedKeyProofs` | theorems about the two peers: they share a key, no session ends | extends `KeyContextsProofs` |
| `MCReplayWindow`, `MCReliable`, `MCKeyContexts` | instances for TLC | extend their module |

`Reliable` is what `KeyContexts` takes for granted: control messages of one
context arrive at the peer's context, once and in order, or not at all if the
context goes first. `KeyContexts` ends a session where `ClientConnect` sees
`SessionTerminates`. `RemoteList` stands beside `ClientConnect`: what is an attempt
for the one is an address for the other, and each abstracts what the other has.

## 3. How the modules correspond to the code

`PROJECT.json`, "map", names the lines of each definition. What follows says how
to read them.

### ClientConnect

The object `ClientConnect` is the record `cc`; each of its methods is an operator
from object to object (`Pause`, `Resume`, `Reconnect`, `RestartWait`,
`ServerPoll`, `ConnTimer`, `ProtoConnected`, `ProtoTerminate`), so that a method
that calls `new_client()` or `stop()` is written as the composition it is. Actions
put them on the connection thread. `queue` is asio's queue of ready handlers: what
another thread posts and what an expired timer yields go to its end. A timer's
`cancel()` empties its field of `cc`; it cannot remove a handler from `queue`.
Each handler carries the generation its wait captured. `thread` is where
`connect()` stands; `asked` and `cc.told` record what the application asked and was told.

Two threads meet in `foreign`, `stopped` and `cc.halt`: `ApiCall` reads `halt`,
`ApiPosts` posts later, as `thread_safe_*` do without a lock. An exception in a
handler leaves `run()` and ends in `connect_session_stop` (`SessionFailsUnhandled`);
the `poll()` in there runs only handlers that the halt has made empty.

Abstracted: errors that `client_proto_terminate` treats alike have one
representative; `AUTH_PENDING` comes once in a session; statistics, `post_cc_msg`,
remote rotation and the errors of exit notifications are left out.
`dont_restart_`, the lifecycle object and `client_finalized` play no part in the
adapter's build.

### ConnectionEvents

Not code but the promise of `clievent.hpp` and of the delegate's header: which of
the five events that mark the course of a connection may follow which, and how
often. Its one variable `heard` is the last of them, how many there were, whether
Connected was told of the present attempt and whether a Pause is open. The count makes every
event a step: a second Connected of one session, a second Pause, or anything after
Disconnected is a step that the module does not have, never a stutter. `cc.told` records
what `add_event` was given (`Tell`); `Heard` maps the object to `heard`. A handler of the code may tell two
or three events at once (Resume and Reconnecting, and Disconnected if the start
fails), and these are actions of their own. The other events say something
about an attempt and have no order of their own.

### TunBridge, Tunnel

`tun` is one record for both owners of the tunnel: `settings`, `socket` and
`open` belong to the adapter (its settings builder, `openVPNSocket` and whether
that `CFSocket` is still open), `sd` and `saved` to `TunPersist`, `persist` says
to whom that object belongs. Operators follow the code's: `TunStart`
(`tun_start`), `PersistTunState`, `ClosePersist`, `TunStop`, `Finalize` on the
core's side, `ResetTun`, `InvalidateSockets`, `EstablishTunnel` on the
adapter's. A descriptor is its number, because numbers are what both sides
close; `foreign` remembers that one was closed that was not the tunnel's.

`proto` is the rest of the session: whether the key is there (`Active`), the
timer of push requests, the options and whether a part of them is missing, the
one-second hold of INFO. Its own actions leave `ClientConnect` alone or are
conjunctions with the action of `ClientConnect` that the same handler causes:
`PushReply` with `SessionConnects`, `TunFails` with `TerminatesWith`. What
`ClientConnect` does to a session reaches the tunnel through `Session::stop()`
and `ClientOptions::finalize()`, by `Follow`, in the same step. One end of a session goes
another way, `SessionThrows`: `client_proto_terminate()` throws for an error it does not
handle (KEY_EXPANSION_ERROR) after `halt` was set and before `tun->stop()`
(`cliproto.hpp:233-243`, `cliconnect.hpp:602`), and the later `stop()` finds the session halted. Then nothing but
`finalize(true)` happens to the tunnel; `proto.threw` remembers it. The delegate
is another process, but the connection thread waits for it on a semaphore, so
its answer, refusal or silence of 30 seconds are outcomes of one step.

Abstracted: options and descriptors are model values, one INFO message comes in
a session, packets are left out. `LateControl` is false here: control messages
behind the one that ends a session are looked at in `ClientConnect` (see
section 8 for what they do to a tunnel).

### RemoteList

`list` and `index` are the object's; operators that return a record of both
(`NextRemote`, `ResetItem`, `SetEndpointRange`, `PruneUncached`) are its methods. `pre`
is `PreResolve` with its position and the name it waits for, `client` the session
that `ClientConnect` points to, `conn` the part of `ClientConnect` that decides when
the list moves on. `Started` is the UDP transport's `transport_start`. Names
are hosts, an address list is the name it came from with its length, an
address its position.

Left out: how a profile becomes a list, `randomize`, overrides and the proxy
alternative.

### PacketId, ReplayWindow

`PacketIDReceive` is a record with the ring (`history`), `base`, `extent` and the
id floor; `TestAdd` follows `test_add` with its error codes as outcomes. The ring
index is computed modulo the window size as in `REPLAY_INDEX`. Left out:
statistics, and the wrap of a second's worth of ids in long form (2^32 in one second).

### Reliable, ReliableFifo

`rel_send` and `rel_recv` are the two windows with the queue in front of the one and
the replay filter in front of the other. `flush()` ends every handler of the code, so
sending what the window admits and acknowledging what was received belong to the
step that caused them. `net` is a set of packets: packets stay in it, so each may
arrive many times, in any order, or never. TLS records are opaque and
message 0, the reset, passes below TLS; each end starts TLS when it may. The clock
is the receiver's, for the expiry of identifiers; the time field of identifiers is constant because
it changes only on a wrap. TCP mode and invalidation by an exception are left out.

### KeyContexts

`proto[p]` is the `ProtoContext` of a peer; `ProcessPrimaryEvent` and
`ProcessSecondaryEvent` are operators on it, and `ProcessEvents` is one round of
`process_events()`. A pending event is processed before anything else happens at
its peer, since every handler ends in `flush()`. Times are relative: `due` is
`next_event_time - now`, `age` the time since construction.

Abstracted: the key exchange is one message each way above the reliability layer;
the packet that tells a peer's acknowledgement has no state of its own; packets do
not outlive the context they belong to. Keepalives count as data. A data limit may
be reached at any moment. `MaxLag` bounds how long the network withholds something
it could deliver; beyond it time does not go on. The deferred data channel
(`dc_deferred`) and TCP are left out.

## 4. Runs

| Run | Instance | Shows |
|---|---|---|
| `connect` | three sessions, five classes of error, connection timeout, no proxy, no clock tick | the invariants and action properties of `ClientConnect`, its liveness, and the refinement of `ConnectionEvents` with every event counted |
| `connect_late_control` | proxy, `retryOnAuthFailed`, relay, clock tick, a PUSH_REPLY behind the end of a session | what that reply does to a session that is over (it connects once more, and `connected()` touches the timers of the object) leaves the restart that was agreed on under way |
| `tunnel` | three sessions, two sets of options, two descriptor numbers, proxy, iOS | a connected session has its own tunnel, a persistent one is kept, nothing is left at the end unless an exception left `stop()` of a connected session, requests and held INFO keep their timers |
| `remotes` | three remotes of two hosts, two addresses each, with and without cache | the index stays in the list, addresses stay with their host, a cached list is rotated through completely |
| `replay` | window of 3, the ring has as many slots, ids to 7, two seconds | no replay accepted, none invented, no identifier reused |
| `reliable` | window of 2, four messages, packet identifiers, one bare acknowledgement, one tick | acknowledged means received, the receiver has room, a FIFO channel is implemented and all is delivered |
| `keys` | handshake window 4, become-primary 3, renegotiate 8, transition 8, all eight key ids, delay at most 2 | shared key, survival, distinct ids, refresh |
| `keys_limited` | handshake window 2, become-primary 1, renegotiate 4, transition 4, data limits, delay at most 1 | an expiry put off by limits and failures is put off by four handshake windows at most, retired keys stay retired |
| `acked_unreceived` | violation; the silence that expires identifiers | a message refused as expired is acknowledged all the same |
| `key_limit_dropped` | violation | a key limit on the first key is forgotten |
| `rotation_sticks` | violation; two remotes of two addresses, no cache | after server poll timeouts the same remote is tried for ever |
| `descriptor_owner` | violation; two sessions on macOS | the core closes the number of the descriptor that the session uses |

Why the bounds are enough:

- `MaxGen` = 3 sessions: a wait of the first session can be stale in the second and
  the third, with another wait of the second between them. The bound stands in the
  guards of what asks for one more session (`Room`), not in the sessions' own steps, so
  no behaviour is cut in the middle of a handler. Calls of the API: one at a time, any
  number in a row. `AnsweredSessionKept` is about behaviours in which the application has called neither
  `resume` nor `reconnect`: a posted call may replace an answered session at any later time.
- `tunnel`: three sessions, so that a persistent tunnel can be taken over, replaced, and
  taken over by the options of the first; two options tell "same" from "other", two
  numbers tell "reused" from "new". The server poll is off (proxy): it is one more way to
  replace a session, and those that are left do to the tunnel what it does.
- `remotes`: two items of one host with another between them, so that addresses
  are shared over an item that is not cached and pruning moves items. Nothing is counted:
  the space is finite and behaviours are infinite.
- `replay`: ids up to 7 go more than twice around a ring of three; two
  times reset base and extent, expiry after one second.
- `reliable`: four messages make a window of two slide twice, with all losses and
  repetitions (the network is a set). `DistinctMessages` is a constraint on what is
  written: the first message is `m1`, the second `m2`. The model never compares data, so
  a run with other data is one of these with values renamed, and with distinct ones
  loss, repetition and disorder all show. The clock does not reach `ExpireAfter`: a
  silence of that length breaks the channel, which is what `acked_unreceived` shows.
- `keys`: the space is finite without bound: ids recycle, and times no larger than the
  configuration's are told apart. Eight key ids, delays below `become_primary`, and a
  renegotiation longer than the handshake window. Sharp: with `MaxLag` equal to
  `BecomePrimary` `SharedKey` fails, as it must.
- `keys_limited`: with 64-bit block ciphers. `prepare_expire` gives a key whose limit has fired two
  handshake windows *from now*, each time it is called (`proto.hpp:1633`), so that its expiry is put
  off; and the limit of the key to come turns the expiry of an old key, limit or not, into a forced
  renegotiation. `KeyAgeBounded` allows `Grace` = four handshake windows for that (none without
  a data limit), and speaks of every key. In this instance the oldest key is one unit younger. Other instances with
  `tran-window` of at least two handshake windows, `become_primary` of at most one and packets
  withheld for at most half a handshake window keep the bound too (handshake windows of 2 and 3, `renegotiate`
  2 to 8); with longer delays, or a shorter `tran-window`, it fails: each handshake that is
  late adds to the postponement (handshake window 3, `become_primary` 2, `renegotiate` and `tran-window` 6, delay 2). The
  defaults are 60 s and 3600 s. A data limit stands for the volume limit only:
  the packet-id wrap trigger (`proto.hpp:1573`, `2105`), which exists with every cipher, is
  not in run `keys` nor in the theorems of `SharedKeyProofs`.
- `MaxLag` (all runs of `KeyContexts`) bounds the whole time something has been withheld at a
  peer, a handshake of many packets included, not the delay of a single packet.

`CHECK_DEADLOCK FALSE` stands where the system may stop: after `connect()` has
returned, after `Stop` of the list, after the bound on ids or messages. `KeyContexts`
never stops.

## 5. Fairness

`ClientConnect`: the connection thread goes on (`SessionStart`,
`EnableForeignThreadAccess`, `RunReturns`), ready handlers run in their order
(asio's queue is FIFO), an armed restart wait and a clock tick expire, and the
resolver answers (`getaddrinfo` times out). Nothing is assumed of the
application, of the server or of the poll and connection timers, except what their
handlers do once queued.

`RemoteList`: a resolution ends, in advance (`PreResolved`) or for a session
(`ClientResolved`), a silent attempt is given up at the latest by the server poll
(`ServerPoll`), a restart wait expires. Failures and connections are never
forced, and what the application does (`Pause`, `Reconnect`, `Stop`) neither: the rotation has
to work by what the core does alone, and an application that pauses for ever is excused.

`Reliable`: the retransmission timer of the *first* unacknowledged message fires
(weak); that message, and its acknowledgement, arrive if they are sent over and over
(strong: the network may lose any finite number of copies); both ends start TLS.
The code has a timer for every message; to ask for no more than the first makes
`AllDelivered` the stronger. It says that the reader catches up with the writer again and
again, which is delivery because writing is bounded.

`KeyContexts`: events and the keepalive timer are served, what the network
withholds arrives, time goes on. `Tick` waits for pending events because the
housekeeping timer is armed for the earliest deadline.

`Tunnel` and `PacketId` have safety only.

## 6. Proofs

All theorems hold for every value of the constants under the named assumptions
of the modules (`ConstantsAssumption`, `TunAssumption`, `NoLateControl`,
`RemotesAssumption`, `PacketIdAssumption`, `ReplayWindowAssumption`, `ReliableAssumption`,
`KeyAssumption`, and `NoKeyAssumption`: an empty slot is no context) and those the theorem
states.

- `ClientConnectProofs`. `Inductive` proves `IInv`: type correctness; a halted
  object holds nothing (`Released`); armed waits have the current generation
  (`Current`); and while `connect()` runs there is work, *or a queued restart
  handler of the current generation*. The last disjunct is the strengthening: between the
  expiry of a restart wait and its handler neither a timer nor a client is there, and the
  handler starts a client only if nobody has advanced the generation. Each operator gets a
  lemma "follows" (what it leaves of the invariant), each group of actions one step.
  From it `TypeCorrect`, `RunsUntilStopped` (NeverOutOfWork), `ArmedWaitsAreCurrent`,
  `StopReleases` (HaltReleases) and, as an action property, `StoppedForGood`.
- `ClientConnectWaitsProofs`. A second invariant, `WaitsInv`, follows each wait from the timer to
  the handler in the queue: every one was armed for a generation that was started (`Numbered`),
  a silent session has its poll (`Polled`), `conn_timer_pending` tells of a timer that is there
  (`Timed`), and as long as the application has called neither `resume` nor `reconnect` nothing
  is queued or armed that would restart a live session, and there is no session during the
  resolution (`Quiet`). `Turns` sorts what an operation does to the object into four ways (a new client,
  a stop, an end of the session, or what there is goes on), one lemma per method, and `TurnStep`
  shows once that each keeps the invariant. From it `NoAttemptIsSilent` (NoSilentSession), `AttemptsAreTimed`
  (ConnTimeoutCovers) and, as an action property, `AnsweredIsKept`, for any set of errors
  and with or without late control messages.
- The refinement (same module). `EventsInOrder`: every step of `ClientConnect` is one of
  `ConnectionEvents` or a stutter. The invariant `Fits` says what the application has heard fits
  the object: it was told Disconnected exactly when the object is halted, and before the first attempt
  no session has connected. Each method *speaks*: from an object that fits to one that
  does, with an event the abstract machine allows, or with those that an attempt begins with, in their order.
  Two assumptions, both needed (TLC finds the behaviours without them, section 8): nothing is
  read behind the message that ends a session, and there is no relay.
- `TunnelProofs`. `TunnelImplements` proves `TunnelSpec => Spec`, so that every theorem about
  `ClientConnect` holds of the composition. Then two invariants. `ProtoInv`, of the session:
  a live one with a key has a request pending until the reply begins, one whose hold on INFO is timed or
  released has connected, and one that has connected is what the application was told last. `TunInv`, of the tunnel: adapter and core
  *agree* (`Agreed`: one open socket that is also the core's descriptor, its settings those
  saved), a live session that has told Connected has a descriptor with its options, and a
  tunnel that is not persistent ends with its session, except when `client_proto_terminate()` threw out of
  the `stop()` of a connected session (`TunLeft`; `connect()` has then returned). What a step does to a live session is split once (the
  "Keeps" lemmas, one per method): the same session goes on with what it had, or it
  ends, or another begins; `FollowTun` and `FollowProto` turn that into
  the tunnel's side. Theorems about the tunnel assume `RetainSd`, as on iOS; without it two owners close one
  descriptor, and `descriptor_owner` shows that they do. `PushRequestsGoOn` and
  `InfoAfterConnected` hold on both platforms.
- `ReplayWindowProofs`. The invariant says that the bit of each id in the window is
  set exactly if it has been accepted in the current time, and ids above the window's top
  have not been. The work is in the ring arithmetic (`IndexShift`, `IndexInjective`,
  `SlideFaithful`): a jump forward clears exactly the slots that change their meaning. From it
  `AcceptedOnce`, `ReplaysAreReplays` and `WindowTypeCorrect`. Of the sender: what has been sent is
  numbered up to its own time and id (`Numbered`), so that a wrap, which waits for the next second,
  comes after everything (`NothingReused`: NoReuse).
- `RemoteListProofs`. The invariant: the list is never empty and the index is in it (`Good`); an item's
  addresses are its host's (`Sound`); a session that looks for its server is at the item of the
  index (`AtItem`), and `PreResolve` asks for the item that it is at (`Asks`). The work is in
  `prune_uncached`, which compacts the list while the index refers to it: what is kept is numbered
  by `Rank`, and the lemmas show that the ranks are a bijection from the kept positions onto an
  interval. They need a least element of a set of numbers, which is taken from the well-foundedness of `<`
  in its set form (`LeastNatural`), since induction over an operator is out of the prover's reach. From it
  `RemotesTypeCorrect`, `IndexStaysInRange` and `AddressesStay`, for profiles of any length.
- `ReliableProofs`. The invariant: a packet carries the message of its id, ids in use
  form an interval, what was delivered is a prefix of what was written, nothing that could
  be handed up waits. From it `ChannelIsFifo`, the refinement of `ReliableFifo` by every
  step. `AckedMeansReceived` and `RoomForAll` assume `~ReplayProtected`; with the replay
  filter and a silence they are false (run `acked_unreceived`).
- `KeyContextsProofs`. The invariant: every context that is valid has a next event
  (`Scheduled`; each branch of `process_next_event` and of the two event handlers must set
  one, `set_next_event_if_unspecified` sees to the rest), and of the contexts of a peer at
  most one has key id 0, because `upcoming_key_id` never is 0 again. One lemma per
  operation of a context, one per operation of a `ProtoContext`, one per action. It assumes
  nothing about times or the delay of the network. From it `KeysTypeCorrect`,
  `KeysScheduled` and `KeysFirstKey`.
- The swap of keys (same module). `promote_secondary_to_primary` swaps the contexts without looking at the one it promotes.
  It is safe because a primary that is about to expire never has an old context beside it
  (`Aligned`): what gives the primary its expiry also replaces the secondary, and a secondary only becomes
  primary while it is new. That in turn needs to know where each context is in its
  life (`Phased`): between two steps an event waits only if `active()` or a key limit set it,
  a context that is not yet active has no event of an active one, and one that waits as
  PRIMARY_PENDING has seen no data. `KeysAligned` proves both together with the invariant above,
  `RetiredForGood` is the action property (RetiredStaysRetired), again for all times and delays.

- `SharedKeyProofs`. That the two peers fit together, for every configuration of times with
  `PromptNetwork`: packets are withheld for less than the handshake window and less than
  `become_primary`, `become_primary` and that delay are together shorter than both
  `renegotiate` and `tran-window`, and the cipher has no data limit. The defaults (60 s, 60 s,
  3600 s, 3600 s) satisfy it for every delay below a minute, and so does run `keys`; with a delay of
  `become_primary` TLC finds that `SharedKey` fails, so that this bound is needed.
  The peers never tell each other when they change keys, so the invariant `Synchronous` relates
  their clocks: a `Clock` of either context is measured against the age of the client's newest key.
  A handshake that is not over has something that could be delivered (`HandshakeGoesOn`), hence
  is as old as the network is late at most; it ends before HANDSHAKE_TIMEOUT, at both ends
  within the delay of each other, so that each end is active before the other
  turns; and the server's key, younger and due a handshake window later, never renegotiates by
  itself (`Timely`). There are five modes: both are at one key (`Together`), the client has offered
  the next (`Offered`), it is negotiated or waits at both ends (`Negotiated`), and one has turned before the
  other (`ClientAhead`, `ServerAhead`). First, what `process_events` does exactly, in the cases that
  arise (`PrimaryTurns`, `SecondaryActive` and their like); then, per mode, that events, messages, acknowledgements
  and time lead to one of the five. `KeysSynchronous` is the invariant; from it `KeyIsShared`
  (SharedKey), `NoSessionEnds` (SessionSurvives), `KeyIdsAreDistinct`, `OnlyInitialActive`
  and `KeysDoNotOutlive` (KeyAgeBounded).

Only model-checked: liveness (`AlwaysRetries`, `StopReturns`, `AllDelivered`, `CachedRotation`,
`KeysAreRefreshed`) and everything that mentions ENABLED, which the prover does
not reach; and of `KeyContexts` with a data limit the age bound (`KeyAgeBounded`, run `keys_limited`): the theorem
is about ciphers without one. No recursive operator is used.

## 7. What could come next

1. The exact bound on the age of a key with a data limit, in terms of the delay, and its
   proof (section 4 tells what is known): the modes of `Synchronous`, with a key that waits for data and
   renegotiations that either end starts.
2. The packet loops between `NEPacketTunnelFlow` and the socket, once it is
   known what the flow does with a second `readPackets`.
3. `ClientConnect` over `RemoteList`: an attempt with its address, so that the server
   poll and the connection timeout meet a list that is being pruned.
4. TCP: `Reliable` without retransmission, and the framing of `TCPTransport`.

## 8. Differences between the code and its documentation

Found by runs that must fail (the quotations are in `PROJECT.json`, "findings"):

- `acked_unreceived`: `decapsulate_post_process` acknowledges a packet whose identifier was refused
  as expired or too old, although it never had it (`proto.hpp:2621`).
- `key_limit_dropped`: a renegotiation for the data limit is queued through the secondary key when there
  is none (`proto.hpp:2119`).
- `rotation_sticks`: `next()` counts the addresses of an item and then drops them
  (`remotelist.hpp:597`): without a cache, server poll timeouts never leave an item that
  has two addresses.
- `descriptor_owner`: on macOS the descriptor that the core is told it owns is closed by the
  adapter too, and the core closes the number again when the adapter has reused it
  (`OpenVPNAdapterImpl.mm:375`).

Met while modelling, in words only:

- A connection timeout that expires just before the session connects stops the connection
  that has been made: `conn_timer_callback` does not look at its generation
  (`cliconnect.hpp:335`), unlike the two other waits.
- A clock tick that has expired when the session stops arms itself again
  (`client/ovpncli.cpp:407`): `io_context.run()` never returns, nor `connect()`. `StopReturns` holds without the
  tick, which the adapter leaves off by default (`clockTick`).
- A PUSH_REPLY behind the message that ended the session is still handled
  (`cliproto.hpp:551`): the application hears Connected after Disconnected, and a tunnel is set up for
  a session that is over. `EventsSpec` is checked and proved without such messages. The tun object of such
  a session also keeps `io_context.run()` from returning if the object was stopped already
  (`orphan_tun` in `ClientConnect`): `StopReturns` is checked without them too.
- A paused client starts an attempt when `pre_resolve_done` or an expired server poll
  runs after the pause (`cliconnect.hpp:297`, `328`; `ovpncli.hpp:520` "Pause the client").
  If a relay takes over from that attempt, Resume is told after Reconnecting.
- `stop()` before `enable_foreign_thread_access()` does nothing (`client/ovpncli.cpp:1322`)
  although `ovpncli.hpp:515` says "Stop the client": a `disconnect` early in `connect`
  is lost. `StopReturns` speaks of stops that the session accepted.
- `reset_item` admits an index equal to the size of the list (`remotelist.hpp:756`); by
  `IndexInRange` it never is.
- `startReading` of the packet bridge restarts itself for ever, and every new tunnel starts it again
  (`OpenVPNPacketFlowBridge.mm:146`); and its callback takes `packetFlowSocket` on another
  thread than the one that invalidates it (145).
- With `retryOnAuthFailed` the event AUTH_FAILED counts as fatal (`clievent.hpp:90`), yet
  the client tries again (`cliconnect.hpp:461`).
- An exception in `client_proto_terminate()` (an error it does not handle: KEY_EXPANSION_ERROR,
  `cliconnect.hpp:602`) leaves `Session::stop()` before `tun->stop()` and `transport->stop()`, against the comment there
  ("call after client_proto_terminate()", `cliproto.hpp:240-243`). Since `halt` is set no later `stop()` reaches them:
  `connect()` returns with the settings and the sockets of a connected session still up. `AllTornDown` says exactly when.
- The connection information is still given after the connection has ended: `last_connected`
  is never cleared (`client/ovpncli.cpp:207`; `OpenVPNAdapterImpl.h:110`).
- A client does not answer a soft reset with one of its own (`proto.hpp:2245`,
  commented out), so that a renegotiation only the server starts never completes
  between two `ProtoContext`s; the client's timer comes a handshake window earlier.
- If a soft reset is lost for a whole handshake window the two ends disagree on
  `upcoming_key_id`, and each drops the other's soft resets (`proto.hpp:1059`) until the
  primary key expires. After seven failures in a row the ids 1 to 7 recycle onto the
  primary's.
- With data limits a key can be used beyond the time that its own `expire` sets: `prepare_expire` counts two
  handshake windows from the latest call (1633), and a key that waits for data
  (KEV_PRIMARY_PENDING) can be made primary by the expiry of the old one (3801) when its
  own expiry time has come. `KeyAgeBounded` and section 4 say by how much.
- `active()` is documented for the initial context (`proto.hpp:3649`); if the primary expires
  during the negotiation of its successor the latter is promoted first (3801) and the call
  is made for it too.
- Options: settings given to `applyConfiguration` after `connect` still count
  (`OpenVPNClient.mm:27`, `OpenVPNAdapterImpl.h:142`).

## 9. What is not modelled

`PROJECT.json`, "components", lists every part with the reason.

- Vendored libraries (mbedTLS, ASIO, LZ4 and their like) are most of the tree by
  lines; they are third-party code that the program uses through interfaces, and what it
  relies on stands in the modules as inputs. The same goes for the parts of the OpenVPN 3 core that
  this build never compiles: servers, agents, DCO, other platforms, HTTP. The modules name the lines
  they translate and no more, so the share of the whole tree is small, and no
  faithful model of the program's own logic would make it large.
- Parsing of options and profiles, packet formats, cryptography, TLS and compression are
  sequential transformations of data; their outcomes (an error, a name, a set of options, a key) are
  inputs of the models.
- Of the transports, sockets and framing; of the session, inactivity (it ends a session as other
  errors do), echo, auth tokens and warnings; of `ProtoContext`, the deferred data channel,
  TCP and tls-crypt.
- The network settings builder, value objects, certificates, reachability, statistics and logs have no
  concurrent state; `TunBridge` has the settings as one value.
