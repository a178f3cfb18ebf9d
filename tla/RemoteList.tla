----------------------------- MODULE RemoteList -----------------------------
(***************************************************************************)
(* The list of servers of a profile and the rotation through it            *)
(* (openvpn/client/remotelist.hpp), as ClientConnect and a UDP client use  *)
(* it: the names are resolved in advance by PreResolve when the tunnel is  *)
(* persistent, otherwise one by one as a session starts, and every attempt *)
(* that fails moves on to the next address.                                *)
(*                                                                         *)
(* Names are resolved by detached threads; a cancelled resolution is never *)
(* heard of again.  Meanwhile the application may pause, resume and        *)
(* reconnect, which starts sessions while PreResolve is still at work.     *)
(***************************************************************************)
EXTENDS Integers, Sequences, FiniteSets

CONSTANTS
    Hosts,      \* the names of servers
    Remotes,    \* the profile: for each remote directive the host it names
    MaxAddrs    \* bound on the addresses that a name resolves to

ASSUME RemotesAssumption ==
    /\ Remotes \in Seq(Hosts)
    /\ Remotes # <<>>
    /\ MaxAddrs \in Nat \ {0}
    /\ "none" \notin Hosts

VARIABLES
    enable_cache,   \* all names are resolved in advance, and kept
    list,           \* the items, with the addresses that are cached
    index,          \* the current item and address, from 0
    pre,            \* the PreResolve object
    client,         \* the session that ClientConnect points to
    conn            \* what ClientConnect knows

vars == <<enable_cache, list, index, pre, client, conn>>

Host == Hosts \cup {"none"}

\* res_addr_list: the name that was resolved, and the number of addresses.
AddrLists == [host : Host, size : 0..MaxAddrs]
NoAddrs == [host |-> "none", size |-> 0]

Items == [remote : 1..Len(Remotes), host : Hosts, res_addr_list : AddrLists]

TypeOK ==
    /\ enable_cache \in BOOLEAN
    /\ list \in Seq(Items)
    /\ index \in [primary : 0..Len(Remotes), secondary : 0..(MaxAddrs - 1)]
    /\ pre \in [notify : BOOLEAN, index : 0..Len(Remotes), asking : Host]
    /\ client \in [state : {"none", "resolving", "contacting", "connected", "halted"},
                   reached : BOOLEAN,
                   host : Host,
                   secondary : 0..(MaxAddrs - 1)]
    /\ conn \in [started : BOOLEAN, halt : BOOLEAN, paused : BOOLEAN, restart : BOOLEAN]

\* Each item of the profile, not yet resolved.
InitialList ==
    [i \in 1..Len(Remotes) |->
        [remote |-> i, host |-> Remotes[i], res_addr_list |-> NoAddrs]]

Init ==
    /\ enable_cache \in BOOLEAN
    /\ list = InitialList
    /\ index = [primary |-> 0, secondary |-> 0]
    /\ pre = [notify |-> FALSE, index |-> 0, asking |-> "none"]
    /\ client = [state |-> "none", reached |-> FALSE, host |-> "none", secondary |-> 0]
    /\ conn = [started |-> FALSE, halt |-> FALSE, paused |-> FALSE, restart |-> FALSE]

-----------------------------------------------------------------------------
(* The operations of RemoteList, on a record of the list and the index.    *)

Here == [list |-> list, index |-> index]

IsDefined(item) == item.res_addr_list.size > 0

SecondaryLength(r, i) ==
    IF i < Len(r.list) THEN r.list[i + 1].res_addr_list.size ELSE 0

\* Mutants of Increment: one index runs past the end before it wraps.
IncrementPast(ix, pri_len, sec_len) ==
    IF ix.secondary + 1 < sec_len THEN [ix EXCEPT !.secondary = @ + 1]
    ELSE [primary |-> IF ix.primary >= pri_len THEN 0 ELSE ix.primary + 1, secondary |-> 0]
IncrementPastAddrs(ix, pri_len, sec_len) ==
    IF ix.secondary < sec_len THEN [ix EXCEPT !.secondary = @ + 1]
    ELSE [primary |-> IF ix.primary + 1 < pri_len THEN ix.primary + 1 ELSE 0, secondary |-> 0]

Increment(ix, pri_len, sec_len) ==
    IF ix.secondary + 1 < sec_len THEN [ix EXCEPT !.secondary = @ + 1]
    ELSE [primary |-> IF ix.primary + 1 < pri_len THEN ix.primary + 1 ELSE 0, secondary |-> 0]

\* The code checks i <= list.size(), and has i in range: see IndexInRange.
ResetItem(r, i) ==
    IF i < Len(r.list) THEN [r EXCEPT !.list[i + 1].res_addr_list = NoAddrs] ELSE r

ResetCacheItem(r) == IF enable_cache THEN r ELSE ResetItem(r, r.index.primary)

\* Mutant of NextRemote: only the items are counted, not their addresses.
NextRemoteSticks(r) ==
    [r EXCEPT !.index = Increment(@, 1, SecondaryLength(r, r.index.primary))]

\* RemoteList::next().
NextRemote(r) ==
    ResetCacheItem(
        [r EXCEPT !.index = Increment(@, Len(r.list), SecondaryLength(r, r.index.primary))])

EndpointAvailable(r) == r.index.secondary < SecondaryLength(r, r.index.primary)

Current(r) == r.list[r.index.primary + 1]

\* The addresses of `host` are stored with the current item.
SetEndpointRange(r, host, n) ==
    [list |-> [r.list EXCEPT ![r.index.primary + 1].res_addr_list =
                                [host |-> host, size |-> n]],
     index |-> [r.index EXCEPT !.secondary = 0]]

\* The items with an address, and which of them is the n-th.
Resolved(l) == {k \in 1..Len(l) : IsDefined(l[k])}
Rank(l, k) == Cardinality({j \in Resolved(l) : j <= k})
Nth(l, n) == CHOOSE k \in Resolved(l) : Rank(l, k) = n

\* They move to the front, in their order, and the rest is cut off.
Compacted(l) == [n \in 1..Cardinality(Resolved(l)) |-> l[Nth(l, n)]]

\* Mutant of PruneUncached: the index stays where it was.
PruneUncachedOnly(r) == [r EXCEPT !.list = Compacted(@)]

PruneUncached(r) ==
    [list |-> Compacted(r.list), index |-> [primary |-> 0, secondary |-> 0]]

-----------------------------------------------------------------------------
(* ClientConnect::new_client and the start of the transport client.        *)

Remember(r) == list' = r.list /\ index' = r.index

Session(state, host, secondary) ==
    [state |-> state, reached |-> FALSE, host |-> host, secondary |-> secondary]

\* A UDP client that starts: it contacts a cached address, or asks for the name.
\* With the index out of range primary_index() throws, and there is no session.
Started(r) ==
    CASE EndpointAvailable(r) ->
             Session("contacting", Current(r).res_addr_list.host, r.index.secondary)
      [] ~EndpointAvailable(r) /\ r.index.primary < Len(r.list) ->
             Session("resolving", Current(r).host, 0)
      [] OTHER -> Session("halted", "none", 0)

\* An attempt that did not get as far as connected moves on in the list.
Rotated(r) == IF conn.started /\ ~client.reached THEN NextRemote(r) ELSE r

NewClient(r) ==
    /\ Remember(Rotated(r))
    /\ client' = Started(Rotated(r))

-----------------------------------------------------------------------------
(* PreResolve.                                                             *)

Cached(l, host) == \E i \in 1..Len(l) : l[i].host = host /\ IsDefined(l[i])

\* The first item from i on whose name has to be asked for, or one past the
\* end of the list.
ToResolve(l, i) ==
    CHOOSE j \in (i + 1)..(Len(l) + 1) :
        /\ j <= Len(l) => ~Cached(l, l[j].host)
        /\ \A k \in (i + 1)..(j - 1) : Cached(l, l[k].host)

\* Mutant of ShareCached: the addresses of the item before are taken.
ShareCachedAny(l, i, j) ==
    [k \in 1..Len(l) |->
        IF k > i /\ k < j /\ ~IsDefined(l[k])
        THEN [l[k] EXCEPT !.res_addr_list = l[k - 1].res_addr_list]
        ELSE l[k]]

\* Items between i and j take the addresses of an item of the same host.
ShareCached(l, i, j) ==
    [k \in 1..Len(l) |->
        IF k > i /\ k < j /\ ~IsDefined(l[k])
        THEN [l[k] EXCEPT !.res_addr_list =
                l[CHOOSE m \in 1..Len(l) : l[m].host = l[k].host /\ IsDefined(l[m])].res_addr_list]
        ELSE l[k]]

\* PreResolve::next(): the next name is asked for; at the end of the list the
\* items without an address are pruned, unless that is all of them, and
\* pre_resolve_done() starts a client at once.
PreResolveNext(l, i) ==
    LET j == ToResolve(l, i)
        shared == ShareCached(l, i, j)
        r == [list |-> shared, index |-> index]
        anyone == Resolved(shared) # {}
    IN  IF j <= Len(l)
        THEN /\ Remember(r)
             /\ pre' = [notify |-> TRUE, index |-> j - 1, asking |-> l[j].host]
             /\ UNCHANGED <<client, conn>>
        ELSE /\ pre' = [notify |-> FALSE, index |-> 0, asking |-> "none"]
             /\ NewClient(IF anyone THEN PruneUncached(r) ELSE r)
             /\ conn' = [conn EXCEPT !.started = TRUE, !.restart = FALSE]

\* ClientConnect::start(), and PreResolve::start() when there is work for it.
Start ==
    /\ client.state = "none" /\ ~pre.notify /\ ~conn.started /\ ~conn.halt
    /\ IF enable_cache
       THEN PreResolveNext(list, 0)
       ELSE /\ NewClient(Here)
            /\ conn' = [conn EXCEPT !.started = TRUE]
            /\ UNCHANGED pre
    /\ UNCHANGED enable_cache

\* PreResolve::resolve_callback with n addresses, 0 standing for an error.
PreResolved ==
    /\ pre.asking # "none"
    /\ \E n \in 0..MaxAddrs :
          PreResolveNext(
              IF n = 0 THEN list
              ELSE [list EXCEPT ![pre.index + 1].res_addr_list = [host |-> pre.asking, size |-> n]],
              pre.index + 1)
    /\ UNCHANGED enable_cache

-----------------------------------------------------------------------------
(* The session.                                                            *)

\* queue_restart() and reconnect(): the addresses of the current item are
\* dropped, unless they are kept.
QueueRestart ==
    /\ Remember(ResetCacheItem(Here))
    /\ conn' = [conn EXCEPT !.restart = TRUE]

\* The resolution that the client asked for: resolve_callback stores the
\* addresses and contacts the first one, or reports a transport error.
ClientResolved ==
    /\ client.state = "resolving"
    /\ \/ \E n \in 1..MaxAddrs :
             /\ Remember(SetEndpointRange(Here, client.host, n))
             /\ client' = [client EXCEPT !.state = "contacting", !.secondary = index'.secondary]
             /\ UNCHANGED conn
       \/ /\ client' = [client EXCEPT !.state = "halted"]
          /\ QueueRestart
    /\ UNCHANGED <<enable_cache, pre>>

Connects ==
    /\ client.state = "contacting"
    /\ client' = [client EXCEPT !.state = "connected", !.reached = TRUE]
    /\ UNCHANGED <<enable_cache, list, index, pre, conn>>

\* The session ends and is to be restarted.
Fails ==
    /\ client.state \in {"contacting", "connected"}
    /\ client' = [client EXCEPT !.state = "halted"]
    /\ QueueRestart
    /\ UNCHANGED <<enable_cache, pre>>

-----------------------------------------------------------------------------
(* ClientConnect.                                                          *)

\* server_poll_callback: "Server poll timeout, trying next remote entry...".
\* The addresses of the current item are not dropped.  reconnect() cancels
\* the timer.
ServerPoll ==
    /\ client.state \in {"resolving", "contacting"} /\ ~conn.restart
    /\ NewClient(Here)
    /\ conn' = [conn EXCEPT !.restart = FALSE]
    /\ UNCHANGED <<enable_cache, pre>>

Resumes == conn' = [conn EXCEPT !.started = TRUE, !.restart = FALSE, !.paused = FALSE]

\* restart_wait_callback: a paused object is resumed.
RestartWait ==
    /\ conn.restart /\ ~conn.halt
    /\ NewClient(IF conn.paused THEN ResetCacheItem(Here) ELSE Here)
    /\ Resumes
    /\ UNCHANGED <<enable_cache, pre>>

\* pause() leaves PreResolve at work.
Pause ==
    /\ client.state # "none" \/ pre.notify
    /\ ~conn.halt /\ ~conn.paused
    /\ client' = [client EXCEPT !.state = IF @ = "none" THEN "none" ELSE "halted"]
    /\ conn' = [conn EXCEPT !.paused = TRUE, !.restart = FALSE]
    /\ UNCHANGED <<enable_cache, list, index, pre>>

Resume ==
    /\ conn.paused /\ ~conn.halt
    /\ NewClient(ResetCacheItem(Here))
    /\ Resumes
    /\ UNCHANGED <<enable_cache, pre>>

Reconnect ==
    /\ client.state # "none" \/ pre.notify
    /\ ~conn.halt
    /\ QueueRestart
    /\ UNCHANGED <<enable_cache, pre, client>>

Stop ==
    /\ ~conn.halt
    /\ conn' = [conn EXCEPT !.halt = TRUE, !.restart = FALSE]
    /\ client' = [client EXCEPT !.state = IF @ = "none" THEN "none" ELSE "halted"]
    /\ pre' = [notify |-> FALSE, index |-> 0, asking |-> "none"]
    /\ UNCHANGED <<enable_cache, list, index>>

-----------------------------------------------------------------------------

Next ==
    \/ Start \/ PreResolved
    \/ ClientResolved \/ Connects \/ Fails
    \/ ServerPoll \/ RestartWait
    \/ Pause \/ Resume \/ Reconnect \/ Stop

Spec == Init /\ [][Next]_vars

\* Name resolution ends, an attempt ends at the latest with the server poll,
\* and the restart timer expires.
Fairness ==
    /\ WF_vars(Start)
    /\ WF_vars(PreResolved)
    /\ WF_vars(ClientResolved)
    /\ WF_vars(ServerPoll)
    /\ WF_vars(RestartWait)

FairSpec == Spec /\ Fairness

-----------------------------------------------------------------------------

\* The index never leaves the list, whatever was pruned, reset or resolved
\* meanwhile: reset_item() checks "i <= list.size()" (remotelist.hpp:756), one
\* too many, and primary_index() would throw in the middle of a restart.
IndexInRange == index.primary < Len(list)

\* The addresses cached with an item are those of its own host, and a session
\* contacts an address of the server that the list is at: no resolution that
\* ends late, no sharing between items and no pruning mixes them up.
AddressesOfHost ==
    /\ \A i \in 1..Len(list) : IsDefined(list[i]) => list[i].res_addr_list.host = list[i].host
    /\ client.state \in {"resolving", "contacting"} =>
          client.host = list[index.primary + 1].host

Trying(i) ==
    /\ client.state \in {"resolving", "contacting"}
    /\ list[index.primary + 1].remote = i

\* "remote list rotation" (cliconnect.hpp:67): as long as no server connects,
\* every server of the list gets its turn again and again.
EveryRemoteTried ==
    \A i \in 1..Len(Remotes) :
        []<>(\/ Trying(i)
             \/ \A k \in 1..Len(list) : list[k].remote # i
             \/ client.state = "connected" \/ conn.halt \/ conn.paused)

\* With the names resolved in advance the rotation is complete.
CachedRotation == enable_cache => EveryRemoteTried

=============================================================================
