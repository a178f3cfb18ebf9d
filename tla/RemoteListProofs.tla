-------------------------- MODULE RemoteListProofs --------------------------
(***************************************************************************)
(* Proofs about RemoteList, for every profile and any number of addresses: *)
(* however resolutions in advance, sessions, restarts and the calls of the *)
(* application interleave, the index stays in the list and an address      *)
(* stays with the host it belongs to.                                      *)
(*                                                                         *)
(* The list shrinks in one place, at the end of PreResolve, and the index  *)
(* goes back to its front there.  Everything else keeps the items and      *)
(* their hosts in their places (SameHosts): a name that is being resolved, *)
(* by PreResolve or by a session, still is the one of its item when the    *)
(* answer comes.                                                           *)
(***************************************************************************)
EXTENDS RemoteList, TLAPS, FiniteSetTheorems, SequenceTheorems, WellFoundedInduction

Indices == [primary : 0..Len(Remotes), secondary : 0..(MaxAddrs - 1)]

\* A list whose addresses are with their hosts.
Sound(l) ==
    /\ l \in Seq(Items)
    /\ Len(l) \in 1..Len(Remotes)
    /\ \A i \in 1..Len(l) : IsDefined(l[i]) => l[i].res_addr_list.host = l[i].host

\* The list and the index belong together.
Good(r) ==
    /\ r \in [list : Seq(Items), index : Indices]
    /\ Sound(r.list)
    /\ r.index.primary < Len(r.list)

SameHosts(l, m) ==
    Len(m) = Len(l) /\ \A i \in 1..Len(l) : m[i].host = l[i].host

Clients ==
    [state : {"none", "resolving", "contacting", "connected", "halted"},
     reached : BOOLEAN, host : Host, secondary : 0..(MaxAddrs - 1)]

\* A session that is looking for its server is at the item of the index.
AtItem(c, r) ==
    c.state \in {"resolving", "contacting"} => c.host = r.list[r.index.primary + 1].host

PreResolves == [notify : BOOLEAN, index : 0..Len(Remotes), asking : Host]

\* What PreResolve has asked for is the name of the item it is at.
Asks(p, l) ==
    p.asking # "none" =>
        p.notify /\ p.index < Len(l) /\ p.asking = l[p.index + 1].host

Conns == [started : BOOLEAN, halt : BOOLEAN, paused : BOOLEAN, restart : BOOLEAN]

IInv ==
    /\ TypeOK
    /\ Good(Here)
    /\ AtItem(client, Here)
    /\ Asks(pre, list)

-----------------------------------------------------------------------------
(* Numbers and sequences.                                                  *)

\* The least-number principle, for sets.
LEMMA LeastNatural ==
    ASSUME NEW T \in SUBSET Nat, T # {}
    PROVE  \E m \in T : \A k \in T : m <= k
  <1> DEFINE R == {ss \in Nat \X Nat : ss[1] < ss[2]}
  <1>1. IsWellFoundedOn(R, Nat)
    BY NatLessThanWellFounded DEF OpToRel
  <1> HIDE DEF R
  <1>2. PICK m \in T : \A k \in T : ~(<<k, m>> \in R)
    BY <1>1, WFMin
  <1> SUFFICES ASSUME NEW k \in T PROVE m <= k
    BY <1>2
  <1>3. ~(<<k, m>> \in R) /\ k \in Nat /\ m \in Nat
    BY <1>2
  <1>4. ~(k < m)
    BY <1>3 DEF R
  <1> QED BY <1>3, <1>4

LEMMA UpTo ==
    ASSUME NEW n \in Nat
    PROVE  IsFiniteSet(1..n) /\ Cardinality(1..n) = n
  <1>1. /\ IsFiniteSet(1..n)
        /\ Cardinality(1..n) = IF 1 > n THEN 0 ELSE n - 1 + 1
    BY FS_Interval
  <1> QED BY <1>1

LEMMA Bounds ==
    /\ Remotes \in Seq(Hosts) /\ Len(Remotes) \in Nat /\ Len(Remotes) >= 1
    /\ MaxAddrs \in Nat /\ MaxAddrs >= 1 /\ 0 \in 0..(MaxAddrs - 1)
    /\ "none" \notin Hosts /\ NoAddrs \in AddrLists /\ NoAddrs.size = 0
  <1>1. Remotes \in Seq(Hosts) /\ Remotes # <<>> /\ MaxAddrs \in Nat \ {0} /\ "none" \notin Hosts
    BY RemotesAssumption
  <1>2. Len(Remotes) \in Nat /\ Len(Remotes) # 0
    BY <1>1, EmptySeq
  <1> QED BY <1>1, <1>2 DEF NoAddrs, AddrLists, Host

\* An item of the list.
LEMMA ItemOk ==
    ASSUME NEW l, Sound(l), NEW i \in 1..Len(l)
    PROVE  /\ l[i] \in Items /\ l[i].host \in Hosts /\ l[i].host # "none"
           /\ l[i].res_addr_list \in AddrLists /\ l[i].res_addr_list.size \in 0..MaxAddrs
           /\ IsDefined(l[i]) => l[i].res_addr_list.host = l[i].host
  <1>1. l[i] \in Items /\ (IsDefined(l[i]) => l[i].res_addr_list.host = l[i].host)
    BY DEF Sound
  <1>2. l[i].host \in Hosts /\ l[i].host # "none" /\ l[i].res_addr_list \in AddrLists
    BY <1>1, Bounds DEF Items
  <1> QED BY <1>1, <1>2 DEF AddrLists

\* A list is changed item by item, and each keeps its host.
LEMMA RemadeOk ==
    ASSUME NEW l, Sound(l), NEW m, DOMAIN m = 1..Len(l), m = [i \in 1..Len(l) |-> m[i]],
           \A i \in 1..Len(l) :
               /\ m[i] \in Items /\ m[i].host = l[i].host
               /\ IsDefined(m[i]) => m[i].res_addr_list.host = l[i].host
    PROVE  Sound(m) /\ SameHosts(l, m)
  <1>1. Len(l) \in Nat
    BY DEF Sound
  <1>2. m \in [1..Len(l) -> Items]
    OBVIOUS
  <1>3. m \in Seq(Items) /\ Len(m) = Len(l)
    BY <1>1, <1>2
  <1> QED BY <1>3 DEF Sound, SameHosts

\* One item is changed.
LEMMA ItemChangedOk ==
    ASSUME NEW l, Sound(l), NEW k \in 1..Len(l), NEW a \in AddrLists,
           a.size > 0 => a.host = l[k].host
    PROVE  LET m == [l EXCEPT ![k].res_addr_list = a]
           IN  Sound(m) /\ SameHosts(l, m)
  <1> DEFINE b == [l[k] EXCEPT !.res_addr_list = a]
             m == [l EXCEPT ![k] = b]
  <1>1. b \in Items /\ b.host = l[k].host /\ b.res_addr_list = a
    BY ItemOk DEF Items
  <1>2. l \in Seq(Items) /\ Len(l) \in Nat /\ DOMAIN l = 1..Len(l)
    BY DEF Sound
  <1> HIDE DEF b
  <1>3. DOMAIN m = 1..Len(l) /\ m = [i \in 1..Len(l) |-> m[i]]
        /\ \A i \in 1..Len(l) : m[i] = IF i = k THEN b ELSE l[i]
    BY <1>2
  <1> HIDE DEF m
  <1>4. \A i \in 1..Len(l) :
            /\ m[i] \in Items /\ m[i].host = l[i].host
            /\ IsDefined(m[i]) => m[i].res_addr_list.host = l[i].host
    BY <1>1, <1>3, ItemOk DEF IsDefined
  <1>5. Sound(m) /\ SameHosts(l, m)
    BY <1>3, <1>4, RemadeOk
  <1> QED BY <1>5 DEF m, b

-----------------------------------------------------------------------------
(* The operations of RemoteList.                                           *)

LEMMA ResetItemOk ==
    ASSUME NEW r, Good(r), NEW i \in Nat
    PROVE  LET q == ResetItem(r, i)
           IN  Good(q) /\ SameHosts(r.list, q.list) /\ q.index = r.index
  <1>1. CASE i < Len(r.list)
    <2> DEFINE m == [r.list EXCEPT ![i + 1].res_addr_list = NoAddrs]
    <2>1. Sound(r.list) /\ i + 1 \in 1..Len(r.list)
      BY <1>1 DEF Good, Sound
    <2>2. Sound(m) /\ SameHosts(r.list, m)
      BY <2>1, Bounds, ItemChangedOk
    <2>3. ResetItem(r, i) = [r EXCEPT !.list = m]
      BY <1>1 DEF ResetItem
    <2> HIDE DEF m
    <2>4. m \in Seq(Items) /\ Len(m) = Len(r.list)
      BY <2>2 DEF Sound, SameHosts
    <2> QED BY <2>2, <2>3, <2>4 DEF Good
  <1>2. CASE ~(i < Len(r.list))
    BY <1>2 DEF ResetItem, SameHosts, Good
  <1> QED BY <1>1, <1>2

LEMMA ResetCacheItemOk ==
    ASSUME NEW r, Good(r)
    PROVE  LET q == ResetCacheItem(r)
           IN  Good(q) /\ SameHosts(r.list, q.list) /\ q.index = r.index
  <1>1. r.index.primary \in Nat
    BY Bounds DEF Good, Indices
  <1>2. CASE enable_cache
    BY <1>2 DEF ResetCacheItem, SameHosts
  <1>3. CASE ~enable_cache
    BY <1>1, <1>3, ResetItemOk DEF ResetCacheItem
  <1> QED BY <1>2, <1>3

\* The number of addresses of an item that the list has.
LEMMA SecondaryLengthOk ==
    ASSUME NEW r, Good(r)
    PROVE  /\ SecondaryLength(r, r.index.primary) \in 0..MaxAddrs
           /\ SecondaryLength(r, r.index.primary) = Current(r).res_addr_list.size
           /\ r.index.primary + 1 \in 1..Len(r.list)
           /\ Current(r) = r.list[r.index.primary + 1]
  <1>1. Sound(r.list) /\ r.index.primary + 1 \in 1..Len(r.list)
    BY Bounds DEF Good, Sound, Indices
  <1> QED BY <1>1, ItemOk DEF SecondaryLength, Current, Good

\* The next address, or the first one of the next item.
LEMMA NextRemoteOk ==
    ASSUME NEW r, Good(r)
    PROVE  Good(NextRemote(r)) /\ SameHosts(r.list, NextRemote(r).list)
  <1> DEFINE n == SecondaryLength(r, r.index.primary)
             ix == Increment(r.index, Len(r.list), n)
             q == [r EXCEPT !.index = ix]
  <1>1. n \in 0..MaxAddrs
    BY SecondaryLengthOk
  <1> HIDE DEF n
  <1>2. r \in [list : Seq(Items), index : Indices] /\ Len(r.list) \in 1..Len(Remotes)
        /\ r.index.primary \in Nat /\ r.index.primary < Len(r.list)
        /\ r.index.secondary \in Nat
    BY Bounds DEF Good, Sound, Indices
  <1>3. ix \in Indices /\ ix.primary < Len(r.list)
    <2>1. CASE r.index.secondary + 1 < n
      <3>1. ix = [r.index EXCEPT !.secondary = @ + 1]
        BY <2>1 DEF Increment
      <3>2. r.index.secondary + 1 \in 0..(MaxAddrs - 1)
        BY <1>1, <1>2, <2>1, Bounds
      <3> QED BY <1>2, <3>1, <3>2 DEF Indices
    <2>2. CASE ~(r.index.secondary + 1 < n)
      <3>1. ix = [primary |-> IF r.index.primary + 1 < Len(r.list)
                              THEN r.index.primary + 1 ELSE 0,
                  secondary |-> 0]
        BY <2>2 DEF Increment
      <3> QED BY <1>2, <3>1, Bounds DEF Indices
    <2> QED BY <2>1, <2>2
  <1> HIDE DEF ix
  <1>4. Good(q) /\ q.list = r.list
    BY <1>2, <1>3 DEF Good
  <1>5. NextRemote(r) = ResetCacheItem(q)
    BY DEF NextRemote, ix, n
  <1> HIDE DEF q
  <1> QED BY <1>4, <1>5, ResetCacheItemOk

\* Addresses of the current host are stored.
LEMMA SetEndpointRangeOk ==
    ASSUME NEW r, Good(r), NEW n \in 1..MaxAddrs
    PROVE  LET q == SetEndpointRange(r, r.list[r.index.primary + 1].host, n)
           IN  /\ Good(q) /\ SameHosts(r.list, q.list)
               /\ q.index.primary = r.index.primary /\ q.index.secondary = 0
  <1> DEFINE k == r.index.primary + 1
             a == [host |-> r.list[k].host, size |-> n]
             m == [r.list EXCEPT ![k].res_addr_list = a]
             ix == [r.index EXCEPT !.secondary = 0]
  <1>1. Sound(r.list) /\ k \in 1..Len(r.list)
    BY SecondaryLengthOk DEF Good
  <1>2. a \in AddrLists /\ a.host = r.list[k].host
    BY <1>1, ItemOk, Bounds DEF AddrLists, Host
  <1> HIDE DEF a
  <1>3. Sound(m) /\ SameHosts(r.list, m)
    BY <1>1, <1>2, ItemChangedOk
  <1>4. SetEndpointRange(r, r.list[k].host, n) = [list |-> m, index |-> ix]
    BY DEF SetEndpointRange, a
  <1> HIDE DEF m
  <1>5. ix \in Indices /\ ix.primary = r.index.primary /\ ix.secondary = 0
    BY Bounds DEF Good, Indices
  <1> HIDE DEF ix
  <1>6. m \in Seq(Items) /\ Len(m) = Len(r.list)
    BY <1>3 DEF Sound, SameHosts
  <1> QED BY <1>3, <1>4, <1>5, <1>6 DEF Good

\* A session starts at the item of the index.
LEMMA StartedOk ==
    ASSUME NEW r, Good(r)
    PROVE  Started(r) \in Clients /\ AtItem(Started(r), r)
  <1> DEFINE item == Current(r)
  <1>1. /\ SecondaryLength(r, r.index.primary) = item.res_addr_list.size
        /\ r.index.primary + 1 \in 1..Len(r.list) /\ r.index.primary < Len(r.list)
        /\ item = r.list[r.index.primary + 1] /\ Sound(r.list)
        /\ r.index.secondary \in 0..(MaxAddrs - 1) /\ r.index.secondary \in Nat
    BY SecondaryLengthOk, Bounds DEF Good, Indices
  <1>2. /\ item.host \in Host /\ item.res_addr_list.size \in Nat
        /\ item.res_addr_list.size > 0 => item.res_addr_list.host = item.host
    BY <1>1, ItemOk DEF IsDefined, Host
  <1> HIDE DEF item
  <1>3. CASE EndpointAvailable(r)
    <2>1. Started(r) = Session("contacting", item.res_addr_list.host, r.index.secondary)
      BY <1>3 DEF Started, item
    <2>2. item.res_addr_list.host = item.host
      BY <1>1, <1>2, <1>3 DEF EndpointAvailable
    <2> QED BY <1>1, <1>2, <2>1, <2>2 DEF Session, Clients, AtItem
  <1>4. CASE ~EndpointAvailable(r)
    <2>1. Started(r) = Session("resolving", item.host, 0)
      BY <1>1, <1>4 DEF Started, item
    <2> QED BY <1>1, <1>2, <2>1, Bounds DEF Session, Clients, AtItem
  <1> QED BY <1>3, <1>4

\* new_client: what the list and the session are afterwards.
LEMMA NewClientOk ==
    ASSUME NEW r, Good(r), NewClient(r)
    PROVE  /\ Good(Here') /\ SameHosts(r.list, list')
           /\ client' \in Clients /\ AtItem(client', Here')
  <1> DEFINE q == Rotated(r)
  <1>1. Good(q) /\ SameHosts(r.list, q.list)
    BY NextRemoteOk DEF Rotated, SameHosts
  <1>2. list' = q.list /\ index' = q.index /\ client' = Started(q)
    BY DEF NewClient, Remember
  <1> HIDE DEF q
  <1>3. Here' = q
    BY <1>1, <1>2 DEF Here, Good
  <1> QED BY <1>1, <1>2, <1>3, StartedOk

-----------------------------------------------------------------------------
(* PreResolve.                                                             *)

\* A search for the next name ends, at the latest behind the list.
LEMMA ToResolveOk ==
    ASSUME NEW l, Sound(l), NEW i \in 0..Len(l)
    PROVE  LET j == ToResolve(l, i)
           IN  /\ j \in (i + 1)..(Len(l) + 1)
               /\ \A k \in (i + 1)..(j - 1) : Cached(l, l[k].host)
  <1> DEFINE P(j) == j <= Len(l) => ~Cached(l, l[j].host)
             T == {j \in (i + 1)..(Len(l) + 1) : P(j)}
  <1>1. Len(l) \in Nat /\ i \in Nat /\ i <= Len(l)
    BY DEF Sound
  <1>2. Len(l) + 1 \in T /\ T \in SUBSET Nat
    BY <1>1
  <1> HIDE DEF P
  <1>3. PICK j \in T : \A k \in T : j <= k
    BY <1>2, LeastNatural
  <1>4. \A k \in (i + 1)..(j - 1) : Cached(l, l[k].host)
    <2> SUFFICES ASSUME NEW k \in (i + 1)..(j - 1) PROVE Cached(l, l[k].host)
      OBVIOUS
    <2>1. k \in (i + 1)..(Len(l) + 1) /\ k < j /\ j \in Nat
      BY <1>1, <1>3
    <2>2. k \notin T
      BY <1>3, <2>1
    <2> QED BY <2>1, <2>2 DEF P
  <1>5. \E m \in (i + 1)..(Len(l) + 1) : P(m) /\ \A k \in (i + 1)..(m - 1) : Cached(l, l[k].host)
    BY <1>3, <1>4
  <1> QED BY <1>5 DEF ToResolve, P

\* Items whose host is known take its addresses.
LEMMA ShareCachedOk ==
    ASSUME NEW l, Sound(l), NEW i \in 0..Len(l), NEW j \in (i + 1)..(Len(l) + 1),
           \A k \in (i + 1)..(j - 1) : Cached(l, l[k].host)
    PROVE  Sound(ShareCached(l, i, j)) /\ SameHosts(l, ShareCached(l, i, j))
  <1> DEFINE source(k) == CHOOSE n \in 1..Len(l) : l[n].host = l[k].host /\ IsDefined(l[n])
             taken(k) == [l[k] EXCEPT !.res_addr_list = l[source(k)].res_addr_list]
             m == ShareCached(l, i, j)
  <1>1. m = [k \in 1..Len(l) |-> IF k > i /\ k < j /\ ~IsDefined(l[k]) THEN taken(k) ELSE l[k]]
    BY DEF ShareCached
  <1>2. ASSUME NEW k \in 1..Len(l), k > i, k < j
        PROVE  /\ taken(k) \in Items /\ taken(k).host = l[k].host
               /\ taken(k).res_addr_list.host = l[k].host
    <2>1. Len(l) \in Nat /\ k \in (i + 1)..(j - 1)
      BY <1>2 DEF Sound
    <2>2. \E n \in 1..Len(l) : l[n].host = l[k].host /\ IsDefined(l[n])
      BY <2>1 DEF Cached
    <2>3. /\ source(k) \in 1..Len(l) /\ l[source(k)].host = l[k].host
          /\ IsDefined(l[source(k)])
      BY <2>2
    <2> DEFINE a == l[source(k)].res_addr_list
    <2>4. a \in AddrLists /\ a.host = l[k].host
      BY <2>3, ItemOk
    <2>5. taken(k) = [l[k] EXCEPT !.res_addr_list = a]
      OBVIOUS
    <2> HIDE DEF a, taken
    <2>6. l[k] \in Items
      BY ItemOk
    <2> QED BY <2>4, <2>5, <2>6 DEF Items
  <1> HIDE DEF m, taken
  <1>3. DOMAIN m = 1..Len(l) /\ m = [k \in 1..Len(l) |-> m[k]]
    BY <1>1
  <1>4. \A k \in 1..Len(l) :
            /\ m[k] \in Items /\ m[k].host = l[k].host
            /\ IsDefined(m[k]) => m[k].res_addr_list.host = l[k].host
    <2> SUFFICES ASSUME NEW k \in 1..Len(l)
                 PROVE  /\ m[k] \in Items /\ m[k].host = l[k].host
                        /\ IsDefined(m[k]) => m[k].res_addr_list.host = l[k].host
      OBVIOUS
    <2>1. CASE k > i /\ k < j /\ ~IsDefined(l[k])
      BY <1>1, <1>2, <2>1
    <2>2. CASE ~(k > i /\ k < j /\ ~IsDefined(l[k]))
      BY <1>1, <2>2, ItemOk
    <2> QED BY <2>1, <2>2
  <1> HIDE DEF source
  <1> QED BY <1>3, <1>4, RemadeOk DEF m

\* Each resolved item has its own rank, so that every rank is taken: what is
\* moved to the front are the resolved items and no others.
LEMMA NthOk ==
    ASSUME NEW l, Sound(l)
    PROVE  /\ Cardinality(Resolved(l)) \in 0..Len(l)
           /\ Resolved(l) # {} => Cardinality(Resolved(l)) # 0
           /\ \A n \in 1..Cardinality(Resolved(l)) : Nth(l, n) \in Resolved(l)
  <1> DEFINE D == Resolved(l)
             c == Cardinality(D)
             S(k) == {j \in D : j <= k}
             f == [k \in D |-> Rank(l, k)]
  <1>1. Len(l) \in Nat
    BY DEF Sound
  <1>2. /\ D \in SUBSET (1..Len(l)) /\ D \in SUBSET Nat
        /\ IsFiniteSet(1..Len(l)) /\ Cardinality(1..Len(l)) = Len(l)
    <2>1. IsFiniteSet(1..Len(l)) /\ Cardinality(1..Len(l)) = Len(l)
      BY <1>1, UpTo
    <2>2. D \in SUBSET (1..Len(l))
      BY DEF Resolved
    <2> QED BY <1>1, <2>1, <2>2
  <1> HIDE DEF D
  <1>3. IsFiniteSet(D) /\ c \in Nat /\ c <= Len(l) /\ (c = 0 <=> D = {})
    <2>1. IsFiniteSet(D) /\ Cardinality(D) <= Cardinality(1..Len(l))
      BY <1>2, FS_Subset
    <2>2. Cardinality(D) \in Nat /\ (Cardinality(D) = 0 <=> D = {})
      BY <2>1, FS_CardinalityType, FS_EmptySet
    <2> QED BY <1>2, <2>1, <2>2
  <1>4. \A k \in D : Rank(l, k) = Cardinality(S(k)) /\ S(k) \in SUBSET D /\ k \in S(k)
    BY <1>2 DEF Rank, D
  <1>5. \A k \in D : IsFiniteSet(S(k)) /\ Rank(l, k) \in 1..c
    <2> SUFFICES ASSUME NEW k \in D PROVE IsFiniteSet(S(k)) /\ Rank(l, k) \in 1..c
      OBVIOUS
    <2>1. IsFiniteSet(S(k)) /\ Cardinality(S(k)) <= c
      BY <1>3, <1>4, FS_Subset
    <2>2. Cardinality(S(k)) \in Nat /\ Cardinality(S(k)) # 0
      BY <1>4, <2>1, FS_CardinalityType, FS_EmptySet
    <2> QED BY <1>3, <1>4, <2>1, <2>2
  <1>6. \A j, k \in D : j < k => Rank(l, j) # Rank(l, k)
    <2> SUFFICES ASSUME NEW j \in D, NEW k \in D, j < k, Rank(l, j) = Rank(l, k)
                 PROVE  FALSE
      OBVIOUS
    <2>1. S(j) \in SUBSET S(k) /\ k \notin S(j) /\ k \in S(k)
      <3>1. \A i \in S(j) : i \in D /\ i \in Nat /\ i <= j
        BY <1>2
      <3>2. j \in Nat /\ k \in Nat
        BY <1>2
      <3>3. \A i \in S(j) : i <= k /\ i # k
        BY <3>1, <3>2
      <3> QED BY <1>4, <3>1, <3>3
    <2>2. S(j) = S(k)
      BY <1>4, <1>5, <2>1, FS_Subset
    <2> QED BY <2>1, <2>2
  <1>7. f \in Injection(D, 1..c)
    <2>1. f \in [D -> 1..c]
      BY <1>5
    <2>2. \A j, k \in D : f[j] = f[k] => j = k
      BY <1>2, <1>6
    <2> HIDE DEF f
    <2> QED BY <2>1, <2>2 DEF Injection, IsInjective
  <1>8. f \in Surjection(D, 1..c)
    <2>1. IsFiniteSet(1..c) /\ Cardinality(1..c) = c
      BY <1>3, UpTo
    <2> QED BY <1>7, <2>1, FS_Injection
  <1>9. \A n \in 1..c : \E k \in D : Rank(l, k) = n
    BY <1>8 DEF Surjection
  <1> HIDE DEF f, S, c
  <1>10. \A n \in 1..c : Nth(l, n) \in D
    BY <1>9 DEF Nth, D
  <1> QED BY <1>1, <1>3, <1>10 DEF D, c

LEMMA PruneUncachedOk ==
    ASSUME NEW r, Sound(r.list), Resolved(r.list) # {}
    PROVE  Good(PruneUncached(r))
  <1> DEFINE l == r.list
             c == Cardinality(Resolved(l))
             m == Compacted(l)
  <1>1. /\ c \in 1..Len(Remotes) /\ c \in Nat
        /\ \A n \in 1..c : Nth(l, n) \in 1..Len(l)
    <2>1. Len(l) \in 1..Len(Remotes) /\ c \in 0..Len(l) /\ c # 0
      BY NthOk DEF Sound
    <2>2. \A n \in 1..c : Nth(l, n) \in 1..Len(l)
      BY NthOk DEF Resolved
    <2> QED BY <2>1, <2>2, Bounds
  <1>2. \A n \in 1..c : l[Nth(l, n)] \in Items
                        /\ (IsDefined(l[Nth(l, n)]) =>
                               l[Nth(l, n)].res_addr_list.host = l[Nth(l, n)].host)
    BY <1>1, ItemOk
  <1>3. m = [n \in 1..c |-> l[Nth(l, n)]]
    BY DEF Compacted
  <1> HIDE DEF m, c
  <1>4. m \in [1..c -> Items]
    BY <1>2, <1>3
  <1>5. m \in Seq(Items) /\ Len(m) = c
    BY <1>1, <1>4
  <1>6. Sound(m)
    BY <1>1, <1>2, <1>3, <1>5 DEF Sound
  <1> DEFINE ix == [primary |-> 0, secondary |-> 0]
  <1>7. ix \in Indices /\ ix.primary = 0
    BY Bounds DEF Indices
  <1>8. PruneUncached(r) = [list |-> m, index |-> ix]
    BY DEF PruneUncached, m
  <1> HIDE DEF ix
  <1> QED BY <1>1, <1>5, <1>6, <1>7, <1>8 DEF Good

-----------------------------------------------------------------------------
(* Steps.                                                                  *)

LEMMA Parts ==
    IInv <=> /\ enable_cache \in BOOLEAN /\ conn \in Conns
             /\ Good(Here)
             /\ client \in Clients /\ AtItem(client, Here)
             /\ pre \in PreResolves /\ Asks(pre, list)
  BY DEF IInv, TypeOK, Good, Here, Indices, Conns, Clients, PreResolves

LEMMA PartsNext ==
    ASSUME enable_cache' \in BOOLEAN, conn' \in Conns, Good(Here'),
           client' \in Clients, AtItem(client', Here'),
           pre' \in PreResolves, Asks(pre', list')
    PROVE  IInv'
  BY DEF IInv, TypeOK, Good, Here, Indices, Conns, Clients, PreResolves

\* A session that goes on is at its item as long as the hosts stay.
LEMMA StaysAtItem ==
    ASSUME NEW c, NEW r, Good(r), AtItem(c, r), NEW q, SameHosts(r.list, q.list),
           q.index.primary = r.index.primary
    PROVE  AtItem(c, q)
  <1>1. r.index.primary + 1 \in 1..Len(r.list)
    BY SecondaryLengthOk
  <1> QED BY <1>1 DEF AtItem, SameHosts

\* So does a name that PreResolve has asked for.
LEMMA StillAsks ==
    ASSUME NEW p \in PreResolves, NEW l, Len(l) \in Nat, Asks(p, l), NEW m, SameHosts(l, m)
    PROVE  Asks(p, m)
  <1>1. CASE p.asking # "none"
    <2>1. p.index \in Nat /\ p.index < Len(l)
      BY <1>1, Bounds DEF Asks, PreResolves
    <2>2. p.index + 1 \in 1..Len(l)
      BY <2>1
    <2> QED BY <2>2 DEF Asks, SameHosts
  <1>2. CASE p.asking = "none"
    BY <1>2 DEF Asks
  <1> QED BY <1>1, <1>2

\* A new session, in a list as it was before.
LEMMA NewClientInv ==
    ASSUME IInv, NEW r, Good(r), SameHosts(list, r.list), NewClient(r),
           conn' \in Conns, UNCHANGED <<enable_cache, pre>>
    PROVE  IInv'
  <1>1. enable_cache \in BOOLEAN /\ pre \in PreResolves /\ Asks(pre, list) /\ Len(list) \in Nat
    BY Parts DEF Good, Sound, Here
  <1>2. /\ Good(Here') /\ SameHosts(r.list, list')
        /\ client' \in Clients /\ AtItem(client', Here')
    BY NewClientOk
  <1>3. SameHosts(list, list')
    BY <1>2 DEF SameHosts
  <1>4. Asks(pre, list')
    BY <1>1, <1>3, StillAsks
  <1> QED BY <1>1, <1>2, <1>4, PartsNext

\* Everything in place of the index and the list but addresses.
LEMMA RememberInv ==
    ASSUME IInv, NEW q, Good(q), SameHosts(list, q.list), q.index.primary = index.primary,
           Remember(q), client' \in Clients,
           client'.state \in {"resolving", "contacting"} =>
               client.state \in {"resolving", "contacting"} /\ client'.host = client.host,
           conn' \in Conns, UNCHANGED <<enable_cache, pre>>
    PROVE  IInv'
  <1>1. /\ enable_cache \in BOOLEAN /\ pre \in PreResolves /\ Asks(pre, list)
        /\ Len(list) \in Nat /\ Good(Here) /\ AtItem(client, Here)
    BY Parts DEF Good, Sound, Here
  <1>2. Here' = q /\ list' = q.list
    BY DEF Remember, Here, Good
  <1>3. AtItem(client', Here)
    BY <1>1 DEF AtItem
  <1>4. AtItem(client', q)
    BY <1>1, <1>3, StaysAtItem DEF Here
  <1>5. Asks(pre, list')
    BY <1>1, <1>2, StillAsks
  <1> QED BY <1>1, <1>2, <1>4, <1>5, PartsNext

\* PreResolve goes on in a list l that the answer has made of `list`.
LEMMA PreResolveNextInv ==
    ASSUME IInv, NEW l, Sound(l), SameHosts(list, l), NEW i \in 0..Len(l),
           PreResolveNext(l, i), UNCHANGED enable_cache
    PROVE  IInv'
  <1> DEFINE j == ToResolve(l, i)
             shared == ShareCached(l, i, j)
             r == [list |-> shared, index |-> index]
  <1>1. /\ enable_cache \in BOOLEAN /\ conn \in Conns /\ Good(Here)
        /\ client \in Clients /\ AtItem(client, Here)
    BY Parts
  <1>2. /\ j \in (i + 1)..(Len(l) + 1)
        /\ \A k \in (i + 1)..(j - 1) : Cached(l, l[k].host)
    BY ToResolveOk
  <1>3. Sound(shared) /\ SameHosts(l, shared)
    BY <1>2, ShareCachedOk
  <1>4. /\ j <= Len(l) => /\ Remember(r)
                          /\ pre' = [notify |-> TRUE, index |-> j - 1, asking |-> l[j].host]
                          /\ UNCHANGED <<client, conn>>
        /\ ~(j <= Len(l)) =>
              /\ pre' = [notify |-> FALSE, index |-> 0, asking |-> "none"]
              /\ NewClient(IF Resolved(shared) # {} THEN PruneUncached(r) ELSE r)
              /\ conn' = [conn EXCEPT !.started = TRUE, !.restart = FALSE]
    BY DEF PreResolveNext
  <1> HIDE DEF j, shared
  <1>5. SameHosts(list, shared) /\ Len(l) \in Nat /\ i \in Nat
    BY <1>3 DEF SameHosts, Sound
  <1>6. Good(r)
    <2>1. Len(shared) = Len(list)
      BY <1>5 DEF SameHosts
    <2> QED BY <1>1, <1>3, <2>1 DEF Good, Here, Sound
  <1>7. CASE j <= Len(l)
    <2>1. Here' = r /\ list' = shared
      BY <1>4, <1>7 DEF Remember, Here
    <2>2. AtItem(client, r)
      BY <1>1, <1>5, StaysAtItem DEF Here
    <2>3. j \in 1..Len(l) /\ j - 1 \in 0..Len(Remotes) /\ j - 1 < Len(l) /\ (j - 1) + 1 = j
      BY <1>2, <1>5, <1>7 DEF Sound
    <2>4. l[j].host \in Hosts
      BY <2>3, ItemOk
    <2>5. pre' \in PreResolves
      <3>1. pre' = [notify |-> TRUE, index |-> j - 1, asking |-> l[j].host]
        BY <1>4, <1>7
      <3>2. l[j].host \in Host
        BY <2>4 DEF Host
      <3> QED BY <2>3, <3>1, <3>2 DEF PreResolves
    <2>6. pre'.notify /\ pre'.index = j - 1 /\ pre'.asking = l[j].host
      BY <1>4, <1>7
    <2>7. Asks(pre', shared)
      BY <1>3, <2>3, <2>6 DEF Asks, SameHosts
    <2> QED BY <1>1, <1>4, <1>6, <1>7, <2>1, <2>2, <2>5, <2>7, PartsNext
  <1>8. CASE ~(j <= Len(l))
    <2> DEFINE q == IF Resolved(shared) # {} THEN PruneUncached(r) ELSE r
    <2>1. Good(q)
      BY <1>3, <1>6, PruneUncachedOk
    <2> HIDE DEF q
    <2>2. NewClient(q)
      BY <1>4, <1>8 DEF q
    <2>3. Good(Here') /\ client' \in Clients /\ AtItem(client', Here')
      BY <2>1, <2>2, NewClientOk
    <2>4. pre' \in PreResolves /\ Asks(pre', list')
      <3>1. pre' = [notify |-> FALSE, index |-> 0, asking |-> "none"]
        BY <1>4, <1>8
      <3>2. "none" \in Host /\ 0 \in 0..Len(Remotes)
        BY Bounds DEF Host
      <3> QED BY <3>1, <3>2 DEF PreResolves, Asks
    <2>5. conn' \in Conns
      BY <1>1, <1>4, <1>8 DEF Conns
    <2> QED BY <1>1, <2>3, <2>4, <2>5, PartsNext
  <1> QED BY <1>7, <1>8

LEMMA NextInv ==
    ASSUME IInv, [Next]_vars
    PROVE  IInv'
  <1>0. /\ enable_cache \in BOOLEAN /\ conn \in Conns /\ Good(Here) /\ Sound(list)
        /\ client \in Clients /\ AtItem(client, Here) /\ SameHosts(list, list)
        /\ pre \in PreResolves /\ Asks(pre, list) /\ Len(list) \in Nat
        /\ Here.list = list /\ Here.index = index /\ Len(list) \in 1..Len(Remotes)
    BY Parts DEF Good, Here, SameHosts, Sound
  <1> DEFINE cut == ResetCacheItem(Here)
  <1>c. /\ Good(cut) /\ SameHosts(list, cut.list) /\ cut.index = index
    BY <1>0, ResetCacheItemOk
  <1> HIDE DEF cut
  <1>1. CASE Start
    <2>1. CASE enable_cache
      <3>1. PreResolveNext(list, 0) /\ 0 \in 0..Len(list) /\ UNCHANGED enable_cache
        BY <1>0, <1>1, <2>1 DEF Start
      <3> QED BY <1>0, <3>1, PreResolveNextInv
    <2>2. CASE ~enable_cache
      <3>1. NewClient(Here) /\ conn' \in Conns /\ UNCHANGED <<enable_cache, pre>>
        BY <1>0, <1>1, <2>2 DEF Start, Conns
      <3> QED BY <1>0, <3>1, NewClientInv
    <2> QED BY <2>1, <2>2
  <1>2. CASE PreResolved
    <2> DEFINE a(n) == [host |-> pre.asking, size |-> n]
               l(n) == IF n = 0 THEN list
                       ELSE [list EXCEPT ![pre.index + 1].res_addr_list = a(n)]
    <2>1. PICK n \in 0..MaxAddrs : PreResolveNext(l(n), pre.index + 1)
      BY <1>2 DEF PreResolved
    <2>2. /\ pre.asking # "none" /\ pre.index \in Nat /\ pre.index < Len(list)
          /\ pre.asking = list[pre.index + 1].host /\ pre.index + 1 \in 1..Len(list)
          /\ UNCHANGED enable_cache /\ pre.asking \in Host
      BY <1>0, <1>2, Bounds DEF PreResolved, Asks, PreResolves
    <2>3. a(n) \in AddrLists /\ a(n).host = list[pre.index + 1].host
      BY <2>2, Bounds DEF AddrLists
    <2>4. Sound(l(n)) /\ SameHosts(list, l(n))
      <3> HIDE DEF a
      <3>1. CASE n = 0
        BY <1>0, <3>1
      <3>2. CASE n # 0
        BY <1>0, <2>2, <2>3, <3>2, ItemChangedOk
      <3> QED BY <3>1, <3>2
    <2> HIDE DEF l
    <2>5. pre.index + 1 \in 0..Len(l(n))
      BY <1>0, <2>2, <2>4 DEF SameHosts
    <2> QED BY <2>1, <2>2, <2>4, <2>5, PreResolveNextInv
  <1>3. CASE ClientResolved
    <2>1. client.state = "resolving" /\ UNCHANGED <<enable_cache, pre>>
      BY <1>3 DEF ClientResolved
    <2>2. ASSUME NEW n \in 1..MaxAddrs,
                 Remember(SetEndpointRange(Here, client.host, n)),
                 client' = [client EXCEPT !.state = "contacting", !.secondary = index'.secondary],
                 UNCHANGED conn
          PROVE  IInv'
      <3> DEFINE q == SetEndpointRange(Here, client.host, n)
      <3>1. client.host = Here.list[Here.index.primary + 1].host
        BY <1>0, <2>1 DEF AtItem
      <3>2. /\ Good(q) /\ SameHosts(list, q.list)
            /\ q.index.primary = index.primary /\ q.index.secondary = 0
        BY <1>0, <3>1, SetEndpointRangeOk
      <3>3. Remember(q) /\ index'.secondary = 0
        BY <2>2, <3>2 DEF Remember
      <3>4. client' \in Clients /\ client'.host = client.host
        BY <1>0, <2>2, <3>3, Bounds DEF Clients
      <3> HIDE DEF q
      <3> QED BY <1>0, <2>1, <2>2, <3>2, <3>3, <3>4, RememberInv
    <2>3. ASSUME client' = [client EXCEPT !.state = "halted"], QueueRestart
          PROVE  IInv'
      <3>1. Remember(cut) /\ conn' \in Conns
        BY <1>0, <2>3 DEF QueueRestart, Conns, cut
      <3>2. client' \in Clients /\ client'.state = "halted"
        BY <1>0, <2>3 DEF Clients
      <3> QED BY <1>c, <2>1, <3>1, <3>2, RememberInv
    <2> QED BY <1>3, <2>2, <2>3 DEF ClientResolved
  <1>4. CASE Connects
    <2>1. client' \in Clients /\ client'.state = "connected"
          /\ UNCHANGED <<enable_cache, list, index, pre, conn>>
      BY <1>0, <1>4 DEF Connects, Clients
    <2>2. Remember(Here)
      BY <2>1 DEF Remember, Here
    <2> QED BY <1>0, <2>1, <2>2, RememberInv
  <1>5. CASE Fails
    <2>1. Remember(cut) /\ conn' \in Conns /\ UNCHANGED <<enable_cache, pre>>
      BY <1>0, <1>5 DEF Fails, QueueRestart, Conns, cut
    <2>2. client' \in Clients /\ client'.state = "halted"
      BY <1>0, <1>5 DEF Fails, Clients
    <2> QED BY <1>c, <2>1, <2>2, RememberInv
  <1>6. CASE ServerPoll
    <2>1. NewClient(Here) /\ conn' \in Conns /\ UNCHANGED <<enable_cache, pre>>
      BY <1>0, <1>6 DEF ServerPoll, Conns
    <2> QED BY <1>0, <2>1, NewClientInv
  <1>7. CASE RestartWait
    <2>1. NewClient(IF conn.paused THEN cut ELSE Here) /\ conn' \in Conns
          /\ UNCHANGED <<enable_cache, pre>>
      BY <1>0, <1>7 DEF RestartWait, Resumes, Conns, cut
    <2> QED BY <1>0, <1>c, <2>1, NewClientInv
  <1>8. CASE Pause
    <2>1. conn' \in Conns /\ UNCHANGED <<enable_cache, list, index, pre>>
      BY <1>0, <1>8 DEF Pause, Conns
    <2>2. client' \in Clients /\ client'.state \in {"none", "halted"}
      BY <1>0, <1>8 DEF Pause, Clients
    <2>3. Remember(Here)
      BY <2>1 DEF Remember, Here
    <2> QED BY <1>0, <2>1, <2>2, <2>3, RememberInv
  <1>9. CASE Resume
    <2>1. NewClient(cut) /\ conn' \in Conns /\ UNCHANGED <<enable_cache, pre>>
      BY <1>0, <1>9 DEF Resume, Resumes, Conns, cut
    <2> QED BY <1>c, <2>1, NewClientInv
  <1>10. CASE Reconnect
    <2>1. Remember(cut) /\ conn' \in Conns /\ UNCHANGED <<enable_cache, pre, client>>
      BY <1>0, <1>10 DEF Reconnect, QueueRestart, Conns, cut
    <2> QED BY <1>0, <1>c, <2>1, RememberInv
  <1>11. CASE Stop
    <2>1. conn' \in Conns /\ UNCHANGED <<enable_cache, list, index>>
      BY <1>0, <1>11 DEF Stop, Conns
    <2>2. client' \in Clients /\ client'.state \in {"none", "halted"}
      BY <1>0, <1>11 DEF Stop, Clients
    <2>3. pre' \in PreResolves /\ Asks(pre', list')
      BY <1>11, Bounds DEF Stop, PreResolves, Asks, Host
    <2>4. Good(Here') /\ AtItem(client', Here')
      BY <1>0, <2>1, <2>2 DEF Here, AtItem
    <2> QED BY <1>0, <2>1, <2>2, <2>3, <2>4, PartsNext
  <1>12. CASE UNCHANGED vars
    BY <1>12 DEF vars, IInv, TypeOK, Good, Here, AtItem, Asks
  <1> QED BY <1>1, <1>2, <1>3, <1>4, <1>5, <1>6, <1>7, <1>8, <1>9, <1>10, <1>11, <1>12 DEF Next

-----------------------------------------------------------------------------
(* Theorems.                                                               *)

\* The list, its index, what PreResolve has asked for and the session's
\* server belong together in every state.
THEOREM RemotesInductive == Spec => []IInv
  <1>1. Init => IInv
    <2> SUFFICES ASSUME Init PROVE IInv
      OBVIOUS
    <2> DEFINE item(i) == [remote |-> i, host |-> Remotes[i], res_addr_list |-> NoAddrs]
    <2>1. list = [i \in 1..Len(Remotes) |-> item(i)] /\ Len(Remotes) \in Nat
      BY Bounds DEF Init, InitialList
    <2>2. \A i \in 1..Len(Remotes) : item(i) \in Items /\ ~IsDefined(item(i))
      BY Bounds DEF Items, IsDefined
    <2> HIDE DEF item
    <2>3. list \in Seq(Items) /\ Len(list) = Len(Remotes)
      BY <2>1, <2>2
    <2>4. Sound(list)
      BY <2>1, <2>2, <2>3, Bounds DEF Sound
    <2>5. index \in Indices /\ index.primary = 0
      BY Bounds DEF Init, Indices
    <2>6. Good(Here)
      BY <2>3, <2>4, <2>5, Bounds DEF Good, Here
    <2>7. client \in Clients /\ client.state = "none" /\ conn \in Conns
          /\ enable_cache \in BOOLEAN /\ pre \in PreResolves /\ pre.asking = "none"
      BY Bounds DEF Init, Clients, Conns, PreResolves, Host
    <2> QED BY <2>6, <2>7, Parts DEF AtItem, Asks
  <1> QED BY <1>1, NextInv, PTL DEF Spec

\* The fields of the list and of its users keep their ranges.
THEOREM RemotesTypeCorrect == Spec => []TypeOK
  <1>1. IInv => TypeOK
    BY DEF IInv
  <1> QED BY <1>1, RemotesInductive, PTL

\* primary_index() never throws: the index stays in the list, although the
\* list shrinks while sessions rotate through it.
THEOREM IndexStaysInRange == Spec => []IndexInRange
  <1>1. IInv => IndexInRange
    BY DEF IInv, Good, Here, IndexInRange
  <1> QED BY <1>1, RemotesInductive, PTL

\* An address stays with its host, and a session looks for the server that
\* the list is at.
THEOREM AddressesStay == Spec => []AddressesOfHost
  <1>1. IInv => AddressesOfHost
    BY DEF IInv, Good, Sound, AtItem, Here, AddressesOfHost
  <1> QED BY <1>1, RemotesInductive, PTL
=============================================================================
