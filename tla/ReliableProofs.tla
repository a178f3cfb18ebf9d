--------------------------- MODULE ReliableProofs ---------------------------
(***************************************************************************)
(* Proofs about Reliable, for every window, number of messages and replay  *)
(* filter: the channel implements ReliableFifo.  Without packet            *)
(* identifiers it acknowledges only what it has, and the receiver has room *)
(* for what the sender sends.                                              *)
(***************************************************************************)
EXTENDS Reliable, FiniteSetTheorems, WellFoundedInduction, SequenceTheorems, TLAPS

\* The packet p carries message p.id of w.
Carries(w, p) == p.id \in Nat /\ p.id < Len(w) /\ p.data = w[p.id + 1]

Sender(w, s) ==
    /\ s \in [next : Nat, head : Nat, unacked : SUBSET Messages, pid : Nat,
              bare : 0..MaxBare, ssl_started : BOOLEAN]
    /\ s.head <= s.next /\ s.next <= s.head + Span /\ s.next <= Len(w)
    /\ s.pid <= s.next + s.bare
    /\ \A p \in s.unacked : s.head <= p.id /\ p.id < s.next /\ Carries(w, p)

\* The receiver between Put and Advanced.
Holding(w, d, r) ==
    /\ r \in [head : Nat, got : SUBSET Messages, ssl_started : BOOLEAN, filter : Receivers]
    /\ r.head = Len(d) /\ Len(d) <= Len(w)
    /\ \A i \in 1..Len(d) : d[i] = w[i]
    /\ \A q \in r.got : r.head <= q.id /\ q.id < r.head + Span /\ Carries(w, q)

\* Everything that can be handed up has been.
Receiver(w, d, r) == Holding(w, d, r) /\ Sequenced(r) = {}

Network(w, n) ==
    /\ n \subseteq Messages \cup Acks \cup Bare
    /\ \A p \in n : p.kind = "message" => Carries(w, p)

IInv ==
    /\ written \in Seq(Data) /\ Len(written) <= MaxMessages
    /\ delivered \in Seq(Data)
    /\ now \in 1..(MaxNow + 1)
    /\ Sender(written, rel_send)
    /\ Receiver(written, delivered, rel_recv)
    /\ Network(written, net)

Received(r, i) == i < r.head \/ \E q \in r.got : q.id = i

\* What an acknowledgement means when none is for a refused packet.
AckInv ==
    /\ \A a \in net : a.kind = "ack" => Received(rel_recv, a.id)
    /\ AckedIsReceived

-----------------------------------------------------------------------------
(* Sets of numbers.                                                        *)

\* A set that has all that lies below any of its members is an interval.
LEMMA Prefix ==
    ASSUME NEW a \in Nat, NEW b \in Int, NEW S \in SUBSET (a..b),
           \A i \in S : \A j \in a..i : j \in S
    PROVE  /\ Cardinality(S) \in Nat
           /\ S = a..(a + Cardinality(S) - 1)
<1> DEFINE n == Cardinality(S)
<1>1. IsFiniteSet(S)
  <2>1. IsFiniteSet(a..b)
    BY FS_Interval
  <2> QED BY <2>1, FS_Subset
<1>2. n \in Nat
  BY <1>1, FS_CardinalityType
<1>3. \A i \in S : i <= a + n - 1
  <2> SUFFICES ASSUME NEW i \in S PROVE i <= a + n - 1
    OBVIOUS
  <2>1. i \in Int /\ a <= i /\ a..i \in SUBSET S
    OBVIOUS
  <2>2. Cardinality(a..i) = i - a + 1
    BY <2>1, FS_Interval
  <2>3. Cardinality(a..i) <= n
    BY <1>1, <2>1, FS_Subset
  <2> QED BY <1>2, <2>1, <2>2, <2>3
<1>4. S \in SUBSET (a..(a + n - 1))
  BY <1>2, <1>3
<1>5. IsFiniteSet(a..(a + n - 1)) /\ Cardinality(a..(a + n - 1)) = n
  <2>1. a \in Int /\ a + n - 1 \in Int
    BY <1>2
  <2>2. /\ IsFiniteSet(a..(a + n - 1))
        /\ Cardinality(a..(a + n - 1)) = IF a > a + n - 1 THEN 0 ELSE (a + n - 1) - a + 1
    BY <2>1, FS_Interval
  <2> QED BY <1>2, <2>2
<1>6. S = a..(a + n - 1)
  BY <1>4, <1>5, FS_Subset
<1> QED BY <1>2, <1>6

LEMMA Least ==
    ASSUME NEW S \in SUBSET Nat, S # {}
    PROVE  \E i \in S : \A j \in S : i <= j
<1> DEFINE R == {ss \in Nat \X Nat : ss[1] < ss[2]}
<1>1. IsWellFoundedOn(R, Nat)
  BY NatLessThanWellFounded DEF OpToRel
<1>2. PICK i \in S : \A j \in S : ~(<<j, i>> \in R)
  BY <1>1, WFMin
<1>3. \A j \in S : j \in Nat /\ i \in Nat /\ ~(j < i)
  BY <1>2
<1> QED BY <1>3

-----------------------------------------------------------------------------
(* The sender.                                                             *)

LEMMA CarriesAppend ==
    ASSUME NEW w \in Seq(Data), NEW d \in Data, NEW p, Carries(w, p)
    PROVE  Carries(Append(w, d), p)
  BY DEF Carries

LEMMA SenderAppend ==
    ASSUME NEW w \in Seq(Data), NEW d \in Data, NEW s, Sender(w, s)
    PROVE  Sender(Append(w, d), s)
<1>1. Len(Append(w, d)) = Len(w) + 1 /\ Len(w) \in Nat
  OBVIOUS
<1>2. \A p \in s.unacked : Carries(Append(w, d), p)
  BY CarriesAppend DEF Sender
<1>3. s.next \in Nat
  BY DEF Sender
<1> QED BY <1>1, <1>2, <1>3 DEF Sender

\* What flush() sends comes right after what was sent before.
LEMMA ReadyIsNext ==
    ASSUME NEW w \in Seq(Data), NEW s, Sender(w, s)
    PROVE  /\ Cardinality(Ready(w, s)) \in Nat
           /\ Ready(w, s) = s.next..(s.next + Cardinality(Ready(w, s)) - 1)
           /\ s.next + Cardinality(Ready(w, s)) <= Len(w)
           /\ s.next + Cardinality(Ready(w, s)) <= s.head + Span
<1> DEFINE S == Ready(w, s)
           n == Cardinality(S)
<1>1. s.next \in Nat /\ s.head \in Nat /\ Len(w) \in Nat /\ s.next <= Len(w)
      /\ s.next <= s.head + Span /\ Span \in Nat
  BY ReliableAssumption DEF Sender
<1>2. S \in SUBSET (s.next..(Len(w) - 1)) /\ \A i \in S : i < Len(w) /\ i < s.head + Span
  BY <1>1 DEF Ready
<1>3. \A i \in S : \A j \in s.next..i : j \in S
  BY <1>1 DEF Ready
<1>4. n \in Nat /\ S = s.next..(s.next + n - 1)
  <2>1. Len(w) - 1 \in Int
    BY <1>1
  <2> HIDE DEF S
  <2> QED BY <1>1, <1>2, <1>3, <2>1, Prefix
<1>5. n = 0 => s.next + n <= Len(w) /\ s.next + n <= s.head + Span
  BY <1>1
<1>6. n > 0 => s.next + n <= Len(w) /\ s.next + n <= s.head + Span
  <2> SUFFICES ASSUME n > 0 PROVE s.next + n <= Len(w) /\ s.next + n <= s.head + Span
    OBVIOUS
  <2>1. s.next + n - 1 \in S
    <3> HIDE DEF S
    <3> QED BY <1>1, <1>4
  <2>2. s.next + n - 1 < Len(w) /\ s.next + n - 1 < s.head + Span
    <3> HIDE DEF S
    <3> QED BY <1>2, <2>1
  <2>3. n \in Nat
    BY <1>4
  <2> HIDE DEF n
  <2> QED BY <1>1, <2>2, <2>3
<1>7. n = 0 \/ n > 0
  <2> HIDE DEF n
  <2> QED BY <1>4
<1> QED BY <1>4, <1>5, <1>6, <1>7

\* The bound on the identifiers of what is sent keeps them from wrapping.
LEMMA PacketOk ==
    ASSUME NEW w \in Seq(Data), Len(w) <= MaxMessages, NEW s, Sender(w, s), NEW i \in Ready(w, s)
    PROVE  Packet(w, s, i) \in Messages /\ Carries(w, Packet(w, s, i))
           /\ Packet(w, s, i).id = i /\ Packet(w, s, i).kind = "message"
<1>1. i \in Nat /\ s.next <= i /\ i < Len(w) /\ Len(w) \in Nat /\ s.next \in Nat
  BY DEF Ready, Sender
<1>2. w[i + 1] \in Data
  BY <1>1
<1>3. s.pid \in Nat /\ s.bare \in 0..MaxBare /\ s.pid <= s.next + s.bare
  BY DEF Sender
<1>4. s.pid + 1 + (i - s.next) \in 0..MaxId
  <2>1. MaxBare \in Nat /\ MaxId \in Nat /\ MaxMessages + MaxBare <= MaxId /\ MaxMessages \in Nat
    BY ReliableAssumption, PacketIdAssumption
  <2>2. ASSUME NEW pid \in Nat, NEW next \in Nat, NEW bare \in Nat, NEW n \in Nat,
               pid <= next + bare, bare <= MaxBare, next <= i, i < n, n <= MaxMessages
        PROVE  pid + 1 + (i - next) \in 0..MaxId
    BY <1>1, <2>1, <2>2
  <2>3. s.bare \in Nat /\ s.bare <= MaxBare
    BY <1>3, <2>1
  <2> QED BY <1>1, <1>3, <2>2, <2>3
<1>5. (IF ReplayProtected THEN s.pid + 1 + (i - s.next) ELSE 0) \in Pid
  BY <1>4, PacketIdAssumption DEF Pid
<1> QED BY <1>1, <1>2, <1>5 DEF Packet, Messages, Carries

\* flush() keeps what it sends, and gives out all the ids in between.
LEMMA FlushOk ==
    ASSUME NEW w \in Seq(Data), Len(w) <= MaxMessages, NEW s, Sender(w, s)
    PROVE  /\ Sender(w, Flush(w, s))
           /\ Flush(w, s).head = s.head /\ Flush(w, s).ssl_started = s.ssl_started
           /\ Sent(w, s) \subseteq Messages
           /\ \A p \in Sent(w, s) : p.kind = "message" /\ Carries(w, p)
           /\ \A p \in Flush(w, s).unacked : p \in s.unacked \/ s.next <= p.id
           /\ \A i \in 0..(Flush(w, s).next - 1) :
                 i \in Unacked(Flush(w, s)) \/ (i < s.next /\ i \notin Unacked(s))
<1> DEFINE n == Cardinality(Ready(w, s))
           f == Flush(w, s)
<1>1. /\ n \in Nat /\ Ready(w, s) = s.next..(s.next + n - 1)
      /\ s.next + n <= Len(w) /\ s.next + n <= s.head + Span
  BY ReadyIsNext
<1>2. /\ s \in [next : Nat, head : Nat, unacked : SUBSET Messages, pid : Nat,
                bare : 0..MaxBare, ssl_started : BOOLEAN]
      /\ s.head <= s.next /\ s.pid <= s.next + s.bare
      /\ \A p \in s.unacked : s.head <= p.id /\ p.id < s.next /\ Carries(w, p)
  BY DEF Sender
<1> HIDE DEF n
<1>3. Sent(w, s) \subseteq Messages
  BY PacketOk DEF Sent
<1>4. \A p \in Sent(w, s) : p.kind = "message" /\ Carries(w, p) /\ p.id \in Ready(w, s)
  BY PacketOk DEF Sent
<1>5. \A i \in Ready(w, s) : \E p \in Sent(w, s) : p.id = i
  BY PacketOk DEF Sent
<1>6. /\ s.next + n \in Nat
      /\ s.unacked \cup Sent(w, s) \in SUBSET Messages
      /\ (IF ReplayProtected THEN s.pid + n ELSE 0) \in Nat
      /\ (IF ReplayProtected THEN s.pid + n ELSE 0) <= s.next + n + s.bare
  BY <1>1, <1>2, <1>3
<1>7. /\ f \in [next : Nat, head : Nat, unacked : SUBSET Messages, pid : Nat,
                bare : 0..MaxBare, ssl_started : BOOLEAN]
      /\ f.next = s.next + n /\ f.head = s.head /\ f.unacked = s.unacked \cup Sent(w, s)
      /\ f.pid = (IF ReplayProtected THEN s.pid + n ELSE 0)
      /\ f.bare = s.bare /\ f.ssl_started = s.ssl_started
  <2>1. f = [s EXCEPT !.next = s.next + n, !.unacked = s.unacked \cup Sent(w, s),
                      !.pid = IF ReplayProtected THEN s.pid + n ELSE 0]
    BY Zenon DEF Flush, Sent, n
  <2> HIDE DEF f
  <2> QED BY <1>2, <1>6, <2>1
<1> HIDE DEF f
<1>8. Sender(w, f)
  <2>2. \A p \in f.unacked : f.head <= p.id /\ p.id < f.next /\ Carries(w, p)
    <3> SUFFICES ASSUME NEW p \in f.unacked PROVE s.head <= p.id /\ p.id < s.next + n /\ Carries(w, p)
      BY <1>7
    <3>1. CASE p \in s.unacked
      BY <1>1, <1>2, <3>1 DEF Carries
    <3>2. CASE p \in Sent(w, s)
      BY <1>1, <1>2, <1>4, <3>2
    <3> QED BY <1>7, <3>1, <3>2
  <2>3. f.head <= f.next /\ f.next <= f.head + Span /\ f.next <= Len(w) /\ f.pid <= f.next + f.bare
    BY <1>1, <1>2, <1>7, <1>6
  <2> QED BY <1>7, <2>2, <2>3 DEF Sender
<1>9. \A i \in 0..(f.next - 1) : i \in Unacked(f) \/ (i < s.next /\ i \notin Unacked(s))
  <2> SUFFICES ASSUME NEW i \in 0..(f.next - 1)
               PROVE  i \in Unacked(f) \/ (i < s.next /\ i \notin Unacked(s))
    OBVIOUS
  <2>3. f.next = s.next + n
    BY <1>7
  <2>1. CASE i \in Unacked(s)
    BY <1>7, <2>1 DEF Unacked
  <2>2. CASE ~(i < s.next)
    <3>1. i \in Ready(w, s)
      BY <1>1, <1>2, <2>2, <2>3
    <3> QED BY <1>7, <1>5, <3>1 DEF Unacked
  <2> QED BY <2>1, <2>2
<1>10. \A p \in f.unacked : p \in s.unacked \/ s.next <= p.id
  BY <1>1, <1>2, <1>7, <1>4
<1>11. f.head = s.head /\ f.ssl_started = s.ssl_started
  BY <1>7
<1> QED BY <1>3, <1>4, <1>8, <1>9, <1>10, <1>11 DEF f

\* An acknowledgement removes a message and moves the head to the first one left.
LEMMA AckOk ==
    ASSUME NEW w \in Seq(Data), NEW s, Sender(w, s), NEW id \in Nat
    PROVE  /\ Sender(w, Ack(s, id))
           /\ Ack(s, id).next = s.next /\ Ack(s, id).ssl_started = s.ssl_started
           /\ Ack(s, id).unacked = {p \in s.unacked : p.id # id}
           /\ s.head <= Ack(s, id).head
           /\ Ack(s, id).head \in Unacked(Ack(s, id)) \cup {s.next}
           /\ \A j \in Unacked(Ack(s, id)) \cup {s.next} : Ack(s, id).head <= j
<1> DEFINE left == {p \in s.unacked : p.id # id}
           t == [s EXCEPT !.unacked = {p \in @ : p.id # id}]
           ids == Unacked(t) \cup {t.next}
<1>1. /\ s \in [next : Nat, head : Nat, unacked : SUBSET Messages, pid : Nat,
                bare : 0..MaxBare, ssl_started : BOOLEAN]
      /\ s.head <= s.next /\ s.pid <= s.next + s.bare /\ s.next <= s.head + Span /\ s.next <= Len(w)
      /\ \A p \in s.unacked : s.head <= p.id /\ p.id < s.next /\ Carries(w, p)
  BY DEF Sender
<1>2. t = [next |-> s.next, head |-> s.head, unacked |-> left, pid |-> s.pid,
           bare |-> s.bare, ssl_started |-> s.ssl_started]
  <2>1. \A u : [s EXCEPT !.unacked = u] =
           [next |-> s.next, head |-> s.head, unacked |-> u, pid |-> s.pid,
            bare |-> s.bare, ssl_started |-> s.ssl_started]
    BY <1>1
  <2>2. t = [s EXCEPT !.unacked = left]
    OBVIOUS
  <2> QED BY <2>1, <2>2
<1>3. ids \in SUBSET Nat /\ s.next \in ids /\ \A j \in ids : s.head <= j /\ j <= s.next
  BY <1>1, <1>2 DEF Unacked, Carries
<1> DEFINE m == CHOOSE i \in ids : \A j \in ids : i <= j
<1>4. m \in ids /\ \A j \in ids : m <= j
  <2> HIDE DEF ids
  <2>1. \E i \in ids : \A j \in ids : i <= j
    BY <1>3, Least
  <2> QED BY <2>1
<1>5. Ack(s, id) = [t EXCEPT !.head = m]
  BY DEF Ack, Purged
<1> HIDE DEF m, t
<1>6. Ack(s, id) = [next |-> s.next, head |-> m, unacked |-> left, pid |-> s.pid,
                    bare |-> s.bare, ssl_started |-> s.ssl_started]
  BY <1>2, <1>5
<1>7. Unacked(t) = Unacked(Ack(s, id)) /\ t.next = s.next
  BY <1>2, <1>6 DEF Unacked
<1>8. m \in Nat /\ s.head <= m /\ m <= s.next
  BY <1>3, <1>4
<1>9. \A p \in left : m <= p.id
  BY <1>2, <1>4 DEF Unacked
<1>10. Sender(w, Ack(s, id))
  <2>1. Ack(s, id) \in [next : Nat, head : Nat, unacked : SUBSET Messages, pid : Nat,
                bare : 0..MaxBare, ssl_started : BOOLEAN]
    BY <1>1, <1>6, <1>8
  <2>2. \A p \in left : m <= p.id /\ p.id < s.next /\ Carries(w, p)
    BY <1>1, <1>9
  <2>3. m <= s.next /\ s.next <= m + Span
    BY <1>1, <1>8, ReliableAssumption
  <2> QED BY <1>1, <1>6, <2>1, <2>2, <2>3 DEF Sender
<1> QED BY <1>4, <1>6, <1>7, <1>8, <1>10

-----------------------------------------------------------------------------
(* The receiver.                                                           *)

\* The replay filter keeps its ranges.
LEMMA FilterOk ==
    ASSUME NEW f \in Receivers, NEW id \in Pid, NEW t \in Nat, NEW mod
    PROVE  TestAdd(f, PidOf(id), t, mod) \in Receivers
<1> DEFINE a == Aged(f, t)
           p == PidOf(id)
           g == Forwarded(a, p)
<1>1. a \in Receivers
  <2> DEFINE floor == IF t >= f.expire THEN f.id_high ELSE f.id_floor
  <2>1. floor \in 0..MaxId /\ t + ExpireAfter \in Nat
    BY PacketIdAssumption DEF Receivers
  <2>2. a = [f EXCEPT !.id_floor = floor, !.expire = t + ExpireAfter]
    BY Zenon DEF Aged
  <2> HIDE DEF a, floor
  <2> QED BY <2>1, <2>2 DEF Receivers
<1>2. p.id = id /\ p.time = 1 /\ id \in 0..MaxId
  BY DEF PidOf, Pid
<1> HIDE DEF a, p
<1>3. 0 \in Slots /\ 0 \in 0..WindowSize /\ 0 \in 0..MaxId /\ WindowSize \in 0..WindowSize
  BY PacketIdAssumption DEF Slots
<1>4. g \in Receivers
  <2>1. [a EXCEPT !.base = 0, !.extent = 0, !.id_high = 0, !.time_high = 1, !.id_floor = 0]
          \in Receivers
    BY <1>1, <1>3 DEF Receivers
  <2> QED BY <1>1, <1>2, <2>1 DEF Forwarded
<1> HIDE DEF g
<1>5. CASE p.id > g.id_high
  <2> DEFINE delta == p.id - g.id_high
             base == ReplayIndex(g.base, -delta)
             extent == Extended(g.extent, delta)
             history == Shifted(g.history, base, delta)
  <2>1. g.id_high \in 0..MaxId /\ g.base \in Slots /\ g.extent \in 0..WindowSize
    BY <1>4 DEF Receivers
  <2>2. delta \in 1..MaxId /\ g.id_high + delta = id
    BY <1>2, <1>5, <2>1, PacketIdAssumption
  <2>3. delta < WindowSize => base \in Slots
    BY <2>1, <2>2, PacketIdAssumption DEF ReplayIndex, Slots
  <2>4. extent \in 0..WindowSize
    BY <2>1, <2>2, PacketIdAssumption DEF Extended
  <2>5. history \in [Slots -> BOOLEAN] /\ [i \in Slots |-> i = 0] \in [Slots -> BOOLEAN]
    BY DEF Shifted
  <2> HIDE DEF delta, extent, history, base
  <2>6. delta < WindowSize =>
          [g EXCEPT !.base = base, !.extent = extent, !.id_high = g.id_high + delta,
                    !.history = history] \in Receivers
    BY <1>2, <1>4, <2>2, <2>3, <2>4, <2>5 DEF Receivers
  <2>7. [g EXCEPT !.base = 0, !.extent = WindowSize, !.id_high = g.id_high + delta,
                  !.history = [i \in Slots |-> i = 0]] \in Receivers
    BY <1>2, <1>3, <1>4, <2>2, <2>5 DEF Receivers
  <2>8. Slide(g, delta) \in Receivers
    BY <2>6, <2>7 DEF Slide, extent, history, base
  <2> QED BY <1>1, <1>5, <2>8 DEF TestAdd, Remembered, a, g, p, delta
<1>6. CASE ~(p.id > g.id_high)
  <2>1. Mark(g, g.id_high - p.id) \in Receivers
    BY <1>4 DEF Mark, Receivers
  <2> QED BY <1>1, <1>6, <2>1 DEF TestAdd, Remembered, a, g, p
<1> QED BY <1>5, <1>6

LEMMA SequencedIsNext ==
    ASSUME NEW w \in Seq(Data), NEW d, NEW r, Holding(w, d, r)
    PROVE  /\ Cardinality(Sequenced(r)) \in Nat
           /\ Sequenced(r) = r.head..(r.head + Cardinality(Sequenced(r)) - 1)
           /\ \A i \in Sequenced(r) : DataAt(r, i) = w[i + 1] /\ i < Len(w)
<1> DEFINE S == Sequenced(r)
<1>1. r.head \in Nat /\ r.head + Span - 1 \in Int
  BY ReliableAssumption DEF Holding
<1>2. S \in SUBSET (r.head..(r.head + Span - 1))
      /\ \A i \in S : \A j \in r.head..i : \E q \in r.got : q.id = j
  BY DEF Sequenced
<1>3. \A i \in S : \A j \in r.head..i : j \in S
  <2> SUFFICES ASSUME NEW i \in S, NEW j \in r.head..i
               PROVE  j \in r.head..(r.head + Span - 1)
                      /\ (\A k \in r.head..j : \E q \in r.got : q.id = k)
                      /\ (r.ssl_started \/ j = 0)
    BY DEF Sequenced
  <2>1. i \in r.head..(r.head + Span - 1) /\ (r.ssl_started \/ i = 0)
    BY DEF Sequenced
  <2>2. \A k \in r.head..j : k \in r.head..i
    BY <1>1, <2>1
  <2> QED BY <1>1, <1>2, <2>1, <2>2
<1> HIDE DEF S
<1>4. Cardinality(S) \in Nat /\ S = r.head..(r.head + Cardinality(S) - 1)
  BY <1>1, <1>2, <1>3, Prefix
<1>5. \A i \in S : DataAt(r, i) = w[i + 1] /\ i < Len(w)
  <2> SUFFICES ASSUME NEW i \in S PROVE DataAt(r, i) = w[i + 1] /\ i < Len(w)
    OBVIOUS
  <2>1. \E q \in r.got : q.id = i
    BY <1>1, <1>2
  <2> DEFINE q == CHOOSE q \in r.got : q.id = i
  <2>2. q \in r.got /\ q.id = i
    BY <2>1
  <2> QED BY <2>2 DEF DataAt, Holding, Carries
<1> QED BY <1>4, <1>5 DEF S

LEMMA PutOk ==
    ASSUME NEW w \in Seq(Data), NEW d, NEW r, Holding(w, d, r),
           NEW p \in Messages, Carries(w, p), InWindow(r, p.id)
    PROVE  /\ Holding(w, d, Put(r, p))
           /\ Put(r, p).head = r.head /\ Put(r, p).ssl_started = r.ssl_started
           /\ Received(Put(r, p), p.id)
           /\ \A i : Received(r, i) => Received(Put(r, p), i)
<1> DEFINE got == {q \in r.got : q.id # p.id} \cup {p}
           s == Put(r, p)
<1>1. r \in [head : Nat, got : SUBSET Messages, ssl_started : BOOLEAN, filter : Receivers]
  BY DEF Holding
<1>2. got \in SUBSET Messages
  BY <1>1
<1>3. s = [r EXCEPT !.got = got]
  BY Zenon DEF Put
<1> HIDE DEF s, got
<1>4. /\ s \in [head : Nat, got : SUBSET Messages, ssl_started : BOOLEAN, filter : Receivers]
      /\ s.head = r.head /\ s.got = got /\ s.ssl_started = r.ssl_started
  BY <1>1, <1>2, <1>3
<1>5. \A q \in got : r.head <= q.id /\ q.id < r.head + Span /\ Carries(w, q)
  BY DEF got, Holding, InWindow
<1>6. \A i : (\E q \in r.got : q.id = i) => \E q \in got : q.id = i
  BY DEF got
<1>7. \E q \in got : q.id = p.id
  BY DEF got
<1>8. Holding(w, d, s)
  BY <1>4, <1>5 DEF Holding
<1>9. Received(s, p.id) /\ \A i : Received(r, i) => Received(s, i)
  BY <1>4, <1>6, <1>7 DEF Received
<1> QED BY <1>4, <1>8, <1>9 DEF s

\* What is handed up continues what was delivered, and nothing is kept back.
LEMMA AdvancedOk ==
    ASSUME NEW w \in Seq(Data), NEW d \in Seq(Data), NEW r, Holding(w, d, r)
    PROVE  /\ d \o HandedUp(r) \in Seq(Data)
           /\ Len(d) <= Len(d \o HandedUp(r))
           /\ Receiver(w, d \o HandedUp(r), Advanced(r))
           /\ Advanced(r).ssl_started = r.ssl_started
           /\ \A i \in Nat : Received(r, i) => Received(Advanced(r), i)
<1> DEFINE n == Cardinality(Sequenced(r))
           a == Advanced(r)
           got == {q \in r.got : q.id >= r.head + n}
           up == HandedUp(r)
<1>1. /\ n \in Nat /\ Sequenced(r) = r.head..(r.head + n - 1)
      /\ \A i \in Sequenced(r) : DataAt(r, i) = w[i + 1] /\ i < Len(w)
  BY SequencedIsNext
<1>2. /\ r \in [head : Nat, got : SUBSET Messages, ssl_started : BOOLEAN, filter : Receivers]
      /\ r.head = Len(d) /\ Len(d) <= Len(w) /\ Len(d) \in Nat /\ Len(w) \in Nat
      /\ \A i \in 1..Len(d) : d[i] = w[i]
      /\ \A q \in r.got : r.head <= q.id /\ q.id < r.head + Span /\ Carries(w, q)
  BY DEF Holding
<1> HIDE DEF n
<1>3. /\ a \in [head : Nat, got : SUBSET Messages, ssl_started : BOOLEAN, filter : Receivers]
      /\ a.head = r.head + n /\ a.got = got /\ a.ssl_started = r.ssl_started
  <2>1. a = [r EXCEPT !.head = r.head + n, !.got = got]
    BY Zenon DEF Advanced, n
  <2>2. r.head + n \in Nat /\ got \in SUBSET Messages
    BY <1>1, <1>2
  <2> HIDE DEF a, got
  <2> QED BY <1>2, <2>1, <2>2
<1>4. \A i \in 1..n : r.head + i - 1 \in Sequenced(r) /\ r.head + i <= Len(w)
                      /\ DataAt(r, r.head + i - 1) = w[r.head + i]
  <2> SUFFICES ASSUME NEW i \in 1..n
               PROVE  r.head + i - 1 \in Sequenced(r) /\ r.head + i <= Len(w)
                      /\ DataAt(r, r.head + i - 1) = w[r.head + i]
    OBVIOUS
  <2>1. r.head + i - 1 \in r.head..(r.head + n - 1) /\ (r.head + i - 1) + 1 = r.head + i
    BY <1>1, <1>2
  <2>2. r.head + i - 1 \in Sequenced(r)
    BY <1>1, <2>1
  <2>3. DataAt(r, r.head + i - 1) = w[(r.head + i - 1) + 1] /\ r.head + i - 1 < Len(w)
    BY <1>1, <2>2
  <2> QED BY <1>1, <1>2, <2>1, <2>2, <2>3
<1>5. up = [i \in 1..n |-> DataAt(r, r.head + i - 1)]
  BY DEF HandedUp, n
<1>6. up \in Seq(Data) /\ Len(up) = n /\ \A i \in 1..n : up[i] = w[r.head + i]
  <2>1. \A i \in 1..n : DataAt(r, r.head + i - 1) \in Data
    BY <1>1, <1>2, <1>4
  <2> QED BY <1>1, <1>4, <1>5, <2>1
<1> HIDE DEF a, got, up
<1>7. /\ d \o up \in Seq(Data) /\ Len(d \o up) = Len(d) + n
      /\ \A i \in 1..(Len(d) + n) : (d \o up)[i] = IF i <= Len(d) THEN d[i] ELSE up[i - Len(d)]
  BY <1>6, ConcatProperties
<1>8. Len(d) + n <= Len(w)
  <2>1. CASE n = 0
    BY <1>2, <2>1
  <2>2. CASE n > 0
    <3>1. n \in 1..n
      BY <1>1, <2>2
    <3> QED BY <1>2, <1>4, <3>1
  <2> QED BY <1>1, <2>1, <2>2
<1>9. \A i \in 1..Len(d \o up) : (d \o up)[i] = w[i]
  <2> SUFFICES ASSUME NEW i \in 1..(Len(d) + n) PROVE (d \o up)[i] = w[i]
    BY <1>7
  <2>1. CASE i <= Len(d)
    BY <1>2, <1>7, <2>1
  <2>2. CASE ~(i <= Len(d))
    <3>1. i - Len(d) \in 1..n /\ r.head + (i - Len(d)) = i
      BY <1>1, <1>2, <2>2
    <3> QED BY <1>6, <1>7, <2>2, <3>1
  <2> QED BY <2>1, <2>2
<1>10. \A q \in got : q \in r.got /\ q.id >= r.head + n
  BY DEF got
<1>11. Holding(w, d \o up, a)
  <2>1. \A q \in a.got : a.head <= q.id /\ q.id < a.head + Span /\ Carries(w, q)
    <3> SUFFICES ASSUME NEW q \in got
                 PROVE  r.head + n <= q.id /\ q.id < r.head + n + Span /\ Carries(w, q)
      BY <1>3
    <3>1. q.id \in Nat /\ q.id < r.head + Span /\ Carries(w, q) /\ r.head + n <= q.id
      BY <1>2, <1>10 DEF Carries
    <3> QED BY <1>1, <1>2, <3>1, ReliableAssumption
  <2> QED BY <1>2, <1>3, <1>7, <1>8, <1>9, <2>1 DEF Holding
<1>12. Sequenced(a) = {}
  <2> SUFFICES ASSUME NEW i \in Sequenced(a) PROVE FALSE
    OBVIOUS
  <2> DEFINE h == r.head + n
  <2>1. /\ i \in h..(h + Span - 1)
        /\ \A j \in h..i : \E q \in got : q.id = j
        /\ r.ssl_started \/ i = 0
    BY <1>3 DEF Sequenced
  <2>2. h \in Nat /\ h \in h..i
    BY <1>1, <1>2, <2>1
  <2>3. PICK q \in got : q.id = h
    BY <2>1, <2>2
  <2>4. q \in r.got /\ h < r.head + Span
    BY <1>2, <1>10, <2>3
  <2>5. h \in r.head..(r.head + Span - 1)
    BY <1>1, <1>2, <2>4, ReliableAssumption
  <2>6. \A j \in r.head..h : \E k \in r.got : k.id = j
    <3> SUFFICES ASSUME NEW j \in r.head..h, j # h PROVE \E k \in r.got : k.id = j
      BY <2>3, <2>4
    <3>1. j \in Sequenced(r)
      <4>1. r.head \in Nat /\ n \in Nat
        BY <1>1, <1>2
      <4>2. j \in r.head..(r.head + n - 1)
        BY <4>1
      <4> QED BY <1>1, <4>2
    <3>2. j \in r.head..j
      BY <1>2
    <3> QED BY <3>1, <3>2 DEF Sequenced
  <2>7. r.ssl_started \/ h = 0
    BY <2>1, <2>2
  <2>8. h \in Sequenced(r)
    BY <2>5, <2>6, <2>7 DEF Sequenced
  <2> QED BY <1>1, <1>2, <2>8
<1>13. \A i \in Nat : Received(r, i) => Received(a, i)
  <2> SUFFICES ASSUME NEW i \in Nat, Received(r, i), ~(i < r.head + n)
               PROVE  \E q \in got : q.id = i
    BY <1>3 DEF Received
  <2>1. PICK q \in r.got : q.id = i
    BY <1>1, <1>2 DEF Received
  <2> QED BY <1>1, <1>2, <2>1 DEF got
<1>14. Len(d) <= Len(d \o up)
  BY <1>1, <1>2, <1>7
<1> QED BY <1>3, <1>7, <1>11, <1>12, <1>13, <1>14 DEF Receiver, a, up

LEMMA GrowOk ==
    ASSUME NEW w \in Seq(Data), NEW x \in Data, NEW d \in Seq(Data), NEW r, NEW n,
           Receiver(w, d, r), Network(w, n)
    PROVE  Receiver(Append(w, x), d, r) /\ Network(Append(w, x), n)
<1>1. Len(Append(w, x)) = Len(w) + 1 /\ \A i \in 1..Len(w) : Append(w, x)[i] = w[i]
  OBVIOUS
<1>2. \A p : Carries(w, p) => Carries(Append(w, x), p)
  BY CarriesAppend
<1>3. \A i \in 1..Len(d) : i \in 1..Len(w)
  BY DEF Receiver, Holding
<1>4. Holding(Append(w, x), d, r)
  <2>1. Len(w) \in Nat /\ Len(d) \in Nat
    OBVIOUS
  <2> QED BY <1>1, <1>2, <1>3, <2>1 DEF Receiver, Holding
<1> QED BY <1>2, <1>4 DEF Receiver, Network

LEMMA FilteredOk ==
    ASSUME NEW w, NEW d, NEW r, Receiver(w, d, r), NEW p, p.pid \in Pid, now \in Nat, NEW mod
    PROVE  /\ Receiver(w, d, Filtered(r, p, mod))
           /\ Filtered(r, p, mod).head = r.head /\ Filtered(r, p, mod).got = r.got
           /\ Filtered(r, p, mod).ssl_started = r.ssl_started
<1> DEFINE f == Filtered(r, p, mod)
<1>1. r \in [head : Nat, got : SUBSET Messages, ssl_started : BOOLEAN, filter : Receivers]
  BY DEF Receiver, Holding
<1>2. TestAdd(r.filter, PidOf(p.pid), now, mod) \in Receivers
  BY <1>1, FilterOk
<1>3. /\ f \in [head : Nat, got : SUBSET Messages, ssl_started : BOOLEAN, filter : Receivers]
      /\ f.head = r.head /\ f.got = r.got /\ f.ssl_started = r.ssl_started
  <2>1. f = r \/ f = [r EXCEPT !.filter = TestAdd(r.filter, PidOf(p.pid), now, mod)]
    BY Zenon DEF Filtered
  <2> HIDE DEF f
  <2> QED BY <1>1, <1>2, <2>1
<1> HIDE DEF f
<1>4. Sequenced(f) = Sequenced(r)
  BY <1>3 DEF Sequenced
<1> QED BY <1>3, <1>4 DEF Receiver, Holding, f

-----------------------------------------------------------------------------
(* Steps.                                                                  *)

FifoStep == [Fifo!Next]_<<written, delivered>>

\* A longer prefix of what was written is a step of the abstract channel.
LEMMA DeliverStep ==
    ASSUME written \in Seq(Data), delivered \in Seq(Data), written' = written,
           delivered' \in Seq(Data),
           Len(delivered) <= Len(delivered'), Len(delivered') <= Len(written),
           \A i \in 1..Len(delivered) : delivered[i] = written[i],
           \A i \in 1..Len(delivered') : delivered'[i] = written[i]
    PROVE  FifoStep
<1> DEFINE n == Len(delivered')
<1>1. n \in Nat /\ Len(delivered) \in Nat /\ Len(written) \in Nat
  OBVIOUS
<1>2. CASE n = Len(delivered)
  <2>1. delivered' = delivered
    BY <1>2, SeqEqual
  <2> QED BY <2>1 DEF FifoStep
<1>3. CASE n # Len(delivered)
  <2>1. n \in (Len(delivered) + 1)..Len(written)
    BY <1>1, <1>3
  <2>2. SubSeq(written, 1, n) \in Seq(Data) /\ Len(SubSeq(written, 1, n)) = n
        /\ \A i \in 1..n : SubSeq(written, 1, n)[i] = written[i]
    BY <1>1, <2>1
  <2>3. delivered' = SubSeq(written, 1, n)
    <3> DEFINE t == SubSeq(written, 1, n)
    <3>1. t \in Seq(Data) /\ Len(t) = Len(delivered') /\ \A i \in 1..Len(delivered') : delivered'[i] = t[i]
      BY <2>2
    <3> HIDE DEF t
    <3>2. delivered' = t
      BY <3>1, SeqEqual
    <3> QED BY <3>2 DEF t
  <2>4. Fifo!Deliver(n)
    BY <2>3 DEF Fifo!Deliver
  <2> QED BY <2>1, <2>4 DEF FifoStep, Fifo!Next
<1> QED BY <1>2, <1>3

LEMMA InitInv == Init => IInv
<1> SUFFICES ASSUME Init PROVE IInv
  OBVIOUS
<1>1. <<>> \in Seq(Data) /\ Len(<<>>) = 0
  OBVIOUS
<1>2. NewReceiver \in Receivers
  BY PacketIdAssumption DEF NewReceiver, Receivers, Slots
<1>3. Sender(written, rel_send)
  BY <1>1, ReliableAssumption DEF Init, Sender
<1>4. Receiver(written, delivered, rel_recv)
  BY <1>1, <1>2, ReliableAssumption DEF Init, Receiver, Holding, Sequenced
<1>5. Network(written, net)
  BY DEF Init, Network
<1>6. now \in 1..(MaxNow + 1)
  BY ReliableAssumption DEF Init
<1> QED BY <1>1, <1>3, <1>4, <1>5, <1>6, ReliableAssumption DEF Init, IInv

LEMMA WriteStep ==
    ASSUME IInv, NEW d \in Data, Write(d) PROVE IInv' /\ FifoStep
<1>1. written' \in Seq(Data) /\ Len(written') <= MaxMessages
  BY ReliableAssumption DEF IInv, Write
<1>2. Sender(written', rel_send) /\ Receiver(written', delivered, rel_recv) /\ Network(written', net)
  BY SenderAppend, GrowOk DEF IInv, Write
<1>3. /\ Sender(written', rel_send')
      /\ Sent(written', rel_send) \subseteq Messages
      /\ \A p \in Sent(written', rel_send) : Carries(written', p)
  BY <1>1, <1>2, FlushOk DEF Write
<1>4. Network(written', net')
  BY <1>2, <1>3 DEF Network, Write
<1>5. FifoStep
  BY DEF Write, FifoStep, Fifo!Next, Fifo!Write
<1> QED BY <1>1, <1>2, <1>3, <1>4, <1>5 DEF IInv, Write

LEMMA ReceiveMessageStep ==
    ASSUME IInv, NEW p \in net, ReceiveMessage(p) PROVE IInv' /\ FifoStep
<1> DEFINE accepted == PidOk(rel_recv, p) /\ InWindow(rel_recv, p.id)
           r == Filtered(rel_recv, p, accepted)
           acks == IF AckToSender(rel_recv, p) THEN {[kind |-> "ack", id |-> p.id]} ELSE {}
<1>1. p \in Messages /\ Carries(written, p) /\ p.pid \in Pid /\ p.id \in Nat
  BY DEF IInv, Network, ReceiveMessage, Messages, Acks, Bare
<1>2. now \in Nat /\ written \in Seq(Data) /\ delivered \in Seq(Data)
  BY DEF IInv
<1>3. Receiver(written, delivered, r) /\ r.head = rel_recv.head
  <2>1. Receiver(written, delivered, rel_recv)
    BY DEF IInv
  <2>2. \A mod : /\ Receiver(written, delivered, Filtered(rel_recv, p, mod))
                 /\ Filtered(rel_recv, p, mod).head = rel_recv.head
    BY <1>1, <1>2, <2>1, FilteredOk
  <2> HIDE DEF accepted
  <2> QED BY <2>2
<1>4. acks \subseteq Acks
  BY <1>1 DEF Acks
<1>5. PICK rest \in {net, net \ {p}} : net' = rest \cup acks
  BY DEF ReceiveMessage
<1>6. Network(written, net')
  BY <1>4, <1>5 DEF IInv, Network, Acks
<1>7. written' = written /\ rel_send' = rel_send /\ now' = now
  BY DEF ReceiveMessage
<1>8. CASE accepted
  <2>1. rel_recv' = Advanced(Put(r, p)) /\ delivered' = delivered \o HandedUp(Put(r, p))
    BY <1>8 DEF ReceiveMessage
  <2> HIDE DEF r
  <2>2. InWindow(r, p.id)
    BY <1>3, <1>8 DEF InWindow
  <2>3. Holding(written, delivered, Put(r, p))
    BY <1>1, <1>2, <1>3, <2>2, PutOk DEF Receiver
  <2>4. /\ delivered' \in Seq(Data) /\ Len(delivered) <= Len(delivered')
        /\ Receiver(written, delivered', rel_recv')
    BY <1>2, <2>1, <2>3, AdvancedOk
  <2>5. FifoStep
    BY <1>2, <1>3, <1>7, <2>4, DeliverStep DEF Receiver, Holding
  <2> QED BY <1>6, <1>7, <2>4, <2>5 DEF IInv
<1>9. CASE ~accepted
  <2>1. rel_recv' = r /\ delivered' = delivered
    BY <1>9 DEF ReceiveMessage
  <2> HIDE DEF r
  <2> QED BY <1>3, <1>6, <1>7, <2>1 DEF IInv, FifoStep
<1> QED BY <1>8, <1>9

LEMMA ReceiveAckStep ==
    ASSUME IInv, NEW a \in net, ReceiveAck(a) PROVE IInv' /\ FifoStep
<1> DEFINE s == Ack(rel_send, a.id)
<1>1. a.id \in Nat
  BY DEF IInv, Network, ReceiveAck, Messages, Acks, Bare
<1>2. Sender(written, s)
  BY <1>1, AckOk DEF IInv
<1>3. PICK rest \in {net, net \ {a}} : net' = rest \cup Sent(written, s)
  BY DEF ReceiveAck
<1>4. rel_send' = Flush(written, s) /\ UNCHANGED <<written, rel_recv, delivered, now>>
  BY DEF ReceiveAck
<1> HIDE DEF s
<1>5. /\ Sender(written, rel_send')
      /\ Sent(written, s) \subseteq Messages
      /\ \A p \in Sent(written, s) : Carries(written, p)
  BY <1>2, <1>4, FlushOk DEF IInv
<1>6. Network(written, net')
  BY <1>3, <1>5 DEF IInv, Network
<1> QED BY <1>4, <1>5, <1>6 DEF IInv, FifoStep

LEMMA SenderStartsSslStep ==
    ASSUME IInv, SenderStartsSsl PROVE IInv' /\ FifoStep
<1> DEFINE s == [rel_send EXCEPT !.ssl_started = TRUE]
<1>1. Sender(written, s)
  BY DEF IInv, Sender
<1>2. rel_send' = Flush(written, s) /\ net' = net \cup Sent(written, s)
      /\ UNCHANGED <<written, rel_recv, delivered, now>>
  BY DEF SenderStartsSsl
<1> HIDE DEF s
<1>3. /\ Sender(written, rel_send')
      /\ Sent(written, s) \subseteq Messages
      /\ \A p \in Sent(written, s) : Carries(written, p)
  BY <1>1, <1>2, FlushOk DEF IInv
<1>4. Network(written, net')
  BY <1>2, <1>3 DEF IInv, Network
<1> QED BY <1>2, <1>3, <1>4 DEF IInv, FifoStep

LEMMA ReceiverStartsSslStep ==
    ASSUME IInv, ReceiverStartsSsl PROVE IInv' /\ FifoStep
<1> DEFINE r == [rel_recv EXCEPT !.ssl_started = TRUE]
<1>1. Holding(written, delivered, r)
  BY DEF IInv, Receiver, Holding
<1>2. rel_recv' = Advanced(r) /\ delivered' = delivered \o HandedUp(r)
      /\ UNCHANGED <<written, rel_send, net, now>>
  BY DEF ReceiverStartsSsl
<1> HIDE DEF r
<1>3. /\ delivered' \in Seq(Data) /\ Len(delivered) <= Len(delivered')
      /\ Receiver(written, delivered', rel_recv')
  BY <1>1, <1>2, AdvancedOk DEF IInv
<1>4. FifoStep
  BY <1>1, <1>2, <1>3, DeliverStep DEF Receiver, Holding, IInv
<1> QED BY <1>2, <1>3, <1>4 DEF IInv

LEMMA SendBareStep ==
    ASSUME IInv, SendBare PROVE IInv' /\ FifoStep
<1>1. /\ rel_send \in [next : Nat, head : Nat, unacked : SUBSET Messages, pid : Nat,
                       bare : 0..MaxBare, ssl_started : BOOLEAN]
      /\ rel_send.bare < MaxBare /\ rel_send.pid <= rel_send.next + rel_send.bare
      /\ rel_send.next <= Len(written) /\ Len(written) <= MaxMessages /\ Len(written) \in Nat
  BY DEF IInv, Sender, SendBare
<1>2. rel_send.pid + 1 \in Pid /\ rel_send.pid + 1 \in Nat /\ rel_send.bare + 1 \in 0..MaxBare
  BY <1>1, ReliableAssumption, PacketIdAssumption DEF Pid
<1>3. rel_send' = [rel_send EXCEPT !.pid = rel_send.pid + 1, !.bare = rel_send.bare + 1]
  BY Zenon DEF SendBare
<1>4. /\ rel_send' \in [next : Nat, head : Nat, unacked : SUBSET Messages, pid : Nat,
                        bare : 0..MaxBare, ssl_started : BOOLEAN]
      /\ rel_send'.next = rel_send.next /\ rel_send'.head = rel_send.head
      /\ rel_send'.unacked = rel_send.unacked
      /\ rel_send'.pid = rel_send.pid + 1 /\ rel_send'.bare = rel_send.bare + 1
  BY <1>1, <1>2, <1>3
<1>5. rel_send'.pid <= rel_send'.next + rel_send'.bare
  BY <1>1, <1>4
<1>6. Sender(written, rel_send')
  BY <1>4, <1>5 DEF IInv, Sender
<1>7. net' = net \cup {[kind |-> "bare", pid |-> rel_send.pid + 1]}
      /\ UNCHANGED <<written, rel_recv, delivered, now>>
  BY DEF SendBare
<1>8. Network(written, net')
  BY <1>2, <1>7 DEF IInv, Network, Bare
<1> QED BY <1>6, <1>7, <1>8 DEF IInv, FifoStep

LEMMA ReceiveBareStep ==
    ASSUME IInv, NEW p \in net, ReceiveBare(p) PROVE IInv' /\ FifoStep
<1>1. p.pid \in Pid /\ now \in Nat
  BY DEF IInv, Network, ReceiveBare, Messages, Acks, Bare
<1>2. rel_recv' = Filtered(rel_recv, p, TRUE) /\ UNCHANGED <<written, rel_send, delivered, now>>
  BY DEF ReceiveBare
<1>3. Receiver(written, delivered, rel_recv')
  BY <1>1, <1>2, FilteredOk DEF IInv
<1>4. Network(written, net')
  BY DEF IInv, Network, ReceiveBare, Arrives
<1> QED BY <1>2, <1>3, <1>4 DEF IInv, FifoStep

LEMMA OtherSteps ==
    ASSUME IInv,
           \/ \E p \in net : Lose(p)
           \/ \E due \in SUBSET rel_send.unacked : Retransmit(due)
           \/ Tick
           \/ UNCHANGED vars
    PROVE  IInv' /\ FifoStep
<1>1. /\ UNCHANGED <<written, rel_send, rel_recv, delivered>>
      /\ net' \subseteq net \cup rel_send.unacked
      /\ now' \in 1..(MaxNow + 1)
  BY ReliableAssumption DEF IInv, Lose, Retransmit, Tick, vars
<1>2. \A p \in rel_send.unacked : p \in Messages /\ Carries(written, p)
  BY DEF IInv, Sender
<1>3. Network(written, net')
  BY <1>1, <1>2 DEF IInv, Network
<1> QED BY <1>1, <1>3 DEF IInv, FifoStep

LEMMA Step == IInv /\ [Next]_vars => IInv' /\ FifoStep
  BY WriteStep, ReceiveMessageStep, ReceiveAckStep, ReceiveBareStep, SendBareStep,
     SenderStartsSslStep, ReceiverStartsSslStep, OtherSteps DEF Next

\* The invariant that carries the proofs: a packet under way or kept by either
\* side carries the message of its id, and what is delivered is a prefix of
\* what was written.
THEOREM ChannelInductive == Spec => []IInv
<1>1. Init => IInv
  BY InitInv
<1>2. IInv /\ [Next]_vars => IInv'
  BY Step
<1> QED BY <1>1, <1>2, PTL DEF Spec

\* The two windows, the packets in them and the replay filter keep their ranges.
THEOREM ChannelTypeCorrect == Spec => []TypeOK
<1>1. IInv => TypeOK
  <2> SUFFICES ASSUME IInv PROVE TypeOK
    OBVIOUS
  <2>1. /\ rel_send \in [next : Nat, head : Nat, unacked : SUBSET Messages, pid : Nat,
                         bare : 0..MaxBare, ssl_started : BOOLEAN]
        /\ rel_send.pid <= rel_send.next + rel_send.bare
        /\ rel_send.next <= Len(written) /\ Len(written) <= MaxMessages /\ Len(written) \in Nat
        /\ rel_send.next <= rel_send.head + Span
        /\ \A p \in rel_send.unacked : rel_send.head <= p.id /\ p.id < rel_send.next /\ p.id \in Nat
    BY DEF IInv, Sender, Carries
  <2>2. rel_send.pid \in Pid
    BY <2>1, ReliableAssumption, PacketIdAssumption DEF Pid
  <2>3. \A p \in rel_send.unacked : p.id < rel_send.head + Span
    BY <2>1, ReliableAssumption
  <2>4. rel_send \in [next : Nat, head : Nat, unacked : SUBSET Messages, pid : Pid,
                      bare : 0..MaxBare, ssl_started : BOOLEAN]
    BY <2>1, <2>2
  <2> QED BY <2>1, <2>3, <2>4 DEF IInv, TypeOK, Receiver, Holding, Network
<1> QED BY <1>1, ChannelInductive, PTL

\* Whatever the network does and the replay filter refuses, what the receiver
\* hands up (up_sequenced) is what was written (app_send), once and in order.
THEOREM ChannelIsFifo == Spec => FifoSpec
<1>1. Init => Fifo!Init
  BY DEF Init, Fifo!Init
<1>2. IInv /\ [Next]_vars => [Fifo!Next]_<<written, delivered>>
  BY Step DEF FifoStep
<1>3. Fifo!vars = <<written, delivered>>
  BY DEF Fifo!vars
<1> QED BY <1>1, <1>2, <1>3, ChannelInductive, PTL DEF Spec, FifoSpec, Fifo!Spec, Fifo!vars

-----------------------------------------------------------------------------
(* Acknowledgements, without packet identifiers.                           *)

LEMMA AckInit == Init => AckInv
<1> SUFFICES ASSUME Init PROVE AckInv
  OBVIOUS
<1>1. net = {} /\ rel_send.next = 0
  BY DEF Init
<1> QED BY <1>1 DEF AckInv, AckedIsReceived

\* When flush() has numbered more messages, no acknowledged one is new.
LEMMA AckFlush ==
    ASSUME IInv, AckInv, NEW w \in Seq(Data), Len(w) <= MaxMessages, NEW s, Sender(w, s),
           \A i \in 0..(s.next - 1) : i \notin Unacked(s) => Received(rel_recv, i),
           rel_send' = Flush(w, s), rel_recv' = rel_recv,
           NEW rest \in {net} \cup {net \ {a} : a \in net}, net' = rest \cup Sent(w, s)
    PROVE  AckInv'
<1>1. /\ \A p \in Sent(w, s) : p.kind = "message"
      /\ \A i \in 0..(rel_send'.next - 1) :
            i \in Unacked(rel_send') \/ (i < s.next /\ i \notin Unacked(s))
  BY FlushOk
<1>2. \A a \in net' : a.kind = "ack" => Received(rel_recv', a.id)
  <2>1. \A a \in net' : a.kind = "ack" => a \in net
    BY <1>1
  <2> QED BY <2>1 DEF AckInv
<1>3. \A i \in 0..(rel_send'.next - 1) : i \notin Unacked(rel_send') => Received(rel_recv', i)
  <2> SUFFICES ASSUME NEW i \in 0..(rel_send'.next - 1), i \notin Unacked(rel_send')
               PROVE  Received(rel_recv, i)
    OBVIOUS
  <2>1. i < s.next /\ i \notin Unacked(s) /\ s.next \in Nat
    BY <1>1 DEF Sender
  <2>2. i \in 0..(s.next - 1)
    BY <2>1
  <2> QED BY <2>1, <2>2
<1> QED BY <1>2, <1>3 DEF AckInv, AckedIsReceived, Received

LEMMA AckReceive ==
    ASSUME IInv, AckInv, ~ReplayProtected, NEW p \in net, ReceiveMessage(p)
    PROVE  AckInv'
<1> DEFINE accepted == PidOk(rel_recv, p) /\ InWindow(rel_recv, p.id)
           acks == IF AckToSender(rel_recv, p) THEN {[kind |-> "ack", id |-> p.id]} ELSE {}
<1>1. p \in Messages /\ Carries(written, p) /\ p.id \in Nat
  BY DEF IInv, Network, ReceiveMessage, Messages, Acks, Bare
<1>2. Filtered(rel_recv, p, accepted) = rel_recv /\ PidOk(rel_recv, p)
  BY DEF Filtered, PidOk
<1>3. PICK rest \in {net, net \ {p}} : net' = rest \cup acks
  BY DEF ReceiveMessage
<1>4. /\ rel_send' = rel_send
      /\ IF InWindow(rel_recv, p.id) THEN rel_recv' = Advanced(Put(rel_recv, p))
         ELSE rel_recv' = rel_recv
  BY <1>2 DEF ReceiveMessage
<1>5. /\ \A i \in Nat : Received(rel_recv, i) => Received(rel_recv', i)
      /\ InWindow(rel_recv, p.id) => Received(rel_recv', p.id)
  <2>1. CASE InWindow(rel_recv, p.id)
    <3>1. /\ Holding(written, delivered, Put(rel_recv, p))
          /\ Received(Put(rel_recv, p), p.id)
          /\ \A i : Received(rel_recv, i) => Received(Put(rel_recv, p), i)
      BY <1>1, <2>1, PutOk DEF IInv, Receiver
    <3>2. \A i \in Nat : Received(Put(rel_recv, p), i) => Received(rel_recv', i)
      BY <1>4, <2>1, <3>1, AdvancedOk DEF IInv
    <3> QED BY <1>1, <3>1, <3>2
  <2>2. CASE ~InWindow(rel_recv, p.id)
    BY <1>4, <2>2
  <2> QED BY <2>1, <2>2
<1>6. PreWindow(rel_recv, p.id) => Received(rel_recv', p.id)
  BY <1>1, <1>5 DEF PreWindow, Received
<1>7. \A a \in acks : Received(rel_recv', a.id)
  BY <1>2, <1>5, <1>6 DEF AckToSender
<1>8. \A a \in net : a.kind = "ack" => a.id \in Nat
  BY DEF IInv, Network, Messages, Acks, Bare
<1> HIDE DEF acks
<1>9. \A a \in net' : a.kind = "ack" => Received(rel_recv', a.id)
  BY <1>3, <1>5, <1>7, <1>8 DEF AckInv
<1>10. \A i \in 0..(rel_send.next - 1) : i \notin Unacked(rel_send) => Received(rel_recv', i)
  BY <1>5 DEF AckInv, AckedIsReceived, Received
<1> QED BY <1>4, <1>9, <1>10 DEF AckInv, AckedIsReceived, Received

LEMMA AckStep == ASSUME ~ReplayProtected PROVE IInv /\ AckInv /\ [Next]_vars => AckInv'
<1> SUFFICES ASSUME IInv, AckInv, [Next]_vars PROVE AckInv'
  OBVIOUS
<1>1. \A i \in 0..(rel_send.next - 1) : i \notin Unacked(rel_send) => Received(rel_recv, i)
  BY DEF AckInv, AckedIsReceived, Received
<1>2. ASSUME NEW d \in Data, Write(d) PROVE AckInv'
  <2>1. written' \in Seq(Data) /\ Len(written') <= MaxMessages
    BY <1>2, WriteStep DEF IInv
  <2>2. Sender(written', rel_send)
    BY <1>2, SenderAppend DEF IInv, Write
  <2>3. rel_send' = Flush(written', rel_send) /\ net' = net \cup Sent(written', rel_send)
        /\ rel_recv' = rel_recv
    BY <1>2 DEF Write
  <2> QED BY <1>1, <2>1, <2>2, <2>3, AckFlush
<1>3. ASSUME NEW p \in net, ReceiveMessage(p) PROVE AckInv'
  BY <1>3, AckReceive
<1>4. ASSUME NEW a \in net, ReceiveAck(a) PROVE AckInv'
  <2> DEFINE s == Ack(rel_send, a.id)
  <2>1. a.id \in Nat /\ a.kind = "ack"
    BY <1>4 DEF IInv, Network, ReceiveAck, Messages, Acks, Bare
  <2>2. /\ Sender(written, s) /\ s.next = rel_send.next
        /\ s.unacked = {p \in rel_send.unacked : p.id # a.id}
    BY <2>1, AckOk DEF IInv
  <2>3. PICK rest \in {net, net \ {a}} : net' = rest \cup Sent(written, s)
    BY <1>4 DEF ReceiveAck
  <2>4. rel_send' = Flush(written, s) /\ rel_recv' = rel_recv
    BY <1>4 DEF ReceiveAck
  <2>5. Received(rel_recv, a.id)
    BY <2>1 DEF AckInv
  <2> HIDE DEF s
  <2>6. \A i \in 0..(s.next - 1) : i \notin Unacked(s) => Received(rel_recv, i)
    <3> SUFFICES ASSUME NEW i \in 0..(rel_send.next - 1), i \notin Unacked(s), i # a.id
                 PROVE  Received(rel_recv, i)
      BY <2>2, <2>5
    <3>1. i \notin Unacked(rel_send)
      BY <2>2 DEF Unacked
    <3> QED BY <1>1, <3>1
  <2>7. rest \in {net} \cup {net \ {x} : x \in net}
    OBVIOUS
  <2>8. written \in Seq(Data) /\ Len(written) <= MaxMessages
    BY DEF IInv
  <2> QED BY <2>2, <2>3, <2>4, <2>6, <2>7, <2>8, AckFlush
<1>5. CASE SenderStartsSsl
  <2> DEFINE s == [rel_send EXCEPT !.ssl_started = TRUE]
  <2>1. Sender(written, s) /\ s.next = rel_send.next /\ s.unacked = rel_send.unacked
    BY DEF IInv, Sender
  <2>2. rel_send' = Flush(written, s) /\ net' = net \cup Sent(written, s) /\ rel_recv' = rel_recv
    BY <1>5 DEF SenderStartsSsl
  <2> HIDE DEF s
  <2>3. \A i \in 0..(s.next - 1) : i \notin Unacked(s) => Received(rel_recv, i)
    BY <1>1, <2>1 DEF Unacked
  <2>4. written \in Seq(Data) /\ Len(written) <= MaxMessages
    BY DEF IInv
  <2> QED BY <2>1, <2>2, <2>3, <2>4, AckFlush
<1>6. CASE ReceiverStartsSsl
  <2> DEFINE r == [rel_recv EXCEPT !.ssl_started = TRUE]
  <2>1. Holding(written, delivered, r) /\ r.head = rel_recv.head /\ r.got = rel_recv.got
    BY DEF IInv, Receiver, Holding
  <2>2. rel_recv' = Advanced(r) /\ UNCHANGED <<rel_send, net>>
    BY <1>6 DEF ReceiverStartsSsl
  <2> HIDE DEF r
  <2>3. \A i \in Nat : Received(rel_recv, i) => Received(rel_recv', i)
    BY <2>1, <2>2, AdvancedOk DEF IInv, Received
  <2>4. \A a \in net : a.kind = "ack" => a.id \in Nat
    BY DEF IInv, Network, Messages, Acks, Bare
  <2>5. \A i \in 0..(rel_send.next - 1) : i \notin Unacked(rel_send) => Received(rel_recv', i)
    BY <1>1, <2>3
  <2> QED BY <2>2, <2>3, <2>4, <2>5 DEF AckInv, AckedIsReceived, Received
<1>7. CASE \/ \E p \in net : ReceiveBare(p) \/ Lose(p)
           \/ \E due \in SUBSET rel_send.unacked : Retransmit(due)
           \/ SendBare \/ Tick \/ UNCHANGED vars
  <2>1. UNCHANGED <<rel_send, rel_recv>> /\ net' \subseteq net \cup rel_send.unacked
    BY <1>7 DEF ReceiveBare, Lose, Retransmit, SendBare, Tick, vars, Filtered, Arrives
  <2>2. \A p \in rel_send.unacked : p.kind # "ack"
    BY DEF IInv, Sender, Messages
  <2>3. \A a \in net' : a.kind = "ack" => a \in net
    BY <2>1, <2>2
  <2> QED BY <2>1, <2>3 DEF AckInv, AckedIsReceived
<1> QED BY <1>2, <1>3, <1>4, <1>5, <1>6, <1>7 DEF Next

\* Without tls-auth and tls-crypt an acknowledgement, and the message that
\* ReliableSend::ack erases for it, always stand for one that the receiver has.
THEOREM AckedMeansReceived == ASSUME ~ReplayProtected PROVE Spec => []AckedIsReceived
<1>1. Init => AckInv
  BY AckInit
<1>2. IInv /\ AckInv /\ [Next]_vars => AckInv'
  BY AckStep
<1>3. AckInv => AckedIsReceived
  BY DEF AckInv
<1> QED BY <1>1, <1>2, <1>3, ChannelInductive, PTL DEF Spec

\* And the sender never has a message outstanding that the window of the
\* receiver has no slot for, once the receiver's TLS takes what is in sequence.
THEOREM RoomForAll == ASSUME ~ReplayProtected PROVE Spec => []ReceiverHasRoom
<1>1. Init => AckInv
  BY AckInit
<1>2. IInv /\ AckInv /\ [Next]_vars => AckInv'
  BY AckStep
<1>3. IInv /\ AckInv => ReceiverHasRoom
  <2> SUFFICES ASSUME IInv, AckInv, rel_recv.ssl_started, NEW p \in rel_send.unacked
               PROVE  p.id < rel_recv.head + Span
    BY DEF ReceiverHasRoom
  <2>1. /\ rel_send.head \in Nat /\ rel_send.next \in Nat /\ rel_send.head <= rel_send.next
        /\ rel_send.next <= rel_send.head + Span /\ p.id < rel_send.next /\ p.id \in Nat
        /\ \A q \in rel_send.unacked : rel_send.head <= q.id
    BY DEF IInv, Sender, Carries
  <2>2. rel_recv.head \in Nat /\ Sequenced(rel_recv) = {} /\ Span \in Nat \ {0}
    BY ReliableAssumption DEF IInv, Receiver, Holding
  <2>3. ASSUME rel_recv.head < rel_send.head PROVE FALSE
    <3>1. rel_recv.head \in 0..(rel_send.next - 1) /\ rel_recv.head \notin Unacked(rel_send)
      BY <2>1, <2>2, <2>3 DEF Unacked
    <3>2. \E q \in rel_recv.got : q.id = rel_recv.head
      BY <2>2, <3>1 DEF AckInv, AckedIsReceived
    <3>3. rel_recv.head \in Sequenced(rel_recv)
      BY <2>2, <3>2 DEF Sequenced
    <3> QED BY <2>2, <3>3
  <2> QED BY <2>1, <2>2, <2>3
<1> QED BY <1>1, <1>2, <1>3, ChannelInductive, PTL DEF Spec

=============================================================================
