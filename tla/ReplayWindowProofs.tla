------------------------- MODULE ReplayWindowProofs -------------------------
(***************************************************************************)
(* Proofs about ReplayWindow, for every window size, expiry and largest    *)
(* id: the window never accepts an identifier twice and raises no false    *)
(* alarm.  The inductive invariant says what the ring buffer means: the    *)
(* bit d slots above the base is that of the id d below the highest one.   *)
(***************************************************************************)
EXTENDS ReplayWindow, TLAPS

Past(r, p) == p.time < r.time_high \/ (p.time = r.time_high /\ p.id <= r.id_high)

Below(r, d) == [id |-> r.id_high - d, time |-> r.time_high]

Ring(r, acc) ==
    \A d \in 0..(r.extent - 1) : r.history[ReplayIndex(r.base, d)] <=> acc[Below(r, d)] = 1

\* What the receiver r has to do with the accepted identifiers acc.
Faithful(r, acc) ==
    /\ r \in Receivers
    /\ r.time_high <= MaxNow
    /\ r.extent <= r.id_high
    /\ r.extent # 0 => r.time_high # 0
    /\ acc \in [Packets -> 0..1]
    /\ \A p \in Packets : acc[p] = 1 => Past(r, p)
    /\ Ring(r, acc)

IInv ==
    /\ snd \in Senders
    /\ snd.time <= MaxNow
    /\ sent \subseteq Packets
    /\ now \in 1..MaxNow
    /\ Faithful(rcv, accepted)

-----------------------------------------------------------------------------
(* The ring.                                                               *)

LEMMA IndexRange ==
    ASSUME NEW b \in Slots, NEW i \in Int, -WindowSize < i, i < WindowSize
    PROVE  ReplayIndex(b, i) \in Slots
  BY PacketIdAssumption DEF ReplayIndex, Slots

LEMMA SlotRange ==
    ASSUME NEW b \in Slots, NEW i \in Slots
    PROVE  ReplayIndex(b, i) \in Slots
  BY PacketIdAssumption DEF ReplayIndex, Slots

LEMMA IndexInjective ==
    ASSUME NEW b \in Slots, NEW i \in Slots, NEW j \in Slots,
           ReplayIndex(b, i) = ReplayIndex(b, j)
    PROVE  i = j
  BY PacketIdAssumption DEF ReplayIndex, Slots

LEMMA IndexZero == ASSUME NEW b \in Slots PROVE ReplayIndex(b, 0) = b
  BY PacketIdAssumption DEF ReplayIndex, Slots

\* Moving the base down by k slots shifts every offset up by k.
LEMMA IndexShift ==
    ASSUME NEW b \in Slots, NEW k \in Slots, NEW i \in Slots, i >= k
    PROVE  ReplayIndex(ReplayIndex(b, -k), i) = ReplayIndex(b, i - k)
  BY PacketIdAssumption DEF ReplayIndex, Slots

-----------------------------------------------------------------------------
(* The operations of the receiver.                                         *)

LEMMA AgedFaithful ==
    ASSUME NEW r, NEW acc, Faithful(r, acc), NEW t \in Nat
    PROVE  /\ Faithful(Aged(r, t), acc)
           /\ Aged(r, t).time_high = r.time_high
           /\ Aged(r, t).id_high = r.id_high
<1> DEFINE a == Aged(r, t)
           floor == IF t >= r.expire THEN r.id_high ELSE r.id_floor
<1>1. r \in Receivers
  BY DEF Faithful
<1>2. floor \in 0..MaxId /\ t + ExpireAfter \in Nat
  BY <1>1, PacketIdAssumption DEF Receivers
<1>3. a = [[r EXCEPT !.id_floor = floor] EXCEPT !.expire = t + ExpireAfter]
  BY <1>1 DEF Aged, Receivers
<1>4. [r EXCEPT !.id_floor = floor] \in Receivers
  BY <1>1, <1>2 DEF Receivers
<1> HIDE DEF floor, a
<1>5. a \in Receivers
  BY <1>2, <1>3, <1>4 DEF Receivers
<1>6. /\ a.base = r.base /\ a.extent = r.extent /\ a.id_high = r.id_high
      /\ a.time_high = r.time_high /\ a.history = r.history
  BY <1>1, <1>3 DEF Receivers
<1>7. Ring(a, acc)
  BY <1>6 DEF Faithful, Ring, Below
<1>8. Faithful(a, acc)
  BY <1>5, <1>6, <1>7 DEF Faithful, Past
<1> QED BY <1>6, <1>8 DEF a

LEMMA ForwardedFaithful ==
    ASSUME NEW r, NEW acc, Faithful(r, acc), NEW p \in Packets, p.time >= r.time_high
    PROVE  /\ Faithful(Forwarded(r, p), acc)
           /\ Forwarded(r, p).time_high = p.time
<1>1. CASE p.time = r.time_high
  BY <1>1 DEF Forwarded, Packets
<1>2. CASE p.time > r.time_high
  <2> DEFINE f == Forwarded(r, p)
  <2>1. r \in Receivers /\ p.time \in Nat /\ p.time <= MaxNow /\ p.time >= 1
    BY ReplayWindowAssumption DEF Faithful, Packets
  <2>2. /\ f.base = 0 /\ f.extent = 0 /\ f.id_high = 0
        /\ f.time_high = p.time /\ f.id_floor = 0
        /\ f.history = r.history /\ f.expire = r.expire
    BY <1>2, <2>1 DEF Forwarded, Receivers
  <2>3. f = [base |-> 0, extent |-> 0, expire |-> r.expire, id_high |-> 0,
             time_high |-> p.time, id_floor |-> 0, history |-> r.history]
    BY <1>2, <2>1 DEF Forwarded, Receivers
  <2>4. /\ 0 \in Slots /\ 0 \in 0..WindowSize /\ 0 \in 0..MaxId
        /\ r.expire \in Nat /\ r.history \in [Slots -> BOOLEAN]
    BY <2>1, PacketIdAssumption DEF Receivers, Slots
  <2>5. f \in Receivers
    BY <2>1, <2>3, <2>4 DEF Receivers
  <2> HIDE DEF f
  <2>6. Ring(f, acc)
    BY <2>2 DEF Ring
  <2>7. \A q \in Packets : acc[q] = 1 => Past(f, q)
    BY <1>2, <2>1, <2>2 DEF Faithful, Past, Packets, Receivers
  <2>8. Faithful(f, acc)
    BY <2>1, <2>2, <2>5, <2>6, <2>7 DEF Faithful
  <2> QED BY <2>2, <2>8 DEF f
<1> QED BY <1>1, <1>2 DEF Faithful, Receivers, Packets

\* A jump shorter than the window.
LEMMA SlideFaithful ==
    ASSUME NEW r, NEW acc, Faithful(r, acc), NEW p \in Packets,
           p.time = r.time_high, p.id > r.id_high
    PROVE  Faithful(Slide(r, p.id - r.id_high), [acc EXCEPT ![p] = 1])
<1> DEFINE delta == p.id - r.id_high
           acc2 == [acc EXCEPT ![p] = 1]
           s == Slide(r, delta)
<1>1. /\ r \in Receivers /\ acc \in [Packets -> 0..1]
      /\ p.id \in 1..MaxId /\ p.time \in 1..MaxNow
      /\ r.id_high \in 0..MaxId /\ r.extent \in 0..WindowSize /\ r.extent <= r.id_high
      /\ r.base \in Slots /\ r.history \in [Slots -> BOOLEAN]
  BY DEF Faithful, Packets, Receivers
<1>2. delta \in 1..MaxId /\ r.id_high + delta = p.id
  BY <1>1, PacketIdAssumption
<1>3. acc2 \in [Packets -> 0..1] /\ acc2[p] = 1
      /\ \A q \in Packets : q # p => acc2[q] = acc[q]
  BY <1>1
<1>4. acc[p] = 0
  BY <1>1 DEF Faithful, Past
<1>5. \A q \in Packets : acc2[q] = 1 => q.time < p.time \/ (q.time = p.time /\ q.id <= p.id)
  BY <1>1, <1>3 DEF Faithful, Past, Packets, Receivers
<1> HIDE DEF delta, acc2
<1>6. CASE delta < WindowSize
  <2> DEFINE base == ReplayIndex(r.base, -delta)
             extent == Extended(r.extent, delta)
             history == Shifted(r.history, base, delta)
  <2>1. base \in Slots
    <3>1. -delta \in Int /\ -WindowSize < -delta /\ -delta < WindowSize
      BY <1>2, <1>6, PacketIdAssumption
    <3> QED BY <1>1, <3>1, IndexRange
  <2>2. extent \in 0..WindowSize /\ extent <= r.extent + delta /\ extent <= p.id
    BY <1>1, <1>2, <1>6, PacketIdAssumption DEF Extended
  <2>3. history \in [Slots -> BOOLEAN]
    BY DEF Shifted
  <2>4. s = [base |-> base, extent |-> extent, expire |-> r.expire, id_high |-> p.id,
             time_high |-> r.time_high, id_floor |-> r.id_floor, history |-> history]
    BY <1>1, <1>2, <1>6 DEF Slide, Receivers
  <2> HIDE DEF base, extent, history, s
  <2>5. r.expire \in Nat /\ r.time_high \in Nat /\ r.id_floor \in 0..MaxId
    BY <1>1 DEF Receivers
  <2>6. s \in Receivers
    BY <1>1, <2>1, <2>2, <2>3, <2>4, <2>5 DEF Receivers
  <2>7. Ring(s, acc2)
    <3> SUFFICES ASSUME NEW d \in 0..(extent - 1)
                 PROVE  history[ReplayIndex(base, d)] <=> acc2[[id |-> p.id - d, time |-> p.time]] = 1
      BY <2>4 DEF Ring, Below
    <3> DEFINE q == [id |-> p.id - d, time |-> p.time]
               slot == ReplayIndex(base, d)
               jumped == {ReplayIndex(base, i) : i \in 1..(delta - 1)}
    <3>1. d \in Slots /\ 0 \in Slots /\ d \in Nat /\ d < p.id
      BY <1>1, <2>2, PacketIdAssumption DEF Slots
    <3>2. q \in Packets /\ q.id = p.id - d /\ q.time = p.time
      <4>1. p.id - d \in 1..MaxId
        BY <1>1, <3>1, PacketIdAssumption
      <4> QED BY <1>1, <4>1 DEF Packets
    <3>3. slot \in Slots
      BY <2>1, <3>1, SlotRange
    <3>4. slot = base <=> d = 0
      BY <2>1, <3>1, IndexZero, IndexInjective
    <3>5. slot \in jumped <=> d \in 1..(delta - 1)
      <4>1. \A i \in 1..(delta - 1) : i \in Slots
        BY <1>2, <1>6, PacketIdAssumption DEF Slots
      <4>2. ASSUME NEW i \in 1..(delta - 1), slot = ReplayIndex(base, i)
            PROVE  i = d
        BY <2>1, <3>1, <4>1, <4>2, IndexInjective
      <4> QED BY <4>2
    <3>6. history[slot] <=> (slot = base \/ (slot \notin jumped /\ r.history[slot]))
      BY <3>3 DEF history, Shifted
    <3>7. CASE d = 0
      <4>1. q = p
        BY <1>1, <3>7 DEF Packets
      <4> QED BY <1>3, <3>4, <3>6, <3>7, <4>1
    <3>8. CASE d \in 1..(delta - 1)
      <4>1. q # p /\ ~Past(r, q)
        BY <1>1, <1>2, <3>2, <3>8 DEF Past
      <4>2. acc2[q] # 1
        BY <1>3, <3>2, <4>1 DEF Faithful
      <4>3. ~history[slot]
        BY <3>4, <3>5, <3>6, <3>8
      <4> QED BY <4>2, <4>3
    <3>9. CASE d >= delta
      <4>1. d - delta \in 0..(r.extent - 1) /\ delta \in Slots
        <5>1. d < extent /\ d \in Nat /\ delta \in Nat
          BY <1>2, <2>2, <3>1
        <5> QED BY <1>1, <1>2, <1>6, <2>2, <3>9, <5>1, PacketIdAssumption DEF Slots
      <4>2. slot = ReplayIndex(r.base, d - delta)
        BY <1>1, <3>1, <3>9, <4>1, IndexShift DEF base
      <4>3. Below(r, d - delta) = q
        BY <1>1, <1>2, <3>1 DEF Below
      <4>4. r.history[slot] <=> acc[q] = 1
        BY <4>1, <4>2, <4>3 DEF Faithful, Ring
      <4>5. q # p
        BY <1>1, <1>2, <3>1, <3>2, <3>9
      <4>6. history[slot] <=> r.history[slot]
        BY <1>2, <3>4, <3>5, <3>6, <3>9
      <4> QED BY <1>3, <3>2, <4>4, <4>5, <4>6
    <3> QED BY <1>2, <3>1, <3>7, <3>8, <3>9
  <2>8. \A q \in Packets : acc2[q] = 1 => Past(s, q)
    BY <1>5, <2>4 DEF Past
  <2> QED BY <1>1, <1>3, <2>2, <2>4, <2>6, <2>7, <2>8 DEF Faithful, acc2, delta, s
<1>7. CASE delta >= WindowSize
  <2> DEFINE history == [i \in Slots |-> i = 0]
  <2>1. s = [base |-> 0, extent |-> WindowSize, expire |-> r.expire, id_high |-> p.id,
             time_high |-> r.time_high, id_floor |-> r.id_floor, history |-> history]
    <3>1. ~(delta < WindowSize)
      BY <1>2, <1>7, PacketIdAssumption
    <3>2. s = [r EXCEPT !.base = 0, !.extent = WindowSize, !.id_high = p.id, !.history = history]
      BY <1>1, <1>2, <3>1 DEF Slide, Receivers
    <3> QED BY <1>1, <3>2 DEF Receivers
  <2>2. /\ r.expire \in Nat /\ r.time_high \in Nat /\ r.id_floor \in 0..MaxId
        /\ 0 \in Slots /\ WindowSize \in 0..WindowSize /\ history \in [Slots -> BOOLEAN]
    BY <1>1, PacketIdAssumption DEF Receivers, Slots
  <2>3. WindowSize <= p.id
    BY <1>1, <1>2, <1>7, PacketIdAssumption
  <2> HIDE DEF s
  <2>4. s \in Receivers
    BY <1>1, <2>1, <2>2 DEF Receivers
  <2>5. Ring(s, acc2)
    <3> SUFFICES ASSUME NEW d \in Slots
                 PROVE  history[ReplayIndex(0, d)] <=> acc2[[id |-> p.id - d, time |-> p.time]] = 1
      BY <2>1 DEF Ring, Below, Slots
    <3> DEFINE q == [id |-> p.id - d, time |-> p.time]
    <3>1. q \in Packets /\ q.id = p.id - d /\ q.time = p.time
      BY <1>1, <2>3, PacketIdAssumption DEF Packets, Slots
    <3>2. ReplayIndex(0, d) \in Slots /\ (ReplayIndex(0, d) = 0 <=> d = 0)
      BY PacketIdAssumption DEF ReplayIndex, Slots
    <3>3. CASE d = 0
      <4>1. q = p
        BY <1>1, <3>3 DEF Packets
      <4> QED BY <1>3, <3>2, <3>3, <4>1
    <3>4. CASE d # 0
      <4>1. q # p /\ ~Past(r, q)
        BY <1>1, <1>2, <1>7, <3>1, <3>4, PacketIdAssumption DEF Past, Slots
      <4>2. acc2[q] # 1
        BY <1>3, <3>1, <4>1 DEF Faithful
      <4> QED BY <3>2, <3>4, <4>2
    <3> QED BY <3>3, <3>4
  <2>6. \A q \in Packets : acc2[q] = 1 => Past(s, q)
    BY <1>5, <2>1 DEF Past
  <2> QED BY <1>1, <1>3, <2>1, <2>3, <2>4, <2>5, <2>6 DEF Faithful, acc2, delta, s
<1> QED BY <1>1, <1>2, <1>6, <1>7, PacketIdAssumption

LEMMA MarkFaithful ==
    ASSUME NEW r, NEW acc, Faithful(r, acc), NEW p \in Packets,
           p.time = r.time_high, p.id <= r.id_high, r.id_high - p.id < r.extent
    PROVE  Faithful(Mark(r, r.id_high - p.id), [acc EXCEPT ![p] = 1])
<1> DEFINE delta == r.id_high - p.id
           acc2 == [acc EXCEPT ![p] = 1]
           slot == ReplayIndex(r.base, delta)
           m == Mark(r, delta)
<1>1. /\ r \in Receivers /\ acc \in [Packets -> 0..1]
      /\ p.id \in 1..MaxId /\ p.time \in 1..MaxNow
      /\ r.id_high \in 0..MaxId /\ r.extent \in 0..WindowSize /\ r.extent <= r.id_high
      /\ r.base \in Slots /\ r.history \in [Slots -> BOOLEAN]
  BY DEF Faithful, Packets, Receivers
<1>2. delta \in Slots /\ delta \in 0..(r.extent - 1)
  BY <1>1, PacketIdAssumption DEF Slots
<1>3. slot \in Slots
  BY <1>1, <1>2, SlotRange
<1>4. m = [base |-> r.base, extent |-> r.extent, expire |-> r.expire, id_high |-> r.id_high,
           time_high |-> r.time_high, id_floor |-> r.id_floor,
           history |-> [r.history EXCEPT ![slot] = TRUE]]
  <2>1. m = [r EXCEPT !.history = [@ EXCEPT ![slot] = TRUE]]
    BY <1>1 DEF Mark, Receivers
  <2> QED BY <1>1, <2>1 DEF Receivers
<1>5. acc2 \in [Packets -> 0..1] /\ acc2[p] = 1
      /\ \A q \in Packets : q # p => acc2[q] = acc[q]
  BY <1>1
<1>6. r.expire \in Nat /\ r.time_high \in Nat /\ r.id_floor \in 0..MaxId
      /\ [r.history EXCEPT ![slot] = TRUE] \in [Slots -> BOOLEAN]
  BY <1>1 DEF Receivers
<1> HIDE DEF m, acc2
<1>7. m \in Receivers
  BY <1>1, <1>4, <1>6 DEF Receivers
<1>8. Ring(m, acc2)
  <2> SUFFICES ASSUME NEW d \in 0..(r.extent - 1)
               PROVE  [r.history EXCEPT ![slot] = TRUE][ReplayIndex(r.base, d)]
                        <=> acc2[Below(r, d)] = 1
    BY <1>4 DEF Ring, Below
  <2>1. d \in Slots /\ ReplayIndex(r.base, d) \in Slots
    <3>1. d \in Slots
      BY <1>1, PacketIdAssumption DEF Slots
    <3> QED BY <1>1, <3>1, SlotRange
  <2>2. Below(r, d) \in Packets
    <3>1. r.id_high - d \in 1..MaxId
      BY <1>1, PacketIdAssumption
    <3> QED BY <1>1, <3>1 DEF Below, Packets
  <2>3. r.history[ReplayIndex(r.base, d)] <=> acc[Below(r, d)] = 1
    BY DEF Faithful, Ring
  <2>4. CASE d = delta
    <3>1. Below(r, d) = p
      BY <1>1, <2>4 DEF Below, Packets
    <3> QED BY <1>1, <1>3, <1>5, <2>4, <3>1
  <2>5. CASE d # delta
    <3>1. ReplayIndex(r.base, d) # slot
      BY <1>1, <1>2, <2>1, <2>5, IndexInjective
    <3>2. Below(r, d) # p
      BY <1>1, <2>5 DEF Below
    <3> QED BY <1>1, <1>5, <2>1, <2>2, <2>3, <3>1, <3>2
  <2> QED BY <2>4, <2>5
<1>9. \A q \in Packets : acc2[q] = 1 => Past(m, q)
  BY <1>1, <1>4, <1>5 DEF Faithful, Past
<1> QED BY <1>1, <1>4, <1>5, <1>7, <1>8, <1>9 DEF Faithful, m, acc2

\* An identifier that do_test_add answers with SUCCESS is new, and adding it
\* keeps the window faithful.
LEMMA RememberedFaithful ==
    ASSUME NEW r, NEW acc, Faithful(r, acc), NEW p \in Packets, Verdict(r, p) = "SUCCESS"
    PROVE  /\ acc[p] = 0
           /\ Faithful(Remembered(r, p), [acc EXCEPT ![p] = 1])
<1> DEFINE f == Forwarded(r, p)
<1>1. /\ p.id \in 1..MaxId /\ p.time \in 1..MaxNow /\ p.id # 0
      /\ r \in Receivers /\ acc \in [Packets -> 0..1]
  BY DEF Faithful, Packets
<1>2. /\ r.time_high \in Nat /\ r.id_high \in 0..MaxId /\ r.extent \in 0..WindowSize
      /\ r.extent <= r.id_high
  BY <1>1 DEF Faithful, Receivers
<1>3. p.time >= r.time_high
  BY <1>1, <1>2 DEF Verdict
<1>4. Faithful(f, acc) /\ f.time_high = p.time
  BY <1>3, ForwardedFaithful
<1>5. f \in Receivers
  BY <1>4 DEF Faithful
<1>6. CASE p.id > f.id_high
  <2>1. Faithful(Slide(f, p.id - f.id_high), [acc EXCEPT ![p] = 1])
    BY <1>4, <1>6, SlideFaithful
  <2>2. acc[p] = 0
    BY <1>1, <1>4, <1>5, <1>6 DEF Faithful, Past, Receivers
  <2> QED BY <1>6, <2>1, <2>2 DEF Remembered
<1>7. CASE p.id <= f.id_high
  <2>1. p.time = r.time_high /\ f = r
    BY <1>1, <1>2, <1>3, <1>7 DEF Forwarded, Receivers
  <2>2. /\ r.id_high - p.id < r.extent
        /\ ~r.history[ReplayIndex(r.base, r.id_high - p.id)]
    BY <1>1, <1>2, <1>7, <2>1 DEF Verdict
  <2>3. Faithful(Mark(r, r.id_high - p.id), [acc EXCEPT ![p] = 1])
    BY <1>7, <2>1, <2>2, MarkFaithful
  <2>4. Below(r, r.id_high - p.id) = p /\ r.id_high - p.id \in 0..(r.extent - 1)
    BY <1>1, <1>2, <1>7, <2>1, <2>2 DEF Below, Packets
  <2>5. acc[p] = 0
    BY <1>1, <2>2, <2>4 DEF Faithful, Ring
  <2> QED BY <1>1, <1>2, <1>7, <2>1, <2>3, <2>5 DEF Remembered
<1> QED BY <1>1, <1>5, <1>6, <1>7 DEF Receivers

\* What test_add calls a replay was accepted before.
LEMMA ReplayWasAccepted ==
    ASSUME NEW r, NEW acc, Faithful(r, acc), NEW p \in Packets, Verdict(r, p) = "PKTID_REPLAY"
    PROVE  acc[p] = 1
<1>1. /\ p.id \in 1..MaxId /\ p.time \in 1..MaxNow /\ p.id # 0
      /\ r.time_high \in Nat /\ r.id_high \in 0..MaxId /\ r.extent \in 0..WindowSize
  BY DEF Faithful, Packets, Receivers
<1>2. /\ p.time = r.time_high
      /\ p.id <= r.id_high
      /\ r.id_high - p.id < r.extent
      /\ r.history[ReplayIndex(r.base, r.id_high - p.id)]
  BY <1>1 DEF Verdict
<1>3. Below(r, r.id_high - p.id) = p /\ r.id_high - p.id \in 0..(r.extent - 1)
  BY <1>1, <1>2 DEF Below, Packets
<1> QED BY <1>2, <1>3 DEF Faithful, Ring

-----------------------------------------------------------------------------
(* The invariant.                                                          *)

LEMMA InitIInv == Init => IInv
<1> SUFFICES ASSUME Init PROVE IInv
  OBVIOUS
<1> USE PacketIdAssumption, ReplayWindowAssumption
<1>1. 0 \in Slots /\ 0 \in 0..WindowSize /\ 0 \in 0..MaxId /\ [i \in Slots |-> FALSE] \in [Slots -> BOOLEAN]
  BY DEF Slots
<1>2. rcv \in Receivers
  BY <1>1 DEF Init, NewReceiver, Receivers
<1>3. rcv.time_high = 0 /\ rcv.extent = 0 /\ rcv.id_high = 0
  BY DEF Init, NewReceiver
<1>4. accepted \in [Packets -> 0..1] /\ \A p \in Packets : accepted[p] = 0
  BY DEF Init
<1>5. Ring(rcv, accepted)
  BY <1>3 DEF Ring
<1>6. Faithful(rcv, accepted)
  BY <1>2, <1>3, <1>4, <1>5 DEF Faithful
<1>7. snd \in Senders /\ snd.time <= MaxNow
  BY DEF Init, NewSender, Senders
<1> QED BY <1>6, <1>7 DEF Init, IInv

LEMMA NextIInv == IInv /\ [Next]_vars => IInv'
<1> SUFFICES ASSUME IInv, [Next]_vars PROVE IInv'
  OBVIOUS
<1>1. CASE Send
  <2>1. /\ snd.id \in 0..MaxId /\ snd.time \in Nat /\ snd.time <= MaxNow
        /\ now \in 1..MaxNow
        /\ snd' = [id |-> IF snd.id = MaxId THEN 1 ELSE snd.id + 1,
                   time |-> IF snd.time = 0 \/ snd.id = MaxId THEN now ELSE snd.time]
    BY <1>1 DEF IInv, Send, Senders, NextPid, Wraps
  <2>2. snd'.id \in 1..MaxId /\ snd'.time \in 1..MaxNow
    BY <2>1, PacketIdAssumption, ReplayWindowAssumption
  <2>3. snd' \in Senders /\ snd' \in Packets
    BY <2>1, <2>2, ReplayWindowAssumption DEF Senders, Packets
  <2> QED BY <1>1, <2>2, <2>3, ReplayWindowAssumption DEF Send, IInv
<1>2. ASSUME NEW p \in sent, Test(p)
      PROVE  IInv'
  <2>1. rcv' = Aged(rcv, now) /\ UNCHANGED <<snd, sent, accepted, now>>
    BY <1>2 DEF Test, TestAdd
  <2>2. now \in Nat /\ Faithful(rcv, accepted)
    BY ReplayWindowAssumption DEF IInv
  <2>3. Faithful(rcv', accepted')
    BY <2>1, <2>2, AgedFaithful
  <2> QED BY <2>1, <2>3 DEF IInv
<1>3. ASSUME NEW p \in sent, Add(p)
      PROVE  IInv'
  <2> DEFINE a == Aged(rcv, now)
  <2>1. now \in Nat /\ Faithful(rcv, accepted) /\ p \in Packets
    BY ReplayWindowAssumption DEF IInv
  <2>2. Faithful(a, accepted)
    BY <2>1, AgedFaithful
  <2>3. CASE Verdict(a, p) = "SUCCESS"
    <3>1. rcv' = Remembered(a, p) /\ accepted' = [accepted EXCEPT ![p] = @ + 1]
      BY <1>3, <2>3 DEF Add, TestAdd, Accepts
    <3>2. accepted[p] = 0 /\ Faithful(Remembered(a, p), [accepted EXCEPT ![p] = 1])
      BY <2>1, <2>2, <2>3, RememberedFaithful
    <3>3. accepted' = [accepted EXCEPT ![p] = 1]
      BY <3>1, <3>2
    <3>4. Faithful(rcv', accepted')
      BY <3>1, <3>2, <3>3
    <3> QED BY <1>3, <3>4 DEF Add, IInv
  <2>4. CASE Verdict(a, p) # "SUCCESS"
    <3>1. rcv' = a /\ accepted' = accepted
      BY <1>3, <2>4 DEF Add, TestAdd, Accepts
    <3> QED BY <1>3, <2>2, <3>1 DEF Add, IInv
  <2> QED BY <2>3, <2>4
<1>4. CASE Tick
  BY <1>4, ReplayWindowAssumption DEF Tick, IInv
<1>5. CASE UNCHANGED vars
  BY <1>5 DEF vars, IInv
<1> QED BY <1>1, <1>2, <1>3, <1>4, <1>5 DEF Next

\* What PacketIDReceive and its sender keep: the bits of the window are those of
\* the ids that were accepted.
THEOREM WindowInductive == Spec => []IInv
  BY InitIInv, NextIInv, PTL DEF Spec

-----------------------------------------------------------------------------

\* The fields of the window stay in range: the base in the ring, the extent
\* no longer than it.
THEOREM WindowTypeCorrect == Spec => []TypeOK
<1>1. IInv => TypeOK
  <2> SUFFICES ASSUME IInv PROVE TypeOK
    OBVIOUS
  <2>1. accepted \in [Packets -> 0..1]
    BY DEF IInv, Faithful
  <2>2. accepted \in [Packets -> Nat]
    BY <2>1
  <2> QED BY <2>2 DEF IInv, Faithful, TypeOK
<1> QED BY <1>1, WindowInductive, PTL

\* PacketIDReceive accepts no identifier twice: test_add, for every window
\* size, expiry, order and repetition of the packets.
THEOREM AcceptedOnce == Spec => []NoReplay
<1>1. IInv => NoReplay
  <2> SUFFICES ASSUME IInv, NEW p \in Packets PROVE accepted[p] <= 1
    BY DEF NoReplay
  <2>1. accepted[p] \in 0..1
    BY DEF IInv, Faithful
  <2> QED BY <2>1
<1> QED BY <1>1, WindowInductive, PTL

\* What test_add calls a replay has been accepted before.
THEOREM ReplaysAreReplays == Spec => []NoFalseReplay
<1>1. IInv => NoFalseReplay
  <2> SUFFICES ASSUME IInv, NEW p \in sent, Verdict(Aged(rcv, now), p) = "PKTID_REPLAY"
               PROVE  accepted[p] = 1
    BY DEF NoFalseReplay
  <2>1. now \in Nat /\ Faithful(rcv, accepted) /\ p \in Packets
    BY ReplayWindowAssumption DEF IInv
  <2> QED BY <2>1, AgedFaithful, ReplayWasAccepted
<1> QED BY <1>1, WindowInductive, PTL

-----------------------------------------------------------------------------
(* The sender.                                                             *)

\* What has been sent is numbered up to the sender's time and id.
Numbered ==
    /\ snd.time <= now
    /\ \A p \in sent : p.time # 0 /\ (p.time < snd.time \/ (p.time = snd.time /\ p.id <= snd.id))

\* A send takes the next id of the same second, or the first one of a later
\* second.
LEMMA SendAdvances ==
    ASSUME IInv, Numbered, Send
    PROVE  /\ snd' \notin sent
           /\ Numbered'
<1>1. /\ snd.id \in Nat /\ snd.time \in Nat /\ now \in Nat /\ now # 0 /\ snd.time <= now
      /\ MaxId \in Nat
  BY PacketIdAssumption, ReplayWindowAssumption DEF IInv, Senders, Numbered
<1>2. \A p \in sent : /\ p.id \in Nat /\ p.time \in Nat /\ p.time # 0
                      /\ p.time < snd.time \/ (p.time = snd.time /\ p.id <= snd.id)
  BY ReplayWindowAssumption, PacketIdAssumption DEF IInv, Packets, Numbered
<1>3. /\ snd'.id = IF snd.id = MaxId THEN 1 ELSE snd.id + 1
      /\ snd'.time = IF snd.time = 0 \/ snd.id = MaxId THEN now ELSE snd.time
      /\ snd.id = MaxId => now > snd.time
      /\ sent' = sent \cup {snd'} /\ now' = now
  BY DEF Send, NextPid, Wraps
<1>4. /\ snd'.id \in Nat /\ snd'.time \in Nat /\ snd'.time # 0 /\ snd'.time <= now
      /\ snd.time < snd'.time \/ (snd.time = snd'.time /\ snd.id < snd'.id)
  BY <1>1, <1>3
<1>5. \A p \in sent : p.time < snd'.time \/ (p.time = snd'.time /\ p.id < snd'.id)
  BY <1>1, <1>2, <1>4
<1>6. snd' \notin sent
  BY <1>4, <1>5
<1>7. \A p \in sent' : p.time # 0 /\ (p.time < snd'.time \/ (p.time = snd'.time /\ p.id <= snd'.id))
  <2> SUFFICES ASSUME NEW p \in sent'
               PROVE  p.time # 0 /\ (p.time < snd'.time \/ (p.time = snd'.time /\ p.id <= snd'.id))
    OBVIOUS
  <2>1. CASE p = snd'
    BY <1>4, <2>1
  <2>2. CASE p \in sent
    BY <1>2, <1>4, <1>5, <2>2
  <2> QED BY <1>3, <2>1, <2>2
<1> QED BY <1>3, <1>4, <1>6, <1>7 DEF Numbered

LEMMA NumberedStep ==
    ASSUME IInv, Numbered, [Next]_vars
    PROVE  Numbered' /\ (snd' # snd => snd' \notin sent)
<1>1. CASE Send
  BY <1>1, SendAdvances
<1>2. CASE UNCHANGED <<snd, sent, now>>
  BY <1>2 DEF Numbered
<1>3. CASE Tick
  <2>1. UNCHANGED <<snd, sent>> /\ now' = now + 1
    BY <1>3 DEF Tick
  <2>2. snd.time \in Nat /\ now \in Nat
    BY ReplayWindowAssumption DEF IInv, Senders
  <2> QED BY <2>1, <2>2 DEF Numbered
<1> QED BY <1>1, <1>2, <1>3 DEF Next, Test, Add, vars

\* Everything that was sent is behind the sender.
THEOREM SentIsNumbered == Spec => [](IInv /\ Numbered)
<1>1. Init => IInv /\ Numbered
  <2> SUFFICES ASSUME Init PROVE Numbered
    BY InitIInv
  <2>1. snd.time = 0 /\ sent = {} /\ now = 1
    BY DEF Init, NewSender
  <2> QED BY <2>1 DEF Numbered
<1>2. (IInv /\ Numbered) /\ [Next]_vars => (IInv /\ Numbered)'
  BY NextIInv, NumberedStep
<1> QED BY <1>1, <1>2, PTL DEF Spec

\* PacketIDSend::next gives no identifier to two packets, also when a long id
\* wraps: the wrap waits for the next second and takes its time.
THEOREM NothingReused == Spec => NoReuse
<1>1. (IInv /\ Numbered) /\ [Next]_vars => [snd' # snd => snd' \notin sent]_vars
  BY NumberedStep
<1> QED BY <1>1, SentIsNumbered, PTL DEF Spec, NoReuse

=============================================================================
