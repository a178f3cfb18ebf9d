------------------------------ MODULE PacketId ------------------------------
(***************************************************************************)
(* The packet identifiers of openvpn/crypto/packet_id.hpp, as operators:   *)
(* PacketIDSend numbers packets, PacketIDReceive keeps a sliding window of *)
(* the ones that were accepted, as a bit history in a ring buffer.         *)
(***************************************************************************)
EXTENDS Integers

CONSTANTS
    WindowSize,   \* REPLAY_WINDOW_SIZE, 2048 in the code
    ExpireAfter,  \* PKTID_RECV_EXPIRE, 30 seconds in the code
    MaxId         \* the largest id_t, 2^32 - 1 in the code

ASSUME PacketIdAssumption ==
    /\ WindowSize \in Nat \ {0}
    /\ ExpireAfter \in Nat
    /\ MaxId \in Nat \ {0}

Pids == [id : 1..MaxId, time : Nat]

-----------------------------------------------------------------------------
(* PacketIDSend.  The id that would be MaxId + 1 is 0 in the code.         *)

Senders == [id : 0..MaxId, time : Nat]

NewSender == [id |-> 0, time |-> 0]

\* A sender of the short form throws packet_id_wrap instead.
Wraps(s) == s.id = MaxId

\* Mutant of NextPid: the wrap keeps the time.
NextPidSameTime(s, now) ==
    [id |-> IF Wraps(s) THEN 1 ELSE s.id + 1,
     time |-> IF s.time = 0 THEN now ELSE s.time]

\* PacketIDSend::next: what is sent, and what the sender keeps.
NextPid(s, now) ==
    [id |-> IF Wraps(s) THEN 1 ELSE s.id + 1,
     time |-> IF s.time = 0 \/ Wraps(s) THEN now ELSE s.time]

-----------------------------------------------------------------------------
(* PacketIDReceive.                                                        *)

Slots == 0..(WindowSize - 1)

Receivers ==
    [base : Slots, extent : 0..WindowSize, expire : Nat,
     id_high : 0..MaxId, time_high : Nat, id_floor : 0..MaxId,
     history : [Slots -> BOOLEAN]]

NewReceiver ==
    [base |-> 0, extent |-> 0, expire |-> 0, id_high |-> 0, time_high |-> 0,
     id_floor |-> 0, history |-> [i \in Slots |-> FALSE]]

\* REPLAY_INDEX, for offsets shorter than the window.
ReplayIndex(base, i) ==
    IF base + i >= WindowSize THEN base + i - WindowSize
    ELSE IF base + i < 0 THEN base + i + WindowSize
    ELSE base + i

\* Backtracks at or below id_floor are over after a silence of ExpireAfter.
Aged(r, now) ==
    [r EXCEPT !.id_floor = IF now >= r.expire THEN r.id_high ELSE @,
              !.expire = now + ExpireAfter]

\* do_test_add as it answers: what is wrong with the identifier p.
Verdict(r, p) ==
    CASE p.id = 0 -> "PKTID_INVALID"
      [] p.id # 0 /\ p.time > r.time_high -> "SUCCESS"
      [] p.id # 0 /\ p.time < r.time_high -> "PKTID_TIME_BACKTRACK"
      [] p.id # 0 /\ p.time = r.time_high ->
           IF p.id > r.id_high THEN "SUCCESS"
           ELSE IF r.id_high - p.id >= r.extent THEN "PKTID_BACKTRACK"
           ELSE IF p.id <= r.id_floor THEN "PKTID_EXPIRE"
           ELSE IF r.history[ReplayIndex(r.base, r.id_high - p.id)] THEN "PKTID_REPLAY"
           ELSE "SUCCESS"

\* A later time starts the numbering again.  The history is not cleared: an
\* extent of 0 hides it.
Forwarded(r, p) ==
    IF p.time > r.time_high
    THEN [r EXCEPT !.base = 0, !.extent = 0, !.id_high = 0, !.time_high = p.time, !.id_floor = 0]
    ELSE r

\* Mutant of Extended: the extent runs over the ring.
ExtendedOver(extent, delta) == extent + delta

Extended(extent, delta) ==
    IF extent + delta > WindowSize THEN WindowSize ELSE extent + delta

\* Mutant of Shifted: the bits of the ids that were jumped over are not cleared.
ShiftedDirty(history, base, delta) == [history EXCEPT ![base] = TRUE]

\* The history when the base has moved down by delta slots.
Shifted(history, base, delta) ==
    LET jumped == {ReplayIndex(base, i) : i \in 1..(delta - 1)}
    IN  [i \in Slots |-> i = base \/ (i \notin jumped /\ history[i])]

\* The window moves up by delta ids to a new highest one.
Slide(r, delta) ==
    LET base == ReplayIndex(r.base, -delta)
    IN  IF delta < WindowSize
        THEN [r EXCEPT !.base = base,
                       !.extent = Extended(@, delta),
                       !.id_high = @ + delta,
                       !.history = Shifted(@, base, delta)]
        ELSE [r EXCEPT !.base = 0, !.extent = WindowSize, !.id_high = @ + delta,
                       !.history = [i \in Slots |-> i = 0]]

\* Mutant of Mark: a backtracking id is not remembered.
MarkNot(r, delta) == r

\* An id delta below the highest is marked.
Mark(r, delta) == [r EXCEPT !.history[ReplayIndex(r.base, delta)] = TRUE]

Remembered(r, p) ==
    LET f == Forwarded(r, p)
    IN  IF p.id > f.id_high THEN Slide(f, p.id - f.id_high) ELSE Mark(f, f.id_high - p.id)

\* do_test_add: the answer, and the receiver after it.
Accepts(r, p, now) == Verdict(Aged(r, now), p) = "SUCCESS"

TestAdd(r, p, now, mod) ==
    IF mod /\ Accepts(r, p, now) THEN Remembered(Aged(r, now), p) ELSE Aged(r, now)

=============================================================================
