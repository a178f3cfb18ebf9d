---------------------------- MODULE ReliableFifo ----------------------------
(***************************************************************************)
(* What one direction of the control channel promises ("general-purpose    *)
(* protocols ... where the underlying transport layer is unreliable",      *)
(* openvpn/ssl/protostack.hpp:42-44): what is written at one end is read   *)
(* at the other, once and in order.                                        *)
(***************************************************************************)
EXTENDS Naturals, Sequences

CONSTANT Data

VARIABLES written, delivered

vars == <<written, delivered>>

Init == written = <<>> /\ delivered = <<>>

Write(d) ==
    /\ written' = Append(written, d)
    /\ UNCHANGED delivered

\* One call may hand up several messages.
Deliver(n) ==
    /\ delivered' = SubSeq(written, 1, n)
    /\ UNCHANGED written

Next ==
    \/ \E d \in Data : Write(d)
    \/ \E n \in (Len(delivered) + 1)..Len(written) : Deliver(n)

Spec == Init /\ [][Next]_vars

=============================================================================
