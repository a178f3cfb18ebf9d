-------------------------- MODULE ConnectionEvents --------------------------
(***************************************************************************)
(* What the events of one connect() call promise to the application        *)
(* (openvpn/client/clievent.hpp): the order in which its delegate may be   *)
(* told of the connection, whatever happens underneath.                    *)
(*   - Connected comes at most once between two attempts;                  *)
(*   - Pause and Resume take turns, beginning with Pause;                  *)
(*   - Disconnected comes once, and nothing after it.                      *)
(* Every event is counted, so that one more of the same kind is a step.    *)
(***************************************************************************)
EXTENDS Naturals

VARIABLE heard   \* what the application knows from the events it was given

Events == {"connected", "reconnecting", "paused", "resumed", "disconnected"}

Init ==
    heard = [last |-> "idle",     \* the last of them
             events |-> 0,        \* how many there were
             up |-> FALSE,        \* Connected was told of this attempt
             paused |-> FALSE]    \* a Pause has not been answered by a Resume

\* An application that knows h may be told e.
MayTell(h, e) ==
    /\ h.last # "disconnected"
    /\ e = "connected" => ~h.up
    /\ e = "paused" => ~h.paused
    /\ e = "resumed" => h.paused

Told(h, e) ==
    [last |-> e,
     events |-> h.events + 1,
     up |-> e = "connected" \/ (h.up /\ e # "reconnecting"),
     paused |-> e = "paused" \/ (h.paused /\ e # "resumed")]

-----------------------------------------------------------------------------

Tell(e) ==
    /\ MayTell(heard, e)
    /\ heard' = Told(heard, e)

\* One handler tells e, and then f.
TellBoth(e, f) ==
    LET h == Told(heard, e)
    IN  /\ MayTell(heard, e) /\ MayTell(h, f)
        /\ heard' = Told(h, f)

\* A resume() starts an attempt.
ResumedReconnecting == TellBoth("resumed", "reconnecting")

\* The attempt, or the one that a resume() starts, ends where it starts.
StartFails ==
    \/ TellBoth("reconnecting", "disconnected")
    \/ TellBoth("resumed", "disconnected")

ResumeFails ==
    LET h == Told(heard, "resumed")
        i == Told(h, "reconnecting")
    IN  /\ MayTell(heard, "resumed") /\ MayTell(h, "reconnecting") /\ MayTell(i, "disconnected")
        /\ heard' = Told(i, "disconnected")

Next ==
    \/ \E e \in Events : Tell(e)
    \/ ResumedReconnecting
    \/ StartFails
    \/ ResumeFails

Spec == Init /\ [][Next]_heard

=============================================================================
