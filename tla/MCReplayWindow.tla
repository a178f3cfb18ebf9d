--------------------------- MODULE MCReplayWindow ---------------------------
(* ReplayWindow for TLC: a ring of three slots and ids that go round it.   *)
EXTENDS ReplayWindow
=============================================================================
