----------------------------- MODULE MCReliable -----------------------------
(* Reliable for TLC.                                                       *)
EXTENDS Reliable

CONSTANTS m1, m2, m3, m4

\* The model never looks at the data, so one sequence of distinct messages
\* shows whatever loss, repetition or disorder there is.
DistinctMessages ==
    written = SubSeq(<<m1, m2, m3, m4>>, 1, Len(written))
=============================================================================
