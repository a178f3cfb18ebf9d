---------------------------- MODULE MCRemoteList ----------------------------
(* RemoteList for TLC.                                                     *)
EXTENDS RemoteList

CONSTANTS h1, h2

\* Three remote directives, two of them for the same host.
MCRemotes == <<h1, h2, h1>>

\* The least that has somewhere to rotate to.
MCTwoRemotes == <<h1, h2>>
=============================================================================
