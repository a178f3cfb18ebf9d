------------------------------ MODULE MCTunnel ------------------------------
(* Instances of Tunnel for TLC. *)
EXTENDS Tunnel

\* A restart, a failing tunnel, an exception, and an end by the server.
MCTunnelErrors == {"UNDEF", "TUN_SETUP_FAILED", "KEY_EXPANSION_ERROR", "CLIENT_HALT"}

\* The least that restarts a session.
MCRestartOnly == {"UNDEF"}
=============================================================================
