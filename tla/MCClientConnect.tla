-------------------------- MODULE MCClientConnect --------------------------
(* Instances of ClientConnect for TLC. *)
EXTENDS ClientConnect

\* One representative of each way client_proto_terminate goes on.
MCErrors == {"UNDEF", "TRANSPORT_ERROR", "AUTH_FAILED", "CLIENT_HALT", "KEY_EXPANSION_ERROR"}

\* The errors that come with a message of the server, and those of a relay.
MCServerErrors == {"AUTH_FAILED", "DYNAMIC_CHALLENGE", "CLIENT_RESTART", "RELAY", "RELAY_ERROR"}
=============================================================================
