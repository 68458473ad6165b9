---------------------------- MODULE MCDaemonSocket ----------------------------
(* DaemonSocket with a few processes. *)
EXTENDS DaemonSocket
=============================================================================
