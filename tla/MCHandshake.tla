----------------------------- MODULE MCHandshake -----------------------------
(* Handshake with two connections of other processes. *)
EXTENDS Handshake, TLC
=============================================================================
