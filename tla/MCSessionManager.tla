--------------------------- MODULE MCSessionManager ---------------------------
(* SessionManager on small instances. *)
EXTENDS SessionManager, TLC

Symmetry == Permutations(Conn)
=============================================================================
