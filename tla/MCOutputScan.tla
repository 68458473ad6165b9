----------------------------- MODULE MCOutputScan -----------------------------
(* OutputScan on short outputs. *)
EXTENDS OutputScan

\* A sentinel that overlaps itself, as "__REPLD_...__" does.
MCSentinel == <<"_", "a", "_">>
=============================================================================
