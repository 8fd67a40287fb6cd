-------------------------- MODULE MCDebuggerSession --------------------------
(* DebuggerSession for TLC. *)
EXTENDS DebuggerSession

=============================================================================
