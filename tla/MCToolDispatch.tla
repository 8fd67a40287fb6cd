--------------------------- MODULE MCToolDispatch ---------------------------
(* ToolDispatch for TLC. *)
EXTENDS ToolDispatch

=============================================================================
