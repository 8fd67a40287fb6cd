--------------------------- MODULE MCToolRequests ---------------------------
(* ToolRequests for TLC. *)
EXTENDS ToolRequests

=============================================================================
