------------------------- MODULE MCWebSocketBridge --------------------------
(* WebSocketBridge for TLC. *)
EXTENDS WebSocketBridge

=============================================================================
