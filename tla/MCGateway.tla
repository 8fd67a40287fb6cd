----------------------------- MODULE MCGateway ------------------------------
(* Gateway for TLC. *)
EXTENDS Gateway

=============================================================================
