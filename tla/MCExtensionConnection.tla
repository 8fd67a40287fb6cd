----------------------- MODULE MCExtensionConnection -----------------------
(* ExtensionConnection for TLC. *)
EXTENDS ExtensionConnection, TLC

Symmetry == Permutations(Sockets)

=============================================================================
