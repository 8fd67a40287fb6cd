--------------------------- MODULE MCRequestQueue ---------------------------
(* RequestQueue over an arbitrary transport, for TLC: the requests are      *)
(* interchangeable.                                                         *)
EXTENDS RequestQueue, TLC

RequestSymmetry == Permutations(Requests)

=============================================================================
