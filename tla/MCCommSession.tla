--------------------------- MODULE MCCommSession ---------------------------
(* Instances of CommSession for TLC. *)
EXTENDS CommSession

CONSTANTS c1, c2
=============================================================================
