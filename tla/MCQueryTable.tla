---------------------------- MODULE MCQueryTable ----------------------------
(* Instances of QueryTable for TLC: two connections of one application. *)
EXTENDS QueryTable

CONSTANTS f, g

MCLike == [x \in Flow |-> Flow]
=============================================================================
