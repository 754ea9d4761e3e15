----------------------------- MODULE MCAppTable -----------------------------
(* Instances of AppTable for TLC: an executable before and after an upgrade. *)
EXTENDS AppTable, TLC

CONSTANTS a, b

Symmetry == Permutations(Path)

MCUpgrade == {[mtime |-> 1, size |-> 1, sum |-> 1], [mtime |-> 2, size |-> 1, sum |-> 2]}
=============================================================================
