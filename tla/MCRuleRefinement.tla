-------------------------- MODULE MCRuleRefinement --------------------------
(* Instances of RuleRefinement for TLC. *)
EXTENDS RuleRefinement

CONSTANTS s1, s2, p1, p2, f

\* One rule of each type covers the only flow, so that a scan can hit a rule
\* of either type, pass over one, or fall through to the default.
MCCovers == [r \in Rule |-> IF r \in {s1, p1} THEN {f} ELSE {}]
MCJunk == {-1}
MCJunkAny == {-1, 0}
=============================================================================
