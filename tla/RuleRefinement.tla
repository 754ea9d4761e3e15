--------------------------- MODULE RuleRefinement ---------------------------
(***************************************************************************)
(* RuleTable implements RuleList as long as no packet is handled while a   *)
(* RULES REMOVE runs (AloneSpec), and the uninitialised currnr does not    *)
(* happen to be the number asked for.                                      *)
(***************************************************************************)
EXTENDS RuleTable

\* currnr does not start with the number that RULES REMOVE is asked for.
ASSUME JunkAssumption == Junk \cap Number = {}

\* A removal is at work that has not stored the new length yet: the last slot
\* is spare.
Shifted == \E t \in Thread : pc[t] \in {"move", "store"}
Size == IF Shifted THEN len - 1 ELSE len

\* The array as the memmove at work will leave it.
Array ==
  [i \in Slots |-> IF i \in todo[Main] \cup todo[Comm] THEN slot[i + 1]
                   ELSE IF buf[Main][i] # Nil THEN buf[Main][i]
                   ELSE IF buf[Comm][i] # Nil THEN buf[Comm][i]
                   ELSE slot[i]]

Entry(r) == [rule |-> r, idle |-> IF r \in SessRule THEN age[r] ELSE 0]
Abstract == [i \in 1..Size |-> Entry(Array[i])]

List == INSTANCE RuleList WITH list <- Abstract, saved <- disk

\* Each handler's steps on the array are operations on the list: a removal by
\* RULES REMOVE takes out the rule it was asked for, a sweep only idle session
\* rules, a scan refreshes only the rule that decides the packet.
ListStep ==
  \/ List!Tick
  \/ pc[Comm] = "idle" /\ \E r \in Rule : List!Add(r)
  \/ RemoveInProgress /\ List!RemoveNumber(want.type, want.num)
  \/ lock # "free" /\ List!Expire
  \/ pc[Main] = "scan" /\ List!Match(flow)
  \/ pc[Comm] = "save" /\ List!Save

\* The table behaves as the list of RuleList does, step by step.
ImplementsList == List!Init /\ [][ListStep]_(List!vars)

\* fwrules_cb_rules_add, fwrules_cb_rules_remove and fwquery_cb_add end with
\* fwrules_write when they touched a permanent rule: between two commands the
\* file holds the permanent rules of the table, in their order.
DiskMatchesTable == pc[Comm] = "idle" => disk = List!Permanent(Abstract)
=============================================================================
