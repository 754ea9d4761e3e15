------------------------------ MODULE RuleList ------------------------------
(***************************************************************************)
(* What the rule table promises to its users, free of threads, locks and   *)
(* memory: an ordered list of rules with the time each has been idle.      *)
(* A session rule is added in front, a permanent one at the end; RULES     *)
(* REMOVE takes out the rule of the given type and number and nothing      *)
(* else; time takes out session rules only, and only idle ones; a packet   *)
(* refreshes the first rule that covers it; the saved rules are the        *)
(* permanent rules of the list.                                            *)
(***************************************************************************)
EXTENDS Integers, FiniteSets, SequencesExt

CONSTANTS SessRule, PermRule, Flow, Covers, Timeout

VARIABLES
  list,   \* the rules in the order they are tried: [rule, idle]
  saved   \* the rules a restart would bring back

vars == <<list, saved>>

Rules(type) == IF type = "PERM" THEN PermRule ELSE SessRule
Fresh(r) == [rule |-> r, idle |-> 0]

\* The time an entry has been idle, a second later: permanent rules do not age.
Older(e) ==
  [e EXCEPT !.idle = IF e.rule \in SessRule /\ @ < Timeout THEN @ + 1 ELSE @]

Init == list = << >> /\ saved = << >>

Tick ==
  /\ list' = [i \in DOMAIN list |-> Older(list[i])]
  /\ saved' = saved

Add(r) ==
  /\ list' = IF r \in PermRule THEN Append(list, Fresh(r)) ELSE <<Fresh(r)>> \o list
  /\ saved' = saved

\* Entry i has number num among the rules of its type, counted from zero.
IsNumber(i, type, num) ==
  /\ list[i].rule \in Rules(type)
  /\ Cardinality({j \in 1..(i - 1) : list[j].rule \in Rules(type)}) = num

RemoveNumber(type, num) ==
  /\ \E i \in DOMAIN list :
       IsNumber(i, type, num) /\ list' = RemoveAt(list, i)
  /\ saved' = saved

Expire ==
  /\ \E i \in DOMAIN list :
       /\ list[i].rule \in SessRule
       /\ list[i].idle >= Timeout
       /\ list' = RemoveAt(list, i)
  /\ saved' = saved

Match(f) ==
  /\ \E i \in DOMAIN list :
       /\ f \in Covers[list[i].rule]
       /\ \A j \in 1..(i - 1) : f \notin Covers[list[j].rule]
       /\ list' = [list EXCEPT ![i] = Fresh(list[i].rule)]
  /\ saved' = saved

\* The permanent rules of a list, in its order.
Permanent(l) ==
  LET Kept[i \in 0..Len(l)] ==
        IF i = 0 THEN << >>
        ELSE IF l[i].rule \in PermRule THEN Append(Kept[i - 1], l[i].rule)
        ELSE Kept[i - 1]
  IN  Kept[Len(l)]

Save ==
  /\ saved' = Permanent(list)
  /\ list' = list
=============================================================================
