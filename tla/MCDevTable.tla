----------------------------- MODULE MCDevTable -----------------------------
(* Instances of DevTable for TLC: the loopback, cards that come and go, and  *)
(* a bridge whose name sscanf does not take.                                 *)
EXTENDS DevTable

CONSTANTS lo, eth, wl, br
=============================================================================
