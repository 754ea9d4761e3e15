--------------------------- MODULE MCDaemonFiles ---------------------------
(* Instances of DaemonFiles for TLC: a plain executable and one whose file   *)
(* was replaced while it ran; a user name and, below it, a password, both    *)
(* empty at first.  A user name may be a tab, which reads as nothing; a      *)
(* password may have a line break, behind which it assigns a user name; what *)
(* is too long is refused.                                                   *)
EXTENDS DaemonFiles, TLC

MCApp == {<<"ssh">>, <<"ssh", "(deleted)">>}

MCValue == {"", "a", "b", "<TAB>", "b<LF>username = a", "too long"}

MCLegal ==
  "username" :> {"a", "<TAB>"} @@ "password" :> {"b<LF>username = a"}
MCDefault == "username" :> "" @@ "password" :> ""
MCShipped == "username" :> "a" @@ "password" :> "b"
MCBelow   == "username" :> 1 @@ "password" :> 0

\* sscanf reads words.
MCAssigns ==
  [k \in {"username", "password"} |-> [v \in MCValue |->
     CASE v \in {"", "<TAB>"} -> << >>
       [] v = "b<LF>username = a" -> "username" :> "a" @@ k :> "b"
       [] OTHER -> k :> v]]
=============================================================================
