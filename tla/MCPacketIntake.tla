--------------------------- MODULE MCPacketIntake ---------------------------
(* An instance of PacketIntake for TLC: two resident processes, of which 1   *)
(* listens and 2 has a UDP socket, and two others with the connections "a"   *)
(* and "b".  Once "a" is closed, its inode 0 and that of "b" are more than   *)
(* half the numbers of a gint apart.                                         *)
EXTENDS PacketIntake

MCFixed == 1 :> {"l"} @@ 2 :> {"u"}
MCBucket == "l" :> 1 @@ "a" :> 2 @@ "b" :> 3 @@ "u" :> 4
MCInode == "l" :> 7 @@ "a" :> 5 @@ "b" :> 12 @@ "u" :> 9

End(src, sport, dst, dport) == [src |-> src, sport |-> sport, dst |-> dst, dport |-> dport]
MCAddr == "l" :> End(5, 1, 0, 0) @@ "a" :> End(5, 1, 9, 2) @@ "b" :> End(5, 2, 9, 2) @@ "u" :> End(5, 1, 0, 0)

\* To "l", forwarded, of no connection here, and within one.
MCStrays ==
  {Message("tcp", 2, 0, End(src, 2, 5, 1), TRUE) : src \in {9, 14}}
    \cup {Message("tcp", 2, 3, End(9, 2, 14, 1), TRUE)}
    \cup {Message("icmp", 2, 0, End(src, 0, 5, 0), FALSE) : src \in {4, 5, 7, 9}}
    \cup {Message("tcp", 0, 2, End(5, 1, 9, 2), FALSE)}

Hosts == {Zero} \cup {h \in {Cidr(g, 1, m) : g \in {1, 2, 4}, m \in -1..5} : Parses(h)}
AnyRule(proto, dir) ==
  [iface |-> 1, dir |-> dir, proto |-> proto, src |-> Zero, sport |-> 0,
   dst |-> Zero, dport |-> 0, app |-> "e1", action |-> "ACCEPT"]

\* Every net against the packets from every address, and pairs of rules that
\* differ in one field.
MCTables ==
  {<<[AnyRule("icmp", "incoming") EXCEPT !.src = h]>> : h \in Hosts}
    \cup {<<[AnyRule("tcp", "outgoing") EXCEPT !.dst = h, !.action = "REJECT"], AnyRule("tcp", "outgoing")>> :
            h \in {Cidr(2, 1, 4), Cidr(2, 0, 2), Cidr(1, 1, 4), Cidr(1, 1, 0)}}
    \cup {<<[AnyRule("tcp", dir) EXCEPT !.sport = p, !.action = "DROP"], [AnyRule("tcp", dir) EXCEPT !.app = "e2"]>> :
            p \in 1..2, dir \in {"incoming", "outgoing"}}
    \cup {<<[AnyRule("tcp", "outgoing") EXCEPT !.dport = 2, !.iface = i, !.action = "ASK"]>> : i \in 0..2}

MCDefault == "incoming" :> "DROP" @@ "outgoing" :> "ASK"
=============================================================================
