---------------------------- MODULE PacketIntake ----------------------------
(***************************************************************************)
(* fwnfq.c: what becomes of one packet.  fwnfq_process_pkt takes direction *)
(* and interface from the kernel's message; fwnfq_process_rules rescans    *)
(* the connections for a TCP packet that opens one, names its executable,  *)
(* looks for the first rule that matches, and lets anything else of TCP    *)
(* pass; fwnfq_callback turns the action into a verdict, or leaves the     *)
(* packet in the queue for the user.                                       *)
(*                                                                         *)
(* Abstractions.  The rules are any of Tables when the packet comes to     *)
(* them: how they change under the lookup is RuleTable's subject, and what *)
(* a held packet waits for is QueryTable's.  The tables of the last scan,  *)
(* which nothing reads before the next one replaces them, are dropped once *)
(* the packet has its name.                                                *)
(***************************************************************************)
EXTENDS Connections, RuleMatch

CONSTANTS
  Addr,      \* Addr[s]: the addresses and ports of a connection
  Listening, \* sockets that wait for connections
  Strays,    \* packets that no process here has sent
  PortNr,    \* port numbers
  Tables,    \* sequences of rules
  Default    \* the default action of each direction

Ends   == [src : Address, sport : Nat, dst : Address, dport : Nat]
Packet == [proto : {"tcp", "udp", "icmp"}, opens : BOOLEAN, dir : {"incoming", "outgoing"},
           iface : Int, src : Address, sport : Nat, dst : Address, dport : Nat]

\* No two connections of the kernel have the same ends; a socket that listens
\* has no other end.  The rules have no host that does not parse: RULES ADD
\* refuses it, and a rules file with one ends the daemon.
ASSUME IntakeAssumption ==
  /\ Addr \in [Socket -> Ends] /\ Listening \subseteq Tcp
  /\ \A s \in Tcp \ Listening, t \in Tcp : Addr[s] = Addr[t] => s = t
  /\ Strays \subseteq Packet /\ PortNr \subseteq Nat
  /\ \A t \in Tables : /\ DOMAIN t = 1..Len(t)
                       /\ \A i \in DOMAIN t : Parses(t[i].src) /\ Parses(t[i].dst)

VARIABLES
  pkt,     \* the packet in the handler
  app,     \* application
  rules,   \* fw_rules as the packet finds it
  verdict  \* "none" yet, "accept", "drop" or "held"

packet == <<pkt, app, rules, verdict>>
vars == <<kernel, tables, at, locals, history, packet>>

NoPkt == [proto |-> "none"]

Init ==
  /\ ConnInit
  /\ pkt = NoPkt /\ app = Null /\ rules = << >> /\ verdict = "none"

-----------------------------------------------------------------------------
(* The packet.                                                             *)

\* fwnfq_process_pkt: the outgoing interface has the last word.
Message(proto, indev, outdev, a, opens) ==
  [ proto |-> proto, opens |-> opens,
    dir   |-> IF outdev # 0 THEN "outgoing" ELSE "incoming",
    iface |-> IF outdev # 0 THEN outdev - 1 ELSE indev - 1,
    src |-> a.src, sport |-> a.sport, dst |-> a.dst, dport |-> a.dport ]

\* The first packet of a connection, SYN without ACK, that a process opens.
Syn(s) == Message("tcp", 0, 2, Addr[s], TRUE)

\* sport and dport are set for TCP only; else they are what the stack holds.
\* An ACK or a RST needs no scan: its application is "*".
Receive(p) ==
  /\ at = "idle"
  /\ IF p.proto = "tcp"
     THEN pkt' = p
     ELSE \E sport, dport \in PortNr : pkt' = [p EXCEPT !.sport = sport, !.dport = dport]
  /\ app' = IF p.proto = "tcp" /\ ~p.opens THEN "*" ELSE Null
  /\ IF p.proto = "tcp" /\ p.opens
     THEN BeginScan
     ELSE at' = "rules" /\ UNCHANGED history
  /\ UNCHANGED <<kernel, tables, locals, rules, verdict>>

Connect(s) ==
  /\ \E p \in Pid : s \in holds[p]
  /\ Receive(Syn(s))

IsOf(row, p) ==
  Addr[row.sock] = [src |-> p.src, sport |-> p.sport, dst |-> p.dst, dport |-> p.dport]

\* fwproc_netentries_tcpapp_getnew, in the order source, destination for either
\* direction: the lookup in the direction of the packet is overwritten.
Lookup ==
  /\ at = "name"
  /\ LET i == SelectInSeq(tcpconn, LAMBDA row : IsOf(row, pkt))
     IN  app' = IF i = 0 THEN Null
                ELSE IF tcpconn[i].app = Null THEN "*" ELSE tcpconn[i].app
  /\ at' = "rules"
  /\ UNCHANGED <<kernel, tables, locals, history, pkt, rules, verdict>>

\* fwnfq_callback; NF_DROP for REJECT too.
VerdictOf(action) ==
  CASE action = "ACCEPT" -> "accept"
    [] action \in {"DROP", "REJECT"} -> "drop"
    [] OTHER -> "held"

Forget ==
  /\ pidexe' = << >> /\ tcpconn' = << >> /\ udpconn' = << >>
  /\ pid' = 0 /\ listed' = {} /\ hit' = NoHit
  /\ moves' = 0 /\ held' = {} /\ kept' = {} /\ ran' = {}

Established == pkt.proto = "tcp" /\ ~pkt.opens

Decide ==
  /\ at = "rules"
  /\ rules' \in Tables
  /\ \E undef \in Undefined :
       verdict' = IF Established THEN "accept"
                  ELSE VerdictOf(Action(rules', pkt, app, undef, Default))
  /\ at' = "end"
  /\ Forget
  /\ UNCHANGED <<kernel, pkt, app>>

Done ==
  /\ at = "end"
  /\ at' = "idle"
  /\ pkt' = NoPkt /\ app' = Null /\ rules' = << >> /\ verdict' = "none"
  /\ UNCHANGED <<kernel, tables, locals, history>>

Handle == (Rescan /\ UNCHANGED packet) \/ Lookup \/ Decide \/ Done

Next ==
  \/ \E s \in Tcp \ Listening : Connect(s)
  \/ \E p \in Strays : Receive(p)
  \/ Move /\ UNCHANGED packet
  \/ Handle

Spec == Init /\ [][Next]_vars

-----------------------------------------------------------------------------
(* Properties.                                                             *)

Named(conn) == \A i \in DOMAIN conn :
                 /\ conn[i].sock \in Socket
                 /\ conn[i].inode \in {0, Inode[conn[i].sock]}
                 /\ conn[i].app \in Exe \cup {Null, "", "resident"}

TypeOK ==
  /\ exe \in [Pid -> Exe \cup {Gone, "resident"}]
  /\ holds \in [Pid -> SUBSET Socket] /\ orphans \subseteq Tcp
  /\ \A i \in DOMAIN pidexe : pidexe[i] \in Pid
  /\ Named(tcpconn) /\ Named(udpconn)
  /\ at \in {"idle", "pids", "tcp", "udp", "dir", "fd", "exe", "name", "rules", "end"}
  /\ pid \in Pid \cup {0} /\ listed \subseteq Socket
  /\ hit = NoHit \/ hit.index \in DOMAIN (IF hit.proto = "tcp" THEN tcpconn ELSE udpconn)
  /\ app \in Exe \cup {Null, "*", "", "resident"}
  /\ verdict \in {"none", "accept", "drop", "held"}

Opening == at = "rules" /\ pkt.proto = "tcp" /\ pkt.opens

\* The name that a connection's first packet gets is that of an executable that
\* ran, while the packet was in the handler, in a process that held this very
\* connection meanwhile - whatever processes did between the readings.
NamedByHolder ==
  Opening /\ app \notin {Null, "*", ""} =>
    \E s \in Tcp, p \in Pid :
      IsOf(Row(s, 0), pkt) /\ <<p, s>> \in held /\ <<p, app>> \in ran

Near(m, n) == m - n < Half /\ n - m < Half
Comparable(conn) ==
  \A i, j \in DOMAIN conn : Near(conn[i].inode, conn[j].inode)

ReadOnce(s) ==
  \E i \in DOMAIN tcpconn : \A j \in DOMAIN tcpconn : tcpconn[j].sock = s <=> j = i

\* No process that held s was gone at any time.
HoldersStay(s) == \A q \in Pid : <<q, s>> \in held => <<q, Gone>> \notin ran

\* A connection that one process holds all the while gets the name of an
\* executable: the sort, the search by inode and the walk through the processes
\* work together, whichever other sockets come and go.  The code has three
\* exceptions: two inodes of the table half the numbers of a gint apart, a row
\* that the reader of /proc/net/tcp skipped or had twice, and a holder that left
\* between stat and readlink, whose "" the others cannot replace.
HolderIsFound ==
  Opening /\ Comparable(tcpconn) =>
    \A s \in Tcp \ Listening, p \in Pid :
      IsOf(Row(s, 0), pkt) /\ <<p, s>> \in kept /\ ReadOnce(s) /\ HoldersStay(s) =>
        app \notin {Null, "*", ""}

\* Rules the reference speaks for: not of the first interface, no net of all
\* addresses written otherwise than 0/0, and ports only for TCP.
Regular(r) ==
  /\ r.iface # 0
  /\ \A h \in {r.src, r.dst} : h.zero \/ h.mask # 0
  /\ r.proto = "tcp" \/ (r.sport = 0 /\ r.dport = 0)

\* The verdict on a packet that opens a connection, or has none, is the action
\* of the first rule whose nets, ports and application cover it, or the default
\* of its direction; anything else of TCP passes.
VerdictIsFirstMatch ==
  at = "end" /\ (\A i \in DOMAIN rules : Regular(rules[i])) =>
    LET i == SelectInSeq(rules, LAMBDA r : Covers(r, pkt, app))
    IN  verdict = IF Established THEN "accept"
                  ELSE VerdictOf(IF i = 0 THEN Default[pkt.dir] ELSE rules[i].action)

\* The search by number finds each process that was running at its place, and
\* says -1 of every other number, as fwproc.c:186 has it - as long as there are
\* two processes and the first has the lowest number that is asked for.
PidSearchExact ==
  Len(pidexe) >= 2 =>
    \A n \in pidexe[1]..(pidexe[Len(pidexe)] + 1) :
      FindPid(pidexe, n) = SelectInSeq(pidexe, LAMBDA m : m = n) - 1
=============================================================================
