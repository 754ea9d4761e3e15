---------------------------- MODULE Connections ----------------------------
(***************************************************************************)
(* fwproc.c: which executable a connection belongs to.  fwproc_rescan_all  *)
(* reads the processes, /proc/net/tcp and /proc/net/udp, sorts both tables *)
(* by inode, and then goes through the descriptors of each process; the    *)
(* inode of each socket is searched in the tables, and the executable of   *)
(* the first process found to hold it becomes the application of the entry.*)
(* Meanwhile processes start, run another executable, exit, and open, pass *)
(* on and close sockets.                                                   *)
(*                                                                         *)
(* Abstractions.  A socket stands for its addresses and ports.  A row of   *)
(* /proc/net, a link and the names in one directory are read in one step;  *)
(* between two of them anything may move.  An inode number is below        *)
(* 2 * Half, and a gint holds -Half..Half-1.                               *)
(***************************************************************************)
EXTENDS Integers, SequencesExt

CONSTANTS
  Pid,        \* numbers of processes
  Resident,   \* those that run all the time, and only they
  Exe,        \* executables
  Tcp, Udp,   \* sockets
  Fixed,      \* Fixed[p]: the sockets of the resident p
  Inode,      \* Inode[s]: its inode number
  Bucket,     \* Bucket[s]: its place in the hash of the kernel, which /proc/net follows
  Half,       \* half the numbers of a gint
  MaxMoves    \* bound: moves of the processes during one scan

Socket == Tcp \cup Udp
Own == Socket \ UNION Range(Fixed)     \* sockets of the other processes

ASSUME ConnectionsAssumption ==
  /\ Pid \subseteq Nat \ {0} /\ Resident \subseteq Pid
  /\ Tcp \cap Udp = {} /\ Fixed \in [Resident -> SUBSET Socket]
  /\ Half \in Nat \ {0} /\ Inode \in [Socket -> 1..(2 * Half - 1)]
  /\ IsInjective(Inode) /\ Bucket \in [Socket -> Nat] /\ IsInjective(Bucket)
  /\ MaxMoves \in Nat
  /\ IsFiniteSet(Pid) /\ IsFiniteSet(Socket)
  /\ Exe \cap {"gone", "null", "", "*"} = {}   \* a path, never what stands for none

VARIABLES
  exe,       \* /proc/PID/exe, or Gone
  holds,     \* the sockets in /proc/PID/fd
  orphans,   \* closed connections still in /proc/net/tcp, without an inode
  pidexe,    \* FWPidExe: the numbers of the processes
  tcpconn,   \* FWTcpConn
  udpconn,   \* FWUdpConn
  at,        \* the step of the scan, and of the packet's handler
  pid,       \* the process whose descriptors are read
  listed,    \* what is left of them
  hit,       \* the entry found: its table and its index, or none
  moves, held, kept, ran   \* history of this scan

kernel  == <<exe, holds, orphans>>
tables  == <<pidexe, tcpconn, udpconn>>
locals  == <<pid, listed, hit>>
history == <<moves, held, kept, ran>>

Gone == "gone"
Null == "null"
NoHit == [proto |-> "none", index |-> 0]

Live == {p \in Pid : exe[p] # Gone}
Holding(h) == {ps \in Pid \X Socket : ps[2] \in h[ps[1]]}
Running(x) == {<<p, x[p]>> : p \in Pid}

-----------------------------------------------------------------------------
(* The processes.                                                          *)

Open(p, s) ==
  /\ p \in Live \ Resident
  /\ s \in Own \ orphans /\ \A q \in Pid : s \notin holds[q]
  /\ holds' = [holds EXCEPT ![p] = @ \cup {s}]
  /\ UNCHANGED <<exe, orphans>>

\* fork, or a descriptor passed on.
Share(p, q, s) ==
  /\ q \in Live \ Resident /\ s \in (holds[p] \cap Own) \ holds[q]
  /\ holds' = [holds EXCEPT ![q] = @ \cup {s}]
  /\ UNCHANGED <<exe, orphans>>

\* The last close may leave a connection that the kernel still shuts down.
Drop(p, closed) ==
  /\ holds' = [holds EXCEPT ![p] = @ \ closed]
  /\ \E o \in SUBSET {s \in closed \cap Tcp : \A q \in Pid \ {p} : s \notin holds[q]} :
       orphans' = orphans \cup o

Close(p, s) ==
  /\ p \notin Resident /\ s \in holds[p]
  /\ Drop(p, {s})
  /\ UNCHANGED exe

Exit(p) ==
  /\ p \in Live \ Resident
  /\ Drop(p, holds[p])
  /\ exe' = [exe EXCEPT ![p] = Gone]

\* A new process, or another program in this one, which closes some sockets.
Exec(p, e) ==
  /\ p \notin Resident /\ exe[p] # e
  /\ exe' = [exe EXCEPT ![p] = e]
  /\ \E closed \in SUBSET holds[p] : Drop(p, closed)

Vanish(s) ==
  /\ s \in orphans
  /\ orphans' = orphans \ {s}
  /\ UNCHANGED <<exe, holds>>

Move ==
  /\ at # "end"     \* until "idle" nothing looks at the processes
  /\ at = "idle" \/ moves < MaxMoves
  /\ \/ \E p \in Pid, s \in Own : Open(p, s) \/ Close(p, s)
     \/ \E p, q \in Pid, s \in Own : Share(p, q, s)
     \/ \E p \in Pid : Exit(p)
     \/ \E p \in Pid, e \in Exe : Exec(p, e)
     \/ \E s \in orphans : Vanish(s)
  /\ IF at = "idle"
     THEN UNCHANGED history
     ELSE /\ moves' = moves + 1
          /\ held' = held \cup Holding(holds')
          /\ kept' = kept \cap Holding(holds')
          /\ ran' = ran \cup Running(exe')
  /\ UNCHANGED <<tables, at, locals>>

-----------------------------------------------------------------------------
(* The tables and the searches.                                            *)

\* A difference as a gint.
AsInt(d) == ((d + Half) % (2 * Half)) - Half

\* fwproc_netentry_sortfn; sorted is what has no pair of neighbours in the
\* wrong order, in whatever order the sort left the rest.
Sorted(conn) ==
  {seq \in {[i \in DOMAIN conn |-> conn[place[i]]] : place \in Bijection(DOMAIN conn, DOMAIN conn)} :
     \A i \in 1..(Len(seq) - 1) : AsInt(seq[i].inode - seq[i + 1].inode) <= 0}

Row(s, inode) == [sock |-> s, inode |-> inode, app |-> Null]
Rows(socks) ==
  {Row(s, Inode[s]) : s \in socks \cap UNION Range(holds)}
    \cup {Row(s, 0) : s \in socks \cap orphans}

\* The kernel knows by their number how many rows a reader has had.
RowAfter(n, socks) ==
  {row \in Rows(socks) : Cardinality({r \in Rows(socks) : Bucket[r.sock] < Bucket[row.sock]}) = n}

\* Mutant: the first entry is not tested at the end.
FindNoFirst(conn, inode) ==
  LET Search[r \in (0..Len(conn)) \X (0..Len(conn))] ==
        LET lo == r[1]
            hi == r[2]
            p == (lo + hi) \div 2
            l == IF inode < conn[p + 1].inode THEN lo ELSE p
            h == IF inode < conn[p + 1].inode THEN p ELSE hi
        IN  IF conn[p + 1].inode = inode THEN p + 1
            ELSE IF h - l > 1 THEN Search[<<l, h>>] ELSE 0
  IN  IF conn = << >> THEN 0 ELSE Search[<<0, Len(conn)>>]

\* Mutant: the entry where the search ended is taken.
FindNearest(conn, inode) ==
  LET Search[r \in (0..Len(conn)) \X (0..Len(conn))] ==
        LET lo == r[1]
            hi == r[2]
            p == (lo + hi) \div 2
            l == IF inode < conn[p + 1].inode THEN lo ELSE p
            h == IF inode < conn[p + 1].inode THEN p ELSE hi
        IN  IF h - l > 1 THEN Search[<<l, h>>] ELSE l + 1
  IN  IF conn = << >> THEN 0 ELSE Search[<<0, Len(conn)>>]

\* fwproc_netentry_find_by_inode: the index of the entry from 1, or 0.
FindByInode(conn, inode) ==
  LET Search[r \in (0..Len(conn)) \X (0..Len(conn))] ==
        LET lo == r[1]
            hi == r[2]
            p == (lo + hi) \div 2
            l == IF inode < conn[p + 1].inode THEN lo ELSE p
            h == IF inode < conn[p + 1].inode THEN p ELSE hi
        IN  IF conn[p + 1].inode = inode THEN p + 1
            ELSE IF h - l > 1 THEN Search[<<l, h>>]
            ELSE IF l = 0 /\ h = 1 /\ conn[1].inode = inode THEN 1 ELSE 0
  IN  IF conn = << >> THEN 0 ELSE Search[<<0, Len(conn)>>]

\* Mutant: only the upper end is tested after the loop.
FindPidHigh(pids, n) ==
  LET Search[r \in (0..(Len(pids) - 1)) \X (0..(Len(pids) - 1))] ==
        LET lo == r[1]
            hi == r[2]
            i == (lo + hi) \div 2
            l == IF pids[i + 1] < n THEN i ELSE lo
            h == IF pids[i + 1] > n THEN i ELSE hi
        IN  IF pids[i + 1] = n THEN i
            ELSE IF h - l # 1 THEN Search[<<l, h>>]
            ELSE IF pids[h + 1] = n THEN h ELSE -1
  IN  Search[<<0, Len(pids) - 1>>]

\* fwutils_find_elem_in_sorted_garray, as fwproc_pidexe_find calls it: the index
\* from 0, or -1.  Where the loop of the code would not end, neither does this.
FindPid(pids, n) ==
  LET Search[r \in (0..(Len(pids) - 1)) \X (0..(Len(pids) - 1))] ==
        LET lo == r[1]
            hi == r[2]
            i == (lo + hi) \div 2
            l == IF pids[i + 1] < n THEN i ELSE lo
            h == IF pids[i + 1] > n THEN i ELSE hi
        IN  IF pids[i + 1] = n THEN i
            ELSE IF h - l # 1 THEN Search[<<l, h>>]
            ELSE IF pids[h + 1] = n THEN h
            ELSE IF pids[l + 1] = n THEN l ELSE -1
  IN  Search[<<0, Len(pids) - 1>>]

-----------------------------------------------------------------------------
(* fwproc_rescan_all.                                                      *)

ConnInit ==
  /\ exe = [p \in Pid |-> IF p \in Resident THEN "resident" ELSE Gone]
  /\ holds = [p \in Pid |-> IF p \in Resident THEN Fixed[p] ELSE {}]
  /\ orphans = {}
  /\ pidexe = << >> /\ tcpconn = << >> /\ udpconn = << >>
  /\ at = "idle"
  /\ pid = 0 /\ listed = {} /\ hit = NoHit
  /\ moves = 0 /\ held = {} /\ kept = {} /\ ran = {}

BeginScan ==
  /\ at' = "pids"
  /\ held' = Holding(holds) /\ kept' = Holding(holds) /\ ran' = Running(exe)
  /\ UNCHANGED moves

\* readdir gives the processes in the order of their numbers.
PidExeScan ==
  /\ at = "pids"
  /\ pidexe' \in {seq \in SetToSeqs(Live) : \A i, j \in DOMAIN seq : i < j => seq[i] < seq[j]}
  /\ at' = "tcp"
  /\ UNCHANGED <<kernel, tcpconn, udpconn, locals, history>>

\* The next row; after the last one the table is sorted.  A row that comes or
\* goes before the reader's place makes it read one twice, or skip one.
ReadTcp ==
  /\ at = "tcp"
  /\ \/ /\ \E row \in RowAfter(Len(tcpconn), Tcp) : tcpconn' = Append(tcpconn, row)
        /\ at' = "tcp"
     \/ /\ RowAfter(Len(tcpconn), Tcp) = {}
        /\ tcpconn' \in Sorted(tcpconn)
        /\ at' = "udp"
  /\ UNCHANGED <<kernel, pidexe, udpconn, locals, history>>

ReadUdp ==
  /\ at = "udp"
  /\ \/ /\ \E row \in RowAfter(Len(udpconn), Udp) : udpconn' = Append(udpconn, row)
        /\ at' = "udp"
     \/ /\ RowAfter(Len(udpconn), Udp) = {}
        /\ udpconn' \in Sorted(udpconn)
        /\ at' = "dir"
  /\ UNCHANGED <<kernel, pidexe, tcpconn, locals, history>>

\* The next process and its descriptors.
NextPid ==
  /\ at = "dir"
  /\ \E p \in Live : /\ p > pid /\ \A q \in Live : q > pid => p <= q
                     /\ pid' = p /\ listed' = holds[p]
  /\ at' = "fd"
  /\ UNCHANGED <<kernel, tables, hit, history>>

LastPid ==
  /\ at = "dir"
  /\ \A q \in Live : q <= pid
  /\ at' = "name"
  /\ UNCHANGED <<kernel, tables, locals, history>>

\* stat of one descriptor, and the search: the tcp table first.  A socket that
\* is closed by now is passed over.
StatFd(s) ==
  /\ at = "fd" /\ s \in listed
  /\ listed' = listed \ {s}
  /\ LET t == FindByInode(tcpconn, Inode[s])
         u == FindByInode(udpconn, Inode[s])
     IN  hit' = CASE s \notin holds[pid] -> NoHit
                  [] s \in holds[pid] /\ t # 0 -> [proto |-> "tcp", index |-> t]
                  [] s \in holds[pid] /\ t = 0 /\ u # 0 -> [proto |-> "udp", index |-> u]
                  [] OTHER -> NoHit
  /\ at' = IF hit' = NoHit THEN "fd" ELSE "exe"
  /\ UNCHANGED <<kernel, tables, pid, history>>

EndFds ==
  /\ at = "fd" /\ listed = {}
  /\ at' = "dir"
  /\ UNCHANGED <<kernel, tables, locals, history>>

\* The first holder found names the entry.
NameOnce(conn, i, name) ==
  [conn EXCEPT ![i].app = IF @ = Null THEN name ELSE @]

\* Mutant: the buffer is not cleared.
LinkUncleared(p) == IF exe[p] = Gone THEN "stale" ELSE exe[p]

\* readlink: nothing if the process is gone.
LinkText(p) == IF exe[p] = Gone THEN "" ELSE exe[p]

ReadLink ==
  /\ at = "exe"
  /\ tcpconn' = IF hit.proto = "tcp" THEN NameOnce(tcpconn, hit.index, LinkText(pid)) ELSE tcpconn
  /\ udpconn' = IF hit.proto = "udp" THEN NameOnce(udpconn, hit.index, LinkText(pid)) ELSE udpconn
  /\ hit' = NoHit
  /\ at' = "fd"
  /\ UNCHANGED <<kernel, pidexe, pid, listed, history>>

Rescan ==
  \/ PidExeScan \/ ReadTcp \/ ReadUdp \/ NextPid \/ LastPid
  \/ \E s \in listed : StatFd(s)
  \/ EndFds \/ ReadLink
=============================================================================
