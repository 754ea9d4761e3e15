---------------------------- MODULE CommSession ----------------------------
(***************************************************************************)
(* The session of the command thread (_fwcomm_thread), the clients it      *)
(* serves one after the other, and the end of the daemon.  Descriptors are *)
(* numbers that the command thread (Comm) and the packet thread (Main)     *)
(* draw from one table: a number that Comm has closed may be Main's the    *)
(* next moment.                                                            *)
(*                                                                         *)
(* Abstractions.  A command is empty, AUTH with the right credentials,     *)
(* CLOSE, EXIT, a single NUL byte, which is not empty and has no words, or *)
(* any other; what the others do is in the other modules, and the files    *)
(* they open are closed before they answer.  csock, who and cmd are        *)
(* forgotten when nothing reads them any more.                             *)
(* Main's descriptors are its packet queue, what it reads (a file or a     *)
(* directory, which refuses a write) and the netlink socket of its device  *)
(* table (which takes one).  A client sends a command when the previous    *)
(* one is answered, and may go away at any time.  The model stops when a   *)
(* thread touches the other's descriptor or a bad pointer: what happens    *)
(* then is not determined by the code.                                     *)
(***************************************************************************)
EXTENDS Integers, SequencesExt

CONSTANTS
  Client,
  MaxFd,     \* bound: descriptors of the process
  MaxOpen,   \* files that Main has open at a time
  Backlog,   \* connections the kernel keeps for accept
  DefAuth    \* values of DEFAULT_AUTHENTICATED that are built

ASSUME SessionAssumption ==
  /\ MaxOpen \in Nat \ {0}
  /\ MaxFd \in Nat /\ MaxFd >= 3 + MaxOpen   \* none is missing
  /\ Backlog \in Nat \ {0}
  /\ DefAuth \subseteq BOOLEAN

Fd  == 1..MaxFd
Cmd == {"", "AUTH", "other", "CLOSE", "EXIT", "NUL"}
NoLine == "none"
Nobody == "nobody"

VARIABLES
  fdt,      \* what each descriptor is
  own,      \* the descriptors Main has open for reading, the latest last
  mpc,      \* Main: "init", "packets", "poll" or "ended"
  pc,       \* Comm: its next step
  csock,    \* Comm: the client's descriptor, stale after a close
  who,      \* the client behind csock
  isauth, cmd,
  strv,     \* the words of the last command: "unset", "valid" or "freed"
  state,    \* FALSE once Comm is over
  peer,     \* each client's connection: "away", "up", "eof" or "reset"
  queue,    \* clients that wait for accept
  line,     \* what a client has sent and Comm has not read
  ready,    \* clients whose turn it is to send
  fault,    \* "none", or how the program left its rails
  defauth,  \* DEFAULT_AUTHENTICATED
  proven,   \* history: clients that gave their credentials on this connection
  rude,     \* history: a client went away without CLOSE or EXIT, or sent a NUL
  exit      \* history: an EXIT was carried out

fds     == <<fdt, own>>
session == <<csock, who, isauth, cmd, strv>>
clients == <<peer, queue, line, ready>>
history == <<defauth, proven, rude, exit>>
vars    == <<fds, mpc, pc, session, state, clients, fault, history>>

Alive == fault = "none" /\ mpc # "ended"
Lowest == CHOOSE n \in Fd : fdt[n] = "free" /\ \A m \in 1..(n - 1) : fdt[m] # "free"
Has(n, kind) == fdt' = [fdt EXCEPT ![n] = kind]
Goto(p) == pc' = p

Init ==
  /\ fdt = [n \in Fd |-> "free"] /\ own = << >>
  /\ mpc = "init" /\ pc = "start"
  /\ csock = 0 /\ who = Nobody
  /\ isauth = FALSE /\ cmd = "" /\ strv = "unset"
  /\ state = TRUE
  /\ peer = [c \in Client |-> "away"] /\ queue = << >>
  /\ line = [c \in Client |-> NoLine] /\ ready = {}
  /\ fault = "none"
  /\ defauth \in DefAuth
  /\ proven = {} /\ rude = FALSE /\ exit = FALSE

-----------------------------------------------------------------------------
(* The clients and the kernel's side of their connections.                 *)

Connect(c) ==
  /\ Alive /\ pc # "start"
  /\ peer[c] = "away" /\ Len(queue) < Backlog
  /\ peer' = [peer EXCEPT ![c] = "up"]
  /\ queue' = Append(queue, c)
  /\ UNCHANGED <<fds, mpc, pc, session, state, line, ready, fault, history>>

Send(c, command) ==
  /\ Alive /\ c \in ready /\ peer[c] = "up"
  /\ line' = [line EXCEPT ![c] = command]
  /\ ready' = ready \ {c}
  /\ rude' = (rude \/ command = "NUL")
  /\ UNCHANGED <<fds, mpc, pc, session, state, peer, queue, fault, defauth, proven, exit>>

\* In order, or with data of the daemon unread: then the daemon gets a reset.
Leave(c) ==
  /\ Alive /\ peer[c] = "up"
  /\ \E how \in {"eof", "reset"} : peer' = [peer EXCEPT ![c] = how]
  /\ ready' = ready \ {c}
  /\ rude' = TRUE
  /\ UNCHANGED <<fds, mpc, pc, session, state, queue, line, fault, defauth, proven, exit>>

\* A write to a client that has gone succeeds once and brings a reset.
Written(c) == peer' = [peer EXCEPT ![c] = IF @ = "eof" THEN "reset" ELSE @]
CanWrite(c) == peer[c] \in {"up", "eof"}

\* The daemon has closed the connection, and the client notices.
Hangup(c) ==
  /\ peer' = [peer EXCEPT ![c] = "away"]
  /\ line' = [line EXCEPT ![c] = NoLine]
  /\ ready' = ready \ {c}
  /\ proven' = proven \ {c}
  /\ who' = Nobody

-----------------------------------------------------------------------------
(* The packet thread and the end of main.                                  *)

OpenQueue ==
  /\ Alive /\ mpc = "init"
  /\ Has(Lowest, "queue")
  /\ mpc' = "packets"
  /\ UNCHANGED <<own, pc, session, state, clients, fault, history>>

OpenOwn(kind) ==
  /\ Alive /\ mpc = "packets"
  /\ Len(own) < (IF kind = "link" THEN 1 ELSE MaxOpen)
  /\ Has(Lowest, kind)
  /\ own' = Append(own, Lowest)
  /\ UNCHANGED <<mpc, pc, session, state, clients, fault, history>>

CloseOwn ==
  /\ Alive /\ own # << >>
  /\ Has(Last(own), "free")
  /\ own' = Front(own)
  /\ UNCHANGED <<mpc, pc, session, state, clients, fault, history>>

\* recv fails: the queue's socket overran while Main was busy.
LoopEnds ==
  /\ Alive /\ mpc = "packets" /\ own = << >>
  /\ mpc' = "poll"
  /\ UNCHANGED <<fds, pc, session, state, clients, fault, history>>

MainReturns ==
  /\ Alive /\ mpc = "poll" /\ ~state
  /\ mpc' = "ended"
  /\ UNCHANGED <<fds, pc, session, state, clients, fault, history>>

Main == OpenQueue \/ (\E kind \in {"file", "link"} : OpenOwn(kind)) \/ CloseOwn \/ MainReturns

-----------------------------------------------------------------------------
(* The command thread.                                                     *)

Listen ==
  /\ Alive /\ pc = "start"
  /\ Has(Lowest, "listen")
  /\ Goto("accept")
  /\ UNCHANGED <<own, mpc, session, state, clients, fault, history>>

\* Mutant: the next client inherits the authentication.
AcceptAsBefore ==
  /\ Alive /\ pc = "accept" /\ queue # << >>
  /\ csock' = Lowest /\ Has(Lowest, "client")
  /\ who' = Head(queue) /\ queue' = Tail(queue)
  /\ Goto("greet")
  /\ UNCHANGED <<own, mpc, isauth, cmd, strv, state, peer, line, ready, fault, history>>

Accept ==
  /\ Alive /\ pc = "accept" /\ queue # << >>
  /\ csock' = Lowest /\ Has(Lowest, "client")
  /\ who' = Head(queue) /\ queue' = Tail(queue)
  /\ isauth' = defauth
  /\ Goto("greet")
  /\ UNCHANGED <<own, mpc, cmd, strv, state, peer, line, ready, fault, history>>

Greet ==
  /\ Alive /\ pc = "greet" /\ CanWrite(who)
  /\ Written(who)
  /\ ready' = IF peer[who] = "up" THEN ready \cup {who} ELSE ready
  /\ Goto("read")
  /\ UNCHANGED <<fds, mpc, session, state, queue, line, fault, history>>

\* The write fails: Comm leaves its loop for good, after a sleep.
GreetFails ==
  /\ Alive /\ pc = "greet" /\ ~CanWrite(who)
  /\ Has(csock, "free") /\ Hangup(who) /\ csock' = 0
  /\ Goto("sleep")
  /\ UNCHANGED <<own, mpc, isauth, cmd, strv, state, queue, fault, defauth, rude, exit>>

\* g_strsplit allocates the words; an empty line is answered before that.  A
\* lone NUL is not trimmed, so it counts as a line; its array of words is empty.
ReadLine ==
  /\ Alive /\ pc = "read" /\ line[who] # NoLine
  /\ cmd' = line[who]
  /\ strv' = IF line[who] = "" THEN strv ELSE "valid"
  /\ line' = [line EXCEPT ![who] = NoLine]
  /\ Goto(IF line[who] = "" THEN "empty" ELSE "call")
  /\ UNCHANGED <<fds, mpc, csock, who, isauth, state, peer, queue, ready, fault, history>>

\* Mutant: the end of a session goes unnoticed.
ReadIgnored ==
  /\ Alive /\ pc = "read" /\ line[who] = NoLine
  /\ peer[who] \in {"eof", "reset"}
  /\ UNCHANGED vars

\* "Unexpected close": csock is closed, and then used as if it were open.  The
\* read gave 0, an empty command, or -1, a command without words.
ReadFails ==
  /\ Alive /\ pc = "read" /\ line[who] = NoLine
  /\ peer[who] \in {"eof", "reset"}
  /\ Has(csock, "free") /\ Hangup(who)
  /\ \/ Goto("staleEmpty") /\ strv' = strv
     \/ peer[who] = "reset" /\ Goto("staleNull") /\ strv' = "valid"
  /\ UNCHANGED <<own, mpc, csock, isauth, cmd, state, queue, fault, defauth, rude, exit>>

Stale == {"staleEmpty", "staleNull"}
Sockets == {"link", "queue"}   \* of Main: they take a write

\* strcmp(NULL), before the write if the client is not authenticated and
\* behind it otherwise; or Comm goes on reading what is Main's.
StaleFaults ==
  /\ Alive /\ pc \in Stale
  /\ \/ pc = "staleNull" /\ (~isauth \/ fdt[csock] \in Sockets) /\ fault' = "crash"
     \/ pc = "staleEmpty" /\ fdt[csock] \in Sockets /\ fault' = "reads Main's"
  /\ UNCHANGED <<fds, mpc, pc, session, state, clients, history>>

StaleWriteFails ==
  /\ Alive /\ pc \in Stale
  /\ pc = "staleEmpty" \/ isauth
  /\ fdt[csock] \notin Sockets
  /\ Goto("staleClose")
  /\ UNCHANGED <<fds, mpc, session, state, clients, fault, history>>

\* Mutant: csock is marked as closed.
StaleMarked ==
  /\ Alive /\ pc = "staleClose"
  /\ csock' = -1
  /\ Goto("accept")
  /\ UNCHANGED <<fds, mpc, who, isauth, cmd, strv, state, clients, fault, history>>

\* The second close: of nothing, or of what Main has opened meanwhile.
StaleClose ==
  /\ Alive /\ pc = "staleClose"
  /\ Has(csock, "free") /\ csock' = 0
  /\ fault' = IF fdt[csock] = "free" THEN fault ELSE "closes Main's"
  /\ Goto("accept")
  /\ UNCHANGED <<own, mpc, who, isauth, cmd, strv, state, clients, history>>

\* Mutant: an empty line gets no answer.
EmptyIgnored ==
  /\ Alive /\ pc = "empty" /\ CanWrite(who)
  /\ Goto("read")
  /\ UNCHANGED <<fds, mpc, session, state, clients, fault, history>>

\* "Empty command (try LIST)"
AnswerEmpty ==
  /\ Alive /\ pc = "empty" /\ CanWrite(who)
  /\ Written(who)
  /\ ready' = IF peer[who] = "up" THEN ready \cup {who} ELSE ready
  /\ Goto("read")
  /\ UNCHANGED <<fds, mpc, session, state, queue, line, fault, history>>

\* Without authentication only AUTH is called; CLOSE and EXIT are not commands
\* of the hash table and count whatever the answer.
Call ==
  /\ Alive /\ pc = "call" /\ (cmd = "NUL" => isauth)
  /\ isauth' = (isauth \/ cmd = "AUTH")
  /\ proven' = IF cmd = "AUTH" THEN proven \cup {who} ELSE proven
  /\ Goto("answer")
  /\ UNCHANGED <<fds, mpc, csock, who, cmd, strv, state, clients, fault, defauth, rude, exit>>

\* strcmp of a first word that is NULL: with "AUTH" if the client is not
\* authenticated, else with "EXIT", behind the answer.
CompareNull ==
  /\ Alive /\ cmd = "NUL"
  /\ \/ pc = "call" /\ ~isauth
     \/ pc = "answer" /\ CanWrite(who)
  /\ fault' = "crash"
  /\ UNCHANGED <<fds, mpc, pc, session, state, clients, history>>

\* The answer, the words freed, the end mark.
Answer ==
  /\ Alive /\ pc = "answer" /\ CanWrite(who) /\ cmd \notin {"CLOSE", "EXIT", "NUL"}
  /\ Written(who)
  /\ ready' = IF peer[who] = "up" THEN ready \cup {who} ELSE ready
  /\ strv' = "freed" /\ cmd' = ""
  /\ Goto("read")
  /\ UNCHANGED <<fds, mpc, csock, who, isauth, state, queue, line, fault, history>>

\* Mutant: the socket stays open.
CloseLeaks ==
  /\ Alive /\ pc = "answer" /\ CanWrite(who) /\ cmd = "CLOSE"
  /\ strv' = "freed"
  /\ Hangup(who) /\ csock' = 0 /\ cmd' = ""
  /\ Goto("accept")
  /\ UNCHANGED <<fds, mpc, isauth, state, queue, fault, defauth, rude, exit>>

AnswerClose ==
  /\ Alive /\ pc = "answer" /\ CanWrite(who) /\ cmd = "CLOSE"
  /\ strv' = "freed"
  /\ Has(csock, "free") /\ Hangup(who) /\ csock' = 0 /\ cmd' = ""
  /\ Goto("accept")
  /\ UNCHANGED <<own, mpc, isauth, state, queue, fault, defauth, rude, exit>>

\* Mutant: EXIT ends the session only.
ExitBreaks ==
  /\ Alive /\ pc = "answer" /\ CanWrite(who) /\ cmd = "EXIT"
  /\ Has(csock, "free") /\ Hangup(who) /\ csock' = 0 /\ cmd' = ""
  /\ exit' = TRUE
  /\ Goto("accept")
  /\ UNCHANGED <<own, mpc, isauth, strv, state, queue, fault, defauth, rude>>

\* Mutant: the words are freed, and freed again at the end.
ExitFrees ==
  /\ Alive /\ pc = "answer" /\ CanWrite(who) /\ cmd = "EXIT"
  /\ Written(who)
  /\ exit' = TRUE
  /\ strv' = "freed"
  /\ Goto("end")
  /\ UNCHANGED <<fds, mpc, csock, who, isauth, cmd, state, queue, line, ready, fault, defauth, proven, rude>>

\* The two sockets are left open.
AnswerExit ==
  /\ Alive /\ pc = "answer" /\ CanWrite(who) /\ cmd = "EXIT"
  /\ Written(who)
  /\ exit' = TRUE
  /\ Goto("end")
  /\ UNCHANGED <<fds, mpc, session, state, queue, line, ready, fault, defauth, proven, rude>>

\* The words are not freed.
AnswerFails ==
  /\ Alive /\ pc \in {"empty", "answer"} /\ ~CanWrite(who)
  /\ Has(csock, "free") /\ Hangup(who) /\ csock' = 0 /\ cmd' = ""
  /\ Goto("accept")
  /\ UNCHANGED <<own, mpc, isauth, strv, state, queue, fault, defauth, rude, exit>>

WakeUp ==
  /\ Alive /\ pc = "sleep"
  /\ Goto("end")
  /\ UNCHANGED <<fds, mpc, session, state, clients, fault, history>>

EndComm ==
  /\ Alive /\ pc = "end"
  /\ state' = FALSE
  /\ Goto("free")
  /\ UNCHANGED <<fds, mpc, session, clients, fault, history>>

\* g_strfreev of what strv happens to be.
FreeWords ==
  /\ Alive /\ pc = "free"
  /\ \/ UNCHANGED fault
     \/ strv # "valid" /\ fault' = "crash"
  /\ Goto("gone")
  /\ UNCHANGED <<fds, mpc, session, state, clients, history>>

Comm ==
  \/ Listen \/ Accept \/ Greet \/ GreetFails
  \/ ReadLine \/ ReadFails \/ StaleFaults \/ StaleWriteFails \/ StaleClose
  \/ AnswerEmpty \/ Call \/ CompareNull \/ Answer \/ AnswerClose \/ AnswerExit \/ AnswerFails
  \/ WakeUp \/ EndComm \/ FreeWords

Stopped == ~Alive /\ UNCHANGED vars

Next ==
  \/ \E c \in Client : Connect(c) \/ Leave(c) \/ \E command \in Cmd : Send(c, command)
  \/ Main \/ LoopEnds \/ Comm \/ Stopped

Spec == Init /\ [][Next]_vars

\* Both threads run, and a client that is answered again and again leaves in
\* the end; one that waits for an answer may wait for ever.
FairSpec ==
  /\ Spec /\ WF_vars(Main) /\ WF_vars(Comm)
  /\ \A c \in Client : SF_vars(c \in ready /\ Leave(c))

-----------------------------------------------------------------------------
(* Properties.                                                             *)

TypeOK ==
  /\ fdt \in [Fd -> {"free", "listen", "client", "file"} \cup Sockets]
  /\ own \in Seq(Fd)
  /\ mpc \in {"init", "packets", "poll", "ended"}
  /\ pc \in {"start", "accept", "greet", "read", "staleClose", "empty", "call", "answer",
             "sleep", "end", "free", "gone"} \cup Stale
  /\ csock \in Fd \cup {0} /\ who \in Client \cup {Nobody}
  /\ isauth \in BOOLEAN /\ cmd \in Cmd /\ strv \in {"unset", "valid", "freed"}
  /\ state \in BOOLEAN
  /\ peer \in [Client -> {"away", "up", "eof", "reset"}]
  /\ queue \in Seq(Client)
  /\ line \in [Client -> Cmd \cup {NoLine}] /\ ready \subseteq Client
  /\ fault \in {"none", "crash", "reads Main's", "closes Main's"}
  /\ defauth \in DefAuth /\ proven \subseteq Client
  /\ rude \in BOOLEAN /\ exit \in BOOLEAN

\* However its sessions ended (CLOSE, a lost client, a failed answer), Comm
\* waits for the next client with no descriptor of an earlier one left open:
\* beside its socket, what is open is Main's.
NoSessionLeaks ==
  fault = "none" /\ pc = "accept" =>
    \A n \in Fd : fdt[n] # "free" => n \in Range(own) \/ fdt[n] \in {"listen", "queue"}

\* The authentication in force is that of the client behind csock: it does not
\* outlive the session, and the next client starts without it.
AuthIsTheClients ==
  pc \in {"greet", "read", "empty", "call", "answer"} /\ isauth => defauth \/ who \in proven

\* As long as every client ends its session by CLOSE or EXIT, and none sends a
\* line that is one NUL byte, the daemon does not leave its rails, and only
\* EXIT ends the command thread.
PoliteClientsAreSafe ==
  ~rude => /\ fault = "none"
           /\ pc \in {"sleep", "end", "free", "gone"} => exit

Over == fault # "none" \/ pc \in {"sleep", "end", "free", "gone"}

\* A client that waits for accept is served, unless the command thread ends.
Served == \A c \in Client : Contains(queue, c) ~> ~Contains(queue, c) \/ Over

\* Each command, the empty one included, is answered while its client stays;
\* only the lone NUL byte ends the daemon instead.
Answered ==
  \A c \in Client : line[c] \in Cmd \ {"NUL"} ~> c \in ready \/ peer[c] # "up" \/ exit

\* After an EXIT main returns, once the packet loop is over.
ExitEnds == exit /\ mpc = "poll" ~> mpc = "ended"

-----------------------------------------------------------------------------
(* What a comment says, and the code does not do.                          *)

\* fwcomm.c:36, "Don't crash a daemon if write failed": the end of the command
\* thread, which a failed write of the greeting brings about, is orderly.
FailedWriteIsHarmless == pc = "gone" => fault # "crash"
=============================================================================
