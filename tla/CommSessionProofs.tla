-------------------------- MODULE CommSessionProofs --------------------------
(***************************************************************************)
(* Proofs about CommSession, for any clients, any number of descriptors    *)
(* that suffices, and every interleaving of the two threads: types, the    *)
(* authentication, orderly clients, and the descriptors of sessions.       *)
(***************************************************************************)
EXTENDS CommSession, FiniteSetTheorems, SequenceTheorems, WellFoundedInduction, TLAPS

USE SessionAssumption DEF SessionAssumption, Fd

InSession == {"greet", "read", "empty", "call", "answer"}

-----------------------------------------------------------------------------
(* The authentication.                                                     *)

LEMMA SameAuth ==
  ASSUME AuthIsTheClients, UNCHANGED <<isauth, defauth>>,
         pc' \in InSession => pc \in InSession /\ who' = who,
         who \in proven => who \in proven' \/ pc' \notin InSession
  PROVE  AuthIsTheClients'
BY Zenon DEF AuthIsTheClients, InSession

LEMMA AuthStep == AuthIsTheClients /\ [Next]_vars => AuthIsTheClients'
<1> SUFFICES ASSUME AuthIsTheClients, [Next]_vars PROVE AuthIsTheClients'
  OBVIOUS
<1> USE DEF session, clients, history, Goto
<1>1. CASE \E c \in Client : Connect(c) \/ Leave(c) \/ \E command \in Cmd : Send(c, command)
  <2>1. UNCHANGED <<isauth, defauth, pc, who, proven>>
    BY <1>1 DEF Connect, Leave, Send
  <2> QED BY <2>1, SameAuth
<1>2. CASE Main \/ LoopEnds
  <2>1. UNCHANGED <<isauth, defauth, pc, who, proven>>
    BY <1>2 DEF Main, LoopEnds, OpenQueue, OpenOwn, CloseOwn, MainReturns
  <2> QED BY <2>1, SameAuth
<1>3. CASE Comm
  <2>1. CASE Accept
    <3>1. isauth' = defauth /\ defauth' = defauth
      BY <2>1 DEF Accept
    <3> QED BY <3>1, Zenon DEF AuthIsTheClients
  <2>2. CASE Call
    <3>1. /\ pc = "call" /\ who' = who /\ defauth' = defauth
          /\ isauth' = (isauth \/ cmd = "AUTH")
          /\ proven' = IF cmd = "AUTH" THEN proven \cup {who} ELSE proven
      BY <2>2 DEF Call
    <3>2. (isauth => defauth \/ who \in proven) /\ (cmd = "AUTH" => who \in proven')
      BY <3>1 DEF AuthIsTheClients
    <3>3. who \in proven => who \in proven'
      BY <3>1
    <3> QED BY <3>1, <3>2, <3>3, Zenon DEF AuthIsTheClients
  <2>3. CASE Greet \/ ReadLine \/ AnswerEmpty \/ Answer
    <3>1. UNCHANGED <<isauth, defauth, who, proven>>
      BY <2>3 DEF Greet, ReadLine, AnswerEmpty, Answer
    <3>2. pc \in InSession
      BY <2>3 DEF Greet, ReadLine, AnswerEmpty, Answer, InSession
    <3> QED BY <3>1, <3>2, SameAuth
  <2>4. CASE GreetFails \/ ReadFails \/ AnswerClose \/ AnswerFails \/ AnswerExit
    <3>1. UNCHANGED <<isauth, defauth>>
      BY <2>4 DEF GreetFails, ReadFails, AnswerClose, AnswerFails, AnswerExit
    <3>2. pc' \notin InSession
      BY <2>4 DEF GreetFails, ReadFails, AnswerClose, AnswerFails, AnswerExit, InSession
    <3> QED BY <3>1, <3>2, SameAuth
  <2>5. CASE StaleFaults \/ CompareNull
    <3>1. UNCHANGED <<isauth, defauth, pc, who, proven>>
      BY <2>5 DEF StaleFaults, CompareNull
    <3> QED BY <3>1, SameAuth
  <2>6. CASE Listen \/ StaleWriteFails \/ StaleClose \/ WakeUp \/ EndComm \/ FreeWords
    <3>1. UNCHANGED <<isauth, defauth>>
      BY <2>6 DEF Listen, StaleWriteFails, StaleClose, WakeUp, EndComm, FreeWords
    <3>2. pc' \notin InSession
      BY <2>6 DEF Listen, StaleWriteFails, StaleClose, WakeUp, EndComm, FreeWords, InSession
    <3> QED BY <3>1, <3>2, SameAuth
  <2> QED BY <1>3, <2>1, <2>2, <2>3, <2>4, <2>5, <2>6 DEF Comm
<1>4. CASE Stopped \/ UNCHANGED vars
  <2>1. UNCHANGED <<isauth, defauth, pc, who, proven>>
    BY <1>4 DEF Stopped, vars
  <2> QED BY <2>1, SameAuth
<1> QED BY <1>1, <1>2, <1>3, <1>4 DEF Next

\* The authentication of a session is the client's own or the build's default,
\* however the sessions before it ended.
THEOREM AuthIsOwn == Spec => []AuthIsTheClients
<1>1. Init => AuthIsTheClients
  BY DEF Init, AuthIsTheClients
<1> QED BY <1>1, AuthStep, PTL DEF Spec

-----------------------------------------------------------------------------
(* Clients that end their sessions by CLOSE or EXIT and send no lone NUL.  *)

Waiting(c) == \E i \in DOMAIN queue : queue[i] = c

\* A client is in the queue once or in the session, and connected.
Places ==
  /\ queue \in Seq(Client)
  /\ peer \in [Client -> {"away", "up", "eof", "reset"}]
  /\ \A i \in DOMAIN queue : peer[queue[i]] # "away"
  /\ \A i, j \in DOMAIN queue : queue[i] = queue[j] => i = j
  /\ pc \in InSession => who \in Client /\ peer[who] # "away" /\ ~Waiting(who)

\* The words that g_strfreev frees at the end are allocated.
Orderly ==
  ~rude =>
    /\ \A c \in Client : peer[c] \in {"away", "up"}
    /\ fault = "none"
    /\ pc \notin Stale \cup {"staleClose", "sleep"}
    /\ pc \in {"call", "answer", "end", "free"} => strv = "valid"
    /\ pc \in {"end", "free", "gone"} => exit

\* No line that is read, or will be, is a lone NUL.
Worded ==
  ~rude => cmd # "NUL" /\ \A c \in Client : line[c] # "NUL"

LineType == line \in [Client -> Cmd \cup {NoLine}]

PoliteInv == Places /\ Orderly /\ LineType /\ Worded

LEMMA Dequeued ==
  ASSUME Places, queue # << >>
  PROVE  /\ Head(queue) \in Client /\ Tail(queue) \in Seq(Client)
         /\ peer[Head(queue)] # "away"
         /\ \A i \in DOMAIN Tail(queue) : i + 1 \in DOMAIN queue /\ Tail(queue)[i] = queue[i + 1]
         /\ \A i \in DOMAIN Tail(queue) : Tail(queue)[i] # Head(queue)
<1>1. queue \in Seq(Client) /\ Len(queue) \in Nat /\ 1 \in DOMAIN queue /\ Head(queue) = queue[1]
  BY DEF Places
<1>2. Head(queue) \in Client /\ Tail(queue) \in Seq(Client)
  BY <1>1
<1>3. \A i \in DOMAIN Tail(queue) : i + 1 \in DOMAIN queue /\ Tail(queue)[i] = queue[i + 1] /\ i \in Nat /\ i > 0
  BY <1>1
<1>4. \A i \in DOMAIN Tail(queue) : Tail(queue)[i] # Head(queue)
  BY <1>1, <1>3 DEF Places
<1> QED BY <1>1, <1>2, <1>3, <1>4 DEF Places

\* Steps that leave the queue and the session's client in place.
LEMMA SamePlaces ==
  ASSUME Places, UNCHANGED queue,
         peer' \in [Client -> {"away", "up", "eof", "reset"}],
         \A c \in Client : peer[c] # "away" /\ peer'[c] = "away" =>
           c = who /\ pc \in InSession /\ pc' \notin InSession,
         pc' \in InSession => pc \in InSession /\ who' = who
  PROVE  Places'
<1>1. \A i \in DOMAIN queue : queue[i] \in Client
  BY DEF Places
<1>2. \A i \in DOMAIN queue : peer'[queue[i]] # "away"
  BY <1>1 DEF Places, Waiting
<1> QED BY <1>2 DEF Places, Waiting

LEMMA WordedStep ==
  ASSUME PoliteInv, [Next]_vars
  PROVE  LineType' /\ Worded'
<1> DEFINE Goal == LineType' /\ Worded'
<1>0. Places /\ LineType /\ Worded
  BY DEF PoliteInv
<1> USE DEF session, clients, history
<1>1. ASSUME UNCHANGED <<line, cmd>>, rude => rude' PROVE Goal
  BY <1>0, <1>1 DEF LineType, Worded
<1>2. CASE \E c \in Client : Connect(c) \/ Leave(c)
  <2>1. UNCHANGED <<line, cmd>> /\ (rude => rude')
    BY <1>2 DEF Connect, Leave
  <2> QED BY <1>1, <2>1
<1>3. ASSUME NEW c \in Client, NEW command \in Cmd, Send(c, command) PROVE Goal
  <2>1. line' = [line EXCEPT ![c] = command] /\ rude' = (rude \/ command = "NUL") /\ cmd' = cmd
    BY <1>3 DEF Send
  <2> QED BY <1>0, <2>1 DEF LineType, Worded
<1>4. CASE Main \/ LoopEnds \/ Stopped \/ UNCHANGED vars
  <2>1. UNCHANGED <<line, cmd, rude>>
    BY <1>4 DEF Main, LoopEnds, OpenQueue, OpenOwn, CloseOwn, MainReturns, Stopped, vars
  <2> QED BY <1>1, <2>1
<1>5. CASE \/ Listen \/ Accept \/ Greet \/ StaleFaults \/ StaleWriteFails \/ StaleClose \/ AnswerEmpty \/ Call
           \/ CompareNull \/ AnswerExit \/ WakeUp \/ EndComm \/ FreeWords
  <2>1. UNCHANGED <<line, cmd, rude>>
    BY <1>5 DEF Listen, Accept, Greet, StaleFaults, StaleWriteFails, StaleClose, AnswerEmpty, Call,
       CompareNull, AnswerExit, WakeUp, EndComm, FreeWords
  <2> QED BY <1>1, <2>1
<1>6. CASE ReadLine
  <2>1. line' = [line EXCEPT ![who] = NoLine] /\ cmd' = line[who] /\ rude' = rude
    BY <1>6 DEF ReadLine
  <2>2. who \in Client
    BY <1>0, <1>6 DEF ReadLine, Places, InSession
  <2> QED BY <1>0, <2>1, <2>2 DEF LineType, Worded, NoLine
<1>7. CASE GreetFails \/ ReadFails \/ AnswerClose \/ AnswerFails \/ Answer
  <2>1. (line' = line \/ line' = [line EXCEPT ![who] = NoLine]) /\ cmd' \in {cmd, ""} /\ rude' = rude
    BY <1>7 DEF GreetFails, ReadFails, AnswerClose, AnswerFails, Answer, Hangup
  <2> QED BY <1>0, <2>1 DEF LineType, Worded, NoLine
<1> QED BY <1>2, <1>3, <1>4, <1>5, <1>6, <1>7 DEF Next, Comm

LEMMA PoliteStep == PoliteInv /\ [Next]_vars => PoliteInv'
<1> SUFFICES ASSUME PoliteInv, [Next]_vars PROVE Places' /\ Orderly'
  BY WordedStep DEF PoliteInv
<1>0. Places /\ Orderly /\ peer \in [Client -> {"away", "up", "eof", "reset"}]
  BY DEF PoliteInv, Places
<1> USE DEF session, clients, history, Goto
<1>1. ASSUME NEW c \in Client, Connect(c) PROVE Places' /\ Orderly'
  <2>1. /\ peer[c] = "away" /\ peer' = [peer EXCEPT ![c] = "up"] /\ queue' = Append(queue, c)
        /\ UNCHANGED <<pc, who, strv, fault, rude, exit>>
    BY <1>1 DEF Connect
  <2>2. /\ queue \in Seq(Client) /\ Len(queue) \in Nat
        /\ DOMAIN queue = 1..Len(queue) /\ \A i \in DOMAIN queue : queue[i] \in Client
    BY <1>0 DEF Places
  <2>3. /\ queue' \in Seq(Client) /\ DOMAIN queue' = 1..(Len(queue) + 1)
        /\ queue'[Len(queue) + 1] = c /\ \A i \in 1..Len(queue) : queue'[i] = queue[i]
    BY <2>1, <2>2
  <2>4. \A i \in DOMAIN queue : queue[i] # c
    BY <1>0, <2>1 DEF Places
  <2>5. \A d \in Client : d # c => peer'[d] = peer[d]
    BY <1>0, <2>1
  <2>6. peer'[c] = "up" /\ peer' \in [Client -> {"away", "up", "eof", "reset"}]
    BY <1>0, <2>1
  <2>7. \A i \in DOMAIN queue' : peer'[queue'[i]] # "away"
    BY <1>0, <2>2, <2>3, <2>4, <2>5, <2>6 DEF Places
  <2>8. \A i, j \in DOMAIN queue' : queue'[i] = queue'[j] => i = j
    BY <1>0, <2>2, <2>3, <2>4 DEF Places
  <2>9. pc' \in InSession => who' \in Client /\ peer'[who'] # "away" /\ ~Waiting(who)'
    BY <1>0, <2>1, <2>2, <2>3, <2>5, <2>6 DEF Places, Waiting
  <2>10. Places'
    BY <2>3, <2>6, <2>7, <2>8, <2>9 DEF Places
  <2>11. Orderly'
    BY <1>0, <2>1, <2>5, <2>6 DEF Orderly
  <2> QED BY <2>10, <2>11
<1>2. ASSUME NEW c \in Client, Leave(c) PROVE Places' /\ Orderly'
  <2>1. /\ UNCHANGED <<queue, pc, who>> /\ rude' = TRUE /\ peer[c] = "up"
        /\ \E how \in {"eof", "reset"} : peer' = [peer EXCEPT ![c] = how]
    BY <1>2 DEF Leave
  <2>2. peer' \in [Client -> {"away", "up", "eof", "reset"}]
    BY <1>0, <2>1
  <2>3. \A d \in Client : peer[d] # "away" => peer'[d] # "away"
    BY <1>0, <2>1
  <2>4. Places'
    BY <1>0, <2>1, <2>2, <2>3, SamePlaces
  <2> QED BY <2>1, <2>4 DEF Orderly
<1>3. ASSUME UNCHANGED <<peer, queue, pc, who, strv, fault, rude, exit>> PROVE Places' /\ Orderly'
  BY <1>0, <1>3 DEF Places, Orderly, Waiting
<1>4. CASE Main \/ LoopEnds \/ Stopped \/ UNCHANGED vars
  BY <1>3, <1>4 DEF Main, LoopEnds, OpenQueue, OpenOwn, CloseOwn, MainReturns, Stopped, vars
<1>6. CASE \E c \in Client, command \in Cmd : Send(c, command)
  <2>1. UNCHANGED <<peer, queue, pc, who, strv, fault, exit>> /\ (rude => rude')
    BY <1>6 DEF Send
  <2> QED BY <1>0, <2>1 DEF Places, Orderly, Waiting
<1>5. CASE Comm
  <2>1. CASE Listen \/ WakeUp \/ EndComm \/ FreeWords
    <3>1. /\ UNCHANGED <<peer, queue, who, strv, rude, exit>>
          /\ pc \in {"start", "sleep", "end", "free"} /\ pc' \in {"accept", "end", "free", "gone"}
          /\ pc = "start" <=> pc' = "accept"
          /\ fault' = fault \/ (pc = "free" /\ strv # "valid")
      BY <2>1 DEF Listen, WakeUp, EndComm, FreeWords
    <3>2. Places'
      BY <1>0, <3>1, SamePlaces DEF InSession
    <3>3. Orderly'
      BY <1>0, <3>1 DEF Orderly, Stale
    <3> QED BY <3>2, <3>3
  <2>2. CASE Accept
    <3>1. /\ queue # << >> /\ who' = Head(queue) /\ queue' = Tail(queue) /\ pc' = "greet"
          /\ UNCHANGED <<peer, strv, fault, rude, exit>>
      BY <2>2 DEF Accept
    <3>2. Places'
      BY <1>0, <3>1, Dequeued DEF Places, Waiting
    <3>3. Orderly'
      BY <1>0, <3>1 DEF Orderly, Stale
    <3> QED BY <3>2, <3>3
  <2>3. CASE Greet \/ ReadLine \/ AnswerEmpty \/ Call \/ Answer
    <3>1. /\ UNCHANGED <<queue, who, fault, rude, exit>> /\ pc \in InSession /\ pc' \in InSession
          /\ peer' = peer \/ Written(who)
      BY <2>3 DEF Greet, ReadLine, AnswerEmpty, Call, Answer, InSession
    <3>2. pc' \in {"call", "answer"} => strv' = "valid" \/ (pc = "call" /\ strv' = strv)
      BY <2>3 DEF Greet, ReadLine, AnswerEmpty, Call, Answer
    <3>3. peer' \in [Client -> {"away", "up", "eof", "reset"}]
      BY <1>0, <3>1 DEF Written
    <3>4. \A c \in Client : (peer[c] # "away" => peer'[c] # "away") /\ (peer[c] \in {"away", "up"} => peer'[c] = peer[c])
      BY <1>0, <3>1 DEF Written
    <3>5. Places'
      BY <1>0, <3>1, <3>3, <3>4, SamePlaces
    <3>6. Orderly'
      BY <1>0, <3>1, <3>2, <3>4 DEF Orderly, InSession, Stale
    <3> QED BY <3>5, <3>6
  <2>4. CASE AnswerClose \/ GreetFails \/ ReadFails \/ AnswerFails
    <3>1. /\ UNCHANGED <<queue, fault, rude, exit>> /\ pc \in InSession
          /\ pc' \in {"accept", "sleep", "staleEmpty", "staleNull"}
          /\ peer' = [peer EXCEPT ![who] = "away"]
      BY <2>4 DEF AnswerClose, GreetFails, ReadFails, AnswerFails, InSession, Hangup
    <3>2. pc' = "accept" \/ (peer[who] \in {"eof", "reset"} \/ ~CanWrite(who))
      BY <2>4 DEF AnswerClose, GreetFails, ReadFails, AnswerFails
    <3>3. who \in Client /\ peer[who] # "away"
      BY <1>0, <3>1 DEF Places
    <3>4. /\ peer' \in [Client -> {"away", "up", "eof", "reset"}]
          /\ \A c \in Client : peer'[c] = IF c = who THEN "away" ELSE peer[c]
      BY <1>0, <3>1, <3>3
    <3>5. Places'
      BY <1>0, <3>1, <3>4, SamePlaces DEF InSession
    <3>6. pc' = "accept" \/ rude
      BY <1>0, <3>2, <3>3 DEF Orderly, CanWrite
    <3>7. Orderly'
      BY <1>0, <3>1, <3>4, <3>6 DEF Orderly, Stale
    <3> QED BY <3>5, <3>7
  <2>5. CASE AnswerExit
    <3>1. /\ UNCHANGED <<queue, who, fault, rude, strv>> /\ pc = "answer" /\ pc' = "end" /\ exit'
          /\ Written(who)
      BY <2>5 DEF AnswerExit
    <3>2. /\ peer' \in [Client -> {"away", "up", "eof", "reset"}]
          /\ \A c \in Client : (peer[c] # "away" => peer'[c] # "away") /\ (peer[c] \in {"away", "up"} => peer'[c] = peer[c])
      BY <1>0, <3>1 DEF Written
    <3>3. Places'
      BY <1>0, <3>1, <3>2, SamePlaces DEF InSession
    <3>4. Orderly'
      BY <1>0, <3>1, <3>2 DEF Orderly, Stale
    <3> QED BY <3>3, <3>4
  <2>6. CASE StaleFaults \/ StaleWriteFails \/ StaleClose
    <3>1. /\ UNCHANGED <<peer, queue, who, rude>>
          /\ pc \in Stale \cup {"staleClose"} /\ pc' \in Stale \cup {"staleClose", "accept"}
      BY <2>6 DEF StaleFaults, StaleWriteFails, StaleClose
    <3>2. Places'
      BY <1>0, <3>1, SamePlaces DEF InSession, Stale
    <3>3. Orderly'
      BY <1>0, <3>1 DEF Orderly
    <3> QED BY <3>2, <3>3
  <2>7. CASE CompareNull
    <3>1. rude /\ UNCHANGED <<peer, queue, pc, who, rude>>
      BY <2>7 DEF CompareNull, PoliteInv, Worded
    <3> QED BY <1>0, <3>1 DEF Places, Orderly, Waiting
  <2> QED BY <1>5, <2>1, <2>2, <2>3, <2>4, <2>5, <2>6, <2>7 DEF Comm
<1> QED BY <1>1, <1>2, <1>4, <1>5, <1>6 DEF Next

\* Clients that end each session by CLOSE or EXIT, and send no line that is one
\* NUL byte, never bring the daemon down, in whatever number, with whatever
\* other lines, and beside whatever Main does.
THEOREM PoliteIsSafe == Spec => []PoliteClientsAreSafe
<1>1. Init => PoliteInv
  <2> SUFFICES ASSUME Init PROVE PoliteInv
    OBVIOUS
  <2>1. pc = "start" /\ queue = << >> /\ peer = [c \in Client |-> "away"] /\ fault = "none"
    BY DEF Init
  <2>2. Places
    BY <2>1 DEF Places, InSession
  <2>3. Orderly
    BY <2>1 DEF Orderly, Stale
  <2>4. LineType /\ Worded
    BY DEF Init, LineType, Worded, Cmd, NoLine
  <2> QED BY <2>2, <2>3, <2>4 DEF PoliteInv
<1>2. PoliteInv => PoliteClientsAreSafe
  BY DEF PoliteInv, Orderly, PoliteClientsAreSafe
<1> QED BY <1>1, <1>2, PoliteStep, PTL DEF Spec

-----------------------------------------------------------------------------
(* The descriptors.                                                        *)

Kinds == {"free", "listen", "client", "file"} \cup Sockets
Holding == InSession \cup {"end", "free", "gone"}

\* Main's readings have a descriptor each, and every descriptor that is in use
\* is the queue, the listening socket, the session's, or one of Main's readings.
FdInv ==
  /\ fdt \in [Fd -> Kinds]
  /\ own \in Seq(Fd) /\ Len(own) <= MaxOpen
  /\ \A i \in DOMAIN own : fdt[own[i]] \in {"file", "link"}
  /\ \A i, j \in DOMAIN own : own[i] = own[j] => i = j
  /\ \A n \in Fd : fdt[n] \in {"file", "link"} => \E i \in DOMAIN own : own[i] = n
  /\ \A n, m \in Fd : fdt[n] \in {"listen", "queue"} /\ fdt[m] = fdt[n] => m = n
  /\ pc = "start" => \A n \in Fd : fdt[n] # "listen"
  /\ mpc = "init" => \A n \in Fd : fdt[n] # "queue"
  /\ \A n \in Fd : fdt[n] = "client" => n = csock /\ pc \in Holding
  /\ pc \in InSession => csock \in Fd /\ fdt[csock] = "client"

LeakInv == fault = "none" => FdInv

LEMMA LeastNumber ==
  ASSUME NEW T \in SUBSET Nat, T # {}
  PROVE  \E m \in T : \A k \in T : m <= k
<1> DEFINE Less == {ss \in Nat \X Nat : ss[1] < ss[2]}
<1>1. IsWellFoundedOn(Less, Nat)
  BY NatLessThanWellFounded DEF OpToRel
<1>2. \A k, m \in Nat : k < m => <<k, m>> \in Less
  OBVIOUS
<1> HIDE DEF Less
<1>3. PICK m \in T : \A k \in T : ~(<<k, m>> \in Less)
  BY <1>1, WFMin
<1>4. \A k \in T : k \in Nat
  OBVIOUS
<1>5. \A k \in T : ~(k < m)
  BY <1>2, <1>3, <1>4
<1> QED BY <1>4, <1>5

\* A set whose members are all equal.
LEMMA AtMostOne ==
  ASSUME NEW S, \A x, y \in S : x = y
  PROVE  IsFiniteSet(S) /\ Cardinality(S) <= 1 /\ Cardinality(S) \in Nat
<1>1. CASE S = {}
  BY <1>1, FS_EmptySet
<1>2. CASE S # {}
  <2>1. PICK x \in S : TRUE
    BY <1>2
  <2>2. S = {x}
    BY <2>1
  <2>3. IsFiniteSet({x}) /\ Cardinality({x}) = 1
    BY FS_Singleton
  <2> QED BY <2>2, <2>3
<1> QED BY <1>1, <1>2

LEMMA UnionBound ==
  ASSUME NEW A, NEW B, IsFiniteSet(A), IsFiniteSet(B)
  PROVE  /\ IsFiniteSet(A \cup B)
         /\ Cardinality(A \cup B) <= Cardinality(A) + Cardinality(B)
         /\ Cardinality(A) \in Nat /\ Cardinality(B) \in Nat /\ Cardinality(A \cup B) \in Nat
<1>1. /\ IsFiniteSet(A \cup B)
      /\ Cardinality(A \cup B) = Cardinality(A) + Cardinality(B) - Cardinality(A \cap B)
  BY FS_Union
<1>2. IsFiniteSet(A \cap B)
  BY FS_Intersection
<1>3. /\ Cardinality(A) \in Nat /\ Cardinality(B) \in Nat
      /\ Cardinality(A \cap B) \in Nat /\ Cardinality(A \cup B) \in Nat
  BY <1>1, <1>2, FS_CardinalityType
<1> QED BY <1>1, <1>3

\* Before the queue or the listening socket is open, outside a session, and
\* while Main may read more, a descriptor is free.
LEMMA OneIsFree ==
  ASSUME FdInv, mpc = "init" \/ pc \in {"start", "accept"} \/ Len(own) < MaxOpen
  PROVE  Lowest \in Fd /\ fdt[Lowest] = "free"
<1> DEFINE Reading == {n \in Fd : fdt[n] \in {"file", "link"}}
           Of(kind) == {n \in Fd : fdt[n] = kind}
<1>1. IsFiniteSet(Reading) /\ Cardinality(Reading) <= Len(own) /\ Len(own) \in Nat
      /\ Cardinality(Reading) \in Nat
  <2>1. Len(own) \in Nat /\ DOMAIN own = 1..Len(own)
    BY DEF FdInv
  <2>2. own \in Surjection(1..Len(own), Reading)
    <3>1. own \in [1..Len(own) -> Reading]
      BY <2>1 DEF FdInv
    <3>2. \A n \in Reading : \E i \in 1..Len(own) : own[i] = n
      BY <2>1 DEF FdInv
    <3> QED BY <3>1, <3>2 DEF Surjection
  <2>3. ExistsSurjection(1..Len(own), Reading)
    BY <2>2 DEF ExistsSurjection
  <2>4. IsFiniteSet(Reading) /\ Cardinality(Reading) <= Len(own)
    BY <2>1, <2>3, FS_SurjCardinalityBound, FS_NatSurjection
  <2> QED BY <2>1, <2>4, FS_CardinalityType
<1>2. /\ IsFiniteSet(Of("listen")) /\ Cardinality(Of("listen")) <= 1 /\ Cardinality(Of("listen")) \in Nat
      /\ IsFiniteSet(Of("queue")) /\ Cardinality(Of("queue")) <= 1 /\ Cardinality(Of("queue")) \in Nat
      /\ IsFiniteSet(Of("client")) /\ Cardinality(Of("client")) <= 1 /\ Cardinality(Of("client")) \in Nat
  <2>1. \A m, n \in Of("listen") : m = n
    BY DEF FdInv
  <2>2. \A m, n \in Of("queue") : m = n
    BY DEF FdInv
  <2>3. \A m, n \in Of("client") : m = n
    BY DEF FdInv
  <2> QED BY <2>1, <2>2, <2>3, AtMostOne
<1>3. \/ Len(own) < MaxOpen \/ Cardinality(Of("listen")) = 0
      \/ Cardinality(Of("queue")) = 0 \/ Cardinality(Of("client")) = 0
  <2>1. CASE mpc = "init"
    <3>1. Of("queue") = {}
      BY <2>1 DEF FdInv
    <3> QED BY <3>1, FS_EmptySet
  <2>2. CASE pc \in {"start", "accept"}
    <3>1. Of("client") = {}
      BY <2>2 DEF FdInv, Holding, InSession
    <3> QED BY <3>1, FS_EmptySet
  <2> QED BY <2>1, <2>2
<1> DEFINE used == Reading \cup (Of("listen") \cup (Of("queue") \cup Of("client")))
<1>4. Cardinality(used) < MaxFd /\ IsFiniteSet(used)
  <2>1. /\ IsFiniteSet(Of("queue") \cup Of("client")) /\ Cardinality(Of("queue") \cup Of("client")) \in Nat
        /\ Cardinality(Of("queue") \cup Of("client")) <= Cardinality(Of("queue")) + Cardinality(Of("client"))
    BY <1>2, UnionBound
  <2>2. /\ IsFiniteSet(Of("listen") \cup (Of("queue") \cup Of("client")))
        /\ Cardinality(Of("listen") \cup (Of("queue") \cup Of("client"))) \in Nat
        /\ Cardinality(Of("listen") \cup (Of("queue") \cup Of("client"))) <=
             Cardinality(Of("listen")) + Cardinality(Of("queue") \cup Of("client"))
    BY <1>2, <2>1, UnionBound
  <2>3. /\ IsFiniteSet(used) /\ Cardinality(used) \in Nat
        /\ Cardinality(used) <= Cardinality(Reading) + Cardinality(Of("listen") \cup (Of("queue") \cup Of("client")))
    BY <1>1, <2>2, UnionBound
  <2>4. Len(own) <= MaxOpen
    BY DEF FdInv
  <2> HIDE DEF used, Of, Reading
  <2> QED BY <1>1, <1>2, <1>3, <2>1, <2>2, <2>3, <2>4
<1>5. \E n \in Fd : fdt[n] = "free"
  <2> SUFFICES ASSUME \A n \in Fd : fdt[n] # "free" PROVE FALSE
    OBVIOUS
  <2>1. Fd \subseteq used
    BY DEF FdInv, Kinds, Sockets
  <2>2. Cardinality(Fd) = MaxFd /\ IsFiniteSet(Fd)
    BY FS_Interval
  <2>3. Cardinality(Fd) <= Cardinality(used) /\ Cardinality(used) \in Nat
    BY <1>4, <2>1, FS_Subset, FS_CardinalityType
  <2> QED BY <1>4, <2>2, <2>3
<1> HIDE DEF used
<1> DEFINE frees == {n \in Fd : fdt[n] = "free"}
<1>6. PICK n \in frees : \A m \in frees : n <= m
  <2>1. frees \in SUBSET Nat /\ frees # {}
    BY <1>5
  <2> QED BY <2>1, LeastNumber
<1>7. n \in Fd /\ fdt[n] = "free" /\ \A m \in 1..(n - 1) : fdt[m] # "free"
  BY <1>6
<1> QED BY <1>7 DEF Lowest

LEMMA SameFds ==
  ASSUME FdInv, UNCHANGED <<fdt, own, csock>>,
         pc \in Holding => pc' \in Holding, pc' \in InSession => pc \in InSession,
         pc' = "start" => pc = "start", mpc' = "init" => mpc = "init"
  PROVE  FdInv'
BY DEF FdInv

\* The session's descriptor is closed and the session is over.
LEMMA SessionCloses ==
  ASSUME FdInv, UNCHANGED <<own, mpc>>, fdt' = [fdt EXCEPT ![csock] = "free"],
         pc \in InSession, pc' \notin Holding \cup {"start"}
  PROVE  FdInv'
<1>1. csock \in Fd /\ fdt[csock] = "client" /\ fdt \in [Fd -> Kinds]
  BY DEF FdInv
<1>2. /\ fdt' \in [Fd -> Kinds] /\ fdt'[csock] = "free"
      /\ \A n \in Fd : n # csock => fdt'[n] = fdt[n]
  BY <1>1 DEF Kinds
<1>3. \A n \in Fd : fdt'[n] # "client"
  BY <1>2 DEF FdInv
<1>4. own \in Seq(Fd) /\ \A i \in DOMAIN own : own[i] \in Fd /\ own[i] # csock
  BY <1>1 DEF FdInv
<1>5. \A i \in DOMAIN own : fdt'[own[i]] \in {"file", "link"}
  BY <1>2, <1>4 DEF FdInv
<1>6. \A n \in Fd : fdt'[n] \in {"file", "link"} => \E i \in DOMAIN own : own[i] = n
  BY <1>1, <1>2 DEF FdInv
<1>7. \A n, m \in Fd : fdt'[n] \in {"listen", "queue"} /\ fdt'[m] = fdt'[n] => m = n
  BY <1>1, <1>2 DEF FdInv
<1>8. mpc' = "init" => \A n \in Fd : fdt'[n] # "queue"
  BY <1>1, <1>2 DEF FdInv
<1>9. pc' # "start" /\ pc' \notin InSession
  BY DEF Holding
<1> QED BY <1>2, <1>3, <1>4, <1>5, <1>6, <1>7, <1>8, <1>9 DEF FdInv

\* One more descriptor is in use.
LEMMA Taken ==
  ASSUME FdInv, NEW n \in Fd, fdt[n] = "free", NEW kind \in {"listen", "queue", "client"},
         fdt' = [fdt EXCEPT ![n] = kind], UNCHANGED own
  PROVE  /\ fdt' \in [Fd -> Kinds] /\ fdt'[n] = kind
         /\ \A m \in Fd : m # n => fdt'[m] = fdt[m]
         /\ \A i \in DOMAIN own : own[i] \in Fd /\ fdt'[own[i]] \in {"file", "link"}
         /\ \A m \in Fd : fdt'[m] \in {"file", "link"} => \E i \in DOMAIN own : own[i] = m
<1>1. fdt \in [Fd -> Kinds] /\ own \in Seq(Fd)
  BY DEF FdInv
<1>2. /\ fdt' \in [Fd -> Kinds] /\ fdt'[n] = kind
      /\ \A m \in Fd : m # n => fdt'[m] = fdt[m]
  BY <1>1 DEF Kinds, Sockets
<1>3. \A i \in DOMAIN own : own[i] \in Fd /\ own[i] # n
  BY <1>1 DEF FdInv
<1>4. \A i \in DOMAIN own : fdt'[own[i]] \in {"file", "link"}
  BY <1>2, <1>3 DEF FdInv
<1>5. \A m \in Fd : fdt'[m] \in {"file", "link"} => \E i \in DOMAIN own : own[i] = m
  BY <1>2 DEF FdInv
<1> QED BY <1>2, <1>3, <1>4, <1>5

LEMMA LeakStep == LeakInv /\ [Next]_vars => LeakInv'
<1> SUFFICES ASSUME LeakInv, [Next]_vars, fault' = "none" PROVE FdInv'
  BY DEF LeakInv
<1> USE DEF fds, session, clients, history, Goto, Has
<1>1. fault = "none"
  BY DEF Next, Main, Comm, Connect, Leave, Send, OpenQueue, OpenOwn, CloseOwn, LoopEnds, MainReturns,
     Listen, Accept, Greet, GreetFails, ReadLine, ReadFails, StaleFaults, CompareNull, StaleWriteFails, StaleClose,
     AnswerEmpty, Call, Answer, AnswerClose, AnswerExit, AnswerFails, WakeUp, EndComm, FreeWords,
     Stopped, vars, Alive
<1>2. FdInv
  BY <1>1 DEF LeakInv
<1>3. CASE \/ \E c \in Client : Connect(c) \/ Leave(c) \/ \E command \in Cmd : Send(c, command)
           \/ LoopEnds \/ MainReturns \/ Stopped \/ UNCHANGED vars
  <2>1. UNCHANGED <<fdt, own, csock, pc>> /\ (mpc' = "init" => mpc = "init")
    BY <1>3 DEF Connect, Leave, Send, LoopEnds, MainReturns, Stopped, vars
  <2> QED BY <1>2, <2>1, SameFds
<1>4. CASE OpenQueue
  <2>1. /\ mpc = "init" /\ mpc' = "packets" /\ fdt' = [fdt EXCEPT ![Lowest] = "queue"]
        /\ UNCHANGED <<own, pc, csock>>
    BY <1>4 DEF OpenQueue
  <2>2. PICK n \in Fd : n = Lowest /\ fdt[n] = "free"
    BY <1>2, <2>1, OneIsFree
  <2>3. fdt' = [fdt EXCEPT ![n] = "queue"]
    BY <2>1, <2>2
  <2>4. /\ fdt' \in [Fd -> Kinds] /\ fdt'[n] = "queue"
        /\ \A m \in Fd : m # n => fdt'[m] = fdt[m]
        /\ \A i \in DOMAIN own : own[i] \in Fd /\ fdt'[own[i]] \in {"file", "link"}
        /\ \A m \in Fd : fdt'[m] \in {"file", "link"} => \E i \in DOMAIN own : own[i] = m
    BY <1>2, <2>1, <2>2, <2>3, Taken
  <2> QED BY SMTT(30), <1>2, <2>1, <2>2, <2>4 DEF FdInv
<1>5. CASE \E kind \in {"file", "link"} : OpenOwn(kind)
  <2>1. PICK kind \in {"file", "link"} : OpenOwn(kind)
    BY <1>5
  <2>2. /\ own' = Append(own, Lowest) /\ fdt' = [fdt EXCEPT ![Lowest] = kind] /\ Len(own) < MaxOpen
        /\ UNCHANGED <<mpc, pc, csock>>
    <3>1. Len(own) \in Nat
      BY <1>2 DEF FdInv
    <3> QED BY <2>1, <3>1 DEF OpenOwn
  <2>3. PICK n \in Fd : n = Lowest /\ fdt[n] = "free"
    BY <1>2, <2>2, OneIsFree
  <2>4. /\ own \in Seq(Fd) /\ fdt \in [Fd -> Kinds] /\ Len(own) \in Nat /\ DOMAIN own = 1..Len(own)
        /\ \A i \in DOMAIN own : own[i] \in Fd /\ own[i] # n
    BY <1>2, <2>3 DEF FdInv
  <2>5. /\ own' \in Seq(Fd) /\ Len(own') = Len(own) + 1 /\ DOMAIN own' = 1..(Len(own) + 1)
        /\ own'[Len(own) + 1] = n /\ \A i \in 1..Len(own) : own'[i] = own[i]
    BY <2>2, <2>3, <2>4
  <2>6. /\ fdt' \in [Fd -> Kinds] /\ fdt'[n] = kind
        /\ \A m \in Fd : m # n => fdt'[m] = fdt[m]
    BY <2>2, <2>3, <2>4 DEF Kinds, Sockets
  <2>7. \A i \in DOMAIN own' : fdt'[own'[i]] \in {"file", "link"}
    BY <1>2, <2>4, <2>5, <2>6 DEF FdInv
  <2>8. ASSUME NEW i \in DOMAIN own', NEW j \in DOMAIN own', own'[i] = own'[j] PROVE i = j
    <3>1. CASE i \in DOMAIN own /\ j \in DOMAIN own
      <4>1. own[i] = own[j]
        BY <2>4, <2>5, <2>8, <3>1
      <4> QED BY <1>2, <3>1, <4>1 DEF FdInv
    <3>2. CASE i = Len(own) + 1 /\ j \in DOMAIN own
      BY <2>4, <2>5, <2>8, <3>2
    <3>3. CASE j = Len(own) + 1 /\ i \in DOMAIN own
      BY <2>4, <2>5, <2>8, <3>3
    <3> QED BY <2>4, <2>5, <3>1, <3>2, <3>3
  <2>9. \A m \in Fd : fdt'[m] \in {"file", "link"} => \E i \in DOMAIN own' : own'[i] = m
    <3>1. ASSUME NEW m \in Fd, m # n, fdt'[m] \in {"file", "link"} PROVE \E i \in DOMAIN own' : own'[i] = m
      <4>1. PICK i \in DOMAIN own : own[i] = m
        BY <1>2, <2>6, <3>1 DEF FdInv
      <4> QED BY <2>4, <2>5, <4>1
    <3>2. Len(own) + 1 \in DOMAIN own'
      BY <2>4, <2>5
    <3> QED BY <2>5, <3>1, <3>2
  <2>10. /\ \A m, k \in Fd : fdt'[m] \in {"listen", "queue"} /\ fdt'[k] = fdt'[m] => k = m
         /\ pc = "start" => \A m \in Fd : fdt'[m] # "listen"
         /\ mpc = "init" => \A m \in Fd : fdt'[m] # "queue"
         /\ \A m \in Fd : fdt'[m] = "client" => m = csock /\ pc \in Holding
         /\ pc \in InSession => csock \in Fd /\ fdt'[csock] = "client"
    BY <1>2, <2>3, <2>6 DEF FdInv
  <2> QED BY SMTT(30), <2>2, <2>4, <2>5, <2>6, <2>7, <2>8, <2>9, <2>10 DEF FdInv
<1>6. CASE CloseOwn
  <2> DEFINE n == Last(own)
  <2>1. /\ own # << >> /\ own' = SubSeq(own, 1, Len(own) - 1) /\ fdt' = [fdt EXCEPT ![n] = "free"]
        /\ UNCHANGED <<mpc, pc, csock>>
    BY <1>6 DEF CloseOwn, Front
  <2>2. /\ own \in Seq(Fd) /\ fdt \in [Fd -> Kinds] /\ Len(own) \in Nat /\ Len(own) > 0
        /\ DOMAIN own = 1..Len(own)
    BY <1>2, <2>1 DEF FdInv
  <2>3. Len(own) \in DOMAIN own /\ n = own[Len(own)] /\ n \in Fd
    BY <2>2 DEF Last
  <2>4. /\ own' \in Seq(Fd) /\ Len(own') = Len(own) - 1 /\ DOMAIN own' = 1..(Len(own) - 1)
        /\ \A i \in 1..(Len(own) - 1) : own'[i] = own[i]
    BY <2>1, <2>2
  <2> HIDE DEF n
  <2>5. PICK last \in Fd : last = n
    BY <2>3
  <2>6. /\ fdt' \in [Fd -> Kinds] /\ fdt'[last] = "free" /\ \A m \in Fd : m # last => fdt'[m] = fdt[m]
    BY <2>1, <2>2, <2>5 DEF Kinds
  <2>7. \A i \in DOMAIN own' : i \in DOMAIN own /\ own'[i] = own[i] /\ own[i] # last /\ own[i] \in Fd
    BY SMTT(30), <1>2, <2>2, <2>3, <2>4, <2>5 DEF FdInv
  <2>8. fdt[last] \in {"file", "link"}
    BY <1>2, <2>3, <2>5 DEF FdInv
  <2>9. \A m \in Fd : fdt'[m] \in {"file", "link"} => \E i \in DOMAIN own' : own'[i] = m
    <3>1. ASSUME NEW m \in Fd, fdt'[m] \in {"file", "link"} PROVE \E i \in DOMAIN own' : own'[i] = m
      <4>1. m # last
        BY <2>6, <3>1
      <4>2. PICK i \in DOMAIN own : own[i] = m
        BY <1>2, <2>6, <3>1, <4>1 DEF FdInv
      <4>3. i \in 1..(Len(own) - 1)
        BY <2>2, <2>3, <2>5, <4>1, <4>2
      <4> QED BY <2>4, <4>2, <4>3
    <3> QED BY <3>1
  <2>10. /\ \A i \in DOMAIN own' : fdt'[own'[i]] \in {"file", "link"}
         /\ \A i, j \in DOMAIN own' : own'[i] = own'[j] => i = j
         /\ Len(own') <= MaxOpen
    BY SMTT(30), <1>2, <2>2, <2>4, <2>6, <2>7 DEF FdInv
  <2>11. /\ \A m, k \in Fd : fdt'[m] \in {"listen", "queue"} /\ fdt'[k] = fdt'[m] => k = m
         /\ pc = "start" => \A m \in Fd : fdt'[m] # "listen"
         /\ mpc = "init" => \A m \in Fd : fdt'[m] # "queue"
         /\ \A m \in Fd : fdt'[m] = "client" => m = csock /\ pc \in Holding
         /\ pc \in InSession => csock \in Fd /\ fdt'[csock] = "client"
    BY <1>2, <2>6, <2>8 DEF FdInv
  <2> QED BY <2>1, <2>4, <2>6, <2>9, <2>10, <2>11 DEF FdInv
<1>7. CASE Listen
  <2>1. /\ pc = "start" /\ pc' = "accept" /\ fdt' = [fdt EXCEPT ![Lowest] = "listen"]
        /\ UNCHANGED <<own, mpc, csock>>
    BY <1>7 DEF Listen
  <2>2. PICK n \in Fd : n = Lowest /\ fdt[n] = "free"
    BY <1>2, <2>1, OneIsFree
  <2>3. /\ fdt' \in [Fd -> Kinds] /\ fdt'[n] = "listen"
        /\ \A m \in Fd : m # n => fdt'[m] = fdt[m]
        /\ \A i \in DOMAIN own : own[i] \in Fd /\ fdt'[own[i]] \in {"file", "link"}
        /\ \A m \in Fd : fdt'[m] \in {"file", "link"} => \E i \in DOMAIN own : own[i] = m
    BY <1>2, <2>1, <2>2, Taken
  <2>4. \A m \in Fd : fdt'[m] # "client"
    BY <1>2, <2>1, <2>3 DEF FdInv, Holding, InSession
  <2> QED BY <1>2, <2>1, <2>2, <2>3, <2>4 DEF FdInv, InSession
<1>8. CASE Accept
  <2>1. /\ pc = "accept" /\ pc' = "greet" /\ fdt' = [fdt EXCEPT ![Lowest] = "client"]
        /\ csock' = Lowest /\ UNCHANGED <<own, mpc>>
    BY <1>8 DEF Accept
  <2>2. PICK n \in Fd : n = Lowest /\ fdt[n] = "free"
    BY <1>2, <2>1, OneIsFree
  <2>3. /\ fdt' \in [Fd -> Kinds] /\ fdt'[n] = "client"
        /\ \A m \in Fd : m # n => fdt'[m] = fdt[m]
        /\ \A i \in DOMAIN own : own[i] \in Fd /\ fdt'[own[i]] \in {"file", "link"}
        /\ \A m \in Fd : fdt'[m] \in {"file", "link"} => \E i \in DOMAIN own : own[i] = m
    BY <1>2, <2>1, <2>2, Taken
  <2>4. \A m \in Fd : fdt'[m] = "client" => m = n
    BY <1>2, <2>1, <2>3 DEF FdInv, Holding, InSession
  <2> QED BY <1>2, <2>1, <2>2, <2>3, <2>4 DEF FdInv, Holding, InSession
<1>9. CASE GreetFails \/ ReadFails \/ AnswerClose \/ AnswerFails
  <2>1. UNCHANGED <<own, mpc>> /\ fdt' = [fdt EXCEPT ![csock] = "free"]
    BY <1>9 DEF GreetFails, ReadFails, AnswerClose, AnswerFails
  <2>2. pc \in InSession /\ pc' \notin Holding \cup {"start"}
    BY <1>9 DEF GreetFails, ReadFails, AnswerClose, AnswerFails, InSession, Holding
  <2> QED BY <1>2, <2>1, <2>2, SessionCloses
<1>10. CASE StaleClose
  <2>1. /\ pc = "staleClose" /\ pc' = "accept" /\ UNCHANGED <<own, mpc>> /\ fdt[csock] = "free"
        /\ fdt' = [fdt EXCEPT ![csock] = "free"]
    BY <1>10 DEF StaleClose
  <2>2. fdt' = fdt
    BY <1>2, <2>1 DEF FdInv
  <2>3. \A n \in Fd : fdt[n] # "client"
    BY <1>2, <2>1 DEF FdInv, Holding, InSession
  <2> QED BY ZenonT(40), <1>2, <2>1, <2>2, <2>3 DEF FdInv, InSession
<1>11. CASE \/ Greet \/ ReadLine \/ StaleFaults \/ StaleWriteFails \/ AnswerEmpty \/ Call \/ CompareNull \/ Answer
            \/ AnswerExit \/ WakeUp \/ EndComm \/ FreeWords
  <2>1. UNCHANGED <<fdt, own, csock, mpc>> /\ pc' # "start"
    BY <1>11 DEF Greet, ReadLine, StaleFaults, CompareNull, StaleWriteFails, AnswerEmpty, Call, Answer, AnswerExit,
       WakeUp, EndComm, FreeWords, Stale
  <2>2. (pc \in Holding => pc' \in Holding) /\ (pc' \in InSession => pc \in InSession)
    BY <1>11 DEF Greet, ReadLine, StaleFaults, CompareNull, StaleWriteFails, AnswerEmpty, Call, Answer, AnswerExit,
       WakeUp, EndComm, FreeWords, Stale, InSession, Holding
  <2> QED BY <1>2, <2>1, <2>2, SameFds
<1> QED BY <1>3, <1>4, <1>5, <1>6, <1>7, <1>8, <1>9, <1>10, <1>11 DEF Next, Main, Comm

LEMMA LeakInvariant == Spec => []LeakInv
<1>1. Init => LeakInv
  <2> SUFFICES ASSUME Init PROVE FdInv
    BY DEF LeakInv
  <2>1. own = << >> /\ fdt = [n \in Fd |-> "free"] /\ pc = "start"
    BY DEF Init
  <2> QED BY <2>1 DEF FdInv, Kinds, InSession
<1> QED BY <1>1, LeakStep, PTL DEF Spec

\* However its sessions ended, and whatever Main opens and closes meanwhile, Comm
\* waits for a client without a descriptor of an earlier one.
THEOREM NothingLeaks == Spec => []NoSessionLeaks
<1>1. LeakInv => NoSessionLeaks
  <2> SUFFICES ASSUME FdInv, pc = "accept", NEW n \in Fd, fdt[n] # "free"
               PROVE  n \in Range(own) \/ fdt[n] \in {"listen", "queue"}
    BY DEF LeakInv, NoSessionLeaks
  <2>1. fdt[n] \in Kinds /\ fdt[n] # "client"
    BY DEF FdInv, Holding, InSession
  <2>2. CASE fdt[n] \in {"file", "link"}
    BY <2>2 DEF FdInv, Range
  <2> QED BY <2>1, <2>2 DEF Kinds, Sockets
<1> QED BY <1>1, LeakInvariant, PTL

-----------------------------------------------------------------------------
(* Types.                                                                  *)

\* A session is some client's.
InSessionIsClients == pc \in InSession => who \in Client
TypeInv == TypeOK /\ InSessionIsClients

\* The types by whose state they are.
FdTypes ==
  /\ fdt \in [Fd -> Kinds] /\ own \in Seq(Fd) /\ csock \in Fd \cup {0}
ThreadTypes ==
  /\ mpc \in {"init", "packets", "poll", "ended"}
  /\ pc \in {"start", "accept", "greet", "read", "staleClose", "empty", "call", "answer",
             "sleep", "end", "free", "gone"} \cup Stale
  /\ cmd \in Cmd /\ strv \in {"unset", "valid", "freed"}
  /\ fault \in {"none", "crash", "reads Main's", "closes Main's"}
FlagTypes ==
  /\ isauth \in BOOLEAN /\ state \in BOOLEAN /\ defauth \in DefAuth
  /\ rude \in BOOLEAN /\ exit \in BOOLEAN
ClientTypes ==
  /\ who \in Client \cup {Nobody}
  /\ peer \in [Client -> {"away", "up", "eof", "reset"}]
  /\ queue \in Seq(Client)
  /\ line \in [Client -> Cmd \cup {NoLine}]
  /\ ready \subseteq Client /\ proven \subseteq Client

LEMMA TypeParts == TypeInv <=> FdTypes /\ ThreadTypes /\ FlagTypes /\ ClientTypes /\ InSessionIsClients
BY Zenon DEF TypeInv, TypeOK, FdTypes, ThreadTypes, FlagTypes, ClientTypes, Kinds

\* The number a new descriptor gets.
LEMMA LowestType ==
  ASSUME LeakInv, Alive,
         mpc = "init" \/ pc \in {"start", "accept"} \/ Len(own) < MaxOpen
  PROVE  Lowest \in Fd
BY OneIsFree DEF LeakInv, Alive

LEMMA FdTypesStep ==
  ASSUME FdTypes, LeakInv, [Next]_vars
  PROVE  FdTypes'
<1> USE DEF FdTypes, fds, session, clients, history, Has
<1>1. CASE \E c \in Client : Connect(c) \/ Leave(c) \/ \E command \in Cmd : Send(c, command)
  BY <1>1 DEF Connect, Leave, Send
<1>2. CASE OpenQueue
  BY <1>2, LowestType DEF OpenQueue, Kinds, Sockets
<1>3. ASSUME NEW kind \in {"file", "link"}, OpenOwn(kind) PROVE FdTypes'
  <2>1. Len(own) < MaxOpen
    BY <1>3 DEF OpenOwn
  <2>2. Lowest \in Fd
    BY <1>3, <2>1, LowestType DEF OpenOwn
  <2> QED BY <1>3, <2>2 DEF OpenOwn, Kinds, Sockets
<1>4. CASE CloseOwn
  <2>1. Front(own) \in Seq(Fd)
    <3>1. own # << >> /\ own \in Seq(Fd)
      BY <1>4 DEF CloseOwn
    <3> QED BY <3>1 DEF Front
  <2> QED BY <1>4, <2>1 DEF CloseOwn, Kinds
<1>5. CASE MainReturns \/ LoopEnds
  BY <1>5 DEF MainReturns, LoopEnds
<1>6. CASE Listen \/ Accept
  BY <1>6, LowestType DEF Listen, Accept, Kinds, Sockets
<1>7. CASE GreetFails \/ ReadFails \/ StaleClose \/ AnswerClose \/ AnswerFails
  BY <1>7 DEF GreetFails, ReadFails, StaleClose, AnswerClose, AnswerFails, Kinds
<1>8. CASE \/ Greet \/ ReadLine \/ StaleFaults \/ StaleWriteFails \/ AnswerEmpty \/ Call \/ CompareNull \/ Answer
           \/ AnswerExit \/ WakeUp \/ EndComm \/ FreeWords
  BY <1>8 DEF Greet, ReadLine, StaleFaults, CompareNull, StaleWriteFails, AnswerEmpty, Call, Answer, AnswerExit,
     WakeUp, EndComm, FreeWords
<1>9. CASE Stopped \/ UNCHANGED vars
  BY <1>9 DEF Stopped, vars
<1> QED BY <1>1, <1>2, <1>3, <1>4, <1>5, <1>6, <1>7, <1>8, <1>9 DEF Next, Main, Comm

LEMMA ThreadTypesStep ==
  ASSUME ThreadTypes, ClientTypes, InSessionIsClients, [Next]_vars
  PROVE  ThreadTypes'
<1> USE DEF ThreadTypes, fds, session, clients, history, Goto, Stale
<1> DEFINE Same == UNCHANGED <<mpc, pc, cmd, strv, fault>>
<1>1. CASE \E c \in Client : Connect(c) \/ Leave(c) \/ \E command \in Cmd : Send(c, command)
  <2>1. Same
    BY <1>1 DEF Connect, Leave, Send
  <2> QED BY <2>1
<1>2. CASE OpenQueue \/ (\E kind \in {"file", "link"} : OpenOwn(kind)) \/ CloseOwn
  <2>1. UNCHANGED <<pc, cmd, strv, fault>> /\ mpc' \in {mpc, "packets"}
    BY <1>2 DEF OpenQueue, OpenOwn, CloseOwn
  <2> QED BY <2>1
<1>3. CASE MainReturns \/ LoopEnds
  <2>1. UNCHANGED <<pc, cmd, strv, fault>> /\ mpc' \in {"poll", "ended"}
    BY <1>3 DEF MainReturns, LoopEnds
  <2> QED BY <2>1
<1>4. CASE Listen \/ Greet \/ GreetFails
  <2>1. UNCHANGED <<mpc, cmd, strv, fault>> /\ pc' \in {"accept", "read", "sleep"}
    BY <1>4 DEF Listen, Greet, GreetFails
  <2> QED BY <2>1
<1>5. CASE Accept
  <2>1. UNCHANGED <<mpc, cmd, strv, fault>> /\ pc' = "greet"
    BY <1>5 DEF Accept
  <2> QED BY <2>1
<1>6. CASE ReadLine
  <2>1. line[who] \in Cmd
    BY <1>6 DEF ReadLine, ClientTypes, InSessionIsClients, InSession
  <2>2. /\ UNCHANGED <<mpc, fault>> /\ pc' \in {"empty", "call"} /\ cmd' = line[who]
        /\ strv' \in {strv, "valid"}
    BY <1>6 DEF ReadLine
  <2> QED BY <2>1, <2>2
<1>7. CASE ReadFails
  <2>1. UNCHANGED <<mpc, cmd, fault>> /\ pc' \in {"staleEmpty", "staleNull"} /\ strv' \in {strv, "valid"}
    BY <1>7 DEF ReadFails
  <2> QED BY <2>1
<1>8. CASE StaleFaults \/ CompareNull
  <2>1. UNCHANGED <<mpc, pc, cmd, strv>> /\ fault' \in {"crash", "reads Main's"}
    BY <1>8 DEF StaleFaults, CompareNull
  <2> QED BY <2>1
<1>9. CASE StaleWriteFails \/ StaleClose
  <2>1. /\ UNCHANGED <<mpc, cmd, strv>> /\ pc' \in {"staleClose", "accept"}
        /\ fault' \in {fault, "closes Main's"}
    BY <1>9 DEF StaleWriteFails, StaleClose
  <2> QED BY <2>1
<1>10. CASE AnswerEmpty \/ Answer \/ AnswerClose \/ AnswerExit \/ AnswerFails
  <2>1. /\ UNCHANGED <<mpc, fault>> /\ pc' \in {"read", "accept", "end"}
        /\ strv' \in {strv, "freed"} /\ cmd' \in {cmd, ""}
    BY <1>10 DEF AnswerEmpty, Answer, AnswerClose, AnswerExit, AnswerFails
  <2> QED BY <2>1 DEF Cmd
<1>11. CASE Call
  <2>1. UNCHANGED <<mpc, cmd, strv, fault>> /\ pc' = "answer"
    BY <1>11 DEF Call
  <2> QED BY <2>1
<1>12. CASE WakeUp \/ EndComm \/ FreeWords
  <2>1. /\ UNCHANGED <<mpc, cmd, strv>> /\ pc' \in {"end", "free", "gone"}
        /\ fault' \in {fault, "crash"}
    BY <1>12 DEF WakeUp, EndComm, FreeWords
  <2> QED BY <2>1
<1>13. CASE Stopped \/ UNCHANGED vars
  <2>1. Same
    BY <1>13 DEF Stopped, vars
  <2> QED BY <2>1
<1> QED BY <1>1, <1>2, <1>3, <1>4, <1>5, <1>6, <1>7, <1>8, <1>9, <1>10, <1>11, <1>12, <1>13
        DEF Next, Main, Comm

LEMMA FlagTypesStep ==
  ASSUME FlagTypes, [Next]_vars
  PROVE  FlagTypes'
<1> USE DEF FlagTypes, fds, session, clients, history
<1>1. defauth' = defauth
  BY DEF vars, Next, Connect, Leave, Send, Main, LoopEnds, OpenQueue, OpenOwn, CloseOwn, MainReturns,
     Comm, Stopped, Listen, Accept, Greet, GreetFails, ReadLine, ReadFails, StaleFaults, CompareNull, StaleWriteFails,
     StaleClose, AnswerEmpty, Call, Answer, AnswerClose, AnswerExit, AnswerFails, WakeUp, EndComm, FreeWords
<1>2. rude' = rude \/ rude' = TRUE \/ \E command \in Cmd : rude' = (rude \/ command = "NUL")
  BY Zenon DEF vars, Next, Connect, Leave, Send, Main, LoopEnds, OpenQueue, OpenOwn, CloseOwn, MainReturns,
     Comm, Stopped, Listen, Accept, Greet, GreetFails, ReadLine, ReadFails, StaleFaults, CompareNull, StaleWriteFails,
     StaleClose, AnswerEmpty, Call, Answer, AnswerClose, AnswerExit, AnswerFails, WakeUp, EndComm, FreeWords
<1>3. exit' = exit \/ exit' = TRUE
  BY Zenon DEF vars, Next, Connect, Leave, Send, Main, LoopEnds, OpenQueue, OpenOwn, CloseOwn, MainReturns,
     Comm, Stopped, Listen, Accept, Greet, GreetFails, ReadLine, ReadFails, StaleFaults, CompareNull, StaleWriteFails,
     StaleClose, AnswerEmpty, Call, Answer, AnswerClose, AnswerExit, AnswerFails, WakeUp, EndComm, FreeWords
<1>4. state' = state \/ state' = FALSE
  BY Zenon DEF vars, Next, Connect, Leave, Send, Main, LoopEnds, OpenQueue, OpenOwn, CloseOwn, MainReturns,
     Comm, Stopped, Listen, Accept, Greet, GreetFails, ReadLine, ReadFails, StaleFaults, CompareNull, StaleWriteFails,
     StaleClose, AnswerEmpty, Call, Answer, AnswerClose, AnswerExit, AnswerFails, WakeUp, EndComm, FreeWords
<1>5. isauth' = isauth \/ isauth' = defauth \/ isauth' = (isauth \/ cmd = "AUTH")
  BY Zenon DEF vars, Next, Connect, Leave, Send, Main, LoopEnds, OpenQueue, OpenOwn, CloseOwn, MainReturns,
     Comm, Stopped, Listen, Accept, Greet, GreetFails, ReadLine, ReadFails, StaleFaults, CompareNull, StaleWriteFails,
     StaleClose, AnswerEmpty, Call, Answer, AnswerClose, AnswerExit, AnswerFails, WakeUp, EndComm, FreeWords
<1> QED BY <1>1, <1>2, <1>3, <1>4, <1>5, Zenon

LEMMA ClientTypesStep ==
  ASSUME ClientTypes, InSessionIsClients, [Next]_vars
  PROVE  ClientTypes' /\ InSessionIsClients'
<1> DEFINE Typed == ClientTypes /\ InSessionIsClients
<1> USE DEF ClientTypes, InSessionIsClients, InSession, fds, session, clients, history, Goto, Stale
<1>1. ASSUME NEW c \in Client, Connect(c) \/ Leave(c) \/ \E command \in Cmd : Send(c, command)
      PROVE  Typed'
  <2>1. CASE Connect(c)
    BY <2>1 DEF Connect
  <2>2. CASE Leave(c)
    BY <2>2 DEF Leave
  <2>3. ASSUME NEW command \in Cmd, Send(c, command) PROVE Typed'
    BY <2>3 DEF Send
  <2> QED BY <1>1, <2>1, <2>2, <2>3
<1>2. CASE Main \/ LoopEnds
  <2>1. UNCHANGED <<pc, who, peer, queue, line, ready, proven>>
    BY <1>2 DEF Main, LoopEnds, OpenQueue, OpenOwn, CloseOwn, MainReturns
  <2> QED BY <2>1
<1>3. CASE Listen \/ StaleFaults \/ StaleWriteFails \/ StaleClose \/ WakeUp \/ EndComm \/ FreeWords
  <2>1. UNCHANGED <<who, peer, queue, line, ready, proven>> /\ pc' \notin InSession
    BY <1>3 DEF Listen, StaleFaults, StaleWriteFails, StaleClose, WakeUp, EndComm, FreeWords
  <2> QED BY <2>1
<1>4. CASE Accept
  <2>1. Head(queue) \in Client /\ Tail(queue) \in Seq(Client)
    BY <1>4 DEF Accept
  <2> QED BY <1>4, <2>1 DEF Accept
<1>5. CASE Greet \/ AnswerEmpty \/ Answer \/ AnswerExit
  <2>1. who \in Client /\ who' = who /\ UNCHANGED <<queue, line, proven>>
    BY <1>5 DEF Greet, AnswerEmpty, Answer, AnswerExit
  <2>2. peer' \in [Client -> {"away", "up", "eof", "reset"}]
    BY <1>5, <2>1 DEF Greet, AnswerEmpty, Answer, AnswerExit, Written
  <2>3. ready' \subseteq Client
    BY <1>5, <2>1 DEF Greet, AnswerEmpty, Answer, AnswerExit
  <2> QED BY <2>1, <2>2, <2>3
<1>6. CASE GreetFails \/ ReadFails \/ AnswerClose \/ AnswerFails
  <2>1. who \in Client /\ Hangup(who) /\ queue' = queue
    BY <1>6 DEF GreetFails, ReadFails, AnswerClose, AnswerFails
  <2>2. pc' \notin InSession
    BY <1>6 DEF GreetFails, ReadFails, AnswerClose, AnswerFails
  <2> QED BY <2>1, <2>2 DEF Hangup
<1>7. CASE ReadLine
  BY <1>7 DEF ReadLine
<1>8. CASE Call
  BY <1>8 DEF Call
<1>9. CASE CompareNull
  BY <1>9 DEF CompareNull
<1>10. CASE Stopped \/ UNCHANGED vars
  BY <1>10 DEF Stopped, vars
<1> QED BY <1>1, <1>2, <1>3, <1>4, <1>5, <1>6, <1>7, <1>8, <1>9, <1>10 DEF Next, Comm

\* Every variable keeps its type: a descriptor is there for every socket, file
\* and client that is opened (SessionAssumption), and a session is a client's.
THEOREM TypeCorrect == Spec => []TypeOK
<1>1. Init => TypeInv
  <2> SUFFICES ASSUME Init PROVE FdTypes /\ ThreadTypes /\ FlagTypes /\ ClientTypes /\ InSessionIsClients
    BY TypeParts
  <2>1. FdTypes
    <3>1. fdt = [n \in Fd |-> "free"] /\ own = << >> /\ csock = 0
      BY DEF Init
    <3> QED BY <3>1 DEF FdTypes, Kinds
  <2>2. ThreadTypes
    <3>1. mpc = "init" /\ pc = "start" /\ cmd = "" /\ strv = "unset" /\ fault = "none"
      BY DEF Init
    <3> QED BY <3>1 DEF ThreadTypes, Cmd
  <2>3. FlagTypes
    BY Zenon DEF Init, FlagTypes
  <2>4. ClientTypes
    <3>1. /\ who = Nobody /\ peer = [c \in Client |-> "away"] /\ queue = << >>
          /\ line = [c \in Client |-> NoLine] /\ ready = {} /\ proven = {}
      BY DEF Init
    <3> QED BY <3>1 DEF ClientTypes
  <2>5. InSessionIsClients
    BY DEF Init, InSessionIsClients, InSession
  <2> QED BY <2>1, <2>2, <2>3, <2>4, <2>5
<1>2. TypeInv /\ LeakInv /\ [Next]_vars => TypeInv'
  <2> SUFFICES ASSUME FdTypes, ThreadTypes, FlagTypes, ClientTypes, InSessionIsClients,
                      LeakInv, [Next]_vars
               PROVE  FdTypes' /\ ThreadTypes' /\ FlagTypes' /\ ClientTypes' /\ InSessionIsClients'
    BY Zenon DEF TypeInv, TypeOK, FdTypes, ThreadTypes, FlagTypes, ClientTypes, Kinds
  <2> QED BY FdTypesStep, ThreadTypesStep, FlagTypesStep, ClientTypesStep
<1>3. TypeInv => TypeOK
  BY DEF TypeInv
<1> QED BY <1>1, <1>2, <1>3, LeakInvariant, PTL DEF Spec
=============================================================================
