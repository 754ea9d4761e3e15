----------------------------- MODULE QueryTable -----------------------------
(***************************************************************************)
(* The queries of fwquery.c: the packets no rule decides, held in the      *)
(* kernel's NFQUEUE until the user answers.  Main, the packet thread, adds *)
(* a query or merges the packet into the query of its connection; Comm,    *)
(* the command thread, expires queries in QUERY LIST and turns one into a  *)
(* rule in QUERY ADD.  Nothing locks the array or the queries.             *)
(*                                                                         *)
(* Queries is a glib GArray of pointers: slots 1..len hold the queries,    *)
(* and a slot above len keeps the pointer it last held.  A turn of a loop, *)
(* which tests len and loads the entry, is one step; g_array_remove_index  *)
(* and g_array_append_val are modelled access by access, as in RuleTable:  *)
(* the len a removal takes for its memmove, each word that is loaded and   *)
(* stored, and the load and the store of len.  The word that is appended   *)
(* goes to a slot above len, where nobody looks before len is stored.      *)
(*                                                                         *)
(* Abstractions.  A flow is a connection (addresses and ports, all that    *)
(* fwquery_add compares).  The rules are the set of flows they accept;     *)
(* RuleTable models the table itself, and QUERY ADD's part in it.  instime *)
(* is an age that saturates just above the timeout.  A removed query is    *)
(* not freed; that g_array_append_val may move the array to a larger block *)
(* of memory is left out.                                                  *)
(***************************************************************************)
EXTENDS Integers

CONSTANTS
  Flow,         \* connections
  Like,         \* Like[f]: the flows of f's application, which ANYWHERE covers
  QueryTimeout, \* FWQUERY_TIMEOUT
  MaxPackets,   \* bound: packets that reach the queue
  JunkId        \* what a fresh query's memory may hold as packetid

ASSUME QueryAssumption ==
  /\ Flow # {}
  /\ Like \in [Flow -> SUBSET Flow]
  /\ \A f \in Flow : f \in Like[f]
  /\ QueryTimeout \in Nat
  /\ MaxPackets \in Nat
  /\ JunkId \subseteq 0..MaxPackets

Packet == 1..MaxPackets     \* NFQUEUE numbers packets from one
Num    == 1..MaxPackets     \* query numbers, from one too
Slots  == 1..MaxPackets     \* a packet adds at most one query

VARIABLES
  fate,     \* what became of each packet: "none", "held", "accepted", "dropped"
  flowOf,   \* the flow of each packet
  last,     \* the number of packets so far
  slot,     \* the memory of the array Queries: query numbers, or 0
  len,      \* Queries->len
  query,    \* the query objects by number: flow, packetid, age
  qnum,     \* the next query number
  rules,    \* the flows accepted by the rules
  pc,       \* where each thread is
  idx,      \* each thread's loop index i (1-based)
  snap,     \* the len each thread has loaded to count it up or down
  todo,     \* Comm: the slots whose new content a memmove has yet to load
  word,     \* Comm: the words a memmove has loaded and not stored, by slot
  cur,      \* Main: the number of the query being merged or filled
  mine,     \* Comm: the number of the query at hand
  want,     \* Comm: qnum and anywhere of QUERY ADD
  wanted,   \* history: flows the user allowed
  crossed   \* history: a memmove has been at work while Main searched

kernel  == <<fate, flowOf, last>>
array   == <<slot, len>>
store   == <<array, query, qnum>>
moving  == <<snap, todo, word>>
locals  == <<idx, moving, cur, mine, want>>
history == <<wanted, crossed>>
vars    == <<kernel, store, rules, pc, locals, history>>

Main == "main"
Comm == "comm"
Thread == {Main, Comm}

\* What fwquery_add sets of a query; age is the time since its instime.
Query == [flow : Flow, id : 0..MaxPackets, age : 0..(QueryTimeout + 1)]

NoQuery == [flow |-> CHOOSE f \in Flow : TRUE, id |-> 0, age |-> 0]
NoWant  == [num |-> 0, any |-> FALSE]

Init ==
  /\ fate = [p \in Packet |-> "none"]
  /\ flowOf = [p \in Packet |-> NoQuery.flow]
  /\ last = 0
  /\ slot = [i \in Slots |-> 0]
  /\ len = 0
  /\ query = [n \in Num |-> NoQuery]
  /\ qnum = 1
  /\ rules = {}
  /\ pc = [t \in Thread |-> "idle"]
  /\ idx = [t \in Thread |-> 1]
  /\ snap = [t \in Thread |-> 0]
  /\ todo = {}
  /\ word = [i \in Slots |-> 0]
  /\ cur = 0
  /\ mine = 0
  /\ want = NoWant
  /\ wanted = {} /\ crossed = FALSE

Goto(t, p) == pc' = [pc EXCEPT ![t] = p]
LoopTo(t, i) == idx' = [idx EXCEPT ![t] = i]

\* nfq_set_verdict: the kernel ignores a verdict on a packet it does not hold.
SetVerdict(id, verdict) ==
  fate' = IF id \in Packet /\ fate[id] = "held"
          THEN [fate EXCEPT ![id] = verdict] ELSE fate

Expired(n) == query[n].age > QueryTimeout

\* A second passes; the client's LIST works with the time it read first.
Tick ==
  /\ pc[Comm] = "idle"
  /\ \E n \in 1..(qnum - 1) : ~Expired(n)
  /\ query' = [n \in Num |->
       IF n < qnum /\ ~Expired(n)
       THEN [query[n] EXCEPT !.age = @ + 1] ELSE query[n]]
  /\ UNCHANGED <<kernel, array, qnum, rules, pc, locals, history>>

\* A session rule times out or the user removes a rule.
RulesShrink ==
  /\ \E f \in rules : rules' = rules \ {f}
  /\ UNCHANGED <<kernel, store, pc, locals, history>>

\* A memmove has words left to load or to store.
Copying == todo # {} \/ \E i \in Slots : word[i] # 0

-----------------------------------------------------------------------------
(* The packet thread: fwnfq_process_rules and fwquery_add.                 *)

\* A packet of flow f reaches the daemon, and a rule accepts it or none does.
Receive(f) ==
  /\ pc[Main] = "idle"
  /\ last < MaxPackets
  /\ last' = last + 1
  /\ flowOf' = [flowOf EXCEPT ![last + 1] = f]
  /\ IF f \in rules
     THEN fate' = [fate EXCEPT ![last + 1] = "accepted"] /\ UNCHANGED <<pc, crossed>>
     ELSE /\ fate' = [fate EXCEPT ![last + 1] = "held"]
          /\ crossed' = (crossed \/ Copying)
          /\ Goto(Main, "ask")
  /\ UNCHANGED <<store, rules, locals, wanted>>

Asked == flowOf[last]
\* Mutant: the search starts at the second query.
SameFlowFromSecond(i) == i > 1 /\ query[slot[i]].flow = Asked
SameFlow(i) == query[slot[i]].flow = Asked

SearchPass ==
  /\ pc[Main] = "ask"
  /\ idx[Main] <= len
  /\ ~SameFlow(idx[Main])
  /\ LoopTo(Main, idx[Main] + 1)
  /\ UNCHANGED <<kernel, store, rules, pc, moving, cur, mine, want, history>>

\* A query of the same connection waits already.
SearchHit ==
  /\ pc[Main] = "ask"
  /\ idx[Main] <= len
  /\ SameFlow(idx[Main])
  /\ cur' = slot[idx[Main]]
  /\ LoopTo(Main, 1)
  /\ Goto(Main, "renew")
  /\ UNCHANGED <<kernel, store, rules, moving, mine, want, history>>

SearchEnd ==
  /\ pc[Main] = "ask"
  /\ idx[Main] > len
  /\ LoopTo(Main, 1)
  /\ Goto(Main, "append")
  /\ UNCHANGED <<kernel, store, rules, moving, cur, mine, want, history>>

\* The query found starts anew, ...
Renew ==
  /\ pc[Main] = "renew"
  /\ query' = [query EXCEPT ![cur].age = 0]
  /\ Goto(Main, "merge")
  /\ UNCHANGED <<kernel, array, qnum, rules, locals, history>>

\* Mutant: the query's previous packet gets no verdict.
MergeForgets ==
  /\ pc[Main] = "merge"
  /\ Goto(Main, "setId")
  /\ UNCHANGED <<kernel, store, rules, locals, history>>

\* ... its previous packet is dropped, ...
MergeDrop ==
  /\ pc[Main] = "merge"
  /\ SetVerdict(query[cur].id, "dropped")
  /\ Goto(Main, "setId")
  /\ UNCHANGED <<flowOf, last, store, rules, locals, history>>

\* A new query is put behind the last one, before its packetid is set.
AppendQuery ==
  /\ pc[Main] = "append"
  /\ \E junk \in JunkId :
       query' = [query EXCEPT ![qnum] = [flow |-> Asked, id |-> junk, age |-> 0]]
  /\ slot' = [slot EXCEPT ![len + 1] = qnum]
  /\ qnum' = qnum + 1
  /\ cur' = qnum
  /\ Goto(Main, "grow")
  /\ UNCHANGED <<kernel, len, rules, idx, moving, mine, want, history>>

GrowLoad ==
  /\ pc[Main] = "grow"
  /\ snap' = [snap EXCEPT ![Main] = len]
  /\ Goto(Main, "growStore")
  /\ UNCHANGED <<kernel, store, rules, idx, todo, word, cur, mine, want, history>>

\* A removal that has stored its len since the load is undone, as to len.
GrowStore ==
  /\ pc[Main] = "growStore"
  /\ len' = snap[Main] + 1
  /\ snap' = [snap EXCEPT ![Main] = 0]
  /\ Goto(Main, "setId")
  /\ UNCHANGED <<kernel, slot, query, qnum, rules, idx, todo, word, cur, mine, want, history>>

\* Mutant: the packet's number is one too high.
SetNextId ==
  /\ pc[Main] = "setId"
  /\ query' = [query EXCEPT ![cur].id = last + 1]
  /\ cur' = 0
  /\ Goto(Main, "idle")
  /\ UNCHANGED <<kernel, array, qnum, rules, idx, moving, mine, want, history>>

\* ... and the packet becomes the query's; it gets no verdict (ACTION_ASK).
SetPacketId ==
  /\ pc[Main] = "setId"
  /\ query' = [query EXCEPT ![cur].id = last]
  /\ cur' = 0
  /\ Goto(Main, "idle")
  /\ UNCHANGED <<kernel, array, qnum, rules, idx, moving, mine, want, history>>

Add ==
  \/ SearchPass \/ SearchHit \/ SearchEnd
  \/ Renew \/ MergeDrop
  \/ AppendQuery \/ GrowLoad \/ GrowStore
  \/ SetPacketId

-----------------------------------------------------------------------------
(* g_array_remove_index, by the command thread.                            *)

\* The removal moves the next query to the index, which i++ then passes over.
ReturnFromRemove ==
  /\ LoopTo(Comm, idx[Comm] + 1)
  /\ mine' = 0
  /\ Goto(Comm, IF want = NoWant THEN "list" ELSE "add")

\* The slots from the index on, but for the last, are to get the next word.
Shift ==
  /\ pc[Comm] = "shift"
  /\ todo' = idx[Comm]..(len - 1)
  /\ crossed' = (crossed \/ (idx[Comm] < len /\ pc[Main] = "ask"))
  /\ Goto(Comm, "move")
  /\ UNCHANGED <<kernel, store, rules, idx, snap, word, cur, mine, want, wanted>>

LoadWord(i) ==
  /\ i \in todo
  /\ word' = [word EXCEPT ![i] = slot[i + 1]]
  /\ todo' = todo \ {i}
  /\ UNCHANGED <<kernel, store, rules, pc, idx, snap, cur, mine, want, history>>

\* Slot i is overwritten only after the memmove has read it.
StoreWord(i) ==
  /\ word[i] # 0
  /\ i - 1 \notin todo
  /\ slot' = [slot EXCEPT ![i] = word[i]]
  /\ word' = [word EXCEPT ![i] = 0]
  /\ UNCHANGED <<kernel, len, query, qnum, rules, pc, idx, snap, todo, cur, mine, want, history>>

ShrinkLoad ==
  /\ pc[Comm] = "move" /\ ~Copying
  /\ snap' = [snap EXCEPT ![Comm] = len]
  /\ Goto(Comm, "store")
  /\ UNCHANGED <<kernel, store, rules, idx, todo, word, cur, mine, want, history>>

\* A query appended since the load is lost.
ShrinkStore ==
  /\ pc[Comm] = "store"
  /\ len' = snap[Comm] - 1
  /\ snap' = [snap EXCEPT ![Comm] = 0]
  /\ ReturnFromRemove
  /\ UNCHANGED <<kernel, slot, query, qnum, rules, todo, word, cur, want, history>>

RemoveIndex ==
  \/ Shift
  \/ \E i \in Slots : LoadWord(i) \/ StoreWord(i)
  \/ ShrinkLoad \/ ShrinkStore

-----------------------------------------------------------------------------
(* The command thread: QUERY LIST and QUERY ADD.                           *)

List ==
  /\ pc[Comm] = "idle"
  /\ Goto(Comm, "list")
  /\ UNCHANGED <<kernel, store, rules, locals, history>>

\* Mutant: a query expires a second early.
ListDropsEarly ==
  /\ pc[Comm] = "list"
  /\ idx[Comm] <= len
  /\ query[slot[idx[Comm]]].age >= QueryTimeout
  /\ mine' = slot[idx[Comm]]
  /\ Goto(Comm, "listDrop")
  /\ UNCHANGED <<kernel, store, rules, idx, moving, cur, want, history>>

ListExpired ==
  /\ pc[Comm] = "list"
  /\ idx[Comm] <= len
  /\ Expired(slot[idx[Comm]])
  /\ mine' = slot[idx[Comm]]
  /\ Goto(Comm, "listDrop")
  /\ UNCHANGED <<kernel, store, rules, idx, moving, cur, want, history>>

ListKept ==
  /\ pc[Comm] = "list"
  /\ idx[Comm] <= len
  /\ ~Expired(slot[idx[Comm]])
  /\ LoopTo(Comm, idx[Comm] + 1)
  /\ UNCHANGED <<kernel, store, rules, pc, moving, cur, mine, want, history>>

\* Mutant: the expired packet gets no verdict.
ListForgets ==
  /\ pc[Comm] = "listDrop"
  /\ Goto(Comm, "shift")
  /\ UNCHANGED <<kernel, store, rules, locals, history>>

ListDrop ==
  /\ pc[Comm] = "listDrop"
  /\ SetVerdict(query[mine].id, "dropped")
  /\ Goto(Comm, "shift")
  /\ UNCHANGED <<flowOf, last, store, rules, locals, history>>

ListEnd ==
  /\ pc[Comm] = "list"
  /\ idx[Comm] > len
  /\ LoopTo(Comm, 1)
  /\ Goto(Comm, "idle")
  /\ UNCHANGED <<kernel, store, rules, moving, cur, mine, want, history>>

QueryAdd(num, any) ==
  /\ pc[Comm] = "idle"
  /\ want' = [num |-> num, any |-> any]
  /\ Goto(Comm, "add")
  /\ UNCHANGED <<kernel, store, rules, idx, moving, cur, mine, history>>

AddPass ==
  /\ pc[Comm] = "add"
  /\ idx[Comm] <= len
  /\ slot[idx[Comm]] # want.num
  /\ LoopTo(Comm, idx[Comm] + 1)
  /\ UNCHANGED <<kernel, store, rules, pc, moving, cur, mine, want, history>>

\* The user allows what the query asks for.
Agrees ==
  /\ pc[Comm] = "add"
  /\ idx[Comm] <= len
  /\ slot[idx[Comm]] = want.num
  /\ mine' = want.num
  /\ wanted' = wanted \cup {query[want.num].flow}
  /\ Goto(Comm, "addRule")
  /\ UNCHANGED <<flowOf, last, store, rules, idx, moving, cur, want, crossed>>

\* Mutant: the query's number is taken for the packet's.
AcceptQueryNumber == Agrees /\ SetVerdict(want.num, "accepted")

AddAccept == Agrees /\ SetVerdict(query[want.num].id, "accepted")

\* What the rule made from query n accepts.
Allowed(n, any) == IF any THEN Like[query[n].flow] ELSE {query[n].flow}

\* fwrules_entry_add, see RuleTable!AddRule.
AddToRules ==
  /\ pc[Comm] = "addRule"
  /\ rules' = rules \cup Allowed(mine, want.any)
  /\ wanted' = wanted \cup Allowed(mine, want.any)
  /\ Goto(Comm, "shift")
  /\ UNCHANGED <<kernel, store, locals, crossed>>

AddEnd ==
  /\ pc[Comm] = "add"
  /\ idx[Comm] > len
  /\ LoopTo(Comm, 1)
  /\ want' = NoWant
  /\ Goto(Comm, "idle")
  /\ UNCHANGED <<kernel, store, rules, moving, cur, mine, history>>

Command == List \/ \E num \in Num, any \in BOOLEAN : QueryAdd(num, any)

Answer ==
  \/ ListExpired \/ ListKept \/ ListDrop \/ ListEnd
  \/ AddPass \/ AddAccept \/ AddToRules \/ AddEnd
  \/ RemoveIndex

Next ==
  \/ Tick \/ RulesShrink
  \/ \E f \in Flow : Receive(f)
  \/ Add
  \/ Command
  \/ Answer

Spec == Init /\ [][Next]_vars

\* The schedules in which one handler runs at a time: what a lock around the
\* query handlers would guarantee.
Alone == pc[Main] = "idle" \/ pc[Comm] = "idle"
AloneSpec == Init /\ [][Next /\ Alone']_vars

\* Both threads run, time passes, and the client polls with QUERY LIST.
DaemonFairness == WF_vars(Add /\ Alone') /\ WF_vars(Answer /\ Alone') /\ SF_vars(Tick)
PolledSpec == AloneSpec /\ DaemonFairness /\ SF_vars(List /\ Alone')

-----------------------------------------------------------------------------
(* Properties.                                                             *)

Places == {"idle", "ask", "renew", "merge", "append", "grow", "growStore", "setId",
           "list", "listDrop", "add", "addRule", "shift", "move", "store"}

TypeOK ==
  /\ fate \in [Packet -> {"none", "held", "accepted", "dropped"}]
  /\ flowOf \in [Packet -> Flow]
  /\ last \in 0..MaxPackets
  /\ slot \in [Slots -> 0..MaxPackets]
  /\ len \in 0..MaxPackets
  /\ query \in [Num -> Query]
  /\ qnum \in 1..(MaxPackets + 1)
  /\ rules \subseteq Flow
  /\ pc \in [Thread -> Places]
  /\ idx \in [Thread -> Nat \ {0}]
  /\ snap \in [Thread -> 0..MaxPackets]
  /\ todo \subseteq 1..(MaxPackets - 1)
  /\ word \in [Slots -> 0..MaxPackets]
  /\ cur \in 0..MaxPackets
  /\ mine \in 0..MaxPackets
  /\ want \in [num : 0..MaxPackets, any : BOOLEAN]
  /\ wanted \subseteq Flow
  /\ crossed \in BOOLEAN

\* A connection waits in one query, the user answers once: as long as no memmove
\* has been at work during a search, whatever LIST and ADD remove while a query is
\* appended, also if that brings a removed one back (fwquery_add's search).
OneQueryPerFlow ==
  ~crossed => \A i, j \in 1..len :
                query[slot[i]].flow = query[slot[j]].flow => slot[i] = slot[j]

\* Between two handlers, every packet the kernel still holds belongs to a query
\* the user can see, and every query to the newest packet of its connection.
HeldIsQueried ==
  pc[Main] = "idle" /\ pc[Comm] = "idle" =>
    \A p \in Packet : fate[p] = "held" <=>
      \E i \in 1..len : query[slot[i]].id = p

\* No packet gets through that neither a rule nor the user's answer allowed.
AcceptedWasWanted ==
  \A p \in Packet : fate[p] = "accepted" => flowOf[p] \in wanted

\* A held packet is dropped only for a newer packet of its connection, or by a
\* LIST after more than FWQUERY_TIMEOUT seconds without one.
DropJustified ==
  [][\A p \in Packet : fate[p] = "held" /\ fate'[p] = "dropped" =>
        \/ pc[Main] = "merge" /\ flowOf[p] = flowOf[last] /\ p < last
        \/ pc[Comm] = "listDrop" /\ Expired(mine) /\ query[mine].id = p]_vars

\* A client that polls QUERY LIST gets every packet decided in the end, even
\* though LIST skips the query after each one it expires.
PolledPacketsDecided ==
  \A p \in Packet : fate[p] = "held" ~> fate[p] \in {"accepted", "dropped"}
=============================================================================
