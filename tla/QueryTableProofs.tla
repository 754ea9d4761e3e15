-------------------------- MODULE QueryTableProofs --------------------------
(***************************************************************************)
(* Proofs about QueryTable, for every number of packets and connections:   *)
(* under every interleaving of the two threads (Spec) its types, one query *)
(* per connection and what an answer accepts; and what becomes of held     *)
(* packets while one handler runs at a time (AloneSpec).                   *)
(***************************************************************************)
EXTENDS QueryTable, TLAPS

\* Main has a query at hand, has yet to set its packetid.
AtCur   == {"renew", "merge", "grow", "growStore", "setId"}
Filling == {"grow", "growStore", "setId"}
\* Comm is about to remove the query at its index.
AtMine == {"listDrop", "addRule", "shift"}

\* The slots that len covers, or will once an append in progress stores it.
Reach == CASE pc[Main] = "grow"      -> len + 1
           [] pc[Main] = "growStore" -> snap[Main] + 1
           [] OTHER                  -> len

\* A memmove has slot i to write yet.
Busy(i) == i \in todo \/ word[i] # 0

MainInv ==
  /\ qnum <= last + 1
  /\ pc[Main] \in {"ask", "append"} => qnum <= last
  /\ pc[Main] # "idle" => last >= 1
  /\ pc[Main] # "ask" => idx[Main] = 1
  /\ pc[Main] \in AtCur => cur \in 1..(qnum - 1)

\* The slots within reach, and the words of a memmove, hold queries.
ReachInv ==
  /\ len <= Reach /\ Reach < qnum
  /\ \A k \in 1..Reach : slot[k] \in 1..(qnum - 1)
  /\ \A i \in Slots : word[i] < qnum

\* A removal stays within the array, which only Comm itself can shorten; Main's
\* append writes behind it.
CommInv ==
  /\ \A i \in Slots : Busy(i) => pc[Comm] = "move" /\ i < len
  /\ pc[Comm] \in AtMine \cup {"move"} => idx[Comm] <= len
  /\ pc[Comm] \in AtMine => mine = slot[idx[Comm]]
  /\ pc[Comm] = "store" => snap[Comm] \in 1..len

TypeInv == TypeOK /\ MainInv /\ ReachInv /\ CommInv

\* The queries in those slots and words, whatever the length: what may come to
\* wait in the array without an append.
Waiting == {n \in Num : \/ \E k \in 1..Reach : slot[k] = n
                        \/ \E i \in Slots : word[i] = n}

\* They are of different connections, unless a memmove crossed a search.
OneFlow ==
  \A m, n \in Waiting : query[m].flow = query[n].flow => m = n

\* What the search has passed is of other connections than the packet's.
Searched ==
  /\ pc[Main] = "ask" =>
       /\ ~Copying
       /\ \A j \in 1..(idx[Main] - 1) : j <= len => ~SameFlow(j)
  /\ pc[Main] = "append" => \A n \in Waiting : query[n].flow # Asked

CurrentIsAsked == pc[Main] \in AtCur => query[cur].flow = Asked

FlowInv == CurrentIsAsked /\ (~crossed => OneFlow /\ Searched)

\* A query's packetid is 0 or a packet of its connection, as long as the memory
\* of a new query holds no other number.
IdsAreOwn ==
  \A n \in 1..(qnum - 1) : query[n].id # 0 =>
    query[n].id \in 1..last /\ flowOf[query[n].id] = query[n].flow

AcceptInv == IdsAreOwn /\ rules \subseteq wanted /\ AcceptedWasWanted

-----------------------------------------------------------------------------
(* The array as LIST and ADD would find it after a removal in progress, and *)
(* what becomes of held packets, while one handler runs at a time.          *)

At(k) == IF k \in todo THEN slot[k + 1] ELSE IF word[k] # 0 THEN word[k] ELSE slot[k]
Top   == IF pc[Comm] \in {"move", "store"} THEN len - 1 ELSE Reach

Queued  == {n \in Num : \E k \in 1..Top : At(k) = n}
\* The queries whose packet the kernel holds.
Holding == {n \in Queued : /\ pc[Main] \in Filling => n # cur
                           /\ pc[Comm] \in {"addRule", "shift"} => n # mine}

Distinct == \A j, k \in 1..Top : At(j) = At(k) => j = k

ArrayInv ==
  /\ ~crossed /\ Distinct
  /\ pc[Comm] = "store" => snap[Comm] = len
  /\ \A i \in todo : word[i] = 0
  /\ pc[Main] \in AtCur => cur \in Queued

\* Such a query holds a packet of its own connection, and not the one that
\* Main asks about just now.
HoldingOwn ==
  \A n \in Holding :
    /\ query[n].id \in 1..last
    /\ pc[Main] # "idle" => query[n].id # last
    /\ flowOf[query[n].id] = query[n].flow

\* The kernel holds these packets, and the one Main asks about.
HeldIsHolding ==
  \A p \in Packet : fate[p] = "held" <=>
    \/ pc[Main] # "idle" /\ p = last
    \/ \E n \in Holding : query[n].id = p

DropsExpired == pc[Comm] = "listDrop" => Expired(mine)

HeldInv == HoldingOwn /\ HeldIsHolding /\ DropsExpired

-----------------------------------------------------------------------------
USE QueryAssumption DEF QueryAssumption, Main, Comm, Thread, Packet, Num, Slots

(* Types. *)

LEMMA TypeInvInit == Init => TypeInv
<1> SUFFICES ASSUME Init PROVE TypeInv
  OBVIOUS
<1>1. want \in [num : 0..MaxPackets, any : BOOLEAN] /\ crossed \in BOOLEAN
  <2>1. 0 \in 0..MaxPackets
    OBVIOUS
  <2> QED BY Zenon, <2>1 DEF Init, NoWant
<1>2. NoQuery \in Query
  BY DEF NoQuery, Query
<1>3. /\ query \in [Num -> Query] /\ flowOf \in [Packet -> Flow]
      /\ fate \in [Packet -> {"none", "held", "accepted", "dropped"}]
  BY <1>2 DEF Init, Query
<1>4. TypeOK
  <2>1. /\ last \in 0..MaxPackets /\ len \in 0..MaxPackets /\ qnum \in 1..(MaxPackets + 1)
        /\ cur \in 0..MaxPackets /\ mine \in 0..MaxPackets /\ todo \subseteq 1..(MaxPackets - 1)
        /\ slot \in [Slots -> 0..MaxPackets] /\ word \in [Slots -> 0..MaxPackets]
        /\ idx \in [Thread -> Nat \ {0}] /\ snap \in [Thread -> 0..MaxPackets]
    BY DEF Init
  <2>2. rules \subseteq Flow /\ wanted \subseteq Flow
    BY DEF Init
  <2>3. pc \in [Thread -> Places]
    BY DEF Init, Places
  <2> QED BY Zenon, <1>1, <1>3, <2>1, <2>2, <2>3 DEF TypeOK
<1>5. MainInv /\ ReachInv /\ CommInv
  BY DEF Init, MainInv, ReachInv, CommInv, Reach, Busy, AtCur, AtMine
<1> QED BY <1>4, <1>5 DEF TypeInv

LEMMA VerdictType ==
  ASSUME TypeOK, NEW id, NEW v \in {"accepted", "dropped"}, SetVerdict(id, v)
  PROVE  fate' \in [Packet -> {"none", "held", "accepted", "dropped"}]
BY DEF TypeOK, SetVerdict

LEMMA QueryType ==
  ASSUME TypeOK, NEW n \in Num
  PROVE  /\ query[n] \in Query /\ query[n].flow \in Flow
         /\ query[n].id \in 0..MaxPackets /\ query[n].age \in 0..(QueryTimeout + 1)
         /\ \A i \in 0..MaxPackets : [query EXCEPT ![n].id = i] \in [Num -> Query]
         /\ [query EXCEPT ![n].age = 0] \in [Num -> Query]
         /\ \A f \in Flow, i \in 0..MaxPackets :
              [query EXCEPT ![n] = [flow |-> f, id |-> i, age |-> 0]] \in [Num -> Query]
<1>0. query \in [Num -> Query]
  BY DEF TypeOK
<1> USE <1>0 DEF Query
<1>1. /\ query[n] \in Query /\ query[n].flow \in Flow
      /\ query[n].id \in 0..MaxPackets /\ query[n].age \in 0..(QueryTimeout + 1)
  OBVIOUS
<1>2. ASSUME NEW i \in 0..MaxPackets PROVE [query EXCEPT ![n].id = i] \in [Num -> Query]
  OBVIOUS
<1>3. [query EXCEPT ![n].age = 0] \in [Num -> Query]
  <2>1. 0 \in 0..(QueryTimeout + 1)
    OBVIOUS
  <2>2. [query[n] EXCEPT !.age = 0] \in Query
    BY <1>1, <2>1
  <2> QED BY <2>2
<1>4. ASSUME NEW f \in Flow, NEW i \in 0..MaxPackets
      PROVE  [query EXCEPT ![n] = [flow |-> f, id |-> i, age |-> 0]] \in [Num -> Query]
  OBVIOUS
<1> QED BY <1>1, <1>2, <1>3, <1>4

LEMMA TickType ==
  ASSUME TypeOK, Tick
  PROVE  /\ query' \in [Num -> Query]
         /\ \A n \in Num : query'[n].flow = query[n].flow /\ query'[n].id = query[n].id
<1> SUFFICES ASSUME NEW n \in Num
             PROVE  query'[n] \in Query /\ query'[n].flow = query[n].flow /\ query'[n].id = query[n].id
  BY DEF Tick
<1>1. query[n] \in Query
  BY QueryType
<1>2. CASE n < qnum /\ ~Expired(n)
  <2>1. query'[n] = [query[n] EXCEPT !.age = @ + 1] /\ ~(query[n].age > QueryTimeout)
    BY <1>2 DEF Tick, Expired
  <2> QED BY <1>1, <2>1 DEF Query
<1>3. CASE ~(n < qnum /\ ~Expired(n))
  <2>1. query'[n] = query[n]
    BY <1>3 DEF Tick
  <2> QED BY <1>1, <2>1
<1> QED BY <1>2, <1>3

LEMMA GotoIs ==
  ASSUME TypeOK, NEW t \in Thread, NEW p \in Places, Goto(t, p)
  PROVE  pc' \in [Thread -> Places] /\ pc'[t] = p /\ \A u \in Thread : u # t => pc'[u] = pc[u]
BY DEF TypeOK, Goto

LEMMA LoopToIs ==
  ASSUME TypeOK, NEW t \in Thread, NEW i \in Nat \ {0}, LoopTo(t, i)
  PROVE  idx' \in [Thread -> Nat \ {0}] /\ idx'[t] = i /\ \A u \in Thread : u # t => idx'[u] = idx[u]
BY DEF TypeOK, LoopTo

LEMMA SnapIs ==
  ASSUME TypeOK, NEW t \in Thread, NEW n \in 0..MaxPackets, snap' = [snap EXCEPT ![t] = n]
  PROVE  snap' \in [Thread -> 0..MaxPackets] /\ snap'[t] = n /\ \A u \in Thread : u # t => snap'[u] = snap[u]
BY DEF TypeOK

LEMMA ReachType == TypeOK => Reach \in Nat
BY DEF TypeOK, Reach

\* The query at a loop's index.
LEMMA SlotAt ==
  ASSUME TypeInv, NEW i \in Nat \ {0}, i <= len
  PROVE  i \in Slots /\ slot[i] \in 1..(qnum - 1) /\ slot[i] \in Num
<1>1. Reach \in Nat
  BY ReachType DEF TypeInv
<1>2. len \in Nat /\ qnum \in 1..(MaxPackets + 1)
  BY DEF TypeInv, TypeOK
<1>3. len <= Reach /\ Reach < qnum /\ \A k \in 1..Reach : slot[k] \in 1..(qnum - 1)
  BY DEF TypeInv, ReachInv
<1> QED BY <1>1, <1>2, <1>3

LEMMA ReceiveType ==
  ASSUME TypeInv, NEW f \in Flow, Receive(f)
  PROVE  TypeInv'
<1> USE DEF TypeInv, TypeOK
<1>1. last \in Nat /\ last' = last + 1 /\ last' \in Num /\ last' \in 0..MaxPackets
  BY DEF Receive
<1>2. fate' \in [Packet -> {"none", "held", "accepted", "dropped"}]
  BY DEF Receive
<1>3. flowOf' \in [Packet -> Flow]
  BY DEF Receive
<1>4. /\ pc[Main] = "idle" /\ pc'[Main] \in {"idle", "ask"} /\ pc'[Comm] = pc[Comm]
      /\ pc' \in [Thread -> Places]
  BY DEF Receive, Goto, Places
<1>5. crossed' \in BOOLEAN
  BY Zenon DEF Receive
<1>6. UNCHANGED <<slot, len, query, qnum, rules, idx, snap, todo, word, cur, mine, want, wanted>>
  BY DEF Receive, store, array, locals, moving
<1>7. TypeOK'
  BY Zenon, <1>1, <1>2, <1>3, <1>4, <1>5, <1>6
<1>8. MainInv'
  BY <1>1, <1>4, <1>6 DEF MainInv, AtCur
<1>9. ReachInv' /\ CommInv'
  BY <1>4, <1>6 DEF ReachInv, Reach, CommInv, Busy, AtMine
<1> QED BY <1>7, <1>8, <1>9

LEMMA AddType == TypeInv /\ Add => TypeInv'
<1> SUFFICES ASSUME TypeInv, Add PROVE TypeInv'
  OBVIOUS
<1>0. TypeOK /\ MainInv /\ ReachInv /\ CommInv /\ Reach \in Nat
  BY ReachType DEF TypeInv
<1> USE <1>0 DEF kernel, array, store, moving, locals, history
<1>1. CASE SearchPass
  <2>1. TypeOK'
    <3>1. idx[Main] + 1 \in Nat \ {0} /\ LoopTo(Main, idx[Main] + 1)
      BY <1>1 DEF SearchPass, TypeOK
    <3>2. idx' \in [Thread -> Nat \ {0}]
      BY <3>1, LoopToIs
    <3> QED BY Zenon, <1>1, <3>2 DEF SearchPass, TypeOK
  <2>2. (MainInv /\ ReachInv /\ CommInv)'
    BY <1>1 DEF SearchPass, LoopTo, TypeOK, MainInv, ReachInv, Reach, CommInv, Busy, AtCur, AtMine
  <2> QED BY <2>1, <2>2 DEF TypeInv
<1>2. CASE SearchHit
  <2>1. idx[Main] \in Nat \ {0} /\ cur' = slot[idx[Main]] /\ idx[Main] <= len
    BY <1>2 DEF SearchHit, TypeOK
  <2>2. cur' \in 1..(qnum - 1) /\ cur' \in 0..MaxPackets
    BY <2>1, SlotAt
  <2>3. TypeOK'
    <3>1. pc' \in [Thread -> Places] /\ idx' \in [Thread -> Nat \ {0}]
      BY <1>2, GotoIs, LoopToIs DEF SearchHit, Places
    <3> QED BY Zenon, <1>2, <2>2, <3>1 DEF SearchHit, TypeOK
  <2>4. (MainInv /\ ReachInv /\ CommInv)'
    BY <1>2, <2>2 DEF SearchHit, Goto, LoopTo, TypeOK, MainInv, ReachInv, Reach, CommInv, Busy, AtCur, AtMine
  <2> QED BY <2>3, <2>4 DEF TypeInv
<1>3. CASE SearchEnd
  <2>1. TypeOK'
    <3>1. pc' \in [Thread -> Places] /\ idx' \in [Thread -> Nat \ {0}]
      BY <1>3, GotoIs, LoopToIs DEF SearchEnd, Places
    <3> QED BY Zenon, <1>3, <3>1 DEF SearchEnd, TypeOK
  <2>2. (MainInv /\ ReachInv /\ CommInv)'
    BY <1>3 DEF SearchEnd, Goto, LoopTo, TypeOK, MainInv, ReachInv, Reach, CommInv, Busy, AtCur, AtMine
  <2> QED BY <2>1, <2>2 DEF TypeInv
<1>4. CASE Renew
  <2>1. cur \in Num
    BY <1>4 DEF Renew, MainInv, AtCur, TypeOK
  <2>2. query' \in [Num -> Query]
    BY <1>4, <2>1, QueryType DEF Renew
  <2>3. TypeOK'
    <3>1. pc' \in [Thread -> Places]
      BY <1>4, GotoIs DEF Renew, Places
    <3> QED BY Zenon, <1>4, <2>2, <3>1 DEF Renew, TypeOK
  <2>4. (MainInv /\ ReachInv /\ CommInv)'
    BY <1>4 DEF Renew, Goto, TypeOK, MainInv, ReachInv, Reach, CommInv, Busy, AtCur, AtMine
  <2> QED BY <2>3, <2>4 DEF TypeInv
<1>5. CASE MergeDrop
  <2>1. fate' \in [Packet -> {"none", "held", "accepted", "dropped"}]
    BY <1>5, VerdictType DEF MergeDrop
  <2>2. TypeOK'
    <3>1. pc' \in [Thread -> Places]
      BY <1>5, GotoIs DEF MergeDrop, Places
    <3> QED BY Zenon, <1>5, <2>1, <3>1 DEF MergeDrop, TypeOK
  <2>3. (MainInv /\ ReachInv /\ CommInv)'
    BY <1>5 DEF MergeDrop, Goto, TypeOK, MainInv, ReachInv, Reach, CommInv, Busy, AtCur, AtMine
  <2> QED BY <2>2, <2>3 DEF TypeInv
<1>6. CASE AppendQuery
  <2>1. /\ qnum \in Num /\ last \in Num /\ Reach = len /\ len < qnum /\ len \in Nat /\ len + 1 \in Slots
        /\ pc[Main] = "append"
    <3>1. pc[Main] = "append" /\ Reach = len
      BY <1>6 DEF AppendQuery, Reach
    <3>2. last \in 0..MaxPackets /\ qnum \in 1..(MaxPackets + 1) /\ len \in 0..MaxPackets
      BY DEF TypeOK
    <3>3. qnum <= last /\ len < qnum
      BY <3>1 DEF MainInv, ReachInv
    <3> QED BY <3>1, <3>2, <3>3
  <2>2. query' \in [Num -> Query]
    <3>1. PICK junk \in JunkId : query' = [query EXCEPT ![qnum] = [flow |-> Asked, id |-> junk, age |-> 0]]
      BY <1>6 DEF AppendQuery
    <3>2. Asked \in Flow /\ junk \in 0..MaxPackets
      BY <2>1 DEF TypeOK, Asked
    <3> QED BY <2>1, <3>1, <3>2, QueryType
  <2>3. /\ slot' = [slot EXCEPT ![len + 1] = qnum] /\ qnum' = qnum + 1 /\ cur' = qnum
        /\ pc' = [pc EXCEPT ![Main] = "grow"]
        /\ UNCHANGED <<fate, flowOf, last, len, rules, idx, snap, todo, word, mine, want, wanted, crossed>>
    BY <1>6 DEF AppendQuery, Goto
  <2>4. slot' \in [Slots -> 0..MaxPackets] /\ slot'[len + 1] = qnum /\ \A k \in 1..len : slot'[k] = slot[k]
    BY <2>1, <2>3 DEF TypeOK
  <2>5. TypeOK'
    <3>1. qnum' \in 1..(MaxPackets + 1) /\ cur' \in 0..MaxPackets
      BY <2>1, <2>3
    <3>2. pc' \in [Thread -> Places]
      BY <2>3 DEF TypeOK, Places
    <3> QED BY Zenon, <2>2, <2>3, <2>4, <3>1, <3>2 DEF TypeOK
  <2>6. pc'[Main] = "grow" /\ pc'[Comm] = pc[Comm] /\ Reach' = len + 1
    BY <2>3 DEF TypeOK, Reach
  <2>7. MainInv'
    BY <2>1, <2>3, <2>6 DEF MainInv, AtCur
  <2>8. ReachInv'
    <3>1. \A i \in Slots : word'[i] < qnum'
      BY SMTT(40), <2>1, <2>3 DEF ReachInv, TypeOK
    <3>2. \A k \in 1..(len + 1) : slot'[k] \in 1..(qnum' - 1)
      BY <2>1, <2>3, <2>4 DEF ReachInv
    <3> QED BY <2>1, <2>3, <2>6, <3>1, <3>2 DEF ReachInv
  <2>9. CommInv'
    BY <2>1, <2>3, <2>4, <2>6 DEF CommInv, Busy, AtMine, TypeOK
  <2> QED BY <2>5, <2>7, <2>8, <2>9 DEF TypeInv
<1>7. CASE GrowLoad
  <2>1. TypeOK'
    <3>1. pc' \in [Thread -> Places] /\ snap' \in [Thread -> 0..MaxPackets]
      BY <1>7, GotoIs, SnapIs DEF GrowLoad, Places, TypeOK
    <3> QED BY Zenon, <1>7, <3>1 DEF GrowLoad, TypeOK
  <2>2. (MainInv /\ ReachInv /\ CommInv)'
    BY <1>7 DEF GrowLoad, Goto, TypeOK, MainInv, ReachInv, Reach, CommInv, Busy, AtCur, AtMine
  <2> QED BY <2>1, <2>2 DEF TypeInv
<1>8. CASE GrowStore
  <2>1. len' = snap[Main] + 1 /\ len' = Reach /\ len' \in 0..MaxPackets
    BY <1>8 DEF GrowStore, Reach, ReachInv, TypeOK
  <2>2. /\ pc' \in [Thread -> Places] /\ pc[Main] = "growStore" /\ pc'[Main] = "setId" /\ pc'[Comm] = pc[Comm]
        /\ snap' \in [Thread -> 0..MaxPackets] /\ snap'[Comm] = snap[Comm]
        /\ UNCHANGED <<fate, flowOf, last, slot, query, qnum, rules, idx, todo, word, cur, mine, want,
                       wanted, crossed>>
    <3>1. 0 \in 0..MaxPackets
      OBVIOUS
    <3>2. snap' \in [Thread -> 0..MaxPackets] /\ snap'[Comm] = snap[Comm]
      BY <1>8, <3>1, SnapIs DEF GrowStore
    <3> QED BY <1>8, <3>2, GotoIs DEF GrowStore, Places
  <2>3. TypeOK'
    BY Zenon, <2>1, <2>2 DEF TypeOK
  <2>4. Reach' = Reach /\ len <= len'
    BY <2>1, <2>2 DEF Reach, ReachInv
  <2>5. MainInv'
    BY <2>2 DEF MainInv, AtCur
  <2>6. ReachInv'
    BY <2>1, <2>2, <2>4 DEF ReachInv
  <2>7. CommInv'
    BY <2>1, <2>2, <2>4 DEF CommInv, Busy, AtMine, TypeOK
  <2> QED BY <2>3, <2>5, <2>6, <2>7 DEF TypeInv
<1>9. CASE SetPacketId
  <2>1. cur \in Num /\ query' = [query EXCEPT ![cur].id = last] /\ last \in 0..MaxPackets
    BY <1>9 DEF SetPacketId, MainInv, AtCur, TypeOK
  <2>2. query' \in [Num -> Query]
    BY <2>1, QueryType
  <2>3. TypeOK'
    <3>1. pc' \in [Thread -> Places] /\ cur' \in 0..MaxPackets
      BY <1>9, GotoIs DEF SetPacketId, Places
    <3> QED BY Zenon, <1>9, <2>2, <3>1 DEF SetPacketId, TypeOK
  <2>4. (MainInv /\ ReachInv /\ CommInv)'
    BY <1>9 DEF SetPacketId, Goto, TypeOK, MainInv, ReachInv, Reach, CommInv, Busy, AtCur, AtMine
  <2> QED BY <2>3, <2>4 DEF TypeInv
<1> QED BY <1>1, <1>2, <1>3, <1>4, <1>5, <1>6, <1>7, <1>8, <1>9 DEF Add

\* What the steps of a removal do.
LEMMA ShiftIs ==
  ASSUME TypeInv, Shift
  PROVE  /\ pc[Comm] = "shift" /\ pc'[Comm] = "move" /\ pc'[Main] = pc[Main] /\ pc' \in [Thread -> Places]
         /\ idx[Comm] <= len /\ mine = slot[idx[Comm]]
         /\ todo = {} /\ \A i \in Slots : word[i] = 0
         /\ todo' = idx[Comm]..(len - 1) /\ todo' \subseteq 1..(MaxPackets - 1)
         /\ crossed' \in BOOLEAN
         /\ UNCHANGED <<fate, flowOf, last, slot, len, query, qnum, rules, idx, snap, word, cur, mine, want, wanted>>
<1>0. TypeOK /\ CommInv
  BY DEF TypeInv
<1>1. pc'[Comm] = "move" /\ pc'[Main] = pc[Main] /\ pc' \in [Thread -> Places]
  BY <1>0, GotoIs DEF Shift, Places
<1>2. todo' = idx[Comm]..(len - 1) /\ todo' \subseteq 1..(MaxPackets - 1)
  BY <1>0 DEF Shift, TypeOK
<1>3. pc[Comm] = "shift" /\ idx[Comm] <= len /\ mine = slot[idx[Comm]]
  BY <1>0 DEF Shift, CommInv, AtMine
<1>4. todo = {} /\ \A i \in Slots : word[i] = 0
  BY <1>0, <1>3 DEF CommInv, Busy, TypeOK
<1>5. crossed' \in BOOLEAN
  BY Zenon DEF Shift
<1>6. UNCHANGED <<fate, flowOf, last, slot, len, query, qnum, rules, idx, snap, word, cur, mine, want, wanted>>
  BY DEF Shift, kernel, store, array
<1> QED BY <1>1, <1>2, <1>3, <1>4, <1>5, <1>6

LEMMA LoadIs ==
  ASSUME TypeInv, NEW i \in Slots, LoadWord(i)
  PROVE  /\ pc[Comm] = "move" /\ i \in todo /\ i < len /\ i + 1 \in Slots
         /\ todo' = todo \ {i} /\ word' \in [Slots -> 0..MaxPackets]
         /\ word'[i] = slot[i + 1] /\ \A k \in Slots : k # i => word'[k] = word[k]
         /\ UNCHANGED <<fate, flowOf, last, slot, len, query, qnum, rules, pc, idx, snap, cur, mine, want, history>>
<1>0. TypeOK /\ CommInv
  BY DEF TypeInv
<1>1. i \in todo /\ todo' = todo \ {i} /\ word' = [word EXCEPT ![i] = slot[i + 1]]
  BY DEF LoadWord
<1>2. pc[Comm] = "move" /\ i < len
  BY <1>0, <1>1 DEF CommInv, Busy
<1>3. i + 1 \in Slots
  BY <1>0, <1>1 DEF TypeOK
<1>4. slot[i + 1] \in 0..MaxPackets /\ word \in [Slots -> 0..MaxPackets]
  BY <1>0, <1>3 DEF TypeOK
<1>5. /\ word' \in [Slots -> 0..MaxPackets]
      /\ word'[i] = slot[i + 1] /\ \A k \in Slots : k # i => word'[k] = word[k]
  BY <1>1, <1>4
<1>6. UNCHANGED <<fate, flowOf, last, slot, len, query, qnum, rules, pc, idx, snap, cur, mine, want, history>>
  BY DEF LoadWord, kernel, store, array
<1> QED BY <1>1, <1>2, <1>3, <1>5, <1>6

LEMMA StoreIs ==
  ASSUME TypeInv, NEW i \in Slots, StoreWord(i)
  PROVE  /\ pc[Comm] = "move" /\ word[i] # 0 /\ word[i] \in Num /\ i < len /\ i - 1 \notin todo
         /\ word' \in [Slots -> 0..MaxPackets]
         /\ word'[i] = 0 /\ \A k \in Slots : k # i => word'[k] = word[k]
         /\ slot' \in [Slots -> 0..MaxPackets]
         /\ slot'[i] = word[i] /\ \A k \in Slots : k # i => slot'[k] = slot[k]
         /\ UNCHANGED <<fate, flowOf, last, len, query, qnum, rules, pc, idx, snap, todo, cur, mine, want, history>>
<1>0. TypeOK /\ CommInv
  BY DEF TypeInv
<1>1. /\ word[i] # 0 /\ i - 1 \notin todo
      /\ slot' = [slot EXCEPT ![i] = word[i]] /\ word' = [word EXCEPT ![i] = 0]
  BY DEF StoreWord
<1>2. pc[Comm] = "move" /\ i < len
  BY <1>0, <1>1 DEF CommInv, Busy
<1>3. word \in [Slots -> 0..MaxPackets] /\ slot \in [Slots -> 0..MaxPackets]
  BY <1>0 DEF TypeOK
<1>4. word[i] \in Num
  BY <1>1, <1>3
<1>5. /\ word' \in [Slots -> 0..MaxPackets]
      /\ word'[i] = 0 /\ \A k \in Slots : k # i => word'[k] = word[k]
      /\ slot' \in [Slots -> 0..MaxPackets]
      /\ slot'[i] = word[i] /\ \A k \in Slots : k # i => slot'[k] = slot[k]
  BY <1>1, <1>3
<1>6. UNCHANGED <<fate, flowOf, last, len, query, qnum, rules, pc, idx, snap, todo, cur, mine, want, history>>
  BY DEF StoreWord, kernel
<1> QED BY <1>1, <1>2, <1>4, <1>5, <1>6

LEMMA ShrinkIs ==
  ASSUME TypeInv, ShrinkStore
  PROVE  /\ pc[Comm] = "store" /\ pc'[Comm] \in {"list", "add"} /\ pc'[Main] = pc[Main]
         /\ pc' \in [Thread -> Places]
         /\ snap[Comm] \in 1..len /\ len' = snap[Comm] - 1 /\ len' \in 0..MaxPackets
         /\ snap' \in [Thread -> 0..MaxPackets] /\ snap'[Main] = snap[Main]
         /\ idx' \in [Thread -> Nat \ {0}] /\ idx'[Main] = idx[Main] /\ mine' = 0
         /\ UNCHANGED <<fate, flowOf, last, slot, query, qnum, rules, todo, word, cur, want, history>>
<1>0. TypeOK /\ CommInv
  BY DEF TypeInv
<1>1. pc[Comm] = "store" /\ snap[Comm] \in 1..len /\ len' = snap[Comm] - 1
  BY <1>0 DEF ShrinkStore, CommInv
<1>2. len' \in 0..MaxPackets
  BY SMTT(40), <1>0, <1>1 DEF TypeOK
<1>3. snap' \in [Thread -> 0..MaxPackets] /\ snap'[Main] = snap[Main]
  <2>1. 0 \in 0..MaxPackets
    OBVIOUS
  <2> QED BY <1>0, <2>1, SnapIs DEF ShrinkStore
<1>4. idx' \in [Thread -> Nat \ {0}] /\ idx'[Main] = idx[Main]
  <2>1. idx[Comm] + 1 \in Nat \ {0}
    BY <1>0 DEF TypeOK
  <2> QED BY <1>0, <2>1, LoopToIs DEF ShrinkStore, ReturnFromRemove
<1>5. pc'[Comm] \in {"list", "add"} /\ pc'[Main] = pc[Main] /\ pc' \in [Thread -> Places]
  BY <1>0, GotoIs DEF ShrinkStore, ReturnFromRemove, Places
<1>6. UNCHANGED <<fate, flowOf, last, slot, query, qnum, rules, todo, word, cur, want, history>> /\ mine' = 0
  BY DEF ShrinkStore, ReturnFromRemove, kernel
<1> QED BY <1>1, <1>2, <1>3, <1>4, <1>5, <1>6

LEMMA RemoveType == TypeInv /\ RemoveIndex => TypeInv'
<1> SUFFICES ASSUME TypeInv, RemoveIndex PROVE TypeInv'
  OBVIOUS
<1>0. TypeOK /\ MainInv /\ ReachInv /\ CommInv /\ Reach \in Nat
  BY ReachType DEF TypeInv
<1>a. len \in Nat /\ qnum \in 1..(MaxPackets + 1) /\ idx[Comm] \in Nat \ {0}
  BY <1>0 DEF TypeOK
<1>1. CASE Shift
  <2>1. TypeOK'
    BY Zenon, <1>0, <1>1, ShiftIs DEF TypeOK
  <2>2. MainInv' /\ ReachInv'
    BY <1>0, <1>1, ShiftIs DEF MainInv, AtCur, ReachInv, Reach
  <2>3. CommInv'
    BY <1>0, <1>a, <1>1, ShiftIs DEF CommInv, Busy, AtMine
  <2> QED BY <2>1, <2>2, <2>3 DEF TypeInv
<1>2. ASSUME NEW i \in Slots, LoadWord(i) PROVE TypeInv'
  <2>1. TypeOK'
    <3>1. todo' \subseteq 1..(MaxPackets - 1)
      BY <1>0, <1>2, LoadIs DEF TypeOK
    <3> QED BY Zenon, <1>0, <1>2, <3>1, LoadIs DEF TypeOK, history
  <2>2. MainInv'
    BY <1>0, <1>2, LoadIs DEF MainInv, AtCur
  <2>3. Reach' = Reach
    BY <1>0, <1>2, LoadIs DEF Reach
  <2>4. ReachInv'
    <3>1. slot[i + 1] < qnum
      <4>1. i + 1 \in 1..Reach
        BY <1>0, <1>a, <1>2, LoadIs DEF ReachInv
      <4> QED BY <1>0, <1>a, <4>1 DEF ReachInv
    <3> QED BY <1>0, <1>2, <2>3, <3>1, LoadIs DEF ReachInv
  <2>5. CommInv'
    BY <1>0, <1>2, LoadIs DEF CommInv, Busy, AtMine
  <2> QED BY <2>1, <2>2, <2>4, <2>5 DEF TypeInv
<1>3. ASSUME NEW i \in Slots, StoreWord(i) PROVE TypeInv'
  <2>1. TypeOK'
    BY Zenon, <1>0, <1>3, StoreIs DEF TypeOK, history
  <2>2. MainInv'
    BY <1>0, <1>3, StoreIs DEF MainInv, AtCur
  <2>3. Reach' = Reach
    BY <1>0, <1>3, StoreIs DEF Reach
  <2>4. ReachInv'
    <3>1. \A k \in 1..Reach : slot'[k] \in 1..(qnum - 1)
      <4>1. word[i] < qnum /\ word[i] \in Num
        BY <1>0, <1>3, StoreIs DEF ReachInv
      <4>2. \A k \in 1..Reach : k \in Slots /\ slot[k] \in 1..(qnum - 1)
        BY <1>0, <1>a DEF ReachInv
      <4>3. slot'[i] = word[i] /\ \A k \in Slots : k # i => slot'[k] = slot[k]
        BY <1>3, StoreIs
      <4> QED BY <1>a, <4>1, <4>2, <4>3
    <3>2. \A k \in Slots : word'[k] < qnum
      <4>1. word'[i] = 0 /\ \A k \in Slots : k # i => word'[k] = word[k]
        BY <1>3, StoreIs
      <4> QED BY <1>0, <1>a, <4>1 DEF ReachInv
    <3> QED BY <1>0, <1>3, <2>3, <3>1, <3>2, StoreIs DEF ReachInv
  <2>5. CommInv'
    <3>1. pc[Comm] = "move" /\ UNCHANGED <<pc, len, idx, snap, mine>>
      BY <1>0, <1>3, StoreIs
    <3>2. \A k \in Slots : Busy(k)' => Busy(k)
      BY <1>0, <1>3, StoreIs DEF Busy
    <3>3. "move" \notin AtMine /\ "move" # "store"
      BY DEF AtMine
    <3> QED BY <1>0, <3>1, <3>2, <3>3 DEF CommInv
  <2> QED BY <2>1, <2>2, <2>4, <2>5 DEF TypeInv
<1>4. CASE ShrinkLoad
  <2>1. /\ pc[Comm] = "move" /\ pc'[Comm] = "store" /\ pc'[Main] = pc[Main] /\ pc' \in [Thread -> Places]
        /\ snap' \in [Thread -> 0..MaxPackets] /\ snap'[Comm] = len /\ snap'[Main] = snap[Main]
        /\ UNCHANGED <<fate, flowOf, last, slot, len, query, qnum, rules, idx, todo, word, cur, mine, want,
                       wanted, crossed>>
    <3>1. len \in 0..MaxPackets
      BY <1>0 DEF TypeOK
    <3>2. snap' \in [Thread -> 0..MaxPackets] /\ snap'[Comm] = len /\ snap'[Main] = snap[Main]
      BY <1>0, <1>4, <3>1, SnapIs DEF ShrinkLoad
    <3>3. pc'[Comm] = "store" /\ pc'[Main] = pc[Main] /\ pc' \in [Thread -> Places]
      BY <1>0, <1>4, GotoIs DEF ShrinkLoad, Places
    <3> QED BY <1>4, <3>2, <3>3 DEF ShrinkLoad, kernel, store, array, history
  <2>2. ~Copying
    BY <1>4 DEF ShrinkLoad
  <2>3. TypeOK'
    BY Zenon, <1>0, <2>1 DEF TypeOK
  <2>4. MainInv' /\ ReachInv'
    BY <1>0, <2>1 DEF MainInv, AtCur, ReachInv, Reach
  <2>5. CommInv'
    <3>1. len >= 1
      BY <1>0, <1>a, <2>1 DEF CommInv
    <3>2. \A i \in Slots : ~Busy(i)'
      BY <1>0, <2>1, <2>2 DEF Copying, Busy
    <3> QED BY <1>a, <2>1, <3>1, <3>2 DEF CommInv, AtMine
  <2> QED BY <2>3, <2>4, <2>5 DEF TypeInv
<1>5. CASE ShrinkStore
  <2>1. TypeOK'
    <3>1. mine' \in 0..MaxPackets
      BY <1>5, ShrinkIs
    <3> QED BY Zenon, <1>0, <1>5, <3>1, ShrinkIs DEF TypeOK, history
  <2>2. MainInv'
    BY <1>0, <1>5, ShrinkIs DEF MainInv, AtCur
  <2>3. Reach' \in Nat /\ Reach' <= Reach /\ len' <= Reach'
    BY <1>0, <1>a, <1>5, <2>1, ReachType, ShrinkIs DEF ReachInv, Reach
  <2>4. ReachInv'
    BY <1>0, <1>a, <1>5, <2>3, ShrinkIs DEF ReachInv
  <2>5. CommInv'
    BY <1>0, <1>5, ShrinkIs DEF CommInv, Busy, AtMine
  <2> QED BY <2>1, <2>2, <2>4, <2>5 DEF TypeInv
<1> QED BY <1>1, <1>2, <1>3, <1>4, <1>5 DEF RemoveIndex

LEMMA AnswerType == TypeInv /\ Answer => TypeInv'
<1> SUFFICES ASSUME TypeInv, Answer PROVE TypeInv'
  OBVIOUS
<1>0. TypeOK /\ MainInv /\ ReachInv /\ CommInv
  BY DEF TypeInv
<1> USE <1>0
<1>1. CASE ListExpired
  <2>1. pc'[Comm] = "listDrop" /\ pc'[Main] = pc[Main] /\ pc' \in [Thread -> Places]
    BY <1>1, GotoIs DEF ListExpired, Places
  <2>2. idx[Comm] \in Nat \ {0} /\ idx[Comm] <= len /\ mine' = slot[idx[Comm]]
    BY <1>1 DEF ListExpired, TypeOK
  <2>3. mine' \in 0..MaxPackets
    BY <2>2, SlotAt
  <2>4. UNCHANGED <<fate, flowOf, last, slot, len, query, qnum, rules, idx, snap, todo, word, cur, want,
                    wanted, crossed>>
    BY <1>1 DEF ListExpired, kernel, store, array, moving, history
  <2>5. pc[Comm] = "list"
    BY <1>1 DEF ListExpired
  <2>6. TypeOK'
    BY Zenon, <2>1, <2>3, <2>4 DEF TypeOK
  <2>7. MainInv' /\ ReachInv' /\ CommInv'
    BY <2>1, <2>2, <2>4, <2>5 DEF MainInv, AtCur, ReachInv, Reach, CommInv, Busy, AtMine
  <2> QED BY <2>6, <2>7 DEF TypeInv
<1>2. CASE ListKept \/ AddPass
  <2>1. idx' \in [Thread -> Nat \ {0}] /\ idx'[Main] = idx[Main]
    <3>1. idx[Comm] + 1 \in Nat \ {0} /\ LoopTo(Comm, idx[Comm] + 1)
      BY SMTT(40), <1>2 DEF ListKept, AddPass, TypeOK
    <3> QED BY <3>1, LoopToIs
  <2>2. UNCHANGED <<fate, flowOf, last, slot, len, query, qnum, rules, pc, snap, todo, word, cur, mine, want,
                    wanted, crossed>>
    BY <1>2 DEF ListKept, AddPass, kernel, store, array, moving, history
  <2>3. pc[Comm] \in {"list", "add"}
    BY <1>2 DEF ListKept, AddPass
  <2>4. TypeOK'
    BY Zenon, <2>1, <2>2 DEF TypeOK
  <2>5. MainInv' /\ ReachInv' /\ CommInv'
    BY <2>1, <2>2, <2>3 DEF MainInv, AtCur, ReachInv, Reach, CommInv, Busy, AtMine
  <2> QED BY <2>4, <2>5 DEF TypeInv
<1>3. CASE ListDrop
  <2>1. /\ pc[Comm] = "listDrop" /\ pc'[Comm] = "shift" /\ pc'[Main] = pc[Main]
        /\ pc' \in [Thread -> Places]
    BY <1>3, GotoIs DEF ListDrop, Places
  <2>2. fate' \in [Packet -> {"none", "held", "accepted", "dropped"}]
    BY <1>3, VerdictType DEF ListDrop
  <2>3. UNCHANGED <<flowOf, last, slot, len, query, qnum, rules, idx, snap, todo, word, cur, mine, want,
                    wanted, crossed>>
    BY <1>3 DEF ListDrop, store, array, locals, moving, history
  <2>4. TypeOK'
    BY Zenon, <2>1, <2>2, <2>3 DEF TypeOK
  <2>5. MainInv' /\ ReachInv' /\ CommInv'
    BY <2>1, <2>3 DEF MainInv, AtCur, ReachInv, Reach, CommInv, Busy, AtMine
  <2> QED BY <2>4, <2>5 DEF TypeInv
<1>4. CASE ListEnd \/ AddEnd
  <2>1. /\ pc[Comm] \in {"list", "add"} /\ pc'[Comm] = "idle" /\ pc'[Main] = pc[Main]
        /\ pc' \in [Thread -> Places]
    BY <1>4, GotoIs DEF ListEnd, AddEnd, Places
  <2>2. idx' \in [Thread -> Nat \ {0}] /\ idx'[Main] = idx[Main]
    BY <1>4, LoopToIs DEF ListEnd, AddEnd
  <2>3. want' \in [num : 0..MaxPackets, any : BOOLEAN]
    <3>1. NoWant \in [num : 0..MaxPackets, any : BOOLEAN]
      <4>1. 0 \in 0..MaxPackets
        OBVIOUS
      <4> QED BY Zenon, <4>1 DEF NoWant
    <3>2. want' = want \/ want' = NoWant
      BY <1>4 DEF ListEnd, AddEnd
    <3> QED BY Zenon, <3>1, <3>2 DEF TypeOK
  <2>4. UNCHANGED <<fate, flowOf, last, slot, len, query, qnum, rules, snap, todo, word, cur, mine,
                    wanted, crossed>>
    BY <1>4 DEF ListEnd, AddEnd, kernel, store, array, moving, history
  <2>5. TypeOK'
    BY Zenon, <2>1, <2>2, <2>3, <2>4 DEF TypeOK
  <2>6. MainInv' /\ ReachInv' /\ CommInv'
    BY <2>1, <2>2, <2>4 DEF MainInv, AtCur, ReachInv, Reach, CommInv, Busy, AtMine
  <2> QED BY <2>5, <2>6 DEF TypeInv
<1>5. CASE AddAccept
  <2>1. /\ pc[Comm] = "add" /\ pc'[Comm] = "addRule" /\ pc'[Main] = pc[Main]
        /\ pc' \in [Thread -> Places]
    BY <1>5, GotoIs DEF AddAccept, Agrees, Places
  <2>2. idx[Comm] \in Nat \ {0} /\ idx[Comm] <= len /\ mine' = slot[idx[Comm]] /\ want.num = mine'
    BY <1>5 DEF AddAccept, Agrees, TypeOK
  <2>3. mine' \in Num /\ mine' \in 0..MaxPackets
    BY <2>2, SlotAt
  <2>4. fate' \in [Packet -> {"none", "held", "accepted", "dropped"}]
    BY <1>5, VerdictType DEF AddAccept
  <2>5. wanted' \subseteq Flow
    <3>1. query[want.num].flow \in Flow
      BY <2>2, <2>3, QueryType
    <3>2. wanted' = wanted \cup {query[want.num].flow}
      BY <1>5 DEF AddAccept, Agrees
    <3> QED BY <3>1, <3>2 DEF TypeOK
  <2>6. UNCHANGED <<flowOf, last, slot, len, query, qnum, rules, idx, snap, todo, word, cur, want, crossed>>
    BY <1>5 DEF AddAccept, Agrees, store, array, moving
  <2>7. TypeOK'
    BY Zenon, <2>1, <2>3, <2>4, <2>5, <2>6 DEF TypeOK
  <2>8. MainInv' /\ ReachInv' /\ CommInv'
    BY <2>1, <2>2, <2>6 DEF MainInv, AtCur, ReachInv, Reach, CommInv, Busy, AtMine
  <2> QED BY <2>7, <2>8 DEF TypeInv
<1>6. CASE AddToRules
  <2>1. /\ pc[Comm] = "addRule" /\ pc'[Comm] = "shift" /\ pc'[Main] = pc[Main]
        /\ pc' \in [Thread -> Places]
    BY <1>6, GotoIs DEF AddToRules, Places
  <2>2. rules' \subseteq Flow /\ wanted' \subseteq Flow
    <3>1. idx[Comm] \in Nat \ {0} /\ idx[Comm] <= len /\ mine = slot[idx[Comm]]
      BY <2>1 DEF TypeOK, CommInv, AtMine
    <3>2. query[mine].flow \in Flow
      BY <3>1, SlotAt, QueryType
    <3>3. Allowed(mine, want.any) \subseteq Flow
      BY <3>2 DEF Allowed
    <3> QED BY <1>6, <3>3 DEF AddToRules, TypeOK
  <2>3. UNCHANGED <<fate, flowOf, last, slot, len, query, qnum, idx, snap, todo, word, cur, mine, want, crossed>>
    BY <1>6 DEF AddToRules, kernel, store, array, locals, moving
  <2>4. TypeOK'
    BY Zenon, <2>1, <2>2, <2>3 DEF TypeOK
  <2>5. MainInv' /\ ReachInv' /\ CommInv'
    BY <2>1, <2>3 DEF MainInv, AtCur, ReachInv, Reach, CommInv, Busy, AtMine
  <2> QED BY <2>4, <2>5 DEF TypeInv
<1> QED BY <1>1, <1>2, <1>3, <1>4, <1>5, <1>6, RemoveType DEF Answer

LEMMA CommandType == TypeInv /\ Command => TypeInv'
<1> SUFFICES ASSUME TypeInv, Command PROVE TypeInv'
  OBVIOUS
<1>0. TypeOK /\ MainInv /\ ReachInv /\ CommInv
  BY DEF TypeInv
<1>1. /\ pc[Comm] = "idle" /\ pc'[Comm] \in {"list", "add"} /\ pc'[Main] = pc[Main]
      /\ pc' \in [Thread -> Places]
  BY <1>0, GotoIs DEF Command, List, QueryAdd, Places
<1>2. want' \in [num : 0..MaxPackets, any : BOOLEAN]
  <2>1. CASE List
    BY Zenon, <1>0, <2>1 DEF List, locals, TypeOK
  <2>2. ASSUME NEW num \in Num, NEW any \in BOOLEAN, QueryAdd(num, any)
        PROVE  want' \in [num : 0..MaxPackets, any : BOOLEAN]
    <3>1. num \in 0..MaxPackets
      OBVIOUS
    <3> QED BY Zenon, <2>2, <3>1 DEF QueryAdd
  <2> QED BY <2>1, <2>2 DEF Command
<1>3. UNCHANGED <<fate, flowOf, last, slot, len, query, qnum, rules, idx, snap, todo, word, cur, mine,
                  wanted, crossed>>
  BY DEF Command, List, QueryAdd, kernel, store, array, locals, moving, history
<1>4. TypeOK'
  BY Zenon, <1>0, <1>1, <1>2, <1>3 DEF TypeOK
<1>5. MainInv' /\ ReachInv' /\ CommInv'
  BY <1>0, <1>1, <1>3 DEF MainInv, AtCur, ReachInv, Reach, CommInv, Busy, AtMine
<1> QED BY <1>4, <1>5 DEF TypeInv

LEMMA TypeInvStep == TypeInv /\ [Next]_vars => TypeInv'
<1> SUFFICES ASSUME TypeInv, [Next]_vars PROVE TypeInv'
  OBVIOUS
<1>0. TypeOK /\ MainInv /\ ReachInv /\ CommInv
  BY DEF TypeInv
<1>1. CASE Tick
  <2>1. query' \in [Num -> Query]
    BY <1>0, <1>1, TickType
  <2>2. UNCHANGED <<fate, flowOf, last, slot, len, qnum, rules, pc, idx, snap, todo, word, cur, mine, want,
                    wanted, crossed>>
    BY <1>1 DEF Tick, kernel, array, locals, moving, history
  <2>3. TypeOK'
    BY Zenon, <1>0, <2>1, <2>2 DEF TypeOK
  <2>4. MainInv' /\ ReachInv' /\ CommInv'
    BY <1>0, <2>2 DEF MainInv, AtCur, ReachInv, Reach, CommInv, Busy, AtMine
  <2> QED BY <2>3, <2>4 DEF TypeInv
<1>2. CASE RulesShrink \/ UNCHANGED vars
  <2>1. rules' \subseteq Flow
    BY <1>0, <1>2 DEF RulesShrink, vars, TypeOK
  <2>2. UNCHANGED <<fate, flowOf, last, slot, len, query, qnum, pc, idx, snap, todo, word, cur, mine, want,
                    wanted, crossed>>
    BY <1>2 DEF RulesShrink, vars, kernel, store, array, locals, moving, history
  <2>3. TypeOK'
    BY Zenon, <1>0, <2>1, <2>2 DEF TypeOK
  <2>4. MainInv' /\ ReachInv' /\ CommInv'
    BY <1>0, <2>2 DEF MainInv, AtCur, ReachInv, Reach, CommInv, Busy, AtMine
  <2> QED BY <2>3, <2>4 DEF TypeInv
<1> QED BY <1>1, <1>2, ReceiveType, AddType, CommandType, AnswerType DEF Next

\* Every variable keeps its type, however the two threads interleave: the
\* numbers of queries and packets stay within their bounds, what the length
\* covers within the array, and each loop index is one.
THEOREM TypeCorrect == Spec => []TypeOK
<1>1. TypeInv => TypeOK
  BY DEF TypeInv
<1> QED BY <1>1, TypeInvInit, TypeInvStep, PTL DEF Spec

-----------------------------------------------------------------------------
(* One query per connection.                                               *)

Elsewhere == Tick \/ RulesShrink \/ Command \/ Answer \/ UNCHANGED vars

\* The steps of others leave Main's place and locals alone.
LEMMA MainRests ==
  ASSUME TypeInv, Elsewhere
  PROVE  /\ pc'[Main] = pc[Main] /\ idx'[Main] = idx[Main] /\ snap'[Main] = snap[Main] /\ len' <= len
         /\ UNCHANGED <<flowOf, last, qnum, cur>>
<1>0. TypeOK /\ len \in Nat
  BY DEF TypeInv, TypeOK
<1>1. CASE ShrinkStore
  <2>1. snap[Comm] \in 1..len /\ len' = snap[Comm] - 1
    BY <1>1, ShrinkIs
  <2> QED BY <1>0, <1>1, <2>1, ShrinkIs
<1>2. CASE ShrinkLoad
  <2>1. len \in 0..MaxPackets
    BY <1>0 DEF TypeOK
  <2>2. snap'[Main] = snap[Main]
    BY <1>0, <1>2, <2>1, SnapIs DEF ShrinkLoad
  <2>3. pc'[Main] = pc[Main]
    BY <1>0, <1>2, GotoIs DEF ShrinkLoad, Places
  <2> QED BY <1>0, <1>2, <2>2, <2>3 DEF ShrinkLoad, kernel, store, array
<1>3. CASE Shift
  BY <1>0, <1>3, ShiftIs
<1>4. ASSUME NEW i \in Slots, LoadWord(i) \/ StoreWord(i)
      PROVE  /\ pc'[Main] = pc[Main] /\ idx'[Main] = idx[Main] /\ snap'[Main] = snap[Main] /\ len' <= len
             /\ UNCHANGED <<flowOf, last, qnum, cur>>
  BY <1>0, <1>4, LoadIs, StoreIs
<1>5. CASE ListExpired \/ ListKept \/ ListDrop \/ ListEnd \/ AddPass \/ AddAccept \/ AddToRules \/ AddEnd
  <2>1. pc'[Main] = pc[Main]
    BY <1>0, <1>5, GotoIs DEF ListExpired, ListKept, ListDrop, ListEnd, AddPass, AddAccept, Agrees,
       AddToRules, AddEnd, Places
  <2>2. idx'[Main] = idx[Main]
    BY <1>0, <1>5 DEF ListExpired, ListKept, ListDrop, ListEnd, AddPass, AddAccept, Agrees,
       AddToRules, AddEnd, LoopTo, locals, TypeOK
  <2>3. UNCHANGED <<flowOf, last, qnum, cur, snap, len>>
    BY <1>5 DEF ListExpired, ListKept, ListDrop, ListEnd, AddPass, AddAccept, Agrees,
       AddToRules, AddEnd, kernel, store, array, locals, moving
  <2> QED BY <1>0, <2>1, <2>2, <2>3
<1>6. CASE Tick \/ RulesShrink \/ Command \/ UNCHANGED vars
  <2>1. pc'[Main] = pc[Main]
    BY <1>0, <1>6, GotoIs DEF Tick, RulesShrink, Command, List, QueryAdd, vars, Places
  <2>2. UNCHANGED <<flowOf, last, qnum, cur, idx, snap, len>>
    BY <1>6 DEF Tick, RulesShrink, Command, List, QueryAdd, vars, kernel, store, array, locals, moving
  <2> QED BY <1>0, <2>1, <2>2
<1> QED BY <1>1, <1>2, <1>3, <1>4, <1>5, <1>6 DEF Elsewhere, Answer, RemoveIndex

LEMMA AddMoves ==
  ASSUME TypeInv, Add
  PROVE  /\ pc[Main] # "idle" /\ pc'[Comm] = pc[Comm]
         /\ UNCHANGED <<flowOf, last, rules, todo, word, mine, want, history>>
<1>0. TypeOK
  BY DEF TypeInv
<1>1. pc'[Comm] = pc[Comm]
  BY <1>0, GotoIs DEF Add, SearchPass, SearchHit, SearchEnd, Renew, MergeDrop, AppendQuery, GrowLoad,
     GrowStore, SetPacketId, Places
<1> QED BY <1>1 DEF Add, SearchPass, SearchHit, SearchEnd, Renew, MergeDrop, AppendQuery, GrowLoad,
          GrowStore, SetPacketId, kernel, store, array, locals, moving, history

\* No handler changes the connection of a query, and one its packetid.
LEMMA FlowsStay ==
  ASSUME TypeInv, [Next]_vars, ~AppendQuery
  PROVE  /\ \A n \in Num : query'[n].flow = query[n].flow
         /\ ~SetPacketId => \A n \in Num : query'[n].id = query[n].id
<1>0. TypeOK
  BY DEF TypeInv
<1>1. CASE Tick
  BY <1>0, <1>1, TickType
<1>2. CASE Renew \/ SetPacketId
  <2>1. cur \in Num /\ query \in [Num -> [flow : Flow, id : 0..MaxPackets, age : 0..(QueryTimeout + 1)]]
    BY <1>0, <1>2 DEF Renew, SetPacketId, TypeInv, MainInv, AtCur, TypeOK, Query
  <2>2. CASE Renew
    <3>1. query' = [query EXCEPT ![cur].age = 0]
      BY <2>2 DEF Renew
    <3> QED BY <2>1, <3>1
  <2>3. CASE SetPacketId
    <3>1. query' = [query EXCEPT ![cur].id = last]
      BY <2>3 DEF SetPacketId
    <3> QED BY <2>1, <2>3, <3>1
  <2> QED BY <1>2, <2>2, <2>3
<1>3. ASSUME ~Tick, ~Renew, ~SetPacketId PROVE query' = query
  <2>1. CASE RemoveIndex
    BY <2>1, ShiftIs, LoadIs, StoreIs, ShrinkIs DEF RemoveIndex, ShrinkLoad, store
  <2> QED
    BY <1>3, <2>1 DEF Next, RulesShrink, Receive, Add, SearchPass, SearchHit, SearchEnd, MergeDrop, GrowLoad,
       GrowStore, Command, List, QueryAdd, Answer, ListExpired, ListKept, ListDrop, ListEnd, AddPass,
       AddAccept, Agrees, AddToRules, AddEnd, vars, store
<1> QED BY <1>1, <1>2, <1>3

LEMMA Appends ==
  ASSUME TypeInv, AppendQuery
  PROVE  /\ qnum \in Num /\ qnum \notin Waiting /\ cur' = qnum /\ qnum' = qnum + 1
         /\ pc[Main] = "append" /\ pc'[Main] = "grow"
         /\ Reach = len /\ Reach' = len + 1 /\ len \in Nat /\ len + 1 \in Slots
         /\ slot'[len + 1] = qnum /\ \A k \in 1..len : slot'[k] = slot[k]
         /\ query'[qnum].flow = Asked /\ query'[qnum].id \in JunkId
         /\ \A n \in Num : n # qnum => query'[n] = query[n]
         /\ UNCHANGED <<fate, last, flowOf, len, word, todo>>
<1>1. /\ last \in 0..MaxPackets /\ qnum \in 1..(MaxPackets + 1) /\ len \in 0..MaxPackets
      /\ query \in [Num -> Query] /\ slot \in [Slots -> 0..MaxPackets]
  BY DEF TypeInv, TypeOK
<1>2. pc[Main] = "append" /\ pc'[Main] = "grow" /\ UNCHANGED <<fate, last, flowOf, len, word, todo>>
  BY GotoIs DEF AppendQuery, TypeInv, Places, kernel, moving
<1>3. Reach = len /\ Reach' = len + 1
  BY <1>2 DEF Reach
<1>4. qnum <= last /\ len < qnum
  BY <1>2, <1>3 DEF TypeInv, MainInv, ReachInv
<1>5. qnum \in Num /\ len + 1 \in Slots
  BY <1>1, <1>4
<1>6. cur' = qnum /\ qnum' = qnum + 1 /\ slot' = [slot EXCEPT ![len + 1] = qnum]
  BY DEF AppendQuery
<1>7. slot'[len + 1] = qnum /\ \A k \in 1..len : slot'[k] = slot[k]
  BY <1>1, <1>5, <1>6
<1>8. /\ query'[qnum].flow = Asked /\ query'[qnum].id \in JunkId
      /\ \A n \in Num : n # qnum => query'[n] = query[n]
  BY <1>1, <1>5 DEF AppendQuery
<1>9. qnum \notin Waiting
  <2>1. \A k \in 1..Reach : slot[k] # qnum
    BY <1>1, <1>3 DEF TypeInv, ReachInv
  <2>2. \A i \in Slots : word[i] # qnum
    BY <1>1 DEF TypeInv, ReachInv
  <2> QED BY <2>1, <2>2 DEF Waiting
<1> QED BY <1>1, <1>2, <1>3, <1>5, <1>6, <1>7, <1>8, <1>9

\* Only an append and a removal change the array.
LEMMA QuietStep ==
  ASSUME TypeInv, [Next]_vars, ~AppendQuery, ~RemoveIndex
  PROVE  Reach' = Reach /\ UNCHANGED <<slot, word, todo>>
<1>0. TypeOK
  BY DEF TypeInv
<1>1. CASE GrowLoad \/ GrowStore
  <2>1. UNCHANGED <<slot, word, todo>>
    BY <1>1 DEF GrowLoad, GrowStore, store, array
  <2>2. Reach' = Reach
    BY <1>0, <1>1 DEF GrowLoad, GrowStore, Goto, Reach, TypeOK, store, array
  <2> QED BY <2>1, <2>2
<1>2. ASSUME ~GrowLoad, ~GrowStore PROVE Reach' = Reach /\ UNCHANGED <<slot, word, todo>>
  <2>1. UNCHANGED <<slot, word, todo, len, snap>>
    BY <1>2 DEF Next, Tick, RulesShrink, Receive, Add, SearchPass, SearchHit, SearchEnd, Renew, MergeDrop,
       SetPacketId, Command, List, QueryAdd, Answer, ListExpired, ListKept, ListDrop, ListEnd, AddPass,
       AddAccept, Agrees, AddToRules, AddEnd, vars, store, array, locals, moving
  <2>2. Reach' = Reach
    <3>1. CASE Elsewhere
      BY <2>1, <3>1, MainRests DEF Reach
    <3>2. CASE \E f \in Flow : Receive(f)
      BY <1>0, <2>1, <3>2 DEF Receive, Goto, Reach, TypeOK
    <3>3. CASE Add
      BY <1>0, <1>2, <2>1, <3>3 DEF Add, SearchPass, SearchHit, SearchEnd, Renew, MergeDrop,
         SetPacketId, Goto, Reach, TypeOK
    <3> QED BY <3>1, <3>2, <3>3 DEF Next, Elsewhere
  <2> QED BY <2>1, <2>2
<1> QED BY <1>1, <1>2

\* Only an append brings a query into the array.
LEMMA WaitingStep ==
  ASSUME TypeInv, [Next]_vars
  PROVE  Waiting' \subseteq Waiting \cup {n \in {qnum} : AppendQuery}
<1>0. TypeOK /\ Reach \in Nat /\ Reach' \in Nat /\ len \in Nat /\ len <= Reach
  <2>1. TypeOK /\ ReachInv /\ TypeOK'
    BY TypeInvStep DEF TypeInv
  <2>2. len' \in Nat /\ snap'[Main] \in Nat /\ len \in Nat
    BY <2>1 DEF TypeOK
  <2>3. Reach' \in Nat
    BY <2>2 DEF Reach
  <2> QED BY <2>1, <2>2, <2>3, ReachType DEF ReachInv
<1>1. CASE AppendQuery
  <2>1. ASSUME NEW n \in Waiting', n # qnum PROVE n \in Waiting
    <3>1. CASE \E i \in Slots : word'[i] = n
      BY <1>1, <3>1, Appends DEF Waiting
    <3>2. CASE \E k \in 1..Reach' : slot'[k] = n
      <4>1. PICK k \in 1..(len + 1) : slot'[k] = n
        BY <1>1, <3>2, Appends
      <4>2. k \in 1..len /\ slot[k] = n /\ Reach = len
        BY <1>1, <2>1, <4>1, Appends
      <4> QED BY <4>2 DEF Waiting
    <3> QED BY <2>1, <3>1, <3>2 DEF Waiting
  <2> QED BY <1>1, <2>1
<1>2. ASSUME UNCHANGED <<slot, word>>, Reach' <= Reach PROVE Waiting' \subseteq Waiting
  BY <1>0, <1>2 DEF Waiting
<1>3. CASE RemoveIndex
  <2>1. CASE Shift \/ ShrinkLoad
    <3>1. Reach' = Reach /\ UNCHANGED <<slot, word>>
      <4>1. pc'[Main] = pc[Main] /\ snap'[Main] = snap[Main]
        BY <1>3, MainRests DEF Elsewhere, Answer
      <4>2. UNCHANGED <<slot, word, len>>
        BY <2>1 DEF Shift, ShrinkLoad, store, array
      <4> QED BY <4>1, <4>2 DEF Reach
    <3> QED BY <1>0, <1>2, <3>1
  <2>2. ASSUME NEW i \in Slots, LoadWord(i) PROVE Waiting' \subseteq Waiting
    <3>1. Reach' = Reach /\ slot' = slot
      BY <2>2, LoadIs DEF Reach
    <3>2. i + 1 \in 1..Reach
      BY <1>0, <2>2, LoadIs
    <3>3. word'[i] = slot[i + 1] /\ \A k \in Slots : k # i => word'[k] = word[k]
      BY <2>2, LoadIs
    <3> QED BY <3>1, <3>2, <3>3 DEF Waiting
  <2>3. ASSUME NEW i \in Slots, StoreWord(i) PROVE Waiting' \subseteq Waiting
    <3>1. Reach' = Reach
      BY <2>3, StoreIs DEF Reach
    <3>2. /\ word'[i] = 0 /\ \A k \in Slots : k # i => word'[k] = word[k]
          /\ slot'[i] = word[i] /\ \A k \in Slots : k # i => slot'[k] = slot[k]
      BY <2>3, StoreIs
    <3>3. Reach <= MaxPackets
      BY <1>0 DEF TypeInv, TypeOK, ReachInv
    <3> QED BY <1>0, <3>1, <3>2, <3>3 DEF Waiting
  <2>4. CASE ShrinkStore
    <3>1. UNCHANGED <<slot, word>> /\ pc'[Main] = pc[Main] /\ snap'[Main] = snap[Main]
      BY <2>4, ShrinkIs
    <3>2. len' <= len
      BY <1>3, MainRests DEF Elsewhere, Answer
    <3>3. Reach' <= Reach
      <4>1. len' \in Nat /\ snap[Main] \in Nat
        BY <1>0, <2>4, ShrinkIs DEF TypeOK
      <4> QED BY <1>0, <3>1, <3>2, <4>1 DEF Reach
    <3> QED BY <1>2, <3>1, <3>3
  <2> QED BY <1>3, <2>1, <2>2, <2>3, <2>4 DEF RemoveIndex
<1>4. CASE ~AppendQuery /\ ~RemoveIndex
  BY <1>0, <1>2, <1>4, QuietStep
<1> QED BY <1>1, <1>3, <1>4

LEMMA FlowInvInit == Init => FlowInv
<1> SUFFICES ASSUME Init PROVE FlowInv
  OBVIOUS
<1>1. CurrentIsAsked /\ Searched
  BY DEF Init, CurrentIsAsked, Searched, AtCur
<1>2. Waiting = {}
  BY DEF Init, Waiting, Reach
<1> QED BY <1>1, <1>2 DEF FlowInv, OneFlow

LEMMA CurrentStep ==
  ASSUME TypeInv, CurrentIsAsked, [Next]_vars
  PROVE  CurrentIsAsked'
<1>0. TypeOK /\ MainInv
  BY DEF TypeInv
<1>a. pc[Main] \in AtCur => cur \in Num
  BY <1>0 DEF MainInv, TypeOK
<1>1. CASE Elsewhere
  <2>1. /\ pc'[Main] = pc[Main] /\ UNCHANGED <<flowOf, last, cur>>
        /\ \A n \in Num : query'[n].flow = query[n].flow
    <3>1. ~AppendQuery
      BY <1>1, MainRests, Appends
    <3> QED BY <1>1, <3>1, MainRests, FlowsStay DEF Elsewhere, Next
  <2> QED BY <1>a, <2>1 DEF CurrentIsAsked, Asked
<1>2. CASE \E f \in Flow : Receive(f)
  <2>1. pc'[Main] \in {"idle", "ask"}
    BY <1>0, <1>2 DEF Receive, Goto, TypeOK
  <2> QED BY <2>1 DEF CurrentIsAsked, AtCur
<1>3. CASE AppendQuery
  BY <1>3, Appends DEF CurrentIsAsked, Asked
<1>4. CASE SearchHit
  <2>1. /\ cur' = slot[idx[Main]] /\ query[slot[idx[Main]]].flow = Asked
        /\ UNCHANGED <<query, flowOf, last>>
    BY <1>4 DEF SearchHit, SameFlow, kernel, store
  <2> QED BY <2>1 DEF CurrentIsAsked, Asked
<1>5. CASE SearchPass \/ SearchEnd \/ SetPacketId
  <2>1. pc'[Main] \notin AtCur
    BY <1>0, <1>5 DEF SearchPass, SearchEnd, SetPacketId, Goto, TypeOK, AtCur
  <2> QED BY <2>1 DEF CurrentIsAsked
<1>6. CASE Renew \/ MergeDrop \/ GrowLoad \/ GrowStore
  <2>1. pc[Main] \in AtCur /\ UNCHANGED <<cur, flowOf, last>>
    BY <1>6 DEF Renew, MergeDrop, GrowLoad, GrowStore, AtCur, kernel, locals
  <2>2. ~AppendQuery
    BY <2>1, Appends DEF AtCur
  <2> QED BY <1>a, <2>1, <2>2, FlowsStay DEF CurrentIsAsked, Asked
<1> QED BY <1>1, <1>2, <1>3, <1>4, <1>5, <1>6 DEF Next, Add, Elsewhere

LEMMA OneFlowStep ==
  ASSUME TypeInv, OneFlow, Searched, [Next]_vars
  PROVE  OneFlow'
<1>1. CASE AppendQuery
  <2>1. \A n \in Waiting : query[n].flow # Asked
    BY <1>1, Appends DEF Searched
  <2>2. \A n \in Waiting' : n # qnum => n \in Waiting
    BY <1>1, WaitingStep
  <2>3. \A n \in Waiting : n \in Num /\ n # qnum
    BY <1>1, Appends DEF Waiting
  <2>4. query'[qnum].flow = Asked /\ \A n \in Num : n # qnum => query'[n] = query[n]
    BY <1>1, Appends
  <2> QED BY <2>1, <2>2, <2>3, <2>4 DEF OneFlow
<1>2. CASE ~AppendQuery
  <2>1. Waiting' \subseteq Waiting
    BY <1>2, WaitingStep
  <2>2. \A n \in Waiting : n \in Num
    BY DEF Waiting
  <2> QED BY <1>2, <2>1, <2>2, FlowsStay DEF OneFlow
<1> QED BY <1>1, <1>2

LEMMA SearchedStep ==
  ASSUME TypeInv, ~crossed', Searched, [Next]_vars
  PROVE  Searched'
<1>0. TypeOK /\ MainInv /\ len \in Nat /\ idx[Main] \in Nat \ {0} /\ idx[Comm] \in Nat \ {0}
  BY DEF TypeInv, TypeOK
<1>1. CASE \E f \in Flow : Receive(f)
  <2>1. /\ pc[Main] = "idle" /\ pc'[Main] \in {"idle", "ask"} /\ idx'[Main] = 1
        /\ pc'[Main] = "ask" => ~Copying /\ UNCHANGED <<todo, word>>
    BY <1>0, <1>1 DEF Receive, Goto, TypeOK, MainInv, locals, moving
  <2> QED BY <2>1 DEF Searched, Copying
<1>2. CASE SearchPass
  <2>1. /\ pc[Main] = "ask" /\ pc'[Main] = "ask" /\ ~SameFlow(idx[Main]) /\ idx'[Main] = idx[Main] + 1
        /\ UNCHANGED <<slot, len, query, todo, word, flowOf, last>>
    BY <1>0, <1>2, LoopToIs DEF SearchPass, kernel, store, array, moving
  <2>2. \A j \in 1..idx[Main] : j <= len => query[slot[j]].flow # Asked
    BY <1>0, <2>1 DEF Searched, SameFlow
  <2> QED BY <1>0, <2>1, <2>2 DEF Searched, Copying, SameFlow, Asked
<1>3. CASE SearchEnd
  <2>1. /\ pc[Main] = "ask" /\ pc'[Main] = "append" /\ idx[Main] > len
        /\ UNCHANGED <<slot, len, query, todo, word, flowOf, last>>
    BY <1>0, <1>3, GotoIs DEF SearchEnd, Places, kernel, store, array, moving
  <2>2. \A j \in 1..len : query[slot[j]].flow # Asked
    BY <1>0, <2>1 DEF Searched, SameFlow
  <2>3. \A i \in Slots : word[i] = 0
    BY <2>1 DEF Searched, Copying
  <2>4. \A n \in Waiting : query[n].flow # Asked
    BY <2>1, <2>2, <2>3 DEF Waiting, Reach
  <2>5. Waiting' = Waiting
    BY <2>1 DEF Waiting, Reach
  <2> QED BY <2>1, <2>4, <2>5 DEF Searched, Asked
<1>4. CASE SearchHit \/ Renew \/ MergeDrop \/ AppendQuery \/ GrowLoad \/ GrowStore \/ SetPacketId
  <2>1. pc'[Main] \notin {"ask", "append"}
    BY <1>0, <1>4 DEF SearchHit, Renew, MergeDrop, AppendQuery, GrowLoad, GrowStore, SetPacketId, Goto, TypeOK
  <2> QED BY <2>1 DEF Searched
<1>5. CASE Elsewhere
  <2>1. /\ pc'[Main] = pc[Main] /\ idx'[Main] = idx[Main] /\ len' <= len /\ UNCHANGED <<flowOf, last>>
    BY <1>5, MainRests
  <2>2. ~AppendQuery /\ [Next]_vars
    BY <1>5, <2>1, Appends DEF Elsewhere, Next
  <2>3. \A n \in Num : query'[n].flow = query[n].flow
    BY <2>2, FlowsStay
  <2>4. CASE pc[Main] = "append"
    <3>1. Waiting' \subseteq Waiting /\ \A n \in Waiting : n \in Num
      BY <2>2, WaitingStep DEF Waiting
    <3> QED BY <2>1, <2>3, <2>4, <3>1 DEF Searched, Asked
  <2>5. CASE pc[Main] = "ask"
    <3>1. ~Copying /\ todo = {} /\ \A i \in Slots : word[i] = 0
      BY <2>5 DEF Searched, Copying
    <3>2. UNCHANGED <<slot, word>> /\ todo' = {}
      <4>1. CASE Shift
        <5>1. ~(idx[Comm] < len)
          BY <2>5, <4>1 DEF Shift
        <5> QED BY <1>0, <4>1, <5>1, ShiftIs
      <4>2. ASSUME NEW i \in Slots, LoadWord(i) \/ StoreWord(i) PROVE FALSE
        BY <3>1, <4>2 DEF LoadWord, StoreWord
      <4>3. CASE ShrinkLoad \/ ShrinkStore
        BY <3>1, <4>3 DEF ShrinkLoad, ShrinkStore, store, array
      <4>4. CASE ~RemoveIndex
        BY <1>5, <3>1, <4>4 DEF Elsewhere, Tick, RulesShrink, Command, List, QueryAdd, Answer, ListExpired,
           ListKept, ListDrop, ListEnd, AddPass, AddAccept, Agrees, AddToRules, AddEnd, vars, store, array,
           locals, moving
      <4> QED BY <4>1, <4>2, <4>3, <4>4 DEF RemoveIndex
    <3>3. ~Copying'
      BY <3>1, <3>2 DEF Copying
    <3>4. ASSUME NEW j \in 1..(idx[Main] - 1), j <= len' PROVE query'[slot'[j]].flow # Asked'
      <4>1. len' \in Nat
        <5>1. TypeOK'
          BY TypeInvStep DEF TypeInv
        <5> QED BY <5>1 DEF TypeOK
      <4>2. j <= len /\ j \in Nat \ {0}
        BY <1>0, <2>1, <3>4, <4>1
      <4>3. slot[j] \in Num /\ query[slot[j]].flow # Asked
        BY <2>5, <3>4, <4>2, SlotAt DEF Searched, SameFlow
      <4> QED BY <2>1, <2>3, <3>2, <4>3 DEF Asked
    <3> QED BY <2>1, <2>5, <3>3, <3>4 DEF Searched, SameFlow
  <2> QED BY <2>1, <2>4, <2>5 DEF Searched
<1> QED BY <1>1, <1>2, <1>3, <1>4, <1>5 DEF Next, Add, Elsewhere

LEMMA FlowInvStep == TypeInv /\ FlowInv /\ [Next]_vars => FlowInv'
<1> SUFFICES ASSUME TypeInv, FlowInv, [Next]_vars PROVE FlowInv'
  OBVIOUS
<1>1. CurrentIsAsked'
  BY CurrentStep DEF FlowInv
<1>2. ~crossed' => ~crossed
  BY DEF Next, Tick, RulesShrink, Receive, Add, SearchPass, SearchHit, SearchEnd, Renew, MergeDrop,
     AppendQuery, GrowLoad, GrowStore, SetPacketId, Command, List, QueryAdd, Answer, ListExpired,
     ListKept, ListDrop, ListEnd, AddPass, AddAccept, Agrees, AddToRules, AddEnd, RemoveIndex, Shift,
     LoadWord, StoreWord, ShrinkLoad, ShrinkStore, vars, history
<1>3. ASSUME ~crossed' PROVE OneFlow' /\ Searched'
  BY <1>2, <1>3, OneFlowStep, SearchedStep DEF FlowInv
<1> QED BY <1>1, <1>3 DEF FlowInv

LEMMA FlowInvariant == Spec => [](TypeInv /\ FlowInv)
BY TypeInvInit, TypeInvStep, FlowInvInit, FlowInvStep, PTL DEF Spec

\* A connection waits in one query, however LIST and ADD remove others while one
\* is appended, as long as no memmove has been at work during a search: the only
\* place that adds a query searches first, whatever length a racing removal and
\* the append leave covers queries that were in the array before, and no handler
\* changes the connection of a query.
THEOREM OneQuery == Spec => []OneQueryPerFlow
<1>1. TypeInv /\ FlowInv => OneQueryPerFlow
  <2> SUFFICES ASSUME TypeInv, FlowInv, ~crossed, NEW i \in 1..len, NEW j \in 1..len,
                      query[slot[i]].flow = query[slot[j]].flow
               PROVE  slot[i] = slot[j]
    BY DEF OneQueryPerFlow
  <2>1. Reach \in Nat /\ len \in Nat /\ len <= Reach
    <3>1. TypeOK /\ ReachInv
      BY DEF TypeInv
    <3>2. len \in Nat
      BY <3>1 DEF TypeOK
    <3> QED BY <3>1, <3>2, ReachType DEF ReachInv
  <2>2. slot[i] \in Num /\ slot[j] \in Num
    BY <2>1, SlotAt
  <2>3. slot[i] \in Waiting /\ slot[j] \in Waiting
    BY <2>1, <2>2 DEF Waiting
  <2> QED BY <2>3 DEF FlowInv, OneFlow
<1> QED BY <1>1, FlowInvariant, PTL

-----------------------------------------------------------------------------
(* What an answer accepts.                                                 *)

\* Only three steps decide a packet in the kernel's queue.
LEMMA FateStays ==
  ASSUME TypeInv, [Next]_vars, ~(\E f \in Flow : Receive(f)), ~MergeDrop, ~ListDrop, ~AddAccept
  PROVE  fate' = fate
BY DEF Next, Tick, RulesShrink, Add, SearchPass, SearchHit, SearchEnd, Renew, AppendQuery, GrowLoad,
   GrowStore, SetPacketId, Command, List, QueryAdd, Answer, ListExpired, ListKept, ListEnd, AddPass,
   AddToRules, AddEnd, RemoveIndex, Shift, LoadWord, StoreWord, ShrinkLoad, ShrinkStore, vars, kernel

LEMMA KernelStays ==
  ASSUME TypeInv, [Next]_vars, ~(\E f \in Flow : Receive(f))
  PROVE  UNCHANGED <<flowOf, last>> /\ (~AppendQuery => qnum' = qnum)
<1>1. CASE Add
  <2>1. UNCHANGED <<flowOf, last>>
    BY <1>1, AddMoves
  <2>2. ~AppendQuery => qnum' = qnum
    BY <1>1 DEF Add, SearchPass, SearchHit, SearchEnd, Renew, MergeDrop, GrowLoad, GrowStore, SetPacketId, store
  <2> QED BY <2>1, <2>2
<1>2. CASE Elsewhere
  BY <1>2, MainRests
<1> QED BY <1>1, <1>2 DEF Next, Elsewhere

LEMMA RulesStay ==
  ASSUME [Next]_vars, ~AddAccept, ~AddToRules
  PROVE  rules' \subseteq rules /\ wanted' = wanted
BY DEF Next, Tick, RulesShrink, Receive, Add, SearchPass, SearchHit, SearchEnd, Renew, MergeDrop, AppendQuery,
   GrowLoad, GrowStore, SetPacketId, Command, List, QueryAdd, Answer, ListExpired, ListKept, ListDrop,
   ListEnd, AddPass, AddEnd, RemoveIndex, Shift, LoadWord, StoreWord, ShrinkLoad, ShrinkStore, vars, history

LEMMA ReceiveIs ==
  ASSUME TypeInv, NEW f \in Flow, Receive(f)
  PROVE  /\ last \in Nat /\ last' = last + 1 /\ last' \in Packet
         /\ flowOf'[last'] = f /\ \A p \in Packet : p # last' => flowOf'[p] = flowOf[p] /\ fate'[p] = fate[p]
         /\ f \in rules => fate'[last'] = "accepted" /\ pc'[Main] = "idle"
         /\ f \notin rules => fate'[last'] = "held" /\ pc'[Main] = "ask"
         /\ pc[Main] = "idle" /\ pc'[Comm] = pc[Comm]
         /\ UNCHANGED <<slot, len, query, qnum, rules, todo, word, cur, mine, want, wanted>>
<1>1. /\ last \in Nat /\ flowOf \in [Packet -> Flow] /\ pc \in [Thread -> Places]
      /\ fate \in [Packet -> {"none", "held", "accepted", "dropped"}]
  BY DEF TypeInv, TypeOK
<1>2. last' = last + 1 /\ last' \in Packet /\ pc[Main] = "idle"
  BY <1>1 DEF Receive
<1>3. flowOf'[last'] = f /\ \A p \in Packet : p # last' => flowOf'[p] = flowOf[p]
  BY <1>1, <1>2 DEF Receive
<1>4. \A p \in Packet : p # last' => fate'[p] = fate[p]
  BY <1>1, <1>2 DEF Receive
<1>5. /\ f \in rules => fate'[last'] = "accepted" /\ pc'[Main] = "idle"
      /\ f \notin rules => fate'[last'] = "held" /\ pc'[Main] = "ask"
      /\ pc'[Comm] = pc[Comm]
  BY <1>1, <1>2 DEF Receive, Goto
<1> QED BY <1>1, <1>2, <1>3, <1>4, <1>5 DEF Receive, store, array, locals, moving

LEMMA AcceptInvStep ==
  ASSUME JunkId \subseteq {0}, TypeInv, CurrentIsAsked, AcceptInv, [Next]_vars
  PROVE  AcceptInv'
<1>0. /\ qnum \in 1..(MaxPackets + 1) /\ last \in 0..MaxPackets /\ idx[Comm] \in Nat \ {0}
      /\ fate \in [Packet -> {"none", "held", "accepted", "dropped"}]
  BY DEF TypeInv, TypeOK
<1>1. ASSUME NEW f \in Flow, Receive(f) PROVE AcceptInv'
  <2>1. IdsAreOwn'
    BY SMTT(40), <1>0, <1>1, ReceiveIs DEF AcceptInv, IdsAreOwn
  <2>2. AcceptedWasWanted'
    <3>1. ASSUME NEW p \in Packet, fate'[p] = "accepted" PROVE flowOf'[p] \in wanted
      <4>1. CASE p = last'
        BY <1>1, <3>1, <4>1, ReceiveIs DEF AcceptInv
      <4>2. CASE p # last'
        BY <1>1, <3>1, <4>2, ReceiveIs DEF AcceptInv, AcceptedWasWanted
      <4> QED BY <4>1, <4>2
    <3> QED BY <1>1, <3>1, ReceiveIs DEF AcceptedWasWanted
  <2> QED BY <1>1, <2>1, <2>2, ReceiveIs DEF AcceptInv
<1>2. ASSUME ~\E f \in Flow : Receive(f) PROVE AcceptInv'
  <2>0. UNCHANGED <<flowOf, last>>
    BY <1>2, KernelStays
  <2>1. IdsAreOwn'
    <3>1. CASE AppendQuery
      <4>1. qnum' = qnum + 1 /\ query'[qnum].id = 0 /\ \A n \in Num : n # qnum => query'[n] = query[n]
        BY <3>1, Appends
      <4>2. \A n \in 1..(qnum' - 1) : n = qnum \/ (n \in 1..(qnum - 1) /\ n \in Num)
        BY <1>0, <4>1
      <4> QED BY <2>0, <4>1, <4>2 DEF AcceptInv, IdsAreOwn
    <3>2. CASE SetPacketId
      <4>1. /\ query' = [query EXCEPT ![cur].id = last] /\ pc[Main] = "setId"
            /\ query \in [Num -> [flow : Flow, id : 0..MaxPackets, age : 0..(QueryTimeout + 1)]]
        BY <3>2 DEF SetPacketId, TypeInv, TypeOK, Query
      <4>2. cur \in Num /\ last >= 1
        BY <1>0, <4>1 DEF TypeInv, MainInv, AtCur
      <4>3. query'[cur].id = last /\ query'[cur].flow = flowOf[last]
        BY <4>1, <4>2 DEF CurrentIsAsked, AtCur, Asked
      <4>4. \A n \in Num : n # cur => query'[n] = query[n]
        BY <4>1, <4>2
      <4>5. qnum' = qnum
        BY <3>2 DEF SetPacketId
      <4>6. \A n \in 1..(qnum - 1) : n \in Num
        BY <1>0
      <4> QED BY <1>0, <2>0, <4>2, <4>3, <4>4, <4>5, <4>6 DEF AcceptInv, IdsAreOwn
    <3>3. CASE ~AppendQuery /\ ~SetPacketId
      <4>1. qnum' = qnum /\ \A n \in Num : query'[n].id = query[n].id /\ query'[n].flow = query[n].flow
        BY <1>2, <3>3, KernelStays, FlowsStay
      <4>2. \A n \in 1..(qnum - 1) : n \in Num
        BY <1>0
      <4> QED BY <2>0, <4>1, <4>2 DEF AcceptInv, IdsAreOwn
    <3> QED BY <3>1, <3>2, <3>3
  <2>2. (rules \subseteq wanted /\ AcceptedWasWanted)'
    <3>1. CASE AddAccept
      <4>1. /\ pc[Comm] = "add" /\ idx[Comm] <= len /\ slot[idx[Comm]] = want.num /\ rules' = rules
            /\ wanted' = wanted \cup {query[want.num].flow} /\ SetVerdict(query[want.num].id, "accepted")
        BY <3>1 DEF AddAccept, Agrees
      <4>2. want.num \in 1..(qnum - 1)
        BY <1>0, <4>1, SlotAt
      <4>3. ASSUME NEW p \in Packet, fate'[p] = "accepted" PROVE flowOf[p] \in wanted'
        <5>1. CASE fate[p] = "accepted"
          BY <4>1, <5>1 DEF AcceptInv, AcceptedWasWanted
        <5>2. CASE fate[p] # "accepted"
          <6>1. p = query[want.num].id
            BY <1>0, <4>1, <4>3, <5>2 DEF SetVerdict
          <6> QED BY <4>1, <4>2, <6>1 DEF AcceptInv, IdsAreOwn
        <5> QED BY <5>1, <5>2
      <4> QED BY <2>0, <4>1, <4>3 DEF AcceptInv, AcceptedWasWanted
    <3>2. CASE AddToRules
      BY <2>0, <3>2 DEF AddToRules, AcceptInv, AcceptedWasWanted, kernel
    <3>3. CASE ~AddAccept /\ ~AddToRules
      <4>1. rules' \subseteq rules /\ wanted' = wanted
        BY <3>3, RulesStay
      <4>2. ASSUME NEW p \in Packet, fate'[p] = "accepted" PROVE fate[p] = "accepted"
        <5>1. CASE MergeDrop \/ ListDrop
          BY <1>0, <4>2, <5>1 DEF MergeDrop, ListDrop, SetVerdict
        <5>2. CASE ~MergeDrop /\ ~ListDrop
          BY <1>2, <3>3, <4>2, <5>2, FateStays
        <5> QED BY <5>1, <5>2
      <4> QED BY <2>0, <4>1, <4>2 DEF AcceptInv, AcceptedWasWanted
    <3> QED BY <3>1, <3>2, <3>3
  <2> QED BY <2>1, <2>2 DEF AcceptInv
<1> QED BY <1>1, <1>2

\* However the threads interleave, a packet gets through only if the user
\* allowed its connection, by an answer or by the rule an answer made, provided
\* that a new query's memory holds no packet's number: a query found by its
\* number holds no packet yet or one of its own connection.
THEOREM AcceptedPackets == JunkId \subseteq {0} => (Spec => []AcceptedWasWanted)
<1> SUFFICES ASSUME JunkId \subseteq {0} PROVE Spec => []AcceptedWasWanted
  OBVIOUS
<1>1. Init => AcceptInv
  BY QueryAssumption DEF Init, AcceptInv, IdsAreOwn, AcceptedWasWanted
<1>2. TypeInv /\ FlowInv /\ AcceptInv /\ [Next]_vars => AcceptInv'
  BY AcceptInvStep DEF FlowInv
<1>3. AcceptInv => AcceptedWasWanted
  BY DEF AcceptInv
<1> QED BY <1>1, <1>2, <1>3, FlowInvariant, PTL DEF Spec

-----------------------------------------------------------------------------
(* The array while one handler runs at a time.                             *)

BaseInv == TypeInv /\ FlowInv /\ Alone /\ ArrayInv

LEMMA BaseTypes ==
  ASSUME BaseInv
  PROVE  /\ TypeInv /\ TypeOK /\ MainInv /\ ReachInv /\ CommInv
         /\ Reach \in Nat /\ len \in Nat /\ Top \in Int /\ Top <= Reach /\ Reach <= MaxPackets
         /\ last \in 0..MaxPackets /\ qnum \in 1..(MaxPackets + 1) /\ idx[Comm] \in Nat \ {0}
         /\ OneFlow /\ CurrentIsAsked /\ Searched
<1>1. TypeInv /\ TypeOK /\ MainInv /\ ReachInv /\ CommInv /\ OneFlow /\ CurrentIsAsked /\ Searched
  BY DEF BaseInv, TypeInv, FlowInv, ArrayInv
<1>2. /\ len \in Nat /\ Reach \in Nat /\ qnum \in 1..(MaxPackets + 1) /\ last \in 0..MaxPackets
      /\ idx[Comm] \in Nat \ {0}
  BY SMTT(40), <1>1, ReachType DEF TypeOK
<1>3. len <= Reach /\ Reach < qnum
  BY <1>1 DEF ReachInv
<1> QED BY <1>1, <1>2, <1>3 DEF Top

\* Outside a removal, the array is what it seems.
LEMMA Still ==
  ASSUME BaseInv, pc[Comm] \notin {"move", "store"}
  PROVE  /\ todo = {} /\ \A i \in Slots : word[i] = 0
         /\ Top = Reach /\ \A k \in Slots : At(k) = slot[k]
<1>1. todo = {} /\ \A i \in Slots : word[i] = 0
  BY SMTT(40), BaseTypes DEF CommInv, Busy, TypeOK
<1> QED BY <1>1 DEF Top, At

LEMMA AtWaits ==
  ASSUME BaseInv, NEW k \in 1..Top
  PROVE  k \in Slots /\ At(k) \in Waiting /\ At(k) \in Num
<1>0. word \in [Slots -> 0..MaxPackets]
  BY DEF BaseInv, TypeInv, TypeOK
<1>1. k \in Slots /\ k \in 1..Reach
  BY BaseTypes
<1>2. \A j \in 1..Reach : slot[j] \in Num /\ slot[j] \in Waiting
  BY BaseTypes DEF ReachInv, Waiting
<1>3. CASE k \in todo
  <2>1. k + 1 \in 1..Reach
    BY <1>1, <1>3, BaseTypes DEF CommInv, Busy, ReachInv
  <2> QED BY <1>1, <1>2, <1>3, <2>1 DEF At
<1>4. CASE k \notin todo
  BY <1>0, <1>1, <1>2, <1>4 DEF At, Waiting
<1> QED BY <1>1, <1>3, <1>4

LEMMA QueuedWaits == BaseInv => Queued \subseteq Waiting
BY AtWaits DEF Queued

\* A step that leaves the array as LIST and ADD would find it.
LEMMA SameArray ==
  ASSUME BaseInv, Top' = Top, \A k \in 1..Top : At(k)' = At(k)
  PROVE  Queued' = Queued /\ Distinct'
<1>1. Distinct
  BY DEF BaseInv, ArrayInv
<1> QED BY <1>1 DEF Queued, Distinct

LEMMA AppendedArray ==
  ASSUME BaseInv, AppendQuery
  PROVE  Queued' = Queued \cup {qnum} /\ qnum \notin Queued /\ Distinct'
<1>1. pc[Comm] = "idle" /\ pc'[Comm] = "idle"
  BY Appends, AddMoves DEF BaseInv, Alone, Add
<1>2. /\ todo = {} /\ \A i \in Slots : word[i] = 0
      /\ Top = len /\ \A k \in Slots : At(k) = slot[k]
  BY <1>1, Still, Appends DEF BaseInv
<1>3. Top' = len + 1
  BY <1>1, Appends DEF BaseInv, Top
<1>4. \A k \in Slots : At(k)' = slot'[k]
  BY <1>2, Appends DEF BaseInv, At
<1>5. qnum \notin Queued
  BY Appends, QueuedWaits DEF BaseInv
<1>6. /\ qnum \in Num /\ len \in Nat /\ len + 1 \in Slots /\ slot'[len + 1] = qnum
      /\ \A k \in 1..len : slot'[k] = slot[k]
  BY Appends DEF BaseInv
<1>7. \A k \in 1..len : k \in Slots /\ At(k)' = At(k) /\ At(k) \in Queued
  BY <1>2, <1>4, <1>6, AtWaits DEF Queued
<1>8. Queued' = Queued \cup {qnum}
  <2>1. ASSUME NEW n \in Queued' PROVE n \in Queued \cup {qnum}
    <3>1. PICK k \in 1..(len + 1) : At(k)' = n
      BY <1>3, <2>1 DEF Queued
    <3> QED BY <1>4, <1>6, <1>7, <3>1
  <2>2. ASSUME NEW n \in Queued PROVE n \in Queued'
    <3>1. PICK k \in 1..len : At(k) = n
      BY <1>2, <2>2 DEF Queued
    <3>2. k \in 1..(len + 1) /\ n \in Num
      BY <1>6, <2>2 DEF Queued
    <3> QED BY <1>3, <1>7, <3>1, <3>2 DEF Queued
  <2>3. qnum \in Queued'
    <3>1. PICK k \in Slots : k = len + 1
      BY <1>6
    <3>2. At(k)' = qnum /\ k \in 1..(len + 1)
      BY <1>4, <1>6, <3>1
    <3> QED BY <1>3, <1>6, <3>2 DEF Queued
  <2> QED BY <2>1, <2>2, <2>3
<1>9. Distinct'
  <2>1. ASSUME NEW j \in 1..(len + 1), NEW k \in 1..(len + 1), At(j)' = At(k)' PROVE j = k
    <3>1. CASE j \in 1..len /\ k \in 1..len
      BY <1>2, <1>7, <2>1, <3>1 DEF BaseInv, ArrayInv, Distinct
    <3>2. CASE j = len + 1 \/ k = len + 1
      BY <1>4, <1>5, <1>6, <1>7, <2>1, <3>2
    <3> QED BY <1>6, <3>1, <3>2
  <2> QED BY <1>3, <2>1 DEF Distinct
<1> QED BY <1>5, <1>8, <1>9

LEMMA ShiftedArray ==
  ASSUME BaseInv, Shift
  PROVE  Queued' = Queued \ {mine} /\ mine \in Queued /\ Distinct'
<1>1. /\ pc[Comm] = "shift" /\ pc'[Comm] = "move" /\ pc[Main] = "idle" /\ pc'[Main] = "idle"
      /\ idx[Comm] \in 1..len /\ mine = slot[idx[Comm]] /\ todo' = idx[Comm]..(len - 1)
      /\ UNCHANGED <<slot, len, word>>
  BY BaseTypes, ShiftIs DEF BaseInv, Alone
<1>2. Top = len /\ Top' = len - 1 /\ len \in Nat /\ len <= MaxPackets
  BY <1>1, Still, BaseTypes DEF Top, Reach
<1>3. (\A i \in Slots : word[i] = 0) /\ \A k \in Slots : At(k) = slot[k]
  BY <1>1, Still
<1> DEFINE old(k) == IF k < idx[Comm] THEN k ELSE k + 1
           new(k) == IF k < idx[Comm] THEN k ELSE k - 1
<1>4. \A k \in 1..(len - 1) : At(k)' = slot[old(k)]
  BY <1>1, <1>2, <1>3 DEF At
<1>5. \A k \in 1..(len - 1) : old(k) \in 1..len /\ old(k) \in Slots /\ old(k) # idx[Comm]
  BY <1>1, <1>2
<1>6. \A k \in 1..len : k # idx[Comm] => new(k) \in 1..(len - 1) /\ old(new(k)) = k
  BY <1>1, <1>2
<1>7. \A j, k \in 1..(len - 1) : old(j) = old(k) => j = k
  BY <1>1, <1>2
<1> HIDE DEF old, new
<1>8. \A j, k \in 1..len : j \in Slots /\ slot[j] \in Num /\ (slot[j] = slot[k] => j = k)
  <2>1. ASSUME NEW j \in 1..len PROVE j \in Slots /\ At(j) = slot[j] /\ slot[j] \in Num
    BY <1>2, <1>3, <2>1, AtWaits
  <2> QED BY <1>2, <2>1 DEF BaseInv, ArrayInv, Distinct
<1>9. Queued = {n \in Num : \E k \in 1..len : slot[k] = n}
  BY <1>2, <1>3, <1>8 DEF Queued
<1>10. Queued' = {n \in Num : \E k \in 1..(len - 1) : slot[old(k)] = n}
  BY <1>2, <1>4 DEF Queued
<1>11. ASSUME NEW n \in Num
       PROVE  (\E k \in 1..(len - 1) : slot[old(k)] = n) <=> n # mine /\ \E k \in 1..len : slot[k] = n
  <2>1. ASSUME NEW k \in 1..(len - 1), slot[old(k)] = n
        PROVE  n # mine /\ \E j \in 1..len : slot[j] = n
    BY <1>1, <1>5, <1>8, <2>1
  <2>2. ASSUME n # mine, NEW k \in 1..len, slot[k] = n
        PROVE  \E j \in 1..(len - 1) : slot[old(j)] = n
    <3>1. new(k) \in 1..(len - 1) /\ old(new(k)) = k
      BY <1>1, <1>6, <2>2
    <3> QED BY <2>2, <3>1
  <2> QED BY <2>1, <2>2
<1>12. Queued' = Queued \ {mine}
  BY <1>9, <1>10, <1>11
<1>13. mine \in Queued
  BY <1>1, <1>8, <1>9
<1>14. Distinct'
  <2>1. ASSUME NEW j \in 1..(len - 1), NEW k \in 1..(len - 1), slot[old(j)] = slot[old(k)] PROVE j = k
    BY <1>5, <1>7, <1>8, <2>1
  <2> QED BY <1>2, <1>4, <2>1 DEF Distinct
<1> QED BY <1>12, <1>13, <1>14

LEMMA RemovingArray ==
  ASSUME BaseInv, RemoveIndex, ~Shift
  PROVE  Queued' = Queued /\ Distinct'
<1>0. pc[Main] = "idle" /\ pc'[Main] = "idle" /\ Reach = len /\ Reach' = len'
  <2>1. pc[Comm] # "idle"
    BY BaseTypes, LoadIs, StoreIs DEF RemoveIndex, ShrinkLoad, ShrinkStore
  <2>2. pc'[Main] = pc[Main]
    BY BaseTypes, MainRests DEF Elsewhere, Answer
  <2> QED BY <2>1, <2>2 DEF BaseInv, Alone, Reach
<1>a. \A k \in 1..Top : k \in Slots
  BY AtWaits
<1>1. ASSUME NEW i \in Slots, LoadWord(i) PROVE Queued' = Queued /\ Distinct'
  <2>1. /\ i \in todo /\ todo' = todo \ {i} /\ word'[i] = slot[i + 1] /\ i < len /\ i + 1 \in Slots
        /\ \A k \in Slots : k # i => word'[k] = word[k]
        /\ UNCHANGED <<pc, slot, len>>
    BY <1>1, BaseTypes, LoadIs
  <2>2. slot[i + 1] # 0
    <3>1. i + 1 \in 1..Reach
      BY <1>0, <2>1, BaseTypes
    <3> QED BY <3>1, BaseTypes DEF ReachInv
  <2>3. Top' = Top
    BY <1>0, <2>1 DEF Top
  <2>4. \A k \in Slots : At(k)' = At(k)
    BY <2>1, <2>2 DEF At
  <2> QED BY <1>a, <2>3, <2>4, SameArray
<1>2. ASSUME NEW i \in Slots, StoreWord(i) PROVE Queued' = Queued /\ Distinct'
  <2>1. /\ word[i] # 0 /\ word'[i] = 0 /\ slot'[i] = word[i] /\ i - 1 \notin todo
        /\ \A k \in Slots : k # i => word'[k] = word[k] /\ slot'[k] = slot[k]
        /\ UNCHANGED <<pc, len, todo>>
    BY <1>2, BaseTypes, StoreIs
  <2>2. i \notin todo
    BY <2>1 DEF BaseInv, ArrayInv
  <2>3. Top' = Top
    BY <1>0, <2>1 DEF Top
  <2>4. ASSUME NEW k \in Slots PROVE At(k)' = At(k)
    <3>1. CASE k = i
      BY <2>1, <2>2, <3>1 DEF At
    <3>2. CASE k # i
      <4>0. todo \subseteq 1..(MaxPackets - 1)
        BY DEF BaseInv, TypeInv, TypeOK
      <4>1. k \in todo => k + 1 # i /\ k + 1 \in Slots
        BY <2>1, <4>0
      <4> QED BY <2>1, <3>2, <4>1 DEF At
    <3> QED BY <3>1, <3>2
  <2> QED BY <1>a, <2>3, <2>4, SameArray
<1>3. CASE ShrinkLoad
  <2>1. UNCHANGED <<slot, len, todo, word>> /\ pc[Comm] = "move" /\ pc'[Comm] = "store"
    BY <1>3, BaseTypes, GotoIs DEF ShrinkLoad, Places, store, array
  <2>2. Top' = Top
    BY <1>0, <2>1 DEF Top
  <2>3. \A k \in Slots : At(k)' = At(k)
    BY <2>1 DEF At
  <2> QED BY <1>a, <2>2, <2>3, SameArray
<1>4. CASE ShrinkStore
  <2>1. /\ pc[Comm] = "store" /\ pc'[Comm] \in {"list", "add"} /\ len' = len - 1
        /\ UNCHANGED <<slot, todo, word>>
    BY <1>4, BaseTypes, ShrinkIs DEF BaseInv, ArrayInv
  <2>2. Top' = Top
    BY <1>0, <2>1 DEF Top
  <2>3. \A k \in Slots : At(k)' = At(k)
    BY <2>1 DEF At
  <2> QED BY <1>a, <2>2, <2>3, SameArray
<1> QED BY <1>1, <1>2, <1>3, <1>4 DEF RemoveIndex

LEMMA QuietArray ==
  ASSUME BaseInv, [Next]_vars, ~AppendQuery, ~RemoveIndex
  PROVE  Queued' = Queued /\ Distinct'
<1>1. Reach' = Reach /\ UNCHANGED <<slot, word, todo>>
  BY BaseTypes, QuietStep
<1>2. \/ pc[Comm] \notin {"move", "store"} /\ pc'[Comm] \notin {"move", "store"}
      \/ pc'[Comm] = pc[Comm] /\ len' = len
  <2>1. CASE Add
    <3>1. pc[Comm] = "idle" /\ pc'[Comm] = "idle"
      BY <2>1, BaseTypes, AddMoves DEF BaseInv, Alone
    <3> QED BY <3>1
  <2>2. CASE Tick \/ RulesShrink \/ UNCHANGED vars
    BY <2>2 DEF Tick, RulesShrink, vars, store, array
  <2>3. CASE \E f \in Flow : Receive(f)
    BY <2>3, BaseTypes, ReceiveIs
  <2>4. CASE Command
    BY <2>4, BaseTypes, GotoIs DEF Command, List, QueryAdd, Places
  <2>5. CASE ListExpired \/ ListKept \/ ListDrop \/ ListEnd \/ AddPass \/ AddAccept \/ AddToRules \/ AddEnd
    BY <2>5, BaseTypes, GotoIs DEF ListExpired, ListKept, ListDrop, ListEnd, AddPass, AddAccept, Agrees,
       AddToRules, AddEnd, Places
  <2> QED BY <2>1, <2>2, <2>3, <2>4, <2>5 DEF Next, Answer
<1>3. Top' = Top
  BY <1>1, <1>2 DEF Top
<1>4. \A k \in 1..Top : At(k)' = At(k)
  BY <1>1 DEF At
<1> QED BY <1>3, <1>4, SameArray

LEMMA BaseInvStep == BaseInv /\ [Next /\ Alone']_vars => BaseInv'
<1> SUFFICES ASSUME BaseInv, [Next /\ Alone']_vars PROVE BaseInv'
  OBVIOUS
<1>0. [Next]_vars /\ TypeOK /\ TypeInv
  BY BaseTypes
<1>1. TypeInv' /\ FlowInv'
  BY <1>0, TypeInvStep, FlowInvStep DEF BaseInv
<1>2. Alone'
  BY DEF BaseInv, Alone, vars
<1>3. Distinct'
  BY <1>0, AppendedArray, ShiftedArray, RemovingArray, QuietArray
<1>4. ~crossed'
  <2>1. ~crossed
    BY DEF BaseInv, ArrayInv
  <2>2. CASE Shift
    <3>1. pc[Main] # "ask"
      BY <2>2 DEF BaseInv, Alone, Shift
    <3> QED BY <2>1, <2>2, <3>1 DEF Shift
  <2>3. ASSUME NEW f \in Flow, Receive(f) PROVE ~crossed'
    <3>1. CASE f \in rules
      BY <2>1, <2>3, <3>1 DEF Receive
    <3>2. CASE f \notin rules
      <4>1. pc[Comm] = "idle"
        BY <1>0, <1>2, <2>3, <3>2, ReceiveIs DEF Alone
      <4>2. ~Copying
        BY <4>1, Still DEF Copying
      <4> QED BY <2>1, <2>3, <3>2, <4>2 DEF Receive
    <3> QED BY <3>1, <3>2
  <2>4. ASSUME ~Shift, ~\E f \in Flow : Receive(f) PROVE crossed' = crossed
    BY <1>0, <2>4 DEF Next, Tick, RulesShrink, Add, SearchPass, SearchHit, SearchEnd, Renew, MergeDrop,
       AppendQuery, GrowLoad, GrowStore, SetPacketId, Command, List, QueryAdd, Answer, ListExpired,
       ListKept, ListDrop, ListEnd, AddPass, AddAccept, Agrees, AddToRules, AddEnd, RemoveIndex,
       LoadWord, StoreWord, ShrinkLoad, ShrinkStore, vars, history
  <2> QED BY <2>1, <2>2, <2>3, <2>4
<1>5. pc'[Comm] = "store" => snap'[Comm] = len'
  <2>1. CASE ShrinkLoad
    <3>1. snap' = [snap EXCEPT ![Comm] = len] /\ len' = len
      BY <2>1 DEF ShrinkLoad, store, array
    <3> QED BY <1>0, <3>1 DEF TypeOK
  <2>2. CASE Add
    <3>1. pc'[Comm] = "idle"
      BY <1>0, <2>2, AddMoves DEF BaseInv, Alone
    <3> QED BY <3>1
  <2>3. CASE ShrinkStore
    BY <1>0, <2>3, ShrinkIs
  <2>4. CASE Shift
    BY <1>0, <2>4, ShiftIs
  <2>5. ASSUME NEW i \in Slots, LoadWord(i) \/ StoreWord(i) PROVE pc'[Comm] = "store" => snap'[Comm] = len'
    BY <1>0, <2>5, LoadIs, StoreIs DEF BaseInv, ArrayInv
  <2>6. CASE \E f \in Flow : Receive(f)
    <3>1. UNCHANGED <<snap, len>> /\ pc'[Comm] = pc[Comm]
      BY <1>0, <2>6, ReceiveIs DEF Receive, locals, moving
    <3> QED BY <3>1 DEF BaseInv, ArrayInv
  <2>7. CASE Tick \/ RulesShrink \/ UNCHANGED vars
    BY <2>7 DEF Tick, RulesShrink, vars, store, array, locals, moving, BaseInv, ArrayInv
  <2>8. CASE Command
    BY <1>0, <2>8, GotoIs DEF Command, List, QueryAdd, Places
  <2>9. CASE ListExpired \/ ListKept \/ ListDrop \/ ListEnd \/ AddPass \/ AddAccept \/ AddToRules \/ AddEnd
    BY <1>0, <2>9, GotoIs DEF ListExpired, ListKept, ListDrop, ListEnd, AddPass, AddAccept, Agrees,
       AddToRules, AddEnd, Places
  <2> QED BY <2>1, <2>2, <2>3, <2>4, <2>5, <2>6, <2>7, <2>8, <2>9 DEF Next, Answer, RemoveIndex
<1>6. \A i \in todo' : word'[i] = 0
  <2>0. \A i \in todo : i \in Slots /\ word[i] = 0
    BY <1>0 DEF BaseInv, ArrayInv, TypeOK
  <2>1. CASE Shift
    BY <1>0, <2>1, ShiftIs DEF TypeOK
  <2>2. ASSUME NEW i \in Slots, LoadWord(i) PROVE \A k \in todo' : word'[k] = 0
    BY <1>0, <2>0, <2>2, LoadIs
  <2>3. ASSUME NEW i \in Slots, StoreWord(i) PROVE \A k \in todo' : word'[k] = 0
    BY <1>0, <2>0, <2>3, StoreIs
  <2>4. CASE ShrinkLoad \/ ShrinkStore
    <3>1. UNCHANGED <<todo, word>>
      BY <2>4 DEF ShrinkLoad, ShrinkStore
    <3> QED BY <2>0, <3>1
  <2>5. CASE AppendQuery
    <3>1. UNCHANGED <<todo, word>>
      BY <1>0, <2>5, Appends
    <3> QED BY <2>0, <3>1
  <2>6. CASE ~RemoveIndex /\ ~AppendQuery
    <3>1. UNCHANGED <<todo, word>>
      BY <1>0, <2>6, QuietStep
    <3> QED BY <2>0, <3>1
  <2> QED BY <2>1, <2>2, <2>3, <2>4, <2>5, <2>6 DEF RemoveIndex
<1>7. pc'[Main] \in AtCur => cur' \in Queued'
  <2>1. CASE AppendQuery
    BY <1>0, <2>1, Appends, AppendedArray
  <2>2. CASE SearchHit
    <3>1. /\ cur' = slot[idx[Main]] /\ idx[Main] <= len /\ pc[Main] = "ask" /\ idx[Main] \in Nat \ {0}
      BY <1>0, <2>2 DEF SearchHit, TypeOK
    <3>2. pc[Comm] = "idle"
      BY <3>1 DEF BaseInv, Alone
    <3>3. Top = len /\ idx[Main] \in 1..len /\ idx[Main] \in Slots /\ slot[idx[Main]] \in Num
      BY <1>0, <3>1, <3>2, Still, SlotAt, BaseTypes DEF Reach
    <3>4. At(idx[Main]) = slot[idx[Main]]
      BY <3>2, <3>3, Still
    <3>5. slot[idx[Main]] \in Queued
      BY <3>3, <3>4 DEF Queued
    <3>6. Queued' = Queued
      <4>1. ~AppendQuery /\ ~RemoveIndex
        BY <1>0, <3>1, <3>2, Appends, LoadIs, StoreIs DEF RemoveIndex, Shift, ShrinkLoad, ShrinkStore
      <4> QED BY <1>0, <4>1, QuietArray
    <3> QED BY <3>1, <3>5, <3>6
  <2>3. CASE SearchPass \/ SearchEnd \/ SetPacketId
    BY <1>0, <2>3 DEF SearchPass, SearchEnd, SetPacketId, Goto, TypeOK, AtCur
  <2>4. CASE Renew \/ MergeDrop \/ GrowLoad \/ GrowStore
    <3>1. pc[Main] \in AtCur /\ cur' = cur
      BY <2>4 DEF Renew, MergeDrop, GrowLoad, GrowStore, AtCur, locals
    <3>2. ~AppendQuery /\ ~RemoveIndex
      <4>1. pc[Comm] = "idle" /\ pc[Main] # "append"
        BY <3>1 DEF BaseInv, Alone, AtCur
      <4> QED BY <1>0, <4>1, Appends, LoadIs, StoreIs DEF RemoveIndex, Shift, ShrinkLoad, ShrinkStore
    <3> QED BY <1>0, <3>1, <3>2, QuietArray DEF BaseInv, ArrayInv
  <2>5. CASE Elsewhere
    <3>1. pc'[Main] = pc[Main] /\ cur' = cur
      BY <1>0, <2>5, MainRests
    <3>2. CASE pc[Main] \in AtCur
      <4>1. pc[Comm] = "idle" /\ pc[Main] # "append"
        BY <3>2 DEF BaseInv, Alone, AtCur
      <4>2. ~AppendQuery /\ ~RemoveIndex
        BY <1>0, <4>1, Appends, LoadIs, StoreIs DEF RemoveIndex, Shift, ShrinkLoad, ShrinkStore
      <4> QED BY <1>0, <3>1, <3>2, <4>2, QuietArray DEF BaseInv, ArrayInv
    <3> QED BY <3>1, <3>2
  <2>6. CASE \E f \in Flow : Receive(f)
    BY <1>0, <2>6, ReceiveIs DEF AtCur
  <2> QED BY <1>0, <2>1, <2>2, <2>3, <2>4, <2>5, <2>6 DEF Next, Add, Elsewhere
<1> QED BY <1>1, <1>2, <1>3, <1>4, <1>5, <1>6, <1>7 DEF BaseInv, ArrayInv

-----------------------------------------------------------------------------
(* What becomes of held packets while one handler runs at a time.          *)

AloneInv == BaseInv /\ HeldInv

LEMMA HoldingTypes ==
  ASSUME AloneInv
  PROVE  /\ BaseInv /\ TypeInv /\ TypeOK /\ OneFlow /\ CurrentIsAsked /\ last \in 0..MaxPackets
         /\ Holding \subseteq Waiting /\ Holding \subseteq Num
         /\ fate \in [Packet -> {"none", "held", "accepted", "dropped"}]
<1>1. BaseInv /\ TypeInv /\ TypeOK /\ OneFlow /\ CurrentIsAsked /\ last \in 0..MaxPackets
  BY BaseTypes DEF AloneInv
<1>2. Holding \subseteq Waiting /\ Holding \subseteq Num
  BY <1>1, QueuedWaits DEF Holding, Queued
<1>3. fate \in [Packet -> {"none", "held", "accepted", "dropped"}]
  BY <1>1 DEF TypeOK
<1> QED BY <1>1, <1>2, <1>3

\* A step that decides no packet, and leaves who holds which.
LEMMA SameHolding ==
  ASSUME AloneInv, UNCHANGED <<fate, flowOf, last>>, Holding' = Holding,
         \A n \in Holding : query'[n].id = query[n].id /\ query'[n].flow = query[n].flow,
         pc'[Main] = "idle" <=> pc[Main] = "idle"
  PROVE  (HoldingOwn /\ HeldIsHolding)'
<1>1. HoldingOwn'
  BY DEF AloneInv, HeldInv, HoldingOwn
<1>2. HeldIsHolding'
  BY DEF AloneInv, HeldInv, HeldIsHolding
<1> QED BY <1>1, <1>2

\* A verdict on the packet of query n.
LEMMA VerdictIs ==
  ASSUME AloneInv, NEW n \in Holding, NEW v \in {"accepted", "dropped"}, SetVerdict(query[n].id, v)
  PROVE  /\ query[n].id \in Packet /\ fate'[query[n].id] = v
         /\ \A p \in Packet : p # query[n].id => fate'[p] = fate[p]
         /\ \A m \in Holding : m # n => query[m].id # query[n].id
<1>1. query[n].id \in Packet /\ flowOf[query[n].id] = query[n].flow
  BY HoldingTypes DEF AloneInv, HeldInv, HoldingOwn
<1>2. fate[query[n].id] = "held"
  BY <1>1 DEF AloneInv, HeldInv, HeldIsHolding
<1>3. fate' = [fate EXCEPT ![query[n].id] = v]
  BY <1>1, <1>2 DEF SetVerdict
<1>4. fate'[query[n].id] = v /\ \A p \in Packet : p # query[n].id => fate'[p] = fate[p]
  BY <1>1, <1>3, HoldingTypes
<1>5. ASSUME NEW m \in Holding, m # n PROVE query[m].id # query[n].id
  <2>1. query[m].flow # query[n].flow
    BY <1>5, HoldingTypes DEF OneFlow
  <2>2. flowOf[query[m].id] = query[m].flow
    BY DEF AloneInv, HeldInv, HoldingOwn
  <2> QED BY <1>1, <2>1, <2>2
<1> QED BY <1>1, <1>4, <1>5

\* Such a verdict leaves the other queries and their packets.
LEMMA Decided ==
  ASSUME AloneInv, NEW n \in Holding, NEW v \in {"accepted", "dropped"},
         SetVerdict(query[n].id, v), UNCHANGED <<flowOf, last, query>>, Holding' = Holding \ {n},
         pc'[Main] = "idle" <=> pc[Main] = "idle"
  PROVE  (HoldingOwn /\ HeldIsHolding)'
<1>1. HoldingOwn'
  BY DEF AloneInv, HeldInv, HoldingOwn
<1>2. ASSUME NEW p \in Packet
      PROVE  fate'[p] = "held" <=> \/ pc'[Main] # "idle" /\ p = last
                                   \/ \E m \in Holding \ {n} : query[m].id = p
  <2>1. CASE p = query[n].id
    <3>1. pc[Main] # "idle" => query[n].id # last
      BY DEF AloneInv, HeldInv, HoldingOwn
    <3> QED BY <2>1, <3>1, VerdictIs
  <2>2. CASE p # query[n].id
    <3>1. fate'[p] = fate[p]
      BY <2>2, VerdictIs
    <3>2. (\E m \in Holding \ {n} : query[m].id = p) <=> \E m \in Holding : query[m].id = p
      BY <2>2
    <3> QED BY <3>1, <3>2 DEF AloneInv, HeldInv, HeldIsHolding
  <2> QED BY <2>1, <2>2
<1>3. HeldIsHolding'
  BY <1>2 DEF HeldIsHolding
<1> QED BY <1>1, <1>3

LEMMA ReceiveStep ==
  ASSUME AloneInv, NEW f \in Flow, Receive(f)
  PROVE  HeldInv'
<1>0. BaseInv /\ TypeInv
  BY HoldingTypes
<1>1. Holding' = Holding
  <2>1. Queued' = Queued
    <3>1. ~AppendQuery /\ ~RemoveIndex /\ [Next]_vars
      BY <1>0, Appends, ReceiveIs, MainRests DEF Elsewhere, Answer, Next
    <3> QED BY <1>0, <3>1, QuietArray
  <2> QED BY <1>0, <2>1, ReceiveIs DEF Holding, Filling
<1>2. \A n \in Holding : query[n].id \in 1..last /\ query[n].id \in Packet /\ query[n].id # last'
  BY <1>0, HoldingTypes, ReceiveIs DEF AloneInv, HeldInv, HoldingOwn
<1>3. HoldingOwn'
  <2>1. \A n \in Holding : query[n].id \in 1..last'
    BY <1>0, <1>2, ReceiveIs
  <2>2. \A n \in Holding : flowOf'[query[n].id] = query[n].flow
    BY <1>0, <1>2, ReceiveIs DEF AloneInv, HeldInv, HoldingOwn
  <2> QED BY <1>0, <1>1, <1>2, <2>1, <2>2, ReceiveIs DEF HoldingOwn
<1>4. ASSUME NEW p \in Packet
      PROVE  fate'[p] = "held" <=> \/ pc'[Main] # "idle" /\ p = last'
                                   \/ \E n \in Holding : query[n].id = p
  <2>1. CASE p = last'
    BY <1>0, <1>2, <2>1, ReceiveIs
  <2>2. CASE p # last'
    <3>1. fate[p] = "held" <=> \E n \in Holding : query[n].id = p
      BY <1>0, ReceiveIs DEF AloneInv, HeldInv, HeldIsHolding
    <3> QED BY <1>0, <2>2, <3>1, ReceiveIs
  <2> QED BY <2>1, <2>2
<1>5. HeldIsHolding'
  BY <1>0, <1>1, <1>4, ReceiveIs DEF HeldIsHolding
<1>6. DropsExpired'
  BY <1>0, ReceiveIs DEF AloneInv, HeldInv, DropsExpired, Expired
<1> QED BY <1>3, <1>5, <1>6 DEF HeldInv

LEMMA AddStep ==
  ASSUME AloneInv, Add, Alone'
  PROVE  HeldInv'
<1>0. BaseInv /\ TypeInv /\ TypeOK /\ [Next]_vars
  BY HoldingTypes DEF Next
<1>1. /\ pc[Main] # "idle" /\ pc[Comm] = "idle" /\ pc'[Comm] = "idle"
      /\ UNCHANGED <<flowOf, last>>
  BY <1>0, AddMoves DEF BaseInv, Alone
<1>2. DropsExpired'
  BY <1>1 DEF DropsExpired
<1>3. ~RemoveIndex
  BY <1>0, <1>1, LoadIs, StoreIs DEF RemoveIndex, Shift, ShrinkLoad, ShrinkStore
<1>4. Holding = {n \in Queued : pc[Main] \in Filling => n # cur}
  BY <1>1 DEF Holding
<1>5. Holding' = {n \in Queued' : pc'[Main] \in Filling => n # cur'}
  BY <1>1 DEF Holding
<1>6. CASE SearchPass \/ SearchHit \/ SearchEnd \/ Renew \/ GrowLoad \/ GrowStore
  <2>1. ~AppendQuery /\ ~SetPacketId /\ fate' = fate
    BY <1>6 DEF SearchPass, SearchHit, SearchEnd, Renew, GrowLoad, GrowStore, AppendQuery, SetPacketId, kernel
  <2>2. Queued' = Queued /\ \A n \in Num : query'[n].id = query[n].id /\ query'[n].flow = query[n].flow
    BY <1>0, <1>3, <2>1, QuietArray, FlowsStay
  <2>3. /\ pc'[Main] # "idle" /\ (pc'[Main] \in Filling <=> pc[Main] \in Filling)
        /\ pc[Main] \in Filling => cur' = cur
    BY <1>0, <1>6 DEF SearchPass, SearchHit, SearchEnd, Renew, GrowLoad, GrowStore, Goto, TypeOK, Filling
  <2>4. Holding' = Holding
    BY <1>4, <1>5, <2>2, <2>3
  <2> QED BY <1>1, <1>2, <2>1, <2>2, <2>3, <2>4, SameHolding, HoldingTypes DEF HeldInv
<1>7. CASE MergeDrop
  <2>1. /\ pc[Main] = "merge" /\ pc'[Main] = "setId" /\ SetVerdict(query[cur].id, "dropped")
        /\ UNCHANGED <<query, cur>>
    BY <1>0, <1>7, GotoIs DEF MergeDrop, Places, store, locals
  <2>2. ~AppendQuery
    BY <1>0, <2>1, Appends
  <2>3. Queued' = Queued
    BY <1>0, <1>3, <2>2, QuietArray
  <2>4. cur \in Holding /\ Holding' = Holding \ {cur}
    BY <1>4, <1>5, <2>1, <2>3 DEF Filling, AloneInv, BaseInv, ArrayInv, AtCur
  <2> QED BY <1>1, <1>2, <2>1, <2>4, Decided DEF HeldInv
<1>8. CASE AppendQuery
  <2>1. /\ pc[Main] = "append" /\ pc'[Main] = "grow" /\ cur' = qnum /\ fate' = fate
        /\ \A n \in Num : n # qnum => query'[n] = query[n]
    BY <1>0, <1>8, Appends
  <2>2. Queued' = Queued \cup {qnum} /\ qnum \notin Queued
    BY <1>0, <1>8, AppendedArray
  <2>3. Holding' = Holding /\ qnum \notin Holding
    BY <1>4, <1>5, <2>1, <2>2 DEF Filling
  <2> QED BY <1>1, <1>2, <2>1, <2>3, SameHolding, HoldingTypes DEF HeldInv
<1>9. CASE SetPacketId
  <2>1. /\ pc[Main] = "setId" /\ pc'[Main] = "idle" /\ query' = [query EXCEPT ![cur].id = last] /\ fate' = fate
    BY <1>0, <1>9, GotoIs DEF SetPacketId, Places, kernel
  <2>2. Queued' = Queued
    BY <1>0, <1>3, <2>1, Appends, QuietArray
  <2>3. cur \in Queued /\ cur \in Num /\ query[cur].flow = flowOf[last] /\ last \in 1..MaxPackets
    <3>1. cur \in Queued
      BY <2>1 DEF AloneInv, BaseInv, ArrayInv, AtCur
    <3>2. query[cur].flow = flowOf[last]
      BY <2>1, HoldingTypes DEF CurrentIsAsked, AtCur, Asked
    <3>3. last >= 1
      BY <2>1, <1>0 DEF TypeInv, MainInv
    <3> QED BY <3>1, <3>2, <3>3, HoldingTypes DEF Queued
  <2>4. Holding = Queued \ {cur} /\ Holding' = Queued
    BY <1>4, <1>5, <2>1, <2>2 DEF Filling
  <2>5. query'[cur].id = last /\ query'[cur].flow = query[cur].flow /\ \A n \in Num : n # cur => query'[n] = query[n]
    <3>1. query \in [Num -> [flow : Flow, id : 0..MaxPackets, age : 0..(QueryTimeout + 1)]]
      BY <1>0 DEF TypeOK, Query
    <3> QED BY <2>1, <2>3, <3>1
  <2>6. HoldingOwn'
    <3>1. ASSUME NEW n \in Queued
          PROVE  query'[n].id \in 1..last /\ flowOf[query'[n].id] = query'[n].flow
      <4>1. CASE n = cur
        BY <2>3, <2>5, <4>1
      <4>2. CASE n # cur
        <5>1. n \in Holding /\ n \in Num
          BY <2>4, <4>2, HoldingTypes
        <5> QED BY <2>5, <4>2, <5>1 DEF AloneInv, HeldInv, HoldingOwn
      <4> QED BY <4>1, <4>2
    <3> QED BY <1>1, <2>1, <2>4, <3>1 DEF HoldingOwn
  <2>7. HeldIsHolding'
    <3>1. ASSUME NEW p \in Packet
          PROVE  fate[p] = "held" <=> \E n \in Queued : query'[n].id = p
      <4>1. fate[p] = "held" <=> p = last \/ \E n \in Holding : query[n].id = p
        BY <1>1, <2>1 DEF AloneInv, HeldInv, HeldIsHolding
      <4>2. \A n \in Holding : n # cur /\ n \in Queued /\ query'[n].id = query[n].id
        BY <2>4, <2>5, HoldingTypes
      <4> QED BY <2>3, <2>4, <2>5, <4>1, <4>2
    <3> QED BY <2>1, <2>4, <3>1 DEF HeldIsHolding
  <2> QED BY <1>2, <2>6, <2>7 DEF HeldInv
<1> QED BY <1>6, <1>7, <1>8, <1>9 DEF Add

LEMMA AnswerStep ==
  ASSUME AloneInv, Answer, Alone'
  PROVE  HeldInv'
<1>0. BaseInv /\ TypeInv /\ TypeOK /\ [Next]_vars
  BY HoldingTypes DEF Next
<1>1. pc[Comm] # "idle" /\ pc[Main] = "idle" /\ pc'[Main] = "idle" /\ UNCHANGED <<flowOf, last, cur>>
  <2>1. pc[Comm] # "idle"
    BY <1>0, LoadIs, StoreIs DEF Answer, ListExpired, ListKept, ListDrop, ListEnd, AddPass, AddAccept, Agrees,
       AddToRules, AddEnd, RemoveIndex, Shift, ShrinkLoad, ShrinkStore
  <2>2. pc'[Main] = pc[Main] /\ UNCHANGED <<flowOf, last, cur>>
    BY <1>0, MainRests DEF Elsewhere
  <2> QED BY <2>1, <2>2 DEF AloneInv, BaseInv, Alone
<1>2. ~AppendQuery /\ query' = query
  <2>1. ~AppendQuery
    BY <1>0, <1>1, Appends
  <2>2. CASE RemoveIndex
    BY <1>0, <2>1, <2>2, ShiftIs, LoadIs, StoreIs, ShrinkIs DEF RemoveIndex, ShrinkLoad, store
  <2>3. CASE ~RemoveIndex
    BY <2>1, <2>3 DEF Answer, ListExpired, ListKept, ListDrop, ListEnd, AddPass, AddAccept, Agrees,
       AddToRules, AddEnd, store
  <2> QED BY <2>1, <2>2, <2>3
<1>3. Holding = {n \in Queued : pc[Comm] \in {"addRule", "shift"} => n # mine}
  BY <1>1 DEF Holding, Filling
<1>4. Holding' = {n \in Queued' : pc'[Comm] \in {"addRule", "shift"} => n # mine'}
  BY <1>1 DEF Holding, Filling
<1>5. ASSUME fate' = fate, Holding' = Holding, pc'[Comm] # "listDrop" PROVE HeldInv'
  <2>1. (HoldingOwn /\ HeldIsHolding)'
    BY <1>1, <1>2, <1>5, SameHolding
  <2> QED BY <1>5, <2>1 DEF HeldInv, DropsExpired
<1>6. ~RemoveIndex => Queued' = Queued
  BY <1>0, <1>2, QuietArray
<1>7. pc[Comm] \in {"list", "listDrop", "add", "addRule", "shift"} => Top = len /\ \A k \in Slots : At(k) = slot[k]
  BY <1>0, <1>1, Still DEF Reach
<1>8. ASSUME NEW i \in Nat \ {0}, i <= len, pc[Comm] \in {"list", "listDrop", "add", "addRule", "shift"}
      PROVE  slot[i] \in Queued
  <2>1. i \in Slots /\ slot[i] \in Num
    BY <1>0, <1>8, SlotAt
  <2>2. i \in 1..len
    BY <1>0, <1>8, BaseTypes
  <2> QED BY <1>7, <1>8, <2>1, <2>2 DEF Queued
<1>9. idx[Comm] \in Nat \ {0}
  BY <1>0 DEF TypeOK
<1>10. CASE ListExpired
  <2>1. /\ pc[Comm] = "list" /\ pc'[Comm] = "listDrop" /\ fate' = fate /\ mine' = slot[idx[Comm]]
        /\ Expired(slot[idx[Comm]]) /\ ~RemoveIndex
    BY <1>0, <1>10, GotoIs, LoadIs, StoreIs DEF ListExpired, Places, kernel, RemoveIndex, Shift, ShrinkLoad, ShrinkStore
  <2>2. Holding' = Holding
    BY <1>3, <1>4, <1>6, <2>1
  <2>3. (HoldingOwn /\ HeldIsHolding)'
    BY <1>1, <1>2, <2>1, <2>2, SameHolding
  <2>4. DropsExpired'
    BY <1>2, <2>1 DEF DropsExpired, Expired
  <2> QED BY <2>3, <2>4 DEF HeldInv
<1>11. CASE ListKept \/ ListEnd \/ AddPass \/ AddEnd
  <2>1. /\ pc[Comm] \in {"list", "add"} /\ pc'[Comm] \in {"list", "add", "idle"} /\ fate' = fate
    BY <1>0, <1>11, GotoIs DEF ListKept, ListEnd, AddPass, AddEnd, Places, kernel
  <2>2. ~RemoveIndex
    BY <1>0, <2>1, LoadIs, StoreIs DEF RemoveIndex, Shift, ShrinkLoad, ShrinkStore
  <2>3. Holding' = Holding
    BY <1>3, <1>4, <1>6, <2>1, <2>2
  <2> QED BY <1>5, <2>1, <2>3
<1>12. CASE ListDrop
  <2>1. /\ pc[Comm] = "listDrop" /\ pc'[Comm] = "shift" /\ SetVerdict(query[mine].id, "dropped") /\ mine' = mine
    BY <1>0, <1>12, GotoIs DEF ListDrop, Places, locals
  <2>2. mine \in Queued
    <3>1. mine = slot[idx[Comm]] /\ idx[Comm] <= len
      BY <1>0, <2>1 DEF TypeInv, CommInv, AtMine
    <3> QED BY <1>8, <1>9, <2>1, <3>1
  <2>3. ~RemoveIndex
    BY <1>0, <2>1, LoadIs, StoreIs DEF RemoveIndex, Shift, ShrinkLoad, ShrinkStore
  <2>4. mine \in Holding /\ Holding' = Holding \ {mine}
    BY <1>3, <1>4, <1>6, <2>1, <2>2, <2>3
  <2>5. (HoldingOwn /\ HeldIsHolding)'
    BY <1>1, <1>2, <2>1, <2>4, Decided
  <2> QED BY <2>1, <2>5 DEF HeldInv, DropsExpired
<1>13. CASE AddAccept
  <2>1. /\ pc[Comm] = "add" /\ pc'[Comm] = "addRule" /\ SetVerdict(query[want.num].id, "accepted")
        /\ mine' = want.num /\ slot[idx[Comm]] = want.num /\ idx[Comm] <= len
    BY <1>0, <1>13, GotoIs DEF AddAccept, Agrees, Places
  <2>2. want.num \in Queued
    BY <1>8, <1>9, <2>1
  <2>3. ~RemoveIndex
    BY <1>0, <2>1, LoadIs, StoreIs DEF RemoveIndex, Shift, ShrinkLoad, ShrinkStore
  <2>4. want.num \in Holding /\ Holding' = Holding \ {want.num}
    BY <1>3, <1>4, <1>6, <2>1, <2>2, <2>3
  <2>5. (HoldingOwn /\ HeldIsHolding)'
    BY <1>1, <1>2, <2>1, <2>4, Decided
  <2> QED BY <2>1, <2>5 DEF HeldInv, DropsExpired
<1>14. CASE AddToRules
  <2>1. /\ pc[Comm] = "addRule" /\ pc'[Comm] = "shift" /\ fate' = fate /\ mine' = mine
    BY <1>0, <1>14, GotoIs DEF AddToRules, Places, kernel, locals
  <2>2. ~RemoveIndex
    BY <1>0, <2>1, LoadIs, StoreIs DEF RemoveIndex, Shift, ShrinkLoad, ShrinkStore
  <2>3. Holding' = Holding
    BY <1>3, <1>4, <1>6, <2>1, <2>2
  <2> QED BY <1>5, <2>1, <2>3
<1>15. CASE Shift
  <2>1. pc[Comm] = "shift" /\ pc'[Comm] = "move" /\ fate' = fate
    BY <1>0, <1>15, ShiftIs
  <2>2. Queued' = Queued \ {mine}
    BY <1>0, <1>15, ShiftedArray
  <2>3. Holding' = Holding
    BY <1>3, <1>4, <2>1, <2>2
  <2> QED BY <1>5, <2>1, <2>3
<1>16. CASE RemoveIndex /\ ~Shift
  <2>1. Queued' = Queued
    BY <1>0, <1>16, RemovingArray
  <2>2. pc[Comm] \in {"move", "store"} /\ pc'[Comm] \in {"move", "store", "list", "add"} /\ fate' = fate
    <3>1. CASE ShrinkLoad
      BY <1>0, <3>1, GotoIs DEF ShrinkLoad, Places, kernel
    <3>2. CASE ShrinkStore
      BY <1>0, <3>2, ShrinkIs
    <3>3. ASSUME NEW i \in Slots, LoadWord(i) \/ StoreWord(i)
          PROVE  pc[Comm] \in {"move", "store"} /\ pc'[Comm] \in {"move", "store", "list", "add"} /\ fate' = fate
      BY <1>0, <3>3, LoadIs, StoreIs
    <3> QED BY <1>16, <3>1, <3>2, <3>3 DEF RemoveIndex
  <2>3. Holding' = Holding
    BY <1>3, <1>4, <2>1, <2>2
  <2> QED BY <1>5, <2>2, <2>3
<1> QED BY <1>10, <1>11, <1>12, <1>13, <1>14, <1>15, <1>16 DEF Answer

LEMMA AloneInvStep == AloneInv /\ [Next /\ Alone']_vars => AloneInv'
<1> SUFFICES ASSUME AloneInv, [Next /\ Alone']_vars PROVE AloneInv'
  OBVIOUS
<1>0. BaseInv /\ TypeInv /\ TypeOK /\ [Next]_vars
  BY HoldingTypes
<1>1. BaseInv'
  BY BaseInvStep DEF AloneInv
<1>2. CASE Tick \/ RulesShrink \/ Command \/ UNCHANGED vars
  <2>1. UNCHANGED <<fate, flowOf, last, cur, mine>> /\ pc'[Main] = pc[Main]
    BY <1>0, <1>2, MainRests DEF Elsewhere, Tick, RulesShrink, Command, List, QueryAdd, vars, kernel, locals
  <2>2. \/ pc'[Comm] = pc[Comm] /\ (query' = query \/ pc[Comm] = "idle")
        \/ pc[Comm] = "idle" /\ pc'[Comm] \in {"list", "add"}
    BY <1>0, <1>2, GotoIs DEF Tick, RulesShrink, Command, List, QueryAdd, vars, Places, store
  <2>3. \/ ~AppendQuery /\ ~SetPacketId /\ ~RemoveIndex
        \/ UNCHANGED vars
    <3>1. CASE Tick \/ Command
      <4>1. pc[Comm] = "idle"
        BY <3>1 DEF Tick, Command, List, QueryAdd
      <4>2. ~RemoveIndex
        BY <1>0, <4>1, LoadIs, StoreIs DEF RemoveIndex, Shift, ShrinkLoad, ShrinkStore
      <4>3. ~AppendQuery /\ ~SetPacketId
        BY <1>0, <2>1, Appends, GotoIs DEF SetPacketId, Places
      <4> QED BY <4>2, <4>3
    <3>2. CASE RulesShrink
      <4>1. rules' # rules
        BY <3>2 DEF RulesShrink
      <4> QED BY <4>1 DEF AppendQuery, SetPacketId, RemoveIndex, Shift, LoadWord, StoreWord, ShrinkLoad, ShrinkStore
    <3> QED BY <1>2, <3>1, <3>2
  <2>4. Holding' = Holding
    <3>1. Queued' = Queued
      <4>1. CASE UNCHANGED vars
        BY <4>1 DEF Queued, Top, Reach, At, vars, store, array, locals, moving
      <4> QED BY <1>0, <2>3, <4>1, QuietArray
    <3> QED BY <2>1, <2>2, <3>1 DEF Holding
  <2>5. \A n \in Num : query'[n].id = query[n].id /\ query'[n].flow = query[n].flow
    <3>1. CASE UNCHANGED vars
      BY <3>1 DEF vars, store
    <3> QED BY <1>0, <2>3, <3>1, FlowsStay
  <2>6. (HoldingOwn /\ HeldIsHolding)'
    BY <2>1, <2>4, <2>5, SameHolding, HoldingTypes
  <2>7. DropsExpired'
    BY <2>1, <2>2 DEF AloneInv, HeldInv, DropsExpired, Expired
  <2> QED BY <1>1, <2>6, <2>7 DEF AloneInv, HeldInv
<1>3. CASE \E f \in Flow : Receive(f)
  BY <1>1, <1>3, ReceiveStep DEF AloneInv
<1>4. CASE Add
  BY <1>1, <1>4, AddStep DEF AloneInv, BaseInv
<1>5. CASE Answer
  BY <1>1, <1>5, AnswerStep DEF AloneInv, BaseInv
<1> QED BY <1>2, <1>3, <1>4, <1>5 DEF Next

LEMMA AloneInvInit == Init => AloneInv
<1> SUFFICES ASSUME Init PROVE AloneInv
  OBVIOUS
<1>1. TypeInv /\ FlowInv
  BY TypeInvInit, FlowInvInit
<1>2. Alone /\ Top = 0 /\ pc[Main] = "idle" /\ pc[Comm] = "idle" /\ todo = {} /\ ~crossed
  BY DEF Init, Alone, Top, Reach
<1>3. Queued = {} /\ Distinct
  BY <1>2 DEF Queued, Distinct
<1>4. ArrayInv
  BY <1>2, <1>3 DEF ArrayInv, AtCur
<1>5. Holding = {}
  BY <1>3 DEF Holding
<1>6. HeldInv
  BY <1>2, <1>5 DEF Init, HeldInv, HoldingOwn, HeldIsHolding, DropsExpired
<1> QED BY <1>1, <1>2, <1>4, <1>6 DEF AloneInv, BaseInv

LEMMA AloneInvariant == AloneSpec => []AloneInv
BY AloneInvInit, AloneInvStep, PTL DEF AloneSpec

\* While one handler runs at a time, no held packet is ever lost sight of: the
\* kernel holds exactly the packets of the queries the user can see.
THEOREM HeldPackets == AloneSpec => []HeldIsQueried
<1>1. AloneInv => HeldIsQueried
  <2> SUFFICES ASSUME AloneInv, pc[Main] = "idle", pc[Comm] = "idle", NEW p \in Packet
               PROVE  fate[p] = "held" <=> \E i \in 1..len : query[slot[i]].id = p
    BY DEF HeldIsQueried
  <2>1. Holding = Queued
    BY DEF Holding, Filling
  <2>2. Top = len /\ \A k \in Slots : At(k) = slot[k]
    BY HoldingTypes, Still DEF Reach
  <2>3. \A k \in 1..len : k \in Slots /\ slot[k] \in Num
    BY <2>2, HoldingTypes, AtWaits
  <2>4. Queued = {n \in Num : \E k \in 1..len : slot[k] = n}
    BY <2>2, <2>3 DEF Queued
  <2>5. fate[p] = "held" <=> \E n \in Queued : query[n].id = p
    BY <2>1 DEF AloneInv, HeldInv, HeldIsHolding
  <2> QED BY <2>3, <2>4, <2>5
<1> QED BY <1>1, AloneInvariant, PTL

\* While one handler runs at a time, a held packet is dropped only for a newer
\* one of its connection or when its query has expired.
THEOREM DroppedPackets == AloneSpec => DropJustified
<1> DEFINE Just ==
      \A p \in Packet : fate[p] = "held" /\ fate'[p] = "dropped" =>
        \/ pc[Main] = "merge" /\ flowOf[p] = flowOf[last] /\ p < last
        \/ pc[Comm] = "listDrop" /\ Expired(mine) /\ query[mine].id = p
<1>1. AloneInv /\ [Next /\ Alone']_vars => [Just]_vars
  <2> SUFFICES ASSUME AloneInv, Next,
                      NEW p \in Packet, fate[p] = "held", fate'[p] = "dropped"
               PROVE  \/ pc[Main] = "merge" /\ flowOf[p] = flowOf[last] /\ p < last
                      \/ pc[Comm] = "listDrop" /\ Expired(mine) /\ query[mine].id = p
    OBVIOUS
  <2>1. fate' # fate /\ TypeInv
    BY HoldingTypes
  <2>2. ASSUME NEW f \in Flow, Receive(f) PROVE FALSE
    BY <2>1, <2>2, ReceiveIs
  <2>3. CASE MergeDrop
    <3>1. pc[Main] = "merge" /\ SetVerdict(query[cur].id, "dropped")
      BY <2>3 DEF MergeDrop
    <3>2. p = query[cur].id
      BY <3>1, HoldingTypes DEF SetVerdict
    <3>3. cur \in Holding /\ query[cur].flow = flowOf[last]
      <4>1. pc[Comm] = "idle"
        BY <3>1 DEF AloneInv, BaseInv, Alone
      <4>2. cur \in Queued
        BY <3>1 DEF AloneInv, BaseInv, ArrayInv, AtCur
      <4> QED BY <3>1, <4>1, <4>2, HoldingTypes DEF Holding, Filling, CurrentIsAsked, AtCur, Asked
    <3>4. p \in 1..last /\ p # last /\ flowOf[p] = flowOf[last]
      BY <3>1, <3>2, <3>3 DEF AloneInv, HeldInv, HoldingOwn
    <3> QED BY <3>1, <3>4, HoldingTypes
  <2>4. CASE ListDrop
    <3>1. pc[Comm] = "listDrop" /\ SetVerdict(query[mine].id, "dropped")
      BY <2>4 DEF ListDrop
    <3>2. p = query[mine].id
      BY <3>1, HoldingTypes DEF SetVerdict
    <3> QED BY <3>1, <3>2 DEF AloneInv, HeldInv, DropsExpired
  <2>5. CASE AddAccept
    <3>1. SetVerdict(query[want.num].id, "accepted")
      BY <2>5 DEF AddAccept
    <3> QED BY <3>1, HoldingTypes DEF SetVerdict
  <2> QED BY <2>1, <2>2, <2>3, <2>4, <2>5, FateStays
<1>2. AloneInv /\ [Next /\ Alone']_vars =>
        [\A p \in Packet : fate[p] = "held" /\ fate'[p] = "dropped" =>
          \/ pc[Main] = "merge" /\ flowOf[p] = flowOf[last] /\ p < last
          \/ pc[Comm] = "listDrop" /\ Expired(mine) /\ query[mine].id = p]_vars
  BY <1>1
<1> QED BY <1>2, AloneInvariant, PTL DEF AloneSpec, DropJustified
=============================================================================
