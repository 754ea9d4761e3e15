--------------------------- MODULE RuleTableProofs ---------------------------
(***************************************************************************)
(* Proofs about RuleTable under every interleaving of the two threads      *)
(* (Spec): its types, the order of the table, and what a lookup may return.*)
(***************************************************************************)
EXTENDS RuleTable, TLAPS

\* Who holds the lock is inside a locked section, and the places each thread
\* can be in.
LockInv ==
  /\ pc[Main] \notin {"find", "save"}
  /\ pc[Comm] \notin Looking \cup {"lookup"}
  /\ pc[Main] \in {"sweep", "scan"} \cup Removing => lock = Main
  /\ pc[Comm] = "sweep" => lock = Comm
  /\ pc[Main] \in Looking => idx[Main] = 1 \/ pc[Main] = "scan"
  /\ pc[Main] \in {"idle", "expire", "stamp", "sweepLock", "lookup"} => idx[Main] = 1

\* The slots that len covers, or that the len loaded by a removal in progress
\* may cover again when it is stored.
Covered(k) ==
  k <= len \/ \E t \in Thread : pc[t] \in {"move", "store"} /\ k <= snap[t]

\* A memmove has slot i to write yet.
Busy(t, i) == i \in todo[t] \/ buf[t][i] # Nil

\* Those slots hold rules, and a memmove stays within them.
FilledInv ==
  /\ \A k \in Slots : Covered(k) => slot[k] \in Rule
  /\ \A t \in Thread, i \in Slots : Busy(t, i) => pc[t] = "move" /\ i < snap[t]

\* The rules and the words in the hands of a memmove are in order: session
\* rules before permanent ones, and a word between what slots it comes from.
Sorted ==
  \A j, k \in Slots :
    j < k /\ Covered(k) /\ slot[j] \in PermRule => slot[k] \in PermRule
Between(t, i) ==
  /\ \A j \in 1..i : slot[j] \in PermRule => buf[t][i] \in PermRule
  /\ \A k \in Slots :
       i < k /\ Covered(k) /\ buf[t][i] \in PermRule => slot[k] \in PermRule
  /\ \A k \in Slots :
       i < k /\ buf[t][k] # Nil /\ buf[t][i] \in PermRule => buf[t][k] \in PermRule
WordsSorted == \A t \in Thread, i \in Slots : buf[t][i] # Nil => Between(t, i)

\* Only one memmove at work.
OneCopies == \A t, u \in Thread : Copying(t) /\ Copying(u) => t = u

OrderInv == ~torn => Sorted /\ WordsSorted /\ OneCopies

\* The slots a scan may still read hold rules it is entitled to find, and a
\* RULES REMOVE at work writes there only rules that are in the table.
ScanInv ==
  /\ pc[Main] \in {"scanLock", "scan"} =>
       /\ \A i \in 1..bound : slot[i] \in Rule /\ slot[i] \in seen
       /\ \A i \in 1..bound : Busy(Comm, i) => i <= len
  /\ MatchedWasLive

\* While the table has not changed, the scan's length is the table's, and the
\* rules the scan has passed do not cover the packet.
StableInv ==
  /\ pc[Main] \in {"scanLock", "scan"} /\ stable =>
       /\ bound = len
       /\ \A j \in 1..(idx[Main] - 1) : j <= len => ~Hits(slot[j])
  /\ FirstMatchWhenStable

\* The inductive invariant, checked by TLC before it was proved.
IInv == TypeOK /\ LockInv /\ FilledInv /\ OrderInv /\ ScanInv /\ StableInv

-----------------------------------------------------------------------------
USE RuleAssumption, BoundAssumption
USE DEF Main, Comm, Thread, Slots, Rule, Sweeping, Removing, Looking

Words == [Thread -> [Slots -> Rule \cup {Nil}]]

\* What the steps of a memmove do to its words.
LEMMA LoadIs ==
  ASSUME TypeOK, NEW t \in Thread, NEW i \in Slots, LoadWord(t, i)
  PROVE  /\ i + 1 \in Slots /\ buf' \in Words /\ buf'[t][i] = slot[i + 1]
         /\ todo' \in [Thread -> SUBSET (1..(MaxRules - 1))]
         /\ i \in todo[t] /\ todo'[t] = todo[t] \ {i}
         /\ \A u \in Thread : u # t => todo'[u] = todo[u]
         /\ \A u \in Thread, k \in Slots : u # t \/ k # i => buf'[u][k] = buf[u][k]
         /\ UNCHANGED <<table, pc, idx, snap, flow, bound, verdict, want, history>>
<1>0. UNCHANGED <<table, pc, idx, snap, flow, bound, verdict, want, history>>
  BY DEF LoadWord
<1>1. /\ todo' = [todo EXCEPT ![t] = @ \ {i}] /\ i \in todo[t]
      /\ buf' = [buf EXCEPT ![t][i] = slot[i + 1]]
  BY DEF LoadWord
<1>2. /\ i \in 1..(MaxRules - 1) /\ todo'[t] = todo[t] \ {i}
      /\ todo' \in [Thread -> SUBSET (1..(MaxRules - 1))]
      /\ \A u \in Thread : u # t => todo'[u] = todo[u]
  BY <1>1 DEF TypeOK
<1>3. i + 1 \in Slots
  BY <1>2
<1>4. slot[i + 1] \in Rule \cup {Nil} /\ buf \in Words
  BY <1>3 DEF TypeOK, Words
<1>5. /\ buf' \in Words /\ buf'[t][i] = slot[i + 1]
      /\ \A u \in Thread, k \in Slots : u # t \/ k # i => buf'[u][k] = buf[u][k]
  <2> DEFINE g == [buf[t] EXCEPT ![i] = slot[i + 1]]
  <2>1. buf' = [buf EXCEPT ![t] = g]
    BY <1>1
  <2>2. /\ g \in [Slots -> Rule \cup {Nil}] /\ g[i] = slot[i + 1]
        /\ \A k \in Slots : k # i => g[k] = buf[t][k]
    BY <1>4 DEF Words
  <2> HIDE DEF g
  <2>3. buf' \in Words /\ buf'[t] = g /\ \A u \in Thread : u # t => buf'[u] = buf[u]
    BY <2>1, <2>2, <1>4 DEF Words
  <2> QED BY <2>2, <2>3
<1> QED BY <1>0, <1>1, <1>2, <1>3, <1>5

LEMMA StoreIs ==
  ASSUME TypeOK, NEW t \in Thread, NEW i \in Slots, StoreWord(t, i)
  PROVE  /\ buf[t][i] \in Rule /\ buf' \in Words /\ buf'[t][i] = Nil
         /\ \A u \in Thread, k \in Slots : u # t \/ k # i => buf'[u][k] = buf[u][k]
         /\ slot' \in [Slots -> Rule \cup {Nil}] /\ slot'[i] = buf[t][i]
         /\ \A k \in Slots : k # i => slot'[k] = slot[k]
         /\ i - 1 \notin todo[t] /\ torn' = torn
         /\ UNCHANGED <<len, age, sinceSweep, lock, disk, up, pc, idx, snap, todo,
                        flow, bound, verdict, want>>
<1>0. UNCHANGED <<len, age, sinceSweep, lock, disk, up, pc, idx, snap, todo,
                  flow, bound, verdict, want>>
  BY DEF StoreWord
<1>1. /\ buf' = [buf EXCEPT ![t][i] = Nil] /\ slot' = [slot EXCEPT ![i] = buf[t][i]]
      /\ buf[t][i] # Nil /\ i - 1 \notin todo[t] /\ torn' = torn
  BY DEF StoreWord, Observe, history
<1>2. buf \in Words /\ buf[t][i] \in Rule \cup {Nil}
  <2>1. buf \in Words
    BY Zenon DEF TypeOK, Words
  <2> QED BY <2>1 DEF Words
<1>3. /\ buf' \in Words /\ buf'[t][i] = Nil
      /\ \A u \in Thread, k \in Slots : u # t \/ k # i => buf'[u][k] = buf[u][k]
  <2> DEFINE g == [buf[t] EXCEPT ![i] = Nil]
  <2>1. buf' = [buf EXCEPT ![t] = g]
    BY <1>1
  <2>2. /\ g \in [Slots -> Rule \cup {Nil}] /\ g[i] = Nil
        /\ \A k \in Slots : k # i => g[k] = buf[t][k]
    BY <1>2 DEF Words
  <2> HIDE DEF g
  <2>3. buf' \in Words /\ buf'[t] = g /\ \A u \in Thread : u # t => buf'[u] = buf[u]
    BY <2>1, <2>2, <1>2 DEF Words
  <2> QED BY <2>2, <2>3
<1>4. /\ slot' \in [Slots -> Rule \cup {Nil}] /\ slot'[i] = buf[t][i]
      /\ \A k \in Slots : k # i => slot'[k] = slot[k]
  BY <1>1, <1>2 DEF TypeOK
<1> QED BY <1>0, <1>1, <1>2, <1>3, <1>4

\* Every variable keeps its type (the code's array, its length within the
\* array, the locals of both threads).
THEOREM TypeCorrect == Spec => []TypeOK
<1>1. Init => TypeOK
  <2> SUFFICES ASSUME Init PROVE TypeOK
    OBVIOUS
  <2>1. buf \in [Thread -> [Slots -> Rule \cup {Nil}]]
    BY DEF Init
  <2>2. todo \in [Thread -> SUBSET (1..(MaxRules - 1))]
    BY DEF Init
  <2>3. want \in [type : {"PERM", "SESS"}, num : Int, cur : Int, count : Nat]
    BY DEF Init, NoWant
  <2>4. /\ slot \in [Slots -> Rule \cup {Nil}] /\ age \in [SessRule -> 0..Timeout]
        /\ snap \in [Thread -> 0..MaxRules] /\ idx \in [Thread -> Nat \ {0}]
    BY DEF Init
  <2>5. pc \in [Thread -> {"idle", "expire", "lookup", "find", "save"}
                         \cup Sweeping \cup Removing \cup Looking]
    BY DEF Init
  <2> USE RuleAssumption, BoundAssumption
  <2>6. /\ len \in 0..MaxRules /\ sinceSweep \in 0..MinRefresh /\ bound \in 0..MaxRules
        /\ lock \in Thread \cup {"free"} /\ flow \in Flow
        /\ verdict \in Rule \cup {"default"}
    BY DEF Init
  <2>7. up \in BOOLEAN /\ torn \in BOOLEAN
    BY Zenon DEF Init
  <2> QED BY <2>1, <2>2, <2>3, <2>4, <2>5, <2>6, <2>7 DEF TypeOK
<1>2. TypeOK /\ [Next]_vars => TypeOK'
  <2> SUFFICES ASSUME TypeOK, [Next]_vars PROVE TypeOK'
    OBVIOUS
  <2> USE DEF TypeOK, table, locals, moving, history
  <2>1. CASE Tick
    BY SMTT(40), <2>1 DEF Tick
  <2>2. ASSUME NEW t \in Thread, Sweep(t) PROVE TypeOK'
    <3>1. CASE SweepSkip(t)
      BY SMTT(40), <3>1 DEF SweepSkip, Goto, AfterSweep
    <3>2. CASE SweepBegin(t)
      BY SMTT(40), <3>2 DEF SweepBegin, Goto
    <3>3. CASE SweepLock(t)
      BY SMTT(40), <3>3 DEF SweepLock, Goto
    <3>4. CASE SweepKeep(t)
      BY SMTT(40), <3>4 DEF SweepKeep
    <3>5. CASE SweepDrop(t)
      BY SMTT(40), <3>5 DEF SweepDrop, Goto
    <3>6. CASE SweepEnd(t)
      BY SMTT(40), <3>6 DEF SweepEnd, Goto, AfterSweep
    <3>7. CASE SweepStamp(t)
      BY SMTT(40), <3>7 DEF SweepStamp, Goto
    <3> QED BY <2>2, <3>1, <3>2, <3>3, <3>4, <3>5, <3>6, <3>7 DEF Sweep
  <2>3. ASSUME NEW t \in Thread, RemoveIndex(t) PROVE TypeOK'
    <3>1. CASE Shift(t)
      BY SMTT(40), <3>1 DEF Shift, Goto
    <3>2. CASE ShiftRefused(t)
      BY SMTT(40), <3>2 DEF ShiftRefused, ReturnFromRemove, Goto, NoWant
    <3>3. CASE LoadLen(t)
      BY SMTT(40), <3>3 DEF LoadLen, Goto
    <3>4. CASE StoreLen(t)
      <4>1. /\ len' = snap[t] - 1 /\ snap[t] > 0 /\ snap' = [snap EXCEPT ![t] = 0]
            /\ UNCHANGED <<slot, age, sinceSweep, lock, disk, up, moving, flow, bound, verdict>>
            /\ torn' = torn
        BY SMTT(40), <3>4 DEF StoreLen, ReturnFromRemove, Observe
      <4>2. want' \in [type : {"PERM", "SESS"}, num : Int, cur : Int, count : Nat]
        BY SMTT(40), <3>4 DEF StoreLen, ReturnFromRemove, NoWant
      <4>3. idx' \in [Thread -> Nat \ {0}]
        BY SMTT(40), <3>4 DEF StoreLen, ReturnFromRemove
      <4>4. pc' \in [Thread -> {"idle", "expire", "lookup", "find", "save"}
                              \cup Sweeping \cup Removing \cup Looking]
        BY SMTT(40), <3>4 DEF StoreLen, ReturnFromRemove, Goto
      <4>5. len' \in 0..MaxRules /\ snap' \in [Thread -> 0..MaxRules]
        BY <4>1
      <4> HIDE DEF Slots, Sweeping, Removing, Looking, Rule
      <4> QED BY <4>1, <4>2, <4>3, <4>4, <4>5
    <3>5. CASE StoreLenWraps(t)
      BY <3>5 DEF StoreLenWraps
    <3>6. ASSUME NEW i \in Slots, LoadWord(t, i) PROVE TypeOK'
      <4> HIDE DEF Slots, Sweeping, Removing, Looking, Rule
      <4> QED BY <3>6, LoadIs DEF Words
    <3>7. ASSUME NEW i \in Slots, StoreWord(t, i) PROVE TypeOK'
      <4> HIDE DEF Slots, Sweeping, Removing, Looking, Rule
      <4> QED BY <3>7, StoreIs DEF Words
    <3> QED BY <2>3, <3>1, <3>2, <3>3, <3>4, <3>5, <3>6, <3>7 DEF RemoveIndex
  <2>4. ASSUME NEW f \in Flow, Receive(f) PROVE TypeOK'
    BY <2>4 DEF Receive, Goto
  <2>5. CASE Lookup
    <3>1. CASE LookupLen
      BY SMTT(40), <3>1 DEF LookupLen, Goto
    <3>2. CASE LookupLock
      BY SMTT(40), <3>2 DEF LookupLock, Goto
    <3>3. CASE LookupNext
      BY SMTT(40), <3>3 DEF LookupNext
    <3>4. CASE LookupHit
      BY SMTT(40), <3>4 DEF LookupHit, EndScan, Hits, Goto
    <3>5. CASE LookupDefault
      BY SMTT(40), <3>5 DEF LookupDefault, EndScan, Goto
    <3>6. CASE Verdict
      BY SMTT(40), <3>6 DEF Verdict, Goto
    <3> QED BY <2>5, <3>1, <3>2, <3>3, <3>4, <3>5, <3>6 DEF Lookup
  <2>6. CASE Command
    <3>1. CASE ListRules
      BY SMTT(40), <3>1 DEF ListRules, Goto
    <3>2. ASSUME NEW r \in Rule, NEW c, AddRule(r, c) PROVE TypeOK'
      <4>1. slot' \in [Slots -> Rule \cup {Nil}] /\ len' \in 0..MaxRules
        BY SMTT(40), <3>2 DEF AddRule, Insert
      <4>2. age' \in [SessRule -> 0..Timeout]
        BY SMTT(40), <3>2 DEF AddRule, Insert
      <4>3. torn' = torn
        BY SMTT(40), <3>2 DEF AddRule, Observe
      <4>4. pc' \in [Thread -> {"idle", "expire", "lookup", "find", "save"}
                              \cup Sweeping \cup Removing \cup Looking]
        BY SMTT(40), <3>2 DEF AddRule, Goto
      <4> HIDE DEF Slots, Sweeping, Removing, Looking, Rule
      <4> QED BY <3>2, <4>1, <4>2, <4>3, <4>4 DEF AddRule
    <3>3. ASSUME NEW type \in {"PERM", "SESS"}, NEW num \in Number, NEW junk \in Junk,
                 RemoveRule(type, num, junk)
          PROVE TypeOK'
      BY SMTT(40), <3>3 DEF RemoveRule, Goto
    <3> QED BY <2>6, <3>1, <3>2, <3>3 DEF Command
  <2>7. CASE Remove
    <3>1. CASE RemovePass
      <4>1. want' \in [type : {"PERM", "SESS"}, num : Int, cur : Int, count : Nat]
        <5>1. CurrNr \in Int /\ Counted \in Nat
          BY DEF CurrNr, Counted
        <5> QED BY <3>1, <5>1 DEF RemovePass
      <4>2. /\ idx' = [idx EXCEPT ![Comm] = @ + 1]
            /\ UNCHANGED <<table, pc, snap, flow, bound, verdict, history>>
        BY SMTT(40), <3>1 DEF RemovePass
      <4>3. idx' \in [Thread -> Nat \ {0}]
        BY <4>2
      <4>4. UNCHANGED <<slot, len, age, sinceSweep, lock, disk, up, pc, snap, todo, buf, flow,
                        bound, verdict, torn>>
        BY SMTT(40), <3>1 DEF RemovePass
      <4> HIDE DEF table, locals, history
      <4> QED BY ZenonT(30), <4>1, <4>3, <4>4
    <3>2. CASE RemoveFound
      BY SMTT(40), <3>2 DEF RemoveFound, Goto
    <3>3. CASE RemoveNotFound
      BY SMTT(40), <3>3 DEF RemoveNotFound, NoWant, Goto
    <3> QED BY <2>7, <3>1, <3>2, <3>3 DEF Remove
  <2>8. CASE Save
    BY <2>8 DEF Save, Goto
  <2>9. CASE UNCHANGED vars
    BY <2>9 DEF vars
  <2> QED BY <2>1, <2>2, <2>3, <2>4, <2>5, <2>6, <2>7, <2>8, <2>9 DEF Next
<1> QED BY <1>1, <1>2, PTL DEF Spec

\* FWRulesLock is held inside the locked sections, and a loop starts at the
\* first slot.
LEMMA LockCorrect == Spec => []LockInv
<1>1. Init => LockInv
  BY DEF Init, LockInv
<1>2. TypeOK /\ LockInv /\ [Next]_vars => LockInv'
  <2> SUFFICES ASSUME TypeOK, LockInv, [Next]_vars PROVE LockInv'
    OBVIOUS
  <2> USE DEF TypeOK, LockInv, table, locals, moving
  <2>1. CASE Tick
    BY <2>1 DEF Tick
  <2>2. ASSUME NEW t \in Thread, Sweep(t) PROVE LockInv'
    <3>1. CASE SweepSkip(t)
      BY <3>1 DEF SweepSkip, Goto, AfterSweep
    <3>2. CASE SweepBegin(t)
      BY <3>2 DEF SweepBegin, Goto
    <3>3. CASE SweepLock(t)
      BY <3>3 DEF SweepLock, Goto
    <3>4. CASE SweepKeep(t)
      BY <3>4 DEF SweepKeep
    <3>5. CASE SweepDrop(t)
      BY <3>5 DEF SweepDrop, Goto
    <3>6. CASE SweepEnd(t)
      BY <3>6 DEF SweepEnd, Goto, AfterSweep
    <3>7. CASE SweepStamp(t)
      BY <3>7 DEF SweepStamp, Goto
    <3> QED BY <2>2, <3>1, <3>2, <3>3, <3>4, <3>5, <3>6, <3>7 DEF Sweep
  <2>3. ASSUME NEW t \in Thread, RemoveIndex(t) PROVE LockInv'
    <3>1. CASE Shift(t)
      BY <3>1 DEF Shift, Goto
    <3>2. CASE ShiftRefused(t)
      BY <3>2 DEF ShiftRefused, ReturnFromRemove, Goto
    <3>3. CASE LoadLen(t)
      BY <3>3 DEF LoadLen, Goto
    <3>4. CASE StoreLen(t)
      BY <3>4 DEF StoreLen, ReturnFromRemove, Goto
    <3>5. CASE StoreLenWraps(t)
      BY <3>5 DEF StoreLenWraps
    <3>6. ASSUME NEW i \in Slots, LoadWord(t, i) PROVE LockInv'
      BY <3>6 DEF LoadWord
    <3>7. ASSUME NEW i \in Slots, StoreWord(t, i) PROVE LockInv'
      BY <3>7 DEF StoreWord, Observe
    <3> QED BY <2>3, <3>1, <3>2, <3>3, <3>4, <3>5, <3>6, <3>7 DEF RemoveIndex
  <2>4. ASSUME NEW f \in Flow, Receive(f) PROVE LockInv'
    BY <2>4 DEF Receive, Goto
  <2>5. CASE Lookup
    <3>1. CASE LookupLen
      BY <3>1 DEF LookupLen, Goto
    <3>2. CASE LookupLock
      BY <3>2 DEF LookupLock, Goto
    <3>3. CASE LookupNext
      BY <3>3 DEF LookupNext
    <3>4. CASE LookupHit
      BY <3>4 DEF LookupHit, EndScan, Goto
    <3>5. CASE LookupDefault
      BY <3>5 DEF LookupDefault, EndScan, Goto
    <3>6. CASE Verdict
      BY <3>6 DEF Verdict, Goto
    <3> QED BY <2>5, <3>1, <3>2, <3>3, <3>4, <3>5, <3>6 DEF Lookup
  <2>6. CASE Command
    <3>1. CASE ListRules
      BY <3>1 DEF ListRules, Goto
    <3>2. ASSUME NEW r \in Rule, NEW c, AddRule(r, c) PROVE LockInv'
      BY <3>2 DEF AddRule, Insert, Goto
    <3>3. ASSUME NEW type, NEW num, NEW junk, RemoveRule(type, num, junk)
          PROVE LockInv'
      BY <3>3 DEF RemoveRule, Goto
    <3> QED BY <2>6, <3>1, <3>2, <3>3 DEF Command
  <2>7. CASE Remove
    BY <2>7 DEF Remove, RemovePass, RemoveFound, RemoveNotFound, Goto
  <2>8. CASE Save
    BY <2>8 DEF Save, Goto
  <2>9. CASE UNCHANGED vars
    BY <2>9 DEF vars
  <2> QED BY <2>1, <2>2, <2>3, <2>4, <2>5, <2>6, <2>7, <2>8, <2>9 DEF Next
<1> QED BY <1>1, <1>2, TypeCorrect, PTL DEF Spec

-----------------------------------------------------------------------------
\* Every step but the stores of a memmove, the store of len and the insertion
\* leaves the array alone.
ArrayStep ==
  \/ \E t \in Thread : StoreLen(t) \/ \E i \in Slots : StoreWord(t, i)
  \/ \E r \in Rule, c \in {"RULES", "QUERY"} : AddRule(r, c)

LEMMA ArrayFrame ==
  ASSUME [Next]_vars, ~ArrayStep
  PROVE  UNCHANGED <<slot, len>>
<1> USE DEF table, locals, moving
<1>1. CASE Tick
  BY <1>1 DEF Tick
<1>2. ASSUME NEW t \in Thread, Sweep(t) PROVE UNCHANGED <<slot, len>>
  BY <1>2 DEF Sweep, SweepSkip, SweepBegin, SweepStamp, SweepLock, SweepKeep, SweepDrop, SweepEnd
<1>3. ASSUME NEW t \in Thread, RemoveIndex(t) PROVE UNCHANGED <<slot, len>>
  BY <1>3 DEF ArrayStep, RemoveIndex, Shift, ShiftRefused, LoadWord, LoadLen, StoreLenWraps
<1>4. ASSUME NEW f \in Flow, Receive(f) PROVE UNCHANGED <<slot, len>>
  BY <1>4 DEF Receive
<1>5. CASE Lookup
  BY <1>5 DEF Lookup, LookupLen, LookupLock, LookupNext, LookupHit, LookupDefault, Verdict
<1>6. CASE Command
  BY <1>6 DEF ArrayStep, Command, ListRules, RemoveRule
<1>7. CASE Remove
  BY <1>7 DEF Remove, RemovePass, RemoveFound, RemoveNotFound
<1>8. CASE Save
  BY <1>8 DEF Save
<1>9. CASE UNCHANGED vars
  BY <1>9 DEF vars
<1> QED BY <1>1, <1>2, <1>3, <1>4, <1>5, <1>6, <1>7, <1>8, <1>9 DEF Next

\* Every step but those of a memmove leaves its words alone.
WordStep ==
  \E t \in Thread : Shift(t) \/ \E i \in Slots : LoadWord(t, i) \/ StoreWord(t, i)

LEMMA WordFrame ==
  ASSUME [Next]_vars, ~WordStep
  PROVE  UNCHANGED <<todo, buf, torn>>
<1> USE DEF locals, moving, history
<1>1. CASE Tick
  BY <1>1 DEF Tick
<1>2. ASSUME NEW t \in Thread, Sweep(t) PROVE UNCHANGED <<todo, buf, torn>>
  BY <1>2 DEF Sweep, SweepSkip, SweepBegin, SweepStamp, SweepLock, SweepKeep, SweepDrop, SweepEnd
<1>3. ASSUME NEW t \in Thread, RemoveIndex(t) PROVE UNCHANGED <<todo, buf, torn>>
  BY <1>3 DEF WordStep, RemoveIndex, ShiftRefused, LoadLen, StoreLen, StoreLenWraps, Observe
<1>4. ASSUME NEW f \in Flow, Receive(f) PROVE UNCHANGED <<todo, buf, torn>>
  BY <1>4 DEF Receive
<1>5. CASE Lookup
  BY <1>5 DEF Lookup, LookupLen, LookupLock, LookupNext, LookupHit, LookupDefault, Verdict
<1>6. CASE Command
  BY <1>6 DEF Command, ListRules, AddRule, RemoveRule, Observe
<1>7. CASE Remove
  BY <1>7 DEF Remove, RemovePass, RemoveFound, RemoveNotFound
<1>8. CASE Save
  BY <1>8 DEF Save
<1>9. CASE UNCHANGED vars
  BY <1>9 DEF vars
<1> QED BY <1>1, <1>2, <1>3, <1>4, <1>5, <1>6, <1>7, <1>8, <1>9 DEF Next

\* A removal in progress has loaded its length before, or does so now.
LEMMA LengthFrame ==
  ASSUME TypeOK, LockInv, [Next]_vars, NEW t \in Thread, pc'[t] \in {"move", "store"}
  PROVE  /\ \/ pc[t] = "move" /\ snap'[t] = snap[t]
            \/ pc[t] = "store" /\ snap'[t] = snap[t]
            \/ snap'[t] = len /\ len' = len
         /\ pc'[t] = "store" => pc[t] \in {"move", "store"}
<1> DEFINE Frame ==
         /\ \/ pc[t] = "move" /\ snap'[t] = snap[t]
            \/ pc[t] = "store" /\ snap'[t] = snap[t]
            \/ snap'[t] = len /\ len' = len
         /\ pc'[t] = "store" => pc[t] \in {"move", "store"}
<1> USE DEF TypeOK, table, locals, moving
<1>1. CASE Tick
  BY <1>1 DEF Tick
<1>2. ASSUME NEW u \in Thread, Sweep(u) PROVE Frame
  BY <1>2 DEF Sweep, SweepSkip, SweepBegin, SweepStamp, SweepLock, SweepKeep, SweepDrop, SweepEnd,
     Goto, AfterSweep
<1>3. ASSUME NEW u \in Thread, RemoveIndex(u) PROVE Frame
  <2>1. CASE Shift(u)
    BY <2>1 DEF Shift, Goto
  <2>2. CASE ShiftRefused(u)
    BY <2>2 DEF ShiftRefused, ReturnFromRemove, Goto
  <2>3. ASSUME NEW i \in Slots, LoadWord(u, i) \/ StoreWord(u, i) PROVE Frame
    BY <2>3 DEF LoadWord, StoreWord
  <2>4. CASE LoadLen(u)
    BY <2>4 DEF LoadLen, Goto
  <2>5. CASE StoreLen(u)
    BY <2>5 DEF StoreLen, ReturnFromRemove, Goto
  <2>6. CASE StoreLenWraps(u)
    BY <2>6 DEF StoreLenWraps
  <2> QED BY <1>3, <2>1, <2>2, <2>3, <2>4, <2>5, <2>6 DEF RemoveIndex
<1>4. ASSUME NEW f \in Flow, Receive(f) PROVE Frame
  BY <1>4 DEF Receive, Goto
<1>5. CASE Lookup
  BY <1>5 DEF Lookup, LookupLen, LookupLock, LookupNext, LookupHit, LookupDefault,
     EndScan, Verdict, Goto
<1>6. CASE Command
  BY <1>6 DEF Command, ListRules, AddRule, Insert, RemoveRule, Goto
<1>7. CASE Remove
  BY <1>7 DEF Remove, RemovePass, RemoveFound, RemoveNotFound, Goto
<1>8. CASE Save
  BY <1>8 DEF Save, Goto
<1>9. CASE UNCHANGED vars
  BY <1>9 DEF vars
<1> QED BY <1>1, <1>2, <1>3, <1>4, <1>5, <1>6, <1>7, <1>8, <1>9 DEF Next

\* Only an insertion makes another slot part of the table.
LEMMA CoveredFrame ==
  ASSUME TypeOK, LockInv, [Next]_vars,
         \A r \in Rule, c \in {"RULES", "QUERY"} : ~AddRule(r, c),
         NEW k \in Slots, Covered(k)'
  PROVE  Covered(k)
<1>1. CASE k <= len'
  <2>1. CASE len' = len
    BY <1>1, <2>1 DEF Covered
  <2>2. CASE len' # len
    <3>1. PICK t \in Thread : StoreLen(t)
      BY <2>2, ArrayFrame DEF ArrayStep, StoreWord
    <3>2. pc[t] = "store" /\ len' = snap[t] - 1 /\ snap[t] \in Nat
      BY <3>1 DEF StoreLen, TypeOK
    <3>3. k <= snap[t]
      BY <1>1, <3>2
    <3> QED BY <3>2, <3>3 DEF Covered
  <2> QED BY <2>1, <2>2
<1>2. ASSUME NEW t \in Thread, pc'[t] \in {"move", "store"}, k <= snap'[t] PROVE Covered(k)
  <2>1. CASE snap'[t] = len
    BY <1>2, <2>1 DEF Covered
  <2>2. CASE pc[t] \in {"move", "store"} /\ snap'[t] = snap[t]
    BY <1>2, <2>2 DEF Covered
  <2> QED BY <1>2, <2>1, <2>2, LengthFrame
<1> QED BY <1>1, <1>2 DEF Covered

\* A thread with words left to write goes on writing.
LEMMA MoveStays ==
  ASSUME TypeOK, [Next]_vars, ~WordStep,
         NEW t \in Thread, NEW i \in Slots, Busy(t, i), pc[t] = "move"
  PROVE  pc'[t] = "move" /\ snap'[t] = snap[t]
<1> DEFINE Stays == pc'[t] = "move" /\ snap'[t] = snap[t]
<1> USE DEF TypeOK, table, locals
<1>1. CASE Tick
  BY <1>1 DEF Tick
<1>2. ASSUME NEW u \in Thread, Sweep(u) PROVE Stays
  BY <1>2 DEF Sweep, SweepSkip, SweepBegin, SweepStamp, SweepLock, SweepKeep, SweepDrop, SweepEnd, Goto
<1>3. ASSUME NEW u \in Thread, RemoveIndex(u) PROVE Stays
  <2>1. ~LoadLen(t)
    BY DEF LoadLen, Copying, Busy
  <2> QED BY <1>3, <2>1 DEF WordStep, RemoveIndex, ShiftRefused, LoadLen, StoreLen, StoreLenWraps,
                            ReturnFromRemove, Goto
<1>4. ASSUME NEW f \in Flow, Receive(f) PROVE Stays
  BY <1>4 DEF Receive, Goto
<1>5. CASE Lookup
  BY <1>5 DEF Lookup, LookupLen, LookupLock, LookupNext, LookupHit, LookupDefault,
     EndScan, Verdict, Goto
<1>6. CASE Command
  BY <1>6 DEF Command, ListRules, AddRule, Insert, RemoveRule, Goto
<1>7. CASE Remove
  BY <1>7 DEF Remove, RemovePass, RemoveFound, RemoveNotFound, Goto
<1>8. CASE Save
  BY <1>8 DEF Save, Goto
<1>9. CASE UNCHANGED vars
  BY <1>9 DEF vars
<1> QED BY <1>1, <1>2, <1>3, <1>4, <1>5, <1>6, <1>7, <1>8, <1>9 DEF Next

\* An insertion finds no removal at work on the array.
LEMMA AddAlone ==
  ASSUME TypeOK, LockInv, FilledInv, NEW r \in Rule, NEW c, AddRule(r, c)
  PROVE  /\ \A t \in Thread : pc[t] \notin Removing /\ pc'[t] \notin Removing
         /\ \A t \in Thread, i \in Slots : ~Busy(t, i) /\ ~Busy(t, i)'
<1>1. \A t \in Thread : pc[t] \notin Removing /\ pc'[t] \notin Removing
  BY DEF AddRule, Insert, Goto, LockInv, TypeOK
<1>2. todo' = todo /\ buf' = buf
  BY DEF AddRule, moving
<1>3. \A t \in Thread, i \in Slots : ~Busy(t, i)
  BY <1>1 DEF FilledInv
<1> QED BY <1>1, <1>2, <1>3 DEF Busy

\* What an insertion makes of the array.
LEMMA AddFills ==
  ASSUME TypeOK, NEW r \in Rule, NEW c, AddRule(r, c)
  PROVE  /\ len \in Nat /\ len' = len + 1 /\ len + 1 \in Slots
         /\ r \in PermRule => /\ slot'[len + 1] = r
                              /\ \A i \in Slots : i # len + 1 => slot'[i] = slot[i]
         /\ r \notin PermRule =>
              \A i \in Slots : slot'[i] = IF i = 1 THEN r
                                          ELSE IF i <= len + 1 THEN slot[i - 1] ELSE slot[i]
<1> USE DEF TypeOK
<1>1. len \in Nat /\ len' = len + 1 /\ len + 1 \in Slots
  BY DEF AddRule, Insert
<1>2. CASE r \in PermRule
  <2>1. slot' = [slot EXCEPT ![len + 1] = r]
    BY <1>2 DEF AddRule, Insert
  <2> QED BY <1>1, <1>2, <2>1
<1>3. CASE r \notin PermRule
  <2>1. slot' = [i \in Slots |-> IF i = 1 THEN r
                                 ELSE IF i <= len + 1 THEN slot[i - 1]
                                 ELSE slot[i]]
    BY <1>3 DEF AddRule, Insert
  <2> QED BY <1>1, <1>3, <2>1
<1> QED BY <1>1, <1>2, <1>3

\* A slot of the table always holds a rule, and so does a word in a memmove.
LEMMA FilledCorrect == Spec => []FilledInv
<1>1. Init => FilledInv
  BY DEF Init, FilledInv, Covered, Busy
<1>2. TypeOK /\ LockInv /\ FilledInv /\ [Next]_vars => FilledInv'
  <2> SUFFICES ASSUME TypeOK, LockInv, FilledInv, [Next]_vars PROVE FilledInv'
    OBVIOUS
  <2>1. ASSUME \A r \in Rule, c \in {"RULES", "QUERY"} : ~AddRule(r, c),
               NEW k \in Slots, Covered(k)'
        PROVE  slot'[k] \in Rule
    <3>1. slot[k] \in Rule
      BY <2>1, CoveredFrame DEF FilledInv
    <3>2. ASSUME NEW t \in Thread, NEW i \in Slots, StoreWord(t, i) PROVE slot'[k] \in Rule
      BY <3>1, <3>2, StoreIs
    <3>3. ASSUME NEW t \in Thread, StoreLen(t) PROVE slot'[k] \in Rule
      BY <3>1, <3>3 DEF StoreLen
    <3>4. CASE ~ArrayStep
      BY <3>1, <3>4, ArrayFrame
    <3> QED BY <2>1, <3>2, <3>3, <3>4 DEF ArrayStep
  <2>2. ASSUME NEW r \in Rule, NEW c \in {"RULES", "QUERY"}, AddRule(r, c),
               NEW k \in Slots, Covered(k)'
        PROVE  slot'[k] \in Rule
    <3>1. k <= len'
      BY <2>2, AddAlone DEF Covered
    <3>2. \A i \in 1..len : slot[i] \in Rule
      BY DEF FilledInv, Covered, TypeOK
    <3>3. /\ len \in Nat /\ len' = len + 1 /\ k \in 1..(len + 1)
      BY <2>2, <3>1, AddFills
    <3>4. CASE r \in PermRule
      BY <2>2, <3>2, <3>3, <3>4, AddFills
    <3>5. CASE r \notin PermRule
      <4>1. slot'[k] = IF k = 1 THEN r ELSE slot[k - 1]
        BY <2>2, <3>3, <3>5, AddFills
      <4>2. k = 1 \/ k - 1 \in 1..len
        BY <3>3
      <4> QED BY <3>2, <4>1, <4>2
    <3> QED BY <3>4, <3>5
  <2>3. ASSUME NEW t \in Thread, NEW i \in Slots, Busy(t, i)'
        PROVE  pc'[t] = "move" /\ i < snap'[t]
    <3>1. ASSUME NEW u \in Thread, Shift(u) PROVE pc'[t] = "move" /\ i < snap'[t]
      <4>1. CASE u = t
        <5>1. /\ pc'[t] = "move" /\ snap'[t] = len /\ buf' = buf
              /\ todo'[t] = idx[t]..(len - 1) /\ pc[t] = "shift" /\ len \in Nat
          BY <3>1, <4>1 DEF Shift, Goto, TypeOK
        <5>2. ~Busy(t, i)
          BY <5>1 DEF FilledInv
        <5>3. i \in todo'[t]
          BY <2>3, <5>1, <5>2 DEF Busy
        <5> QED BY <5>1, <5>3
      <4>2. CASE u # t
        <5>1. /\ pc'[t] = pc[t] /\ snap'[t] = snap[t] /\ buf' = buf /\ todo'[t] = todo[t]
          BY <3>1, <4>2 DEF Shift, Goto, TypeOK
        <5> QED BY <2>3, <5>1 DEF FilledInv, Busy
      <4> QED BY <4>1, <4>2
    <3>2. ASSUME NEW u \in Thread, NEW j \in Slots, LoadWord(u, j) \/ StoreWord(u, j)
          PROVE  pc'[t] = "move" /\ i < snap'[t]
      <4>1. pc' = pc /\ snap' = snap
        BY <3>2 DEF LoadWord, StoreWord
      <4>2. Busy(t, i)
        <5>1. CASE LoadWord(u, j)
          BY <2>3, <5>1, LoadIs DEF Busy
        <5>2. CASE StoreWord(u, j)
          BY <2>3, <5>2, StoreIs DEF Busy
        <5> QED BY <3>2, <5>1, <5>2
      <4> QED BY <4>1, <4>2 DEF FilledInv
    <3>3. CASE ~WordStep
      <4>1. Busy(t, i) /\ pc[t] = "move" /\ i < snap[t]
        BY <2>3, <3>3, WordFrame DEF Busy, FilledInv
      <4> QED BY <3>3, <4>1, MoveStays
    <3> QED BY <3>1, <3>2, <3>3 DEF WordStep
  <2>4. \A k \in Slots : Covered(k)' => slot'[k] \in Rule
    BY <2>1, <2>2
  <2> QED BY <2>3, <2>4 DEF FilledInv
<1> QED BY <1>1, <1>2, TypeCorrect, LockCorrect, PTL DEF Spec

-----------------------------------------------------------------------------
(* The order of the array.                                                 *)

\* A word is loaded in its place between the slots and the other words.
LEMMA LoadKeepsOrder ==
  ASSUME TypeOK, LockInv, FilledInv, Sorted, WordsSorted, [Next]_vars,
         NEW t \in Thread, NEW i \in Slots, LoadWord(t, i)
  PROVE  Sorted' /\ WordsSorted'
<1>1. /\ slot' = slot /\ i \in todo[t] /\ buf'[t][i] = slot[i + 1]
      /\ i + 1 \in Slots /\ i \in Nat /\ MaxRules \in Nat
      /\ \A u \in Thread, k \in Slots : u # t \/ k # i => buf'[u][k] = buf[u][k]
  BY LoadIs DEF table
<1>2. Covered(i + 1)
  <2>1. pc[t] = "move" /\ i < snap[t] /\ snap[t] \in Nat
    BY <1>1 DEF FilledInv, Busy, TypeOK
  <2>2. i + 1 <= snap[t]
    BY <1>1, <2>1
  <2> QED BY <2>1, <2>2 DEF Covered
<1>3. \A k \in Slots : Covered(k)' => Covered(k)
  <2>1. \A r \in Rule, c \in {"RULES", "QUERY"} : ~AddRule(r, c)
    BY <1>1, <1>2 DEF AddRule, moving, LoadWord, LockInv, Insert, FilledInv, Busy
  <2> QED BY <2>1, CoveredFrame
<1>4. Sorted'
  BY <1>1, <1>3 DEF Sorted
<1>5. ASSUME NEW u \in Thread, NEW j \in Slots, buf'[u][j] # Nil PROVE Between(u, j)'
  <2>1. CASE u = t /\ j = i
    <3>1. buf'[u][j] = slot[i + 1]
      BY <1>1, <2>1 DEF TypeOK
    <3>2. \A k \in 1..i : slot[k] \in PermRule => slot[i + 1] \in PermRule
      BY <1>1, <1>2 DEF Sorted
    <3>3. \A k \in Slots : i < k /\ Covered(k) /\ slot[i + 1] \in PermRule => slot[k] \in PermRule
      <4> SUFFICES ASSUME NEW k \in Slots, i < k, Covered(k), slot[i + 1] \in PermRule
                   PROVE  slot[k] \in PermRule
        OBVIOUS
      <4>1. k = i + 1 \/ i + 1 < k
        BY <1>1
      <4> QED BY <1>1, <4>1 DEF Sorted
    <3>4. \A k \in Slots : i < k /\ buf'[t][k] # Nil /\ slot[i + 1] \in PermRule
                             => buf'[t][k] \in PermRule
      <4> SUFFICES ASSUME NEW k \in Slots, i < k, buf'[t][k] # Nil, slot[i + 1] \in PermRule
                   PROVE  buf'[t][k] \in PermRule
        OBVIOUS
      <4>1. buf'[t][k] = buf[t][k] /\ i + 1 \in 1..k
        BY SMTT(40), <1>1 DEF TypeOK
      <4> QED BY <4>1 DEF WordsSorted, Between
    <3> QED BY <1>1, <1>3, <2>1, <3>1, <3>2, <3>3, <3>4 DEF Between
  <2>2. CASE ~(u = t /\ j = i)
    <3>1. buf'[u][j] = buf[u][j] /\ Between(u, j)
      BY SMTT(40), <1>1, <1>5, <2>2 DEF TypeOK, WordsSorted
    <3>2. ASSUME NEW k \in Slots, j < k, buf'[u][k] # Nil, buf[u][j] \in PermRule
          PROVE  buf'[u][k] \in PermRule
      <4>1. CASE u = t /\ k = i
        <5>1. buf'[u][k] = slot[i + 1] /\ j < i + 1
          BY <1>1, <3>2, <4>1 DEF TypeOK
        <5> QED BY <1>1, <1>2, <3>1, <3>2, <5>1 DEF Between
      <4>2. CASE ~(u = t /\ k = i)
        <5>1. buf'[u][k] = buf[u][k]
          BY <1>1, <4>2 DEF TypeOK
        <5> QED BY <3>1, <3>2, <5>1 DEF Between
      <4> QED BY <4>1, <4>2
    <3>3. /\ \A k \in 1..j : slot[k] \in PermRule => buf[u][j] \in PermRule
          /\ \A k \in Slots : j < k /\ Covered(k) /\ buf[u][j] \in PermRule => slot[k] \in PermRule
      BY <3>1 DEF Between
    <3> QED BY <1>1, <1>3, <3>1, <3>2, <3>3 DEF Between
  <2> QED BY <2>1, <2>2
<1> QED BY <1>4, <1>5 DEF WordsSorted

\* A word is stored between the slots it belongs to.
LEMMA StoreKeepsOrder ==
  ASSUME TypeOK, LockInv, FilledInv, Sorted, WordsSorted, OneCopies, [Next]_vars,
         NEW t \in Thread, NEW i \in Slots, StoreWord(t, i)
  PROVE  Sorted' /\ WordsSorted'
<1>1. buf[t][i] # Nil /\ Between(t, i)
  BY DEF StoreWord, WordsSorted
<1>2. /\ slot'[i] = buf[t][i] /\ \A k \in Slots : k # i => slot'[k] = slot[k]
      /\ buf'[t][i] = Nil /\ \A k \in Slots : k # i => buf'[t][k] = buf[t][k]
      /\ \A u \in Thread, k \in Slots : u # t => buf'[u][k] = Nil
  <2>1. ASSUME NEW u \in Thread, NEW k \in Slots, u # t PROVE buf[u][k] = Nil
    BY <1>1, <2>1 DEF OneCopies, Copying
  <2> QED BY <2>1, StoreIs
<1>3. \A k \in Slots : Covered(k)' => Covered(k)
  <2>1. \A r \in Rule, c \in {"RULES", "QUERY"} : ~AddRule(r, c)
    BY <1>1, <1>2 DEF AddRule, moving
  <2> QED BY <2>1, CoveredFrame
<1> HIDE DEF Between
<1>4. /\ \A k \in 1..i : slot[k] \in PermRule => buf[t][i] \in PermRule
      /\ \A k \in Slots : i < k /\ Covered(k) /\ buf[t][i] \in PermRule => slot[k] \in PermRule
      /\ \A k \in Slots : i < k /\ buf[t][k] # Nil /\ buf[t][i] \in PermRule => buf[t][k] \in PermRule
  BY <1>1 DEF Between
<1>5. Sorted'
  <2> SUFFICES ASSUME NEW j \in Slots, NEW k \in Slots, j < k, Covered(k)', slot'[j] \in PermRule
               PROVE  slot'[k] \in PermRule
    BY DEF Sorted
  <2>0. Covered(k)
    BY <1>3
  <2>1. CASE j = i
    BY <1>2, <1>4, <2>0, <2>1
  <2>2. CASE k = i
    <3>1. j \in 1..i /\ slot'[j] = slot[j]
      BY <1>2, <2>2
    <3> QED BY <1>2, <1>4, <2>2, <3>1
  <2>3. CASE j # i /\ k # i
    BY <1>2, <2>0, <2>3 DEF Sorted
  <2> QED BY <2>1, <2>2, <2>3
<1>6. ASSUME NEW u \in Thread, NEW j \in Slots, buf'[u][j] # Nil PROVE Between(u, j)'
  <2>1. u = t /\ j # i /\ buf'[u][j] = buf[t][j] /\ Between(t, j)
    BY <1>2, <1>6 DEF WordsSorted
  <2>2. /\ \A k \in 1..j : slot[k] \in PermRule => buf[t][j] \in PermRule
        /\ \A k \in Slots : j < k /\ Covered(k) /\ buf[t][j] \in PermRule => slot[k] \in PermRule
        /\ \A k \in Slots : j < k /\ buf[t][k] # Nil /\ buf[t][j] \in PermRule => buf[t][k] \in PermRule
    BY <2>1 DEF Between
  <2>3. ASSUME NEW k \in 1..j, slot'[k] \in PermRule PROVE buf[t][j] \in PermRule
    <3>1. CASE k = i
      <4>1. i < j /\ buf[t][j] # Nil
        BY <1>6, <2>1, <2>3, <3>1
      <4> QED BY <1>2, <1>4, <2>3, <3>1, <4>1
    <3>2. CASE k # i
      BY <1>2, <2>2, <2>3, <3>2
    <3> QED BY <3>1, <3>2
  <2>4. ASSUME NEW k \in Slots, j < k, Covered(k)', buf[t][j] \in PermRule PROVE slot'[k] \in PermRule
    <3>1. CASE k = i
      BY <1>1, <1>2, <2>2, <2>4, <3>1
    <3>2. CASE k # i
      BY <1>2, <1>3, <2>2, <2>4, <3>2
    <3> QED BY <3>1, <3>2
  <2>5. ASSUME NEW k \in Slots, j < k, buf'[t][k] # Nil, buf[t][j] \in PermRule
        PROVE  buf'[t][k] \in PermRule
    BY <1>2, <2>2, <2>5
  <2> QED BY <2>1, <2>3, <2>4, <2>5 DEF Between
<1> QED BY <1>5, <1>6 DEF WordsSorted

\* The steps that write to no slot and load no word.
LEMMA OtherKeepsOrder ==
  ASSUME Sorted, WordsSorted, slot' = slot, buf' = buf,
         \A k \in Slots : Covered(k)' => Covered(k)
  PROVE  Sorted' /\ WordsSorted'
<1>1. \A k \in Slots : Covered(k)' => Covered(k)
  OBVIOUS
<1>2. Sorted'
  BY <1>1 DEF Sorted
<1>3. ASSUME NEW t \in Thread, NEW i \in Slots, Between(t, i) PROVE Between(t, i)'
  BY <1>1, <1>3 DEF Between
<1> QED BY <1>2, <1>3 DEF WordsSorted

\* Adding a session rule in front or a permanent one at the end keeps the order.
LEMMA AddKeepsOrder ==
  ASSUME TypeOK, LockInv, FilledInv, Sorted, NEW r \in Rule, NEW c, AddRule(r, c)
  PROVE  Sorted' /\ WordsSorted'
<1>1. \A k \in Slots : Covered(k)' => k <= len'
  BY AddAlone DEF Covered
<1>2. /\ len \in Nat /\ len' = len + 1 /\ len + 1 \in Slots
      /\ \A i, j \in 1..len : i < j /\ slot[i] \in PermRule => slot[j] \in PermRule
  BY AddFills DEF Sorted, Covered
<1>3. ASSUME NEW j \in 1..(len + 1), NEW k \in 1..(len + 1), j < k, slot'[j] \in PermRule
      PROVE  slot'[k] \in PermRule
  <2>1. CASE r \in PermRule
    BY <1>2, <1>3, <2>1, AddFills
  <2>2. CASE r \notin PermRule
    <3>1. /\ slot'[j] = IF j = 1 THEN r ELSE slot[j - 1]
          /\ slot'[k] = IF k = 1 THEN r ELSE slot[k - 1]
      BY <1>2, <1>3, <2>2, AddFills
    <3>2. j # 1 /\ k # 1
      BY <1>3, <2>2, <3>1
    <3>3. j - 1 \in 1..len /\ k - 1 \in 1..len /\ j - 1 < k - 1
      BY <1>2, <1>3, <3>2
    <3> QED BY <1>2, <1>3, <3>1, <3>2, <3>3
  <2> QED BY <2>1, <2>2
<1>4. Sorted'
  <2> SUFFICES ASSUME NEW j \in Slots, NEW k \in Slots, j < k, Covered(k)', slot'[j] \in PermRule
               PROVE  slot'[k] \in PermRule
    BY DEF Sorted
  <2>1. k <= len + 1
    BY <1>1, <1>2
  <2>2. j \in 1..(len + 1) /\ k \in 1..(len + 1)
    BY <1>2, <2>1
  <2> QED BY <1>3, <2>2
<1>5. WordsSorted'
  BY AddAlone DEF WordsSorted, Busy
<1> QED BY <1>4, <1>5

\* A memmove that begins while another is at work sets torn.
LEMMA OneCopiesFrame ==
  ASSUME TypeOK, FilledInv, OneCopies, [Next]_vars, ~torn'
  PROVE  OneCopies'
<1>1. ASSUME NEW t \in Thread, Shift(t) PROVE OneCopies'
  <2>1. /\ buf' = buf /\ todo'[t] = idx[t]..(len - 1) /\ pc[t] = "shift"
        /\ \A u \in Thread : u # t => todo'[u] = todo[u]
        /\ idx[t] < len => \A u \in Thread : u # t => ~Copying(u)
        /\ idx[t] \in Nat /\ len \in Nat
    <3>1. /\ buf' = buf /\ todo' = [todo EXCEPT ![t] = idx[t]..(len - 1)] /\ pc[t] = "shift"
          /\ torn' = (torn \/ (idx[t] < len /\ \E u \in Thread \ {t} : Copying(u)))
      BY <1>1 DEF Shift
    <3>2. idx[t] < len => \A u \in Thread : u # t => ~Copying(u)
      BY <3>1
    <3> QED BY <3>1, <3>2 DEF TypeOK
  <2>2. \A i \in Slots : buf[t][i] = Nil
    BY <2>1 DEF FilledInv, Busy
  <2>3. \A u \in Thread : u # t => (Copying(u)' <=> Copying(u))
    BY <2>1 DEF Copying
  <2>4. CASE idx[t] < len
    BY <2>1, <2>3, <2>4 DEF OneCopies
  <2>5. CASE ~(idx[t] < len)
    <3>1. todo'[t] = {}
      BY <2>1, <2>5
    <3>2. ~Copying(t)'
      BY <2>1, <2>2, <3>1 DEF Copying
    <3> QED BY <2>3, <3>2 DEF OneCopies
  <2> QED BY <2>4, <2>5
<1>2. ASSUME NEW t \in Thread, NEW i \in Slots, LoadWord(t, i) \/ StoreWord(t, i) PROVE OneCopies'
  <2>1. \A u \in Thread : Copying(u)' => Copying(u)
    <3>1. CASE LoadWord(t, i)
      BY <3>1, LoadIs DEF Copying
    <3>2. CASE StoreWord(t, i)
      BY <3>2, StoreIs DEF Copying
    <3> QED BY <1>2, <3>1, <3>2
  <2> QED BY <2>1 DEF OneCopies
<1>3. CASE ~WordStep
  BY <1>3, WordFrame DEF OneCopies, Copying
<1> QED BY <1>1, <1>2, <1>3 DEF WordStep

\* The array and the words under way stay in order under both threads,
\* whatever lengths they store, until two memmoves overlap.
THEOREM OrderCorrect == Spec => []OrderInv
<1>1. Init => OrderInv
  BY DEF Init, OrderInv, Sorted, WordsSorted, OneCopies, Copying
<1>2. TypeOK /\ LockInv /\ FilledInv /\ OrderInv /\ [Next]_vars => OrderInv'
  <2> SUFFICES ASSUME TypeOK, LockInv, FilledInv, OrderInv, [Next]_vars, ~torn'
               PROVE  Sorted' /\ WordsSorted' /\ OneCopies'
    BY DEF OrderInv
  <2>1. ~torn
    <3>1. CASE WordStep
      BY <3>1 DEF WordStep, Shift, LoadWord, StoreWord, Observe, history, TypeOK
    <3>2. CASE ~WordStep
      BY <3>2, WordFrame
    <3> QED BY <3>1, <3>2
  <2>2. Sorted /\ WordsSorted /\ OneCopies
    BY <2>1 DEF OrderInv
  <2>3. OneCopies'
    BY <2>2, OneCopiesFrame
  <2>4. ASSUME NEW t \in Thread, NEW i \in Slots, LoadWord(t, i) PROVE Sorted' /\ WordsSorted'
    BY <2>2, <2>4, LoadKeepsOrder
  <2>5. ASSUME NEW t \in Thread, NEW i \in Slots, StoreWord(t, i) PROVE Sorted' /\ WordsSorted'
    BY <2>2, <2>5, StoreKeepsOrder
  <2>6. ASSUME NEW r \in Rule, NEW c \in {"RULES", "QUERY"}, AddRule(r, c)
        PROVE  Sorted' /\ WordsSorted'
    BY <2>2, <2>6, AddKeepsOrder
  <2>7. CASE /\ \A t \in Thread, i \in Slots : ~LoadWord(t, i) /\ ~StoreWord(t, i)
             /\ \A r \in Rule, c \in {"RULES", "QUERY"} : ~AddRule(r, c)
    <3>1. slot' = slot
      BY <2>7, ArrayFrame DEF ArrayStep, StoreLen
    <3>2. buf' = buf
      <4>1. ASSUME NEW t \in Thread, Shift(t) PROVE buf' = buf
        BY <4>1 DEF Shift
      <4>2. CASE ~WordStep
        BY <4>2, WordFrame
      <4> QED BY <2>7, <4>1, <4>2 DEF WordStep
    <3>3. \A k \in Slots : Covered(k)' => Covered(k)
      BY <2>7, CoveredFrame
    <3> QED BY <2>2, <2>3, <3>1, <3>2, <3>3, OtherKeepsOrder
  <2> QED BY <2>3, <2>4, <2>5, <2>6, <2>7
<1> QED BY <1>1, <1>2, TypeCorrect, LockCorrect, FilledCorrect, PTL DEF Spec

\* Session rules are checked before permanent ones, unless two memmoves have
\* torn the array.
THEOREM SessionRulesFirst == Spec => []SessionFirst
<1>1. TypeOK /\ OrderInv => SessionFirst
  BY DEF TypeOK, OrderInv, Sorted, Covered, SessionFirst
<1> QED BY <1>1, TypeCorrect, OrderCorrect, PTL

-----------------------------------------------------------------------------
\* What a step that leaves the array alone does to a lookup: it starts one,
\* goes on with one, or has given its verdict.
LookupBegins ==
  pc[Main] = "lookup" /\ bound' = len /\ seen' = Live /\ idx'[Main] = 1

LookupGoesOn ==
  /\ pc[Main] \in {"scanLock", "scan"}
  /\ UNCHANGED <<bound, seen, stable, flow>>
  /\ \/ idx'[Main] = idx[Main]
     \/ idx'[Main] = idx[Main] + 1 /\ ~Hits(slot[idx[Main]])

LookupEnded ==
  /\ UNCHANGED <<seen, stable, flow>>
  /\ \/ pc[Main] = "verdict" /\ verdict' = verdict
     \/ pc[Main] = "scan" /\ idx[Main] > bound /\ verdict' = "default"
     \/ /\ pc[Main] = "scan" /\ idx[Main] <= bound
        /\ Hits(slot[idx[Main]]) /\ verdict' = slot[idx[Main]]

LEMMA LookupFrame ==
  ASSUME TypeOK, LockInv, [Next]_vars, ~ArrayStep
  PROVE  /\ pc'[Main] \in {"scanLock", "scan"} => LookupBegins \/ LookupGoesOn
         /\ pc'[Main] = "verdict" => LookupEnded
<1> DEFINE Frame ==
         /\ pc'[Main] \in {"scanLock", "scan"} => LookupBegins \/ LookupGoesOn
         /\ pc'[Main] = "verdict" => LookupEnded
<1> USE DEF LookupBegins, LookupGoesOn, LookupEnded
<1> USE DEF TypeOK, LockInv, table, locals, moving, history
<1>1. CASE Tick
  BY <1>1 DEF Tick
<1>2. ASSUME NEW t \in Thread, Sweep(t) PROVE Frame
  BY SMTT(60), <1>2 DEF Sweep, SweepSkip, SweepBegin, SweepStamp, SweepLock, SweepKeep, SweepDrop, SweepEnd,
     Goto, AfterSweep
<1>3. ASSUME NEW t \in Thread, RemoveIndex(t) PROVE Frame
  <2>1. CASE ShiftRefused(t)
    BY SMTT(40), <2>1 DEF ShiftRefused, ReturnFromRemove, Goto
  <2>2. CASE LoadLen(t)
    BY <2>2 DEF LoadLen, Goto
  <2>3. CASE StoreLenWraps(t)
    BY <2>3 DEF StoreLenWraps
  <2>4. CASE Shift(t)
    BY <2>4 DEF Shift, Goto
  <2>5. ASSUME NEW i \in Slots, LoadWord(t, i) PROVE Frame
    BY <2>5 DEF LoadWord
  <2> QED BY <1>3, <2>1, <2>2, <2>3, <2>4, <2>5 DEF ArrayStep, RemoveIndex
<1>4. ASSUME NEW f \in Flow, Receive(f) PROVE Frame
  BY <1>4 DEF Receive, Goto
<1>5. CASE Lookup
  <2>1. CASE LookupLen
    BY <2>1 DEF LookupLen, Goto
  <2>2. CASE LookupLock
    BY <2>2 DEF LookupLock, Goto
  <2>3. CASE LookupNext
    BY <2>3 DEF LookupNext
  <2>4. CASE LookupHit
    BY <2>4 DEF LookupHit, EndScan, Goto
  <2>5. CASE LookupDefault
    BY <2>5 DEF LookupDefault, EndScan, Goto
  <2>6. CASE Verdict
    BY <2>6 DEF Verdict, Goto
  <2> QED BY <1>5, <2>1, <2>2, <2>3, <2>4, <2>5, <2>6 DEF Lookup
<1>6. CASE Command
  BY <1>6 DEF ArrayStep, Command, ListRules, RemoveRule, Goto
<1>7. CASE Remove
  BY <1>7 DEF Remove, RemovePass, RemoveFound, RemoveNotFound, Goto
<1>8. CASE Save
  BY <1>8 DEF Save, Goto
<1>9. CASE UNCHANGED vars
  BY <1>9 DEF vars
<1> QED BY <1>1, <1>2, <1>3, <1>4, <1>5, <1>6, <1>7, <1>8, <1>9 DEF Next

\* The words of a memmove are those it began with.
LEMMA NewWord ==
  ASSUME TypeOK, [Next]_vars, NEW t \in Thread, NEW i \in Slots, ~Busy(t, i), Busy(t, i)'
  PROVE  Shift(t)
<1>1. CASE ~WordStep
  BY <1>1, WordFrame DEF Busy
<1>2. ASSUME NEW u \in Thread, Shift(u), u # t PROVE FALSE
  BY <1>2 DEF Shift, Busy, TypeOK
<1>3. ASSUME NEW u \in Thread, NEW j \in Slots, LoadWord(u, j) \/ StoreWord(u, j) PROVE FALSE
  <2>1. ~LoadWord(u, j)
    BY LoadIs DEF Busy
  <2>2. ~StoreWord(u, j)
    BY StoreIs DEF Busy
  <2> QED BY <1>3, <2>1, <2>2
<1> QED BY <1>1, <1>2, <1>3 DEF WordStep

\* A write to the array during a lookup records what it leaves in the table;
\* every slot the scan may read keeps its content or is among the first len.
LEMMA ArrayObserved ==
  ASSUME TypeOK, LockInv, FilledInv, ScanInv, ArrayStep, pc'[Main] \in Looking
  PROVE  /\ pc'[Main] = pc[Main] /\ bound' = bound /\ verdict' = verdict
         /\ seen' = seen \cup LiveIn(slot', len') /\ stable' = FALSE
         /\ pc[Main] # "verdict" =>
              \A i \in 1..bound : slot'[i] = slot[i] \/ i \in 1..len'
         /\ \A i \in Slots : Busy(Comm, i)' => Busy(Comm, i) /\ len' = len
<1> USE DEF TypeOK, LockInv
<1> DEFINE Observed ==
         /\ pc'[Main] = pc[Main] /\ bound' = bound /\ verdict' = verdict
         /\ seen' = seen \cup LiveIn(slot', len') /\ stable' = FALSE
         /\ pc[Main] # "verdict" =>
              \A i \in 1..bound : slot'[i] = slot[i] \/ i \in 1..len'
         /\ \A i \in Slots : Busy(Comm, i)' => Busy(Comm, i) /\ len' = len
<1>1. ASSUME NEW t \in Thread, NEW i \in Slots, StoreWord(t, i) PROVE Observed
  <2>1. /\ pc' = pc /\ bound' = bound /\ verdict' = verdict /\ len' = len
        /\ seen' = seen \cup LiveIn(slot', len') /\ stable' = FALSE
    BY <1>1 DEF StoreWord, Observe
  <2>2. /\ Busy(t, i) /\ \A k \in Slots : k # i => slot'[k] = slot[k]
        /\ \A k \in Slots : Busy(Comm, k)' => Busy(Comm, k)
    BY <1>1 DEF StoreWord, Busy
  <2>3. t = Comm
    BY <2>1, <2>2 DEF FilledInv
  <2>4. pc[Main] # "verdict" => \A k \in 1..bound : slot'[k] = slot[k] \/ k \in 1..len'
    BY <2>1, <2>2, <2>3 DEF ScanInv
  <2> QED BY <2>1, <2>2, <2>4
<1>2. ASSUME NEW t \in Thread, StoreLen(t) PROVE Observed
  <2>1. pc'[Main] = pc[Main] /\ pc[t] = "store" /\ t = Comm
    BY <1>2 DEF StoreLen, ReturnFromRemove, Goto
  <2>2. /\ bound' = bound /\ verdict' = verdict /\ slot' = slot /\ todo' = todo /\ buf' = buf
        /\ seen' = seen \cup LiveIn(slot', len') /\ stable' = FALSE
    BY <1>2, <2>1 DEF StoreLen, Observe, moving
  <2>3. \A k \in Slots : ~Busy(Comm, k)'
    BY <2>1, <2>2 DEF FilledInv, Busy
  <2> QED BY <2>1, <2>2, <2>3
<1>3. ASSUME NEW r \in Rule, NEW c \in {"RULES", "QUERY"}, AddRule(r, c) PROVE Observed
  <2>1. pc'[Main] = pc[Main]
    BY <1>3 DEF AddRule, Goto
  <2>2. /\ bound' = bound /\ verdict' = verdict
        /\ seen' = seen \cup LiveIn(slot', len') /\ stable' = FALSE
    BY <1>3, <2>1 DEF AddRule, Observe
  <2>3. \A k \in Slots : ~Busy(Comm, k)'
    BY <1>3, AddAlone
  <2>4. \A k \in Slots : slot'[k] = slot[k] \/ k \in 1..len'
    <3>1. len' = len + 1 /\ len \in Nat
      BY <1>3, AddFills
    <3>2. CASE r \in PermRule
      BY SMTT(40), <1>3, <3>1, <3>2, AddFills
    <3>3. CASE r \notin PermRule
      <4>1. \A k \in Slots : slot'[k] = IF k = 1 THEN r
                                        ELSE IF k <= len + 1 THEN slot[k - 1] ELSE slot[k]
        BY <1>3, <3>3, AddFills
      <4> QED BY <3>1, <4>1
    <3> QED BY <3>2, <3>3
  <2> QED BY <2>1, <2>2, <2>3, <2>4
<1>4. Observed
  <2> HIDE DEF Observed
  <2> QED BY <1>1, <1>2, <1>3 DEF ArrayStep
<1> QED BY <1>4

\* The rules a scan can still reach have been in the table since it began.
THEOREM ScanCorrect == Spec => []ScanInv
<1>1. Init => ScanInv
  BY DEF Init, ScanInv, MatchedWasLive
<1>2. TypeOK /\ TypeOK' /\ LockInv /\ FilledInv /\ FilledInv' /\ ScanInv /\ [Next]_vars
        => ScanInv'
  <2> SUFFICES ASSUME TypeOK, TypeOK', LockInv, FilledInv, FilledInv', ScanInv, [Next]_vars
               PROVE  ScanInv'
    OBVIOUS
  <2>0. idx[Main] \in Nat \ {0} /\ bound \in Nat
    BY DEF TypeOK
  <2>1. CASE ~ArrayStep
    <3>1. slot' = slot /\ len' = len
      BY <2>1, ArrayFrame
    <3>2. ASSUME pc'[Main] \in {"scanLock", "scan"}, NEW i \in 1..bound'
          PROVE  /\ slot'[i] \in Rule /\ slot'[i] \in seen'
                 /\ Busy(Comm, i)' => i <= len'
      <4>0. i \in Slots
        BY DEF TypeOK
      <4>1. CASE LookupBegins
        <5>1. i \in 1..len /\ seen' = Live
          BY <3>2, <4>1 DEF LookupBegins
        <5>2. slot[i] \in Rule
          BY <4>0, <5>1 DEF FilledInv, Covered
        <5> QED BY <3>1, <5>1, <5>2 DEF Live, LiveIn
      <4>2. CASE LookupGoesOn
        <5>1. /\ pc[Main] \in {"scanLock", "scan"} /\ bound' = bound /\ seen' = seen
              /\ slot[i] \in Rule /\ slot[i] \in seen /\ (Busy(Comm, i) => i <= len)
          BY <3>2, <4>2 DEF LookupGoesOn, ScanInv
        <5>2. ASSUME Busy(Comm, i)' PROVE i <= len
          <6>1. CASE Busy(Comm, i)
            BY <5>1, <6>1
          <6>2. CASE ~Busy(Comm, i)
            <7>1. Shift(Comm)
              BY <4>0, <5>2, <6>2, NewWord
            <7>2. i \in idx[Comm]..(len - 1)
              BY <5>2, <6>2, <7>1 DEF Shift, Busy, TypeOK
            <7> QED BY <7>2 DEF TypeOK
          <6> QED BY <6>1, <6>2
        <5> QED BY <3>1, <5>1, <5>2
      <4> QED BY <2>1, <3>2, <4>1, <4>2, LookupFrame
    <3>3. pc'[Main] = "verdict" /\ verdict' # "default" => verdict' \in seen'
      <4>1. ASSUME LookupEnded, pc[Main] = "scan", idx[Main] <= bound,
                   verdict' = slot[idx[Main]]
            PROVE  verdict' \in seen'
        <5>1. idx[Main] \in 1..bound
          BY <2>0, <4>1
        <5> QED BY <4>1, <5>1 DEF LookupEnded, ScanInv
      <4> QED BY <2>1, <4>1, LookupFrame DEF LookupEnded, ScanInv, MatchedWasLive
    <3> QED BY <3>2, <3>3 DEF ScanInv, MatchedWasLive
  <2>2. CASE ArrayStep
    <3> SUFFICES ASSUME pc'[Main] \in Looking PROVE ScanInv'
      BY DEF ScanInv, MatchedWasLive
    <3>1. /\ pc'[Main] = pc[Main] /\ bound' = bound /\ verdict' = verdict
          /\ seen' = seen \cup LiveIn(slot', len')
          /\ pc[Main] # "verdict" => \A i \in 1..bound : slot'[i] = slot[i] \/ i \in 1..len'
          /\ \A i \in Slots : Busy(Comm, i)' => Busy(Comm, i) /\ len' = len
      BY <2>2, ArrayObserved
    <3>2. ASSUME pc[Main] \in {"scanLock", "scan"}, NEW i \in 1..bound
          PROVE  /\ slot'[i] \in Rule /\ slot'[i] \in seen'
                 /\ Busy(Comm, i)' => i <= len'
      <4>0. i \in Slots
        BY DEF TypeOK
      <4>1. slot[i] \in Rule /\ slot[i] \in seen /\ (Busy(Comm, i) => i <= len)
        BY <3>2 DEF ScanInv
      <4>2. CASE slot'[i] = slot[i]
        BY <3>1, <4>0, <4>1, <4>2
      <4>3. CASE i \in 1..len'
        <5>1. slot'[i] \in Rule
          BY <4>0, <4>3 DEF FilledInv, Covered
        <5> QED BY <3>1, <4>0, <4>1, <4>3, <5>1 DEF LiveIn
      <4> QED BY <3>1, <3>2, <4>2, <4>3
    <3>3. pc'[Main] = "verdict" /\ verdict' # "default" => verdict' \in seen'
      BY <3>1 DEF ScanInv, MatchedWasLive
    <3> QED BY <3>1, <3>2, <3>3 DEF ScanInv, MatchedWasLive
  <2> QED BY <2>1, <2>2
<1> QED BY <1>1, <1>2, TypeCorrect, LockCorrect, FilledCorrect, PTL DEF Spec

\* A packet is never decided by a rule that had left the table before the
\* packet's lookup began.
THEOREM MatchedRuleWasLive == Spec => []MatchedWasLive
<1>1. ScanInv => MatchedWasLive
  BY DEF ScanInv
<1> QED BY <1>1, ScanCorrect, PTL

\* The scan only dereferences slots that hold a rule.
THEOREM ScanSafe == Spec => []ScanReadsRules
<1>1. TypeOK /\ ScanInv => ScanReadsRules
  BY DEF TypeOK, ScanInv, ScanReadsRules
<1> QED BY <1>1, TypeCorrect, ScanCorrect, PTL

\* While nobody touches the table, the scan passes over exactly the rules that
\* do not cover the packet.
THEOREM StableCorrect == Spec => []StableInv
<1>1. Init => StableInv
  BY DEF Init, StableInv, FirstMatchWhenStable
<1>2. TypeOK /\ LockInv /\ FilledInv /\ ScanInv /\ StableInv /\ [Next]_vars => StableInv'
  <2> SUFFICES ASSUME TypeOK, LockInv, FilledInv, ScanInv, StableInv, [Next]_vars
               PROVE  StableInv'
    OBVIOUS
  <2>0. idx[Main] \in Nat \ {0} /\ len \in Nat /\ bound \in Nat
    BY DEF TypeOK
  <2>1. CASE ~ArrayStep
    <3>1. slot' = slot /\ len' = len
      BY <2>1, ArrayFrame
    <3>2. ASSUME pc'[Main] \in {"scanLock", "scan"}, stable'
          PROVE  /\ bound' = len'
                 /\ \A j \in 1..(idx'[Main] - 1) : j <= len' => ~Hits(slot[j])'
      <4>1. CASE LookupBegins
        BY <3>1, <4>1 DEF LookupBegins
      <4>2. CASE LookupGoesOn
        <5>1. /\ bound = len /\ stable
              /\ \A j \in 1..(idx[Main] - 1) : j <= len => ~Hits(slot[j])
          BY <3>2, <4>2 DEF LookupGoesOn, StableInv
        <5>2. ASSUME NEW j \in 1..(idx'[Main] - 1), j <= len PROVE ~Hits(slot[j])
          <6>1. CASE idx'[Main] = idx[Main]
            BY <5>1, <5>2, <6>1
          <6>2. CASE idx'[Main] = idx[Main] + 1 /\ ~Hits(slot[idx[Main]])
            <7>1. j \in 1..(idx[Main] - 1) \/ j = idx[Main]
              BY <2>0, <5>2, <6>2
            <7> QED BY <5>1, <5>2, <6>2, <7>1
          <6> QED BY <4>2, <6>1, <6>2 DEF LookupGoesOn
        <5> QED BY <3>1, <4>2, <5>1, <5>2 DEF LookupGoesOn, Hits
      <4> QED BY <2>1, <3>2, <4>1, <4>2, LookupFrame
    <3>3. FirstMatchWhenStable'
      <4> SUFFICES ASSUME pc'[Main] = "verdict", stable' PROVE FirstMatchWhenStable'
        BY DEF FirstMatchWhenStable
      <4>1. LookupEnded /\ stable
        BY <2>1, LookupFrame DEF LookupEnded
      <4>2. CASE pc[Main] = "verdict" /\ verdict' = verdict
        BY <3>1, <4>1, <4>2 DEF LookupEnded, StableInv, FirstMatchWhenStable, Hits
      <4>3. CASE pc[Main] = "scan"
        <5>1. /\ bound = len
              /\ \A j \in 1..(idx[Main] - 1) : j <= len => ~Hits(slot[j])
          BY <4>1, <4>3 DEF StableInv
        <5>2. CASE idx[Main] > bound /\ verdict' = "default"
          <6>1. \A j \in 1..len : ~Hits(slot[j])
            BY <2>0, <5>1, <5>2
          <6> QED BY <3>1, <4>1, <5>2, <6>1 DEF LookupEnded, FirstMatchWhenStable, Hits
        <5>3. CASE /\ idx[Main] <= bound /\ Hits(slot[idx[Main]])
                   /\ verdict' = slot[idx[Main]]
          <6>1. /\ idx[Main] \in 1..len
                /\ \A j \in 1..(idx[Main] - 1) : ~Hits(slot[j])
            BY <2>0, <5>1, <5>3
          <6>2. verdict' # "default"
            BY <5>3 DEF Hits
          <6> QED BY <3>1, <4>1, <5>3, <6>1, <6>2
                  DEF LookupEnded, FirstMatchWhenStable, Hits
        <5> QED BY <4>1, <4>3, <5>2, <5>3 DEF LookupEnded
      <4> QED BY <4>1, <4>2, <4>3 DEF LookupEnded
    <3> QED BY <3>2, <3>3 DEF StableInv
  <2>2. CASE ArrayStep
    <3>1. pc'[Main] \in Looking => stable' = FALSE
      BY <2>2, ArrayObserved
    <3> QED BY <3>1 DEF StableInv, FirstMatchWhenStable
  <2> QED BY <2>1, <2>2
<1> QED BY <1>1, <1>2, TypeCorrect, LockCorrect, FilledCorrect, ScanCorrect, PTL DEF Spec

\* A table that does not change during a lookup decides by first match.
THEOREM FirstMatch == Spec => []FirstMatchWhenStable
<1>1. StableInv => FirstMatchWhenStable
  BY DEF StableInv
<1> QED BY <1>1, StableCorrect, PTL

\* The inductive invariant as a whole.
THEOREM Invariance == Spec => []IInv
BY TypeCorrect, LockCorrect, FilledCorrect, OrderCorrect, ScanCorrect, StableCorrect, PTL DEF IInv
=============================================================================
