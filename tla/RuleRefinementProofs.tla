------------------------ MODULE RuleRefinementProofs ------------------------
(***************************************************************************)
(* Proof that the array of RuleTable, with its removal word by word, its   *)
(* sweeps and scans, behaves as the list of RuleList, while no packet is   *)
(* handled during a RULES REMOVE.                                          *)
(***************************************************************************)
EXTENDS RuleRefinement, RuleTableProofs, FiniteSetTheorems, SequenceTheorems,
        NaturalsInduction, WellFoundedInduction

\* A nonempty set of numbers has a least one: induction, as a set.
LEMMA LeastNumber ==
  ASSUME NEW T \in SUBSET Nat, T # {}
  PROVE  \E m \in T : \A k \in T : m <= k
<1> DEFINE Less == {ss \in Nat \X Nat : ss[1] < ss[2]}
<1>1. IsWellFoundedOn(Less, Nat)
  BY NatLessThanWellFounded DEF OpToRel
<1>2. \A k, m \in Nat : k < m => <<k, m>> \in Less
  OBVIOUS
<1> HIDE DEF Less
<1>3. PICK m \in T : \A k \in T : ~(<<k, m>> \in Less)
  BY <1>1, WFMin
<1>4. \A k \in T : k \in Nat
  OBVIOUS
<1>5. \A k \in T : ~(k < m)
  BY <1>2, <1>3, <1>4
<1> QED BY <1>4, <1>5

\* One pass over n slots keeps those in P, given what it keeps of fewer.
Pass(g, s, P, n) ==
  [i \in 0..n |-> IF i = 0 THEN << >>
                  ELSE IF s[i] \in P THEN Append(g[i - 1], s[i])
                  ELSE g[i - 1]]

\* What is kept of an array whose first k slots are not in P and the others are.
From(s, k, n) == [i \in 0..n |-> [j \in 1..(i - k) |-> s[k + j]]]

\* The rule at i is kept if it is in P.
LEMMA KeepNext ==
  ASSUME NEW n \in Nat, NEW k \in 0..n, NEW s, NEW P,
         \A i \in 1..n : s[i] \in P <=> i > k,
         NEW i \in 1..n, NEW q, q = [j \in 1..(i - 1 - k) |-> s[k + j]]
  PROVE  [j \in 1..(i - k) |-> s[k + j]] =
           IF s[i] \in P THEN Append(q, s[i]) ELSE q
<1>1. CASE i > k
  <2> DEFINE m == i - 1 - k
  <2>1. m \in Nat /\ i - k = m + 1 /\ k + (m + 1) = i
    BY <1>1
  <2> HIDE DEF m
  <2>2. q = [j \in 1..m |-> s[k + j]]
    BY DEF m
  <2>3. Append(q, s[i]) = [j \in 1..(m + 1) |-> IF j = m + 1 THEN s[i] ELSE q[j]]
    BY <2>1, <2>2
  <2>4. ASSUME NEW j \in 1..(m + 1)
        PROVE  s[k + j] = IF j = m + 1 THEN s[i] ELSE q[j]
    BY <2>1, <2>2
  <2> QED BY <1>1, <2>1, <2>3, <2>4
<1>2. CASE ~(i > k)
  <2>1. 1..(i - k) = {} /\ 1..(i - 1 - k) = {}
    BY <1>2
  <2> QED BY <1>2, <2>1
<1> QED BY <1>1, <1>2

\* The closed form satisfies the equation of the pass.
LEMMA FromPasses ==
  ASSUME NEW n \in Nat, NEW k \in 0..n, NEW s, NEW P,
         \A i \in 1..n : s[i] \in P <=> i > k
  PROVE  From(s, k, n) = Pass(From(s, k, n), s, P, n)
<1> DEFINE T == From(s, k, n)
<1>1. ASSUME NEW i \in 1..n
      PROVE  T[i] = IF s[i] \in P THEN Append(T[i - 1], s[i]) ELSE T[i - 1]
  <2>1. i - 1 \in 0..n /\ i \in 0..n
    OBVIOUS
  <2>2. T[i - 1] = [j \in 1..(i - 1 - k) |-> s[k + j]] /\ T[i] = [j \in 1..(i - k) |-> s[k + j]]
    BY <2>1 DEF From
  <2> HIDE DEF T
  <2> DEFINE q == T[i - 1]
  <2>3. q = [j \in 1..(i - 1 - k) |-> s[k + j]]
    BY <2>2
  <2> HIDE DEF q
  <2>4. [j \in 1..(i - k) |-> s[k + j]] = IF s[i] \in P THEN Append(q, s[i]) ELSE q
    BY SMTT(40), <2>3, KeepNext
  <2> QED BY <2>2, <2>4 DEF q
<1>2. T[0] = << >>
  <2>1. 1..(0 - k) = {}
    OBVIOUS
  <2> QED BY <2>1 DEF From
<1>3. T = [i \in 0..n |-> T[i]]
  BY DEF From
<1> HIDE DEF T
<1>4. \A i \in 0..n : T[i] = IF i = 0 THEN << >>
                  ELSE IF s[i] \in P THEN Append(T[i - 1], s[i])
                  ELSE T[i - 1]
  BY <1>1, <1>2
<1>5. T = Pass(T, s, P, n)
  BY <1>3, <1>4 DEF Pass
<1> QED BY <1>5 DEF T

\* It is the only one that does.
LEMMA PassIsFrom ==
  ASSUME NEW n \in Nat, NEW k \in 0..n, NEW s, NEW P,
         \A i \in 1..n : s[i] \in P <=> i > k,
         NEW g, g = Pass(g, s, P, n)
  PROVE  g = From(s, k, n)
<1> DEFINE h == From(s, k, n)
<1>1. h = Pass(h, s, P, n)
  BY FromPasses
<1> DEFINE T == {i \in 0..n : g[i] # h[i]}
<1>2. /\ DOMAIN g = 0..n /\ DOMAIN h = 0..n
      /\ g = [i \in 0..n |-> g[i]] /\ h = [i \in 0..n |-> h[i]]
  BY <1>1 DEF Pass
<1> HIDE DEF h
<1>3. /\ g[0] = h[0]
      /\ \A i \in 1..n : g[i - 1] = h[i - 1] => g[i] = h[i]
  <2>1. \A i \in 0..n : Pass(g, s, P, n)[i] = IF i = 0 THEN << >>
                  ELSE IF s[i] \in P THEN Append(g[i - 1], s[i]) ELSE g[i - 1]
    BY DEF Pass
  <2>2. \A i \in 0..n : Pass(h, s, P, n)[i] = IF i = 0 THEN << >>
                  ELSE IF s[i] \in P THEN Append(h[i - 1], s[i]) ELSE h[i - 1]
    BY DEF Pass
  <2>3. \A i \in 0..n : g[i] = Pass(g, s, P, n)[i]
    OBVIOUS
  <2>4. \A i \in 0..n : h[i] = Pass(h, s, P, n)[i]
    BY <1>1
  <2> QED BY <2>1, <2>2, <2>3, <2>4
<1>4. ASSUME T # {} PROVE FALSE
  <2>0. T \in SUBSET Nat
    OBVIOUS
  <2> HIDE DEF T
  <2>1. PICK m \in T : \A i \in T : m <= i
    BY <1>4, <2>0, LeastNumber
  <2>2. m \in 1..n
    BY <1>3, <2>1 DEF T
  <2>3. m - 1 \notin T
    BY <2>1, <2>2
  <2>4. g[m - 1] = h[m - 1]
    BY <2>2, <2>3 DEF T
  <2> QED BY <1>3, <2>1, <2>2, <2>4 DEF T
<1>5. \A i \in 0..n : g[i] = h[i]
  BY <1>4
<1> QED BY <1>2, <1>5 DEF h

\* What fwrules_print writes of an array with its session rules in front.
LEMMA PermsIs ==
  ASSUME NEW n \in Nat, NEW k \in 0..n, NEW s,
         \A i \in 1..n : s[i] \in PermRule <=> i > k
  PROVE  Perms(s, n) = [j \in 1..(n - k) |-> s[k + j]]
<1> DEFINE g == CHOOSE f : f = Pass(f, s, PermRule, n)
<1>1. Perms(s, n) = g[n]
  BY DEF Perms, Pass
<1>2. g = Pass(g, s, PermRule, n)
  BY FromPasses
<1> HIDE DEF g
<1>3. g = From(s, k, n)
  BY <1>2, PassIsFrom
<1> QED BY <1>1, <1>3 DEF From

\* The same of a list.
LEMMA PermanentIs ==
  ASSUME NEW n \in Nat, NEW k \in 0..n, NEW l, Len(l) = n,
         \A i \in 1..n : l[i].rule \in PermRule <=> i > k
  PROVE  List!Permanent(l) = [j \in 1..(n - k) |-> l[k + j].rule]
<1> DEFINE s == [i \in 1..n |-> l[i].rule]
           Goes(f) == [i \in 0..n |-> IF i = 0 THEN << >>
                  ELSE IF l[i].rule \in PermRule THEN Append(f[i - 1], l[i].rule)
                  ELSE f[i - 1]]
           g == CHOOSE f : f = Goes(f)
<1>1. List!Permanent(l) = g[n]
  BY DEF List!Permanent
<1>0. \A i \in 1..n : s[i] = l[i].rule
  OBVIOUS
<1>s. \A i \in 1..n : s[i] \in PermRule <=> i > k
  OBVIOUS
<1> HIDE DEF s
<1>2. ASSUME NEW f PROVE Goes(f) = Pass(f, s, PermRule, n)
  BY <1>0 DEF Pass
<1> HIDE DEF Goes
<1>3. \E f : f = Goes(f)
  <2>1. From(s, k, n) = Pass(From(s, k, n), s, PermRule, n)
    BY <1>s, FromPasses
  <2>2. Goes(From(s, k, n)) = Pass(From(s, k, n), s, PermRule, n)
    BY <1>2
  <2> QED BY <2>1, <2>2
<1>4. g = Goes(g)
  BY <1>3
<1> HIDE DEF g
<1>5. g = From(s, k, n)
  BY <1>2, <1>4, <1>s, PassIsFrom
<1>6. List!Permanent(l) = [j \in 1..(n - k) |-> s[k + j]]
  BY <1>1, <1>5 DEF From
<1>7. \A j \in 1..(n - k) : s[k + j] = l[k + j].rule
  BY <1>0
<1> QED BY <1>6, <1>7

\* The two for the array of the table and the list it stands for.
LEMMA PermsOfSlots ==
  ASSUME len \in Nat, NEW k \in 0..len, \A i \in 1..len : slot[i] \in PermRule <=> i > k
  PROVE  Perms(slot, len) = [j \in 1..(len - k) |-> slot[k + j]]
BY PermsIs

LEMMA PermanentOfAbstract ==
  ASSUME Size \in Nat, Len(Abstract) = Size, NEW k \in 0..Size,
         \A i \in 1..Size : Abstract[i].rule = Array[i],
         \A i \in 1..Size : Array[i] \in PermRule <=> i > k
  PROVE  List!Permanent(Abstract) = [j \in 1..(Size - k) |-> Array[k + j]]
<1> DEFINE l == Abstract
           n == Size
           a == Array
<1>1. /\ n \in Nat /\ Len(l) = n /\ k \in 0..n
      /\ \A i \in 1..n : l[i].rule = a[i]
      /\ \A i \in 1..n : a[i] \in PermRule <=> i > k
  OBVIOUS
<1> HIDE DEF l, n, a
<1>2. \A i \in 1..n : l[i].rule \in PermRule <=> i > k
  BY <1>1
<1>3. List!Permanent(l) = [j \in 1..(n - k) |-> l[k + j].rule]
  BY ZenonT(60), <1>1, <1>2, PermanentIs
<1>4. \A j \in 1..(n - k) : l[k + j].rule = a[k + j]
  BY <1>1
<1>5. List!Permanent(l) = [j \in 1..(n - k) |-> a[k + j]]
  BY <1>3, <1>4
<1> QED BY <1>5 DEF l, n, a

-----------------------------------------------------------------------------
USE RuleAssumption, BoundAssumption, JunkAssumption
USE DEF Main, Comm, Thread, Slots, Rule, Sweeping, Removing, Looking

\* Who holds FWRulesLock is in a locked section; a command finds its index reset.
Held ==
  /\ \A t \in Thread : lock = t => pc[t] \in {"sweep", "scan"} \cup Removing
  /\ pc[Comm] \in {"idle", "expire", "stamp", "sweepLock", "save"} => idx[Comm] = 1

\* A removal in progress finds the array as it has left it.
Sizes ==
  \A t \in Thread :
    /\ pc[t] = "shift" => idx[t] <= len
    /\ pc[t] \in {"move", "store"} => len > 0 /\ snap[t] = len

\* No rule is twice in the table.
Distinct == \A i, j \in 1..Size : Array[i] = Array[j] => i = j

\* What a sweep is about to remove is idle.
Due == \A t \in Thread : pc[t] = "shift" /\ lock = t => Expired(slot[idx[t]])

\* RULES REMOVE has counted the rules of its type, and not passed the one it
\* was asked for.
Count(f, S, n) == Cardinality({j \in 1..(n - 1) : f[j] \in S})
Before(i) == Count(slot, OfType(want.type), i)
Search ==
  /\ pc[Comm] = "find" => want.count = Before(idx[Comm]) /\ want.cur # want.num
  /\ pc[Comm] = "shift" /\ lock # Comm =>
       slot[idx[Comm]] \in OfType(want.type) /\ want.num = Before(idx[Comm])

\* The rules a scan has passed do not cover the packet.
Passed == pc[Main] = "scan" => \A j \in 1..(idx[Main] - 1) : j <= len => ~Hits(slot[j])

Base == TypeOK /\ LockInv /\ FilledInv /\ OrderInv /\ Held /\ Alone /\ ~torn
Inv == Base /\ Sizes /\ Distinct /\ Due /\ Search /\ Passed

-----------------------------------------------------------------------------
(* Who can be where.                                                       *)

LEMMA HeldCorrect == Spec => []Held
<1>1. Init => Held
  BY DEF Init, Held
<1>2. TypeOK /\ LockInv /\ Held /\ [Next]_vars => Held'
  <2> SUFFICES ASSUME TypeOK, LockInv, Held, [Next]_vars PROVE Held'
    OBVIOUS
  <2> USE DEF TypeOK, LockInv, Held, table, locals, moving
  <2>1. CASE Tick
    BY <2>1 DEF Tick
  <2>2. ASSUME NEW t \in Thread, Sweep(t) PROVE Held'
    <3>1. CASE SweepSkip(t)
      BY <3>1 DEF SweepSkip, Goto, AfterSweep
    <3>2. CASE SweepBegin(t)
      BY <3>2 DEF SweepBegin, Goto
    <3>3. CASE SweepLock(t)
      BY <3>3 DEF SweepLock, Goto
    <3>4. CASE SweepKeep(t)
      BY <3>4 DEF SweepKeep
    <3>5. CASE SweepDrop(t)
      BY <3>5 DEF SweepDrop, Goto
    <3>6. CASE SweepEnd(t)
      BY <3>6 DEF SweepEnd, Goto, AfterSweep
    <3>7. CASE SweepStamp(t)
      BY <3>7 DEF SweepStamp, Goto
    <3> QED BY <2>2, <3>1, <3>2, <3>3, <3>4, <3>5, <3>6, <3>7 DEF Sweep
  <2>3. ASSUME NEW t \in Thread, RemoveIndex(t) PROVE Held'
    <3>1. CASE Shift(t)
      BY <3>1 DEF Shift, Goto
    <3>2. CASE ShiftRefused(t)
      BY <3>2 DEF ShiftRefused, ReturnFromRemove, Goto
    <3>3. CASE LoadLen(t)
      BY <3>3 DEF LoadLen, Goto
    <3>4. CASE StoreLen(t)
      BY <3>4 DEF StoreLen, ReturnFromRemove, Goto
    <3>5. CASE StoreLenWraps(t)
      BY <3>5 DEF StoreLenWraps
    <3>6. ASSUME NEW i \in Slots, LoadWord(t, i) \/ StoreWord(t, i) PROVE Held'
      BY <3>6 DEF LoadWord, StoreWord
    <3> QED BY <2>3, <3>1, <3>2, <3>3, <3>4, <3>5, <3>6 DEF RemoveIndex
  <2>4. ASSUME NEW f \in Flow, Receive(f) PROVE Held'
    BY <2>4 DEF Receive, Goto
  <2>5. CASE Lookup
    <3>1. CASE LookupLen \/ LookupLock \/ LookupNext \/ Verdict
      BY <3>1 DEF LookupLen, LookupLock, LookupNext, Verdict, Goto
    <3>2. CASE LookupHit \/ LookupDefault
      BY <3>2 DEF LookupHit, LookupDefault, EndScan, Goto
    <3> QED BY <2>5, <3>1, <3>2 DEF Lookup
  <2>6. CASE Command
    BY <2>6 DEF Command, ListRules, AddRule, Insert, RemoveRule, Goto
  <2>7. CASE Remove
    BY <2>7 DEF Remove, RemovePass, RemoveFound, RemoveNotFound, Goto
  <2>8. CASE Save
    BY <2>8 DEF Save, Goto
  <2>9. CASE UNCHANGED vars
    BY <2>9 DEF vars
  <2> QED BY <2>1, <2>2, <2>3, <2>4, <2>5, <2>6, <2>7, <2>8, <2>9 DEF Next
<1> QED BY <1>1, <1>2, TypeCorrect, LockCorrect, PTL DEF Spec

\* A thread that removes, sweeps or scans has the table for itself.
LEMMA Sole ==
  ASSUME Base
  PROVE  /\ pc[Main] \in {"sweep", "scan"} \cup Removing =>
              lock = Main /\ pc[Comm] \notin {"sweep", "find"} \cup Removing
         /\ pc[Comm] \in {"find"} \cup Removing /\ lock # Comm =>
              pc[Main] = "idle" /\ lock = "free"
         /\ pc[Comm] = "sweep" => lock = Comm
         /\ pc[Comm] = "find" => lock # Comm
         /\ Shifted <=> \E t \in Thread : pc[t] \in {"move", "store"}
         /\ lock = "free" \/ lock = Main \/ lock = Comm
BY DEF Base, TypeOK, LockInv, Held, Alone, RemoveInProgress, Shifted

-----------------------------------------------------------------------------
(* The steps that change nothing of the list.                              *)

\* Every step that may change the list, or the file.
Loud == Tick \/ LookupHit \/ Save \/ WordStep \/ ArrayStep

\* How a step of either thread that is not one of those moves the threads.
Moves ==
  /\ \A t \in Thread :
       /\ pc'[t] = "shift" =>
            /\ idx'[t] = idx[t]
            /\ t = Comm => want' = want
            /\ \/ pc[t] = "shift" /\ lock' = lock
               \/ SweepDrop(t)
               \/ t = Comm /\ RemoveFound
       /\ pc'[t] = "move" => pc[t] = "move" /\ snap'[t] = snap[t]
       /\ pc'[t] = "store" =>
            \/ pc[t] = "store" /\ snap'[t] = snap[t]
            \/ pc[t] = "move" /\ snap'[t] = len
       /\ pc[t] \in {"move", "store"} => pc'[t] \in {"move", "store"}
  /\ pc'[Comm] = "find" =>
       \/ pc[Comm] = "find" /\ want' = want /\ idx'[Comm] = idx[Comm]
       \/ RemovePass
       \/ idx'[Comm] = 1 /\ want'.count = 0 /\ want'.cur # want'.num
  /\ pc'[Main] = "scan" =>
       \/ idx'[Main] = 1
       \/ pc[Main] = "scan" /\ flow' = flow /\ idx'[Main] = idx[Main]
       \/ LookupNext

LEMMA QuietFrame ==
  ASSUME Inv, [Next]_vars, Alone', ~Loud
  PROVE  UNCHANGED <<slot, len, age, disk, todo, buf>> /\ Moves
<1> DEFINE Quiet == UNCHANGED <<slot, len, age, disk, todo, buf>> /\ Moves
<1> USE DEF Inv, Base, TypeOK, LockInv, table, locals, moving, Moves
<1>1. CASE Tick
  BY <1>1 DEF Loud
<1>2. ASSUME NEW u \in Thread, Sweep(u) PROVE Quiet
  <2>1. CASE SweepSkip(u) \/ SweepBegin(u) \/ SweepStamp(u)
    BY SMTT(30), <2>1 DEF SweepSkip, SweepBegin, SweepStamp, Goto, AfterSweep
  <2>2. CASE SweepLock(u)
    BY <2>2, Sole DEF SweepLock, Goto
  <2>3. CASE SweepKeep(u) \/ SweepDrop(u)
    BY <2>3 DEF SweepKeep, SweepDrop, Goto
  <2>4. CASE SweepEnd(u)
    BY <2>4, Sole DEF SweepEnd, Goto, AfterSweep
  <2> QED BY <1>2, <2>1, <2>2, <2>3, <2>4 DEF Sweep
<1>3. ASSUME NEW u \in Thread, RemoveIndex(u) PROVE Quiet
  <2>1. CASE Shift(u) \/ StoreLen(u) \/ \E i \in Slots : LoadWord(u, i) \/ StoreWord(u, i)
    BY <2>1 DEF Loud, WordStep, ArrayStep
  <2>2. ~ShiftRefused(u) /\ ~StoreLenWraps(u)
    BY DEF Sizes, ShiftRefused, StoreLenWraps
  <2>3. CASE LoadLen(u)
    BY <2>3 DEF LoadLen, Goto
  <2> QED BY <1>3, <2>1, <2>2, <2>3 DEF RemoveIndex
<1>4. ASSUME NEW f \in Flow, Receive(f) PROVE Quiet
  BY <1>4 DEF Receive, Goto
<1>5. CASE Lookup
  <2>1. CASE LookupLen \/ Verdict
    BY <2>1 DEF LookupLen, Verdict, Goto
  <2>2. CASE LookupLock
    BY <2>2, Sole DEF LookupLock, Goto
  <2>3. CASE LookupNext
    BY <2>3 DEF LookupNext
  <2>4. CASE LookupDefault
    BY <2>4, Sole DEF LookupDefault, EndScan, Goto
  <2> QED BY <1>5, <2>1, <2>2, <2>3, <2>4 DEF Lookup, Loud
<1>6. CASE Command
  <2>1. CASE ListRules
    BY <2>1 DEF ListRules, Goto
  <2>2. ASSUME NEW type \in {"PERM", "SESS"}, NEW num \in Number, NEW junk \in Junk,
               RemoveRule(type, num, junk)
        PROVE  Quiet
    <3>1. num # junk
      BY <2>2
    <3>2. want'.cur # want'.num /\ want'.count = 0 /\ idx'[Comm] = 1
      BY <2>2, <3>1 DEF RemoveRule, Held
    <3> QED BY <2>2, <3>2 DEF RemoveRule, Goto
  <2> QED BY <1>6, <2>1, <2>2 DEF Command, Loud, ArrayStep
<1>7. CASE Remove
  <2>1. CASE RemovePass
    <3>1. pc' = pc /\ UNCHANGED <<slot, len, age, disk, todo, buf, flow, snap, lock>>
      BY <2>1 DEF RemovePass
    <3>2. idx'[Main] = idx[Main] /\ pc[Comm] = "find"
      BY <2>1 DEF RemovePass
    <3> QED BY <2>1, <3>1, <3>2
  <2>2. CASE RemoveFound
    <3>1. /\ pc' = [pc EXCEPT ![Comm] = "shift"]
          /\ UNCHANGED <<slot, len, age, disk, todo, buf, flow, snap, lock, idx, want>>
      BY <2>2 DEF RemoveFound, Goto
    <3>2. pc[Comm] = "find"
      BY <2>2 DEF RemoveFound
    <3> QED BY <2>2, <3>1, <3>2
  <2>3. CASE RemoveNotFound
    BY <2>3 DEF RemoveNotFound, Goto
  <2> QED BY <1>7, <2>1, <2>2, <2>3 DEF Remove
<1>8. CASE UNCHANGED vars
  BY <1>8 DEF vars
<1> QED BY <1>1, <1>2, <1>3, <1>4, <1>5, <1>6, <1>7, <1>8 DEF Next, Loud

-----------------------------------------------------------------------------
(* The invariant is inductive.                                             *)

\* Counting the rules of a type, one slot further.
LEMMA CountStep ==
  ASSUME NEW S, NEW f, NEW i \in Nat \ {0}
  PROVE  /\ Count(f, S, 1) = 0
         /\ Count(f, S, i) \in Nat
         /\ Count(f, S, i + 1) = IF f[i] \in S THEN Count(f, S, i) + 1 ELSE Count(f, S, i)
<1> DEFINE Passes(n) == {j \in 1..(n - 1) : f[j] \in S}
<1>1. Cardinality(Passes(1)) = 0
  <2>1. Passes(1) = {}
    OBVIOUS
  <2> QED BY <2>1, FS_EmptySet
<1>2. IsFiniteSet(Passes(i)) /\ Cardinality(Passes(i)) \in Nat
  <2>1. IsFiniteSet(1..(i - 1))
    BY FS_Interval
  <2>2. Passes(i) \in SUBSET (1..(i - 1))
    OBVIOUS
  <2>3. IsFiniteSet(Passes(i))
    BY <2>1, <2>2, FS_Subset
  <2> QED BY <2>3, FS_CardinalityType
<1>3. ASSUME f[i] \in S
      PROVE  Cardinality(Passes(i + 1)) = Cardinality(Passes(i)) + 1
  <2>1. Passes(i + 1) = Passes(i) \cup {i} /\ i \notin Passes(i)
    BY <1>3
  <2> QED BY <1>2, <2>1, FS_AddElement
<1>4. ASSUME f[i] \notin S
      PROVE  Cardinality(Passes(i + 1)) = Cardinality(Passes(i))
  <2>1. Passes(i + 1) = Passes(i)
    BY <1>4
  <2> QED BY <2>1
<1> QED BY <1>1, <1>2, <1>3, <1>4 DEF Count

LEMMA BeforeStep ==
  ASSUME Base, NEW i \in Nat \ {0}
  PROVE  /\ Before(1) = 0
         /\ Before(i) \in Nat
         /\ Before(i + 1) = IF slot[i] \in OfType(want.type)
                            THEN Before(i) + 1 ELSE Before(i)
BY CountStep DEF Before

\* The list has the length it had, unless a removal began or a rule was added.
LEMMA QuietSize ==
  ASSUME Moves, len' = len, TypeOK, TypeOK'
  PROVE  Shifted' = Shifted /\ Size' = Size
BY DEF Moves, Shifted, Size, TypeOK

LEMMA QuietInv ==
  ASSUME Inv, Base', [Next]_vars, ~Loud
  PROVE  Inv'
<1>0. UNCHANGED <<slot, len, age, disk, todo, buf>> /\ Moves
  BY QuietFrame DEF Base
<1> USE DEF Inv, Base, Moves
<1>1. Sizes'
  BY <1>0, Sole DEF Sizes, TypeOK, SweepDrop, RemoveFound
<1>2. Distinct'
  BY SMTT(40), <1>0, QuietSize DEF Distinct, Array
<1>3. Due'
  <2> SUFFICES ASSUME NEW t \in Thread, pc'[t] = "shift", lock' = t
               PROVE  Expired(slot[idx[t]])'
    BY DEF Due
  <2>1. CASE pc[t] = "shift" /\ lock' = lock
    BY <1>0, <2>1 DEF Due, Expired
  <2>2. CASE SweepDrop(t)
    BY <1>0, <2>2 DEF SweepDrop, Expired
  <2>3. CASE t = Comm /\ RemoveFound
    BY <2>3, Sole DEF RemoveFound, table
  <2> QED BY <1>0, <2>1, <2>2, <2>3
<1>4. Search'
  <2>1. ASSUME pc'[Comm] = "find"
        PROVE  want'.count = Before(idx[Comm])' /\ want'.cur # want'.num
    <3>1. CASE pc[Comm] = "find" /\ want' = want /\ idx'[Comm] = idx[Comm]
      BY <1>0, <3>1 DEF Search, Before
    <3>2. CASE RemovePass
      <4>1. idx[Comm] \in Nat \ {0} /\ want.count \in Nat /\ pc[Comm] = "find"
        BY <3>2 DEF RemovePass, TypeOK
      <4>2. /\ idx'[Comm] = idx[Comm] + 1 /\ CurrNr # want.num
            /\ want' = [want EXCEPT !.cur = CurrNr, !.count = Counted]
        BY <3>2 DEF RemovePass, TypeOK
      <4>3. /\ want'.type = want.type /\ want'.num = want.num
            /\ want'.cur = CurrNr /\ want'.count = Counted
        BY <4>2 DEF TypeOK
      <4>4. Before(idx[Comm])' = Before(idx[Comm] + 1)
        BY <1>0, <4>2, <4>3 DEF Before
      <4> QED BY <4>1, <4>2, <4>3, <4>4, BeforeStep DEF Search, Counted, Mine
    <3>3. CASE idx'[Comm] = 1 /\ want'.count = 0 /\ want'.cur # want'.num
      <4>1. Before(idx[Comm])' = Count(slot', OfType(want'.type), 1)
        BY <3>3 DEF Before
      <4> QED BY <3>3, <4>1, CountStep
    <3> QED BY <1>0, <2>1, <3>1, <3>2, <3>3
  <2>2. ASSUME pc'[Comm] = "shift", lock' # Comm
        PROVE  slot'[idx'[Comm]] \in OfType(want'.type) /\ want'.num = Before(idx[Comm])'
    <3>1. UNCHANGED <<slot, want>> /\ idx'[Comm] = idx[Comm]
      BY <1>0, <2>2
    <3>2. Before(idx[Comm])' = Before(idx[Comm])
      BY <3>1 DEF Before
    <3>3. CASE pc[Comm] = "shift" /\ lock' = lock
      BY <2>2, <3>1, <3>2, <3>3 DEF Search
    <3>4. CASE SweepDrop(Comm)
      BY <2>2, <3>4 DEF SweepDrop, LockInv, table
    <3>5. CASE RemoveFound
      BY <3>1, <3>2, <3>5 DEF RemoveFound, CurrNr, Mine, Search
    <3> QED BY <1>0, <2>2, <3>3, <3>4, <3>5
  <2> QED BY <2>1, <2>2 DEF Search
<1>5. Passed'
  <2> SUFFICES ASSUME pc'[Main] = "scan", NEW j \in 1..(idx'[Main] - 1), j <= len'
               PROVE  ~Hits(slot[j])'
    BY DEF Passed
  <2>1. CASE pc[Main] = "scan" /\ flow' = flow /\ idx'[Main] = idx[Main]
    BY <1>0, <2>1 DEF Passed, Hits
  <2>2. CASE LookupNext
    <3>1. /\ pc[Main] = "scan" /\ flow' = flow /\ ~Hits(slot[idx[Main]])
          /\ idx'[Main] = idx[Main] + 1 /\ idx[Main] \in Nat
      BY <2>2 DEF LookupNext, TypeOK
    <3>2. j < idx[Main] \/ j = idx[Main]
      BY <3>1
    <3> QED BY <1>0, <3>1, <3>2 DEF Passed, Hits
  <2> QED BY <1>0, <2>1, <2>2
<1> QED BY <1>1, <1>2, <1>3, <1>4, <1>5

\* While one thread removes, the other is not in the table.
LEMMA Apart ==
  ASSUME Base, NEW t \in Thread, NEW u \in Thread, u # t, pc[t] \in Removing
  PROVE  pc[u] \notin {"sweep", "scan", "find"} \cup Removing
BY Sole DEF Base, LockInv

\* Where no memmove is at work, the slots are the array.
LEMMA Whole ==
  ASSUME TypeOK, FilledInv, \A t \in Thread : pc[t] # "move"
  PROVE  Array = slot
<1>1. slot = [i \in Slots |-> slot[i]]
  BY DEF TypeOK
<1>2. ASSUME NEW i \in Slots PROVE Array[i] = slot[i]
  BY DEF FilledInv, Busy, Array
<1>3. Array = [i \in Slots |-> Array[i]]
  BY DEF Array
<1> QED BY <1>1, <1>2, <1>3

\* One thread's memmove has the words the other one's does not have.
LEMMA OneMemmove ==
  ASSUME Base, NEW t \in Thread, pc[t] \in Removing, NEW i \in Slots
  PROVE  /\ \A u \in Thread : u # t => i \notin todo[u] /\ buf[u][i] = Nil
         /\ Array[i] = IF i \in todo[t] THEN slot[i + 1]
                       ELSE IF buf[t][i] # Nil THEN buf[t][i]
                       ELSE slot[i]
<1>1. \A u \in Thread : u # t => i \notin todo[u] /\ buf[u][i] = Nil
  BY Apart DEF Base, FilledInv, Busy
<1> QED BY <1>1 DEF Array

\* Loading or storing a word brings the array nearer to what it will be.
LEMMA WordFacts ==
  ASSUME Base, NEW t \in Thread, NEW i \in Slots, LoadWord(t, i) \/ StoreWord(t, i)
  PROVE  /\ Array' = Array /\ Size' = Size /\ pc[t] = "move"
         /\ UNCHANGED <<len, age, disk, lock, pc, idx, snap, want, flow>>
<1>1. /\ UNCHANGED <<len, age, disk, lock, pc, idx, snap, want, flow>>
      /\ Size' = Size
  BY DEF LoadWord, StoreWord, table, Size, Shifted
<1>2. pc[t] = "move" /\ pc'[t] \in Removing /\ (Busy(t, i) => i < snap[t])
  BY <1>1 DEF LoadWord, StoreWord, Base, FilledInv, Busy
<1>3. ASSUME NEW k \in Slots PROVE Array'[k] = Array[k]
  <2>0. /\ Array[k] = IF k \in todo[t] THEN slot[k + 1]
                      ELSE IF buf[t][k] # Nil THEN buf[t][k]
                      ELSE slot[k]
        /\ \A u \in Thread : u # t => k \notin todo[u] /\ buf[u][k] = Nil
    BY <1>2, OneMemmove
  <2>1. CASE LoadWord(t, i)
    <3>1. /\ i + 1 \in Slots /\ buf'[t][i] = slot[i + 1] /\ slot' = slot
          /\ i \in todo[t] /\ todo'[t] = todo[t] \ {i}
          /\ \A u \in Thread : u # t => todo'[u] = todo[u]
          /\ \A u \in Thread : u # t \/ k # i => buf'[u][k] = buf[u][k]
      BY <2>1, LoadIs DEF table, Base
    <3>2. slot[i + 1] # Nil
      BY <1>2, <2>1, <3>1 DEF Base, FilledInv, Covered, Busy, TypeOK
    <3>3. /\ \A u \in Thread : u # t => k \notin todo'[u] /\ buf'[u][k] = Nil
      BY <2>0, <3>1
    <3>4. Array'[k] = IF k \in todo'[t] THEN slot[k + 1]
                      ELSE IF buf'[t][k] # Nil THEN buf'[t][k]
                      ELSE slot[k]
      BY <3>1, <3>3 DEF Array
    <3>5. CASE k = i
      BY <2>0, <3>1, <3>2, <3>4, <3>5
    <3>6. CASE k # i
      BY <2>0, <3>1, <3>4, <3>6
    <3> QED BY <3>5, <3>6
  <2>2. CASE StoreWord(t, i)
    <3>1. /\ buf'[t][i] = Nil /\ slot'[i] = buf[t][i] /\ todo' = todo
          /\ i - 1 \notin todo[t] /\ buf[t][i] # Nil
          /\ \A u \in Thread : u # t \/ k # i => buf'[u][k] = buf[u][k]
          /\ \A j \in Slots : j # i => slot'[j] = slot[j]
      BY <2>2, StoreIs DEF Base
    <3>2. /\ \A u \in Thread : u # t => k \notin todo'[u] /\ buf'[u][k] = Nil
      BY <2>0, <3>1
    <3>3. Array'[k] = IF k \in todo[t] THEN slot'[k + 1]
                      ELSE IF buf'[t][k] # Nil THEN buf'[t][k]
                      ELSE slot'[k]
      BY <3>1, <3>2 DEF Array
    <3>4. k \in todo[t] => slot'[k + 1] = slot[k + 1]
      <4>1. k \in todo[t] => k + 1 \in Slots /\ k + 1 # i
        BY <3>1 DEF Base, TypeOK
      <4> QED BY <3>1, <4>1
    <3>5. CASE k = i
      BY <2>0, <3>1, <3>3, <3>4, <3>5
    <3>6. CASE k # i
      BY <2>0, <3>1, <3>3, <3>4, <3>6
    <3> QED BY <3>5, <3>6
  <2> QED BY <2>1, <2>2
<1>4. Array = [k \in Slots |-> Array[k]] /\ Array' = [k \in Slots |-> Array'[k]]
  BY DEF Array
<1> QED BY <1>1, <1>2, <1>3, <1>4

\* What the memmove will do to the list.
LEMMA ShiftFacts ==
  ASSUME Base, Sizes, NEW t \in Thread, Shift(t)
  PROVE  /\ idx[t] \in 1..len /\ len \in Nat /\ len <= MaxRules
         /\ Size = len /\ Size' = len - 1 /\ len' = len /\ Array = slot
         /\ \A i \in 1..(len - 1) : Array'[i] = IF i < idx[t] THEN slot[i] ELSE slot[i + 1]
         /\ pc' = [pc EXCEPT ![t] = "move"] /\ snap'[t] = len
         /\ UNCHANGED <<slot, age, disk, lock, idx, want>>
<1> USE DEF Base, TypeOK
<1>1. idx[t] \in 1..len /\ len \in Nat /\ len <= MaxRules /\ pc[t] = "shift"
  BY DEF Shift, Sizes
<1>2. /\ len' = len /\ UNCHANGED <<slot, age, disk, lock, idx, want, buf>>
      /\ pc' = [pc EXCEPT ![t] = "move"] /\ snap'[t] = len
      /\ todo'[t] = idx[t]..(len - 1) /\ \A u \in Thread : u # t => todo'[u] = todo[u]
  BY DEF Shift, Goto, table
<1>6. Array = slot
  BY <1>1, Apart, Whole
<1>3. ASSUME NEW i \in 1..(len - 1)
      PROVE  Array'[i] = IF i < idx[t] THEN slot[i] ELSE slot[i + 1]
  <2>1. i \in Slots /\ \A u \in Thread : ~Busy(u, i)
    BY SMTT(40), <1>1, Apart DEF FilledInv
  <2>2. /\ i \in todo'[t] <=> ~(i < idx[t])
        /\ \A u \in Thread : u # t => i \notin todo'[u]
        /\ \A u \in Thread : buf'[u][i] = Nil
    <3>1. \A u \in Thread : i \notin todo[u] /\ buf[u][i] = Nil
      BY <2>1 DEF Busy
    <3>2. i \in idx[t]..(len - 1) <=> ~(i < idx[t])
      BY <1>1
    <3> QED BY <1>2, <3>1, <3>2
  <2> QED BY <1>2, <2>1, <2>2 DEF Array
<1>4. ~Shifted
  BY <1>1, Apart DEF Shifted
<1>5. Shifted'
  BY <1>2 DEF Shifted
<1> QED BY <1>1, <1>2, <1>3, <1>4, <1>5, <1>6 DEF Size

\* The store of len completes the removal the memmove began.
LEMMA StoreFacts ==
  ASSUME Base, Sizes, NEW t \in Thread, StoreLen(t)
  PROVE  /\ Size' = Size /\ len' = Size /\ Array' = Array /\ UNCHANGED <<age, disk, lock>>
         /\ pc[t] = "store" /\ pc'[t] \in {"sweep", "idle", "save"}
         /\ \A u \in Thread : u # t => pc'[u] = pc[u]
<1> USE DEF Base, TypeOK
<1>1. pc[t] = "store" /\ snap[t] = len /\ len \in Nat
  BY DEF StoreLen, Sizes
<1>2. /\ len' = len - 1 /\ UNCHANGED <<slot, age, disk, lock, todo, buf>>
      /\ pc'[t] \in {"sweep", "idle", "save"}
      /\ \A u \in Thread : u # t => pc'[u] = pc[u]
  BY <1>1 DEF StoreLen, ReturnFromRemove, Goto, moving
<1>3. Shifted
  BY <1>1 DEF Shifted
<1>4. ~Shifted'
  BY <1>1, <1>2, Apart DEF Shifted
<1>5. Array' = Array
  BY <1>2 DEF Array
<1> QED BY <1>1, <1>2, <1>3, <1>4, <1>5 DEF Size

\* A new rule goes in front or to the end of the list.
LEMMA AddFacts ==
  ASSUME Base, TypeOK', FilledInv', NEW r \in Rule, NEW c, AddRule(r, c)
  PROVE  /\ Array = slot /\ Array' = slot'
         /\ Size = len /\ Size' = len + 1 /\ len' = len + 1 /\ len \in Nat
         /\ \A i \in 1..len : slot[i] # r
         /\ r \in PermRule =>
              slot'[len + 1] = r /\ \A i \in 1..len : slot'[i] = slot[i]
         /\ r \notin PermRule =>
              slot'[1] = r /\ \A i \in 2..(len + 1) : slot'[i] = slot[i - 1]
         /\ age' = [s \in SessRule |-> IF s = r THEN 0 ELSE age[s]]
         /\ disk' = disk /\ lock = "free" /\ lock' = "free" /\ pc[Comm] = "idle"
         /\ pc'[Comm] \in {"idle", "save"} /\ pc'[Main] = pc[Main]
<1> USE DEF Base, TypeOK
<1>1. /\ len' = len + 1 /\ len \in Nat /\ len < MaxRules /\ r \notin Live
      /\ age' = [s \in SessRule |-> IF s = r THEN 0 ELSE age[s]]
      /\ disk' = disk /\ lock = "free" /\ lock' = "free" /\ pc[Comm] = "idle"
      /\ pc'[Comm] \in {"idle", "save"} /\ pc'[Main] = pc[Main]
  BY DEF AddRule, Insert, Goto
<1>2. \A i \in 1..len : slot[i] # r
  BY <1>1 DEF Live, LiveIn
<1>3. ASSUME r \in PermRule
      PROVE  slot'[len + 1] = r /\ \A i \in 1..len : slot'[i] = slot[i]
  BY <1>1, <1>3 DEF AddRule, Insert
<1>4. ASSUME r \notin PermRule
      PROVE  slot'[1] = r /\ \A i \in 2..(len + 1) : slot'[i] = slot[i - 1]
  <2>1. slot' = [i \in Slots |-> IF i = 1 THEN r
                                 ELSE IF i <= len + 1 THEN slot[i - 1]
                                 ELSE slot[i]]
    BY <1>4 DEF AddRule, Insert
  <2> QED BY <1>1, <2>1
<1>5. /\ ~Shifted /\ ~Shifted'
      /\ \A t \in Thread : pc[t] # "move" /\ pc'[t] # "move"
  BY <1>1, Sole DEF Shifted
<1>6. Array = slot
  BY <1>5, Whole
<1>7. Array' = slot'
  <2>1. slot' = [i \in Slots |-> slot'[i]]
    OBVIOUS
  <2>2. ASSUME NEW i \in Slots PROVE Array'[i] = slot'[i]
    BY <1>5 DEF FilledInv, Busy, Array
  <2>3. Array' = [i \in Slots |-> Array'[i]]
    BY DEF Array
  <2>4. [i \in Slots |-> slot'[i]] = [i \in Slots |-> Array'[i]]
    BY <2>2
  <2> HIDE DEF Base, TypeOK, Slots
  <2> QED BY <2>1, <2>3, <2>4
<1> QED BY <1>1, <1>2, <1>3, <1>4, <1>5, <1>6, <1>7 DEF Size

\* The steps that write to the array.
LEMMA ArrayInv ==
  ASSUME Inv, Base', WordStep \/ ArrayStep
  PROVE  Inv'
<1> USE DEF Inv
<1>1. ASSUME NEW t \in Thread, Shift(t) PROVE Inv'
  <2>1. \A u \in Thread : u # t => pc'[u] \notin {"sweep", "scan", "find"} \cup Removing
    <3>1. pc[t] = "shift" /\ \A u \in Thread : u # t => pc'[u] = pc[u]
      BY <1>1, ShiftFacts DEF Shift, Base, TypeOK
    <3> QED BY <3>1, Apart
  <2>2. pc'[t] = "move" /\ len' > 0 /\ snap'[t] = len'
    <3>1. idx[t] \in 1..len /\ len \in Nat /\ len' = len /\ pc'[t] = "move" /\ snap'[t] = len
      BY <1>1, ShiftFacts DEF Base, TypeOK
    <3> QED BY <3>1
  <2>3. Sizes'
    BY <2>1, <2>2 DEF Sizes
  <2>4. Distinct'
    <3>1. /\ idx[t] \in 1..len /\ len \in Nat /\ Size = len /\ Size' = len - 1 /\ Array = slot
          /\ \A i \in 1..(len - 1) : Array'[i] = IF i < idx[t] THEN slot[i] ELSE slot[i + 1]
      BY <1>1, ShiftFacts
    <3>2. \A i, j \in 1..len : slot[i] = slot[j] => i = j
      BY <3>1 DEF Distinct
    <3>3. \A i, j \in 1..(len - 1) : Array'[i] = Array'[j] => i = j
      BY <3>1, <3>2
    <3> QED BY <3>1, <3>3 DEF Distinct
  <2>5. Due' /\ Search' /\ Passed'
    BY <2>1, <2>2 DEF Due, Search, Passed
  <2> QED BY <2>3, <2>4, <2>5
<1>2. ASSUME NEW t \in Thread, StoreLen(t) PROVE Inv'
  <2>1. \A u \in Thread : pc'[u] \notin {"scan", "find"} \cup Removing
    BY <1>2, StoreFacts, Apart
  <2>2. Distinct'
    BY <1>2, StoreFacts DEF Distinct
  <2>3. Sizes' /\ Due' /\ Search' /\ Passed'
    BY <2>1 DEF Sizes, Due, Search, Passed
  <2> QED BY <2>2, <2>3
<1>3. ASSUME NEW r \in Rule, NEW c \in {"RULES", "QUERY"}, AddRule(r, c) PROVE Inv'
  <2>1. \A u \in Thread : pc'[u] \notin {"scan", "find"} \cup Removing
    BY <1>3, AddFacts, Sole DEF Base, LockInv
  <2>2. Distinct'
    <3>1. CASE r \in PermRule
      BY <1>3, <3>1, AddFacts DEF Distinct, Base
    <3>2. CASE r \notin PermRule
      BY <1>3, <3>2, AddFacts DEF Distinct, Base
    <3> QED BY <3>1, <3>2
  <2>3. Sizes' /\ Due' /\ Search' /\ Passed'
    BY <2>1 DEF Sizes, Due, Search, Passed
  <2> QED BY <2>2, <2>3
<1>4. ASSUME NEW t \in Thread, NEW i \in Slots, LoadWord(t, i) \/ StoreWord(t, i) PROVE Inv'
  <2>1. /\ Array' = Array /\ Size' = Size /\ pc[t] = "move"
        /\ UNCHANGED <<len, lock, pc, idx, snap>>
    BY <1>4, WordFacts
  <2>2. \A u \in Thread : pc[u] \notin {"scan", "find", "shift"}
    BY <2>1, Apart
  <2>3. Sizes' /\ Distinct'
    BY <2>1 DEF Sizes, Distinct
  <2>4. Due' /\ Search' /\ Passed'
    BY <2>1, <2>2 DEF Due, Search, Passed
  <2> QED BY <2>3, <2>4
<1> QED BY <1>1, <1>2, <1>3, <1>4 DEF WordStep, ArrayStep

\* The other steps that change the list or the file.
LEMMA LoudInv ==
  ASSUME Inv, Base', Tick \/ LookupHit \/ Save
  PROVE  Inv'
<1> USE DEF Inv, locals, moving
<1>1. CASE Tick
  <2>1. UNCHANGED <<slot, len, lock, pc, idx, snap, flow, want, todo, buf>>
    BY <1>1 DEF Tick
  <2>2. \A t \in Thread : pc[t] \notin Removing
    BY <1>1 DEF Tick
  <2>3. Size' = Size /\ Array' = Array
    BY <2>1 DEF Size, Shifted, Array
  <2>4. Sizes' /\ Distinct'
    BY <2>1, <2>2, <2>3 DEF Sizes, Distinct
  <2>5. Due' /\ Search' /\ Passed'
    BY <2>1, <2>2 DEF Due, Search, Before, Count, Passed, Hits
  <2> QED BY <2>4, <2>5
<1>2. CASE LookupHit
  <2>1. pc[Main] = "scan" /\ pc'[Main] = "verdict" /\ pc'[Comm] = pc[Comm]
    BY <1>2 DEF LookupHit, EndScan, Goto, Base, TypeOK
  <2>2. UNCHANGED <<slot, len, todo, buf>>
    BY <1>2 DEF LookupHit
  <2>3. \A u \in Thread : pc'[u] \notin {"scan", "find"} \cup Removing
    BY <2>1, Sole DEF Base, LockInv
  <2>4. Size' = Size
    BY <2>1, <2>2, <2>3 DEF Size, Shifted
  <2> QED BY SMTT(40), <2>2, <2>3, <2>4 DEF Sizes, Distinct, Array, Due, Search, Passed
<1>3. CASE Save
  <2>1. lock = "free" /\ pc'[Main] = pc[Main] /\ pc[Comm] = "save" /\ pc'[Comm] = "idle"
    BY <1>3 DEF Save, Goto, Base, TypeOK
  <2>2. UNCHANGED <<slot, len, todo, buf>>
    BY <1>3 DEF Save
  <2>3. \A u \in Thread : pc'[u] \notin {"scan", "find"} \cup Removing
    BY <2>1, Sole DEF Base, LockInv
  <2>4. Size' = Size
    BY <2>1, <2>2, <2>3 DEF Size, Shifted
  <2> QED BY SMTT(40), <2>2, <2>3, <2>4 DEF Sizes, Distinct, Array, Due, Search, Passed
<1> QED BY <1>1, <1>2, <1>3

-----------------------------------------------------------------------------
(* Every step of the table is a step of the list, or none.                 *)

Entries == [rule : Rule, idle : Nat]

\* The array as a sequence of entries.
LEMMA AbstractIs ==
  ASSUME Inv
  PROVE  /\ Size \in Nat /\ Size <= MaxRules
         /\ Abstract \in Seq(Entries) /\ Len(Abstract) = Size
         /\ DOMAIN Abstract = 1..Size
         /\ \A i \in 1..Size :
              Array[i] \in Rule /\ Abstract[i] = Entry(Array[i]) /\ Abstract[i].rule = Array[i]
<1> USE DEF Inv, Base, TypeOK
<1>1. Size \in Nat /\ Size <= MaxRules /\ Size <= len
  BY Sole DEF Sizes, Size
<1>2. ASSUME NEW i \in 1..Size PROVE Array[i] \in Rule
  <2>1. i \in Slots /\ i <= len /\ slot[i] \in Rule
    BY <1>1 DEF FilledInv, Covered
  <2>2. ASSUME NEW t \in Thread, i \in todo[t] PROVE slot[i + 1] \in Rule
    <3>1. pc[t] = "move" /\ i < snap[t] /\ snap[t] = len
      BY <2>1, <2>2 DEF FilledInv, Busy, Sizes
    <3>2. i + 1 \in Slots /\ i + 1 <= len
      BY <1>1, <2>1, <3>1
    <3> QED BY <3>2 DEF FilledInv, Covered
  <2>3. \A t \in Thread : buf[t][i] \in Rule \cup {Nil}
    BY SMTT(40), <2>1
  <2> QED BY <2>1, <2>2, <2>3 DEF Array
<1>3. ASSUME NEW i \in 1..Size
      PROVE  Entry(Array[i]) \in Entries /\ Entry(Array[i]).rule = Array[i]
  <2> DEFINE r == Array[i]
  <2>1. r \in Rule
    BY <1>2
  <2> HIDE DEF r
  <2>2. Entry(r) \in Entries /\ Entry(r).rule = r
    BY <2>1 DEF Entry, Entries
  <2> QED BY <2>2 DEF r
<1> QED BY <1>1, <1>2, <1>3 DEF Abstract

\* Session rules come first in the array, and will once a memmove is through.
LEMMA ArraySorted ==
  ASSUME Inv, NEW i \in 1..Size, NEW j \in 1..Size, i < j, Array[i] \in PermRule
  PROVE  Array[j] \in PermRule
<1> USE DEF Inv, Base, TypeOK
<1>1. /\ Size \in Nat /\ Size <= len /\ len \in Nat /\ i \in Slots /\ j \in Slots
      /\ i + 1 <= j /\ Nil \notin PermRule
      /\ Covered(i) /\ Covered(j)
  <2>1. Size \in Nat /\ len \in Nat /\ Size <= MaxRules
    BY AbstractIs
  <2>2. Size = len \/ Size = len - 1
    BY DEF Size
  <2> QED BY <2>1, <2>2 DEF Covered
<1>2. Sorted /\ WordsSorted
  BY DEF OrderInv
<1>3. CASE \A t \in Thread : pc[t] # "move"
  <2>1. Array = slot
    BY <1>3, Whole
  <2> QED BY <1>1, <1>2, <2>1 DEF Sorted
<1>4. ASSUME NEW t \in Thread, pc[t] = "move" PROVE Array[j] \in PermRule
  <2>1. ASSUME NEW k \in Slots
        PROVE  Array[k] = IF k \in todo[t] THEN slot[k + 1]
                          ELSE IF buf[t][k] # Nil THEN buf[t][k]
                          ELSE slot[k]
    BY <1>4, OneMemmove
  <2>2. \A k \in Slots : k \in todo[t] => k + 1 \in Slots /\ Covered(k + 1)
    BY <1>4 DEF FilledInv, Busy, Covered, Sizes
  <2>3. ASSUME NEW h \in {i, i + 1}, h \in Slots, slot[h] \in PermRule
        PROVE  Array[j] \in PermRule
    <3>1. \A k \in Slots : h <= k /\ Covered(k) => slot[k] \in PermRule
      BY <1>2, <2>3 DEF Sorted
    <3>2. buf[t][j] # Nil => buf[t][j] \in PermRule
      BY <1>1, <1>2, <2>3 DEF WordsSorted, Between
    <3>3. h <= j
      BY <1>1
    <3> HIDE DEF Slots
    <3>4. j \in todo[t] => slot[j + 1] \in PermRule
      <4>1. h <= j + 1
        BY <1>1, <3>3 DEF Slots
      <4> QED BY <2>2, <3>1, <4>1, <1>1
    <3>5. slot[j] \in PermRule
      BY <1>1, <3>1, <3>3
    <3> QED BY <1>1, <2>1, <3>2, <3>4, <3>5
  <2>4. CASE i \in todo[t]
    BY <1>1, <2>1, <2>2, <2>3, <2>4
  <2>5. CASE i \notin todo[t] /\ buf[t][i] = Nil
    BY <1>1, <2>1, <2>3, <2>5
  <2>6. CASE i \notin todo[t] /\ buf[t][i] # Nil
    <3>1. buf[t][i] \in PermRule
      BY <1>1, <2>1, <2>6
    <3>2. Between(t, i)
      BY <1>1, <1>2, <2>6 DEF WordsSorted
    <3>3. /\ \A k \in Slots : i < k /\ Covered(k) => slot[k] \in PermRule
          /\ buf[t][j] # Nil => buf[t][j] \in PermRule
      BY <1>1, <3>1, <3>2 DEF Between
    <3>4. j \in todo[t] => slot[j + 1] \in PermRule
      <4>1. i < j + 1
        BY <1>1
      <4> QED BY <1>1, <2>2, <3>3, <4>1
    <3>5. slot[j] \in PermRule
      BY <1>1, <3>3
    <3> QED BY <1>1, <2>1, <3>3, <3>4, <3>5
  <2> QED BY <2>4, <2>5, <2>6
<1> QED BY <1>3, <1>4

\* The session rules of the table are its first k.
Split(k) == \A i \in 1..Size : Array[i] \in PermRule <=> i > k

LEMMA SplitExists ==
  ASSUME Inv
  PROVE  \E k \in 0..Size : Split(k)
<1>1. Size \in Nat /\ Size <= len /\ len \in Nat
  <2>1. Size \in Nat /\ len \in Nat
    BY AbstractIs DEF Inv, Base, TypeOK
  <2>2. Size = len \/ Size = len - 1
    BY DEF Size
  <2> QED BY <2>1, <2>2
<1>2. \A i, j \in 1..Size : i < j /\ Array[i] \in PermRule => Array[j] \in PermRule
  BY ArraySorted
<1> DEFINE T == {i \in 1..Size : Array[i] \in PermRule}
<1>3. CASE T = {}
  <2>1. \A i \in 1..Size : Array[i] \notin PermRule
    BY <1>3
  <2>2. Size \in 0..Size /\ \A i \in 1..Size : ~(i > Size)
    BY <1>1
  <2> QED BY <2>1, <2>2 DEF Split
<1>4. CASE T # {}
  <2>1. T \in SUBSET Nat
    OBVIOUS
  <2> HIDE DEF T
  <2>2. PICK m \in T : \A i \in T : m <= i
    BY <1>4, <2>1, LeastNumber
  <2>3. m \in 1..Size /\ Array[m] \in PermRule /\ \A i \in 1..Size : Array[i] \in PermRule => m <= i
    BY <2>2 DEF T
  <2>4. m - 1 \in 0..Size
    BY <1>1, <2>3
  <2>5. \A i \in 1..Size : Array[i] \in PermRule <=> i > m - 1
    BY <1>1, <1>2, <2>3
  <2> QED BY <2>4, <2>5 DEF Split
<1> QED BY <1>3, <1>4

\* In both views the file gets the permanent rules.
LEMMA PermanentOf ==
  ASSUME Inv, NEW k \in 0..Size, Split(k)
  PROVE  List!Permanent(Abstract) = [j \in 1..(Size - k) |-> Array[k + j]]
BY AbstractIs, PermanentOfAbstract DEF Split

\* Nothing of the list changes when the array, the ages and the file do not.
LEMMA Stutter ==
  ASSUME Array' = Array, UNCHANGED <<age, disk>>, Size' = Size
  PROVE  UNCHANGED List!vars
BY DEF List!vars, Abstract, Entry

\* Taking one element out of a sequence.
LEMMA RemoveAtIs ==
  ASSUME NEW S, NEW s \in Seq(S), NEW k \in 1..Len(s)
  PROVE  List!RemoveAt(s, k) =
           [i \in 1..(Len(s) - 1) |-> IF i < k THEN s[i] ELSE s[i + 1]]
<1> DEFINE left == SubSeq(s, 1, k - 1)
           right == SubSeq(s, k + 1, Len(s))
<1>1. k \in Nat /\ 1 <= k /\ k <= Len(s) /\ Len(s) \in Nat
  OBVIOUS
<1>2. /\ left \in Seq(S) /\ Len(left) = k - 1
      /\ \A i \in 1..(k - 1) : left[i] = s[i]
  BY <1>1, SubSeqProperties
<1>3. /\ right \in Seq(S) /\ Len(right) = Len(s) - k
      /\ \A i \in 1..(Len(s) - k) : right[i] = s[k + i]
  BY <1>1, SubSeqProperties
<1> DEFINE both == left \o right
<1> HIDE DEF left, right
<1>4. /\ both \in Seq(S) /\ Len(both) = Len(left) + Len(right)
      /\ \A i \in 1..(Len(left) + Len(right)) :
           both[i] = IF i <= Len(left) THEN left[i] ELSE right[i - Len(left)]
  <2>1. left \in Seq(S) /\ right \in Seq(S)
    BY <1>2, <1>3
  <2> QED BY <2>1, ConcatProperties
<1> HIDE DEF both
<1>5. ASSUME NEW i \in 1..(Len(s) - 1)
      PROVE  both[i] = IF i < k THEN s[i] ELSE s[i + 1]
  <2>1. Len(left) = k - 1 /\ i \in 1..(Len(left) + Len(right))
    BY <1>1, <1>2, <1>3
  <2>2. CASE i < k
    BY <1>1, <1>2, <1>4, <2>1, <2>2
  <2>3. CASE k <= i
    <3>1. i - (k - 1) \in 1..(Len(s) - k) /\ k + (i - (k - 1)) = i + 1 /\ ~(i <= k - 1)
      BY <1>1, <2>3
    <3>2. both[i] = right[i - (k - 1)]
      BY <1>4, <2>1, <3>1
    <3>3. right[i - (k - 1)] = s[i + 1]
      BY <1>3, <3>1
    <3> QED BY <2>3, <3>1, <3>2, <3>3
  <2> QED BY <1>1, <2>2, <2>3
<1>6. both = [i \in 1..(Len(s) - 1) |-> both[i]]
  <2>1. Len(both) = Len(s) - 1
    BY <1>1, <1>2, <1>3, <1>4
  <2> QED BY <1>4, <2>1, LenProperties
<1>7. both = [i \in 1..(Len(s) - 1) |-> IF i < k THEN s[i] ELSE s[i + 1]]
  BY <1>5, <1>6
<1> QED BY <1>7 DEF List!RemoveAt, both, left, right

\* The list counts as the proofs do.
LEMMA CountsAgree == \A S : List!Cardinality(S) = Cardinality(S)
BY DEF Cardinality, List!Cardinality

LEMMA TickSimulated ==
  ASSUME Inv, Tick
  PROVE  List!Tick
<1>1. /\ UNCHANGED <<slot, len, pc, disk, todo, buf>>
      /\ age' = [r \in SessRule |-> IF age[r] < Timeout THEN age[r] + 1 ELSE Timeout]
  BY DEF Tick, locals, moving
<1>2. Size' = Size /\ Array' = Array
  BY <1>1 DEF Size, Shifted, Array
<1>3. ASSUME NEW i \in 1..Size PROVE Entry(Array[i])' = List!Older(Abstract[i])
  <2> DEFINE r == Array[i]
  <2>1. r \in Rule /\ Abstract[i] = Entry(r)
    BY AbstractIs
  <2>2. r' = r
    BY <1>2
  <2> HIDE DEF r
  <2>3. Entry(r)' = List!Older(Entry(r))
    BY SMTT(30), <1>1, <2>1, <2>2 DEF Entry, List!Older, Inv, Base, TypeOK
  <2> QED BY <2>1, <2>3 DEF r
<1> QED BY <1>1, <1>2, <1>3, AbstractIs DEF List!Tick, Abstract

LEMMA SaveSimulated ==
  ASSUME Inv, Save
  PROVE  List!Save
<1>1. /\ UNCHANGED <<slot, len, age, todo, buf>> /\ disk' = Perms(slot, len) /\ lock = "free"
      /\ pc[Comm] = "save" /\ pc' = [pc EXCEPT ![Comm] = "idle"]
  BY DEF Save, Goto, moving
<1>2. ~Shifted /\ ~Shifted' /\ \A t \in Thread : pc[t] # "move"
  BY <1>1, Sole DEF Shifted, Inv, Base, TypeOK
<1>3. Abstract' = Abstract /\ Array = slot
  <2>1. Array' = Array
    BY <1>1 DEF Array
  <2>2. Array = slot
    BY <1>2, Whole DEF Inv, Base
  <2> QED BY <1>1, <1>2, <2>1, <2>2 DEF Abstract, Entry, Size
<1>4. Perms(slot, len) = List!Permanent(Abstract)
  <2>1. Size = len /\ len \in Nat
    BY <1>2 DEF Size, Inv, Base, TypeOK
  <2>2. PICK k \in 0..Size : Split(k)
    BY SplitExists
  <2>3. \A i \in 1..len : slot[i] \in PermRule <=> i > k
    BY <1>3, <2>1, <2>2 DEF Split
  <2>4. Perms(slot, len) = [j \in 1..(len - k) |-> slot[k + j]]
    BY <2>1, <2>3, PermsOfSlots
  <2> QED BY <1>3, <2>1, <2>2, <2>4, PermanentOf
<1> QED BY <1>1, <1>3, <1>4 DEF List!Save

LEMMA AddSimulated ==
  ASSUME Inv, Base', NEW r \in Rule, NEW c, AddRule(r, c)
  PROVE  List!Add(r)
<1> USE AddFacts DEF Inv, Base
<1>1. /\ Size = len /\ Size' = len + 1 /\ len \in Nat /\ disk' = disk
      /\ Array = slot /\ Array' = slot'
      /\ Abstract \in Seq(Entries) /\ Len(Abstract) = len
  BY AbstractIs
<1>2. ASSUME NEW i \in 1..len
      PROVE  Abstract[i] = [rule |-> slot[i],
                            idle |-> IF slot[i] \in SessRule THEN age'[slot[i]] ELSE 0]
  BY <1>1, <1>2, AbstractIs DEF Entry
<1>3. List!Fresh(r) = [rule |-> r, idle |-> IF r \in SessRule THEN age'[r] ELSE 0]
  BY DEF List!Fresh
<1>4. CASE r \in PermRule
  <2>1. Abstract' = Append(Abstract, List!Fresh(r))
    BY <1>1, <1>2, <1>3, <1>4 DEF Abstract, Entry
  <2> QED BY <1>1, <1>4, <2>1 DEF List!Add
<1>5. CASE r \notin PermRule
  <2>1. Abstract' = <<List!Fresh(r)>> \o Abstract
    BY <1>1, <1>2, <1>3, <1>5 DEF Abstract, Entry
  <2> QED BY <1>1, <1>5, <2>1 DEF List!Add
<1> QED BY <1>4, <1>5

LEMMA ShiftSimulated ==
  ASSUME Inv, NEW t \in Thread, Shift(t)
  PROVE  \/ lock # "free" /\ List!Expire
         \/ RemoveInProgress /\ List!RemoveNumber(want.type, want.num)
<1> DEFINE k == idx[t]
<1>1. /\ k \in 1..Size /\ Size \in Nat /\ Size' = Size - 1 /\ disk' = disk /\ age' = age
      /\ \A i \in 1..(Size - 1) : Array'[i] = IF i < k THEN slot[i] ELSE slot[i + 1]
      /\ pc[t] = "shift" /\ Array = slot
  BY ShiftFacts DEF Inv, Shift
<1>2. \A i \in 1..Size :
        slot[i] \in Rule /\ Abstract[i] = Entry(slot[i]) /\ Abstract[i].rule = slot[i]
  BY <1>1, AbstractIs
<1>3. DOMAIN Abstract = 1..Size /\ Len(Abstract) = Size /\ Abstract \in Seq(Entries)
  BY AbstractIs
<1> HIDE DEF k
<1>4. Abstract' = List!RemoveAt(Abstract, k)
  <2>1. List!RemoveAt(Abstract, k) =
          [i \in 1..(Size - 1) |-> IF i < k THEN Abstract[i] ELSE Abstract[i + 1]]
    BY <1>1, <1>3, RemoveAtIs
  <2>2. Abstract' = [i \in 1..(Size - 1) |-> Entry(Array[i])']
    BY <1>1 DEF Abstract
  <2>3. ASSUME NEW i \in 1..(Size - 1)
        PROVE  Entry(Array[i])' = IF i < k THEN Abstract[i] ELSE Abstract[i + 1]
    BY <1>1, <1>2 DEF Entry
  <2> QED BY <2>1, <2>2, <2>3
<1>5. CASE lock = t
  <2>1. Abstract[k].rule \in SessRule /\ Abstract[k].idle >= Timeout
    <3>1. slot[k] \in SessRule /\ age[slot[k]] >= Timeout
      BY <1>1, <1>5 DEF Inv, Due, Expired, k
    <3>2. Abstract[k] = Entry(slot[k])
      BY <1>1, <1>2
    <3> QED BY <3>1, <3>2 DEF Entry
  <2>2. lock # "free"
    BY <1>5
  <2>3. k \in DOMAIN Abstract
    BY <1>1, <1>3
  <2>4. List!Expire
    <3>1. \E i \in DOMAIN Abstract :
            /\ Abstract[i].rule \in SessRule /\ Abstract[i].idle >= Timeout
            /\ Abstract' = List!RemoveAt(Abstract, i)
      BY <1>4, <2>1, <2>3
    <3> QED BY <1>1, <3>1 DEF List!Expire
  <2> QED BY <2>2, <2>4
<1>6. CASE lock # t
  <2>1. t = Comm /\ lock # Comm /\ RemoveInProgress
    BY <1>1, <1>6, Sole DEF Inv, RemoveInProgress
  <2>2. slot[k] \in OfType(want.type) /\ want.num = Before(k)
    BY <1>1, <2>1 DEF Inv, Search, k
  <2>3. OfType(want.type) = List!Rules(want.type)
    BY DEF OfType, List!Rules
  <2>4. {j \in 1..(k - 1) : Abstract[j].rule \in List!Rules(want.type)}
          = {j \in 1..(k - 1) : slot[j] \in OfType(want.type)}
    BY <1>1, <1>2, <2>3
  <2>5. List!IsNumber(k, want.type, want.num)
    <3>1. Abstract[k].rule \in List!Rules(want.type)
      BY <1>1, <1>2, <2>2, <2>3
    <3>2. List!Cardinality({j \in 1..(k - 1) : Abstract[j].rule \in List!Rules(want.type)}) = want.num
      BY <2>2, <2>4, CountsAgree DEF Before, Count
    <3> QED BY <3>1, <3>2 DEF List!IsNumber
  <2> QED BY <1>1, <1>3, <1>4, <2>1, <2>5 DEF List!RemoveNumber
<1> QED BY <1>5, <1>6

\* The rule a scan hits either is in the list, and then the first that covers the
\* packet, or was removed since, and then its time is of no interest to the list.
LEMMA HitSimulated ==
  ASSUME Inv, LookupHit
  PROVE  List!Match(flow) \/ UNCHANGED List!vars
<1> DEFINE k == idx[Main]
           r == slot[k]
<1>1. /\ k \in Nat \ {0} /\ Hits(r) /\ pc[Main] = "scan"
      /\ slot' = slot /\ len' = len /\ disk' = disk /\ todo' = todo /\ buf' = buf
      /\ age' = [s \in SessRule |-> IF s = r THEN 0 ELSE age[s]]
      /\ pc'[Main] = "verdict" /\ pc'[Comm] = pc[Comm]
  BY DEF LookupHit, EndScan, Goto, Inv, Base, TypeOK, moving
<1>2. Size = len /\ Size' = len /\ Array = slot /\ Array' = slot
  <2>1. \A t \in Thread : pc[t] \notin {"move", "store"} /\ pc'[t] \notin {"move", "store"}
    BY <1>1, Sole DEF Inv
  <2>2. Array = slot
    BY <2>1, Whole DEF Inv, Base
  <2>3. Array' = Array
    BY <1>1 DEF Array
  <2> QED BY <1>1, <2>1, <2>2, <2>3 DEF Size, Shifted
<1>3. /\ DOMAIN Abstract = 1..len /\ len \in Nat
      /\ \A i \in 1..len :
           slot[i] \in Rule /\ Abstract[i] = Entry(slot[i]) /\ Abstract[i].rule = slot[i]
  BY <1>2, AbstractIs
<1>4. \A j \in 1..(k - 1) : j <= len => ~Hits(slot[j])
  BY <1>1 DEF Inv, Passed
<1>5. Abstract' = [i \in 1..len |-> IF slot[i] = r THEN List!Fresh(r) ELSE Abstract[i]]
  <2>1. Abstract' = [i \in 1..len |-> Entry(slot[i])']
    BY <1>1, <1>2 DEF Abstract
  <2>2. ASSUME NEW i \in 1..len
        PROVE  Entry(slot[i])' = IF slot[i] = r THEN List!Fresh(r) ELSE Abstract[i]
    BY <1>1, <1>3 DEF Entry, List!Fresh
  <2> QED BY <2>1, <2>2
<1> HIDE DEF k
<1>6. CASE k <= len
  <2>1. k \in 1..len
    BY <1>1, <1>3, <1>6
  <2>2. \A i \in 1..len : slot[i] = r <=> i = k
    BY <1>2, <2>1 DEF Inv, Distinct
  <2>3. Abstract' = [Abstract EXCEPT ![k] = List!Fresh(Abstract[k].rule)]
    BY <1>3, <1>5, <2>1, <2>2 DEF Abstract
  <2>4. flow \in Covers[Abstract[k].rule]
    BY <1>1, <1>3, <2>1 DEF Hits
  <2>5. \A j \in 1..(k - 1) : flow \notin Covers[Abstract[j].rule]
    BY <1>1, <1>3, <1>4, <2>1 DEF Hits
  <2> QED BY <1>1, <1>3, <2>1, <2>3, <2>4, <2>5 DEF List!Match
<1>7. CASE len < k
  <2>1. \A i \in 1..len : slot[i] # r
    BY <1>1, <1>3, <1>4, <1>7
  <2>2. Abstract' = Abstract
    BY <1>2, <1>3, <1>5, <2>1 DEF Abstract
  <2> QED BY <1>1, <2>2 DEF List!vars
<1> QED BY <1>1, <1>3, <1>6, <1>7

\* Two memmoves at the same time would be one of each thread.
LEMMA NotTorn ==
  ASSUME TypeOK, LockInv, FilledInv, Alone, ~torn, [Next]_vars
  PROVE  ~torn'
<1>1. CASE ~WordStep
  BY <1>1, WordFrame
<1>2. ASSUME NEW t \in Thread, Shift(t) PROVE ~torn'
  <2>1. ASSUME NEW u \in Thread, u # t, Copying(u) PROVE FALSE
    <3>1. pc[u] = "move"
      BY <2>1 DEF FilledInv, Busy, Copying, TypeOK
    <3>2. pc[t] = "shift"
      BY <1>2 DEF Shift
    <3> QED BY <2>1, <3>1, <3>2 DEF LockInv, Alone, RemoveInProgress
  <2>2. torn' = (torn \/ (idx[t] < len /\ \E u \in Thread \ {t} : Copying(u)))
    BY <1>2 DEF Shift
  <2> QED BY <2>1, <2>2
<1>3. ASSUME NEW t \in Thread, NEW i \in Slots, LoadWord(t, i) \/ StoreWord(t, i) PROVE ~torn'
  BY <1>3 DEF LoadWord, StoreWord, Observe, history
<1> QED BY <1>1, <1>2, <1>3 DEF WordStep

\* The inductive invariant holds while no packet disturbs a RULES REMOVE.
LEMMA InvCorrect == AloneSpec => [](Inv /\ Base)
<1>1. AloneSpec => Spec
  <2>1. [Next /\ Alone']_vars => [Next]_vars
    OBVIOUS
  <2> QED BY <2>1, PTL DEF AloneSpec, Spec
<1>2. AloneSpec => []Alone
  <2>1. Init => Alone
    BY DEF Init, Alone, RemoveInProgress
  <2>2. Alone /\ [Next /\ Alone']_vars => Alone'
    BY DEF Alone, RemoveInProgress, vars, table, locals
  <2> QED BY <2>1, <2>2, PTL DEF AloneSpec
<1>6. AloneSpec => []~torn
  <2>1. Init => ~torn
    BY DEF Init
  <2>2. TypeOK /\ LockInv /\ FilledInv /\ Alone /\ ~torn /\ [Next /\ Alone']_vars => ~torn'
    BY NotTorn
  <2> QED BY <1>1, <1>2, <2>1, <2>2, TypeCorrect, LockCorrect, FilledCorrect, PTL DEF AloneSpec
<1>3. AloneSpec => []Base
  BY <1>1, <1>2, <1>6, TypeCorrect, LockCorrect, FilledCorrect, OrderCorrect, HeldCorrect, PTL
  DEF Base
<1>4. Init /\ Base => Inv
  BY DEF Init, Inv, Sizes, Distinct, Due, Search, Passed, Size, Shifted
<1>5. Inv /\ Base' /\ [Next /\ Alone']_vars => Inv'
  BY QuietInv, ArrayInv, LoudInv DEF Loud
<1> QED BY <1>3, <1>4, <1>5, PTL DEF AloneSpec

\* The table implements the list, and a RULES REMOVE that no packet disturbs
\* removes the rule it was asked for (fwrules_cb_rules_remove, fwrules_entry_add,
\* fwrules_remove_timeouted, fwrules_entry_get_action and fwrules_write).
THEOREM Refinement == AloneSpec => ImplementsList
<1>1. Init => List!Init
  BY DEF Init, List!Init, Abstract, Size, Shifted
<1>2. Inv /\ Base' /\ [Next /\ Alone']_vars => [ListStep]_(List!vars)
  <2> SUFFICES ASSUME Inv, Base', [Next /\ Alone']_vars
               PROVE  ListStep \/ UNCHANGED List!vars
    OBVIOUS
  <2>1. CASE Tick
    BY <2>1, TickSimulated DEF ListStep
  <2>2. CASE Save
    BY <2>2, SaveSimulated DEF ListStep, Save
  <2>3. CASE LookupHit
    BY <2>3, HitSimulated DEF ListStep, LookupHit
  <2>4. CASE ArrayStep
    <3>2. ASSUME NEW t \in Thread, StoreLen(t) PROVE UNCHANGED List!vars
      BY <3>2, StoreFacts, Stutter DEF Inv
    <3>1. ASSUME NEW t \in Thread, NEW i \in Slots, StoreWord(t, i) PROVE UNCHANGED List!vars
      BY <3>1, WordFacts, Stutter DEF Inv
    <3>3. ASSUME NEW r \in Rule, NEW c \in {"RULES", "QUERY"}, AddRule(r, c) PROVE ListStep
      BY <3>3, AddSimulated DEF ListStep, AddRule
    <3> QED BY <2>4, <3>1, <3>2, <3>3 DEF ArrayStep
  <2>5. CASE WordStep
    <3>1. ASSUME NEW t \in Thread, Shift(t) PROVE ListStep
      BY <3>1, ShiftSimulated DEF ListStep
    <3>2. ASSUME NEW t \in Thread, NEW i \in Slots, LoadWord(t, i) \/ StoreWord(t, i)
          PROVE  UNCHANGED List!vars
      BY <3>2, WordFacts, Stutter DEF Inv
    <3> QED BY <2>5, <3>1, <3>2 DEF WordStep
  <2>6. CASE ~Loud
    <3>1. UNCHANGED <<slot, len, age, disk, todo, buf>> /\ Moves
      BY <2>6, QuietFrame DEF Base
    <3>2. Size' = Size /\ Array' = Array
      BY <3>1, QuietSize DEF Inv, Base, Array
    <3> QED BY <3>1, <3>2, Stutter
  <2> QED BY <2>1, <2>2, <2>3, <2>4, <2>5, <2>6 DEF Loud
<1> QED BY InvCorrect, <1>1, <1>2, PTL DEF AloneSpec, ImplementsList

-----------------------------------------------------------------------------
(* The file.                                                               *)

\* The file holds the permanent rules of the table.
Saved == \A k \in 0..Size : Split(k) => disk = [j \in 1..(Size - k) |-> Array[k + j]]

\* A RULES REMOVE PERM is at work on the array.
PermLeaving == pc[Comm] \in {"move", "store"} /\ lock # Comm /\ want.type = "PERM"

\* The file may lag behind only until the command that changed a permanent
\* rule has saved.
SavedInv == pc[Comm] # "save" /\ ~PermLeaving => Saved

\* A command in the middle of a removal, or about to save, stays so while the
\* other thread runs.
LEMMA Pending ==
  ASSUME Inv, [Next]_vars, ~Save, ~StoreLen(Comm),
         pc[Comm] \in {"save", "move", "store"}
  PROVE  /\ want' = want
         /\ pc[Comm] = "save" => pc'[Comm] = "save"
         /\ pc[Comm] # "save" => pc'[Comm] \in {"move", "store"}
         /\ lock # Comm => lock' # Comm
<1> USE DEF Inv, Base, TypeOK, LockInv, table, locals, moving
<1>1. CASE Tick
  BY <1>1 DEF Tick
<1>2. ASSUME NEW u \in Thread, Sweep(u)
      PROVE  /\ want' = want /\ pc'[Comm] = pc[Comm]
             /\ lock # Comm => lock' # Comm
  <2>1. u = Main
    BY <1>2 DEF Sweep, SweepSkip, SweepBegin, SweepStamp, SweepLock, SweepKeep, SweepDrop, SweepEnd
  <2> QED BY <1>2, <2>1 DEF Sweep, SweepSkip, SweepBegin, SweepStamp, SweepLock, SweepKeep,
                            SweepDrop, SweepEnd, Goto
<1>3. ASSUME NEW u \in Thread, RemoveIndex(u)
      PROVE  /\ want' = want
             /\ pc[Comm] = "save" => pc'[Comm] = "save"
             /\ pc[Comm] # "save" => pc'[Comm] \in {"move", "store"}
             /\ lock # Comm => lock' # Comm
  <2>3. CASE \E i \in Slots : LoadWord(u, i) \/ StoreWord(u, i)
    BY <2>3 DEF LoadWord, StoreWord
  <2>1. CASE u = Comm /\ ~\E i \in Slots : LoadWord(u, i) \/ StoreWord(u, i)
    <3>1. LoadLen(Comm) \/ StoreLenWraps(Comm)
      BY <1>3, <2>1 DEF RemoveIndex, Shift, ShiftRefused
    <3> QED BY <3>1 DEF LoadLen, StoreLenWraps, Goto
  <2>2. CASE u = Main /\ ~\E i \in Slots : LoadWord(u, i) \/ StoreWord(u, i)
    <3>1. lock = Main
      BY <1>3, <2>2, Sole DEF RemoveIndex, Shift, ShiftRefused, LoadLen, StoreLen, StoreLenWraps
    <3>2. CASE Shift(u) \/ LoadLen(u) \/ StoreLenWraps(u)
      BY <2>2, <3>2 DEF Shift, LoadLen, StoreLenWraps, Goto
    <3>3. CASE ShiftRefused(u) \/ StoreLen(u)
      BY <2>2, <3>1, <3>3 DEF ShiftRefused, StoreLen, ReturnFromRemove, Goto
    <3> QED BY <1>3, <2>2, <3>2, <3>3 DEF RemoveIndex
  <2> QED BY <2>1, <2>2, <2>3
<1>4. ASSUME NEW f \in Flow, Receive(f) PROVE want' = want /\ pc'[Comm] = pc[Comm] /\ lock' = lock
  BY <1>4 DEF Receive, Goto
<1>5. ASSUME Lookup
      PROVE  want' = want /\ pc'[Comm] = pc[Comm] /\ (lock # Comm => lock' # Comm)
  BY <1>5 DEF Lookup, LookupLen, LookupLock, LookupNext, LookupHit, LookupDefault, Verdict,
              EndScan, Goto
<1>6. ~Command /\ ~Remove
  BY DEF Command, ListRules, AddRule, RemoveRule, Remove, RemovePass, RemoveFound, RemoveNotFound
<1>7. CASE UNCHANGED vars
  BY <1>7 DEF vars
<1> QED BY <1>1, <1>2, <1>3, <1>4, <1>5, <1>6, <1>7 DEF Next

\* The file keeps up as long as nothing of it and of the array changes.
LEMMA SavedFrame ==
  ASSUME Saved, Array' = Array, disk' = disk, Size' = Size
  PROVE  Saved'
BY DEF Saved, Split

\* A sweep, or a RULES REMOVE SESS, takes a session rule out of the array.
LEMMA SavedShift ==
  ASSUME Inv, Saved, NEW t \in Thread, Shift(t), slot[idx[t]] \notin PermRule
  PROVE  Saved'
<1> DEFINE x == idx[t]
<1>1. /\ x \in 1..Size /\ Size \in Nat /\ Size' = Size - 1 /\ disk' = disk
      /\ \A i \in 1..(Size - 1) : Array'[i] = IF i < x THEN slot[i] ELSE slot[i + 1]
      /\ Size = len /\ Array = slot
  BY ShiftFacts DEF Inv
<1>2. slot[x] \notin PermRule
  OBVIOUS
<1>3. \A i, j \in 1..Size : i < j /\ slot[i] \in PermRule => slot[j] \in PermRule
  BY <1>1, ArraySorted
<1> HIDE DEF x
<1> SUFFICES ASSUME NEW k \in 0..Size', Split(k)'
             PROVE  disk' = [j \in 1..(Size' - k) |-> Array'[k + j]]
  BY DEF Saved
<1>4. \A i \in 1..(Size - 1) : Array'[i] \in PermRule <=> i > k
  BY <1>1 DEF Split
<1>5. k \in Nat /\ k + 1 \in 0..Size /\ k <= Size - 1
  BY <1>1
<1>6. ASSUME NEW i \in 1..Size PROVE slot[i] \in PermRule <=> i > k + 1
  <2>1. CASE i < x
    <3>1. slot[i] \notin PermRule /\ i \in 1..(Size - 1) /\ Array'[i] = slot[i]
      BY <1>1, <1>2, <1>3, <2>1
    <3> QED BY <1>4, <1>5, <3>1
  <2>2. CASE i = x
    <3>1. CASE x = 1
      BY <1>2, <1>5, <2>2, <3>1
    <3>2. CASE x # 1
      <4>1. x - 1 \in 1..(Size - 1) /\ x - 1 \in 1..Size /\ x - 1 < x
        BY <1>1, <3>2
      <4>2. slot[x - 1] \notin PermRule /\ Array'[x - 1] = slot[x - 1]
        BY <1>1, <1>2, <1>3, <4>1
      <4>3. ~(x - 1 > k)
        BY <1>4, <4>1, <4>2
      <4> QED BY <1>1, <1>2, <1>5, <2>2, <4>3
    <3> QED BY <3>1, <3>2
  <2>3. CASE i > x
    <3>1. i - 1 \in 1..(Size - 1) /\ ~(i - 1 < x) /\ (i - 1) + 1 = i
      BY <1>1, <2>3
    <3>2. Array'[i - 1] = slot[i]
      BY <1>1, <3>1
    <3> QED BY <1>4, <1>5, <3>1, <3>2
  <2> QED BY <1>1, <2>1, <2>2, <2>3
<1>7. disk = [j \in 1..(Size - (k + 1)) |-> slot[(k + 1) + j]]
  <2>1. k + 1 \in 0..Size /\ Split(k + 1)
    BY <1>1, <1>5, <1>6 DEF Split
  <2>2. disk = [j \in 1..(Size - (k + 1)) |-> Array[(k + 1) + j]]
    BY <2>1 DEF Saved
  <2> QED BY <1>1, <2>2
<1>8. x <= k + 1
  BY <1>1, <1>2, <1>6
<1>9. ASSUME NEW j \in 1..(Size - (k + 1)) PROVE Array'[k + j] = slot[(k + 1) + j]
  <2>1. k + j \in 1..(Size - 1) /\ ~(k + j < x) /\ (k + j) + 1 = (k + 1) + j
    BY <1>1, <1>5, <1>8
  <2> QED BY <1>1, <2>1
<1>10. Size' - k = Size - (k + 1)
  BY <1>1, <1>5
<1> QED BY <1>1, <1>7, <1>9, <1>10

\* A session rule is added in front.
LEMMA SavedAdd ==
  ASSUME Inv, Base', Saved, NEW r \in Rule, NEW c, AddRule(r, c), r \notin PermRule
  PROVE  Saved'
<1>1. /\ Size = len /\ Size' = len + 1 /\ len \in Nat /\ slot'[1] = r /\ disk' = disk
      /\ \A i \in 2..(len + 1) : slot'[i] = slot[i - 1]
      /\ Array = slot /\ Array' = slot'
  BY AddFacts DEF Inv, Base
<1> SUFFICES ASSUME NEW k \in 0..Size', Split(k)'
             PROVE  disk' = [j \in 1..(Size' - k) |-> slot'[k + j]]
  BY <1>1 DEF Saved
<1>2. \A i \in 1..(len + 1) : slot'[i] \in PermRule <=> i > k
  BY <1>1 DEF Split
<1>3. k \in 1..(len + 1)
  <2>1. 1 \in 1..(len + 1) /\ k \in 0..(len + 1)
    BY <1>1
  <2>2. ~(1 > k)
    BY <1>1, <1>2, <2>1
  <2> QED BY <1>1, <2>1, <2>2
<1>4. ASSUME NEW i \in 1..len PROVE slot[i] \in PermRule <=> i > k - 1
  <2>1. i + 1 \in 2..(len + 1) /\ i + 1 \in 1..(len + 1) /\ (i + 1) - 1 = i
    BY <1>1
  <2>2. slot'[i + 1] = slot[i]
    BY <1>1, <2>1
  <2> QED BY <1>2, <1>3, <2>1, <2>2
<1>5. disk = [j \in 1..(len - (k - 1)) |-> slot[(k - 1) + j]]
  <2>1. k - 1 \in 0..Size /\ Split(k - 1)
    BY <1>1, <1>3, <1>4 DEF Split
  <2> QED BY <1>1, <2>1 DEF Saved
<1>6. ASSUME NEW j \in 1..(len - (k - 1)) PROVE slot'[k + j] = slot[(k - 1) + j]
  <2>1. k + j \in 2..(len + 1) /\ (k + j) - 1 = (k - 1) + j
    BY <1>1, <1>3
  <2> QED BY <1>1, <2>1
<1>7. Size' - k = len - (k - 1)
  BY <1>1, <1>3
<1> QED BY <1>1, <1>5, <1>6, <1>7

LEMMA SavedStep ==
  ASSUME Inv, Base', SavedInv, [Next]_vars
  PROVE  SavedInv'
<1> SUFFICES ASSUME pc'[Comm] # "save", ~PermLeaving' PROVE Saved'
  BY DEF SavedInv
<1>1. CASE ~Loud
  <2>1. UNCHANGED <<slot, len, age, disk, todo, buf>> /\ Moves
    BY <1>1, QuietFrame DEF Base
  <2>2. Size' = Size /\ Array' = Array
    BY <2>1, QuietSize DEF Inv, Base, Array
  <2>3. Saved
    <3>1. ~Save /\ ~StoreLen(Comm)
      BY <1>1 DEF Loud, ArrayStep
    <3>2. pc[Comm] # "save" /\ ~PermLeaving
      BY <3>1, Pending DEF PermLeaving
    <3> QED BY <3>2 DEF SavedInv
  <2> QED BY <2>1, <2>2, <2>3, SavedFrame
<1>2. CASE Tick
  <2>1. UNCHANGED <<disk, pc, lock, want>> /\ Size' = Size /\ Array' = Array
    BY <1>2 DEF Tick, locals, moving, Size, Shifted, Array
  <2> QED BY <2>1, SavedFrame DEF SavedInv, PermLeaving
<1>3. CASE LookupHit
  <2>1. /\ pc[Main] = "scan" /\ pc'[Main] = "verdict" /\ pc'[Comm] = pc[Comm]
        /\ UNCHANGED <<slot, len, disk, want, todo, buf>>
    BY <1>3 DEF LookupHit, EndScan, Goto, Inv, Base, TypeOK, moving
  <2>2. pc[Comm] \notin Removing
    BY <2>1, Sole DEF Inv
  <2>3. Size' = Size /\ Array' = Array
    BY <2>1 DEF Size, Shifted, Array
  <2>4. Saved
    BY <2>1, <2>2 DEF SavedInv, PermLeaving
  <2> QED BY <2>1, <2>3, <2>4, SavedFrame
<1>4. CASE Save
  <2>1. /\ UNCHANGED <<slot, len, todo, buf>> /\ disk' = Perms(slot, len) /\ lock = "free"
        /\ pc[Comm] = "save" /\ pc' = [pc EXCEPT ![Comm] = "idle"]
    BY <1>4 DEF Save, Goto, moving
  <2>2. ~Shifted /\ ~Shifted' /\ \A t \in Thread : pc[t] # "move"
    BY <2>1, Sole DEF Shifted, Inv, Base, TypeOK
  <2>3. Size = len /\ Size' = len /\ len \in Nat /\ Array' = slot
    <3>1. Array = slot /\ Array' = Array
      BY <2>1, <2>2, Whole DEF Inv, Base, Array
    <3> QED BY <2>1, <2>2, <3>1 DEF Size, Inv, Base, TypeOK
  <2> SUFFICES ASSUME NEW k \in 0..len, \A i \in 1..len : slot[i] \in PermRule <=> i > k
               PROVE  disk' = [j \in 1..(len - k) |-> slot[k + j]]
    BY <2>1, <2>3 DEF Saved, Split
  <2> QED BY <2>1, <2>3, PermsOfSlots
<1>5. ASSUME NEW t \in Thread, Shift(t) PROVE Saved'
  <2>1. /\ pc[t] = "shift" /\ pc'[t] = "move" /\ UNCHANGED <<want, lock, idx>>
        /\ \A u \in Thread : u # t => pc'[u] = pc[u]
    BY <1>5 DEF Shift, Goto, table, Inv, Base, TypeOK
  <2>2. Saved
    BY <2>1 DEF SavedInv, PermLeaving
  <2>3. slot[idx[t]] \in SessRule
    <3>1. CASE lock = t
      BY <2>1, <3>1 DEF Inv, Due, Expired
    <3>2. CASE lock # t
      <4>1. t = Comm
        BY <2>1, <3>2, Sole DEF Inv
      <4>2. want.type = "SESS"
        BY <2>1, <3>2, <4>1 DEF PermLeaving, Inv, Base, TypeOK
      <4> QED BY <2>1, <3>2, <4>1, <4>2 DEF Inv, Search, OfType
    <3> QED BY <3>1, <3>2
  <2> QED BY <1>5, <2>2, <2>3, SavedShift
<1>6. ASSUME NEW t \in Thread, StoreLen(t) PROVE Saved'
  <2>1. /\ Size' = Size /\ Array' = Array /\ UNCHANGED <<disk, lock>> /\ pc[t] = "store"
        /\ \A u \in Thread : u # t => pc'[u] = pc[u]
    BY <1>6, StoreFacts DEF Inv
  <2>2. pc[Comm] # "save" /\ ~PermLeaving
    <3>1. CASE t = Main
      <4>1. lock = Main
        BY <2>1, <3>1, Sole DEF Inv
      <4> QED BY <1>6, <2>1, <3>1, <4>1 DEF PermLeaving, StoreLen, ReturnFromRemove
    <3>2. CASE t = Comm
      <4>1. lock # Comm /\ want.type = "PERM" => pc'[Comm] = "save"
        BY <1>6, <3>2 DEF StoreLen, ReturnFromRemove, Goto, Inv, Base, TypeOK
      <4> QED BY <2>1, <3>2, <4>1 DEF PermLeaving
    <3> QED BY <3>1, <3>2
  <2> QED BY <2>1, <2>2, SavedFrame DEF SavedInv
<1>7. ASSUME NEW r \in Rule, NEW c \in {"RULES", "QUERY"}, AddRule(r, c) PROVE Saved'
  <2>1. pc[Comm] = "idle" /\ r \notin PermRule
    BY <1>7 DEF AddRule, Goto, Inv, Base, TypeOK
  <2>2. Saved
    BY <2>1 DEF SavedInv, PermLeaving
  <2> QED BY <1>7, <2>1, <2>2, SavedAdd
<1>8. ASSUME NEW t \in Thread, NEW i \in Slots, LoadWord(t, i) \/ StoreWord(t, i) PROVE Saved'
  <2>1. Array' = Array /\ Size' = Size /\ UNCHANGED <<disk, lock, pc, want>>
    BY <1>8, WordFacts DEF Inv
  <2> QED BY <2>1, SavedFrame DEF SavedInv, PermLeaving
<1> QED BY <1>1, <1>2, <1>3, <1>4, <1>5, <1>6, <1>7, <1>8 DEF Loud, WordStep, ArrayStep

\* The file that holds what the array does holds what the list does.
LEMMA SavedIsPermanent ==
  ASSUME Inv, Saved
  PROVE  disk = List!Permanent(Abstract)
<1>1. PICK k \in 0..Size : Split(k)
  BY SplitExists
<1> QED BY <1>1, PermanentOf DEF Saved

\* Between two commands /etc/desktopfw/rules holds the permanent rules of the
\* table, in their order (fwrules_cb_rules_add, fwrules_cb_rules_remove and
\* fwquery_cb_add, which end with fwrules_write).
THEOREM DiskCorrect == AloneSpec => []DiskMatchesTable
<1>1. Init => SavedInv
  BY DEF Init, SavedInv, Saved, Size, Shifted
<1>2. Inv /\ Base' /\ SavedInv /\ [Next /\ Alone']_vars => SavedInv'
  BY SavedStep DEF Base
<1>3. Inv /\ SavedInv => DiskMatchesTable
  BY SavedIsPermanent DEF DiskMatchesTable, SavedInv, PermLeaving
<1> QED BY InvCorrect, <1>1, <1>2, <1>3, PTL DEF AloneSpec
=============================================================================
