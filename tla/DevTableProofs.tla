---------------------------- MODULE DevTableProofs ----------------------------
(***************************************************************************)
(* Proofs about DevTable: what the unlocked interval test and the two      *)
(* readings of a rebuild guarantee, for every number of interfaces, every  *)
(* interval and every schedule.                                            *)
(***************************************************************************)
EXTENDS DevTable, FiniteSetTheorems, WellFoundedInduction, TLAPS

USE DevAssumption DEF DevAssumption, Thread

-----------------------------------------------------------------------------
(* The interval.                                                           *)

Places == {"off", "idle", "stamp", "lock", "read", "query", "scan"}

\* No clock reading is ahead of the clock.
Clocks ==
  /\ now \in Nat /\ readat \in Int /\ last \in Int
  /\ last <= now /\ readat <= now
  /\ tv \in [Thread -> Nat] /\ \A t \in Thread : tv[t] <= now
  /\ pc \in [Thread -> Places]

\* A table older than its stamp has a thread on the way to read it anew.
Stamps == readat >= last \/ \E t \in Thread : pc[t] \in {"lock", "read"}

StampInv == Clocks /\ Stamps

LEMMA StampInit == Init => StampInv
BY DEF Init, StampInv, Clocks, Stamps, Places

LEMMA StampStep == StampInv /\ [Next]_vars => StampInv'
<1> SUFFICES ASSUME StampInv, [Next]_vars PROVE StampInv'
  OBVIOUS
<1> USE DEF StampInv, env, Places
<1>1. CASE Tick
  <2>1. Clocks'
    BY <1>1 DEF Tick, Clocks
  <2>2. Stamps'
    BY <1>1 DEF Tick, Stamps
  <2> QED BY <2>1, <2>2
<1>2. CASE \E d \in Iface : Plug(d) \/ Unplug(d)
  <2>1. UNCHANGED <<now, last, pc, tv, readat>>
    BY <1>2 DEF Plug, Unplug
  <2> QED BY <2>1 DEF Clocks, Stamps
<1>3. CASE StartComm
  <2>1. UNCHANGED <<now, last, tv, readat>> /\ pc' = [pc EXCEPT ![Comm] = "idle"] /\ pc[Comm] = "off"
    BY <1>3 DEF StartComm, Go
  <2>2. Clocks'
    BY <2>1 DEF Clocks
  <2>3. Stamps'
    BY <2>1 DEF Clocks, Stamps
  <2> QED BY <2>2, <2>3
<1>4. ASSUME NEW t \in Thread, Call(t) PROVE StampInv'
  <2>1. /\ UNCHANGED <<now, last, readat>> /\ pc' = [pc EXCEPT ![t] = "stamp"] /\ pc[t] = "idle"
        /\ tv' = [tv EXCEPT ![t] = now]
    BY <1>4 DEF Call, Go
  <2>2. Clocks'
    BY <2>1 DEF Clocks
  <2>3. Stamps'
    BY <2>1 DEF Clocks, Stamps
  <2> QED BY <2>2, <2>3
<1>5. ASSUME NEW t \in Thread, Stamp(t) PROVE StampInv'
  <2>1. /\ UNCHANGED <<now, readat>> /\ pc' = [pc EXCEPT ![t] = "lock"]
        /\ last' = tv[t] /\ tv' = [tv EXCEPT ![t] = 0]
    BY <1>5 DEF Stamp, Go
  <2>2. Clocks'
    BY <2>1 DEF Clocks
  <2>3. Stamps'
    BY <2>1 DEF Clocks, Stamps
  <2> QED BY <2>2, <2>3
<1>6. ASSUME NEW t \in Thread, Lock(t) PROVE StampInv'
  <2>1. UNCHANGED <<now, last, tv, readat>> /\ pc' = [pc EXCEPT ![t] = "read"]
    BY <1>6 DEF Lock, Acquire, Go
  <2>2. Clocks'
    BY <2>1 DEF Clocks
  <2>3. Stamps'
    BY <2>1 DEF Clocks, Stamps
  <2> QED BY <2>2, <2>3
<1>7. ASSUME NEW t \in Thread, ReadProc(t) PROVE StampInv'
  <2>1. UNCHANGED <<now, last, tv>> /\ pc' = [pc EXCEPT ![t] = "query"] /\ readat' = now
    BY <1>7 DEF ReadProc, Go
  <2>2. Clocks'
    BY <2>1 DEF Clocks
  <2>3. Stamps'
    BY <2>1 DEF Clocks, Stamps
  <2> QED BY <2>2, <2>3
<1>8. ASSUME NEW t \in Thread, Query(t) \/ Scan(t) PROVE StampInv'
  <2>1. /\ UNCHANGED <<now, last, tv, readat>> /\ pc[t] \in {"query", "scan"}
        /\ \E p \in {"scan", "idle"} : pc' = [pc EXCEPT ![t] = p]
    BY <1>8 DEF Query, Scan, Join, Go
  <2>2. Clocks'
    BY <2>1 DEF Clocks
  <2>3. Stamps'
    BY <2>1 DEF Clocks, Stamps
  <2> QED BY <2>2, <2>3
<1>9. CASE UNCHANGED vars
  BY <1>9 DEF vars, Clocks, Stamps
<1> QED BY <1>1, <1>2, <1>3, <1>4, <1>5, <1>6, <1>7, <1>8, <1>9 DEF Next, Read

\* The test and the stamp of the interval are not locked, and both threads may
\* pass it; still, when neither rebuilds, the table is no older than its stamp.
THEOREM StampsAreTrue == Spec => []StampedIsRead
<1>1. StampInv => StampedIsRead
  BY DEF StampInv, Clocks, Stamps, StampedIsRead, Working
<1> QED BY <1>1, StampInit, StampStep, PTL DEF Spec

-----------------------------------------------------------------------------
(* The indexes.                                                            *)

\* Only the holder of FWDevsLock is past it.
Exclusive ==
  /\ pc \in [Thread -> Places]
  /\ \A t \in Thread : pc[t] \in {"read", "query", "scan"} <=> lock = t

\* No two interfaces share an index, now or in the link table.
Distinct(k) == \A d, e \in Iface : k[d] # 0 /\ k[d] = k[e] => d = e
Indexes ==
  /\ nextidx \in Nat /\ nextidx > 0
  /\ kernel \in [Iface -> Nat] /\ nlif \in [Iface -> Nat]
  /\ \A d \in Iface : kernel[d] < nextidx
  /\ Distinct(kernel) /\ Distinct(nlif)

\* Between rebuilds the entries that the loop reached have the index of their
\* name in the link table.
Joined ==
  lock = Free =>
    \A i \in DOMAIN devs : Reached(devs[i].name) => devs[i].idx = nlif[devs[i].name] - 1

\* FWDevs is an array.
Numbered == Len(devs) \in Nat /\ DOMAIN devs = 1..Len(devs)

IndexInv == Exclusive /\ Indexes /\ Numbered /\ Joined

LEMMA ArrayLen == ASSUME NEW n \in Nat, NEW f
                  PROVE  Len([i \in 1..n |-> f[i]]) = n
OBVIOUS

LEMMA ArrayOf ==
  ASSUME NEW n \in Nat, NEW s, s = [i \in 1..n |-> s[i]]
  PROVE  Len(s) = n /\ DOMAIN s = 1..n
<1>1. Len([i \in 1..n |-> s[i]]) = n
  BY ArrayLen
<1> QED BY <1>1

LEMMA IndexInit == Init => IndexInv
<1> SUFFICES ASSUME Init PROVE IndexInv
  OBVIOUS
<1>1. Exclusive
  BY DEF Init, Exclusive, Places
<1>2. Cardinality(Iface) \in Nat
  BY FS_CardinalityType
<1>3. kernel \in [Iface -> Nat] /\ \A d \in Iface : kernel[d] < nextidx
  BY <1>2 DEF Init
<1>4. Distinct(kernel)
  <2> DEFINE S == Present(kernel)
             n == Cardinality(S)
             f == [d \in S |-> kernel[d]]
  <2>1. IsFiniteSet(S) /\ n \in Nat
    BY FS_Subset, FS_CardinalityType DEF Present
  <2>2. {kernel[d] : d \in S} = 1..n
    BY DEF Init
  <2>3. f \in Surjection(S, 1..n)
    BY <2>2 DEF Surjection
  <2>4. Cardinality(1..n) = n
    BY <2>1, FS_Interval
  <2>5. f \in Injection(S, 1..n)
    BY <2>1, <2>3, <2>4, FS_SurjSameCardinalityImpliesInj
  <2>6. \A d, e \in S : kernel[d] = kernel[e] => d = e
    BY <2>5 DEF Injection, IsInjective
  <2> QED BY <2>6 DEF Distinct, Present
<1>5. Indexes
  BY <1>2, <1>3, <1>4 DEF Init, Indexes, None, Distinct
<1>6. Numbered /\ Joined
  BY DEF Init, Numbered, Joined
<1> QED BY <1>1, <1>5, <1>6 DEF IndexInv

LEMMA IndexStep == IndexInv /\ [Next]_vars => IndexInv'
<1> SUFFICES ASSUME IndexInv, [Next]_vars PROVE IndexInv'
  OBVIOUS
<1> USE DEF env, Places
<1>0. Exclusive /\ Indexes /\ Numbered /\ Joined
  BY DEF IndexInv
<1>1. ASSUME UNCHANGED <<devs, lock, nlif>> PROVE Numbered' /\ Joined'
  BY <1>0, <1>1 DEF Numbered, Joined, Reached, Below, Present
<1>2. ASSUME UNCHANGED <<kernel, nextidx, nlif>> PROVE Indexes'
  BY <1>0, <1>2 DEF Indexes, Distinct
<1>3. ASSUME NEW t \in Thread, NEW p \in {"idle", "stamp", "lock"}, UNCHANGED lock,
             pc[t] \in {"off", "idle", "stamp"}, pc' = [pc EXCEPT ![t] = p]
      PROVE  Exclusive'
  BY <1>0, <1>3 DEF Exclusive
<1>4. ASSUME NEW t \in Thread, NEW p \in {"query", "scan"}, UNCHANGED lock,
             pc[t] \in {"read", "query"}, pc' = [pc EXCEPT ![t] = p]
      PROVE  Exclusive' /\ lock = t
  BY <1>0, <1>4 DEF Exclusive
<1>5. CASE Tick
  <2>1. UNCHANGED <<kernel, nextidx, devs, lock, nlif, pc>>
    BY <1>5 DEF Tick
  <2> QED BY <1>0, <1>1, <1>2, <2>1 DEF IndexInv, Exclusive
<1>6. ASSUME NEW d \in Iface, Plug(d) \/ Unplug(d) PROVE IndexInv'
  <2>1. /\ UNCHANGED <<devs, lock, nlif, pc>>
        /\ nextidx' \in {nextidx, nextidx + 1}
        /\ \/ kernel' = [kernel EXCEPT ![d] = nextidx] /\ nextidx' = nextidx + 1
           \/ kernel' = [kernel EXCEPT ![d] = 0]
    BY <1>6 DEF Plug, Unplug
  <2>2. Indexes'
    BY <1>0, <2>1 DEF Indexes, Distinct
  <2> QED BY <1>0, <1>1, <2>1, <2>2 DEF IndexInv, Exclusive
<1>7. CASE StartComm \/ \E t \in Thread : Call(t) \/ Stamp(t)
  <2>1. UNCHANGED <<kernel, nextidx, devs, lock, nlif>>
    BY <1>7 DEF StartComm, Call, Stamp
  <2>2. PICK t \in Thread, p \in {"idle", "stamp", "lock"} :
          pc[t] \in {"off", "idle", "stamp"} /\ pc' = [pc EXCEPT ![t] = p]
    BY <1>7 DEF StartComm, Call, Stamp, Go
  <2>3. Exclusive'
    BY <1>3, <2>1, <2>2
  <2> QED BY <1>1, <1>2, <2>1, <2>3 DEF IndexInv
<1>8. ASSUME NEW t \in Thread, Lock(t) PROVE IndexInv'
  <2>1. /\ UNCHANGED <<kernel, nextidx, nlif>> /\ lock = Free /\ lock' = t /\ devs' = << >>
        /\ pc[t] = "lock" /\ pc' = [pc EXCEPT ![t] = "read"]
    BY <1>8 DEF Lock, Acquire, Go
  <2>2. Exclusive'
    BY <1>0, <2>1 DEF Exclusive
  <2>3. Numbered' /\ Joined'
    BY <2>1 DEF Numbered, Joined
  <2> QED BY <1>2, <2>1, <2>2, <2>3 DEF IndexInv
<1>9. ASSUME NEW t \in Thread, ReadProc(t) PROVE IndexInv'
  <2>1. /\ UNCHANGED <<kernel, nextidx, nlif, lock>>
        /\ pc[t] = "read" /\ pc' = [pc EXCEPT ![t] = "query"]
        /\ devs' = [i \in 1..Cardinality(Names) |-> devs'[i]]
    <3>1. PICK names \in [1..Cardinality(Names) -> Names], junk \in JunkIdx :
            devs' = [i \in DOMAIN names |-> [name |-> names[i], idx |-> junk]]
      BY <1>9 DEF ReadProc
    <3> QED BY <1>9, <3>1 DEF ReadProc, Go
  <2>2. Exclusive' /\ lock = t
    BY <1>4, <2>1
  <2>3. Cardinality(Names) \in Nat
    BY FS_Subset, FS_CardinalityType DEF Names, Present
  <2>4. Numbered'
    BY <2>1, <2>3, ArrayOf DEF Numbered
  <2>5. Joined'
    BY <2>1, <2>2 DEF Joined
  <2> QED BY <1>2, <2>1, <2>2, <2>4, <2>5 DEF IndexInv
<1>10. ASSUME NEW t \in Thread, Query(t) PROVE IndexInv'
  <2>1. /\ UNCHANGED <<kernel, nextidx, devs, lock>> /\ nlif' = kernel
        /\ pc[t] = "query" /\ pc' = [pc EXCEPT ![t] = "scan"]
    BY <1>10 DEF Query, Go
  <2>2. Exclusive' /\ lock = t
    BY <1>4, <2>1
  <2>3. Numbered' /\ Joined'
    BY <1>0, <2>1, <2>2 DEF Numbered, Joined
  <2>4. Indexes'
    BY <1>0, <2>1 DEF Indexes, Distinct
  <2> QED BY <2>2, <2>3, <2>4 DEF IndexInv
<1>11. ASSUME NEW t \in Thread, Scan(t) PROVE IndexInv'
  <2>1. /\ UNCHANGED <<kernel, nextidx, nlif>> /\ lock' = Free /\ devs' = Scanned
        /\ pc[t] = "scan" /\ pc' = [pc EXCEPT ![t] = "idle"]
    BY <1>11 DEF Scan, Join, Go
  <2>2. Exclusive'
    BY <1>0, <2>1 DEF Exclusive
  <2>3. /\ Len(devs) \in Nat /\ DOMAIN devs = 1..Len(devs)
        /\ devs' = [i \in 1..Len(devs) |-> devs'[i]]
    BY <1>0, <2>1 DEF Numbered, Scanned
  <2>4. Len(devs') = Len(devs) /\ DOMAIN devs' = 1..Len(devs)
    BY <2>3, ArrayOf
  <2>5. Numbered'
    BY <2>3, <2>4 DEF Numbered
  <2>6. Joined'
    <3>1. ASSUME NEW d PROVE Reached(d)' <=> Reached(d)
      BY <2>1, <2>4 DEF Reached, Below, Present
    <3>2. ASSUME NEW i \in DOMAIN devs
          PROVE  /\ devs'[i].name = devs[i].name
                 /\ Reached(devs[i].name) => devs'[i].idx = nlif[devs[i].name] - 1
      BY <2>1 DEF Scanned
    <3> QED BY <2>1, <2>3, <2>4, <3>1, <3>2 DEF Joined
  <2> QED BY <1>2, <2>1, <2>2, <2>5, <2>6 DEF IndexInv
<1>12. CASE UNCHANGED vars
  BY <1>0, <1>1, <1>2, <1>12 DEF vars, IndexInv, Exclusive
<1> QED BY <1>5, <1>6, <1>7, <1>8, <1>9, <1>10, <1>11, <1>12 DEF Next, Read

LEMMA IndexInvariant == Spec => []IndexInv
BY IndexInit, IndexStep, PTL DEF Spec

\* Between rebuilds the index of an entry that the loop reached is the one the
\* kernel gives to its packets, unless the interface has changed since.
THEOREM IndexesAreTheKernels == Spec => []IndexIsKernels
<1>1. IndexInv => IndexIsKernels
  <2> SUFFICES ASSUME IndexInv, lock = Free, NEW i \in DOMAIN devs,
                      kernel[devs[i].name] = nlif[devs[i].name], Reached(devs[i].name)
               PROVE  devs[i].idx = kernel[devs[i].name] - 1
    BY DEF IndexIsKernels
  <2> QED BY DEF IndexInv, Joined
<1> QED BY <1>1, IndexInvariant, PTL

LEMMA LeastNumber ==
  ASSUME NEW T \in SUBSET Nat, T # {}
  PROVE  \E m \in T : \A k \in T : m <= k
<1> DEFINE Less == {ss \in Nat \X Nat : ss[1] < ss[2]}
<1>1. IsWellFoundedOn(Less, Nat)
  BY NatLessThanWellFounded DEF OpToRel
<1>2. \A k, m \in Nat : k < m => <<k, m>> \in Less
  OBVIOUS
<1> HIDE DEF Less
<1>3. PICK m \in T : \A k \in T : ~(<<k, m>> \in Less)
  BY <1>1, WFMin
<1>4. \A k \in T : k \in Nat
  OBVIOUS
<1>5. \A k \in T : ~(k < m)
  BY <1>2, <1>3, <1>4
<1> QED BY <1>4, <1>5

\* Between rebuilds the lookup by index names the interface that a packet came
\* from, if it is known and unchanged and the loop reached every entry.
THEOREM LabelsAreRight == Spec => []LabelIsInterface
<1>1. IndexInv => LabelIsInterface
  <2> SUFFICES ASSUME IndexInv, lock = Free, \A i \in DOMAIN devs : Reached(devs[i].name),
                      NEW d \in Present(kernel), Known(d), kernel[d] = nlif[d]
               PROVE  NameByIndex(kernel[d] - 1) = d
    BY DEF LabelIsInterface
  <2> DEFINE k    == kernel[d] - 1
             hits == {i \in DOMAIN devs : devs[i].idx = k}
  <2>1. \A i \in DOMAIN devs : devs[i].name \in Iface /\ devs[i].idx = nlif[devs[i].name] - 1
    BY DEF IndexInv, Joined, Reached, Present
  <2>2. d \in Iface /\ nlif[d] # 0 /\ \A e \in Iface : nlif[e] \in Nat
    BY DEF Present, IndexInv, Indexes
  <2>3. \A i \in hits : devs[i].name = d
    BY <2>1, <2>2 DEF IndexInv, Indexes, Distinct
  <2>4. hits # {}
    BY <2>1 DEF Known
  <2>5. hits \in SUBSET Nat
    BY DEF IndexInv, Numbered
  <2>6. \E i \in hits : \A j \in hits : i <= j
    BY <2>4, <2>5, LeastNumber
  <2>7. (CHOOSE i \in hits : \A j \in hits : i <= j) \in hits
    BY <2>6
  <2>8. NameByIndex(k) = devs[CHOOSE i \in hits : \A j \in hits : i <= j].name
    BY <2>4 DEF NameByIndex
  <2> QED BY <2>3, <2>7, <2>8
<1> QED BY <1>1, IndexInvariant, PTL

-----------------------------------------------------------------------------
(* Types.                                                                  *)

DevTypes ==
  /\ kernel \in [Iface -> 0..MaxIndex] /\ nlif \in [Iface -> 0..MaxIndex]
  /\ nextidx \in 1..(MaxIndex + 1)
  /\ devs \in Seq(DevEntry)
ClockTypes ==
  /\ now \in 0..MaxNow /\ readat \in 0..MaxNow /\ last \in -Interval..MaxNow
  /\ tv \in [Thread -> 0..MaxNow]
  /\ lock \in {Free, Main, Comm}

LEMMA DevTypesStep ==
  ASSUME DevTypes, Indexes, [Next]_vars
  PROVE  DevTypes'
<1> USE DEF DevTypes, env
<1>1. CASE Tick \/ StartComm \/ \E t \in Thread : Call(t) \/ Stamp(t)
  BY <1>1 DEF Tick, StartComm, Call, Stamp
<1>2. ASSUME NEW d \in Iface, Plug(d) \/ Unplug(d) PROVE DevTypes'
  <2>1. CASE Plug(d)
    <3>1. nextidx \in 0..MaxIndex /\ nextidx + 1 \in 1..(MaxIndex + 1)
      BY <2>1 DEF Plug
    <3> QED BY <2>1, <3>1 DEF Plug
  <2>2. CASE Unplug(d)
    BY <2>2 DEF Unplug
  <2> QED BY <1>2, <2>1, <2>2
<1>3. ASSUME NEW t \in Thread, Lock(t) PROVE DevTypes'
  BY <1>3 DEF Lock, Acquire
<1>4. ASSUME NEW t \in Thread, ReadProc(t) PROVE DevTypes'
  <2>1. PICK names \in [1..Cardinality(Names) -> Names], junk \in JunkIdx :
          devs' = [i \in DOMAIN names |-> [name |-> names[i], idx |-> junk]]
    BY <1>4 DEF ReadProc
  <2>2. Cardinality(Names) \in Nat
    BY FS_Subset, FS_CardinalityType DEF Names, Present
  <2>3. \A n \in Names : [name |-> n, idx |-> junk] \in DevEntry
    BY DEF DevEntry, Names, Present
  <2>4. devs' \in [1..Cardinality(Names) -> DevEntry]
    BY <2>1, <2>3
  <2>5. devs' \in Seq(DevEntry)
    BY SMTT(30), <2>2, <2>4
  <2>6. UNCHANGED <<kernel, nlif, nextidx>>
    BY <1>4 DEF ReadProc
  <2> QED BY <2>5, <2>6
<1>5. ASSUME NEW t \in Thread, Query(t) PROVE DevTypes'
  BY <1>5 DEF Query
<1>6. ASSUME NEW t \in Thread, Scan(t) PROVE DevTypes'
  <2>1. /\ UNCHANGED <<kernel, nlif, nextidx>>
        /\ devs' = [i \in DOMAIN devs |-> devs'[i]]
        /\ \A i \in DOMAIN devs :
             devs'[i] = IF Reached(devs[i].name) THEN [devs[i] EXCEPT !.idx = nlif[devs[i].name] - 1] ELSE devs[i]
    BY <1>6 DEF Scan, Join, Scanned
  <2>2. \A i \in DOMAIN devs : devs[i] \in DevEntry
    OBVIOUS
  <2>3. ASSUME NEW e \in DevEntry, Reached(e.name)
        PROVE  [e EXCEPT !.idx = nlif[e.name] - 1] \in DevEntry
    <3>1. nlif[e.name] - 1 \in 0..(MaxIndex - 1)
      BY <2>3 DEF Reached, Present
    <3> QED BY <3>1 DEF DevEntry
  <2>4. \A i \in DOMAIN devs : devs'[i] \in DevEntry
    BY <2>1, <2>2, <2>3
  <2>5. DOMAIN devs = 1..Len(devs) /\ Len(devs) \in Nat
    OBVIOUS
  <2>6. devs' \in [1..Len(devs) -> DevEntry]
    BY <2>1, <2>4, <2>5
  <2> QED BY SMTT(30), <2>1, <2>5, <2>6
<1>7. CASE UNCHANGED vars
  BY <1>7 DEF vars
<1> QED BY <1>1, <1>2, <1>3, <1>4, <1>5, <1>6, <1>7 DEF Next, Read

LEMMA ClockTypesStep ==
  ASSUME ClockTypes, [Next]_vars
  PROVE  ClockTypes'
<1> USE DEF ClockTypes, env
<1>1. CASE Tick
  BY <1>1 DEF Tick
<1>2. CASE \E d \in Iface : Plug(d) \/ Unplug(d)
  BY <1>2 DEF Plug, Unplug
<1>3. CASE StartComm
  BY <1>3 DEF StartComm
<1>4. ASSUME NEW t \in Thread, Call(t) \/ Stamp(t) PROVE ClockTypes'
  BY <1>4 DEF Call, Stamp
<1>5. ASSUME NEW t \in Thread, Lock(t) \/ ReadProc(t) \/ Query(t) \/ Scan(t) PROVE ClockTypes'
  <2>1. /\ UNCHANGED <<now, last, tv>> /\ readat' \in {readat, now} /\ lock' \in {lock, t, Free}
    BY <1>5 DEF Lock, Acquire, ReadProc, Query, Scan, Join
  <2> QED BY <2>1
<1>6. CASE UNCHANGED vars
  BY <1>6 DEF vars
<1> QED BY <1>1, <1>2, <1>3, <1>4, <1>5, <1>6 DEF Next, Read

\* Every variable keeps its type; in particular the entries of FWDevs have names
\* that sscanf takes, and an index of the kernel's or what was uninitialised.
THEOREM TypeCorrect == Spec => []TypeOK
<1>1. Init => DevTypes /\ ClockTypes
  <2> SUFFICES ASSUME Init PROVE DevTypes /\ ClockTypes
    OBVIOUS
  <2>1. Cardinality(Iface) \in Nat
    BY FS_CardinalityType
  <2>2. DevTypes
    BY <2>1 DEF Init, DevTypes, None
  <2>3. ClockTypes
    BY DEF Init, ClockTypes
  <2> QED BY <2>2, <2>3
<1>2. DevTypes /\ ClockTypes /\ IndexInv /\ [Next]_vars => DevTypes' /\ ClockTypes'
  BY DevTypesStep, ClockTypesStep DEF IndexInv
<1>3. DevTypes /\ ClockTypes /\ IndexInv => TypeOK
  BY DEF DevTypes, ClockTypes, IndexInv, Exclusive, Places, TypeOK
<1> QED BY <1>1, <1>2, <1>3, IndexInvariant, PTL DEF Spec
=============================================================================
