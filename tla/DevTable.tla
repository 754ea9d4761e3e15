------------------------------ MODULE DevTable ------------------------------
(***************************************************************************)
(* The network devices: the array FWDevs, which fwdev_read rebuilds from   *)
(* /proc/net/dev and the kernel's link table, at most once in an interval, *)
(* for the packet thread before each packet and for the command thread     *)
(* before DEV LIST and DEV STATS.  Meanwhile interfaces come and go.       *)
(*                                                                         *)
(* The interval is tested and stamped before FWDevsLock is taken.  The     *)
(* names and the kernel's indexes are read at two moments, and the loop    *)
(* that joins them counts names.                                           *)
(*                                                                         *)
(* Abstractions.  The statistics and the replies are left out.  The packet *)
(* thread's unlocked lookups are operators on the array: what they find    *)
(* while the other thread rebuilds it is undefined and not modelled.       *)
(***************************************************************************)
EXTENDS Integers, FiniteSets, SequencesExt

CONSTANTS
  Iface,       \* interface names
  Lo,          \* ... of the loopback, which comes first and stays
  Odd,         \* ... that sscanf's %[a-z0-9.] does not take
  Main, Comm,  \* the packet thread and the command thread
  Free,        \* no thread
  JunkIdx,     \* what an uninitialised nlifidx may hold
  Interval,    \* FWDEV_CHECKTIME_INTERVAL
  MaxIndex,    \* bound: indexes the kernel hands out
  MaxNow       \* bound: seconds

ASSUME DevAssumption ==
  /\ IsFiniteSet(Iface) /\ Odd \subseteq Iface /\ Lo \in Iface
  /\ Main # Comm /\ Free \notin {Main, Comm}
  /\ JunkIdx \subseteq Int /\ JunkIdx # {}
  /\ Interval \in Nat \ {0} /\ MaxNow \in Nat
  /\ MaxIndex \in Nat /\ Cardinality(Iface) <= MaxIndex   \* each can have one

Thread == {Main, Comm}

VARIABLES
  kernel,   \* an interface's index in the kernel, 0 for none
  nextidx,  \* the index the kernel hands out next
  now,
  devs,     \* FWDevs: names with their nlifidx
  last,     \* last_check
  lock,     \* who holds FWDevsLock
  nlif,     \* the link table the holder has queried
  pc,       \* where a thread is in fwdev_read
  tv,       \* its clock reading
  readat    \* history: when devs was read

env  == <<kernel, nextidx, now>>
vars == <<env, devs, last, lock, nlif, pc, tv, readat>>

DevEntry == [name : Iface \ Odd, idx : JunkIdx \cup 0..(MaxIndex - 1)]

None == [d \in Iface |-> 0]
Present(k) == {d \in Iface : k[d] # 0}

\* The command thread starts after main has read the devices once.
Init ==
  /\ kernel \in {k \in [Iface -> 0..Cardinality(Iface)] :
       k[Lo] = 1 /\ {k[d] : d \in Present(k)} = 1..Cardinality(Present(k))}
  /\ nextidx = Cardinality(Iface) + 1
  /\ now = 0 /\ last = -Interval
  /\ devs = << >> /\ readat = 0
  /\ lock = Free /\ nlif = None
  /\ pc = [t \in Thread |-> IF t = Main THEN "idle" ELSE "off"]
  /\ tv = [t \in Thread |-> 0]

-----------------------------------------------------------------------------
(* The environment: an interface that comes back has a new index.          *)

Plug(d) ==
  /\ kernel[d] = 0 /\ nextidx <= MaxIndex
  /\ kernel' = [kernel EXCEPT ![d] = nextidx]
  /\ nextidx' = nextidx + 1
  /\ UNCHANGED <<now, devs, last, lock, nlif, pc, tv, readat>>

Unplug(d) ==
  /\ kernel[d] # 0 /\ d # Lo
  /\ kernel' = [kernel EXCEPT ![d] = 0]
  /\ UNCHANGED <<nextidx, now, devs, last, lock, nlif, pc, tv, readat>>

Tick ==
  /\ now < MaxNow
  /\ now' = now + 1
  /\ UNCHANGED <<kernel, nextidx, devs, last, lock, nlif, pc, tv, readat>>

-----------------------------------------------------------------------------
(* fwdev_read.                                                             *)

Go(t, from, to) == pc[t] = from /\ pc' = [pc EXCEPT ![t] = to]

\* fwcomm_thread_create, after main's own fwdev_read.
StartComm ==
  /\ last >= 0 /\ pc[Main] = "idle"
  /\ Go(Comm, "off", "idle")
  /\ UNCHANGED <<env, devs, last, lock, nlif, tv, readat>>

\* A packet, DEV LIST or DEV STATS; within the interval the call returns.
Call(t) ==
  /\ now - last >= Interval
  /\ Go(t, "idle", "stamp")
  /\ tv' = [tv EXCEPT ![t] = now]
  /\ UNCHANGED <<env, devs, last, lock, nlif, readat>>

Stamp(t) ==
  /\ Go(t, "stamp", "lock")
  /\ last' = tv[t]
  /\ tv' = [tv EXCEPT ![t] = 0]
  /\ UNCHANGED <<env, devs, lock, nlif, readat>>

Acquire(t) ==
  /\ lock = Free
  /\ Go(t, "lock", "read")
  /\ lock' = t
  /\ devs' = << >>
  /\ UNCHANGED <<env, last, nlif, tv, readat>>

\* Mutant: a thread that finds the lock taken leaves the work to the other.
TryLock(t) ==
  \/ Acquire(t)
  \/ lock # Free /\ Go(t, "lock", "idle") /\ UNCHANGED <<env, devs, last, lock, nlif, tv, readat>>

\* The array is emptied under the lock.
Lock(t) == Acquire(t)

\* Mutant: every name is taken.
AllNames == Present(kernel)

Names == Present(kernel) \ Odd

\* The kernel lists its interfaces in the order of their indexes.
Listed(names) == \A i, j \in DOMAIN names : i < j => kernel[names[i]] < kernel[names[j]]

ReadProc(t) ==
  /\ Go(t, "read", "query")
  /\ \E names \in [1..Cardinality(Names) -> Names], junk \in JunkIdx :
       /\ Listed(names)
       /\ devs' = [i \in DOMAIN names |-> [name |-> names[i], idx |-> junk]]
  /\ readat' = now
  /\ UNCHANGED <<env, last, lock, nlif, tv>>

Query(t) ==
  /\ Go(t, "query", "scan")
  /\ nlif' = kernel
  /\ UNCHANGED <<env, devs, last, lock, tv, readat>>

Below(k, d) == {e \in Present(k) : k[e] <= k[d]}

\* The loop ends with the name after the num-th; index 0 has the name "*".  If
\* the link table has fewer names than the array, it goes on for ever.
Spins == Cardinality(Present(nlif)) < Len(devs)
Reached(d) == d \in Present(nlif) /\ Cardinality(Below(nlif, d)) <= Len(devs)

\* Mutant: the loop is a name short.
ScannedShort == [i \in DOMAIN devs |->
  IF Reached(devs[i].name) /\ Cardinality(Below(nlif, devs[i].name)) < Len(devs)
  THEN [devs[i] EXCEPT !.idx = nlif[devs[i].name] - 1] ELSE devs[i]]

Scanned == [i \in DOMAIN devs |->
  IF Reached(devs[i].name) THEN [devs[i] EXCEPT !.idx = nlif[devs[i].name] - 1] ELSE devs[i]]

Join(t) ==
  /\ ~Spins
  /\ devs' = Scanned
  /\ Go(t, "scan", "idle")
  /\ UNCHANGED <<env, last, nlif, tv, readat>>

\* Mutant: the lock is kept.
ScanOnly(t) == Join(t) /\ UNCHANGED lock

Scan(t) == Join(t) /\ lock' = Free

Read(t) == Stamp(t) \/ Lock(t) \/ ReadProc(t) \/ Query(t) \/ Scan(t)

Next ==
  \/ Tick \/ \E d \in Iface : Plug(d) \/ Unplug(d)
  \/ StartComm
  \/ \E t \in Thread : Call(t) \/ Read(t)

\* A thread in fwdev_read is scheduled again and again, and gets FWDevsLock if
\* it is free again and again.
Fairness == \A t \in Thread : WF_vars(Read(t)) /\ SF_vars(Lock(t))
Spec == Init /\ [][Next]_vars
FairSpec == Spec /\ Fairness

-----------------------------------------------------------------------------
(* The lookups of the packet thread.  A packet carries the kernel's index   *)
(* of its interface less one.                                              *)

Known(d) == \E i \in DOMAIN devs : devs[i].name = d

\* Mutant: the position, as in fwdev_string_by_idx.
NameByPosition(k) == devs[IF k < Len(devs) THEN k + 1 ELSE Len(devs)].name

\* fwdev_string_by_nf_idx: the first entry with the index, or else the last.
NameByIndex(k) ==
  LET hits == {i \in DOMAIN devs : devs[i].idx = k}
      at   == IF hits = {} THEN Len(devs) ELSE CHOOSE i \in hits : \A j \in hits : i <= j
  IN  devs[at].name

\* fwdev_find_ifaceidx: the position in the array.
FindIface(d) ==
  IF Known(d) THEN (CHOOSE i \in DOMAIN devs : devs[i].name = d) - 1 ELSE -1

\* The first test of fwrules_entry_get_action, for a rule that names d.
PassesIface(d, k) == FindIface(d) # 0 /\ FindIface(d) = k

-----------------------------------------------------------------------------
(* Properties.                                                             *)

TypeOK ==
  /\ kernel \in [Iface -> 0..MaxIndex] /\ nlif \in [Iface -> 0..MaxIndex]
  /\ nextidx \in 1..(MaxIndex + 1)
  /\ now \in 0..MaxNow /\ readat \in 0..MaxNow /\ last \in -Interval..MaxNow
  /\ devs \in Seq(DevEntry)
  /\ lock \in {Free, Main, Comm}
  /\ \A t \in Thread : tv[t] \in 0..MaxNow /\ pc[t] \in
       {"off", "idle", "stamp", "lock", "read", "query", "scan"}

Working == {t \in Thread : pc[t] \in {"stamp", "lock", "read", "query", "scan"}}

\* When no thread is about to rebuild the array, it was read no earlier than
\* last_check says: the interval may be skipped twice, but it never hides a
\* table that is older (fwdev_read's unlocked test and stamp).
StampedIsRead == Working = {} /\ pc[Comm] # "off" => readat >= last

\* Between rebuilds the entry of an interface that is still what it was then
\* has the index its packets carry, if the loop reached it: if no more
\* interfaces than the array has entries have an index up to its own.
IndexIsKernels ==
  lock = Free =>
    \A i \in DOMAIN devs :
      LET d == devs[i].name
      IN  kernel[d] = nlif[d] /\ Reached(d) => devs[i].idx = kernel[d] - 1

\* Between rebuilds a packet that is queued gets the name of its interface, if
\* that is in the array and still what it was, and the loop reached all entries.
LabelIsInterface ==
  lock = Free /\ (\A i \in DOMAIN devs : Reached(devs[i].name)) =>
    \A d \in Present(kernel) :
      Known(d) /\ kernel[d] = nlif[d] => NameByIndex(kernel[d] - 1) = d

\* A rebuild ends and lets the lock go, unless an interface went away between
\* its two readings: then the loop spins, with the lock, for ever.
RebuildEnds ==
  \A t \in Thread :
    pc[t] \in {"lock", "read", "query", "scan"} ~>
      (pc[t] = "idle" \/ (lock # Free /\ pc[lock] = "scan" /\ Spins))

-----------------------------------------------------------------------------
(* What the documentation says, and the code does not do.                  *)

\* fwdev.c:175, "netfilter interface idx differs, need to scan nlif": a rule
\* that names one interface is not tried on the packets of another, between
\* rebuilds and while no interface has changed since.
RuleKeepsToItsInterface ==
  lock = Free /\ kernel = nlif =>
    \A d, e \in Present(kernel) : PassesIface(d, kernel[e] - 1) => d = e
=============================================================================
