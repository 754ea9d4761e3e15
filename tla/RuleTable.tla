------------------------------ MODULE RuleTable ------------------------------
(***************************************************************************)
(* The rule table of fwrules.c, shared by two threads of the daemon:       *)
(*                                                                         *)
(*   Main - the packet thread (fwnfq_loop), which sweeps idle session      *)
(*          rules and looks a rule up for every new connection;            *)
(*   Comm - the command thread (_fwcomm_thread), which lists, adds and     *)
(*          removes rules and saves the permanent ones.                    *)
(*                                                                         *)
(* fw_rules is a glib GArray of pointers: slots 1..len hold the rules, and *)
(* a slot above len keeps the pointer it last held.  FWRulesLock guards    *)
(* the sweep, the scan, the insertion and the print, but neither           *)
(* fwrules_cb_rules_remove nor the length read at the head of the lookup.  *)
(* g_array_remove_index is therefore modelled access by access: the load   *)
(* of len that is tested and gives the memmove its size, every word the    *)
(* memmove loads and stores, the load of len that is decremented and the   *)
(* store of len.  A memmove may load and store its words in any order that *)
(* reads a word before it overwrites it.                                   *)
(*                                                                         *)
(* Abstractions.  A rule is an object with a fixed type and a fixed set of *)
(* flows its criteria match (Covers).                                      *)
(* lastactivity is kept as an age that saturates at Timeout, the time of   *)
(* the last sweep likewise at MinRefresh, and the clock does not tick      *)
(* during a sweep.  Names, statistics and replies are left out.            *)
(***************************************************************************)
EXTENDS Integers, Sequences

CONSTANTS
  SessRule,    \* rule objects of type ENTRY_SESSION
  PermRule,    \* rule objects of type ENTRY_PERMANENT
  Nil,         \* the content of a slot never written
  Flow,        \* what a packet offers to the rules
  Covers,      \* Covers[r]: the flows rule r matches
  Timeout,     \* FWSESSRULE_TIMEOUT
  MinRefresh,  \* FWSESSRULE_MINREFRESH
  MaxRules,    \* bound: slots of the array
  Number,      \* bound: rule numbers a RULES REMOVE asks for
  Junk         \* what the uninitialised currnr may hold

Rule == SessRule \cup PermRule

ASSUME RuleAssumption ==
  /\ SessRule \cap PermRule = {}
  /\ Nil \notin Rule /\ "default" \notin Rule
  /\ Covers \in [Rule -> SUBSET Flow]

ASSUME BoundAssumption ==
  /\ Timeout \in Nat \ {0}
  /\ MinRefresh \in Nat
  /\ MaxRules \in Nat
  /\ Number \subseteq Int
  /\ Junk \subseteq Int

VARIABLES
  slot,        \* the array's memory
  len,         \* fw_rules->len
  age,         \* seconds since a session rule's lastactivity
  sinceSweep,  \* seconds since last_check
  lock,        \* FWRulesLock: its holder, or "free"
  pc,          \* where each thread is
  idx,         \* each thread's loop index i (1-based)
  snap,        \* the len a removal in progress has loaded last
  todo,        \* the slots whose new content a memmove has yet to load
  buf,         \* the words a memmove has loaded and not stored, by slot
  flow,        \* Main: the packet being decided
  bound,       \* Main: the local variable len of the lookup
  verdict,     \* Main: the rule that matched, or "default"
  want,        \* Comm: type, rulenum, currnr and sessnr/permnr of RULES REMOVE
  disk,        \* the rules in /etc/desktopfw/rules
  up,          \* FALSE once len has wrapped below zero
  seen,        \* history: rules in the table at some time since bound was read
  stable,      \* history: no change of the table since then
  torn         \* history: two memmoves have been at work at the same time

table   == <<slot, len, age, sinceSweep, lock, disk, up>>
moving  == <<todo, buf>>
locals  == <<pc, idx, snap, moving, flow, bound, verdict, want>>
history == <<seen, stable, torn>>
vars    == <<table, locals, history>>

Main    == "main"
Comm    == "comm"
Thread  == {Main, Comm}
Slots   == 1..MaxRules
OfType(type) == IF type = "PERM" THEN PermRule ELSE SessRule

Sweeping == {"stamp", "sweepLock", "sweep"}
Removing == {"shift", "move", "store"}
Looking  == {"scanLock", "scan", "verdict"}

\* The locals of RULES REMOVE while it does not run.  A thread's locals are
\* reset when the function they belong to returns: nothing reads them again.
NoWant == [type |-> "PERM", num |-> 0, cur |-> 0, count |-> 0]

LiveIn(s, n) == {s[i] : i \in 1..n}
Live    == LiveIn(slot, len)

\* What a pass over the first n slots prints: the permanent rules, in order.
Perms(s, n) ==
  LET Printed[i \in 0..n] ==
        IF i = 0 THEN << >>
        ELSE IF s[i] \in PermRule THEN Append(Printed[i - 1], s[i])
        ELSE Printed[i - 1]
  IN  Printed[n]

Init ==
  /\ slot = [i \in Slots |-> Nil]
  /\ len = 0
  /\ age = [r \in SessRule |-> 0]
  /\ sinceSweep = MinRefresh
  /\ lock = "free"
  /\ pc = [t \in Thread |-> "idle"]
  /\ idx = [t \in Thread |-> 1]
  /\ snap = [t \in Thread |-> 0]
  /\ todo = [t \in Thread |-> {}]
  /\ buf = [t \in Thread |-> [i \in Slots |-> Nil]]
  /\ flow \in Flow
  /\ bound = 0
  /\ verdict = "default"
  /\ want = NoWant
  /\ disk = << >>
  /\ up = TRUE
  /\ seen = {} /\ stable = FALSE /\ torn = FALSE

\* Moves thread t to p.
Goto(t, p) == pc' = [pc EXCEPT ![t] = p]

\* Updates the history after a write to the array, while Main looks a rule up.
Observe ==
  IF pc[Main] \in Looking
  THEN seen' = seen \cup LiveIn(slot', len') /\ stable' = FALSE /\ torn' = torn
  ELSE UNCHANGED history

-----------------------------------------------------------------------------
(* fwrules_remove_timeouted, by either thread, and g_array_remove_index.   *)

\* A second passes.
Tick ==
  /\ \A t \in Thread : pc[t] \notin Sweeping \cup Removing
  /\ age' = [r \in SessRule |-> IF age[r] < Timeout THEN age[r] + 1 ELSE Timeout]
  /\ sinceSweep' = IF sinceSweep < MinRefresh THEN sinceSweep + 1 ELSE MinRefresh
  /\ UNCHANGED <<slot, len, lock, disk, up, locals, history>>

\* What a thread does when its sweep returns.
AfterSweep(t) == IF t = Main THEN "lookup" ELSE "idle"

\* The last sweep is too recent: no sweep.
SweepSkip(t) ==
  /\ pc[t] = "expire"
  /\ sinceSweep < MinRefresh
  /\ Goto(t, AfterSweep(t))
  /\ UNCHANGED <<table, idx, snap, moving, flow, bound, verdict, want, history>>

SweepBegin(t) ==
  /\ pc[t] = "expire"
  /\ sinceSweep >= MinRefresh
  /\ Goto(t, "stamp")
  /\ UNCHANGED <<table, idx, snap, moving, flow, bound, verdict, want, history>>

\* Neither the test nor the stamp is under the lock: both threads may sweep.
SweepStamp(t) ==
  /\ pc[t] = "stamp"
  /\ sinceSweep' = 0
  /\ Goto(t, "sweepLock")
  /\ UNCHANGED <<slot, len, age, lock, disk, up, idx, snap, moving, flow, bound,
                 verdict, want, history>>

SweepLock(t) ==
  /\ pc[t] = "sweepLock"
  /\ lock = "free"
  /\ lock' = t
  /\ Goto(t, "sweep")
  /\ UNCHANGED <<slot, len, age, sinceSweep, disk, up, idx, snap, moving, flow, bound,
                 verdict, want, history>>

\* A session rule whose time has come.
Expired(r) == r \in SessRule /\ age[r] >= Timeout

SweepKeep(t) ==
  /\ pc[t] = "sweep"
  /\ idx[t] <= len
  /\ ~Expired(slot[idx[t]])
  /\ idx' = [idx EXCEPT ![t] = @ + 1]
  /\ UNCHANGED <<table, pc, snap, moving, flow, bound, verdict, want, history>>

SweepDrop(t) ==
  /\ pc[t] = "sweep"
  /\ idx[t] <= len
  /\ Expired(slot[idx[t]])
  /\ Goto(t, "shift")
  /\ UNCHANGED <<table, idx, snap, moving, flow, bound, verdict, want, history>>

SweepEnd(t) ==
  /\ pc[t] = "sweep"
  /\ idx[t] > len
  /\ lock' = "free"
  /\ idx' = [idx EXCEPT ![t] = 1]
  /\ Goto(t, AfterSweep(t))
  /\ UNCHANGED <<slot, len, age, sinceSweep, disk, up, snap, moving, flow, bound,
                 verdict, want, history>>

\* Mutant: RULES REMOVE PERM does not save.
ReturnUnsaved(t) ==
  /\ Goto(t, IF lock = t THEN "sweep" ELSE "idle")
  /\ idx' = [idx EXCEPT ![t] = IF lock = t THEN @ + 1 ELSE 1]
  /\ want' = IF lock = t THEN want ELSE NoWant
  /\ snap' = [snap EXCEPT ![t] = 0]

\* Mutant: the sweep, to look at the rule that moved up, goes back too far.
ReturnTooFarBack(t) ==
  /\ Goto(t, IF lock = t THEN "sweep"
             ELSE IF want.type = "PERM" THEN "save" ELSE "idle")
  /\ idx' = [idx EXCEPT ![t] = IF lock = t THEN @ - 1 ELSE 1]
  /\ want' = IF lock = t THEN want ELSE NoWant
  /\ snap' = [snap EXCEPT ![t] = 0]

\* g_array_remove_index returns to the sweep's loop, whose i++ then passes
\* over the rule that moved into the freed slot, or to RULES REMOVE.
ReturnFromRemove(t) ==
  /\ Goto(t, IF lock = t THEN "sweep"
             ELSE IF want.type = "PERM" THEN "save" ELSE "idle")
  /\ idx' = [idx EXCEPT ![t] = IF lock = t THEN @ + 1 ELSE 1]
  /\ want' = IF lock = t THEN want ELSE NoWant
  /\ snap' = [snap EXCEPT ![t] = 0]

\* A memmove of thread t has words left to load or to store.
Copying(t) == todo[t] # {} \/ \E i \in Slots : buf[t][i] # Nil

\* The index is tested against len; the slots from the index on, but for the
\* last, are to get the word behind them.
Shift(t) ==
  /\ pc[t] = "shift"
  /\ idx[t] <= len
  /\ snap' = [snap EXCEPT ![t] = len]
  /\ todo' = [todo EXCEPT ![t] = idx[t]..(len - 1)]
  /\ torn' = (torn \/ (idx[t] < len /\ \E u \in Thread \ {t} : Copying(u)))
  /\ Goto(t, "move")
  /\ UNCHANGED <<table, idx, buf, flow, bound, verdict, want, seen, stable>>

LoadWord(t, i) ==
  /\ i \in todo[t]
  /\ buf' = [buf EXCEPT ![t][i] = slot[i + 1]]
  /\ todo' = [todo EXCEPT ![t] = @ \ {i}]
  /\ UNCHANGED <<table, pc, idx, snap, flow, bound, verdict, want, history>>

\* Slot i is overwritten only after the memmove has read it.
StoreWord(t, i) ==
  /\ buf[t][i] # Nil
  /\ i - 1 \notin todo[t]
  /\ slot' = [slot EXCEPT ![i] = buf[t][i]]
  /\ buf' = [buf EXCEPT ![t][i] = Nil]
  /\ UNCHANGED <<len, age, sinceSweep, lock, disk, up, pc, idx, snap, todo,
                 flow, bound, verdict, want>>
  /\ Observe

\* The index is past the end by now: glib complains and removes nothing.
ShiftRefused(t) ==
  /\ pc[t] = "shift"
  /\ idx[t] > len
  /\ ReturnFromRemove(t)
  /\ UNCHANGED <<table, moving, flow, bound, verdict, history>>

LoadLen(t) ==
  /\ pc[t] = "move" /\ ~Copying(t)
  /\ snap' = [snap EXCEPT ![t] = len]
  /\ Goto(t, "store")
  /\ UNCHANGED <<table, idx, moving, flow, bound, verdict, want, history>>

StoreLen(t) ==
  /\ pc[t] = "store"
  /\ snap[t] > 0
  /\ len' = snap[t] - 1
  /\ ReturnFromRemove(t)
  /\ UNCHANGED <<slot, age, sinceSweep, lock, disk, up, moving, flow, bound, verdict>>
  /\ Observe

\* The unsigned len goes below zero; what the daemon does next is undefined.
StoreLenWraps(t) ==
  /\ pc[t] = "store"
  /\ snap[t] = 0
  /\ up' = FALSE
  /\ UNCHANGED <<slot, len, age, sinceSweep, lock, disk, locals, history>>

Sweep(t) ==
  \/ SweepSkip(t) \/ SweepBegin(t) \/ SweepStamp(t) \/ SweepLock(t)
  \/ SweepKeep(t) \/ SweepDrop(t) \/ SweepEnd(t)

RemoveIndex(t) ==
  \/ Shift(t) \/ ShiftRefused(t)
  \/ \E i \in Slots : LoadWord(t, i) \/ StoreWord(t, i)
  \/ LoadLen(t) \/ StoreLen(t) \/ StoreLenWraps(t)

-----------------------------------------------------------------------------
(* The packet thread.                                                      *)

\* A packet that opens a connection arrives: the lookup starts with a sweep.
Receive(f) ==
  /\ pc[Main] = "idle"
  /\ flow' = f
  /\ Goto(Main, "expire")
  /\ UNCHANGED <<table, idx, snap, moving, bound, verdict, want, history>>

\* Mutant: the scan's length is one too large.
LookupLenPlusOne ==
  /\ pc[Main] = "lookup"
  /\ bound' = IF len < MaxRules THEN len + 1 ELSE len
  /\ seen' = Live /\ stable' = TRUE /\ torn' = torn
  /\ Goto(Main, "scanLock")
  /\ UNCHANGED <<table, idx, snap, moving, flow, verdict, want>>

\* The initialiser of fwrules_entry_get_action's len runs before G_LOCK.
LookupLen ==
  /\ pc[Main] = "lookup"
  /\ bound' = len
  /\ seen' = Live /\ stable' = TRUE /\ torn' = torn
  /\ Goto(Main, "scanLock")
  /\ UNCHANGED <<table, idx, snap, moving, flow, verdict, want>>

LookupLock ==
  /\ pc[Main] = "scanLock"
  /\ lock = "free"
  /\ lock' = Main
  /\ Goto(Main, "scan")
  /\ UNCHANGED <<slot, len, age, sinceSweep, disk, up, idx, snap, moving, flow, bound,
                 verdict, want, history>>

\* All the tests of one iteration of the scan; Nil matches nothing.
Hits(r) == r \in Rule /\ flow \in Covers[r]

LookupNext ==
  /\ pc[Main] = "scan"
  /\ idx[Main] <= bound
  /\ ~Hits(slot[idx[Main]])
  /\ idx' = [idx EXCEPT ![Main] = @ + 1]
  /\ UNCHANGED <<table, pc, snap, moving, flow, bound, verdict, want, history>>

\* G_UNLOCK and return.
EndScan ==
  /\ lock' = "free"
  /\ idx' = [idx EXCEPT ![Main] = 1]
  /\ bound' = 0
  /\ Goto(Main, "verdict")

\* Mutant: a match returns without G_UNLOCK.
HitKeepsLock ==
  /\ pc[Main] = "scan"
  /\ idx[Main] <= bound
  /\ Hits(slot[idx[Main]])
  /\ verdict' = slot[idx[Main]]
  /\ idx' = [idx EXCEPT ![Main] = 1]
  /\ Goto(Main, "verdict")
  /\ UNCHANGED <<table, snap, moving, flow, bound, want, history>>

LookupHit ==
  /\ pc[Main] = "scan"
  /\ idx[Main] <= bound
  /\ LET r == slot[idx[Main]]
     IN  /\ Hits(r)
         /\ verdict' = r
         /\ age' = [s \in SessRule |-> IF s = r THEN 0 ELSE age[s]]
  /\ EndScan
  /\ UNCHANGED <<slot, len, sinceSweep, disk, up, snap, moving, flow, want, history>>

\* Mutant: the scan stops before the last rule.
DefaultTooEarly ==
  /\ pc[Main] = "scan"
  /\ idx[Main] >= bound
  /\ verdict' = "default"
  /\ EndScan
  /\ UNCHANGED <<slot, len, age, sinceSweep, disk, up, snap, moving, flow, want, history>>

LookupDefault ==
  /\ pc[Main] = "scan"
  /\ idx[Main] > bound
  /\ verdict' = "default"
  /\ EndScan
  /\ UNCHANGED <<slot, len, age, sinceSweep, disk, up, snap, moving, flow, want, history>>

\* The callback gives the kernel its verdict and waits for the next packet.
Verdict ==
  /\ pc[Main] = "verdict"
  /\ Goto(Main, "idle")
  /\ verdict' = "default"
  /\ seen' = {} /\ stable' = FALSE /\ torn' = torn
  /\ UNCHANGED <<table, idx, snap, moving, flow, bound, want>>

Lookup == LookupLen \/ LookupLock \/ LookupNext \/ LookupHit \/ LookupDefault \/ Verdict

-----------------------------------------------------------------------------
(* The command thread.                                                     *)

\* RULES LIST sweeps first; the listing itself only reads.
ListRules ==
  /\ pc[Comm] = "idle"
  /\ Goto(Comm, "expire")
  /\ UNCHANGED <<table, idx, snap, moving, flow, bound, verdict, want, history>>

\* Mutant: session rules are appended like permanent ones.
InsertAtEnd(r) ==
  /\ lock = "free"
  /\ len < MaxRules
  /\ slot' = [slot EXCEPT ![len + 1] = r]
  /\ len' = len + 1
  /\ age' = [s \in SessRule |-> IF s = r THEN 0 ELSE age[s]]

\* fwrules_entry_add, called with position 0 for a session rule and -1, the
\* end, for a permanent one; a new session rule was active now.
Insert(r) ==
  /\ lock = "free"
  /\ len < MaxRules
  /\ slot' = IF r \in PermRule
             THEN [slot EXCEPT ![len + 1] = r]
             ELSE [i \in Slots |-> IF i = 1 THEN r
                                   ELSE IF i <= len + 1 THEN slot[i - 1]
                                   ELSE slot[i]]
  /\ len' = len + 1
  /\ age' = [s \in SessRule |-> IF s = r THEN 0 ELSE age[s]]

\* RULES ADD, which always saves, and QUERY ADD, which saves a permanent rule.
AddRule(r, command) ==
  /\ pc[Comm] = "idle"
  /\ r \notin Live
  /\ Insert(r)
  /\ Goto(Comm, IF command = "RULES" \/ r \in PermRule THEN "save" ELSE "idle")
  /\ UNCHANGED <<sinceSweep, lock, disk, up, idx, snap, moving, flow, bound, verdict, want>>
  /\ Observe

\* RULES REMOVE takes no lock; currnr starts with whatever the stack holds.
RemoveRule(type, num, junk) ==
  /\ pc[Comm] = "idle"
  /\ want' = [type |-> type, num |-> num, cur |-> junk, count |-> 0]
  /\ Goto(Comm, "find")
  /\ UNCHANGED <<table, idx, snap, moving, flow, bound, verdict, history>>

\* currnr after the rule at i was counted: the rule's number among those of
\* the type, or the number of the last one of that type.
Mine   == slot[idx[Comm]] \in OfType(want.type)
CurrNr == IF Mine THEN want.count ELSE want.cur
\* Mutant: the rules of the other type are counted too.
CountedAll == want.count + 1
Counted == IF Mine THEN want.count + 1 ELSE want.count

RemovePass ==
  /\ pc[Comm] = "find"
  /\ idx[Comm] <= len
  /\ CurrNr # want.num
  /\ want' = [want EXCEPT !.cur = CurrNr, !.count = Counted]
  /\ idx' = [idx EXCEPT ![Comm] = @ + 1]
  /\ UNCHANGED <<table, pc, snap, moving, flow, bound, verdict, history>>

RemoveFound ==
  /\ pc[Comm] = "find"
  /\ idx[Comm] <= len
  /\ CurrNr = want.num
  /\ Goto(Comm, "shift")
  /\ UNCHANGED <<table, idx, snap, moving, flow, bound, verdict, want, history>>

RemoveNotFound ==
  /\ pc[Comm] = "find"
  /\ idx[Comm] > len
  /\ idx' = [idx EXCEPT ![Comm] = 1]
  /\ want' = NoWant
  /\ Goto(Comm, "idle")
  /\ UNCHANGED <<table, snap, moving, flow, bound, verdict, history>>

\* fwrules_write: the permanent rules, printed under the lock.
Save ==
  /\ pc[Comm] = "save"
  /\ lock = "free"
  /\ disk' = Perms(slot, len)
  /\ Goto(Comm, "idle")
  /\ UNCHANGED <<slot, len, age, sinceSweep, lock, up, idx, snap, moving, flow, bound,
                 verdict, want, history>>

Command ==
  \/ ListRules
  \/ \E r \in Rule, command \in {"RULES", "QUERY"} : AddRule(r, command)
  \/ \E type \in {"PERM", "SESS"}, num \in Number, junk \in Junk :
       RemoveRule(type, num, junk)

Remove == RemovePass \/ RemoveFound \/ RemoveNotFound

Next ==
  /\ up
  /\ \/ Tick
     \/ \E t \in Thread : Sweep(t) \/ RemoveIndex(t)
     \/ \E f \in Flow : Receive(f)
     \/ Lookup
     \/ Command
     \/ Remove
     \/ Save

Spec == Init /\ [][Next]_vars

\* The schedules in which no packet is being handled while a RULES REMOVE
\* runs: what the missing G_LOCK would have to guarantee.
RemoveInProgress ==
  pc[Comm] \in {"find"} \cup Removing /\ lock # Comm
Alone == RemoveInProgress => pc[Main] = "idle"
AloneSpec == Init /\ [][Next /\ Alone']_vars

\* The operating system schedules both threads, and a thread waiting for
\* FWRulesLock gets it if it is free again and again.  Neither a packet nor a
\* command has to arrive.
Runs(t) ==
  \/ Sweep(t) \/ RemoveIndex(t)
  \/ t = Main /\ Lookup
  \/ t = Comm /\ (Remove \/ Save)
Locks(t) ==
  SweepLock(t) \/ (t = Main /\ LookupLock) \/ (t = Comm /\ Save)
Fairness == \A t \in Thread : WF_vars(up /\ Runs(t)) /\ SF_vars(up /\ Locks(t))
FairSpec == Spec /\ Fairness

-----------------------------------------------------------------------------
(* Properties.                                                             *)

\* The type of every variable but disk, which holds what Perms returns.
TypeOK ==
  /\ slot \in [Slots -> Rule \cup {Nil}]
  /\ len \in 0..MaxRules
  /\ age \in [SessRule -> 0..Timeout]
  /\ sinceSweep \in 0..MinRefresh
  /\ lock \in Thread \cup {"free"}
  /\ pc \in [Thread -> {"idle", "expire", "lookup", "find", "save"}
                        \cup Sweeping \cup Removing \cup Looking]
  /\ idx \in [Thread -> Nat \ {0}]
  /\ snap \in [Thread -> 0..MaxRules]
  /\ todo \in [Thread -> SUBSET (1..(MaxRules - 1))]
  /\ buf \in [Thread -> [Slots -> Rule \cup {Nil}]]
  /\ flow \in Flow
  /\ bound \in 0..MaxRules
  /\ verdict \in Rule \cup {"default"}
  /\ want \in [type : {"PERM", "SESS"}, num : Int, cur : Int, count : Nat]
  /\ up \in BOOLEAN
  /\ torn \in BOOLEAN

\* README: session rules are checked first.  As long as two memmoves have not
\* been at work at the same time, no permanent rule stands before a session
\* rule, not even in the middle of a memmove or when a removal stores a length
\* it loaded before another one stored its own (fwrules_entry_add's positions
\* 0 and -1, and removals that only compact).
SessionFirst ==
  ~torn => \A i, j \in 1..len :
             i < j /\ slot[i] \in PermRule => slot[j] \in PermRule

\* The rule a packet was decided by was in the table at some moment of that
\* packet's lookup, although the scan's length is read before the lock is taken
\* and RULES REMOVE shifts the array under the scan.
MatchedWasLive ==
  pc[Main] = "verdict" /\ verdict # "default" => verdict \in seen

\* The scan never dereferences a slot that was never filled, even when len has
\* shrunk below the length it started with.
ScanReadsRules ==
  pc[Main] = "scan" /\ idx[Main] <= bound => slot[idx[Main]] \in Rule

\* If the table did not change since the lookup read its length, the packet
\* gets the first rule that covers it, and the default only if none does.
FirstMatchWhenStable ==
  pc[Main] = "verdict" /\ stable =>
    IF verdict = "default"
    THEN \A i \in 1..len : ~Hits(slot[i])
    ELSE \E i \in 1..len : /\ verdict = slot[i]
                           /\ Hits(slot[i])
                           /\ \A j \in 1..(i - 1) : ~Hits(slot[j])

\* Any lookup is answered, unless the daemon dies of the wrapped len: no thread
\* keeps FWRulesLock, and the sweeps and scans end.
LookupAnswered == (pc[Main] # "idle") ~> (pc[Main] = "idle" \/ ~up)

-----------------------------------------------------------------------------
(* What the documentation says of the table, and the code does not do.      *)

\* protocol_commands.txt:148-150, RULES REMOVE SESS removes "a rule from session
\* rules": a step of it leaves the permanent rules in the table.  A sweep of the
\* packet thread between the search and the removal shifts a permanent rule
\* under the index.
RemoveSessKeepsPerm ==
  [][RemoveInProgress /\ want.type = "SESS" /\ pc'[Comm] # pc[Comm]
       => Live \cap PermRule \subseteq LiveIn(slot', len')]_vars
=============================================================================
