# A verification of desktopfw's daemon

fwdaemon is a personal firewall.  The kernel hands it the first packet of each
new connection through NFQUEUE; the daemon accepts or drops it by a table of
rules, or holds it until the user has answered.  A graphical client talks to
the daemon over a TCP socket with a line protocol (`protocol_commands.txt`).

Two threads run the daemon and share its state:

* **Main**, the packet thread (`fwnfq_loop`, fwnfq.c), handles one packet at a
  time: it refreshes the devices, finds the packet's executable, sweeps idle
  session rules, looks for a rule, and adds a query when none decides;
* **Comm**, the command thread (`_fwcomm_thread`, fwcomm.c), serves one client
  at a time and runs one command after the other.

They share the rules, the queries and the devices.  Locks guard some of the
accesses only, and most of what is hard here comes from the rest.

## 1. Inventory

| component | state | operations | used by |
|---|---|---|---|
| Rule table (fwrules.c) | `fw_rules`, a GArray of entries; `FWRulesLock`; `lastactivity` of each entry | `fwrules_entry_get_action`, `fwrules_remove_timeouted`, `fwrules_entry_add`, RULES LIST, ADD, REMOVE | Main for each packet, Comm for RULES and QUERY ADD |
| Rule file (fwrules.c) | `/etc/desktopfw/rules` and `rules.old` | `fwrules_read`, `fwrules_write` | start, RULES ADD, REMOVE, QUERY ADD |
| Queries (fwquery.c) | `Queries`, `qnum`, the packets the kernel holds | `fwquery_add`, QUERY LIST, QUERY ADD | Main adds, Comm lists, answers and expires |
| Registered applications (fwapps.c) | `HTApps`, `appstatus`, the file `apps` and `apps.old` | `fwapps_read`, `fwapps_write`, APPS CHECK, STATUS, ADDCOMMITED, COMMIT, REMOVE | Comm |
| Devices (fwdev.c) | `FWDevs`, `FWDevsLock`, `last_check` | `fwdev_read`, lookups by name and index, DEV LIST, STATS | Main before each packet, Comm |
| Packet intake (fwnfq.c) | the kernel's queue | `fwnfq_loop`, `fwnfq_process_pkt`, `fwnfq_process_rules`, `fwnfq_callback`, the two verdicts | Main; Comm gives verdicts from QUERY |
| Host and port matching (fwrules.c, fwcommon.c) | none | `fw_get_hostip_mask`, the tests in `fwrules_entry_get_action` | Main |
| Connections and processes (fwproc.c, fwutils.c) | three arrays read from /proc | `fwproc_rescan_all`, the sort by inode, the search by inode, the lookup of a packet's executable; the search by process number | Main; the search by process number is called by test_fwproc.c:34 only |
| Command session (fwcomm.c, fwcommon.c) | `csock`, `isauth`, `state`, `HTCmds` | accept, read, dispatch, AUTH, CLOSE, EXIT | Comm |
| Configuration (fwconfig.c) | six settings, `/etc/desktopfw/config` and `config.old` | `fwconfig_read`, `fwconfig_write`, CONFIG LIST, SET | Comm; the default action by Main |
| Lifecycle (fwdaemon.c) | - | the order of the reads at the start, EXIT, the end | main |
| Name tables, packet printers, debugging macros, test programs | - | - | - |

What makes each of them correct, and what is hard about it:

* **Rule table.**  Session rules come before permanent ones and the first match
  decides (README.md:103 of the repository); idle session rules go and
  nothing else goes by itself; a removal takes out the rule it was asked for; a
  packet's rule was in the table when the packet was decided.  *Hard:* the
  interval between sweeps is tested and stamped without the lock, so both
  threads may sweep; the bound of the scan is read before the lock; RULES REMOVE takes no lock at all,
  so each word of its memmove and its update of `len` interleave with a sweep's
  own memmove, an insertion and a scan; the sweep removes from the array it is
  walking.
* **Rule file.**  Permanent rules survive a restart, in their order, and the
  daemon's death at any moment leaves a usable copy.  *Hard:* rename, create
  and fill are three steps, with stdio's buffer behind the last; what is
  printed must scan.
* **Queries.**  A held packet can be seen and answered; it is answered once; no
  packet is let through that nobody allowed; a packet held too long is dropped.
  *Hard:* no lock at all: the search walks an array that a removal is moving, an
  append and a removal both write `len`, and a retransmitted packet takes over a
  query that the other thread is deciding.
* **Applications.**  A changed executable is reported, a recorded one is not;
  the table survives a restart.  *Hard:* executables change between three reads
  of them; COMMIT stores what an earlier command has seen; results are cached.
* **Devices.**  A packet is labelled with its interface, and a rule for an
  interface applies to it.  *Hard:* names and kernel indexes are read at two
  moments; the loop that joins them counts; the interval is tested unlocked.
* **Packet intake and matching.**  A packet that opens a connection gets the
  action of the first rule whose interface, nets, ports, protocol and
  executable cover it, or the default of its direction.  *Hard:* masks are made
  by shifts that overflow; fields are set for some protocols only.
* **Processes.**  The executable found is the owner of the connection.  *Hard:*
  processes start, exit and pass sockets on between the readings of /proc, and
  between two rows of one; the search narrows its bounds without passing the middle, and the comparison of
  inodes is a difference cut to 32 bits.
* **Session and lifecycle.**  Every command gets one answer; a client that goes
  away costs its session only; one client's authentication is not the next
  one's; EXIT ends the daemon.  *Hard:* a descriptor that is closed twice while
  the other thread opens files; five ways for a session to end; a line of one NUL
  byte, which is neither empty nor a command.
* **Configuration.**  What was confirmed is in use, and survives a restart.
  *Hard:* as for the rule file; a file without settings is no error; a value is
  taken with tabs and line breaks, at which the reader stops.

`PROJECT.json` lists the hazards at their lines with the properties that cover
them, and a note where a property covers a part.  Four have no property: the
packet thread's lookups in the device array during a rebuild (fwdev.c:351) are
undefined; that an idle rule outlives a sweep (fwrules.c:775), that a renewed
query expires (fwquery.c:135) and that the application of an incoming packet is
never found (fwnfq.c:239) do happen, as section 8 has it, and what the
properties say leaves room for it.

## 2. The modules

| module | models | state | actions |
|---|---|---|---|
| `RuleTable` | the array, both threads on it, the lock | `slot`, `len`, `age`, `sinceSweep`, `lock`, `disk`, a program counter and locals per thread | `Sweep...` (`fwrules_remove_timeouted`), `Lookup...` (`fwrules_entry_get_action`), `AddRule`, `ListRules`, `Remove...`, `Save`; `Shift`, `LoadWord`, `StoreWord`, `LoadLen`, `StoreLen` are the accesses of `g_array_remove_index`, word by word (`todo`, `buf`) |
| `RuleList` | what users are promised: a list | `list`, `saved` | `Add`, `RemoveNumber`, `Expire`, `Match`, `Save`, `Tick` |
| `RuleRefinement` | the array seen as that list | - | the mapping `Abstract` |
| `RuleMatch` | hosts, masks and ports, the tests of one rule and the scan | - (operators) | - |
| `RuleFile` | the rules' file, its backup, death and start | `file`, `old`, `table`, `pc` | `Start`, `AddPermanent`, `AddSession`, `RemovePermanent`, `Rename`, `Open`, `Flush`, `Close`, `Die`, `Restore` |
| `Config` | the settings, their file, death and start | `config`, `backup`, `settings`, `step`; the constants `Assigns` and `Below` say what printed lines assign when they are read | `Start`, `Set`, `Rename`, `Open`, `Close`, `Die`, `Restore` |
| `DaemonFiles` | one daemon with both files | those of `RuleFile` and `Config` | a start reads the settings, then the rules; one command at a time; a death stops both |
| `QueryTable` | queries, held packets, verdicts | `fate`, the array `slot` and `len`, `query`, `qnum`, `rules`, locals | `Receive`; `Search...`, `Renew`, `MergeDrop`, `AppendQuery`, `GrowLoad`, `GrowStore`, `SetPacketId` (`fwquery_add`); `List...`, `Add...` (the two commands); `Shift`, `LoadWord`, `StoreWord`, `ShrinkLoad`, `ShrinkStore` (`g_array_remove_index`) |
| `AppTable` | the applications, their file, death and start | `file` (the executables), `apps`, `status`, `since`, `disk`, `old` | `Check`, `Status`, `AddCommited`, `Commit`, `Remove`, the three reads of a `Visit` or a `Register`, `Boot`, `Write`, `Die`, `Change` |
| `DevTable` | the device array and its rebuild | `kernel`, `devs`, `last`, `lock`, `nlif` | `Call`, `Stamp`, `Lock`, `ReadProc`, `Query`, `Scan`; `Plug`, `Unplug` |
| `Connections` | the readings of /proc, the sort, the searches | `exe`, `holds` (the kernel's), `pidexe`, `tcpconn`, `udpconn` | the readings of a scan, the tables row by row, the sort behind the last row; `Move` (of the processes) between them |
| `PacketIntake` | one packet from the kernel's message to its verdict; composes `Connections` and `RuleMatch` | `pkt`, `app`, `rules`, `verdict` | receiving, naming, deciding |
| `CommSession` | the command thread, its clients, the descriptors both threads draw | `fdt`, `pc`, `csock`, `isauth`, `strv`, `peer`, `queue`, `line`, `fault` | `Listen`, `Accept`, `Greet`, `ReadLine`, `ReadFails`, `Stale...`, `Call`, `CompareNull`, `Answer...`, `EndComm`; Main's `Open...`, `CloseOwn`, `LoopEnds`, `MainReturns`; the clients' `Connect`, `Send`, `Leave` |

The theorems and proofs about a module are in a module of their own:
`RuleTableProofs`, `RuleRefinementProofs`, `QueryTableProofs`,
`DaemonFilesProofs` (for `RuleFile` and `Config` too), `AppTableProofs`,
`DevTableProofs`, `CommSessionProofs`, `PacketIntakeProofs` (for `Connections`
and `RuleMatch` too).

The `MC...` modules give the constants values for TLC; one .cfg per run.

How a step corresponds to code.  An action that runs under a lock, or on state
only one thread touches, is as long as that section; where the code reads or
writes shared state without a lock, each access is a step.  So in `RuleTable`
the length is read (`LookupLen`), the lock is taken (`LookupLock`) and one
entry is examined (`LookupNext`) in three different steps, while an insertion,
which runs under the lock, is one.  In `QueryTable`, where nothing is locked, a
turn of a loop, which tests `len` and loads one entry, is a step; a removal and
an append are taken access by access.  A memmove may load and store its words in
any order that reads a word before it is overwritten.  Where the other party is not a thread but
the kernel, a file or a client, each system call whose result it can change is
a step: the reads of an executable in `AppTable`, the rows of /proc/net and the
descriptors of /proc/PID/fd in `Connections`, the reads and writes of a socket in `CommSession`.  Definitions
marked *Mutant* are plausible mistakes; `PROJECT.json` names them, and each
property is violated when one of them takes the place of the code's definition.

How the modules meet.  `RuleTable` keeps a rule's criteria as the constant
`Covers`, so that races are explored for any criteria; `RuleMatch` computes
them, and `PacketIntake` uses it with the rules standing still.  `PacketIntake`
ends with a held packet and `QueryTable` begins with one.  QUERY ADD's rule is
`AddRule` of `RuleTable` and `AddToRules` of `QueryTable`.  `Config` supplies
the default actions that `PacketIntake` has as `Default`.  `CommSession` has
every command but AUTH, CLOSE and EXIT as "other"; what those do is in the
module of their component.

What is abstracted:

* Times are ages that stop just above the limit they are compared with.
* An address has two groups of bits instead of four of eight, and arithmetic
  wraps at its width; the shifts are the code's.  TLC takes groups of two bits,
  the proofs groups of any size, so of sixteen too.
* Replies, statistics, logging and memory that is not reused are left out.
  `fwrules_entry_free` is not reached while the daemon runs, and removed
  entries leak, so a stale pointer in `fw_rules` still points to a rule, as in
  the model.
* A pointer is one word, and is read and written whole.  That
  `g_array_append_val` may move the array to a larger block of memory is left out
  in `RuleTable` and `QueryTable`.
* A setting is read from what its printed line assigns (`Assigns`): nothing, the
  value as it was set, or what is in front of a tab or a line break, behind which
  other settings may be assigned.  The constant is any such table for the proofs,
  and one with an empty value, a tab and a line break for TLC.
* The kernel lists the rows of /proc/net/tcp in a fixed order of the sockets
  (`Bucket`) and knows by number how many rows a reader has had.  A process is
  its number: one that ends and whose number is given away within a scan looks
  like an execve.
* A torn lookup of the device array (by the packet thread, without the lock,
  during a rebuild) is undefined behaviour and not modelled.  `CommSession`
  stops where a thread uses the other's descriptor or a bad pointer.
* What a fresh query, `currnr` and a device's `nlifidx` hold before they are
  set is any member of the constants `JunkId`, `Junk` and `JunkIdx`.
* A setting of more than 16 characters, which the setter of the host takes,
  overruns `value[17]` of `fwconfig_read` at the next start: undefined, and not
  modelled.

## 3. The runs

| run | what it shows | bounds | states |
|---|---|---|---|
| `rules_races` | under every interleaving the table stays ordered unless two memmoves overlapped, a packet's rule was in the table during its lookup, the scan reads only rules, an undisturbed lookup finds the first match, and every lookup ends | two session rules and a permanent one, three slots | 393,214 |
| `rules_list` | while no packet is handled during a RULES REMOVE, the array implements the list and the file follows it | two rules of each type, three slots | 93,680 |
| `rules_remove_sess` | *violated:* RULES REMOVE SESS may take a permanent rule | as `rules_races` | |
| `query_races` | under every interleaving without a lock: types, a connection waits in one query unless a memmove was at work during a search, and nothing unwanted passes | three packets of two connections; a new query's memory holds no packet's number | 2,718,238 |
| `query_polled` | one handler at a time: each held packet has its query, drops are justified, and a polling client gets each packet decided | three packets of two connections; a new query's memory holds 0 or 1 | 141,512 |
| `files` | deaths at any steps of `fwrules_write` and `fwconfig_write`, any number of times: a copy of the rules and of the settings survives unless a cut or emptied file was started from; plain rules come back in order | three rules, a buffer of two lines; two settings, a value that is a tab and one with a line break among them | 3,896,112 |
| `apps` | differences are reported, recorded executables are not, the file follows the table, and one copy survives a death | two executables, two versions or none, two changes, one death | 3,330,975 |
| `dev` | the array is never older than its stamp, indexes and labels are right between rebuilds, and rebuilds end | four names, one of which does not scan, five indexes, three seconds | 359,277 |
| `dev_rule` | *violated:* a rule for one interface is tried on packets of another | three names | |
| `session` | no session leaves a descriptor or an authentication behind, clients that end their sessions properly do no harm, clients are served, commands are answered, EXIT ends the daemon | two clients, five descriptors, both defaults of authentication, the line of one NUL byte among the commands | 159,026 |
| `session_crash` | *violated:* a failed write of the greeting frees words that are unset or freed | as above, one default | |
| `intake` | names come from processes that held the connection, a holder throughout is found unless its row was skipped or a holder left, the verdict is the first covering rule's, the search by number is exact | four processes, of which two start and exit; three TCP sockets and one UDP; one move between two readings; every net of a two-group address | 554,784 |

Why the bounds are enough.  Three slots are the fewest in which a sweep, an
insertion and a removal can each move an entry under the other thread's index
and still leave one behind it; one rule of each type covers the only flow and
one session rule does not, so that a scan hits, passes and falls through.  With
three packets a query can be made, merged into and made again after its
removal, and a second connection can stand behind it.  A query waits two
seconds, the timeout plus one, as in the code's strict comparison.  A buffer of
two lines and a table of three are the smallest pair in which a file can be cut
short.  Two of the protocols read back, so that the order of plain rules shows.
A user name that is a tab reads as nothing; a password with a line break reads
short, and assigns the user name below it; what is too long is refused.  Two changes of an executable suffice for one to be
read in mid-upgrade and restored.  Four interface names with five kernel
indexes let one vanish, come back with a higher index and leave a gap.  Of two
clients one is served while the other waits in the backlog, and a number that
Comm has closed is free for Main; five descriptors are the listening socket,
the client, the queue, one reading of Main and the netlink socket.  Two memmoves overlap with three slots too, but it takes
four, and three session rules, for one to upset the order: TLC finds the
behaviour of section 8 there if `SessionFirst` does not except it.  Four
processes put a holder before, between and behind others in the search by
number; inodes on both sides of half a `gint` make the comparison overflow.

`CHECK_DEADLOCK FALSE` stands where a behaviour really ends: a daemon whose
`len` wrapped is dead (`rules_races`, `rules_remove_sess`); without
`/etc/desktopfw/apps` the daemon exits at each start (`apps`); time ends at
`MaxNow` (`dev`, `dev_rule`).

`apps` uses symmetry of the executables; it has no liveness property.

## 4. Fairness

Six properties are about progress.

* `LookupAnswered` (`rules_races`): each thread is scheduled again and again
  (weak fairness of its own steps, as long as `len` has not wrapped), and a
  thread that waits for `FWRulesLock` gets it if it is free again and again
  (strong fairness of the steps that take it).  A GLib mutex on Linux promises no order but starves nobody for ever
  under a fair scheduler.  Nothing is assumed of the client: Comm may never
  receive a command.
* `PolledPacketsDecided` (`query_polled`): both threads run, time passes, and a
  client sends QUERY LIST for ever.  The last is an assumption about the client,
  not about the daemon, and it is needed: the daemon has no timer, and queries
  expire in QUERY LIST only.
* `RebuildEnds` (`dev`): as for the rules, with `FWDevsLock`.
* `Served`, `Answered`, `ExitEnds` (`session`): both threads run (weak fairness
  of each), and a client that is answered again and again leaves some day
  (strong fairness of its leaving while it is its turn).  A client is never
  obliged to send anything, and without the second assumption one that stays
  keeps all others waiting: the daemon serves one at a time.  That a command's
  handler returns is assumed too: the model has it as one step.  DEV LIST does
  not if an interface vanishes at the wrong moment (fwdev.c:184, `RebuildEnds`),
  nor APPS ADDCOMMITED of a directory (fwapps.c:36).  `Answered` excepts the
  line of one NUL byte.  `ExitEnds` speaks
  of the command thread, and of the process once the packet loop is over: that
  the loop ends is not assumed, since EXIT does not end it.

## 5. What is proved

Eight modules of proofs, about every value of the constants and every
interleaving; unless noted the specification is `Spec`, without fairness.
Every invariant and action property that a passing run checks is a theorem, so
that only liveness rests on TLC alone.

| module | theorem | property |
|---|---|---|
| `RuleTableProofs` | `TypeCorrect`, `SessionRulesFirst`, `MatchedRuleWasLive`, `ScanSafe`, `FirstMatch` | `TypeOK`, `SessionFirst`, `MatchedWasLive`, `ScanReadsRules`, `FirstMatchWhenStable` |
| | `Invariance` | the inductive invariant `IInv` |
| `RuleRefinementProofs` | `Refinement`, `DiskCorrect` (of `AloneSpec`) | `ImplementsList`, `DiskMatchesTable` |
| `QueryTableProofs` | `TypeCorrect`, `OneQuery` | `TypeOK`, `OneQueryPerFlow` |
| | `AcceptedPackets` (if `JunkId` has no packet's number) | `AcceptedWasWanted` |
| | `HeldPackets`, `DroppedPackets` (of `AloneSpec`) | `HeldIsQueried`, `DropJustified` |
| `DaemonFilesProofs` | `SettingsSurvive`, `SettingsAreAcked` | `SettingsCopySurvives`, `SettingsInUse` |
| | `RulesSurvive`, `CutIsLong`, `PlainRulesComeBack` | `RulesCopySurvives`, `CutOnlyIfLong`, `PlainRulesSurvive` |
| `AppTableProofs` | `FileFollows`, `OneCopy`, `RecordedStays`, `DifferencesReported` | `FileFollowsTable`, `OneCopyLeft`, `RecordedIsAsSaved`, `DifferenceIsReported` |
| `DevTableProofs` | `TypeCorrect`, `StampsAreTrue`, `IndexesAreTheKernels`, `LabelsAreRight` | `TypeOK`, `StampedIsRead`, `IndexIsKernels`, `LabelIsInterface` |
| `CommSessionProofs` | `TypeCorrect`, `AuthIsOwn`, `PoliteIsSafe`, `NothingLeaks` | `TypeOK`, `AuthIsTheClients`, `PoliteClientsAreSafe`, `NoSessionLeaks` |
| `PacketIntakeProofs` | `TypeCorrect`, `NamesAreHolders`, `HoldersAreFound` | `TypeOK`, `NamedByHolder`, `HolderIsFound` |
| | `SearchesAreExact`, `VerdictsAreFirstMatches` | `PidSearchExact`, `VerdictIsFirstMatch` |

Assumptions: those the modules declare of their constants (`RuleAssumption`,
`BoundAssumption`, `JunkAssumption`, `QueryAssumption`, `FilesAssumption`, `AppAssumption`,
`DevAssumption`, `SessionAssumption`, `ConnectionsAssumption`,
`MatchAssumption`, `IntakeAssumption`); TLC evaluates them in every run.  The
less obvious ones: a system has finitely many processes and sockets, and an
executable's path is none of the words that stand for none; no two connections
have the same ends; a rule's hosts parse, because RULES ADD refuses others and a
rules file with one ends the daemon (fwrules.c:62 by `fw_error`, as the
Makefile builds it and at the debug level it starts with); and the bound on the kernel's indexes, which is the
model's, leaves one for each interface.  The bounds that stand
for the outside (`MaxMoves`, `MaxNow`, `MaxOpen`) are parameters of the
theorems as of the runs.  None of the properties is inductive; what each needs
beside it:

**Rules.**  `IInv` adds to the types

1. `LockInv`: a thread in a locked section holds the lock, so the sweep and the
   scan exclude each other and the insertions, while RULES REMOVE excludes
   nothing;
2. `FilledInv`: the slots up to `len`, *and* up to each length that a removal has
   loaded and not yet stored (`Covered`), hold rules, and a memmove writes below
   the length it took.  The second half is what the race needs: a removal that
   loaded `len` before the other thread's removal stores a larger value than it
   should, and slots come back to life.  No insertion falls between a load and a
   store: `FWRulesLock` keeps it out of a sweep, and RULES REMOVE and the
   insertions are commands of one thread (`AddAlone`);
3. `OrderInv`: as long as no two memmoves were at work at once (`~torn`), the
   covered slots are in order, and so is each word that a memmove has loaded and
   not stored, between the slots it comes from and goes to (`Between`).  A
   memmove only moves entries down by one place, in whatever order it does so,
   and at every moment old and new words stand in order side by side
   (`LoadKeepsOrder`, `StoreKeepsOrder`).  With two memmoves this fails, in the
   model as in the code: section 8;
4. `ScanInv`: what the scan may still read is a rule that was in the table since
   the lookup began.  RULES REMOVE shifts entries under the scan, and the words it
   has in hand are of the table (`NewWord`);
5. `StableInv`: as long as nothing changed, the scan's bound is the table's
   length and the rules it has passed do not match.

Each of the five is proved by itself, the later ones from the earlier, with one
step per action.  Frame lemmas keep that short: `ArrayFrame` (most steps leave
the array alone), `WordFrame` and `LengthFrame` (what those of a removal leave),
`LookupFrame` (what steps do to a lookup in progress); `ArrayObserved` says what
the history has of a write.

**The list.**  `Refinement` says that the array with its locks and its
removal word by word *is* the ordered list of `RuleList` whenever no packet is
handled during a RULES REMOVE (`AloneSpec`) and `currnr` does not start with the
number asked for (`JunkAssumption`).  `Inv` joins the invariants above with what
each handler knows when it acts: `Sizes` (a removal finds the `len` it left, so
that it is neither refused nor wraps), `Distinct` (no rule is twice in the
table, so that a hit refreshes one entry), `Due` (what a sweep is about to
remove is idle), `Search` (RULES REMOVE has counted the rules of its type and
stands at the one of that number) and `Passed` (the rules a scan has passed do
not cover the packet).  `Sole` derives from the locks that a thread that
removes, sweeps or scans is alone in the table.  `DiskCorrect` needs `SavedInv`
on top: the file lags behind the table only while the handler is at its save, or
a RULES REMOVE PERM has begun to move the array and not yet saved.  A sweep and the
removal of a session rule leave the permanent rules as they are, since those
are a function of the list that `Permanent` computes entry by entry.  The list is the
array as the memmove at work will leave it (`Array`), so a removal takes place
at its first access (`ShiftSimulated`, by `RemoveAtIs`), and each word that is
loaded or stored later, as well as `len`, is a stutter (`WordFacts`,
`StoreFacts`); `NotTorn` says that the schedules admit one memmove at a time.
`QuietFrame` deals with all steps that leave the list alone; the others have a
lemma each, and a hit on a rule removed since `len` was read refreshes nothing.

**Queries.**  `TypeInv` adds to the types that the slots up to `len`, or to the
length an append will store (`Reach`), and the words of a memmove are queries'
numbers, that a removal stays within the array, and that the query Comm is about
to remove stays at its index: Main only appends.  `FlowInv` says, as long as no
memmove was at work during a search (`~crossed`), that the queries in those
slots and words (`Waiting`) are of different connections, whatever `len` is:
that is why a lost update of it, which brings a removed query back or loses an
appended one, does no harm; and that what a search has passed is of other
connections than the packet's (`Searched`), up to the append.  `AcceptInv`
follows the packet numbers: a query has none, or one of its own connection,
provided that the memory it is made of holds no packet's number; so an accepted
packet is of a connection the user named.  These hold without any lock.

`AloneInv` (one handler at a time) looks at the array as the next handler will
find it (`At`, `Top`): no query is in it twice (`ArrayInv`), each that is not
being filled or answered has a held packet of its own connection, and the kernel
holds nothing else but the packet Main is asking about (`HeldInv`).

**Files.**  `SettingsPlace` and `RulesPlace` say, for each step of the write,
in which of the two files the last complete state is, while `SettingsFresh` and
`RulesLength` say what else a file may hold: nothing older, and nothing shorter
than a buffer.  `SettingsAreAcked` rests on what a printed file reads as: a value
that reads back as it was set, and that no other setting's line assigns
(`Survives`), is what `Read` finds.  That a rule of plain fields reads back is a lemma about `Line`
and `ReadLine`, which takes the first word that fits; its existence is by the
least-number principle (`WFMin` over the naturals).

**Applications.**  `SaveInv`: what was last written is in the file or, between
rename and fclose, in the backup, and the start enters only what the file has.
`RecordInv`: what was seen of an executable is the executable's, *except* the
part that the step at hand has still to read; the same of a new entry, of the
saved part and, while it is not being written, of the file.  `ReportInv`: a
CHECK that has not answered still has to decide each executable that differs
and did not change since it began.

**Devices.**  `Stamps`: a table older than its stamp has a thread that is about
to read it anew, although both threads may have passed the test.  `IndexInv`:
the lock excludes (`Exclusive`), and the entries the loop reached carry the
link table's indexes, which no two interfaces share.

**Session.**  `Places` and `Orderly` say where each client is, and at which steps the
words are allocated, `Worded` that no line is a lone NUL byte as long as
no client has sent one.  For `NothingLeaks`, `FdInv` names the owner of every
descriptor that is in use; that there always is a free one to draw is a
counting argument (at most `3 + MaxOpen` are in use, by cardinalities of the
sets the owners make).  `TypeOK` needs that too, since what `socket` or `accept`
returns has to be a number.

**The packet.**  `ScanInv` says what each step of the reading of /proc may rely
on: the tables' entries are sockets that were there, each with the inode it has,
and they are sorted once the last row was read (`TablesOk`; `TableGrows` and
`TableSorts` are the two ways a table changes); the place of the scan (`PlaceOk`)
and the entry found (`HitOk`).  Then

* `NameInv`: what the history collects holds what the kernel holds now, a
  name is of a process that held the socket and ran that executable, "" is of
  one that held it and is gone (`NamesOk`), and an entry that was found belongs
  to the process at hand;
* `FoundInv`: a row of a socket held throughout has its inode (`KeptRows`), and
  if there is one such row, it has a name once a holder was visited; the name is
  no "" unless a holder went away.  This rests on the search by inode:
  `ComparableIsSorted` shows that the sort by truncated differences is the sort
  by number if no two inodes are too far apart, and `SortedIsFound` that the
  search then finds what is there, its test of the first entry included;
* `PidSearchFinds`: the search by number closes in on any number from the first
  process's on.  Both searches are functions on pairs of bounds;
  they are shown to satisfy their equations (`SearchEquation`, `PidEquation`)
  through functions that solve them for ranges of at most k, with the
  least-number principle for what would be an induction on k;
* `HitsIsCovers`: the tests of a rule are those of the reference.  Its core is
  `NetIs`, that `h1 & mask == h2 & mask` compares prefixes: `MaskBits` computes
  each bit of the shifted mask, and `HighBits` that equal bits from k on are
  equal quotients by 2^k.

## 6. What is only model-checked, and why

* Liveness, since fairness and ENABLED are beyond the prover: `LookupAnswered`, `PolledPacketsDecided`, `RebuildEnds`, `Served`,
  `Answered` and `ExitEnds`.
* The three runs that expect a violation: a counterexample needs no proof.

## 7. The plan

Done, in this order: the rule table with its refinement; queries; applications;
devices; the rule file; then the session with the end of the daemon, the
settings, matching with connections and the packet's way, and the proofs of
section 5, which now reach every safety property of the runs.

Left, by what they would add:

1. one model of a packet that is held and of the answer that makes its rule:
   `QueryTable` with `RuleList` in place of a set of flows;
2. the lookups in the device array during a rebuild, once glib's `GArray`
   reallocation is modelled as `RuleTable` has it.

## 8. Where code and documentation disagree

Three are runs that TLC refutes, with the line they are about in
`PROJECT.json`:

* **RULES REMOVE SESS may remove a permanent rule** (`rules_remove_sess`,
  fwrules.c:730).  A sweep moves the array between its search and its removal.
* **A rule's interface is compared by its position** (`dev_rule`,
  fwrules.c:262) with the kernel's index, which `nlifidx` holds.
* **A failed write of the greeting ends the command thread** (`session_crash`,
  fwcomm.c:156), which then frees words that are unset or freed already, and
  the daemon serves nobody any more.

Others that the models have as the code does, and that the properties state
around:

* Two memmoves at a time may put a permanent rule before a session rule
  (fwrules.c:730, unlocked, and 775): of `[s1, s2, s3, p1]` the sweep removes the
  first rule while RULES REMOVE SESS takes one out, a word that the one has
  loaded is stored after the other has moved the slots, and `[p1, s3, p1, p1]` is
  left.  README.md:103 of the repository says that session rules are checked
  first; `SessionFirst` speaks of tables without such an overlap.
* Not every permanent rule survives a restart (fwpacket.c:19): protocol `ip`
  prints as nothing, and an executable ends at its first blank;
  protocol_commands.txt:119 knows no such exception.  `PlainRulesSurvive` speaks
  of the others.
* A held packet may be missing from QUERY LIST (fwquery.c:230): `fwquery_add`
  merges a new packet into a query that QUERY ADD or LIST has already answered
  and then removes; protocol_commands.txt:163-164 says that each is listed.
  `HeldIsQueried` speaks of one handler at a time.
* A removal that moves the queries while `fwquery_add` walks them
  (fwquery.c:31) may move one below the index; it is missed, and a second query
  of its connection is appended, although the code means to have one ("Return
  false if a query already exists", fwquery.c:30).  `OneQueryPerFlow` excepts that.  An append that
  meets a removal (fwquery.c:58, 137, 230) may be lost with its packet, or bring
  the removed query back: `HeldIsQueried` speaks of one handler at a time.
* A new query can be seen before it has its packet's number (fwquery.c:58-60):
  QUERY ADD then gives its verdict to the number that its memory holds, and the
  packet stays held; `AcceptedWasWanted` assumes that this is no packet's number.
* LIST decides that a query is too old, a packet renews it, and LIST drops that
  packet (fwquery.c:134-136), which has waited for no time at all;
  `DropJustified` speaks of one handler at a time.
* COMMIT may store the checksum of another version (fwapps.c:259), since the
  checksum is only read if mtime or size differ; protocol_commands.txt:85-86.
* A lookup reads the length before it takes the lock (fwrules.c:245), so a
  permanent rule that is appended in between is missed and a packet it accepts
  is asked about.  `FirstMatchWhenStable` therefore speaks of an unchanged table.
* `currnr` is not initialised (fwrules.c:696); if the stack holds the number
  asked for, RULES REMOVE takes the first rule it looks at.  `rules_list` is
  checked for the other values, `rules_races` for one of those.
* The sweep does not look at the entry behind one it removes (fwrules.c:775).
  `Expire` of `RuleList` is therefore a possibility and not a duty.
* Queries expire in QUERY LIST only (fwquery.c:135); protocol_commands.txt:165-166
  describes a timeout without that condition.  LIST also skips the query behind
  each one it removes.
* An interface whose name `sscanf`'s `%[a-z0-9.]` does not take makes the join
  in fwdev.c:200 end one name early, and the last device keeps an uninitialised
  `nlifidx`; `IndexIsKernels` speaks of the entries the loop reached.
* A thread that finds `last_check` stamped by the other goes on with the device
  array of the time before (fwdev.c:129), since the stamp is set before the array
  is read; `StampedIsRead` speaks of the moments when no thread is within
  `fwdev_reread_devs`.
* If an interface vanishes between the two readings, the loop of fwdev.c:184
  never ends and keeps `FWDevsLock`; `RebuildEnds` names that exception.
* A daemon that dies between the rename and the creation of
  `/etc/desktopfw/apps` exits at each later start, with `apps.old` intact;
  `OneCopyLeft` says that much and no more.
* A client that goes away without CLOSE makes Comm close its socket and then
  write to and close the number again (fwcomm.c:95-130), by when it may be
  Main's; `PoliteClientsAreSafe` names the clients that do no harm.
* A read of exactly one NUL byte (fwcomm.c:101-108) is not trimmed, counts one
  byte and is no empty command, but has no words: `strcmp(NULL)` ends the daemon,
  at fwcomm.c:120 if the client is not authenticated and at 135 behind the answer
  otherwise.  `PoliteClientsAreSafe` and `Answered` except that line.
* A setting may be confirmed and come back different (fwconfig.c:64, accepted at
  164-190): commands are split at blanks only, and `sscanf` stops at a tab or a
  line break.  What is blank is read as nothing, a value with a tab is read up to
  it, and one with a line break can set another setting.
  protocol_commands.txt:194-200 knows no such values; `SettingsInUse` speaks of values that survive.
* An emptied settings file is read without complaint (fwconfig.c:36), and the
  daemon starts with the initial values; `SettingsCopySurvives` names that case.
* Inodes are compared by a difference cut to `gint` (fwproc.c:408).  Rows with
  inode 0, which closed connections have, and inodes from 2^31 on sort the
  wrong way round; `HolderIsFound` holds of tables without such a pair, and
  fails of others.
* A connection that a process holds throughout may still get no name: /proc/net/tcp
  is read in pieces (fwproc.c:455-456), and a row is skipped, or read twice, if
  others come or go before the reader's place; and if the first of two holders
  exits between `stat` and `readlink`, the entry gets "" (fwproc.c:624-629),
  which the second cannot replace.  `HolderIsFound` names both exceptions.
* The application of an incoming packet is looked up twice (fwnfq.c:235-239);
  the second lookup, from source to destination, overwrites the first, so none
  is ever found.
* The ports of a UDP or ICMP packet are not set (fwnfq.c:201); a rule of these
  protocols that names a port is matched with what the stack holds.
* For a mask of 0 the shifts of fwrules.c:296 are undefined; on x86 0.0.0.0/0
  then covers one address.  Only `0/0` is taken for every address.
* The search for a pid (fwutils.c:44) does not end with one process, or for a
  number below the first of two; neither occurs on a running system, and
  `PidSearchExact` says what it needs.  Only test_fwproc.c:34 calls it, so this is
  about a function of the library and not about the running daemon.
* A packet whose application is unknown ("*", or none) is matched by a rule
  that names an application as if it named none (fwrules.c:338); the description
  of the field in protocol_commands.txt:128 has no such exception, and the reference of
  `VerdictIsFirstMatch` has it as the code does.

## 9. Not modelled

* Packet printers (fwnfq_ip.c, _tcp.c, _udp.c, _icmp.c), the printers of the
  other files, debugging macros and the test programs write to a terminal only.
  The getters and CONFIG LIST print settings.
* `fwnfq_destroy`, `fwrules_entry_move`, `fwrules_entry_delete`,
  `fwdev_force_read` and `fwproc_pidexe_sortfn` have no caller in the daemon.
* Name tables: what of them prints and does not read back is in `RuleFile`; the
  other lookups are constant.
* Undefined behaviour after a thread used the other's descriptor, a freed array
  or a device array in mid-rebuild.
* Libraries and the kernel (GArray, nlif, NFQUEUE, stdio, sockets, /proc) are
  modelled by what the code's use of them depends on; the definitions are
  marked external in `PROJECT.json`.

## 10. Running it

    tlc -workers 2 -config rules_races.cfg MCRuleTable
    tlapm RuleTableProofs.tla

The other runs are named in section 3; `PROJECT.json` pairs each .cfg with its
module.  The longest runs take about two minutes, and all proofs together
a quarter of an hour.
