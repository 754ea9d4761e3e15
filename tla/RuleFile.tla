------------------------------ MODULE RuleFile ------------------------------
(***************************************************************************)
(* The permanent rules on disk: fwrules_read at the daemon's start, and    *)
(* fwrules_write after it and after every command that touches a rule.     *)
(* The file is renamed to a backup, created empty and filled; the daemon   *)
(* may die between any two of these steps.                                 *)
(*                                                                         *)
(* Abstractions.  Of an entry's nine fields the ones whose printed form    *)
(* may not read back are kept: the protocol, and the application as its    *)
(* words; "hosts" stands for the address that follows the protocol.  A     *)
(* field with a line break, which would print as two lines, is left out.   *)
(* The print is one step: it runs under FWRulesLock, and only the command  *)
(* thread touches permanent rules.  stdio writes the text when its buffer  *)
(* is full and at fclose.                                                  *)
(***************************************************************************)
EXTENDS Integers, FiniteSets, SequencesExt

CONSTANTS
  Proto,     \* protocol names of fwpacket_get_proto_by_name
  App,       \* executables, each a sequence of words
  Buffer,    \* lines that fit into stdio's buffer
  MaxRules   \* bound: rules in the table

FileAssumption ==
  /\ Proto \subseteq {"tcp", "udp", "icmp", "ip"}
  /\ App \subseteq Seq(STRING) \ {<< >>}
  /\ Buffer \in Nat /\ MaxRules \in Nat

VARIABLES
  file,    \* /etc/desktopfw/rules
  old,     \* /etc/desktopfw/rules.old
  table,   \* the permanent rules of fw_rules
  pc,      \* "down", "idle", or the step of fwrules_write that comes next
  saved,   \* history: the table as last written in full
  cut      \* history: the daemon has started from a file cut short

disk == <<file, old>>
vars == <<disk, table, pc, saved, cut>>

Entry == [proto : Proto, app : App]

-----------------------------------------------------------------------------
(* One line of the file.                                                   *)

\* TxtProto[PROTO_IP] is the empty string.
TxtProto(proto) == IF proto = "ip" THEN << >> ELSE <<proto>>

Line(e) == TxtProto(e.proto) \o <<"hosts">> \o e.app
Lines(rules) == [i \in DOMAIN rules |-> Line(rules[i])]

\* sscanf converts all nine fields; its %8[a-z] stops at an address.
Scans(line) == Len(line) >= 3 /\ line[1] # "hosts"

\* The application ends at the first blank.
ReadLine(line) == [proto |-> line[1], app |-> <<line[3]>>]

\* The k-th smallest member of a set of numbers.
Nth(S, k) == CHOOSE i \in S : Cardinality({j \in S : j <= i}) = k

\* Mutant: every entry is inserted at the head.
ReadReversed(lines) ==
  LET good == {i \in DOMAIN lines : Scans(lines[i])}
      n    == Cardinality(good)
  IN  [k \in 1..n |-> ReadLine(lines[Nth(good, n + 1 - k)])]

\* The lines that scan, in their order; the others are passed over.
ReadLines(lines) ==
  LET good == {i \in DOMAIN lines : Scans(lines[i])}
  IN  [k \in 1..Cardinality(good) |-> ReadLine(lines[Nth(good, k)])]

Absent == [exists |-> FALSE, header |-> FALSE, lines |-> << >>]
Empty  == [exists |-> TRUE, header |-> FALSE, lines |-> << >>]
Text(lines) == [exists |-> TRUE, header |-> TRUE, lines |-> lines]

\* The package ships a file without rules.
Init ==
  /\ file = Text(<< >>)
  /\ old = Absent
  /\ table = << >>
  /\ pc = "down"
  /\ saved = << >>
  /\ cut = FALSE

\* The start: fwrules_entry_add for each line, then fwrules_write.  Without the
\* file the daemon exits, and without its [rules] line it dies on the NULL
\* fw_rules in fwrules_print, both before anything is written.
Start ==
  /\ pc = "down"
  /\ file.exists /\ file.header
  /\ table' = ReadLines(file.lines)
  /\ cut' = (cut \/ Len(file.lines) < Len(saved))
  /\ pc' = "rename"
  /\ UNCHANGED <<disk, saved>>

\* RULES ADD PERM, QUERY ADD PERM.
AddPermanent(e) ==
  /\ pc = "idle"
  /\ Len(table) < MaxRules
  /\ table' = Append(table, e)
  /\ pc' = "rename"
  /\ UNCHANGED <<disk, saved, cut>>

\* RULES ADD SESS saves too.
AddSession ==
  /\ pc = "idle"
  /\ pc' = "rename"
  /\ UNCHANGED <<disk, table, saved, cut>>

\* RULES REMOVE PERM.
RemovePermanent(i) ==
  /\ pc = "idle"
  /\ table' = RemoveAt(table, i)
  /\ pc' = "rename"
  /\ UNCHANGED <<disk, saved, cut>>

\* Mutant: the file is overwritten in place.
NoRename ==
  /\ pc = "rename"
  /\ pc' = "open"
  /\ UNCHANGED <<disk, table, saved, cut>>

Rename ==
  /\ pc = "rename"
  /\ old' = file
  /\ file' = Absent
  /\ pc' = "open"
  /\ UNCHANGED <<table, saved, cut>>

Open ==
  /\ pc = "open"
  /\ file' = Empty
  /\ pc' = "print"
  /\ UNCHANGED <<old, table, saved, cut>>

\* Mutant: every line goes to the file at once.
FlushEachLine(n) ==
  /\ pc = "print"
  /\ Len(file.lines) < n /\ n < Len(table)
  /\ file' = Text(SubSeq(Lines(table), 1, n))
  /\ UNCHANGED <<old, table, pc, saved, cut>>

\* A full buffer reaches the file before fclose.
Flush(n) ==
  /\ pc = "print"
  /\ Buffer <= n /\ Len(file.lines) < n /\ n < Len(table)
  /\ file' = Text(SubSeq(Lines(table), 1, n))
  /\ UNCHANGED <<old, table, pc, saved, cut>>

Close ==
  /\ pc = "print"
  /\ file' = Text(Lines(table))
  /\ saved' = table
  /\ pc' = "idle"
  /\ UNCHANGED <<old, table, cut>>

Write == Rename \/ Open \/ (\E n \in 1..MaxRules : Flush(n)) \/ Close

\* The daemon is killed or stopped.
Die ==
  /\ pc # "down"
  /\ pc' = "down"
  /\ table' = << >>
  /\ UNCHANGED <<disk, saved, cut>>

\* The operator puts the backup in place of a file the daemon cannot read.
Restore ==
  /\ pc = "down"
  /\ ~file.header /\ old.exists
  /\ file' = old
  /\ UNCHANGED <<old, table, pc, saved, cut>>

Next ==
  \/ Start \/ Die \/ Restore
  \/ \E e \in Entry : AddPermanent(e)
  \/ AddSession
  \/ \E i \in DOMAIN table : RemovePermanent(i)
  \/ Write

Spec == Init /\ [][Next]_vars

-----------------------------------------------------------------------------
(* Properties.                                                             *)

Word == UNION {Range(a) : a \in App} \cup {"tcp", "udp", "icmp", "hosts"}
FileOK(f) ==
  /\ f.exists \in BOOLEAN /\ f.header \in BOOLEAN
  /\ f.lines \in Seq(Seq(Word))

TypeOK ==
  /\ FileOK(file) /\ FileOK(old)
  /\ \A i \in DOMAIN table :
       table[i].proto \in Proto /\ table[i].app \in Seq(Word) \ {<< >>}
  /\ pc \in {"down", "idle", "rename", "open", "print"}
  /\ cut \in BOOLEAN

Holds(f, rules) == f.header /\ f.lines = Lines(rules)

\* Wherever fwrules_write is interrupted, and however often, the rules or the
\* backup holds what was last written in full - until the daemon has started
\* from a file cut short in mid-write, which it takes for a short one.
OneCopySurvives == cut \/ Holds(file, saved) \/ Holds(old, saved)

\* A file is only cut short if it is longer than stdio's buffer.
CutOnlyIfLong == [][~cut /\ cut' => Len(saved) > Buffer]_vars

Plain(e) == e.proto # "ip" /\ Len(e.app) = 1
Starts == pc = "down" /\ pc' = "rename"

\* Rules whose fields read back come back in their order after a restart,
\* which first match depends on.
PlainRulesSurvive ==
  [][Starts /\ Holds(file, saved) /\ (\A i \in DOMAIN saved : Plain(saved[i]))
       => table' = saved]_vars
=============================================================================
