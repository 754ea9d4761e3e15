------------------------------ MODULE AppTable ------------------------------
(***************************************************************************)
(* The registered applications: the table HTApps, the commands APPS CHECK, *)
(* STATUS, ADDCOMMITED, COMMIT and REMOVE, the file /etc/desktopfw/apps    *)
(* and its backup, and the daemon's death and start.                       *)
(*                                                                         *)
(* Only the command thread touches the table, but the executables change   *)
(* under it: their mtime, size and checksum are three reads, at three      *)
(* moments, and what CHECK and COMMIT use was read by an earlier command.  *)
(*                                                                         *)
(* Abstractions.  An executable is in one of a few versions, which may     *)
(* share an mtime or a size; a missing one reads as -1 three times.  A     *)
(* checksum is read at one moment.  The table fits into stdio's buffer, so *)
(* the text reaches the file at fclose (RuleFile has the longer case).     *)
(***************************************************************************)
EXTENDS Integers, Functions

CONSTANTS
  Path,       \* executables
  None,       \* no executable
  Version,    \* what an executable may be, as [mtime, size, sum]
  Interval,   \* FWAPPS_CHECKTIME_INTERVAL
  MaxChanges, \* bound: changes of executables
  MaxDeaths   \* bound: deaths of the daemon

ASSUME AppAssumption ==
  /\ None \notin Path
  /\ Version \subseteq [mtime : Nat, size : Nat, sum : Nat]
  /\ Interval \in Nat \ {0}
  /\ MaxChanges \in Nat /\ MaxDeaths \in Nat

Gone == [mtime |-> -1, size |-> -1, sum |-> -1]
File == Version \cup {Gone}

VARIABLES
  file,     \* the executables
  count,    \* changes and deaths so far
  apps,     \* HTApps: what is saved for a path, and what was seen last
  status,   \* appstatus
  since,    \* seconds since last_check, up to Interval
  pc,       \* the step of the running command that comes next
  job,      \* its locals: paths still to visit, the path at hand, the new entry
  disk,     \* /etc/desktopfw/apps
  old,      \* /etc/desktopfw/apps.old
  touched,  \* history: paths whose file or entry changed since CHECK began
  fresh,    \* history: paths whose file has not changed since it was looked at
  agreed,   \* history: ... and whose entry was recorded since
  written   \* history: the table as last written or read

table  == <<apps, status, since>>
files  == <<disk, old, written>>
vars   == <<file, count, table, pc, job, files, touched, fresh, agreed>>

\* What a path has in HTApps; its status is never read.
Triple == [mtime : Int, size : Int, sum : Int]
Entry  == [saved : Triple, seen : Triple]

Empty    == [p \in {} |-> Gone]
NoJob    == [goal |-> "none", todo |-> {}, path |-> None, new |-> Gone]
Saved    == [p \in DOMAIN apps |-> apps[p].saved]
Absent   == [exists |-> FALSE, lines |-> Empty]
Text(ls) == [exists |-> TRUE, lines |-> ls]
Without(f, p) == Restrict(f, DOMAIN f \ {p})

\* fwapps_check_application and _fwapps_report_status compare these two only.
Differs(p, seen) ==
  seen.mtime # apps[p].saved.mtime \/ seen.size # apps[p].saved.size

\* The package ships a file without applications.
Init ==
  /\ file \in [Path -> Version] /\ count = [changes |-> 0, deaths |-> 0]
  /\ apps = Empty /\ status = "changed" /\ since = Interval
  /\ pc = "down" /\ job = NoJob
  /\ disk = Text(Empty) /\ old = Absent /\ written = Empty
  /\ touched = {} /\ fresh = {} /\ agreed = {}

-----------------------------------------------------------------------------
(* The environment.                                                        *)

\* An executable is replaced, restored, edited in place or deleted.
Change(p, v) ==
  /\ file[p] # v
  /\ count.changes < MaxChanges
  /\ count' = [count EXCEPT !.changes = @ + 1]
  /\ file' = [file EXCEPT ![p] = v]
  /\ touched' = touched \cup {p}
  /\ fresh' = fresh \ {p}
  /\ agreed' = agreed \ {p}
  /\ UNCHANGED <<table, pc, job, files>>

Tick ==
  /\ since < Interval
  /\ since' = since + 1
  /\ UNCHANGED <<file, count, apps, status, pc, job, files, touched, fresh, agreed>>

Die ==
  /\ pc # "down"
  /\ count.deaths < MaxDeaths
  /\ count' = [count EXCEPT !.deaths = @ + 1]
  /\ pc' = "down"
  /\ job' = NoJob
  /\ apps' = Empty /\ status' = "changed" /\ since' = Interval
  /\ touched' = {} /\ fresh' = {}
  /\ agreed' = IF pc \in {"rename", "open", "close"} THEN {} ELSE agreed
  /\ UNCHANGED <<file, files>>

-----------------------------------------------------------------------------
(* APPS CHECK and APPS STATUS: one visit to every entry.                   *)

Visits(goal) ==
  /\ pc = "idle"
  /\ pc' = "visit"
  /\ job' = [NoJob EXCEPT !.goal = goal, !.todo = DOMAIN apps]

BeginCheck ==
  /\ since >= Interval
  /\ status' = "not changed"
  /\ touched' = {}
  /\ Visits("check")
  /\ UNCHANGED <<file, count, apps, files, fresh, agreed>>

\* Within the interval CHECK answers with the status it has.
Check == BeginCheck /\ since' = 0

Status ==
  /\ Visits("status")
  /\ UNCHANGED <<file, count, table, files, touched, fresh, agreed>>

VisitMtime(p) ==
  /\ pc = "visit"
  /\ p \in job.todo
  /\ apps' = [apps EXCEPT ![p].seen.mtime = file[p].mtime]
  /\ job' = [job EXCEPT !.todo = @ \ {p}, !.path = p]
  /\ fresh' = fresh \cup {p}
  /\ pc' = "size"
  /\ UNCHANGED <<file, count, status, since, files, touched, agreed>>

\* The checksum is read only if mtime or size differ.
VisitSize ==
  LET p == job.path
  IN  /\ pc = "size"
      /\ apps' = [apps EXCEPT ![p].seen.size = file[p].size]
      /\ pc' = IF Differs(p, apps'[p].seen) THEN "sum" ELSE "visit"
      /\ UNCHANGED <<file, count, status, since, job, files, touched, fresh, agreed>>

ReadSum ==
  /\ pc = "sum"
  /\ apps' = [apps EXCEPT ![job.path].seen.sum = file[job.path].sum]
  /\ pc' = "visit"
  /\ UNCHANGED <<file, count, since, job, files, touched, fresh, agreed>>

\* Mutant: the last entry visited decides.
LastSumDecides ==
  ReadSum /\ status' = IF job.goal = "check" /\ job.todo = {} THEN "changed" ELSE status

VisitSum == ReadSum /\ status' = IF job.goal = "check" THEN "changed" ELSE status

VisitEnd ==
  /\ pc = "visit"
  /\ job.todo = {}
  /\ pc' = "idle"
  /\ job' = NoJob
  /\ UNCHANGED <<file, count, table, files, touched, fresh, agreed>>

Visit == (\E p \in Path : VisitMtime(p)) \/ VisitSize \/ VisitSum \/ VisitEnd

-----------------------------------------------------------------------------
(* fwapps_add_path at the start and fwapps_add_path_and_commit for         *)
(* ADDCOMMITED: a checksum that tells whether the file can be opened, then *)
(* the three reads.                                                        *)

Open(p) ==
  /\ file[p] # Gone
  /\ fresh' = fresh \cup {p}
  /\ pc' = "mtime"
  /\ UNCHANGED <<file, count, table, files, touched, agreed>>

AddCommited(p) ==
  /\ pc = "idle"
  /\ job' = [NoJob EXCEPT !.goal = "add", !.path = p]
  /\ Open(p)

BootOpen(p) ==
  /\ pc = "boot"
  /\ p \in job.todo
  /\ job' = [job EXCEPT !.todo = @ \ {p}, !.path = p]
  /\ Open(p)

\* An executable that cannot be opened is left out of the table.
BootSkip(p) ==
  /\ pc = "boot"
  /\ p \in job.todo
  /\ file[p] = Gone
  /\ job' = [job EXCEPT !.todo = @ \ {p}]
  /\ UNCHANGED <<file, count, table, pc, files, touched, fresh, agreed>>

ReadMtime ==
  /\ pc = "mtime"
  /\ job' = [job EXCEPT !.new.mtime = file[job.path].mtime]
  /\ pc' = "newsize"
  /\ UNCHANGED <<file, count, table, files, touched, fresh, agreed>>

ReadSize ==
  /\ pc = "newsize"
  /\ job' = [job EXCEPT !.new.size = file[job.path].size]
  /\ pc' = "newsum"
  /\ UNCHANGED <<file, count, table, files, touched, fresh, agreed>>

\* The entry enters the table; the start has more lines to read.
Enter ==
  LET p    == job.path
      seen == [job.new EXCEPT !.sum = file[p].sum]
      boot == job.goal = "boot"
  IN  /\ pc = "newsum"
      /\ apps' = [x \in DOMAIN apps \cup {p} |->
           IF x # p THEN apps[x]
           ELSE [saved |-> IF boot THEN disk.lines[p] ELSE seen, seen |-> seen]]
      /\ pc' = IF boot THEN "boot" ELSE "rename"
      /\ job' = IF boot THEN [job EXCEPT !.new = Gone] ELSE NoJob
      /\ touched' = touched \cup {p}
      /\ agreed' = IF boot THEN agreed
                   ELSE IF p \in fresh THEN agreed \cup {p} ELSE agreed \ {p}
      /\ UNCHANGED <<file, count, status, since, files, fresh>>

Register == (\E p \in Path : AddCommited(p)) \/ ReadMtime \/ ReadSize \/ Enter

\* Without the file the daemon exits.
Start ==
  /\ pc = "down"
  /\ disk.exists
  /\ pc' = "boot"
  /\ job' = [NoJob EXCEPT !.goal = "boot", !.todo = DOMAIN disk.lines]
  /\ written' = disk.lines
  /\ UNCHANGED <<file, count, table, disk, old, touched, fresh, agreed>>

Started ==
  /\ pc = "boot"
  /\ job.todo = {}
  /\ pc' = "idle"
  /\ job' = NoJob
  /\ UNCHANGED <<file, count, table, files, touched, fresh, agreed>>

Boot == Start \/ (\E p \in Path : BootOpen(p) \/ BootSkip(p)) \/ Started

-----------------------------------------------------------------------------
(* APPS COMMIT and APPS REMOVE, and fwapps_write, which ends them and      *)
(* ADDCOMMITED.                                                            *)

Record(p, entry) ==
  /\ pc = "idle"
  /\ p \in DOMAIN apps
  /\ apps' = [apps EXCEPT ![p].saved = entry]
  /\ touched' = touched \cup {p}
  /\ agreed' = IF p \in fresh THEN agreed \cup {p} ELSE agreed \ {p}
  /\ UNCHANGED <<file, count, status, since, job, files, fresh>>

\* Mutants: the size is forgotten; the file is not written.
CommitMtime(p) ==
  Record(p, [apps[p].saved EXCEPT !.mtime = apps[p].seen.mtime]) /\ pc' = "rename"
CommitUnsaved(p) == Record(p, apps[p].seen) /\ UNCHANGED pc

\* The executable is not looked at: what was seen last is saved.
Commit(p) == Record(p, apps[p].seen) /\ pc' = "rename"

Remove(p) ==
  /\ pc = "idle"
  /\ p \in DOMAIN apps
  /\ apps' = Without(apps, p)
  /\ pc' = "rename"
  /\ touched' = touched \cup {p}
  /\ agreed' = agreed \ {p}
  /\ UNCHANGED <<file, count, status, since, job, files, fresh>>

\* Mutant: no backup is made.
NoBackup ==
  /\ pc = "rename"
  /\ disk' = Absent
  /\ pc' = "open"
  /\ UNCHANGED <<file, count, table, job, old, written, touched, fresh, agreed>>

Rename ==
  /\ pc = "rename"
  /\ old' = disk
  /\ disk' = Absent
  /\ pc' = "open"
  /\ UNCHANGED <<file, count, table, job, written, touched, fresh, agreed>>

OpenFile ==
  /\ pc = "open"
  /\ disk' = Text(Empty)
  /\ pc' = "close"
  /\ UNCHANGED <<file, count, table, job, old, written, touched, fresh, agreed>>

Close ==
  /\ pc = "close"
  /\ disk' = Text(Saved)
  /\ written' = Saved
  /\ pc' = "idle"
  /\ UNCHANGED <<file, count, table, job, old, touched, fresh, agreed>>

Write == Rename \/ OpenFile \/ Close

-----------------------------------------------------------------------------
Command == Status \/ Check \/ \E p \in Path : Commit(p) \/ Remove(p)
Daemon  == Boot \/ Visit \/ Register \/ Write \/ Command
Next    == Daemon \/ Tick \/ Die \/ \E p \in Path, v \in File : Change(p, v)

Spec == Init /\ [][Next]_vars

-----------------------------------------------------------------------------
(* Properties.                                                             *)

TypeOK ==
  /\ file \in [Path -> File]
  /\ count \in [changes : 0..MaxChanges, deaths : 0..MaxDeaths]
  /\ DOMAIN apps \subseteq Path
  /\ \A p \in DOMAIN apps : apps[p] \in Entry
  /\ status \in {"changed", "not changed"}
  /\ since \in 0..Interval
  /\ pc \in {"down", "boot", "idle", "visit", "size", "sum", "mtime", "newsize",
             "newsum", "rename", "open", "close"}
  /\ job.todo \subseteq Path /\ job.path \in Path \cup {None}
  /\ DOMAIN disk.lines \subseteq Path /\ DOMAIN old.lines \subseteq Path
  /\ touched \cup fresh \cup agreed \subseteq Path

Unlike(p) == Differs(p, file[p])

\* When CHECK would answer "not changed", every registered executable is as
\* saved, except those that changed, or whose entry did, since the last visit
\* to all entries began: no entry is passed over and no later one takes back
\* what an earlier one found (fwapps_check).
DifferenceIsReported ==
  pc = "idle" /\ status = "not changed" =>
    \A p \in DOMAIN apps : Unlike(p) => p \in touched

\* An executable that has not changed since ADDCOMMITED recorded it, or since
\* it was looked at and then recorded by COMMIT, does not differ from its
\* entry: CHECK and STATUS do not report it, also after a restart.
RecordedIsAsSaved == \A p \in agreed \cap DOMAIN apps : ~Unlike(p)

\* Between commands the file holds the table; it may have more lines, for
\* executables that were missing at the start.
FileFollowsTable ==
  pc = "idle" =>
    /\ \A p \in DOMAIN apps : p \in DOMAIN disk.lines /\ disk.lines[p] = Saved[p]
    /\ disk.lines = written

\* The death of the daemon, at any step of fwapps_write, leaves the table it
\* last wrote or read in the file or in the backup.
OneCopyLeft ==
  pc = "down" =>
    \/ disk.exists /\ disk.lines = written
    \/ old.exists /\ old.lines = written
=============================================================================
