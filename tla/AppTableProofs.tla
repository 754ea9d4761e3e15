---------------------------- MODULE AppTableProofs ----------------------------
(***************************************************************************)
(* Proofs about AppTable: what the file holds, what CHECK may report, and  *)
(* what a recorded executable keeps, for any executables and versions,     *)
(* changes at any moment, and the daemon's death at any step.              *)
(***************************************************************************)
EXTENDS AppTable, TLAPS

USE AppAssumption DEF AppAssumption

-----------------------------------------------------------------------------
(* Types.                                                                  *)

Reading   == {"mtime", "newsize", "newsum"}
Visiting  == {"visit", "size", "sum"}
Writing   == {"rename", "open", "close"}
Booting   == job.goal = "boot"

Lines(f) == DOMAIN f \subseteq Path /\ \A p \in DOMAIN f : f[p] \in Triple

\* A job is the start's, a visit's, a registration's or none.
JobType ==
  /\ job = [goal |-> job.goal, todo |-> job.todo, path |-> job.path, new |-> job.new]
  /\ job.todo \subseteq Path /\ job.new \in Triple
  /\ pc \in Reading \cup {"size", "sum"} => job.path \in Path
  /\ Booting => pc \in {"boot"} \cup Reading
  /\ pc = "boot" => Booting
  /\ job.goal = "check" => pc \in Visiting

Types ==
  /\ file \in [Path -> File]
  /\ DOMAIN apps \subseteq Path
  /\ apps = [p \in DOMAIN apps |-> apps[p]]
  /\ \A p \in DOMAIN apps : apps[p] \in Entry
  /\ Lines(disk.lines)
  /\ JobType

LEMMA FileType == ASSUME Types, NEW p \in Path
                  PROVE  /\ file[p] \in Triple /\ Gone \in Triple
                         /\ file[p].mtime \in Int /\ file[p].size \in Int /\ file[p].sum \in Int
BY DEF Types, File, Gone, Triple

\* An entry changes in what was seen or in what is saved.
LEMMA EntryChange ==
  ASSUME Types, NEW p \in Path, NEW x \in Int, NEW s \in Triple
  PROVE  /\ \A q \in DOMAIN apps :
              /\ apps[q].saved \in Triple /\ apps[q].seen \in Triple
              /\ q # p => /\ [apps EXCEPT ![p].seen.mtime = x][q] = apps[q]
                          /\ [apps EXCEPT ![p].seen.size = x][q] = apps[q]
                          /\ [apps EXCEPT ![p].seen.sum = x][q] = apps[q]
                          /\ [apps EXCEPT ![p].saved = s][q] = apps[q]
         /\ p \in DOMAIN apps =>
              /\ [apps EXCEPT ![p].seen.mtime = x][p] = [apps[p] EXCEPT !.seen.mtime = x]
              /\ [apps EXCEPT ![p].seen.size = x][p] = [apps[p] EXCEPT !.seen.size = x]
              /\ [apps EXCEPT ![p].seen.sum = x][p] = [apps[p] EXCEPT !.seen.sum = x]
              /\ [apps EXCEPT ![p].saved = s][p] = [apps[p] EXCEPT !.saved = s]
<1>1. \A q \in DOMAIN apps : apps[q].saved \in Triple /\ apps[q].seen \in Triple
  BY DEF Types, Entry
<1>2. \A q \in DOMAIN apps : q # p =>
        /\ [apps EXCEPT ![p].seen.mtime = x][q] = apps[q]
        /\ [apps EXCEPT ![p].seen.size = x][q] = apps[q]
        /\ [apps EXCEPT ![p].seen.sum = x][q] = apps[q]
        /\ [apps EXCEPT ![p].saved = s][q] = apps[q]
  OBVIOUS
<1>3. p \in DOMAIN apps =>
        /\ [apps EXCEPT ![p].seen.mtime = x][p] = [apps[p] EXCEPT !.seen.mtime = x]
        /\ [apps EXCEPT ![p].seen.size = x][p] = [apps[p] EXCEPT !.seen.size = x]
        /\ [apps EXCEPT ![p].seen.sum = x][p] = [apps[p] EXCEPT !.seen.sum = x]
        /\ [apps EXCEPT ![p].saved = s][p] = [apps[p] EXCEPT !.saved = s]
  OBVIOUS
<1> QED BY <1>1, <1>2, <1>3

LEMMA EntryFields ==
  ASSUME NEW e \in Entry, NEW x \in Int
  PROVE  /\ [e EXCEPT !.seen.mtime = x] \in Entry /\ [e EXCEPT !.seen.mtime = x].saved = e.saved
         /\ [e EXCEPT !.seen.mtime = x].seen.mtime = x
         /\ [e EXCEPT !.seen.mtime = x].seen.size = e.seen.size
         /\ [e EXCEPT !.seen.size = x] \in Entry /\ [e EXCEPT !.seen.size = x].saved = e.saved
         /\ [e EXCEPT !.seen.size = x].seen.size = x
         /\ [e EXCEPT !.seen.size = x].seen.mtime = e.seen.mtime
         /\ [e EXCEPT !.seen.sum = x] \in Entry /\ [e EXCEPT !.seen.sum = x].saved = e.saved
         /\ [e EXCEPT !.seen.sum = x].seen.mtime = e.seen.mtime
         /\ [e EXCEPT !.seen.sum = x].seen.size = e.seen.size
<1> USE DEF Entry, Triple
<1>1. /\ [e EXCEPT !.seen.mtime = x] \in Entry /\ [e EXCEPT !.seen.mtime = x].saved = e.saved
      /\ [e EXCEPT !.seen.mtime = x].seen.mtime = x
      /\ [e EXCEPT !.seen.mtime = x].seen.size = e.seen.size
  OBVIOUS
<1>2. /\ [e EXCEPT !.seen.size = x] \in Entry /\ [e EXCEPT !.seen.size = x].saved = e.saved
      /\ [e EXCEPT !.seen.size = x].seen.size = x
      /\ [e EXCEPT !.seen.size = x].seen.mtime = e.seen.mtime
  OBVIOUS
<1>3. /\ [e EXCEPT !.seen.sum = x] \in Entry /\ [e EXCEPT !.seen.sum = x].saved = e.saved
      /\ [e EXCEPT !.seen.sum = x].seen.mtime = e.seen.mtime
      /\ [e EXCEPT !.seen.sum = x].seen.size = e.seen.size
  OBVIOUS
<1> QED BY <1>1, <1>2, <1>3

LEMMA EntrySaved ==
  ASSUME NEW e \in Entry, NEW s \in Triple
  PROVE  /\ [e EXCEPT !.saved = s] \in Entry /\ [e EXCEPT !.saved = s].saved = s
         /\ [e EXCEPT !.saved = s].seen = e.seen
BY DEF Entry, Triple

IsTable(t) == DOMAIN t \subseteq Path /\ t = [p \in DOMAIN t |-> t[p]] /\ \A p \in DOMAIN t : t[p] \in Entry

\* A visit changes what was seen of one executable, and nothing that is saved.
LEMMA Seen ==
  ASSUME Types, (\E p \in Path : VisitMtime(p)) \/ VisitSize \/ VisitSum
  PROVE  /\ IsTable(apps') /\ DOMAIN apps' = DOMAIN apps /\ job'.path \in Path
         /\ \A q \in DOMAIN apps : apps'[q].saved = apps[q].saved
         /\ \A q \in DOMAIN apps : q # job'.path => apps'[q] = apps[q]
<1> USE DEF IsTable
<1>0. \A q \in DOMAIN apps : apps[q] \in Entry /\ q \in Path
  BY DEF Types
<1>1. ASSUME NEW p \in Path, VisitMtime(p)
      PROVE  /\ IsTable(apps') /\ DOMAIN apps' = DOMAIN apps /\ job'.path \in Path
             /\ \A q \in DOMAIN apps : apps'[q].saved = apps[q].saved
             /\ \A q \in DOMAIN apps : q # job'.path => apps'[q] = apps[q]
  <2>1. apps' = [apps EXCEPT ![p].seen.mtime = file[p].mtime]
    BY <1>1 DEF VisitMtime
  <2>2. job'.path = p
    BY <1>1 DEF VisitMtime, Types, JobType
  <2>3. file[p].mtime \in Int
    BY FileType
  <2>4. DOMAIN apps' = DOMAIN apps /\ apps' = [q \in DOMAIN apps |-> apps'[q]]
    BY <2>1
  <2>5. \A q \in DOMAIN apps : q # p => apps'[q] = apps[q]
    BY <2>1
  <2>6. p \in DOMAIN apps => apps'[p] = [apps[p] EXCEPT !.seen.mtime = file[p].mtime]
    BY <2>1
  <2>7. p \in DOMAIN apps => apps'[p] \in Entry /\ apps'[p].saved = apps[p].saved
    <3>1. \A e \in Entry : LET f == [e EXCEPT !.seen.mtime = file[p].mtime]
                            IN  f \in Entry /\ f.saved = e.saved
      BY <2>3, EntryFields
    <3> QED BY <1>0, <2>6, <3>1
  <2> QED BY <1>0, <2>2, <2>4, <2>5, <2>7
<1>2. CASE VisitSize \/ VisitSum
  <2> DEFINE p == job.path
  <2>0. p \in Path /\ job' = job
    BY <1>2 DEF VisitSize, VisitSum, ReadSum, Types, JobType
  <2>1. \/ apps' = [apps EXCEPT ![p].seen.size = file[p].size]
        \/ apps' = [apps EXCEPT ![p].seen.sum = file[p].sum]
    BY <1>2 DEF VisitSize, VisitSum, ReadSum
  <2>2. file[p].size \in Int /\ file[p].sum \in Int
    BY <2>0, FileType
  <2> HIDE DEF p
  <2>3. DOMAIN apps' = DOMAIN apps /\ apps' = [q \in DOMAIN apps |-> apps'[q]]
    BY <2>1
  <2>4. \A q \in DOMAIN apps : q # p => apps'[q] = apps[q]
    BY <2>1
  <2>5. p \in DOMAIN apps => \/ apps'[p] = [apps[p] EXCEPT !.seen.size = file[p].size]
                             \/ apps'[p] = [apps[p] EXCEPT !.seen.sum = file[p].sum]
    BY <2>1
  <2>6. p \in DOMAIN apps => apps'[p] \in Entry /\ apps'[p].saved = apps[p].saved
    <3>1. \A e \in Entry : /\ LET f == [e EXCEPT !.seen.size = file[p].size]
                               IN  f \in Entry /\ f.saved = e.saved
                            /\ LET g == [e EXCEPT !.seen.sum = file[p].sum]
                               IN  g \in Entry /\ g.saved = e.saved
      BY <2>2, EntryFields
    <3> QED BY <1>0, <2>5, <3>1
  <2>7. job'.path = p
    BY <2>0 DEF p
  <2> QED BY <1>0, <2>0, <2>3, <2>4, <2>6, <2>7
<1> QED BY <1>1, <1>2

\* What a registration or the start enters.
LEMMA Entered ==
  ASSUME Types, Enter, Booting => job.path \in DOMAIN disk.lines
  PROVE  /\ IsTable(apps') /\ DOMAIN apps' = DOMAIN apps \cup {job.path} /\ job.path \in Path
         /\ \A q \in DOMAIN apps : q # job.path => apps'[q] = apps[q]
         /\ apps'[job.path].saved = IF Booting THEN disk.lines[job.path]
                                    ELSE [job.new EXCEPT !.sum = file[job.path].sum]
         /\ apps'[job.path].seen = [job.new EXCEPT !.sum = file[job.path].sum]
         /\ apps'[job.path].seen.mtime = job.new.mtime
         /\ apps'[job.path].seen.size = job.new.size
<1> DEFINE p == job.path
           seen == [job.new EXCEPT !.sum = file[p].sum]
<1>1. p \in Path /\ job.new \in Triple
  BY DEF Types, JobType, Enter, Reading
<1>2. seen \in Triple /\ seen.mtime = job.new.mtime /\ seen.size = job.new.size
  BY <1>1, FileType DEF Triple
<1>3. Booting => disk.lines[p] \in Triple
  BY DEF Types, Lines
<1>4. apps' = [x \in DOMAIN apps \cup {p} |->
                 IF x # p THEN apps[x]
                 ELSE [saved |-> IF Booting THEN disk.lines[p] ELSE seen, seen |-> seen]]
  BY DEF Enter, Booting
<1> HIDE DEF seen
<1>5. apps'[p] = [saved |-> IF Booting THEN disk.lines[p] ELSE seen, seen |-> seen]
  BY <1>4
<1>6. apps'[p] \in Entry
  BY <1>2, <1>3, <1>5 DEF Entry
<1>7. DOMAIN apps' = DOMAIN apps \cup {p} /\ \A q \in DOMAIN apps : q # p => apps'[q] = apps[q]
  BY <1>4
<1>8. IsTable(apps')
  BY <1>1, <1>4, <1>6, <1>7 DEF IsTable, Types
<1>9. /\ apps'[p].saved = IF Booting THEN disk.lines[p] ELSE seen
      /\ apps'[p].seen = seen
      /\ apps'[p].seen.mtime = job.new.mtime /\ apps'[p].seen.size = job.new.size
  BY <1>2, <1>5
<1> QED BY <1>1, <1>7, <1>8, <1>9 DEF seen

\* COMMIT and REMOVE.
LEMMA Recorded ==
  ASSUME Types, NEW p \in Path, Commit(p)
  PROVE  /\ IsTable(apps') /\ DOMAIN apps' = DOMAIN apps
         /\ \A q \in DOMAIN apps : q # p => apps'[q] = apps[q]
         /\ apps'[p].saved = apps[p].seen /\ apps'[p].seen = apps[p].seen
<1>1. p \in DOMAIN apps /\ apps' = [apps EXCEPT ![p].saved = apps[p].seen] /\ apps[p] \in Entry
  BY DEF Commit, Record, Types
<1>2. apps[p].seen \in Triple
  BY <1>1 DEF Entry
<1>3. apps'[p] = [apps[p] EXCEPT !.saved = apps[p].seen]
  BY <1>1
<1>4. apps'[p] \in Entry /\ apps'[p].saved = apps[p].seen /\ apps'[p].seen = apps[p].seen
  BY <1>1, <1>2, <1>3, EntrySaved
<1>5. DOMAIN apps' = DOMAIN apps /\ \A q \in DOMAIN apps : q # p => apps'[q] = apps[q]
  BY <1>1
<1>6. apps' = [q \in DOMAIN apps |-> apps'[q]]
  BY <1>1
<1>7. IsTable(apps')
  BY <1>4, <1>5, <1>6 DEF IsTable, Types
<1> QED BY <1>4, <1>5, <1>7

LEMMA Removed ==
  ASSUME Types, NEW p \in Path, Remove(p)
  PROVE  /\ IsTable(apps') /\ DOMAIN apps' = DOMAIN apps \ {p}
         /\ \A q \in DOMAIN apps : q # p => apps'[q] = apps[q]
<1>1. apps' = [q \in DOMAIN apps \ {p} |-> apps[q]]
  BY DEF Remove, Without, Restrict
<1>2. DOMAIN apps' = DOMAIN apps \ {p} /\ \A q \in DOMAIN apps : q # p => apps'[q] = apps[q]
  BY <1>1
<1>3. \A q \in DOMAIN apps' : apps'[q] \in Entry /\ q \in Path
  BY <1>1 DEF Types
<1>4. apps' = [q \in DOMAIN apps' |-> apps'[q]]
  BY <1>1
<1> QED BY <1>2, <1>3, <1>4 DEF IsTable

-----------------------------------------------------------------------------
(* The file.                                                               *)

\* What was last written or read is in the file, or in the backup while the
\* file is written anew.
Kept ==
  /\ pc \notin {"open", "close", "down"} => disk.exists /\ disk.lines = written
  /\ pc \in {"open", "close"} => old.exists /\ old.lines = written
  /\ pc = "down" => \/ disk.exists /\ disk.lines = written
                    \/ old.exists /\ old.lines = written

\* The file has the entries, and the start enters what the file has.
Followed ==
  /\ pc \notin Writing =>
       \A p \in DOMAIN apps : p \in DOMAIN disk.lines /\ disk.lines[p] = apps[p].saved
  /\ pc = "down" => DOMAIN apps = {}
  /\ Booting => job.todo \subseteq DOMAIN disk.lines
  /\ Booting /\ pc \in Reading => job.path \in DOMAIN disk.lines

SaveInv == Types /\ Kept /\ Followed

LEMMA NoJobType == NoJob.new \in Triple /\ NoJob.todo = {} /\ NoJob.goal = "none"
BY DEF NoJob, Gone, Triple

LEMMA SaveInit == Init => SaveInv
<1> SUFFICES ASSUME Init PROVE SaveInv
  OBVIOUS
<1>1. file \in [Path -> File]
  BY DEF Init, File
<1>2. apps = [p \in {} |-> Gone] /\ pc = "down" /\ job = NoJob /\ disk = Text([p \in {} |-> Gone])
      /\ disk.lines = [p \in {} |-> Gone] /\ disk.exists /\ written = disk.lines
  BY DEF Init, Empty, Text
<1>3. JobType
  BY <1>2, NoJobType DEF JobType, NoJob, Reading, Booting
<1>4. Types
  BY <1>1, <1>2, <1>3 DEF Types, Lines
<1>5. Kept /\ Followed
  BY <1>2, NoJobType DEF Kept, Followed, Booting, Writing
<1> QED BY <1>4, <1>5 DEF SaveInv

\* The steps that change neither the table nor the files.
LEMMA OnlyJob ==
  ASSUME SaveInv, UNCHANGED <<file, apps, disk, old, written>>, JobType',
         pc \notin Writing \cup {"down"}, pc' \notin Writing \cup {"down"},
         Booting' => Booting /\ job'.todo \subseteq job.todo
                     /\ (pc' \in Reading => job'.path \in DOMAIN disk.lines)
  PROVE  SaveInv'
<1>1. Types'
  BY DEF SaveInv, Types, Lines
<1>2. Kept'
  BY DEF SaveInv, Kept, Writing
<1>3. Followed'
  BY DEF SaveInv, Followed, Writing
<1> QED BY <1>1, <1>2, <1>3 DEF SaveInv

LEMMA SaveStep == SaveInv /\ [Next]_vars => SaveInv'
<1> SUFFICES ASSUME SaveInv, [Next]_vars PROVE SaveInv'
  OBVIOUS
<1>0. Types /\ JobType /\ Kept /\ Followed
  BY DEF SaveInv, Types
<1> USE DEF table, files
<1>1. ASSUME UNCHANGED <<apps, pc, job, disk, old, written>>, file' \in [Path -> File] PROVE SaveInv'
  BY <1>1 DEF SaveInv, Types, JobType, Kept, Followed, Booting, Lines
<1>2. CASE Tick \/ (\E p \in Path, v \in File : Change(p, v)) \/ UNCHANGED vars
  <2>1. UNCHANGED <<apps, pc, job, disk, old, written>> /\ file' \in [Path -> File]
    BY <1>0, <1>2 DEF Tick, Change, vars, Types
  <2> QED BY <1>1, <2>1
<1>3. CASE Die
  <2>1. /\ apps' = [p \in {} |-> Gone] /\ pc' = "down" /\ job' = NoJob
        /\ UNCHANGED <<file, disk, old, written>> /\ pc # "down"
    BY <1>3 DEF Die, Empty
  <2>2. JobType'
    BY <2>1, NoJobType DEF JobType, NoJob, Reading, Booting
  <2>3. Types'
    BY <1>0, <2>1, <2>2 DEF Types, Lines
  <2>4. Kept'
    BY <1>0, <2>1 DEF Kept
  <2>5. Followed'
    BY <2>1, NoJobType DEF Followed, Booting, Writing
  <2> QED BY <2>3, <2>4, <2>5 DEF SaveInv
<1>4. CASE Boot
  <2>1. CASE Start
    <3>1. /\ pc = "down" /\ pc' = "boot" /\ disk.exists /\ written' = disk.lines
          /\ job' = [goal |-> "boot", todo |-> DOMAIN disk.lines, path |-> None, new |-> Gone]
          /\ UNCHANGED <<file, apps, disk, old>>
      BY <2>1 DEF Start, NoJob
    <3>2. JobType'
      BY <1>0, <3>1, NoJobType DEF JobType, NoJob, Booting, Reading, Types, Lines
    <3>3. Types'
      BY <1>0, <3>1, <3>2 DEF Types, Lines
    <3>4. Kept'
      BY <3>1 DEF Kept
    <3>5. Followed'
      BY <1>0, <3>1 DEF Followed, Booting, Reading, Writing
    <3> QED BY <3>3, <3>4, <3>5 DEF SaveInv
  <2>2. ASSUME NEW p \in Path, BootOpen(p) PROVE SaveInv'
    <3>1. /\ pc = "boot" /\ pc' = "mtime" /\ p \in job.todo
          /\ job' = [goal |-> job.goal, todo |-> job.todo \ {p}, path |-> p, new |-> job.new]
          /\ UNCHANGED <<file, apps, disk, old, written>>
      BY <1>0, <2>2 DEF BootOpen, Open, JobType
    <3>2. JobType'
      BY <1>0, <3>1 DEF JobType, Reading, Booting, Visiting
    <3>3. Booting' => Booting /\ job'.todo \subseteq job.todo /\ job'.path \in DOMAIN disk.lines
      BY <1>0, <3>1 DEF Booting, Followed
    <3> QED BY <3>1, <3>2, <3>3, OnlyJob DEF Writing
  <2>3. ASSUME NEW p \in Path, BootSkip(p) PROVE SaveInv'
    <3>1. /\ pc = "boot" /\ pc' = pc
          /\ job' = [goal |-> job.goal, todo |-> job.todo \ {p}, path |-> job.path, new |-> job.new]
          /\ UNCHANGED <<file, apps, disk, old, written>>
      BY <1>0, <2>3 DEF BootSkip, JobType
    <3>2. JobType'
      BY <1>0, <3>1 DEF JobType, Reading, Booting, Visiting
    <3>3. Booting' => Booting /\ job'.todo \subseteq job.todo
      BY <3>1 DEF Booting
    <3> QED BY <3>1, <3>2, <3>3, OnlyJob DEF Writing, Reading
  <2>4. CASE Started
    <3>1. pc = "boot" /\ pc' = "idle" /\ job' = NoJob /\ UNCHANGED <<file, apps, disk, old, written>>
      BY <2>4 DEF Started
    <3>2. JobType'
      BY <3>1, NoJobType DEF JobType, NoJob, Reading, Booting
    <3> QED BY <3>1, <3>2, NoJobType, OnlyJob DEF Writing, Booting
  <2> QED BY <1>4, <2>1, <2>2, <2>3, <2>4 DEF Boot
<1>5. CASE Visit
  <2>1. CASE (\E p \in Path : VisitMtime(p)) \/ VisitSize \/ VisitSum
    <3>1. /\ pc \in Visiting /\ pc' \in Visiting /\ UNCHANGED <<file, disk, old, written>>
          /\ job'.goal = job.goal
      BY <1>0, <2>1 DEF VisitMtime, VisitSize, VisitSum, ReadSum, Visiting, JobType
    <3>2. JobType'
      <4>1. CASE \E p \in Path : VisitMtime(p)
        <5>1. PICK p \in Path : VisitMtime(p)
          BY <4>1
        <5>2. job' = [goal |-> job.goal, todo |-> job.todo \ {p}, path |-> p, new |-> job.new]
          BY <1>0, <5>1 DEF VisitMtime, JobType
        <5> QED BY <1>0, <3>1, <5>2 DEF JobType, Booting, Reading, Visiting
      <4>2. CASE VisitSize \/ VisitSum
        <5>1. UNCHANGED job /\ pc \in {"size", "sum"}
          BY <4>2 DEF VisitSize, VisitSum, ReadSum
        <5> QED BY <1>0, <3>1, <5>1 DEF JobType, Booting, Reading, Visiting
      <4> QED BY <2>1, <4>1, <4>2
    <3>3. IsTable(apps') /\ DOMAIN apps' = DOMAIN apps /\ \A q \in DOMAIN apps : apps'[q].saved = apps[q].saved
      BY <1>0, <2>1, Seen
    <3>4. Types'
      BY <1>0, <3>1, <3>2, <3>3 DEF Types, Lines, IsTable
    <3>5. Kept'
      BY <1>0, <3>1 DEF Kept, Visiting
    <3>6. Followed'
      BY <1>0, <3>1, <3>3 DEF Followed, Visiting, Writing, Reading, Booting, JobType
    <3> QED BY <3>4, <3>5, <3>6 DEF SaveInv
  <2>2. CASE VisitEnd
    <3>1. pc = "visit" /\ pc' = "idle" /\ job' = NoJob /\ UNCHANGED <<file, apps, disk, old, written>>
      BY <2>2 DEF VisitEnd
    <3>2. JobType'
      BY <3>1, NoJobType DEF JobType, NoJob, Reading, Booting
    <3> QED BY <3>1, <3>2, NoJobType, OnlyJob DEF Writing, Booting
  <2> QED BY <1>5, <2>1, <2>2 DEF Visit
<1>6. CASE Register
  <2>1. ASSUME NEW p \in Path, AddCommited(p) PROVE SaveInv'
    <3>1. /\ pc = "idle" /\ pc' = "mtime"
          /\ job' = [goal |-> "add", todo |-> {}, path |-> p, new |-> Gone]
          /\ UNCHANGED <<file, apps, disk, old, written>>
      BY <2>1 DEF AddCommited, Open, NoJob
    <3>2. JobType'
      BY <3>1, NoJobType, FileType, <1>0 DEF JobType, Reading, Booting
    <3> QED BY <3>1, <3>2, OnlyJob DEF Writing, Booting
  <2>2. CASE ReadMtime \/ ReadSize
    <3>1. /\ pc \in Reading /\ pc' \in Reading /\ UNCHANGED <<file, apps, disk, old, written>>
          /\ \/ job' = [goal |-> job.goal, todo |-> job.todo, path |-> job.path,
                        new |-> [job.new EXCEPT !.mtime = file[job.path].mtime]]
             \/ job' = [goal |-> job.goal, todo |-> job.todo, path |-> job.path,
                        new |-> [job.new EXCEPT !.size = file[job.path].size]]
      BY <1>0, <2>2 DEF ReadMtime, ReadSize, JobType, Reading
    <3>2. job.path \in Path /\ job.new \in Triple /\ file[job.path].mtime \in Int /\ file[job.path].size \in Int
      BY <1>0, <3>1, FileType DEF JobType
    <3>3. JobType'
      <4>1. job'.new \in Triple
        BY <3>1, <3>2 DEF Triple
      <4> QED BY <1>0, <3>1, <4>1 DEF JobType, Booting, Reading, Visiting
    <3>4. Booting' => Booting /\ job'.todo \subseteq job.todo /\ job'.path \in DOMAIN disk.lines
      BY <1>0, <3>1 DEF Booting, Followed
    <3> QED BY <3>1, <3>3, <3>4, OnlyJob DEF Writing, Reading
  <2>3. CASE Enter
    <3>1. Booting => job.path \in DOMAIN disk.lines
      BY <1>0, <2>3 DEF Followed, Enter, Reading
    <3>2. /\ IsTable(apps') /\ DOMAIN apps' = DOMAIN apps \cup {job.path} /\ job.path \in Path
          /\ \A q \in DOMAIN apps : q # job.path => apps'[q] = apps[q]
          /\ Booting => apps'[job.path].saved = disk.lines[job.path]
      BY <1>0, <2>3, <3>1, Entered
    <3>3. /\ pc = "newsum" /\ UNCHANGED <<file, disk, old, written>>
          /\ Booting => pc' = "boot" /\ job' = [goal |-> job.goal, todo |-> job.todo, path |-> job.path, new |-> Gone]
          /\ ~Booting => pc' = "rename" /\ job' = NoJob
      BY <1>0, <2>3 DEF Enter, Booting, JobType
    <3>4. JobType'
      BY <1>0, <3>2, <3>3, NoJobType, FileType DEF JobType, Booting, Reading, Visiting, NoJob
    <3>5. Types'
      BY <1>0, <3>2, <3>3, <3>4 DEF Types, Lines, IsTable
    <3>6. Kept'
      BY <1>0, <3>3 DEF Kept
    <3>7. Followed'
      <4>1. CASE Booting
        BY <1>0, <3>1, <3>2, <3>3, <4>1 DEF Followed, Writing, Booting, Reading
      <4>2. CASE ~Booting
        BY <3>3, <4>2, NoJobType DEF Followed, Writing, Booting
      <4> QED BY <4>1, <4>2
    <3> QED BY <3>5, <3>6, <3>7 DEF SaveInv
  <2> QED BY <1>6, <2>1, <2>2, <2>3 DEF Register
<1>7. CASE Write
  <2>1. /\ pc \in Writing /\ UNCHANGED <<file, apps, job>> /\ pc' \in Writing \cup {"idle"}
    BY <1>7 DEF Write, Rename, OpenFile, Close, Writing
  <2>2. JobType'
    BY <1>0, <2>1 DEF JobType, Booting, Writing, Reading, Visiting
  <2>3. \A p \in DOMAIN apps : apps[p].saved \in Triple
    BY <1>0 DEF Types, Entry
  <2>4. CASE Rename
    <3>1. pc = "rename" /\ pc' = "open" /\ old' = disk /\ disk' = [exists |-> FALSE, lines |-> [p \in {} |-> Gone]]
          /\ written' = written
      BY <2>4 DEF Rename, Absent, Empty
    <3>2. Types'
      BY <1>0, <2>1, <2>2, <3>1 DEF Types, Lines
    <3>3. Kept' /\ Followed'
      BY <1>0, <2>1, <3>1 DEF Kept, Followed, Writing, Booting, Reading, JobType
    <3> QED BY <3>2, <3>3 DEF SaveInv
  <2>5. CASE OpenFile
    <3>1. pc = "open" /\ pc' = "close" /\ disk' = [exists |-> TRUE, lines |-> [p \in {} |-> Gone]]
          /\ UNCHANGED <<old, written>>
      BY <2>5 DEF OpenFile, Text, Empty
    <3>2. Types'
      BY <1>0, <2>1, <2>2, <3>1 DEF Types, Lines
    <3>3. Kept' /\ Followed'
      BY <1>0, <2>1, <3>1 DEF Kept, Followed, Writing, Booting, Reading, JobType
    <3> QED BY <3>2, <3>3 DEF SaveInv
  <2>6. CASE Close
    <3>1. pc = "close" /\ pc' = "idle" /\ disk' = [exists |-> TRUE, lines |-> Saved] /\ written' = Saved
          /\ old' = old
      BY <2>6 DEF Close, Text
    <3>2. Saved = [p \in DOMAIN apps |-> apps[p].saved]
      BY DEF Saved
    <3>3. Types'
      BY <1>0, <2>1, <2>2, <2>3, <3>1, <3>2 DEF Types, Lines
    <3>4. Kept' /\ Followed'
      BY <1>0, <2>1, <3>1, <3>2 DEF Kept, Followed, Writing, Booting, Reading, Visiting, JobType
    <3> QED BY <3>3, <3>4 DEF SaveInv
  <2> QED BY <1>7, <2>4, <2>5, <2>6 DEF Write
<1>8. CASE Command
  <2>1. CASE Status \/ Check
    <3>1. /\ pc = "idle" /\ pc' = "visit" /\ UNCHANGED <<file, apps, disk, old, written>>
          /\ \E goal \in {"check", "status"} :
               job' = [goal |-> goal, todo |-> DOMAIN apps, path |-> None, new |-> Gone]
      BY <2>1 DEF Status, Check, BeginCheck, Visits, NoJob
    <3>2. JobType' /\ ~Booting'
      BY <1>0, <3>1, NoJobType DEF JobType, Types, NoJob, Reading, Booting, Visiting
    <3> QED BY <3>1, <3>2, OnlyJob DEF Writing
  <2>2. ASSUME NEW p \in Path, Commit(p) \/ Remove(p) PROVE SaveInv'
    <3>1. /\ pc = "idle" /\ pc' = "rename" /\ UNCHANGED <<file, job, disk, old, written>>
      BY <2>2 DEF Commit, Record, Remove
    <3>2. IsTable(apps')
      BY <1>0, <2>2, Recorded, Removed
    <3>3. JobType' /\ ~Booting
      BY <1>0, <3>1 DEF JobType, Booting, Reading, Visiting
    <3>4. Types'
      BY <1>0, <3>1, <3>2, <3>3 DEF Types, Lines, IsTable
    <3>5. Kept' /\ Followed'
      BY <1>0, <3>1, <3>3 DEF Kept, Followed, Writing, Booting
    <3> QED BY <3>4, <3>5 DEF SaveInv
  <2> QED BY <1>8, <2>1, <2>2 DEF Command
<1> QED BY <1>2, <1>3, <1>4, <1>5, <1>6, <1>7, <1>8 DEF Next, Daemon

LEMMA SaveInvariant == Spec => []SaveInv
BY SaveInit, SaveStep, PTL DEF Spec

\* Between commands the file holds the table, whichever command was the last
\* and whatever was missing at the start.
THEOREM FileFollows == Spec => []FileFollowsTable
<1>1. SaveInv => FileFollowsTable
  BY DEF SaveInv, Kept, Followed, FileFollowsTable, Saved, Writing
<1> QED BY <1>1, SaveInvariant, PTL

\* The daemon's death at any step of fwapps_write leaves a whole copy.
THEOREM OneCopy == Spec => []OneCopyLeft
<1>1. SaveInv => OneCopyLeft
  BY DEF SaveInv, Kept, OneCopyLeft
<1> QED BY <1>1, SaveInvariant, PTL
-----------------------------------------------------------------------------
(* What is recorded.                                                       *)

IsFile(t, p) == t.mtime = file[p].mtime /\ t.size = file[p].size

\* What was seen is the executable's, unless it is being looked at.
SeenHolds ==
  \A p \in fresh \cap DOMAIN apps :
    /\ ~(pc \in Reading /\ job.path = p) => apps[p].seen.mtime = file[p].mtime
    /\ ~(pc \in Reading \cup {"size"} /\ job.path = p) => apps[p].seen.size = file[p].size

\* So is the entry about to be made.
NewHolds ==
  pc \in {"newsize", "newsum"} /\ job.path \in fresh =>
    /\ job.new.mtime = file[job.path].mtime
    /\ pc = "newsum" => job.new.size = file[job.path].size

\* What was recorded is the executable's, in the table and in the file.
SavedHolds == \A p \in agreed \cap DOMAIN apps : IsFile(apps[p].saved, p)
LinesHold ==
  pc \notin Writing => \A p \in agreed \cap DOMAIN disk.lines : IsFile(disk.lines[p], p)

RecordInv == SeenHolds /\ NewHolds /\ SavedHolds /\ LinesHold

LEMMA RecordInit == Init => RecordInv
BY DEF Init, RecordInv, SeenHolds, NewHolds, SavedHolds, LinesHold

\* The steps that change nothing but the job.
LEMMA RecordFrame ==
  ASSUME RecordInv, UNCHANGED <<file, apps, disk, fresh, agreed>>,
         pc \notin Reading \cup {"size"}, pc' \notin Reading \cup {"size"},
         pc \in Writing => pc' \in Writing
  PROVE  RecordInv'
<1>1. SeenHolds' /\ NewHolds'
  BY DEF RecordInv, SeenHolds, NewHolds, Reading
<1>2. SavedHolds' /\ LinesHold'
  BY DEF RecordInv, SavedHolds, LinesHold, IsFile
<1> QED BY <1>1, <1>2 DEF RecordInv

\* The first look at an executable that is to be registered.
LEMMA RecordOpen ==
  ASSUME RecordInv, NEW p \in Path, Open(p), pc \in {"idle", "boot"}, job'.path = p
  PROVE  RecordInv'
<1>1. /\ pc' = "mtime" /\ fresh' = fresh \cup {p}
      /\ UNCHANGED <<file, apps, disk, agreed>>
  BY DEF Open, table, files
<1>2. SeenHolds' /\ NewHolds'
  BY <1>1 DEF RecordInv, SeenHolds, NewHolds, Reading
<1>3. SavedHolds' /\ LinesHold'
  BY <1>1 DEF RecordInv, SavedHolds, LinesHold, IsFile, Writing
<1> QED BY <1>2, <1>3 DEF RecordInv

LEMMA RecordStep == SaveInv /\ RecordInv /\ [Next]_vars => RecordInv'
<1> SUFFICES ASSUME SaveInv, RecordInv, [Next]_vars PROVE RecordInv'
  OBVIOUS
<1>0. Types /\ JobType /\ Kept /\ Followed /\ SeenHolds /\ NewHolds /\ SavedHolds /\ LinesHold
  BY DEF SaveInv, Types, RecordInv
<1> USE DEF table, files
<1>1. CASE Tick \/ UNCHANGED vars
  BY <1>0, <1>1 DEF Tick, vars, RecordInv, SeenHolds, NewHolds, SavedHolds, LinesHold, IsFile
<1>2. ASSUME NEW p \in Path, NEW v \in File, Change(p, v) PROVE RecordInv'
  <2>1. /\ \A q \in Path \ {p} : file'[q] = file[q]
        /\ fresh' = fresh \ {p} /\ agreed' = agreed \ {p} /\ UNCHANGED <<apps, pc, job, disk>>
    BY <1>0, <1>2 DEF Change, Types
  <2>2. SeenHolds'
    BY <1>0, <2>1 DEF SeenHolds, Types
  <2>3. NewHolds'
    BY <1>0, <2>1 DEF NewHolds, JobType, Reading
  <2>4. SavedHolds' /\ LinesHold'
    BY <1>0, <2>1 DEF SavedHolds, LinesHold, IsFile, Types, Lines
  <2> QED BY <2>2, <2>3, <2>4 DEF RecordInv
<1>3. CASE Die
  <2>1. /\ DOMAIN apps' = {} /\ pc' = "down" /\ UNCHANGED <<file, disk>>
        /\ pc \in Writing => agreed' = {}
        /\ pc \notin Writing => agreed' = agreed
    BY <1>3 DEF Die, Empty, Writing
  <2>2. SeenHolds' /\ NewHolds' /\ SavedHolds'
    BY <2>1 DEF SeenHolds, NewHolds, SavedHolds
  <2>3. LinesHold'
    BY <1>0, <2>1 DEF LinesHold, IsFile, Writing
  <2> QED BY <2>2, <2>3 DEF RecordInv
<1>4. CASE Boot
  <2>1. CASE Start \/ Started \/ \E p \in Path : BootSkip(p)
    <3>1. /\ pc \in {"down", "boot"} /\ pc' \in {"boot", "idle"}
          /\ UNCHANGED <<file, apps, disk, fresh, agreed>>
      BY <2>1 DEF Start, Started, BootSkip
    <3> QED BY <3>1, RecordFrame DEF Reading, Writing
  <2>2. ASSUME NEW p \in Path, BootOpen(p) PROVE RecordInv'
    <3>1. pc = "boot" /\ Open(p) /\ job'.path = p
      BY <1>0, <2>2 DEF BootOpen, JobType
    <3> QED BY <3>1, RecordOpen
  <2> QED BY <1>4, <2>1, <2>2 DEF Boot
<1>5. CASE Visit
  <2>1. ASSUME NEW p \in Path, VisitMtime(p) PROVE RecordInv'
    <3>1. /\ pc = "visit" /\ pc' = "size" /\ job'.path = p /\ fresh' = fresh \cup {p}
          /\ UNCHANGED <<file, disk, agreed>>
          /\ apps' = [apps EXCEPT ![p].seen.mtime = file[p].mtime]
      BY <1>0, <2>1 DEF VisitMtime, JobType
    <3>2. /\ DOMAIN apps' = DOMAIN apps /\ \A q \in DOMAIN apps : apps'[q].saved = apps[q].saved
          /\ \A q \in DOMAIN apps : q # p => apps'[q] = apps[q]
      BY <1>0, <2>1, <3>1, Seen
    <3>3. p \in DOMAIN apps => apps'[p].seen.mtime = file[p].mtime
      <4>1. p \in DOMAIN apps => apps'[p] = [apps[p] EXCEPT !.seen.mtime = file[p].mtime] /\ apps[p] \in Entry
        BY <1>0, <3>1 DEF Types
      <4>2. \A e \in Entry : LET f == [e EXCEPT !.seen.mtime = file[p].mtime]
                              IN  f.seen.mtime = file[p].mtime
        BY <1>0, FileType, EntryFields
      <4> QED BY <4>1, <4>2
    <3>4. SeenHolds'
      BY <1>0, <3>1, <3>2, <3>3 DEF SeenHolds, Reading
    <3>5. SavedHolds' /\ LinesHold' /\ NewHolds'
      BY <1>0, <3>1, <3>2 DEF SavedHolds, LinesHold, NewHolds, IsFile, Writing
    <3> QED BY <3>4, <3>5 DEF RecordInv
  <2>2. CASE VisitSize
    <3> DEFINE p == job.path
    <3>1. /\ pc = "size" /\ pc' \in {"sum", "visit"} /\ UNCHANGED <<file, disk, agreed, fresh, job>>
          /\ apps' = [apps EXCEPT ![p].seen.size = file[p].size] /\ p \in Path
      BY <1>0, <2>2 DEF VisitSize, JobType
    <3>2. /\ DOMAIN apps' = DOMAIN apps /\ \A q \in DOMAIN apps : apps'[q].saved = apps[q].saved
          /\ \A q \in DOMAIN apps : q # p => apps'[q] = apps[q]
      BY <1>0, <2>2, <3>1, Seen
    <3>3. p \in DOMAIN apps => apps'[p].seen.size = file[p].size /\ apps'[p].seen.mtime = apps[p].seen.mtime
      <4>1. p \in DOMAIN apps => apps'[p] = [apps[p] EXCEPT !.seen.size = file[p].size] /\ apps[p] \in Entry
        BY <1>0, <3>1 DEF Types
      <4>2. \A e \in Entry : LET f == [e EXCEPT !.seen.size = file[p].size]
                              IN  f.seen.size = file[p].size /\ f.seen.mtime = e.seen.mtime
        BY <1>0, <3>1, FileType, EntryFields
      <4> QED BY <4>1, <4>2
    <3>4. SeenHolds'
      BY <1>0, <3>1, <3>2, <3>3 DEF SeenHolds, Reading
    <3>5. SavedHolds' /\ LinesHold' /\ NewHolds'
      BY <1>0, <3>1, <3>2 DEF SavedHolds, LinesHold, NewHolds, IsFile, Writing
    <3> QED BY <3>4, <3>5 DEF RecordInv
  <2>3. CASE VisitSum
    <3> DEFINE p == job.path
    <3>1. /\ pc = "sum" /\ pc' = "visit" /\ UNCHANGED <<file, disk, agreed, fresh, job>>
          /\ apps' = [apps EXCEPT ![p].seen.sum = file[p].sum] /\ p \in Path
      BY <1>0, <2>3 DEF VisitSum, ReadSum, JobType
    <3>2. /\ DOMAIN apps' = DOMAIN apps /\ \A q \in DOMAIN apps : apps'[q].saved = apps[q].saved
          /\ \A q \in DOMAIN apps : q # p => apps'[q] = apps[q]
      BY <1>0, <2>3, <3>1, Seen
    <3>3. p \in DOMAIN apps => apps'[p].seen.size = apps[p].seen.size /\ apps'[p].seen.mtime = apps[p].seen.mtime
      <4>1. p \in DOMAIN apps => apps'[p] = [apps[p] EXCEPT !.seen.sum = file[p].sum] /\ apps[p] \in Entry
        BY <1>0, <3>1 DEF Types
      <4>2. \A e \in Entry : LET f == [e EXCEPT !.seen.sum = file[p].sum]
                              IN  f.seen.size = e.seen.size /\ f.seen.mtime = e.seen.mtime
        BY <1>0, <3>1, FileType, EntryFields
      <4> QED BY <4>1, <4>2
    <3>4. SeenHolds'
      BY <1>0, <3>1, <3>2, <3>3 DEF SeenHolds, Reading
    <3>5. SavedHolds' /\ LinesHold' /\ NewHolds'
      BY <1>0, <3>1, <3>2 DEF SavedHolds, LinesHold, NewHolds, IsFile, Writing
    <3> QED BY <3>4, <3>5 DEF RecordInv
  <2>4. CASE VisitEnd
    <3>1. pc = "visit" /\ pc' = "idle" /\ UNCHANGED <<file, apps, disk, fresh, agreed>>
      BY <2>4 DEF VisitEnd
    <3> QED BY <3>1, RecordFrame DEF Reading, Writing
  <2> QED BY <1>5, <2>1, <2>2, <2>3, <2>4 DEF Visit
<1>6. CASE Register
  <2>1. ASSUME NEW p \in Path, AddCommited(p) PROVE RecordInv'
    <3>1. pc = "idle" /\ Open(p) /\ job'.path = p
      BY <1>0, <2>1 DEF AddCommited, NoJob
    <3> QED BY <3>1, RecordOpen
  <2>2. CASE ReadMtime \/ ReadSize
    <3>1. /\ pc \in Reading /\ pc' \in Reading /\ job'.path = job.path
          /\ UNCHANGED <<file, apps, disk, fresh, agreed>>
      BY <1>0, <2>2 DEF ReadMtime, ReadSize, JobType, Reading
    <3>2. SeenHolds'
      BY <1>0, <3>1 DEF SeenHolds
    <3>3. NewHolds'
      <4>1. job.new \in Triple /\ job.new.mtime \in Int
        BY <1>0 DEF JobType, Triple
      <4>2. CASE ReadMtime
        <5>1. pc' = "newsize" /\ job'.new = [job.new EXCEPT !.mtime = file[job.path].mtime]
          BY <1>0, <4>2 DEF ReadMtime, JobType
        <5>2. job'.new.mtime = file[job.path].mtime
          BY <4>1, <5>1 DEF Triple
        <5> QED BY <3>1, <5>1, <5>2 DEF NewHolds
      <4>3. CASE ReadSize
        <5>1. pc = "newsize" /\ pc' = "newsum" /\ job'.new = [job.new EXCEPT !.size = file[job.path].size]
          BY <1>0, <4>3 DEF ReadSize, JobType
        <5>2. job'.new.mtime = job.new.mtime /\ job'.new.size = file[job.path].size
          BY <4>1, <5>1 DEF Triple
        <5> QED BY <1>0, <3>1, <5>1, <5>2 DEF NewHolds
      <4> QED BY <2>2, <4>2, <4>3
    <3>4. SavedHolds' /\ LinesHold'
      BY <1>0, <3>1 DEF SavedHolds, LinesHold, IsFile, Reading, Writing
    <3> QED BY <3>2, <3>3, <3>4 DEF RecordInv
  <2>3. CASE Enter
    <3> DEFINE p == job.path
    <3>1. Booting => p \in DOMAIN disk.lines
      BY <1>0, <2>3 DEF Followed, Enter, Reading
    <3>2. /\ DOMAIN apps' = DOMAIN apps \cup {p}
          /\ \A q \in DOMAIN apps : q # p => apps'[q] = apps[q]
          /\ Booting => apps'[p].saved = disk.lines[p]
          /\ ~Booting => apps'[p].saved = apps'[p].seen
          /\ apps'[p].seen.mtime = job.new.mtime /\ apps'[p].seen.size = job.new.size
      BY <1>0, <2>3, <3>1, Entered
    <3>3. /\ pc = "newsum" /\ UNCHANGED <<file, disk, fresh>>
          /\ Booting => pc' = "boot" /\ agreed' = agreed
          /\ ~Booting => /\ pc' = "rename"
                         /\ agreed' = IF p \in fresh THEN agreed \cup {p} ELSE agreed \ {p}
      BY <2>3 DEF Enter, Booting
    <3> HIDE DEF p
    <3>4. p \in fresh => IsFile(apps'[p].seen, p)
      BY <1>0, <3>2, <3>3 DEF NewHolds, IsFile, p
    <3>5. SeenHolds'
      <4>1. pc' \notin Reading \cup {"size"}
        BY <3>3 DEF Reading
      <4>2. \A q \in DOMAIN apps \cap fresh : q # p => IsFile(apps[q].seen, q)
        BY <1>0, <3>3 DEF SeenHolds, IsFile, p
      <4> QED BY <3>2, <3>3, <3>4, <4>1, <4>2 DEF SeenHolds, IsFile
    <3>6. SavedHolds'
      <4>1. CASE Booting
        <5>1. p \in agreed => IsFile(disk.lines[p], p)
          BY <1>0, <3>1, <3>3, <4>1 DEF LinesHold, Writing, p
        <5> QED BY <1>0, <3>2, <3>3, <4>1, <5>1 DEF SavedHolds, IsFile
      <4>2. CASE ~Booting
        BY <1>0, <3>2, <3>3, <3>4, <4>2 DEF SavedHolds, IsFile
      <4> QED BY <4>1, <4>2
    <3>7. LinesHold' /\ NewHolds'
      BY <1>0, <3>3 DEF LinesHold, NewHolds, Writing, IsFile
    <3> QED BY <3>5, <3>6, <3>7 DEF RecordInv
  <2> QED BY <1>6, <2>1, <2>2, <2>3 DEF Register
<1>7. CASE Write
  <2>1. CASE Rename \/ OpenFile
    <3>1. pc \in Writing /\ pc' \in Writing /\ UNCHANGED <<file, apps, fresh, agreed>>
      BY <2>1 DEF Rename, OpenFile, Writing
    <3> QED BY <1>0, <3>1
            DEF RecordInv, SeenHolds, NewHolds, SavedHolds, LinesHold, IsFile, Writing, Reading
  <2>2. CASE Close
    <3>1. /\ pc = "close" /\ pc' = "idle" /\ UNCHANGED <<file, apps, fresh, agreed>>
          /\ disk'.lines = [p \in DOMAIN apps |-> apps[p].saved]
      BY <2>2 DEF Close, Text, Saved
    <3> QED BY <1>0, <3>1
            DEF RecordInv, SeenHolds, NewHolds, SavedHolds, LinesHold, IsFile, Writing, Reading
  <2> QED BY <1>7, <2>1, <2>2 DEF Write
<1>8. CASE Command
  <2>1. CASE Status \/ Check
    <3>1. pc = "idle" /\ pc' = "visit" /\ UNCHANGED <<file, apps, disk, fresh, agreed>>
      BY <2>1 DEF Status, Check, BeginCheck, Visits
    <3> QED BY <3>1, RecordFrame DEF Reading, Writing
  <2>2. ASSUME NEW p \in Path, Commit(p) PROVE RecordInv'
    <3>1. /\ pc = "idle" /\ pc' = "rename" /\ UNCHANGED <<file, disk, fresh>> /\ p \in DOMAIN apps
          /\ agreed' = IF p \in fresh THEN agreed \cup {p} ELSE agreed \ {p}
      BY <2>2 DEF Commit, Record
    <3>2. /\ DOMAIN apps' = DOMAIN apps /\ \A q \in DOMAIN apps : q # p => apps'[q] = apps[q]
          /\ apps'[p].saved = apps[p].seen /\ apps'[p].seen = apps[p].seen
      BY <1>0, <2>2, Recorded
    <3>3. p \in fresh => IsFile(apps[p].seen, p)
      BY <1>0, <3>1 DEF SeenHolds, IsFile, Reading
    <3>4. SeenHolds' /\ NewHolds' /\ LinesHold'
      BY <1>0, <3>1, <3>2 DEF SeenHolds, NewHolds, LinesHold, Writing, Reading
    <3>5. SavedHolds'
      BY <1>0, <3>1, <3>2, <3>3 DEF SavedHolds, IsFile
    <3> QED BY <3>4, <3>5 DEF RecordInv
  <2>3. ASSUME NEW p \in Path, Remove(p) PROVE RecordInv'
    <3>1. /\ pc = "idle" /\ pc' = "rename" /\ UNCHANGED <<file, disk, fresh>> /\ agreed' = agreed \ {p}
      BY <2>3 DEF Remove
    <3>2. DOMAIN apps' = DOMAIN apps \ {p} /\ \A q \in DOMAIN apps : q # p => apps'[q] = apps[q]
      BY <1>0, <2>3, Removed
    <3>3. SeenHolds' /\ NewHolds' /\ LinesHold'
      BY <1>0, <3>1, <3>2 DEF SeenHolds, NewHolds, LinesHold, Writing, Reading
    <3>4. SavedHolds'
      BY <1>0, <3>1, <3>2 DEF SavedHolds, IsFile
    <3> QED BY <3>3, <3>4 DEF RecordInv
  <2> QED BY <1>8, <2>1, <2>2, <2>3 DEF Command
<1> QED BY <1>1, <1>2, <1>3, <1>4, <1>5, <1>6, <1>7, <1>8 DEF Next, Daemon

\* An executable recorded as it was seen, and unchanged since, does not differ
\* from its entry, also after the daemon's death and start.
THEOREM RecordedStays == Spec => []RecordedIsAsSaved
<1>1. RecordInv => RecordedIsAsSaved
  BY DEF RecordInv, SavedHolds, IsFile, RecordedIsAsSaved, Unlike, Differs
<1> QED BY <1>1, SaveInvariant, RecordInit, RecordStep, PTL DEF Spec

-----------------------------------------------------------------------------
(* What CHECK reports.                                                     *)

\* What a running CHECK has still to decide.
Undecided(p) == job.goal = "check" /\ (p \in job.todo \/ (pc \in {"size", "sum"} /\ p = job.path))

ReportInv ==
  /\ status = "not changed" =>
       \A p \in DOMAIN apps : Unlike(p) => p \in touched \/ Undecided(p)
  /\ job.goal = "check" /\ pc = "size" =>
       \A p \in DOMAIN apps \ touched :
         p = job.path => apps[p].seen.mtime = file[p].mtime

LEMMA ReportFrame ==
  ASSUME SaveInv, ReportInv, UNCHANGED <<file, status, touched>>,
         DOMAIN apps' \subseteq DOMAIN apps \cup touched,
         \A p \in DOMAIN apps' \ touched : apps'[p].saved = apps[p].saved,
         job.goal # "check", job'.goal # "check"
  PROVE  ReportInv'
BY DEF ReportInv, Undecided, Unlike, Differs

LEMMA ReportStep == SaveInv /\ ReportInv /\ [Next]_vars => ReportInv'
<1> SUFFICES ASSUME SaveInv, ReportInv, [Next]_vars PROVE ReportInv'
  OBVIOUS
<1>0. Types /\ JobType
  BY DEF SaveInv, Types
<1> USE DEF table, files
<1>1. CASE Tick \/ UNCHANGED vars
  BY <1>1 DEF Tick, vars, ReportInv, Undecided, Unlike, Differs
<1>2. ASSUME NEW p \in Path, NEW v \in File, Change(p, v) PROVE ReportInv'
  <2>1. /\ \A q \in Path \ {p} : file'[q] = file[q]
        /\ touched' = touched \cup {p} /\ UNCHANGED <<apps, status, pc, job>>
    BY <1>0, <1>2 DEF Change, Types
  <2> QED BY <1>0, <2>1 DEF ReportInv, Undecided, Unlike, Differs, Types
<1>3. CASE Die
  BY <1>3, NoJobType DEF Die, ReportInv
<1>4. CASE Boot
  <2>1. UNCHANGED <<file, apps, status, touched>> /\ pc \in {"down", "boot"}
    BY <1>4 DEF Boot, Start, Started, BootOpen, BootSkip, Open
  <2>2. job.goal # "check"
    BY <1>0, <2>1 DEF JobType, Visiting
  <2>3. job'.goal # "check"
    BY <1>0, <1>4, <2>2, NoJobType DEF Boot, Start, Started, BootOpen, BootSkip, Open, NoJob, JobType
  <2> QED BY <2>1, <2>2, <2>3, ReportFrame
<1>5. CASE Visit
  <2>1. ASSUME NEW p \in Path, VisitMtime(p) PROVE ReportInv'
    <3>1. /\ pc = "visit" /\ pc' = "size" /\ UNCHANGED <<file, status, touched>>
          /\ job' = [goal |-> job.goal, todo |-> job.todo \ {p}, path |-> p, new |-> job.new]
          /\ apps' = [apps EXCEPT ![p].seen.mtime = file[p].mtime]
      BY <1>0, <2>1 DEF VisitMtime, JobType
    <3>2. DOMAIN apps' = DOMAIN apps /\ \A q \in DOMAIN apps : apps'[q].saved = apps[q].saved
      BY <1>0, <2>1, <3>1, Seen
    <3>3. p \in DOMAIN apps => apps'[p].seen.mtime = file[p].mtime
      <4>1. p \in DOMAIN apps => apps'[p] = [apps[p] EXCEPT !.seen.mtime = file[p].mtime] /\ apps[p] \in Entry
        BY <1>0, <3>1 DEF Types
      <4>2. \A e \in Entry : LET f == [e EXCEPT !.seen.mtime = file[p].mtime]
                              IN  f.seen.mtime = file[p].mtime
        BY <1>0, FileType, EntryFields
      <4> QED BY <4>1, <4>2
    <3>4. \A q \in DOMAIN apps : Undecided(q) => Undecided(q)'
      BY <3>1 DEF Undecided
    <3> QED BY <3>1, <3>2, <3>3, <3>4 DEF ReportInv, Unlike, Differs
  <2>2. CASE VisitSize
    <3> DEFINE p == job.path
    <3>1. /\ pc = "size" /\ UNCHANGED <<file, status, touched, job>> /\ p \in Path
          /\ apps' = [apps EXCEPT ![p].seen.size = file[p].size]
          /\ pc' = IF Differs(p, apps'[p].seen) THEN "sum" ELSE "visit"
      BY <1>0, <2>2 DEF VisitSize, JobType
    <3>2. DOMAIN apps' = DOMAIN apps /\ \A q \in DOMAIN apps : apps'[q].saved = apps[q].saved
      BY <1>0, <2>2, <3>1, Seen
    <3>3. p \in DOMAIN apps => apps'[p].seen.size = file[p].size /\ apps'[p].seen.mtime = apps[p].seen.mtime
      <4>1. p \in DOMAIN apps => apps'[p] = [apps[p] EXCEPT !.seen.size = file[p].size] /\ apps[p] \in Entry
        BY <1>0, <3>1 DEF Types
      <4>2. \A e \in Entry : LET f == [e EXCEPT !.seen.size = file[p].size]
                              IN  f.seen.size = file[p].size /\ f.seen.mtime = e.seen.mtime
        BY <1>0, <3>1, FileType, EntryFields
      <4> QED BY <4>1, <4>2
    <3> HIDE DEF p
    <3>4. job.goal = "check" /\ p \in DOMAIN apps \ touched /\ pc' = "visit" => ~Unlike(p)
      BY <3>1, <3>3 DEF ReportInv, Unlike, Differs, p
    <3>5. \A q \in DOMAIN apps \ touched : Unlike(q) /\ Undecided(q) => Undecided(q)'
      BY <3>1, <3>4 DEF Undecided, p
    <3>6. pc' # "size" /\ \A q \in DOMAIN apps : Unlike(q)' = Unlike(q)
      BY <3>1, <3>2 DEF Unlike, Differs
    <3> QED BY <3>1, <3>2, <3>5, <3>6 DEF ReportInv
  <2>3. CASE VisitSum
    <3>1. /\ pc = "sum" /\ pc' = "visit" /\ UNCHANGED <<file, touched, job>>
          /\ status' = IF job.goal = "check" THEN "changed" ELSE status
      BY <2>3 DEF VisitSum, ReadSum
    <3>2. DOMAIN apps' = DOMAIN apps /\ \A q \in DOMAIN apps : apps'[q].saved = apps[q].saved
      BY <1>0, <2>3, <3>1, Seen
    <3> QED BY <3>1, <3>2 DEF ReportInv, Undecided, Unlike, Differs
  <2>4. CASE VisitEnd
    BY <2>4, NoJobType DEF VisitEnd, ReportInv, Undecided, Unlike, Differs
  <2> QED BY <1>5, <2>1, <2>2, <2>3, <2>4 DEF Visit
<1>6. CASE Register
  <2>0. job.goal # "check" /\ job'.goal # "check" /\ UNCHANGED <<file, status>>
    <3>1. pc \in {"idle"} \cup Reading /\ UNCHANGED <<file, status>>
      BY <1>6 DEF Register, AddCommited, Open, ReadMtime, ReadSize, Enter, Reading
    <3>2. job.goal # "check"
      BY <1>0, <3>1 DEF JobType, Visiting, Reading
    <3>3. job'.goal # "check"
      BY <1>0, <1>6, <3>2, NoJobType
         DEF Register, AddCommited, Open, ReadMtime, ReadSize, Enter, NoJob, JobType
    <3> QED BY <3>1, <3>2, <3>3
  <2>1. CASE (\E p \in Path : AddCommited(p)) \/ ReadMtime \/ ReadSize
    <3>1. UNCHANGED <<apps, touched>>
      BY <2>1 DEF AddCommited, Open, ReadMtime, ReadSize
    <3> QED BY <2>0, <3>1, ReportFrame
  <2>2. CASE Enter
    <3>1. Booting => job.path \in DOMAIN disk.lines
      BY <2>2 DEF SaveInv, Followed, Enter, Reading
    <3>2. /\ DOMAIN apps' = DOMAIN apps \cup {job.path}
          /\ \A q \in DOMAIN apps : q # job.path => apps'[q] = apps[q]
          /\ touched' = touched \cup {job.path}
      BY <1>0, <2>2, <3>1, Entered DEF Enter
    <3> QED BY <2>0, <3>2 DEF ReportInv, Undecided, Unlike, Differs
  <2> QED BY <1>6, <2>1, <2>2 DEF Register
<1>7. CASE Write
  <2>1. UNCHANGED <<file, apps, job, status, touched>> /\ pc \in Writing
    BY <1>7 DEF Write, Rename, OpenFile, Close, Writing
  <2>2. job.goal # "check"
    BY <1>0, <2>1 DEF JobType, Writing, Visiting
  <2> QED BY <2>1, <2>2, ReportFrame
<1>8. CASE Command
  <2>0. pc = "idle" /\ job.goal # "check"
    BY <1>0, <1>8 DEF Command, Status, Check, BeginCheck, Visits, Commit, Record, Remove, JobType, Visiting
  <2>1. CASE Status
    <3>1. UNCHANGED <<file, apps, status, touched>> /\ job'.goal = "status"
      BY <2>1 DEF Status, Visits, NoJob
    <3> QED BY <2>0, <3>1, ReportFrame
  <2>2. CASE Check
    <3>1. /\ UNCHANGED <<file, apps>> /\ pc' = "visit"
          /\ job'.goal = "check" /\ job'.todo = DOMAIN apps
      BY <2>2 DEF Check, BeginCheck, Visits, NoJob
    <3> QED BY <3>1 DEF ReportInv, Undecided
  <2>3. ASSUME NEW p \in Path, Commit(p) \/ Remove(p) PROVE ReportInv'
    <3>1. UNCHANGED <<file, status, job>> /\ touched' = touched \cup {p}
      BY <2>3 DEF Commit, Record, Remove
    <3>2. DOMAIN apps' \subseteq DOMAIN apps /\ \A q \in DOMAIN apps : q # p => apps'[q] = apps[q]
      BY <1>0, <2>3, Recorded, Removed
    <3> QED BY <2>0, <3>1, <3>2 DEF ReportInv, Undecided, Unlike, Differs
  <2> QED BY <1>8, <2>1, <2>2, <2>3 DEF Command
<1> QED BY <1>1, <1>2, <1>3, <1>4, <1>5, <1>6, <1>7, <1>8 DEF Next, Daemon

\* CHECK's answer "not changed" passes over no entry that differed when the
\* visit began.
THEOREM DifferencesReported == Spec => []DifferenceIsReported
<1>1. Init => ReportInv
  BY NoJobType DEF Init, ReportInv
<1>2. SaveInv /\ ReportInv => DifferenceIsReported
  BY DEF SaveInv, Types, JobType, ReportInv, Undecided, DifferenceIsReported, Visiting
<1> QED BY <1>1, <1>2, SaveInvariant, ReportStep, PTL DEF Spec
=============================================================================
