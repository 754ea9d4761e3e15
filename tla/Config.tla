------------------------------- MODULE Config -------------------------------
(***************************************************************************)
(* The settings of fwconfig.c: CONFIG SET checks a value, stores it and    *)
(* rewrites the file, which is renamed to a backup, created empty and      *)
(* filled at fclose; the next start reads it.  Unlike the rules and the    *)
(* applications, the settings can be read from an empty file: each that is *)
(* missing keeps its initial value.                                        *)
(*                                                                         *)
(* Abstractions.  A setting is one of Key; the tests of its setter are the *)
(* set Legal[key].  A command is split at blanks only, so a value may hold *)
(* tabs and line breaks, at which sscanf stops: Assigns says which         *)
(* settings the printed value assigns, and what.  No line assigns an       *)
(* unknown action, with which the daemon does not start.  The file is far  *)
(* shorter than stdio's buffer, so the print reaches it at fclose only.    *)
(***************************************************************************)
EXTENDS Naturals

CONSTANTS
  Key,       \* username, password, host, port, the two default actions
  Value,
  Legal,     \* Legal[k]: the values that the setter of k takes
  Default,   \* Default[k]: the initial value of k
  Shipped,   \* the settings of the file in the package
  Assigns,   \* Assigns[k][v]: what the lines of k, printed as v, assign
  Below      \* Below[k]: settings that are printed below k

\* What lines assign to settings.  A value that is empty, or blank, does not
\* scan and assigns nothing; one with a line break may assign more than k.
Assigned == UNION {[names -> Value] : names \in SUBSET Key}

\* Whether v reads back as it was set.
Plain(k, v) == Assigns[k][v] = [l \in {k} |-> v] \/ (DOMAIN Assigns[k][v] = {} /\ v = Default[k])

ConfigAssumption ==
  /\ Legal \in [Key -> SUBSET Value]
  /\ Default \in [Key -> Value] /\ Shipped \in [Key -> Value]
  /\ Assigns \in [Key -> [Value -> Assigned]] /\ Below \in [Key -> Nat]

VARIABLES
  config,     \* /etc/desktopfw/config
  backup,     \* /etc/desktopfw/config.old
  settings,   \* fw_username ... fw_default_output_action
  step,       \* "down", "idle", or the step of fwconfig_write that comes next
  acked,      \* history: the settings as last answered with OK, and as shipped
  emptied     \* history: the daemon has started from an emptied file

vars == <<config, backup, settings, step, acked, emptied>>

Absent == [exists |-> FALSE, lines |-> << >>]
Empty  == [exists |-> TRUE, lines |-> << >>]

\* The settings one below the other.
Printed(s) == [exists |-> TRUE, lines |-> [k \in Key |-> Assigns[k][s[k]]]]

Naming(file, k) == {l \in DOMAIN file.lines : k \in DOMAIN file.lines[l]}
Lowest(places) == CHOOSE l \in places : \A m \in places : Below[l] <= Below[m]

\* fwconfig_read: what the file assigns, the lowest line last, goes over the
\* initial values.  No text is tested.
Read(file) ==
  [k \in Key |-> IF Naming(file, k) = {} THEN Default[k]
                 ELSE file.lines[Lowest(Naming(file, k))][k]]

Init ==
  /\ config = Printed(Shipped)
  /\ backup = Absent
  /\ settings = Default
  /\ step = "down"
  /\ acked = Shipped
  /\ emptied = FALSE

CanStart == step = "down" /\ config.exists

Start ==
  /\ CanStart
  /\ settings' = Read(config)
  /\ step' = "idle"
  /\ emptied' = (emptied \/ config = Empty)
  /\ UNCHANGED <<config, backup, acked>>

\* Mutant: a setter stores the value before it tests it.
SetUntested(k, v) ==
  /\ step = "idle"
  /\ settings' = [settings EXCEPT ![k] = v]
  /\ step' = IF v \in Legal[k] THEN "rename" ELSE "idle"
  /\ UNCHANGED <<config, backup, acked, emptied>>

\* CONFIG SET with a value that its setter takes.
Set(k, v) ==
  /\ step = "idle" /\ v \in Legal[k]
  /\ settings' = [settings EXCEPT ![k] = v]
  /\ step' = "rename"
  /\ UNCHANGED <<config, backup, acked, emptied>>

\* Mutant: the file is overwritten in place.
OverwriteInPlace ==
  /\ step = "rename"
  /\ step' = "open"
  /\ UNCHANGED <<config, backup, settings, acked, emptied>>

Rename ==
  /\ step = "rename"
  /\ backup' = config
  /\ config' = Absent
  /\ step' = "open"
  /\ UNCHANGED <<settings, acked, emptied>>

Open ==
  /\ step = "open"
  /\ config' = Empty
  /\ step' = "close"
  /\ UNCHANGED <<backup, settings, acked, emptied>>

\* fclose, and the answer "OK".
Close ==
  /\ step = "close"
  /\ config' = Printed(settings)
  /\ acked' = settings
  /\ step' = "idle"
  /\ UNCHANGED <<backup, settings, emptied>>

Write == Rename \/ Open \/ Close

Die ==
  /\ step # "down"
  /\ step' = "down"
  /\ settings' = Default
  /\ UNCHANGED <<config, backup, acked, emptied>>

\* The operator puts the backup in place of a file that is missing.
Restore ==
  /\ step = "down"
  /\ ~config.exists /\ backup.exists
  /\ config' = backup
  /\ UNCHANGED <<backup, settings, step, acked, emptied>>

Next ==
  \/ Start \/ Die \/ Restore \/ Write
  \/ \E k \in Key, v \in Value : Set(k, v)

Spec == Init /\ [][Next]_vars

-----------------------------------------------------------------------------
(* Properties.                                                             *)

Files == {Absent, Empty} \cup {Printed(s) : s \in [Key -> Value]}

TypeOK ==
  /\ config \in Files /\ backup \in Files
  /\ settings \in [Key -> Value] /\ acked \in [Key -> Value]
  /\ step \in {"down", "idle", "rename", "open", "close"}
  /\ emptied \in BOOLEAN

\* Wherever CONFIG SET is interrupted, and however often, the file or its
\* backup holds the settings last answered with OK - until the daemon has
\* started from an emptied file, which it does with the initial values.
AckedIsOnDisk == emptied \/ Printed(acked) \in {config, backup}

\* k's value reads back, and no other setting's value has a line that names k.
Survives(s, k) ==
  /\ Plain(k, s[k])
  /\ \A l \in Key \ {k} : k \notin DOMAIN Assigns[l][s[l]]

\* Between two commands each setting has the value last answered with OK,
\* whatever was refused, interrupted or restarted in between, if that value
\* survives being printed and read.  After a start from an emptied file that
\* holds again from the next SET on.
InUseIsAcked ==
  step = "idle" /\ config # Empty =>
    \A k \in Key : Survives(acked, k) => settings[k] = acked[k]
=============================================================================
