---------------------------- MODULE DaemonFiles ----------------------------
(***************************************************************************)
(* The rules and the settings of one daemon.  main reads the settings      *)
(* before the rules and rewrites the rules before any command; the command *)
(* thread runs one command at a time; a death stops both.                  *)
(***************************************************************************)
EXTENDS Integers, SequencesExt

CONSTANTS Proto, App, Buffer, MaxRules
VARIABLES file, old, table, pc, saved, cut
R == INSTANCE RuleFile

CONSTANTS Key, Value, Legal, Default, Shipped, Assigns, Below
VARIABLES config, backup, settings, step, acked, emptied
C == INSTANCE Config

ASSUME FilesAssumption == R!FileAssumption /\ C!ConfigAssumption

ruleVars == <<file, old, table, pc, saved, cut>>
configVars == <<config, backup, settings, step, acked, emptied>>
vars == <<ruleVars, configVars>>

Init == R!Init /\ C!Init

\* A file that cannot be read stops the start before anything is written.
Start == R!Start /\ C!Start
Die   == R!Die /\ C!Die

RulesCommand ==
  \/ \E e \in R!Entry : R!AddPermanent(e)
  \/ R!AddSession
  \/ \E i \in DOMAIN table : R!RemovePermanent(i)

\* One command at a time; a restore is the operator's.
RulesStep ==
  /\ \/ step = "idle" /\ RulesCommand
     \/ R!Write
     \/ R!Restore
  /\ UNCHANGED configVars

SettingsStep ==
  /\ \/ pc = "idle" /\ \E k \in Key, v \in Value : C!Set(k, v)
     \/ C!Write
     \/ C!Restore
  /\ UNCHANGED ruleVars

Next == Start \/ Die \/ RulesStep \/ SettingsStep

Spec == Init /\ [][Next]_vars

-----------------------------------------------------------------------------
(* Properties.                                                             *)

\* Wherever fwrules_write is interrupted, and however often, the rules or the
\* backup holds what was last written in full, until the daemon has started
\* from a file cut short.
RulesCopySurvives == R!OneCopySurvives

\* The rules are cut short only if they are longer than stdio's buffer.
CutOnlyIfLong == R!CutOnlyIfLong

\* Rules whose fields read back come back in their order after a restart.
PlainRulesSurvive == R!PlainRulesSurvive

\* The same of the settings, which are lost by a start from an emptied file.
SettingsCopySurvives == C!AckedIsOnDisk

\* Between two commands each setting has the value last answered with OK, if
\* it is one that reads back.
SettingsInUse == C!InUseIsAcked
=============================================================================
