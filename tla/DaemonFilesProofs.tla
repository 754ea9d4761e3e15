------------------------- MODULE DaemonFilesProofs -------------------------
(***************************************************************************)
(* Proofs about DaemonFiles: what the rules file, the settings file and    *)
(* their backups hold after any sequence of commands, deaths, restarts and *)
(* restorations (Spec), for every buffer size, table bound and settings.   *)
(***************************************************************************)
EXTENDS DaemonFiles, FiniteSetTheorems, SequenceTheorems, WellFoundedInduction, TLAPS

USE FilesAssumption DEF FilesAssumption

-----------------------------------------------------------------------------
(* The settings.                                                           *)

LEMMA SettingsSteps == [Next]_vars => [C!Next]_configVars
<1> SUFFICES ASSUME [Next]_vars PROVE [C!Next]_configVars
  OBVIOUS
<1>1. CASE Start
  BY <1>1 DEF Start, C!Next
<1>2. CASE Die
  BY <1>2 DEF Die, C!Next
<1>3. CASE RulesStep
  BY <1>3 DEF RulesStep
<1>4. CASE SettingsStep
  BY <1>4 DEF SettingsStep, C!Next
<1>5. CASE UNCHANGED vars
  BY <1>5 DEF vars
<1> QED BY <1>1, <1>2, <1>3, <1>4, <1>5 DEF Next

\* What fwconfig_read finds are values of the settings: of the lines that name
\* one, there is a lowest.
LEMMA ReadType ==
  ASSUME NEW s \in [Key -> Value] PROVE C!Read(C!Printed(s)) \in [Key -> Value]
<1> DEFINE lines == C!Printed(s).lines
           naming(k) == C!Naming(C!Printed(s), k)
<1>1. DOMAIN lines = Key /\ \A l \in Key : lines[l] = Assigns[l][s[l]]
  BY DEF C!Printed
<1>2. \A l \in Key : \A k \in DOMAIN Assigns[l][s[l]] : Assigns[l][s[l]][k] \in Value
  BY DEF C!ConfigAssumption, C!Assigned
<1>3. ASSUME NEW k \in Key PROVE C!Read(C!Printed(s))[k] \in Value
  <2>1. CASE naming(k) = {}
    BY <2>1 DEF C!Read, C!ConfigAssumption
  <2>2. CASE naming(k) # {}
    <3> DEFINE places == {Below[l] : l \in naming(k)}
    <3>1. naming(k) \subseteq Key
      BY <1>1 DEF C!Naming
    <3>2. places \subseteq Nat /\ places # {}
      BY <2>2, <3>1 DEF C!ConfigAssumption
    <3>3. PICK n \in places : \A x \in places : ~(<<x, n>> \in OpToRel(<, Nat))
      BY <3>2, NatLessThanWellFounded, WFMin
    <3>4. \E l \in naming(k) : \A x \in naming(k) : Below[l] <= Below[x]
      <4>1. PICK l \in naming(k) : n = Below[l]
        BY <3>3
      <4>2. ASSUME NEW x \in naming(k) PROVE Below[l] <= Below[x]
        <5>1. Below[x] \in Nat /\ Below[l] \in Nat
          BY <3>1 DEF C!ConfigAssumption
        <5>2. ~(Below[x] < Below[l])
          BY <3>3, <4>1, <5>1 DEF OpToRel
        <5> QED BY <5>1, <5>2
      <4> QED BY <4>2
    <3>5. C!Lowest(naming(k)) \in naming(k)
      BY <3>4 DEF C!Lowest
    <3>6. lines[C!Lowest(naming(k))][k] \in Value
      BY <1>1, <1>2, <3>1, <3>5 DEF C!Naming
    <3> QED BY <2>2, <3>6 DEF C!Read
  <2> QED BY <2>1, <2>2
<1> QED BY <1>3 DEF C!Read

\* A value that reads back, and is not overridden, comes back.
LEMMA SurvivorReadsBack ==
  ASSUME NEW s \in [Key -> Value], NEW k \in Key, C!Survives(s, k)
  PROVE  C!Read(C!Printed(s))[k] = s[k]
<1>1. \A l \in Key : C!Printed(s).lines[l] = Assigns[l][s[l]]
  BY DEF C!Printed
<1>2. DOMAIN C!Printed(s).lines = Key
  BY DEF C!Printed
<1>3. C!Naming(C!Printed(s), k) = {k} \cap {l \in Key : k \in DOMAIN Assigns[l][s[l]]}
  BY <1>1, <1>2 DEF C!Naming, C!Survives
<1>4. CASE Assigns[k][s[k]] = [l \in {k} |-> s[k]]
  <2>1. C!Naming(C!Printed(s), k) = {k}
    BY <1>3, <1>4
  <2>2. Below[k] <= Below[k]
    BY DEF C!ConfigAssumption
  <2>3. C!Lowest({k}) = k
    <3>1. \E l \in {k} : \A m \in {k} : Below[l] <= Below[m]
      BY <2>2
    <3>2. C!Lowest({k}) \in {k}
      BY <3>1 DEF C!Lowest
    <3> QED BY <3>2
  <2>4. C!Printed(s).lines[k][k] = s[k]
    BY <1>1, <1>4
  <2>5. C!Lowest(C!Naming(C!Printed(s), k)) = k /\ C!Naming(C!Printed(s), k) # {}
    BY <2>1, <2>3
  <2> QED BY <2>4, <2>5 DEF C!Read
<1>5. CASE DOMAIN Assigns[k][s[k]] = {} /\ s[k] = Default[k]
  <2>1. C!Naming(C!Printed(s), k) = {}
    BY <1>3, <1>5
  <2> QED BY <1>5, <2>1 DEF C!Read
<1> QED BY <1>4, <1>5 DEF C!Survives, C!Plain

SettingsType ==
  /\ settings \in [Key -> Value] /\ acked \in [Key -> Value]
  /\ step \in {"down", "idle", "rename", "open", "close"}

\* Where the settings last answered with OK are, at each step of
\* fwconfig_write: until an emptied file has been read, in the file from its
\* fclose to the next rename, and in the backup from there on.
SettingsPlace ==
  ~emptied =>
    /\ step = "idle" => config = C!Printed(acked)
    /\ step = "rename" => config = C!Printed(acked)
    /\ step \in {"open", "close"} =>
         config \in {C!Absent, C!Empty} /\ backup = C!Printed(acked)
    /\ step = "down" => \/ config = C!Printed(acked)
                        \/ config \in {C!Absent, C!Empty} /\ backup = C!Printed(acked)

\* Neither file ever holds settings that are older, while the daemon can read
\* it; a backup is put back only if the file is missing.
SettingsFresh ==
  /\ config \in {C!Absent, C!Empty, C!Printed(acked)}
  /\ step \in {"idle", "rename", "close"} => config.exists
  /\ config = C!Absent => backup \in {C!Empty, C!Printed(acked)}
  /\ step = "idle" => settings \in {acked, C!Read(C!Printed(acked))} \/ config = C!Empty

SettingsInv == SettingsType /\ SettingsPlace /\ SettingsFresh

LEMMA SettingsInvInit == Init => SettingsInv
BY DEF Init, C!Init, SettingsInv, SettingsType, SettingsPlace, SettingsFresh,
       C!ConfigAssumption

LEMMA SettingsInvStep == SettingsInv /\ [C!Next]_configVars => SettingsInv'
<1> SUFFICES ASSUME SettingsInv, [C!Next]_configVars PROVE SettingsInv'
  OBVIOUS
<1> USE DEF SettingsInv, SettingsType, SettingsPlace, SettingsFresh
<1>0. /\ \A s : C!Printed(s).exists /\ C!Printed(s) # C!Absent
      /\ C!Empty.exists /\ C!Empty # C!Absent /\ ~C!Absent.exists
  BY DEF C!Printed, C!Empty, C!Absent
<1>1. CASE C!Start
  <2>1. config \in {C!Empty, C!Printed(acked)}
    BY <1>0, <1>1 DEF C!Start, C!CanStart
  <2>2. config = C!Printed(acked) => settings' = C!Read(C!Printed(acked))
    BY <1>1 DEF C!Start
  <2>3. settings' \in [Key -> Value]
    <3>1. CASE config = C!Printed(acked)
      BY <2>2, <3>1, ReadType
    <3>2. CASE config = C!Empty
      <4>1. \A k \in Key : C!Naming(config, k) = {}
        BY <3>2 DEF C!Naming, C!Empty
      <4> QED BY <1>1, <4>1 DEF C!Start, C!Read, C!ConfigAssumption
    <3> QED BY <2>1, <3>1, <3>2
  <2> QED BY <1>0, <1>1, <2>1, <2>2, <2>3 DEF C!Start
<1>2. CASE C!Die
  BY <1>0, <1>2 DEF C!Die, C!ConfigAssumption
<1>3. CASE C!Restore
  BY <1>0, <1>3 DEF C!Restore
<1>4. CASE C!Rename
  BY <1>0, <1>4 DEF C!Rename
<1>5. CASE C!Open
  BY <1>0, <1>5 DEF C!Open
<1>6. CASE C!Close
  BY <1>0, <1>6 DEF C!Close
<1>7. ASSUME NEW k \in Key, NEW v \in Value, C!Set(k, v) PROVE SettingsInv'
  BY <1>0, <1>7 DEF C!Set
<1>8. CASE UNCHANGED configVars
  BY <1>8 DEF configVars
<1> QED BY <1>1, <1>2, <1>3, <1>4, <1>5, <1>6, <1>7, <1>8 DEF C!Next, C!Write

\* Wherever CONFIG SET is interrupted, the settings last answered with OK are
\* in the file or in its backup, until an emptied file was started from.
THEOREM SettingsSurvive == Spec => []SettingsCopySurvives
<1>1. SettingsInv => SettingsCopySurvives
  BY DEF SettingsInv, SettingsType, SettingsPlace, SettingsCopySurvives, C!AckedIsOnDisk
<1> QED BY <1>1, SettingsInvInit, SettingsInvStep, SettingsSteps, PTL DEF Spec

\* Between two commands each setting has the value last answered with OK, if
\* that value reads back and no other value has a line that names the setting.
THEOREM SettingsAreAcked == Spec => []SettingsInUse
<1>1. SettingsInv => SettingsInUse
  <2> SUFFICES ASSUME SettingsInv, step = "idle", config # C!Empty,
                      NEW k \in Key, C!Survives(acked, k)
               PROVE  settings[k] = acked[k]
    BY DEF SettingsInUse, C!InUseIsAcked
  <2>1. settings \in {acked, C!Read(C!Printed(acked))} /\ acked \in [Key -> Value]
    BY DEF SettingsInv, SettingsType, SettingsFresh
  <2> QED BY <2>1, SurvivorReadsBack
<1> QED BY <1>1, SettingsInvInit, SettingsInvStep, SettingsSteps, PTL DEF Spec

-----------------------------------------------------------------------------
(* What fwrules_read makes of the lines of fwrules_print.                  *)

Words == STRING \cup {"tcp", "udp", "icmp", "ip", "hosts"}
AnyEntry == [proto : Proto, app : Seq(Words) \ {<< >>}]
AnyLine  == {R!Line(e) : e \in AnyEntry}

\* A line with its protocol has the address in second and the executable's
\* first word in third place.
LEMMA Fields ==
  ASSUME NEW S, NEW a \in S, NEW b \in S, NEW s \in Seq(S)
  PROVE  /\ <<a>> \o <<b>> \o s \in Seq(S)
         /\ Len(<<a>> \o <<b>> \o s) = Len(s) + 2
         /\ (<<a>> \o <<b>> \o s)[1] = a
         /\ s # << >> => (<<a>> \o <<b>> \o s)[3] = s[1]
<1>1. ASSUME NEW w \in Seq(S), Len(w) = 2, w[1] = a
      PROVE  /\ w \o s \in Seq(S) /\ Len(w \o s) = Len(s) + 2 /\ (w \o s)[1] = a
             /\ Len(s) >= 1 => (w \o s)[3] = s[1]
  <2>1. w \o s \in Seq(S)
    OBVIOUS
  <2>2. Len(s) \in Nat
    OBVIOUS
  <2>3. Len(w \o s) = Len(w) + Len(s)
    OBVIOUS
  <2>4. \A i \in 1..(Len(w) + Len(s)) : (w \o s)[i] = IF i <= Len(w) THEN w[i] ELSE s[i - Len(w)]
    OBVIOUS
  <2>5. 1 \in 1..(Len(w) + Len(s)) /\ Len(w) = 2
    BY <1>1, <2>2
  <2>6. (w \o s)[1] = a
    BY <1>1, <2>4, <2>5
  <2>7. Len(s) >= 1 => (w \o s)[3] = s[1]
    <3> SUFFICES ASSUME Len(s) >= 1 PROVE (w \o s)[3] = s[1]
      OBVIOUS
    <3>1. 3 \in 1..(Len(w) + Len(s)) /\ 3 - Len(w) = 1 /\ ~(3 <= Len(w))
      BY <2>2, <2>5
    <3> QED BY <2>4, <3>1
  <2> QED BY <2>1, <2>2, <2>3, <2>5, <2>6, <2>7
<1>2. /\ <<a>> \o <<b>> \in Seq(S) /\ Len(<<a>> \o <<b>>) = 2 /\ (<<a>> \o <<b>>)[1] = a
  <2>1. /\ <<a>> \in Seq(S) /\ Len(<<a>>) = 1 /\ <<a>>[1] = a
        /\ <<b>> \in Seq(S) /\ Len(<<b>>) = 1
    OBVIOUS
  <2> QED BY <2>1, ConcatProperties
<1>3. s # << >> => Len(s) >= 1
  BY EmptySeq, LenProperties
<1> QED BY <1>1, <1>2, <1>3

LEMMA Single ==
  ASSUME NEW S, NEW a \in S, NEW s \in Seq(S)
  PROVE  /\ <<a>> \in Seq(S) /\ Len(<<a>>) = 1 /\ <<a>>[1] = a
         /\ <<a>> \o s \in Seq(S) /\ (<<a>> \o s)[1] = a
OBVIOUS

LEMMA LineFields ==
  ASSUME NEW e \in AnyEntry
  PROVE  /\ R!Line(e) \in Seq(Words)
         /\ e.proto = "ip" => R!Line(e)[1] = "hosts"
         /\ e.proto # "ip" => /\ Len(R!Line(e)) = Len(e.app) + 2
                             /\ R!Line(e)[1] = e.proto /\ R!Line(e)[3] = e.app[1]
<1>1. e.proto \in {"tcp", "udp", "icmp", "ip"} /\ e.app \in Seq(Words) /\ e.app # << >>
  BY DEF AnyEntry, R!FileAssumption
<1>2. e.proto \in Words /\ "hosts" \in Words
  BY <1>1 DEF Words
<1>3. CASE e.proto = "ip"
  <2>1. R!Line(e) = << >> \o <<"hosts">> \o e.app
    BY <1>3 DEF R!Line, R!TxtProto
  <2>2. <<"hosts">> \in Seq(Words) /\ Len(<<"hosts">>) = 1 /\ <<"hosts">>[1] = "hosts"
    BY <1>2, Single
  <2>3. << >> \o <<"hosts">> = <<"hosts">>
    BY <2>2, ConcatEmptySeq
  <2>4. <<"hosts">> \o e.app \in Seq(Words) /\ (<<"hosts">> \o e.app)[1] = "hosts"
    BY <1>1, <1>2, Single
  <2> QED BY <1>3, <2>1, <2>3, <2>4
<1>4. CASE e.proto # "ip"
  <2>1. R!Line(e) = <<e.proto>> \o <<"hosts">> \o e.app
    BY <1>4 DEF R!Line, R!TxtProto
  <2> QED BY <1>1, <1>2, <1>4, <2>1, Fields
<1> QED BY <1>3, <1>4

LEMMA LinesOfRules ==
  ASSUME NEW rules \in Seq(AnyEntry)
  PROVE  /\ R!Lines(rules) \in Seq(AnyLine)
         /\ Len(R!Lines(rules)) = Len(rules)
         /\ \A i \in 1..Len(rules) : R!Lines(rules)[i] = R!Line(rules[i])
<1>1. \A i \in 1..Len(rules) : R!Line(rules[i]) \in AnyLine
  BY DEF AnyLine
<1> QED BY <1>1 DEF R!Lines

\* Only what AnyEntry prints as scans, and as another such entry.
LEMMA ScannedIsEntry ==
  ASSUME NEW line \in AnyLine, R!Scans(line)
  PROVE  R!ReadLine(line) \in AnyEntry
<1>1. PICK e \in AnyEntry : line = R!Line(e)
  BY DEF AnyLine
<1>2. line[1] = e.proto /\ Len(line) >= 3 /\ line \in Seq(Words)
  BY <1>1, LineFields DEF R!Scans
<1>3. line[3] \in Words
  BY <1>2
<1>4. <<line[3]>> \in Seq(Words) /\ <<line[3]>> # << >>
  BY <1>3
<1> QED BY <1>2, <1>4 DEF AnyEntry, R!ReadLine

\* Every set of numbers has a least one.
LEMMA LeastNumber ==
  ASSUME NEW T \in SUBSET Nat, T # {}
  PROVE  \E m \in T : \A k \in T : m <= k
<1> DEFINE Less == {ss \in Nat \X Nat : ss[1] < ss[2]}
<1>1. IsWellFoundedOn(Less, Nat)
  BY NatLessThanWellFounded DEF OpToRel
<1>2. \A k, m \in Nat : k < m => <<k, m>> \in Less
  OBVIOUS
<1> HIDE DEF Less
<1>3. PICK m \in T : \A k \in T : ~(<<k, m>> \in Less)
  BY <1>1, WFMin
<1>4. \A k \in T : k \in Nat
  OBVIOUS
<1>5. \A k \in T : ~(k < m)
  BY <1>2, <1>3, <1>4
<1> QED BY <1>4, <1>5

LEMMA SameCount == \A S : R!Cardinality(S) = Cardinality(S)
BY DEF R!Cardinality, Cardinality

\* A set of n positions has a k-th one, for k from 1 to n.
LEMMA NthExists ==
  ASSUME NEW n \in Nat, NEW S, \A j \in S : j \in 1..n, NEW k \in 1..Cardinality(S)
  PROVE  R!Nth(S, k) \in S
<1> DEFINE Upto(i) == {j \in S : j <= i}
           T == {i \in Nat : Cardinality(Upto(i)) >= k}
<1>1. IsFiniteSet(S) /\ Cardinality(S) \in Nat
  <2>1. IsFiniteSet(1..n)
    BY FS_Interval
  <2>2. IsFiniteSet(S)
    BY <2>1, S \subseteq 1..n, FS_Subset
  <2> QED BY <2>2, FS_CardinalityType
<1>2. \A j \in S : j \in Nat /\ 1 <= j /\ j <= n
  OBVIOUS
<1>3. \A i : IsFiniteSet(Upto(i)) /\ Cardinality(Upto(i)) \in Nat
  <2> TAKE i
  <2>1. Upto(i) \in SUBSET S
    OBVIOUS
  <2>2. IsFiniteSet(Upto(i))
    BY <1>1, <2>1, FS_Subset
  <2> QED BY <2>2, FS_CardinalityType
<1>4. n \in T
  <2>1. Upto(n) = S
    BY <1>2
  <2> QED BY <1>1, <2>1
<1>5. PICK m \in T : \A i \in T : m <= i
  <2>1. T \in SUBSET Nat /\ T # {}
    BY <1>4
  <2> HIDE DEF T
  <2> QED BY <2>1, LeastNumber
<1>6. m \in Nat /\ Cardinality(Upto(m)) >= k /\ k \in Nat /\ k >= 1
  BY <1>1, <1>5
<1>7. m # 0
  <2>1. Upto(0) = {}
    BY <1>2
  <2>2. Cardinality(Upto(0)) = 0
    BY <2>1, FS_EmptySet
  <2> QED BY <1>6, <2>2
<1>8. m - 1 \in Nat /\ Cardinality(Upto(m - 1)) < k
  <2>1. m - 1 \in Nat /\ ~(m <= m - 1)
    BY <1>6, <1>7
  <2>2. m - 1 \notin T
    BY <1>5, <2>1
  <2>3. ~(Cardinality(Upto(m - 1)) >= k)
    BY <2>1, <2>2
  <2> HIDE DEF T, Upto
  <2> QED BY <1>3, <1>6, <2>1, <2>3
<1> HIDE DEF T
<1>9. m \in S
  <2> SUFFICES ASSUME m \notin S PROVE FALSE
    OBVIOUS
  <2>1. Upto(m) = Upto(m - 1)
    BY <1>2, <1>6
  <2> QED BY <1>3, <1>6, <1>8, <2>1
<1>10. Cardinality(Upto(m)) = k
  <2>0. \A j \in S : j <= m <=> j <= m - 1 \/ j = m
    BY <1>2, <1>6
  <2>1. Upto(m) = Upto(m - 1) \cup {m} /\ m \notin Upto(m - 1)
    <3>1. Upto(m) = Upto(m - 1) \cup {m}
      BY <1>9, <2>0
    <3>2. ~(m <= m - 1)
      BY <1>6
    <3> QED BY <3>1, <3>2
  <2> HIDE DEF Upto
  <2>2. Cardinality(Upto(m)) = Cardinality(Upto(m - 1)) + 1
    BY <1>3, <2>1, FS_AddElement
  <2> QED BY <1>3, <1>6, <1>8, <2>2
<1>11. \E i \in S : R!Cardinality({j \in S : j <= i}) = k
  BY <1>9, <1>10, SameCount
<1> QED BY <1>11 DEF R!Nth

Good(lines) == {i \in DOMAIN lines : R!Scans(lines[i])}

LEMMA ReadLinesType ==
  ASSUME NEW lines \in Seq(AnyLine)
  PROVE  R!ReadLines(lines) \in Seq(AnyEntry) /\ Len(R!ReadLines(lines)) <= Len(lines)
<1> DEFINE n == Cardinality(Good(lines))
<1>1. Good(lines) \in SUBSET (1..Len(lines)) /\ Len(lines) \in Nat
  BY DEF Good
<1>2. n \in Nat /\ n <= Len(lines)
  <2>1. \A l \in Nat : IsFiniteSet(1..l) /\ Cardinality(1..l) = l
    BY FS_Interval
  <2>2. IsFiniteSet(Good(lines)) /\ Cardinality(Good(lines)) <= Len(lines)
    BY <1>1, <2>1, FS_Subset
  <2> QED BY <2>2, FS_CardinalityType
<1>3. ASSUME NEW k \in 1..n PROVE R!ReadLine(lines[R!Nth(Good(lines), k)]) \in AnyEntry
  <2>1. R!Nth(Good(lines), k) \in Good(lines)
    BY <1>1, NthExists
  <2> QED BY <1>1, <2>1, ScannedIsEntry DEF Good
<1>4. R!ReadLines(lines) = [k \in 1..n |-> R!ReadLine(lines[R!Nth(Good(lines), k)])]
  BY SameCount DEF R!ReadLines, Good
<1> HIDE DEF n
<1> QED BY <1>2, <1>3, <1>4

\* A table of plain entries is read back as it was.
LEMMA PlainReadsBack ==
  ASSUME NEW rules \in Seq(AnyEntry), \A i \in 1..Len(rules) : R!Plain(rules[i])
  PROVE  R!ReadLines(R!Lines(rules)) = rules
<1> DEFINE n == Len(rules)
           lines == R!Lines(rules)
<1>1. /\ lines \in Seq(AnyLine) /\ Len(lines) = n /\ n \in Nat
      /\ \A i \in 1..n : lines[i] = R!Line(rules[i])
  BY LinesOfRules
<1>2. ASSUME NEW i \in 1..n PROVE R!Scans(lines[i]) /\ R!ReadLine(lines[i]) = rules[i]
  <2>1. rules[i] \in AnyEntry /\ rules[i].proto # "ip" /\ Len(rules[i].app) = 1
    BY DEF R!Plain
  <2>2. rules[i].proto \in {"tcp", "udp", "icmp"}
    BY <2>1 DEF AnyEntry, R!FileAssumption
  <2>3. Len(lines[i]) = 3 /\ lines[i][1] = rules[i].proto /\ lines[i][3] = rules[i].app[1]
    <3>1. lines[i] = R!Line(rules[i])
      BY <1>1
    <3>2. Len(R!Line(rules[i])) = Len(rules[i].app) + 2
      BY <2>1, LineFields
    <3>3. R!Line(rules[i])[1] = rules[i].proto /\ R!Line(rules[i])[3] = rules[i].app[1]
      BY <2>1, LineFields
    <3> HIDE DEF lines, n
    <3> QED BY <2>1, <3>1, <3>2, <3>3
  <2>4. rules[i].app = <<rules[i].app[1]>>
    <3>1. rules[i].app \in Seq(Words)
      BY <2>1 DEF AnyEntry
    <3> QED BY <2>1, <3>1
  <2>5. rules[i] = [proto |-> rules[i].proto, app |-> rules[i].app]
    BY <2>1 DEF AnyEntry
  <2> QED BY <2>2, <2>3, <2>4, <2>5 DEF R!Scans, R!ReadLine
<1>3. Good(lines) = 1..n
  BY <1>1, <1>2 DEF Good
<1>4. \A k \in 1..n : R!Nth(1..n, k) = k
  <2> TAKE k \in 1..n
  <2>1. \A i \in 1..n : {j \in 1..n : j <= i} = 1..i
    BY <1>1
  <2>2. \A i \in Nat : Cardinality(1..i) = i
    BY FS_Interval
  <2>3. \A i \in 1..n : R!Cardinality({j \in 1..n : j <= i}) = i
    <3> TAKE i \in 1..n
    <3>1. i \in Nat
      BY <1>1
    <3> QED BY <2>1, <2>2, <3>1, SameCount
  <2> QED BY <2>3 DEF R!Nth
<1>5. Cardinality(1..n) = n
  <2>1. \A i \in Nat : Cardinality(1..i) = i
    BY FS_Interval
  <2> QED BY <1>1, <2>1
<1>6. R!ReadLines(lines) = [k \in 1..n |-> R!ReadLine(lines[R!Nth(1..n, k)])]
  BY <1>3, <1>5, SameCount DEF R!ReadLines, Good
<1> HIDE DEF n, lines
<1>7. R!ReadLines(lines) = [k \in 1..n |-> rules[k]]
  BY <1>2, <1>4, <1>6
<1> QED BY <1>7 DEF n, lines

-----------------------------------------------------------------------------
(* The rules.                                                              *)

LEMMA RulesSteps == [Next]_vars => [R!Next]_ruleVars
<1> SUFFICES ASSUME [Next]_vars PROVE [R!Next]_ruleVars
  OBVIOUS
<1>1. CASE Start
  BY <1>1 DEF Start, R!Next
<1>2. CASE Die
  BY <1>2 DEF Die, R!Next
<1>3. CASE RulesStep
  BY <1>3 DEF RulesStep, RulesCommand, R!Next
<1>4. CASE SettingsStep
  BY <1>4 DEF SettingsStep
<1>5. CASE UNCHANGED vars
  BY <1>5 DEF vars
<1> QED BY <1>1, <1>2, <1>3, <1>4, <1>5 DEF Next

AnyFile == [exists : BOOLEAN, header : BOOLEAN, lines : Seq(AnyLine)]

RulesType ==
  /\ table \in Seq(AnyEntry) /\ saved \in Seq(AnyEntry)
  /\ file \in AnyFile /\ old \in AnyFile
  /\ pc \in {"down", "idle", "rename", "open", "print"}
  /\ cut \in BOOLEAN

\* The table has the rules of the last full write, but for one command.
Near == \/ Len(table) <= Len(saved)
        \/ \E e \in AnyEntry : table = Append(saved, e)

\* Where the last full write is, at each step of the next one: in the file
\* until the rename and in the backup from there on.  What death leaves of the
\* next one is shorter, or holds the same.
RulesPlace ==
  ~cut =>
    /\ pc = "idle" => table = saved /\ R!Holds(file, saved)
    /\ pc = "rename" => Near /\ R!Holds(file, saved)
    /\ pc \in {"open", "print"} => Near /\ R!Holds(old, saved)
    /\ \/ R!Holds(file, saved)
       \/ R!Holds(old, saved) /\ (file.header => Len(file.lines) < Len(saved))

\* A file with rules has them all, or as many as a buffer holds; so has the
\* backup, when it is the one to go back to.
LongOrWhole(f) == f.header => Len(f.lines) >= Buffer \/ Len(f.lines) >= Len(saved)
RulesLength ==
  /\ LongOrWhole(file) /\ (~file.header => LongOrWhole(old))
  /\ pc = "open" => ~file.header

RulesInv == RulesType /\ RulesPlace /\ RulesLength

LEMMA EntryIsAny == R!Entry \subseteq AnyEntry
<1>1. Seq(STRING) \subseteq Seq(Words)
  BY SeqMonotonic DEF Words
<1> QED BY <1>1 DEF R!Entry, AnyEntry, R!FileAssumption

LEMMA RulesInvInit == Init => RulesInv
<1> SUFFICES ASSUME Init PROVE RulesInv
  OBVIOUS
<1>1. << >> \in Seq(AnyEntry) /\ << >> \in Seq(AnyLine) /\ Len(<< >>) = 0
  OBVIOUS
<1>2. R!Lines(<< >>) = << >>
  <2>1. R!Lines(<< >>) \in Seq(AnyLine) /\ Len(R!Lines(<< >>)) = 0
    BY <1>1, LinesOfRules
  <2> QED BY <2>1, EmptySeq
<1>3. /\ file = R!Text(<< >>) /\ old = R!Absent
      /\ table = << >> /\ saved = << >> /\ pc = "down" /\ cut = FALSE
  BY DEF Init, R!Init
<1>4. RulesType
  <2>1. R!Text(<< >>) \in AnyFile /\ R!Absent \in AnyFile
    BY <1>1 DEF AnyFile, R!Text, R!Absent
  <2> QED BY <1>1, <1>3, <2>1 DEF RulesType
<1>5. RulesPlace
  BY <1>2, <1>3 DEF RulesPlace, R!Holds, R!Text
<1>6. RulesLength
  BY <1>1, <1>3 DEF RulesLength, LongOrWhole, R!Text
<1> QED BY <1>4, <1>5, <1>6 DEF RulesInv

LEMMA RulesTypeStep == RulesType /\ [R!Next]_ruleVars => RulesType'
<1> SUFFICES ASSUME RulesType, [R!Next]_ruleVars PROVE RulesType'
  OBVIOUS
<1> USE DEF RulesType
<1>1. CASE R!Start
  <2>1. file.lines \in Seq(AnyLine)
    BY DEF AnyFile
  <2> QED BY <1>1, <2>1, ReadLinesType DEF R!Start, R!disk
<1>2. CASE R!Die
  BY <1>2 DEF R!Die, R!disk
<1>3. CASE R!Restore
  BY <1>3 DEF R!Restore
<1>4. ASSUME NEW e \in R!Entry, R!AddPermanent(e) PROVE RulesType'
  BY <1>4, EntryIsAny DEF R!AddPermanent, R!disk
<1>5. CASE R!AddSession
  BY <1>5 DEF R!AddSession, R!disk
<1>6. ASSUME NEW i \in DOMAIN table, R!RemovePermanent(i) PROVE RulesType'
  BY <1>6 DEF R!RemovePermanent, R!RemoveAt, R!disk
<1>7. CASE R!Rename
  BY <1>7 DEF R!Rename, R!Absent, AnyFile
<1>8. CASE R!Open
  BY <1>8 DEF R!Open, R!Empty, AnyFile
<1>9. ASSUME NEW n \in 1..MaxRules, R!Flush(n) PROVE RulesType'
  <2>1. SubSeq(R!Lines(table), 1, n) \in Seq(AnyLine)
    BY LinesOfRules, <1>9 DEF R!Flush, R!FileAssumption
  <2> QED BY <1>9, <2>1 DEF R!Flush, R!Text, AnyFile
<1>10. CASE R!Close
  BY <1>10, LinesOfRules DEF R!Close, R!Text, AnyFile
<1>11. CASE UNCHANGED ruleVars
  BY <1>11 DEF ruleVars
<1> QED BY <1>1, <1>2, <1>3, <1>4, <1>5, <1>6, <1>7, <1>8, <1>9, <1>10, <1>11
        DEF R!Next, R!Write

LEMMA RulesLengthStep == RulesType /\ RulesLength /\ [R!Next]_ruleVars => RulesLength'
<1> SUFFICES ASSUME RulesType, RulesLength, [R!Next]_ruleVars PROVE RulesLength'
  OBVIOUS
<1> USE DEF RulesLength, LongOrWhole
<1>1. CASE R!Start
  BY <1>1 DEF R!Start, R!disk
<1>2. CASE R!Die
  BY <1>2 DEF R!Die, R!disk
<1>3. CASE R!Restore
  BY <1>3 DEF R!Restore
<1>4. ASSUME NEW e \in R!Entry, R!AddPermanent(e) PROVE RulesLength'
  BY <1>4 DEF R!AddPermanent, R!disk
<1>5. CASE R!AddSession
  BY <1>5 DEF R!AddSession, R!disk
<1>6. ASSUME NEW i \in DOMAIN table, R!RemovePermanent(i) PROVE RulesLength'
  BY <1>6 DEF R!RemovePermanent, R!disk
<1>7. CASE R!Rename
  BY <1>7 DEF R!Rename, R!Absent
<1>8. CASE R!Open
  BY <1>8 DEF R!Open, R!Empty, RulesType, AnyFile
<1>9. ASSUME NEW n \in 1..MaxRules, R!Flush(n) PROVE RulesLength'
  <2>1. Len(SubSeq(R!Lines(table), 1, n)) = n
    BY <1>9, LinesOfRules DEF R!Flush, RulesType, R!FileAssumption
  <2>2. Buffer <= n
    BY <1>9 DEF R!Flush
  <2> QED BY <1>9, <2>1, <2>2 DEF R!Flush, R!Text, R!FileAssumption
<1>10. CASE R!Close
  <2>1. Len(R!Lines(table)) = Len(table) /\ Len(table) \in Nat
    BY LinesOfRules DEF RulesType
  <2> QED BY <1>10, <2>1 DEF R!Close, R!Text
<1>11. CASE UNCHANGED ruleVars
  BY <1>11 DEF ruleVars
<1> QED BY <1>1, <1>2, <1>3, <1>4, <1>5, <1>6, <1>7, <1>8, <1>9, <1>10, <1>11
        DEF R!Next, R!Write

LEMMA LinesPrefix ==
  ASSUME NEW rules \in Seq(AnyEntry), NEW e \in AnyEntry
  PROVE  SubSeq(R!Lines(Append(rules, e)), 1, Len(rules)) = R!Lines(rules)
<1> DEFINE n == Len(rules)
           more == Append(rules, e)
<1>1. /\ more \in Seq(AnyEntry) /\ Len(more) = n + 1 /\ n \in Nat
      /\ \A i \in 1..n : more[i] = rules[i]
  OBVIOUS
<1>2. /\ R!Lines(more) \in Seq(AnyLine) /\ Len(R!Lines(more)) = n + 1
      /\ \A i \in 1..(n + 1) : R!Lines(more)[i] = R!Line(more[i])
  BY <1>1, LinesOfRules
<1>3. /\ R!Lines(rules) \in Seq(AnyLine) /\ Len(R!Lines(rules)) = n
      /\ \A i \in 1..n : R!Lines(rules)[i] = R!Line(rules[i])
  BY LinesOfRules
<1> HIDE DEF n, more
<1>4. /\ SubSeq(R!Lines(more), 1, n) \in Seq(AnyLine)
      /\ Len(SubSeq(R!Lines(more), 1, n)) = n
      /\ \A i \in 1..n : SubSeq(R!Lines(more), 1, n)[i] = R!Lines(more)[i]
  BY <1>1, <1>2
<1>5. SubSeq(R!Lines(more), 1, n) = R!Lines(rules)
  <2>1. \A i \in 1..n : SubSeq(R!Lines(more), 1, n)[i] = R!Lines(rules)[i]
    BY <1>1, <1>2, <1>3, <1>4
  <2> QED BY <1>3, <1>4, <2>1, SeqEqual
<1> QED BY <1>5 DEF n, more

LEMMA RulesPlaceStep == RulesType /\ RulesPlace /\ [R!Next]_ruleVars => RulesPlace'
<1> SUFFICES ASSUME RulesType, RulesPlace, [R!Next]_ruleVars, ~cut' PROVE RulesPlace'
  BY DEF RulesPlace
<1>0. ~cut
  BY DEF R!Next, R!Start, R!Die, R!Restore, R!AddPermanent, R!AddSession, R!RemovePermanent,
         R!Write, R!Rename, R!Open, R!Flush, R!Close, ruleVars
<1> USE <1>0 DEF RulesPlace
<1>1. CASE R!Start
  <2>1. file.header /\ ~(Len(file.lines) < Len(saved))
    BY <1>1 DEF R!Start
  <2>2. R!Holds(file, saved)
    BY <2>1
  <2>3. Len(file.lines) = Len(saved)
    BY <2>2, LinesOfRules DEF R!Holds, RulesType
  <2>4. Len(table') <= Len(saved)
    <3>1. file.lines \in Seq(AnyLine)
      BY DEF RulesType, AnyFile
    <3> QED BY <1>1, <2>3, <3>1, ReadLinesType DEF R!Start
  <2>5. pc' = "rename" /\ file' = file /\ old' = old /\ saved' = saved
    BY <1>1 DEF R!Start, R!disk
  <2> QED BY <2>2, <2>4, <2>5 DEF Near, R!Holds
<1>2. CASE R!Die
  BY <1>2 DEF R!Die, R!disk, R!Holds
<1>3. CASE R!Restore
  BY <1>3 DEF R!Restore, R!Holds
<1>4. ASSUME NEW e \in R!Entry, R!AddPermanent(e) PROVE RulesPlace'
  <2>1. e \in AnyEntry
    BY EntryIsAny
  <2> QED BY <1>4, <2>1 DEF R!AddPermanent, R!disk, R!Holds, Near
<1>5. CASE R!AddSession
  BY <1>5 DEF R!AddSession, R!disk, R!Holds, Near, RulesType
<1>6. ASSUME NEW i \in DOMAIN table, R!RemovePermanent(i) PROVE RulesPlace'
  <2>1. Len(R!RemoveAt(table, i)) <= Len(table)
    BY DEF R!RemoveAt, RulesType
  <2> QED BY <1>6, <2>1 DEF R!RemovePermanent, R!disk, R!Holds, Near
<1>7. CASE R!Rename
  BY <1>7 DEF R!Rename, R!Holds, R!Absent, Near
<1>8. CASE R!Open
  BY <1>8 DEF R!Open, R!Holds, R!Empty, Near
<1>9. ASSUME NEW n \in 1..MaxRules, R!Flush(n) PROVE RulesPlace'
  <2>1. /\ pc = "print" /\ n < Len(table) /\ n \in Nat /\ n >= 1
        /\ file' = R!Text(SubSeq(R!Lines(table), 1, n))
        /\ UNCHANGED <<old, table, pc, saved>>
    BY <1>9 DEF R!Flush, R!FileAssumption
  <2>2. Near /\ R!Holds(old, saved)
    BY <2>1
  <2>3. Len(SubSeq(R!Lines(table), 1, n)) = n
    BY <2>1, LinesOfRules DEF RulesType
  <2>4. Near' /\ R!Holds(old, saved)'
    BY <2>1, <2>2 DEF Near, R!Holds
  <2>5. R!Holds(file, saved)' \/ n < Len(saved)
    <3>1. CASE Len(table) <= Len(saved)
      BY <2>1, <3>1 DEF RulesType
    <3>2. ASSUME NEW e \in AnyEntry, table = Append(saved, e)
          PROVE R!Holds(file, saved)' \/ n < Len(saved)
      <4>1. Len(table) = Len(saved) + 1 /\ Len(saved) \in Nat
        BY <3>2 DEF RulesType
      <4>2. CASE n = Len(saved)
        BY <2>1, <3>2, <4>2, LinesPrefix DEF R!Holds, R!Text, RulesType
      <4> QED BY <2>1, <4>1, <4>2
    <3> QED BY <2>2, <3>1, <3>2 DEF Near
  <2> QED BY <2>1, <2>3, <2>4, <2>5 DEF R!Text
<1>10. CASE R!Close
  BY <1>10 DEF R!Close, R!Holds, R!Text
<1>11. CASE UNCHANGED ruleVars
  BY <1>11 DEF ruleVars, R!Holds, Near
<1> QED BY <1>1, <1>2, <1>3, <1>4, <1>5, <1>6, <1>7, <1>8, <1>9, <1>10, <1>11
        DEF R!Next, R!Write

\* The inductive invariant of the rules file.
LEMMA RulesInvariance == Spec => []RulesInv
<1>1. RulesInv /\ [Next]_vars => RulesInv'
  BY RulesSteps, RulesTypeStep, RulesLengthStep, RulesPlaceStep DEF RulesInv
<1> QED BY <1>1, RulesInvInit, PTL DEF Spec

\* However often fwrules_write is interrupted, the rules or the backup holds
\* what was last written in full, until a file cut short was started from.
THEOREM RulesSurvive == Spec => []RulesCopySurvives
<1>1. RulesInv => RulesCopySurvives
  BY DEF RulesInv, RulesPlace, RulesCopySurvives, R!OneCopySurvives
<1> QED BY <1>1, RulesInvariance, PTL

\* No daemon starts from a file cut short unless the rules are longer than
\* stdio's buffer.
THEOREM CutIsLong == Spec => CutOnlyIfLong
<1>1. RulesInv /\ [R!Next]_ruleVars => [~cut /\ cut' => Len(saved) > Buffer]_ruleVars
  <2> SUFFICES ASSUME RulesInv, [R!Next]_ruleVars, ~cut, cut' PROVE Len(saved) > Buffer
    OBVIOUS
  <2>1. R!Start
    BY DEF R!Next, R!Start, R!Die, R!Restore, R!AddPermanent, R!AddSession, R!RemovePermanent,
           R!Write, R!Rename, R!Open, R!Flush, R!Close, ruleVars
  <2>2. file.header /\ Len(file.lines) < Len(saved)
    BY <2>1 DEF R!Start
  <2>3. Len(file.lines) \in Nat /\ Len(saved) \in Nat
    BY DEF RulesInv, RulesType, AnyFile
  <2> QED BY <2>2, <2>3 DEF RulesInv, RulesLength, LongOrWhole, R!FileAssumption
<1>2. RulesInv /\ [Next]_vars => [~cut /\ cut' => Len(saved) > Buffer]_(R!vars)
  BY <1>1, RulesSteps DEF ruleVars, R!vars, R!disk
<1> QED BY <1>2, RulesInvariance, PTL DEF Spec, CutOnlyIfLong, R!CutOnlyIfLong

\* Rules whose fields read back come back in their order after a restart.
THEOREM PlainRulesComeBack == Spec => PlainRulesSurvive
<1> DEFINE Back == R!Starts /\ R!Holds(file, saved) /\ (\A i \in DOMAIN saved : R!Plain(saved[i]))
                     => table' = saved
<1>1. RulesInv /\ [R!Next]_ruleVars => [Back]_ruleVars
  <2> SUFFICES ASSUME RulesInv, [R!Next]_ruleVars, R!Starts, R!Holds(file, saved),
                      \A i \in DOMAIN saved : R!Plain(saved[i])
               PROVE  table' = saved
    OBVIOUS
  <2>1. R!Start
    BY DEF R!Next, R!Starts, R!Start, R!Die, R!Restore, R!AddPermanent, R!AddSession,
           R!RemovePermanent, R!Write, R!Rename, R!Open, R!Flush, R!Close, ruleVars
  <2>2. saved \in Seq(AnyEntry) /\ DOMAIN saved = 1..Len(saved)
    BY DEF RulesInv, RulesType
  <2> QED BY <2>1, <2>2, PlainReadsBack DEF R!Start, R!Holds
<1>2. RulesInv /\ [Next]_vars => [Back]_(R!vars)
  BY <1>1, RulesSteps DEF ruleVars, R!vars, R!disk
<1> QED BY <1>2, RulesInvariance, PTL DEF Spec, PlainRulesSurvive, R!PlainRulesSurvive
=============================================================================
