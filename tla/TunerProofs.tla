---------------------------- MODULE TunerProofs ----------------------------
(***************************************************************************)
(* Proofs about Tuner for every file, every table of settings and          *)
(* recommendations, every set of flags and any number of runs.             *)
(***************************************************************************)
EXTENDS Tuner, TLAPS

-----------------------------------------------------------------------------
(* Types of what is put into the working copy.                             *)

\* A line built for a setting is a line.
LEMMA SettingLineType ==
  ASSUME NEW k \in Text, NEW v \in Value, NEW note \in Text
  PROVE  SettingLine(k, v, note) \in Line
BY TextAssumption DEF SettingLine, Line, Form

\* The stamps of a run are lines.
LEMMA StampType ==
  ASSUME NEW t \in Nat
  PROVE  /\ ourParamString(lastTunedParam, t) \in Line
         /\ ourParamString(lastTunedVersionParam, t) \in Line
BY TextAssumption DEF ourParamString, SettingLine, Line, Form, Value, Word

\* What taking out the comment group makes of a line is a line.
LEMMA WithoutCommentGroupType ==
  ASSUME NEW line \in Line
  PROVE  /\ withoutCommentGroup(line) \in Line
         /\ withoutCommentGroup(line).key = line.key
         /\ withoutCommentGroup(line).libs = line.libs
         /\ withoutCommentGroup(line).val = line.val
         /\ withoutCommentGroup(line).note = line.note \/ withoutCommentGroup(line).note = mention
<1>1. uncommented(line.form) \in Form /\ joined(line.form) \in Form
  BY DEF uncommented, joined, Line, Form
<1>2. mention \in Text
  BY TextAssumption DEF Mentions
<1>3. \/ withoutCommentGroup(line) = [line EXCEPT !.form = uncommented(@)]
      \/ withoutCommentGroup(line) = line
      \/ withoutCommentGroup(line) = [line EXCEPT !.form = joined(@), !.note = mention]
  BY DEF withoutCommentGroup
<1> QED
  BY <1>1, <1>2, <1>3 DEF Line

\* Editing a library line keeps it a line.
LEMMA UpdateLibType ==
  ASSUME NEW line \in Line
  PROVE  updateSharedLibLine(line) \in Line
<1> DEFINE l == IF hasTimescale(line) THEN line.libs ELSE line.libs \cup {extName}
<1>1. l \in SUBSET Text
  BY TextAssumption DEF Line
<1>2. updateSharedLibLine(line) = [withoutCommentGroup(line) EXCEPT !.libs = l]
  BY WithoutCommentGroupType DEF updateSharedLibLine
<1> QED
  BY <1>1, <1>2, WithoutCommentGroupType DEF Line

\* PutLine replaces or appends a line of the working copy.
LEMMA PutLineType ==
  ASSUME NEW w \in Seq(WorkingLine), NEW where, NEW line \in Line
  PROVE  PutLine(w, where, line) \in Seq(WorkingLine)
<1>1. configLine(line) \in WorkingLine
  BY DEF configLine, WorkingLine
<1>2. CASE where = {}
  BY <1>1, <1>2 DEF PutLine
<1>3. CASE where # {}
  BY <1>1, <1>3 DEF PutLine, ReplaceAll
<1> QED
  BY <1>2, <1>3

\* Stamping and marking duplicates keep the working copy well formed.
LEMMA FinishType ==
  ASSUME NEW w \in Seq(WorkingLine), NEW t \in Nat
  PROVE  removeDuplicates(processOurParams(w, t)) \in Seq(WorkingLine)
<1> DEFINE s == processOurParams(w, t)
<1>1. stampParam(w, lastTunedParam, t) \in Seq(WorkingLine)
  BY PutLineType, StampType DEF stampParam
<1>2. s \in Seq(WorkingLine)
  BY <1>1, PutLineType, StampType DEF processOurParams, stampParam
<1> HIDE DEF s
<1> DEFINE mark(i) ==
      [content |-> s[i].content,
       remove  |-> \/ s[i].remove
                   \/ \E p \in ourParams :
                        /\ parseWithRegex(s[i].content, p)
                        /\ \E j \in DOMAIN s : j > i /\ parseWithRegex(s[j].content, p)]
<1>3. ASSUME NEW i \in 1..Len(s)
      PROVE  mark(i) \in WorkingLine
  <2>1. s[i] \in WorkingLine
    BY <1>2
  <2> QED
    BY <2>1 DEF WorkingLine
<1>4. removeDuplicates(s) = [i \in 1..Len(s) |-> mark(i)]
  BY <1>2 DEF removeDuplicates
<1> HIDE DEF mark
<1>5. removeDuplicates(s) \in Seq(WorkingLine)
  BY <1>2, <1>3, <1>4
<1> QED
  BY <1>5 DEF s

\* The working copy of a file.
LEMMA WorkingCopyType ==
  ASSUME NEW c \in Seq(Line)
  PROVE  WorkingCopy(c) \in Seq(WorkingLine)
<1> DEFINE l(i) == configLine(c[i])
<1>1. ASSUME NEW i \in 1..Len(c)
      PROVE  l(i) \in WorkingLine
  <2>1. c[i] \in Line
    OBVIOUS
  <2> QED
    BY <2>1 DEF configLine, WorkingLine
<1>2. WorkingCopy(c) = [i \in 1..Len(c) |-> l(i)]
  BY DEF WorkingCopy
<1> HIDE DEF l
<1> QED
  BY <1>1, <1>2

\* Every reading of a file is a file.
LEMMA ScannedType ==
  ASSUME NEW c \in Seq(Line), NEW s \in Scanned(c)
  PROVE  s \in Seq(Line)
BY DEF Scanned

\* There are five groups.
LEMMA Tunables == DOMAIN tunables = 1..5 /\ Len(tunables) = 5
<1>1. DOMAIN tunables = 1..5
  BY SMT DEF tunables
<1>2. Len(tunables) = 5
  BY DEF tunables
<1> QED
  BY <1>1, <1>2

\* The keys of a group are words, and what is recommended is a value.
LEMMA KeyType ==
  ASSUME NEW g \in 1..5, NEW i \in DOMAIN SettingsKeys[tunables[g]], NEW p \in Profiles
  PROVE  /\ SettingsKeys[tunables[g]][i] \in Text
         /\ Recommend(p, SettingsKeys[tunables[g]][i]) \in Value
<1>1. SettingsKeys[tunables[g]] \in Seq(Text)
  BY Tunables, SettingsAssumption
<1>2. SettingsKeys[tunables[g]][i] \in TunableKeys
  BY Tunables DEF TunableKeys, KeysOf
<1>3. Recommendation \in [Profiles -> [TunableKeys -> Value]]
  BY SettingsAssumption
<1> QED
  BY <1>1, <1>2, <1>3 DEF Recommend

\* The comment carried over from a line that was read.
LEMMA ExtraType ==
  ASSUME NEW r \in Seq(Line), NEW k
  PROVE  LET found == tuneParseResult(r, k)
         IN (IF found = {} THEN "" ELSE r[CHOOSE i \in found : TRUE].note) \in Text
<1> DEFINE found == tuneParseResult(r, k)
<1>1. found \subseteq DOMAIN r
  BY DEF tuneParseResult, LastMatch
<1>2. ASSUME found # {}
      PROVE  r[CHOOSE i \in found : TRUE].note \in Text
  <2>1. (CHOOSE i \in found : TRUE) \in DOMAIN r
    BY <1>1, <1>2
  <2>2. r[CHOOSE i \in found : TRUE] \in Line
    BY <2>1
  <2> QED
    BY <2>2 DEF Line
<1> QED
  BY <1>2, TextAssumption

\* The library line a run proposes is a line.
LEMMA NewLibType ==
  ASSUME read \in Seq(Line)
  PROVE  newLibLine \in Line
<1>1. plainSharedLibLine \in Line
  BY TextAssumption DEF plainSharedLibLine, Line, Form, Value, Word
<1>2. libFound \subseteq DOMAIN read
  BY DEF libFound, sharedLibResult, LastMatch
<1>3. ASSUME libFound # {}
      PROVE  read[CHOOSE i \in libFound : TRUE] \in Line
  <2>1. (CHOOSE i \in libFound : TRUE) \in DOMAIN read
    BY <1>2, <1>3
  <2> QED
    BY <2>1
<1> QED
  BY <1>1, <1>3, UpdateLibType DEF newLibLine

-----------------------------------------------------------------------------
(* Type correctness.                                                       *)

\* While settings are applied there is a group they are of.
GroupInApply == pc = "apply" => group <= Len(tunables)

\* What an action that leaves all but the place alone needs.
LEMMA PlaceType ==
  ASSUME TypeOK, pc' \in PCs, exit' \in Reasons, UNCHANGED <<disk, session, work>>
  PROVE  TypeOK'
BY DEF TypeOK, disk, session, work

\* The initial states are typed.
LEMMA InitType == Init => TypeOK
<1> SUFFICES ASSUME Init PROVE TypeOK
  OBVIOUS
<1>1. file \in [{"conf", "out"} -> Seq(Line)]
  BY TunerAssumption DEF Init
<1>2. flags \in Flags
  BY TunerAssumption DEF Init
<1>3. group \in 1..(Len(tunables) + 1)
  BY Tunables DEF Init
<1> QED
  BY <1>1, <1>2, <1>3 DEF Init, TypeOK, PCs, Reasons

\* Every step keeps the types.
LEMMA StepType == TypeOK /\ GroupInApply /\ [Next]_vars => TypeOK'
<1> SUFFICES ASSUME TypeOK, GroupInApply, [Next]_vars PROVE TypeOK'
  OBVIOUS
<1> USE DEF Goto, Exit
<1>1. ASSUME NEW f \in FlagSets, NEW d \in ClockSteps, Run(f, d)
      PROVE  TypeOK'
  <2>1. f \in Flags /\ d \in Nat
    BY TunerAssumption
  <2>2. group' \in 1..(Len(tunables) + 1)
    BY <1>1, Tunables DEF Run
  <2> QED
    BY <1>1, <2>1, <2>2 DEF Run, TypeOK, disk, PCs, Reading, Reasons
<1>2. CASE AppendOutput
  <2>1. file' \in [{"conf", "out"} -> Seq(Line)]
    BY <1>2 DEF AppendOutput, TypeOK
  <2> QED
    BY <1>2, <2>1 DEF AppendOutput, TypeOK, PCs, Reasons
<1>3. CASE Kill
  BY <1>3, PlaceType DEF Kill, PCs, Reasons
<1>4. CASE EnvironmentFails
  BY <1>4, PlaceType DEF EnvironmentFails, PCs, Reasons
<1>5. CASE initializeSystemConfig
  BY <1>5, PlaceType DEF initializeSystemConfig, PCs, Reading, TypeOK
<1>6. CASE processConfFileCheck
  BY <1>6, PlaceType DEF processConfFileCheck, PCs, Reading, Reasons, TypeOK
<1>7. CASE getConfigFileState
  <2>1. file["conf"] \in Seq(Line)
    BY DEF TypeOK
  <2>2. read' \in Seq(Line) /\ lines' \in Seq(WorkingLine)
    BY <1>7, <2>1, ScannedType, WorkingCopyType DEF getConfigFileState
  <2> QED
    BY <1>7, <2>2 DEF getConfigFileState, TypeOK, disk, session, PCs, Reading
<1>8. CASE restore
  <2>1. ASSUME NEW m \in DOMAIN backups, NEW s \in Scanned(backups[m])
        PROVE  WorkingCopy(s) \in Seq(WorkingLine)
    BY ScannedType, WorkingCopyType DEF TypeOK
  <2>2. lines' \in Seq(WorkingLine)
    BY <1>8, <2>1 DEF restore, TypeOK
  <2>3. pc' \in PCs /\ exit' \in Reasons
    BY <1>8 DEF restore, PCs, Reading, Reasons, TypeOK
  <2> QED
    BY <1>8, <2>2, <2>3 DEF restore, TypeOK, disk, session
<1>9. CASE backup
  <2>1. CASE flags.dryRun
    BY <1>9, <2>1 DEF backup, TypeOK, session, PCs, Deciding
  <2>2. CASE ~flags.dryRun
    <3> DEFINE b(m) == IF m = now THEN <<>> ELSE backups[m]
    <3>2. \A m \in DOMAIN backups \cup {now} : b(m) \in Seq(Line)
      BY DEF TypeOK
    <3>3. backups' = [m \in DOMAIN backups \cup {now} |-> b(m)]
      BY <1>9, <2>2 DEF backup
    <3> HIDE DEF b
    <3>1. /\ backups' \in [DOMAIN backups' -> Seq(Line)]
          /\ DOMAIN backups' \subseteq Nat
      BY <3>2, <3>3 DEF TypeOK
    <3> QED
      BY <1>9, <2>2, <3>1 DEF backup, TypeOK, session, PCs, Writing
  <2> QED
    BY <2>1, <2>2
<1>10. ASSUME NEW c \in Seq(Line), pos <= Len(lines)
       PROVE  Put(c) \in Seq(Line)
  <2>1. lines[pos] \in WorkingLine
    BY <1>10 DEF TypeOK
  <2> QED
    BY <2>1 DEF Put, WorkingLine
<1>11. CASE backupLine
  <2>1. /\ backups' \in [DOMAIN backups' -> Seq(Line)]
        /\ DOMAIN backups' \subseteq Nat
    BY <1>10, <1>11 DEF backupLine, TypeOK
  <2> QED
    BY <1>11, <2>1 DEF backupLine, TypeOK, session
<1>12. CASE backupDone
  BY <1>12, PlaceType DEF backupDone, PCs, Deciding, TypeOK
<1>13. outPath \in {"conf", "out"}
  BY DEF outPath
<1>14. CASE createConf
  <2>1. file' \in [{"conf", "out"} -> Seq(Line)] /\ overwritten' \subseteq Seq(Line)
    BY <1>13, <1>14 DEF createConf, TypeOK
  <2>2. pc' \in PCs
    BY <1>14 DEF createConf, PCs, Writing
  <2> QED
    BY <1>14, <2>1, <2>2 DEF createConf, TypeOK, session
<1>15. CASE writeLine
  <2>1. file' \in [{"conf", "out"} -> Seq(Line)]
    BY <1>10, <1>13, <1>15 DEF writeLine, TypeOK
  <2> QED
    BY <1>15, <2>1 DEF writeLine, TypeOK, session
<1>16. CASE writeDone
  BY <1>16, PlaceType DEF writeDone, PCs, Reasons
<1>17. libUpdated \in Seq(WorkingLine)
  BY NewLibType, PutLineType DEF TypeOK, libUpdated
<1>18. SharedLib \in Text
  BY TextAssumption
<1>19. CASE processSharedLibLine
  <2>1. lines' \in Seq(WorkingLine) /\ accepted' \subseteq Text
    BY <1>17, <1>18, <1>19 DEF processSharedLibLine, TypeOK
  <2>2. pc' \in PCs /\ exit' \in Reasons
    BY <1>19 DEF processSharedLibLine, PCs, Deciding, Reasons, TypeOK
  <2> QED
    BY <1>19, <2>1, <2>2 DEF processSharedLibLine, TypeOK, disk, session
<1>20. CASE processQuietSharedLib
  <2>1. lines' \in Seq(WorkingLine) /\ accepted' \subseteq Text
    BY <1>17, <1>18, <1>20 DEF processQuietSharedLib, TypeOK
  <2>2. printed' \in Seq(Line)
    <3>1. printed \in Seq(Line) /\ newLibLine \in Line
      BY NewLibType DEF TypeOK
    <3>2. printed' = printed \/ printed' = Append(printed, newLibLine)
      BY <1>20 DEF processQuietSharedLib
    <3> QED
      BY <3>1, <3>2
  <2> QED
    BY <1>20, <2>1, <2>2 DEF processQuietSharedLib, TypeOK, disk, session, PCs, Deciding
<1>21. CASE promptTune
  BY <1>21, PlaceType DEF promptTune, PCs, Deciding, Reasons, TypeOK
<1>22. group <= Len(tunables) => group + 1 \in 1..(Len(tunables) + 1)
  BY Tunables DEF TypeOK
<1>23. CASE nextGroup
  BY <1>22, <1>23 DEF nextGroup, TypeOK, disk, session
<1>24. CASE groupError
  BY <1>24, PlaceType DEF groupError, PCs, Reasons
<1>25. CASE processSettingsGroup
  <2>1. pc' \in PCs /\ exit' \in Reasons
    BY <1>25 DEF processSettingsGroup, PCs, Deciding, Reasons, TypeOK
  <2>2. group' \in 1..(Len(tunables) + 1) /\ pos' \in Nat \ {0}
    BY <1>22, <1>25 DEF processSettingsGroup, TypeOK
  <2> QED
    BY <1>25, <2>1, <2>2 DEF processSettingsGroup, TypeOK, disk, session
<1>26. CASE applySetting
  <2> DEFINE k     == keys[pos]
             rec   == Recommend(flags.profile, k)
             found == tuneParseResult(read, k)
             extra == IF found = {} THEN "" ELSE read[CHOOSE i \in found : TRUE].note
             inFile == SettingLine(k, rec, extra)
             shown  == SettingLine(k, rec, "")
  <2>1. pc = "apply" /\ pos <= Len(keys)
    BY <1>26 DEF applySetting
  <2>2. group \in 1..5
    BY <2>1, Tunables DEF TypeOK, GroupInApply
  <2>3. flags.profile \in Profiles
    BY DEF TypeOK, Flags
  <2>4. pos \in DOMAIN SettingsKeys[tunables[group]]
    <3>1. SettingsKeys[tunables[group]] \in Seq(Text)
      BY <2>2, Tunables, SettingsAssumption
    <3> QED
      BY <2>1, <3>1 DEF keys, label, TypeOK
  <2>5. k \in Text /\ rec \in Value
    BY <2>2, <2>3, <2>4, KeyType DEF keys, label
  <2>6. extra \in Text
    BY ExtraType DEF TypeOK
  <2>7. inFile \in Line /\ shown \in Line
    BY <2>5, <2>6, SettingLineType, TextAssumption
  <2>8. \/ UNCHANGED <<lines, printed, accepted>>
        \/ /\ lines' = PutLine(lines, found, inFile)
           /\ printed' = printed \/ printed' = Append(printed, shown)
           /\ accepted' = accepted \cup {k}
    BY <1>26 DEF applySetting
  <2> HIDE DEF k, rec, found, extra, inFile, shown
  <2>9. lines' \in Seq(WorkingLine)
    <3>1. lines \in Seq(WorkingLine)
      BY DEF TypeOK
    <3>2. PutLine(lines, found, inFile) \in Seq(WorkingLine)
      BY <2>7, <3>1, PutLineType
    <3> QED
      BY <2>8, <3>1, <3>2
  <2>10. printed' \in Seq(Line)
    <3>1. printed \in Seq(Line)
      BY DEF TypeOK
    <3>2. Append(printed, shown) \in Seq(Line)
      BY <2>7, <3>1
    <3> QED
      BY <2>8, <3>1, <3>2
  <2>11. accepted' \subseteq Text
    BY <2>5, <2>8 DEF TypeOK
  <2>12. /\ pos' = pos + 1 /\ pc' = pc /\ exit' = exit
         /\ UNCHANGED <<disk, session, read, group>>
    BY <1>26 DEF applySetting
  <2> QED
    BY <2>9, <2>10, <2>11, <2>12 DEF TypeOK, disk, session
<1>27. CASE applyDone
  <2>1. group + 1 \in 1..(Len(tunables) + 1)
    BY <1>22, <1>27 DEF applyDone, GroupInApply
  <2> QED
    BY <1>27, <2>1 DEF applyDone, TypeOK, disk, session, PCs, Deciding
<1>28. CASE pc = "idle" /\ UNCHANGED vars
  BY <1>28 DEF vars, TypeOK
<1>29. CASE groupsDone
  BY <1>29, PlaceType DEF groupsDone, PCs, Deciding, TypeOK
<1>30. CASE quietPrompt
  <2>1. printed' \in Seq(Line)
    <3> DEFINE a == ourParamString(lastTunedParam, now)
               b == ourParamString(lastTunedVersionParam, now)
    <3>1. a \in Line /\ b \in Line /\ printed \in Seq(Line)
      BY StampType DEF TypeOK
    <3>2. printed' = printed \/ printed' = printed \o <<a, b>>
      BY <1>30 DEF quietPrompt
    <3> HIDE DEF a, b
    <3>3. <<a, b>> \in Seq(Line)
      BY <3>1
    <3>4. ASSUME NEW s \in Seq(Line) PROVE printed \o s \in Seq(Line)
      BY <3>1
    <3> QED
      BY <3>1, <3>2, <3>3, <3>4
  <2>2. pc' \in PCs /\ exit' \in Reasons
    BY <1>30 DEF quietPrompt, PCs, Deciding, Reasons, TypeOK
  <2> QED
    BY <1>30, <2>1, <2>2 DEF quietPrompt, TypeOK, disk, session
<1>31. CASE finishLines
  <2>1. lines' \in Seq(WorkingLine)
    BY <1>31, FinishType DEF finishLines, TypeOK
  <2>2. pc' \in PCs /\ exit' \in Reasons
    BY <1>31 DEF finishLines, PCs, Reasons, TypeOK
  <2> QED
    BY <1>31, <2>1, <2>2 DEF finishLines, TypeOK, disk, session
<1>32. CASE UNCHANGED vars
  BY <1>32 DEF vars, TypeOK
<1> QED
  BY <1>1, <1>2, <1>3, <1>4, <1>5, <1>6, <1>7, <1>8, <1>9, <1>11, <1>12, <1>14, <1>15,
     <1>16, <1>19, <1>20, <1>21, <1>23, <1>24, <1>25, <1>26, <1>27, <1>28, <1>29, <1>30, <1>31,
     <1>32
  DEF Next, Program

\* No step leaves the groups while applying one.
LEMMA StepGroup == TypeOK /\ GroupInApply /\ [Next]_vars => GroupInApply'
<1> SUFFICES ASSUME TypeOK, GroupInApply, [Next]_vars, pc' = "apply"
             PROVE  group' <= Len(tunables)
  BY DEF GroupInApply
<1> USE DEF Goto, Exit
<1>1. CASE processSettingsGroup
  BY <1>1 DEF processSettingsGroup
<1>2. CASE applySetting
  BY <1>2 DEF applySetting, GroupInApply
<1>3. CASE UNCHANGED vars
  BY <1>3 DEF vars, GroupInApply
<1>4. ASSUME NEW f \in FlagSets, NEW d \in ClockSteps, Run(f, d)
      PROVE  FALSE
  BY <1>4 DEF Run
<1>5. CASE AppendOutput \/ Kill \/ EnvironmentFails \/ initializeSystemConfig
           \/ processConfFileCheck \/ getConfigFileState \/ restore
  BY <1>5 DEF AppendOutput, Kill, EnvironmentFails, initializeSystemConfig,
              processConfFileCheck, getConfigFileState, restore
<1>6. CASE backup \/ backupLine \/ backupDone \/ createConf \/ writeLine \/ writeDone
  BY <1>6 DEF backup, backupLine, backupDone, createConf, writeLine, writeDone
<1>7. CASE processSharedLibLine \/ processQuietSharedLib \/ promptTune \/ nextGroup
           \/ groupError \/ applyDone \/ groupsDone \/ quietPrompt \/ finishLines
  BY <1>7 DEF processSharedLibLine, processQuietSharedLib, promptTune, nextGroup,
              groupError, applyDone, groupsDone, quietPrompt, finishLines
<1> QED
  BY <1>1, <1>2, <1>3, <1>4, <1>5, <1>6, <1>7 DEF Next, Program

TypeInv == TypeOK /\ GroupInApply

\* Every reachable state is typed (TypeOK of Tuner), whatever the file, the
\* flags, the answers and the faults: the program's edits only ever put lines
\* into the working copy, and its loops stay inside their sequences.
THEOREM TypeCorrect == Spec => []TypeOK
<1>1. Init => TypeInv
  BY InitType DEF TypeInv, GroupInApply, Init
<1>2. TypeInv /\ [Next]_vars => TypeInv'
  BY StepType, StepGroup DEF TypeInv
<1>3. TypeInv => TypeOK
  BY DEF TypeInv
<1> QED
  BY <1>1, <1>2, <1>3, PTL DEF Spec

-----------------------------------------------------------------------------
(* Safety: the conjuncts of SafeInv one by one.                            *)

\* The branches of Run are never mixed.
LEMMA StepModes == Modes /\ [Next]_vars => Modes'
<1> SUFFICES ASSUME Modes, [Next]_vars PROVE Modes'
  OBVIOUS
<1> USE DEF Goto, Exit, Modes, Deciding, session
<1>1. ASSUME NEW f \in FlagSets, NEW d \in ClockSteps, Run(f, d)
      PROVE  Modes'
  BY <1>1 DEF Run
<1>2. CASE AppendOutput \/ Kill \/ EnvironmentFails \/ initializeSystemConfig
           \/ processConfFileCheck
  BY <1>2 DEF AppendOutput, Kill, EnvironmentFails, initializeSystemConfig,
              processConfFileCheck
<1>3. CASE getConfigFileState \/ restore \/ backup \/ backupLine \/ backupDone
  BY <1>3 DEF getConfigFileState, restore, backup, backupLine, backupDone
<1>4. CASE createConf \/ writeLine \/ writeDone
  BY <1>4 DEF createConf, writeLine, writeDone
<1>5. CASE processSharedLibLine \/ processQuietSharedLib \/ promptTune
  BY <1>5 DEF processSharedLibLine, processQuietSharedLib, promptTune
<1>6. CASE nextGroup \/ groupError \/ processSettingsGroup
  BY <1>6 DEF nextGroup, groupError, processSettingsGroup
<1>7. CASE applySetting \/ applyDone \/ groupsDone
  BY <1>7 DEF applySetting, applyDone, groupsDone
<1>8. CASE quietPrompt \/ finishLines
  BY <1>8 DEF quietPrompt, finishLines
<1>9. CASE UNCHANGED vars
  BY <1>9 DEF vars
<1> QED
  BY <1>1, <1>2, <1>3, <1>4, <1>5, <1>6, <1>7, <1>8, <1>9 DEF Next, Program

\* A step that leaves both files alone, is not the start of a run, and does
\* not go on with anything else once the writing of a file has begun.
LeavesFiles ==
  /\ UNCHANGED <<file, overwritten, session>>
  /\ pc' \in {"writeLines", "restoreLines"} => pc' = pc
  /\ pc \in {"idle", "writeLines", "restoreLines"} => pc' \in {pc, "idle"}
  /\ pc = "idle" => exit' = exit
  /\ exit' \in {"declined", "internal"}
       => exit' = exit \/ pc \notin {"idle", "writeLines", "restoreLines"}

\* Only four actions change a file or begin a run.
LEMMA FileSteps ==
  ASSUME [Next]_vars
  PROVE  \/ \E f \in FlagSets, d \in ClockSteps : Run(f, d)
         \/ AppendOutput
         \/ createConf
         \/ writeLine
         \/ LeavesFiles
<1> USE DEF Goto, Exit, disk, LeavesFiles, Refusals
<1>1. CASE Kill \/ EnvironmentFails
  BY <1>1 DEF Kill, EnvironmentFails, Writing
<1>2. CASE initializeSystemConfig \/ processConfFileCheck \/ getConfigFileState \/ restore
  BY <1>2 DEF initializeSystemConfig, processConfFileCheck, getConfigFileState, restore
<1>3. CASE backup \/ backupLine \/ backupDone \/ writeDone
  BY <1>3 DEF backup, backupLine, backupDone, writeDone
<1>4. CASE processSharedLibLine \/ processQuietSharedLib \/ promptTune
  BY <1>4 DEF processSharedLibLine, processQuietSharedLib, promptTune
<1>5. CASE nextGroup \/ groupError \/ processSettingsGroup
  BY <1>5 DEF nextGroup, groupError, processSettingsGroup
<1>6. CASE applySetting \/ applyDone \/ groupsDone
  BY <1>6 DEF applySetting, applyDone, groupsDone
<1>7. CASE quietPrompt \/ finishLines
  BY <1>7 DEF quietPrompt, finishLines
<1>8. CASE UNCHANGED vars
  BY <1>8 DEF vars, session
<1> QED
  BY <1>1, <1>2, <1>3, <1>4, <1>5, <1>6, <1>7, <1>8 DEF Next, Program

\* Nothing is written before WriteTo.
LEMMA StepFilesAsBefore == FilesAsBefore /\ [Next]_vars => FilesAsBefore'
<1> SUFFICES ASSUME FilesAsBefore, [Next]_vars PROVE FilesAsBefore'
  OBVIOUS
<1> USE DEF FilesAsBefore, Goto, Exit
<1>1. CASE \E f \in FlagSets, d \in ClockSteps : Run(f, d)
  BY <1>1 DEF Run, disk
<1>2. CASE AppendOutput
  BY <1>2 DEF AppendOutput
<1>3. CASE createConf \/ writeLine
  BY <1>3 DEF createConf, writeLine
<1>4. CASE LeavesFiles
  BY <1>4 DEF LeavesFiles, session
<1> QED
  BY <1>1, <1>2, <1>3, <1>4, FileSteps

\* Only the output changes, after the last question, and not in a --dry-run.
LEMMA StepConsent ==
  TypeOK /\ Modes /\ FilesAsBefore /\ OnlyConsentedWrites /\ [Next]_vars
    => OnlyConsentedWrites'
<1> SUFFICES ASSUME TypeOK, Modes, FilesAsBefore, OnlyConsentedWrites, [Next]_vars
             PROVE  OnlyConsentedWrites'
  OBVIOUS
<1> USE DEF OnlyConsentedWrites, Goto, Exit
<1>1. CASE \E f \in FlagSets, d \in ClockSteps : Run(f, d)
  BY <1>1 DEF Run, disk
<1>2. CASE AppendOutput
  BY <1>2 DEF AppendOutput
<1>3. ASSUME createConf \/ writeLine, NEW p \in {"conf", "out"}, file'[p] # before'[p]
      PROVE  /\ p = outPath'
             /\ flags'.dryRun => flags'.restore
             /\ exit' \notin {"declined", "internal"}
             /\ pc' \in {"writeLines", "restoreLines", "idle"}
  <2>1. flags' = flags /\ before' = before /\ exit' = exit /\ outPath' = outPath
    BY <1>3 DEF createConf, writeLine, session, outPath
  <2>2. pc' \in {"writeLines", "restoreLines"}
    BY <1>3 DEF createConf, writeLine
  <2>3. flags.dryRun => flags.restore
    BY <1>3 DEF createConf, writeLine, Modes
  <2>4. p # outPath => file'[p] = file[p]
    BY <1>3 DEF createConf, writeLine, TypeOK
  <2>5. p = outPath
    <3>1. p # outPath => file[p] # before[p]
      BY <1>3, <2>1, <2>4
    <3> QED
      BY <1>3, <3>1
  <2>6. exit = "none"
    BY <1>3 DEF createConf, writeLine, Modes
  <2> QED
    BY <2>1, <2>2, <2>3, <2>5, <2>6
<1>4. CASE LeavesFiles
  BY <1>4 DEF LeavesFiles, session, outPath, FilesAsBefore
<1> QED
  BY <1>1, <1>2, <1>3, <1>4, FileSteps

\* How a run comes to make its backup, and how it goes on with it.
LEMMA BackupSteps ==
  ASSUME [Next]_vars, pc' \in {"backup", "backupLines"}
  PROVE  \/ getConfigFileState
         \/ pc = "backup" /\ backup
         \/ pc = "backupLines" /\ backupLine
         \/ UNCHANGED vars
<1> USE DEF Goto, Exit
<1>1. CASE \E f \in FlagSets, d \in ClockSteps : Run(f, d)
  BY <1>1 DEF Run
<1>2. CASE AppendOutput \/ Kill \/ EnvironmentFails \/ initializeSystemConfig
           \/ processConfFileCheck \/ restore \/ backup \/ backupLine \/ backupDone
  BY <1>2 DEF AppendOutput, Kill, EnvironmentFails, initializeSystemConfig,
              processConfFileCheck, restore, backup, backupLine, backupDone
<1>3. CASE createConf \/ writeLine \/ writeDone
  BY <1>3 DEF createConf, writeLine, writeDone
<1>4. CASE processSharedLibLine \/ processQuietSharedLib \/ promptTune
  BY <1>4 DEF processSharedLibLine, processQuietSharedLib, promptTune
<1>5. CASE nextGroup \/ groupError \/ processSettingsGroup
  BY <1>5 DEF nextGroup, groupError, processSettingsGroup
<1>6. CASE applySetting \/ applyDone \/ groupsDone
  BY <1>6 DEF applySetting, applyDone, groupsDone
<1>7. CASE quietPrompt \/ finishLines
  BY <1>7 DEF quietPrompt, finishLines
<1> QED
  BY <1>1, <1>2, <1>3, <1>4, <1>5, <1>6, <1>7 DEF Next, Program

\* Writing one more line of an unmarked copy of a file extends the prefix that
\* has been written.
LEMMA PutPrefix ==
  ASSUME NEW c \in Seq(Line), lines = WorkingCopy(c), pos \in Nat \ {0}, pos <= Len(lines)
  PROVE  pos <= Len(c) /\ Put(SubSeq(c, 1, pos - 1)) = SubSeq(c, 1, pos)
<1>1. pos \in 1..Len(c)
  <2>1. DOMAIN WorkingCopy(c) = 1..Len(c) /\ Len(c) \in Nat
    BY DEF WorkingCopy
  <2>2. Len(WorkingCopy(c)) = Len(c)
    BY <2>1, WorkingCopyType
  <2> QED
    BY <2>2
<1>2. lines[pos] = configLine(c[pos])
  BY <1>1 DEF WorkingCopy
<1>3. Put(SubSeq(c, 1, pos - 1)) = Append(SubSeq(c, 1, pos - 1), c[pos])
  BY <1>2 DEF Put, configLine
<1>4. Append(SubSeq(c, 1, pos - 1), c[pos]) = SubSeq(c, 1, pos)
  BY <1>1
<1>5. Put(SubSeq(c, 1, pos - 1)) = SubSeq(c, 1, pos)
  BY <1>3, <1>4, Zenon
<1>6. pos <= Len(c)
  BY <1>1
<1> QED
  BY <1>5, <1>6, Zenon

\* The copy to back up is the whole file, and the backup grows along it.
LEMMA StepCopy ==
  ASSUME ReadFaults = FALSE
  PROVE  TypeOK /\ CopyOfFile /\ [Next]_vars => CopyOfFile'
<1> SUFFICES ASSUME TypeOK, CopyOfFile, [Next]_vars, pc' \in {"backup", "backupLines"}
             PROVE  CopyOfFile'
  BY DEF CopyOfFile
<1> USE DEF Goto
<1>1. CASE getConfigFileState
  <2>1. Scanned(file["conf"]) = {file["conf"]}
    <3>1. Scanned(file["conf"]) = {SubSeq(file["conf"], 1, Len(file["conf"]))}
      BY DEF Scanned
    <3>2. SubSeq(file["conf"], 1, Len(file["conf"])) = file["conf"]
      BY DEF TypeOK
    <3> QED
      BY <3>1, <3>2
  <2> QED
    <3>1. lines' = WorkingCopy(file["conf"])
      BY <1>1, <2>1 DEF getConfigFileState
    <3>2. file' = file /\ pc' = "backup"
      BY <1>1 DEF getConfigFileState, disk
    <3> QED
      BY <3>1, <3>2 DEF CopyOfFile, WorkingCopy
<1>2. CASE pc = "backup" /\ backup
  <2>1. /\ pc' = "backupLines" => pos' = 1 /\ now \in DOMAIN backups' /\ backups'[now] = <<>>
        /\ lines' = lines /\ file' = file /\ now' = now
    BY <1>2 DEF backup, session
  <2>2. file["conf"] \in Seq(Line)
    BY DEF TypeOK
  <2>3. SubSeq(file["conf"], 1, 1 - 1) = <<>> /\ 1 <= Len(file["conf"]) + 1
    BY <2>2
  <2>4. lines = WorkingCopy(file["conf"])
    BY <1>2 DEF CopyOfFile
  <2>5. pc' = "backupLines" => backups'[now'] = SubSeq(file'["conf"], 1, pos' - 1)
    BY <2>1, <2>3
  <2>6. pc' = "backupLines" => pos' <= Len(file'["conf"]) + 1 /\ now' \in DOMAIN backups'
    BY <2>1, <2>3
  <2> QED
    BY <2>1, <2>4, <2>5, <2>6 DEF CopyOfFile, WorkingCopy
<1>3. CASE pc = "backupLines" /\ backupLine
  <2>1. /\ lines = WorkingCopy(file["conf"])
        /\ now \in DOMAIN backups
        /\ backups[now] = SubSeq(file["conf"], 1, pos - 1)
    BY <1>3 DEF CopyOfFile
  <2>2. /\ pos <= Len(lines) /\ pos' = pos + 1 /\ pc' = "backupLines"
        /\ backups' = [backups EXCEPT ![now] = Put(backups[now])]
        /\ lines' = lines /\ file' = file /\ now' = now
    BY <1>3 DEF backupLine, session
  <2>3. /\ pos <= Len(file["conf"])
        /\ Put(SubSeq(file["conf"], 1, pos - 1)) = SubSeq(file["conf"], 1, pos)
    BY <2>1, <2>2, PutPrefix DEF TypeOK
  <2>4. backups'[now'] = SubSeq(file'["conf"], 1, pos' - 1)
    BY <2>1, <2>2, <2>3 DEF TypeOK
  <2>5. pos' <= Len(file'["conf"]) + 1
    BY <2>2, <2>3 DEF TypeOK
  <2>6. now' \in DOMAIN backups'
    BY <2>1, <2>2
  <2> QED
    BY <2>1, <2>2, <2>4, <2>5, <2>6 DEF CopyOfFile, WorkingCopy
<1>4. CASE UNCHANGED vars
  BY <1>4 DEF vars, CopyOfFile, WorkingCopy
<1> QED
  BY <1>1, <1>2, <1>3, <1>4, BackupSteps

\* What the steps do to the backups, and when a run has its backup before it.
LEMMA KeepSteps ==
  ASSUME [Next]_vars
  PROVE  \/ \E f \in FlagSets, d \in ClockSteps : Run(f, d)
         \/ createConf
         \/ backup
         \/ backupLine
         \/ /\ UNCHANGED <<backups, overwritten, now>>
            /\ pc' \in BeforeBackup => pc \in BeforeBackup
<1> USE DEF Goto, Exit, disk, session, BeforeBackup
<1>1. CASE AppendOutput \/ Kill \/ EnvironmentFails \/ initializeSystemConfig
           \/ processConfFileCheck
  BY <1>1 DEF AppendOutput, Kill, EnvironmentFails, initializeSystemConfig,
              processConfFileCheck
<1>2. CASE getConfigFileState \/ restore \/ backupDone \/ writeLine \/ writeDone
  BY <1>2 DEF getConfigFileState, restore, backupDone, writeLine, writeDone
<1>3. CASE processSharedLibLine \/ processQuietSharedLib \/ promptTune
  BY <1>3 DEF processSharedLibLine, processQuietSharedLib, promptTune
<1>4. CASE nextGroup \/ groupError \/ processSettingsGroup
  BY <1>4 DEF nextGroup, groupError, processSettingsGroup
<1>5. CASE applySetting \/ applyDone \/ groupsDone
  BY <1>5 DEF applySetting, applyDone, groupsDone
<1>6. CASE quietPrompt \/ finishLines
  BY <1>6 DEF quietPrompt, finishLines
<1>7. CASE UNCHANGED vars
  BY <1>7 DEF vars
<1> QED
  BY <1>1, <1>2, <1>3, <1>4, <1>5, <1>6, <1>7 DEF Next, Program

\* How a run gets past its backup.
LEMMA TuneSteps ==
  ASSUME [Next]_vars, pc' \in {"write", "writeLines"} \cup Deciding
  PROVE  \/ pc = "backupLines" /\ backupDone
         \/ pc = "backup" /\ flags'.dryRun
         \/ pc \in {"write", "writeLines"} \cup Deciding /\ UNCHANGED <<backups, session>>
<1> USE DEF Goto, Exit, disk, Deciding
<1>1. CASE \E f \in FlagSets, d \in ClockSteps : Run(f, d)
  BY <1>1 DEF Run
<1>2. CASE AppendOutput \/ Kill \/ EnvironmentFails \/ initializeSystemConfig
           \/ processConfFileCheck \/ getConfigFileState \/ restore
  BY <1>2 DEF AppendOutput, Kill, EnvironmentFails, initializeSystemConfig,
              processConfFileCheck, getConfigFileState, restore
<1>3. CASE backup \/ backupLine \/ backupDone \/ createConf \/ writeLine \/ writeDone
  BY <1>3 DEF backup, backupLine, backupDone, createConf, writeLine, writeDone, session
<1>4. CASE processSharedLibLine \/ processQuietSharedLib \/ promptTune
  BY <1>4 DEF processSharedLibLine, processQuietSharedLib, promptTune
<1>5. CASE nextGroup \/ groupError \/ processSettingsGroup
  BY <1>5 DEF nextGroup, groupError, processSettingsGroup
<1>6. CASE applySetting \/ applyDone \/ groupsDone
  BY <1>6 DEF applySetting, applyDone, groupsDone
<1>7. CASE quietPrompt \/ finishLines
  BY <1>7 DEF quietPrompt, finishLines
<1>8. CASE UNCHANGED vars
  BY <1>8 DEF vars, session
<1> QED
  BY <1>1, <1>2, <1>3, <1>4, <1>5, <1>6, <1>7, <1>8 DEF Next, Program

\* The backup is complete when the tuning begins, and stays so.
LEMMA StepBackedUp ==
  TypeOK /\ FilesAsBefore /\ CopyOfFile /\ BackedUp /\ [Next]_vars => BackedUp'
<1> SUFFICES ASSUME TypeOK, FilesAsBefore, CopyOfFile, BackedUp, [Next]_vars,
                    pc' \in {"write", "writeLines"} \cup Deciding, ~flags'.dryRun
             PROVE  now' \in DOMAIN backups' /\ backups'[now'] = before'["conf"]
  BY DEF BackedUp
<1>1. CASE pc = "backupLines" /\ backupDone
  <2>1. file["conf"] \in Seq(Line)
    BY DEF TypeOK
  <2>2. /\ lines = WorkingCopy(file["conf"]) /\ now \in DOMAIN backups
        /\ pos <= Len(file["conf"]) + 1
        /\ backups[now] = SubSeq(file["conf"], 1, pos - 1)
    BY <1>1 DEF CopyOfFile
  <2>3. pos > Len(lines) /\ UNCHANGED <<disk, session, work>>
    BY <1>1 DEF backupDone
  <2>4. Len(lines) = Len(file["conf"])
    <3>1. DOMAIN WorkingCopy(file["conf"]) = 1..Len(file["conf"])
      BY <2>1 DEF WorkingCopy
    <3> QED
      BY <2>1, <2>2, <3>1, WorkingCopyType
  <2>5. pos - 1 = Len(file["conf"])
    BY <2>1, <2>2, <2>3, <2>4 DEF TypeOK
  <2>6. SubSeq(file["conf"], 1, Len(file["conf"])) = file["conf"]
    BY <2>1
  <2>7. file["conf"] = before["conf"]
    BY <1>1 DEF FilesAsBefore
  <2> QED
    BY <2>2, <2>3, <2>5, <2>6, <2>7 DEF disk, session
<1>2. CASE pc \in {"write", "writeLines"} \cup Deciding /\ UNCHANGED <<backups, session>>
  BY <1>2 DEF BackedUp, session
<1> QED
  BY <1>1, <1>2, TuneSteps

\* What was overwritten stays in its backup: no later run has the same minute.
LEMMA StepKept ==
  ASSUME 0 \notin ClockSteps
  PROVE  TypeOK /\ Modes /\ FilesAsBefore /\ BackedUp /\ Kept /\ [Next]_vars => Kept'
<1> SUFFICES ASSUME TypeOK, Modes, FilesAsBefore, BackedUp, Kept, [Next]_vars,
                    NEW c \in overwritten'
             PROVE  \E m \in DOMAIN backups' :
                      /\ backups'[m] = c
                      /\ \/ m < now'
                         \/ m = now' /\ pc' \notin BeforeBackup
  BY Zenon DEF Kept
<1>1. c \in overwritten =>
        \E m \in DOMAIN backups :
          /\ backups[m] = c
          /\ \/ m < now
             \/ m = now /\ pc \notin BeforeBackup
  BY Zenon DEF Kept
<1>2. now \in Nat /\ DOMAIN backups \subseteq Nat
  BY DEF TypeOK
<1>3. CASE \E f \in FlagSets, d \in ClockSteps : Run(f, d)
  <2>1. PICK f \in FlagSets, d \in ClockSteps : Run(f, d)
    BY <1>3
  <2>2. d \in Nat /\ d > 0
    BY TunerAssumption
  <2>3. backups' = backups /\ overwritten' = overwritten /\ now' = now + d
    BY <2>1 DEF Run, disk
  <2>4. c \in overwritten
    BY <2>3
  <2>5. PICK m \in DOMAIN backups : backups[m] = c /\ (m < now \/ m = now)
    BY <1>1, <2>4, Zenon
  <2>6. m < now'
    BY <1>2, <2>2, <2>3, <2>5
  <2> QED
    BY <2>3, <2>5, <2>6, Zenon
<1>4. CASE createConf
  <2>1. backups' = backups /\ now' = now
    BY <1>4 DEF createConf, session
  <2>2. pc' \notin BeforeBackup
    BY <1>4 DEF createConf, Goto, BeforeBackup
  <2>3. CASE c \in overwritten
    BY <1>1, <2>1, <2>2, <2>3, Zenon
  <2>4. CASE c \notin overwritten
    <3>1. pc = "write" /\ c = file["conf"]
      BY <1>4, <2>4 DEF createConf
    <3>2. now \in DOMAIN backups /\ backups[now] = before["conf"]
      BY <3>1 DEF BackedUp, Modes
    <3>3. file["conf"] = before["conf"]
      BY <3>1 DEF FilesAsBefore
    <3>4. now \in DOMAIN backups' /\ backups'[now] = c
      BY <2>1, <3>1, <3>2, <3>3
    <3> QED
      BY <2>1, <2>2, <3>4, Zenon
  <2> QED
    BY <2>3, <2>4
<1>5. CASE backup \/ backupLine
  <2>1. overwritten' = overwritten /\ now' = now /\ pc \in BeforeBackup
    BY <1>5 DEF backup, backupLine, session, BeforeBackup
  <2>2. /\ DOMAIN backups \subseteq DOMAIN backups'
        /\ \A m \in DOMAIN backups : m # now => backups'[m] = backups[m]
    BY <1>5 DEF backup, backupLine, TypeOK
  <2>3. c \in overwritten
    BY <2>1
  <2>4. PICK m \in DOMAIN backups : backups[m] = c /\ m < now
    BY <1>1, <2>1, <2>3, Zenon
  <2>5. m # now /\ m \in DOMAIN backups'
    BY <1>2, <2>2, <2>4
  <2>6. backups'[m] = c /\ m < now'
    BY <2>1, <2>2, <2>4, <2>5
  <2> QED
    BY <2>5, <2>6, Zenon
<1>6. CASE /\ UNCHANGED <<backups, overwritten, now>>
           /\ pc' \in BeforeBackup => pc \in BeforeBackup
  <2>1. c \in overwritten /\ backups' = backups /\ now' = now
    BY <1>6
  <2> QED
    BY <1>1, <1>6, <2>1, Zenon
<1> QED
  BY <1>3, <1>4, <1>5, <1>6, KeepSteps

\* The conjuncts of SafeInv together are inductive.
THEOREM SafeInductive ==
  ASSUME 0 \notin ClockSteps, ReadFaults = FALSE
  PROVE  Spec => [](TypeInv /\ SafeInv)
<1>1. Init => TypeInv /\ SafeInv
  BY InitType DEF Init, TypeInv, GroupInApply, SafeInv, Modes, FilesAsBefore, CopyOfFile,
                  BackedUp, Kept, OnlyConsentedWrites, Deciding
<1>2. TypeInv /\ SafeInv /\ [Next]_vars => (TypeInv /\ SafeInv)'
  BY StepType, StepGroup, StepModes, StepFilesAsBefore, StepCopy, StepBackedUp, StepKept,
     StepConsent
  DEF TypeInv, SafeInv
<1> QED
  BY <1>1, <1>2, PTL DEF Spec

\* Every content a tuning run replaced can be restored (backup, writeConfFile),
\* when no two runs share a minute and files are read without errors.
THEOREM Recoverable ==
  ASSUME 0 \notin ClockSteps, ReadFaults = FALSE
  PROVE  Spec => []OriginalRecoverable
<1>1. SafeInv => OriginalRecoverable
  BY DEF SafeInv, Kept, OriginalRecoverable
<1> QED
  BY <1>1, SafeInductive, PTL

\* No step of a tuning run changes postgresql.conf before the backup of that
\* run is complete (Run, tuner.go:290-327).
THEOREM BackupFirst ==
  ASSUME 0 \notin ClockSteps, ReadFaults = FALSE
  PROVE  Spec => BackupBeforeOverwrite
<1> DEFINE A == pc # "idle" /\ ~flags.restore /\ file'["conf"] # file["conf"]
                  => now \in DOMAIN backups /\ backups[now] = before["conf"]
<1>1. TypeInv /\ SafeInv /\ [Next]_vars => [A]_vars
  <2> SUFFICES ASSUME SafeInv, [Next]_vars, pc # "idle", ~flags.restore,
                      file'["conf"] # file["conf"]
               PROVE  now \in DOMAIN backups /\ backups[now] = before["conf"]
    OBVIOUS
  <2>1. pc \in {"write", "writeLines"}
    BY FileSteps DEF Run, AppendOutput, createConf, writeLine, LeavesFiles, disk, SafeInv,
                     Modes
  <2> QED
    BY <2>1 DEF SafeInv, Modes, BackedUp
<1> QED
  BY <1>1, SafeInductive, PTL DEF Spec, BackupBeforeOverwrite

\* Nothing but the output is written, and only after the last question: for
\* every clock, and with read errors (Run, promptUntilValidInput).
THEOREM Consent == Spec => []OnlyConsentedWrites
<1> DEFINE I == TypeInv /\ Modes /\ FilesAsBefore /\ OnlyConsentedWrites
<1>1. Init => I
  BY InitType DEF Init, TypeInv, GroupInApply, Modes, FilesAsBefore, OnlyConsentedWrites,
                  Deciding
<1>2. I /\ [Next]_vars => I'
  BY StepType, StepGroup, StepModes, StepFilesAsBefore, StepConsent DEF TypeInv
<1>3. I => OnlyConsentedWrites
  OBVIOUS
<1> QED
  BY <1>1, <1>2, <1>3, PTL DEF Spec
=============================================================================
