-------------------------- MODULE RefinementProofs --------------------------
(***************************************************************************)
(* Tuner implements SafeEdit, for every file, table of settings, set of    *)
(* flags and number of runs; and a restore that ends well yields a backup. *)
(***************************************************************************)
EXTENDS TunerProofs, TunerRefinement

-----------------------------------------------------------------------------
(* ArchiveInv.                                                             *)

\* A run that is past making its backup does not come before it again.
LEMMA FreshSteps ==
  ASSUME [Next]_vars
  PROVE  \/ \E f \in FlagSets, d \in ClockSteps : Run(f, d)
         \/ pc' \in Fresh => pc \in Fresh
<1> USE DEF Goto, Exit, Fresh
<1>1. CASE AppendOutput \/ Kill \/ EnvironmentFails \/ initializeSystemConfig
           \/ processConfFileCheck \/ getConfigFileState \/ restore
  BY <1>1 DEF AppendOutput, Kill, EnvironmentFails, initializeSystemConfig,
              processConfFileCheck, getConfigFileState, restore
<1>2. CASE backup \/ backupLine \/ backupDone \/ createConf \/ writeLine \/ writeDone
  BY <1>2 DEF backup, backupLine, backupDone, createConf, writeLine, writeDone
<1>3. CASE processSharedLibLine \/ processQuietSharedLib \/ promptTune
  BY <1>3 DEF processSharedLibLine, processQuietSharedLib, promptTune
<1>4. CASE nextGroup \/ groupError \/ processSettingsGroup
  BY <1>4 DEF nextGroup, groupError, processSettingsGroup
<1>5. CASE applySetting \/ applyDone \/ groupsDone
  BY <1>5 DEF applySetting, applyDone, groupsDone
<1>6. CASE quietPrompt \/ finishLines
  BY <1>6 DEF quietPrompt, finishLines
<1>7. CASE UNCHANGED vars
  BY <1>7 DEF vars
<1> QED
  BY <1>1, <1>2, <1>3, <1>4, <1>5, <1>6, <1>7 DEF Next, Program

\* How a run comes to write a restored file.
LEMMA RestoreSteps ==
  ASSUME [Next]_vars, pc' \in {"restoreOpen", "restoreLines"}
  PROVE  \/ restore
         \/ pc = "restoreOpen" /\ createConf
         \/ pc = "restoreLines" /\ writeLine
         \/ UNCHANGED vars
<1> USE DEF Goto, Exit
<1>1. CASE \E f \in FlagSets, d \in ClockSteps : Run(f, d)
  BY <1>1 DEF Run
<1>2. CASE AppendOutput \/ Kill \/ EnvironmentFails \/ initializeSystemConfig
           \/ processConfFileCheck \/ getConfigFileState
  BY <1>2 DEF AppendOutput, Kill, EnvironmentFails, initializeSystemConfig,
              processConfFileCheck, getConfigFileState
<1>3. CASE backup \/ backupLine \/ backupDone \/ createConf \/ writeLine \/ writeDone
  BY <1>3 DEF backup, backupLine, backupDone, createConf, writeLine, writeDone
<1>4. CASE processSharedLibLine \/ processQuietSharedLib \/ promptTune
  BY <1>4 DEF processSharedLibLine, processQuietSharedLib, promptTune
<1>5. CASE nextGroup \/ groupError \/ processSettingsGroup
  BY <1>5 DEF nextGroup, groupError, processSettingsGroup
<1>6. CASE applySetting \/ applyDone \/ groupsDone
  BY <1>6 DEF applySetting, applyDone, groupsDone
<1>7. CASE quietPrompt \/ finishLines
  BY <1>7 DEF quietPrompt, finishLines
<1> QED
  BY <1>1, <1>2, <1>3, <1>4, <1>5, <1>6, <1>7 DEF Next, Program

\* The clock moves past a backup before the next run makes one.
LEMMA StepOwnMinute ==
  ASSUME 0 \notin ClockSteps
  PROVE  TypeOK /\ OwnMinute /\ [Next]_vars => OwnMinute'
<1> SUFFICES ASSUME TypeOK, OwnMinute, [Next]_vars, NEW m \in DOMAIN backups'
             PROVE  m < now' \/ (m = now' /\ pc' \notin Fresh)
  BY DEF OwnMinute
<1>1. now \in Nat /\ DOMAIN backups \subseteq Nat
  BY DEF TypeOK
<1>2. CASE \E f \in FlagSets, d \in ClockSteps : Run(f, d)
  <2>1. PICK f \in FlagSets, d \in ClockSteps : Run(f, d)
    BY <1>2
  <2>2. d \in Nat /\ d > 0
    BY TunerAssumption
  <2>3. backups' = backups /\ now' = now + d
    BY <2>1 DEF Run, disk
  <2>4. m \in Nat /\ m <= now
    BY <1>1, <2>3 DEF OwnMinute
  <2> QED
    BY <1>1, <2>2, <2>3, <2>4
<1>3. CASE backup \/ backupLine
  <2>1. now' = now /\ pc' \notin Fresh
    BY <1>3 DEF backup, backupLine, session, Goto, Fresh
  <2>2. DOMAIN backups' \subseteq DOMAIN backups \cup {now}
    BY <1>3 DEF backup, backupLine
  <2> QED
    BY <1>1, <2>1, <2>2 DEF OwnMinute
<1>4. CASE UNCHANGED <<backups, now>> /\ (pc' \in Fresh => pc \in Fresh)
  BY <1>4 DEF OwnMinute
<1>5. createConf => UNCHANGED <<backups, now>>
  BY DEF createConf, session
<1> QED
  BY <1>2, <1>3, <1>4, <1>5, FreshSteps, KeepSteps

\* A restore writes the lines of a backup, one after the other.
LEMMA StepRestores ==
  ASSUME ReadFaults = FALSE
  PROVE  TypeOK /\ Modes /\ RestoresBackup /\ [Next]_vars => RestoresBackup'
<1> SUFFICES ASSUME TypeOK, Modes, RestoresBackup, [Next]_vars,
                    pc' \in {"restoreOpen", "restoreLines"}
             PROVE  \E m \in DOMAIN backups' :
                      /\ lines' = WorkingCopy(backups'[m])
                      /\ pc' = "restoreLines" =>
                           /\ pos' <= Len(backups'[m]) + 1
                           /\ file'["conf"] = SubSeq(backups'[m], 1, pos' - 1)
  BY DEF RestoresBackup, WorkingCopy
<1>1. \A m \in DOMAIN backups : backups[m] \in Seq(Line)
  BY DEF TypeOK
<1>2. CASE restore
  <2>1. pc' = "restoreOpen" /\ backups' = backups
    BY <1>2 DEF restore, Goto, Exit, disk
  <2>2. PICK m \in DOMAIN backups : \E s \in Scanned(backups[m]) : lines' = WorkingCopy(s)
    BY <1>2, <2>1 DEF restore, Exit
  <2>3. Scanned(backups[m]) = {backups[m]}
    <3>1. Scanned(backups[m]) = {SubSeq(backups[m], 1, Len(backups[m]))}
      BY DEF Scanned
    <3>2. SubSeq(backups[m], 1, Len(backups[m])) = backups[m]
      BY <1>1
    <3> QED
      BY <3>1, <3>2
  <2> QED
    BY <2>1, <2>2, <2>3
<1>3. CASE pc = "restoreOpen" /\ createConf
  <2>1. PICK m \in DOMAIN backups : lines = WorkingCopy(backups[m])
    BY <1>3 DEF RestoresBackup
  <2>2. outPath = "conf"
    BY <1>3 DEF outPath, Modes
  <2>3. file'["conf"] = <<>> /\ pos' = 1 /\ backups' = backups /\ lines' = lines
    BY <1>3, <2>2 DEF createConf, TypeOK
  <2>4. SubSeq(backups[m], 1, 1 - 1) = <<>> /\ 1 <= Len(backups[m]) + 1
    BY <1>1
  <2> QED
    BY <2>1, <2>3, <2>4
<1>4. CASE pc = "restoreLines" /\ writeLine
  <2>1. PICK m \in DOMAIN backups :
          /\ lines = WorkingCopy(backups[m])
          /\ file["conf"] = SubSeq(backups[m], 1, pos - 1)
    BY <1>4 DEF RestoresBackup
  <2>2. outPath = "conf"
    BY <1>4 DEF outPath, Modes
  <2>3. /\ pos <= Len(lines) /\ pos' = pos + 1
        /\ file' = [file EXCEPT !["conf"] = Put(file["conf"])]
        /\ backups' = backups /\ lines' = lines
    BY <1>4, <2>2 DEF writeLine
  <2>4. pos \in Nat \ {0}
    BY DEF TypeOK
  <2>5. /\ pos <= Len(backups[m])
        /\ Put(SubSeq(backups[m], 1, pos - 1)) = SubSeq(backups[m], 1, pos)
    BY <1>1, <2>1, <2>3, <2>4, PutPrefix
  <2>6. file'["conf"] = SubSeq(backups[m], 1, pos)
    BY <2>1, <2>3, <2>5 DEF TypeOK
  <2>7. pos' - 1 = pos /\ pos' <= Len(backups[m]) + 1
    <3>1. Len(backups[m]) \in Nat
      BY <1>1
    <3> QED
      BY <2>3, <2>4, <2>5, <3>1
  <2> QED
    BY <2>1, <2>3, <2>6, <2>7
<1>5. CASE UNCHANGED vars
  BY <1>5 DEF vars, RestoresBackup
<1> QED
  BY <1>2, <1>3, <1>4, <1>5, RestoreSteps

Inv == TypeInv /\ SafeInv /\ ArchiveInv

\* ArchiveInv is inductive with the invariant of TunerProofs.
LEMMA ArchiveInductive ==
  ASSUME 0 \notin ClockSteps, ReadFaults = FALSE
  PROVE  Spec => []Inv
<1>1. Init => ArchiveInv
  BY DEF Init, ArchiveInv, OwnMinute, RestoresBackup
<1>2. TypeInv /\ SafeInv /\ ArchiveInv /\ [Next]_vars => ArchiveInv'
  BY StepOwnMinute, StepRestores DEF TypeInv, SafeInv, ArchiveInv
<1> QED
  BY <1>1, <1>2, SafeInductive, PTL DEF Spec, Inv
-----------------------------------------------------------------------------
(* The simulation, step by step.                                           *)

\* A step that leaves the disk and the clock alone either changes nothing of
\* what SafeEdit sees, or archives, or ends the writing.
QuietStep ==
  /\ UNCHANGED <<file, backups, now, flags>>
  /\ pc' \in {"writeLines", "restoreLines"} => pc' = pc
  /\ pc \in {"writeLines", "restoreLines"} => pc' \in {pc, "idle"}
  /\ pc' \in BeforeBackup => pc \in BeforeBackup
  /\ pc' \in Fresh => pc \in Fresh

LEMMA SimulateQuiet ==
  ASSUME TypeOK, CopyOfFile, OwnMinute, QuietStep
  PROVE  Edit!Archive \/ Edit!End \/ UNCHANGED Edit!state
<1> USE DEF QuietStep
<1>1. CASE pc = "backupLines" /\ pc' \notin BeforeBackup
  <2>1. archive' = archive \cup {backups[now]}
    <3>1. archive = {backups[m] : m \in {n \in DOMAIN backups : n # now}}
      BY <1>1 DEF archive, BeforeBackup
    <3>2. archive' = {backups[m] : m \in DOMAIN backups}
      BY <1>1 DEF archive
    <3>3. now \in DOMAIN backups
      BY <1>1 DEF CopyOfFile
    <3> QED
      BY <3>1, <3>2, <3>3
  <2>2. backups[now] \in Edit!Beginnings(file["conf"])
    <3>1. /\ file["conf"] \in Seq(Line) /\ pos \in Nat \ {0}
          /\ pos <= Len(file["conf"]) + 1
          /\ backups[now] = SubSeq(file["conf"], 1, pos - 1)
      BY <1>1 DEF CopyOfFile, TypeOK
    <3>2. pos - 1 \in 0..Len(file["conf"])
      BY <3>1
    <3> QED
      BY <3>1, <3>2 DEF Edit!Beginnings
  <2>3. writing = "still" /\ writing' = "still"
    BY <1>1 DEF writing
  <2> QED
    BY <2>1, <2>2, <2>3 DEF Edit!Archive
<1>2. CASE ~(pc = "backupLines" /\ pc' \notin BeforeBackup)
  <2>1. archive' = archive
    <3>1. CASE pc \in BeforeBackup <=> pc' \in BeforeBackup
      BY <3>1 DEF archive
    <3>2. CASE pc \in BeforeBackup /\ pc' \notin BeforeBackup
      <4>1. pc \in Fresh
        BY <1>2, <3>2 DEF Fresh, BeforeBackup
      <4>2. now \notin DOMAIN backups
        BY <4>1 DEF OwnMinute, TypeOK
      <4>3. archive = {backups[m] : m \in DOMAIN backups}
        BY <4>2 DEF archive
      <4>4. archive' = {backups[m] : m \in DOMAIN backups}
        BY <3>2 DEF archive
      <4> QED
        BY <4>3, <4>4
    <3> QED
      BY <3>1, <3>2
  <2>2. writing' = writing \/ (writing # "still" /\ writing' = "still")
    BY DEF writing, outPath
  <2>3. CASE writing' = writing
    BY <2>1, <2>3 DEF Edit!state
  <2>4. CASE writing # "still" /\ writing' = "still"
    BY <2>1, <2>4 DEF Edit!End
  <2> QED
    BY <2>2, <2>3, <2>4
<1> QED
  BY <1>1, <1>2

\* The start of a run changes nothing: the minutes before it are past.
LEMMA SimulateRun ==
  ASSUME 0 \notin ClockSteps, TypeOK, OwnMinute,
         NEW f \in FlagSets, NEW d \in ClockSteps, Run(f, d)
  PROVE  UNCHANGED Edit!state
<1>1. d \in Nat /\ d > 0 /\ now \in Nat
  BY TunerAssumption DEF TypeOK
<1>2. /\ backups' = backups /\ file' = file /\ now' = now + d
      /\ pc = "idle" /\ pc' = "init"
  BY DEF Run, disk
<1>3. ASSUME NEW m \in DOMAIN backups
      PROVE  m # now'
  <2>1. m \in Nat
    BY DEF TypeOK
  <2>2. m < now \/ m = now
    BY DEF OwnMinute
  <2> QED
    BY <1>1, <1>2, <2>1, <2>2
<1>4. archive' = archive
  BY <1>2, <1>3 DEF archive, BeforeBackup
<1>5. writing' = writing
  BY <1>2 DEF writing
<1> QED
  BY <1>2, <1>4, <1>5 DEF Edit!state

\* Appended output extends the file.
LEMMA SimulateAppend ==
  ASSUME TypeOK, AppendOutput
  PROVE  Edit!Extend
<1>1. /\ file' = [file EXCEPT !["conf"] = file["conf"] \o printed]
      /\ backups' = backups /\ now' = now /\ pc = "idle" /\ pc' = "idle"
  BY DEF AppendOutput, Exit
<1>2. file["conf"] \in Seq(Line) /\ printed \in Seq(Line)
  BY DEF TypeOK
<1>3. file'["conf"] = file["conf"] \o printed
  BY <1>1 DEF TypeOK
<1>4. /\ SubSeq(file["conf"] \o printed, 1, Len(file["conf"])) = file["conf"]
      /\ Len(file["conf"]) \in 0..Len(file["conf"] \o printed)
  BY <1>2
<1>5. file["conf"] \in Edit!Beginnings(file'["conf"])
  BY <1>3, <1>4 DEF Edit!Beginnings
<1>6. archive' = archive /\ writing' = writing /\ writing = "still"
  BY <1>1 DEF archive, writing
<1> QED
  BY <1>5, <1>6 DEF Edit!Extend

\* A backup that is being made is no part of the archive yet.
LEMMA SimulateBackup ==
  ASSUME TypeOK, OwnMinute, backup \/ backupLine
  PROVE  UNCHANGED Edit!state
<1>1. file' = file /\ now' = now
  BY DEF backup, backupLine, session
<1>2. writing' = "still" /\ writing = "still"
  BY DEF backup, backupLine, writing, Goto
<1>3. archive' = archive
  <2>1. CASE backup /\ flags.dryRun
    <3>1. now \notin DOMAIN backups
      BY <2>1 DEF backup, OwnMinute, Fresh, TypeOK
    <3>2. backups' = backups
      BY <2>1 DEF backup
    <3> QED
      BY <1>1, <3>1, <3>2 DEF archive
  <2>2. CASE backup /\ ~flags.dryRun
    <3>1. /\ DOMAIN backups' = DOMAIN backups \cup {now}
          /\ \A m \in DOMAIN backups : m # now => backups'[m] = backups[m]
          /\ pc \in BeforeBackup /\ pc' \in BeforeBackup
      BY <2>2 DEF backup, Goto, BeforeBackup
    <3> QED
      BY <1>1, <3>1 DEF archive
  <2>3. CASE backupLine
    <3>1. /\ DOMAIN backups' = DOMAIN backups
          /\ \A m \in DOMAIN backups : m # now => backups'[m] = backups[m]
          /\ pc \in BeforeBackup /\ pc' \in BeforeBackup
      BY <2>3 DEF backupLine, Goto, BeforeBackup, TypeOK
    <3> QED
      BY <1>1, <3>1 DEF archive
  <2> QED
    BY <2>1, <2>2, <2>3
<1> QED
  BY <1>1, <1>2, <1>3 DEF Edit!state

\* A tuning run truncates what it has archived, a restore when there is an
\* archive; with --out-path the file is not touched.
LEMMA SimulateCreate ==
  ASSUME TypeOK, SafeInv, RestoresBackup, createConf
  PROVE  Edit!BeginTuning \/ Edit!BeginRestoring \/ UNCHANGED Edit!state
<1>1. /\ file' = [file EXCEPT ![outPath] = <<>>]
      /\ backups' = backups /\ now' = now /\ flags' = flags
  BY DEF createConf, session
<1>2. \/ pc = "write" /\ pc' = "writeLines"
      \/ pc = "restoreOpen" /\ pc' = "restoreLines"
  <2>1. pc \in {"write", "restoreOpen"}
    BY DEF createConf
  <2>2. pc' = IF pc = "write" THEN "writeLines" ELSE "restoreLines"
    BY DEF createConf, Goto
  <2> QED
    BY <2>1, <2>2
<1>3. archive' = archive /\ archive = {backups[m] : m \in DOMAIN backups}
  BY <1>1, <1>2 DEF archive, BeforeBackup
<1>4. outPath \in {"conf", "out"} /\ outPath' = outPath
  BY <1>1 DEF outPath
<1>5. writing = "still"
  BY <1>2 DEF writing
<1>6. CASE pc = "write" /\ outPath = "conf"
  <2>1. file["conf"] \in archive
    <3>1. now \in DOMAIN backups /\ backups[now] = before["conf"]
      BY <1>6 DEF SafeInv, BackedUp, Modes
    <3>2. file["conf"] = before["conf"]
      BY <1>6 DEF SafeInv, FilesAsBefore
    <3> QED
      BY <1>3, <3>1, <3>2
  <2>2. file'["conf"] = <<>>
    BY <1>1, <1>6 DEF TypeOK
  <2>3. writing' = "tuning"
    BY <1>2, <1>4, <1>6 DEF writing
  <2> QED
    BY <1>3, <1>5, <2>1, <2>2, <2>3 DEF Edit!BeginTuning
<1>7. CASE pc = "write" /\ outPath = "out"
  <2>1. file'["conf"] = file["conf"]
    BY <1>1, <1>7 DEF TypeOK
  <2>2. writing' = "still"
    BY <1>2, <1>4, <1>7 DEF writing
  <2> QED
    BY <1>3, <1>5, <2>1, <2>2 DEF Edit!state
<1>8. CASE pc = "restoreOpen"
  <2>1. outPath = "conf"
    BY <1>8 DEF outPath, SafeInv, Modes
  <2>2. file'["conf"] = <<>>
    BY <1>1, <2>1 DEF TypeOK
  <2>3. archive # {}
    BY <1>3, <1>8 DEF RestoresBackup
  <2>4. writing' = "restoring"
    BY <1>2, <1>8 DEF writing
  <2> QED
    BY <1>3, <1>5, <2>2, <2>3, <2>4 DEF Edit!BeginRestoring
<1> QED
  BY <1>2, <1>4, <1>6, <1>7, <1>8

\* One line more, or none for a line that is marked or of the other file.
LEMMA SimulateLine ==
  ASSUME TypeOK, SafeInv, RestoresBackup, RestoresBackup', writeLine
  PROVE  Edit!WriteLine \/ UNCHANGED Edit!state
<1>1. /\ file' = [file EXCEPT ![outPath] = Put(file[outPath])]
      /\ backups' = backups /\ now' = now /\ flags' = flags /\ lines' = lines
      /\ pc \in {"writeLines", "restoreLines"} /\ pc' = pc
      /\ pos \in 1..Len(lines) /\ pos' = pos + 1
  BY DEF writeLine, session, Goto, TypeOK
<1>2. archive' = archive /\ archive = {backups[m] : m \in DOMAIN backups}
  BY <1>1 DEF archive, BeforeBackup
<1>3. outPath \in {"conf", "out"} /\ outPath' = outPath
  BY <1>1 DEF outPath
<1>4. writing' = writing
  BY <1>1, <1>3 DEF writing
<1>5. CASE outPath = "out" \/ lines[pos].remove
  <2>1. file'["conf"] = file["conf"]
    BY <1>1, <1>3, <1>5 DEF TypeOK, Put
  <2> QED
    BY <1>2, <1>4, <2>1 DEF Edit!state
<1>6. CASE outPath = "conf" /\ ~lines[pos].remove
  <2> DEFINE c == file["conf"]
             l == lines[pos].content
  <2>1. c \in Seq(Line) /\ l \in Line
    <3>1. lines[pos] \in WorkingLine
      BY <1>1 DEF TypeOK
    <3> QED
      BY <3>1 DEF TypeOK, WorkingLine
  <2>2. file'["conf"] = Append(c, l)
    BY <1>1, <1>6 DEF TypeOK, Put
  <2> HIDE DEF l
  <2>3. Len(Append(c, l)) = Len(c) + 1 /\ c \in Edit!Beginnings(Append(c, l))
    <3>1. Len(Append(c, l)) = Len(c) + 1 /\ SubSeq(Append(c, l), 1, Len(c)) = c
      BY <2>1
    <3>2. Len(c) \in 0..Len(Append(c, l))
      BY <2>1, <3>1
    <3> QED
      BY <3>1, <3>2 DEF Edit!Beginnings
  <2>4. writing = "tuning" \/ writing = "restoring"
    BY <1>1, <1>6 DEF writing
  <2>5. ASSUME writing = "restoring"
        PROVE  \E text \in archive : file'["conf"] \in Edit!Beginnings(text)
    <3>1. pc' = "restoreLines"
      BY <1>1, <2>5 DEF writing
    <3>2. PICK m \in DOMAIN backups :
            /\ pos' <= Len(backups[m]) + 1
            /\ file'["conf"] = SubSeq(backups[m], 1, pos' - 1)
      BY <1>1, <3>1 DEF RestoresBackup
    <3>3. Len(backups[m]) \in Nat
      BY DEF TypeOK
    <3>4. pos' - 1 \in 0..Len(backups[m])
      BY <1>1, <3>2, <3>3
    <3>5. file'["conf"] \in Edit!Beginnings(backups[m])
      BY <3>2, <3>4 DEF Edit!Beginnings
    <3> QED
      BY <1>2, <3>5
  <2> QED
    BY <1>2, <1>4, <2>2, <2>3, <2>4, <2>5 DEF Edit!WriteLine
<1> QED
  BY <1>3, <1>5, <1>6

\* Tuner implements SafeEdit: at every step, for every table, file and flags
\* (Run, backup, WriteTo, fsRestorer.Restore).
THEOREM Refinement ==
  ASSUME 0 \notin ClockSteps, ReadFaults = FALSE
  PROVE  Spec => ImplementsSafeEdit
<1>1. Init => Edit!Init
  <2> SUFFICES ASSUME Init PROVE Edit!Init
    OBVIOUS
  <2>1. file["conf"] \in Contents /\ backups = [m \in {} |-> <<>>] /\ pc = "idle"
    BY DEF Init
  <2>2. archive = {}
    BY <2>1 DEF archive
  <2> QED
    BY <2>1, <2>2 DEF Edit!Init, writing
<1>2. Inv /\ Inv' /\ [Next]_vars => [Edit!Next]_Edit!state
  <2> SUFFICES ASSUME Inv, Inv', [Next]_vars
               PROVE  Edit!Next \/ UNCHANGED Edit!state
    OBVIOUS
  <2> USE DEF Inv, TypeInv, ArchiveInv
  <2>1. CASE \E f \in FlagSets, d \in ClockSteps : Run(f, d)
    BY <2>1, SimulateRun
  <2>2. CASE AppendOutput
    BY <2>2, SimulateAppend DEF Edit!Next
  <2>3. CASE createConf
    BY <2>3, SimulateCreate DEF Edit!Next
  <2>4. CASE writeLine
    BY <2>4, SimulateLine DEF Edit!Next
  <2>5. CASE backup \/ backupLine
    BY <2>5, SimulateBackup
  <2>6. CASE QuietStep
    BY <2>6, SimulateQuiet DEF Edit!Next, SafeInv
  <2> QED
    BY <2>1, <2>2, <2>3, <2>4, <2>5, <2>6, FileSteps, KeepSteps, FreshSteps
    DEF LeavesFiles, QuietStep, session
<1> QED
  BY <1>1, <1>2, ArchiveInductive, PTL DEF Spec, ImplementsSafeEdit, Edit!Spec

-----------------------------------------------------------------------------
(* The end of a restore.                                                   *)

\* What ends a restoring run well, or keeps it ended.
LEMMA RestoredSteps ==
  ASSUME Modes, [Next]_vars, pc' = "idle", exit' = "ok", flags'.restore
  PROVE  /\ UNCHANGED <<file, backups>>
         /\ \/ pc = "restoreLines" /\ writeDone
            \/ pc = "idle" /\ exit = "ok" /\ flags.restore
<1> USE DEF Goto, Exit, Modes, Deciding, disk, session
<1>1. CASE \E f \in FlagSets, d \in ClockSteps : Run(f, d)
  BY <1>1 DEF Run
<1>2. CASE AppendOutput \/ Kill \/ EnvironmentFails \/ initializeSystemConfig
           \/ processConfFileCheck \/ getConfigFileState \/ restore
  BY <1>2 DEF AppendOutput, Kill, EnvironmentFails, initializeSystemConfig,
              processConfFileCheck, getConfigFileState, restore
<1>3. CASE backup \/ backupLine \/ backupDone \/ createConf \/ writeLine \/ writeDone
  BY <1>3 DEF backup, backupLine, backupDone, createConf, writeLine, writeDone
<1>4. CASE processSharedLibLine \/ processQuietSharedLib \/ promptTune
  BY <1>4 DEF processSharedLibLine, processQuietSharedLib, promptTune
<1>5. CASE nextGroup \/ groupError \/ processSettingsGroup
  BY <1>5 DEF nextGroup, groupError, processSettingsGroup
<1>6. CASE applySetting \/ applyDone \/ groupsDone
  BY <1>6 DEF applySetting, applyDone, groupsDone
<1>7. CASE quietPrompt \/ finishLines
  BY <1>7 DEF quietPrompt, finishLines
<1>8. CASE UNCHANGED vars
  BY <1>8 DEF vars
<1> QED
  BY <1>1, <1>2, <1>3, <1>4, <1>5, <1>6, <1>7, <1>8 DEF Next, Program

\* A restore that ends well has written the whole backup, whatever the file
\* held before (fsRestorer.Restore, WriteTo).
THEOREM RestoredWhole ==
  ASSUME 0 \notin ClockSteps, ReadFaults = FALSE
  PROVE  Spec => []RestoreYieldsBackup
<1>1. Init => RestoreYieldsBackup
  BY DEF Init, RestoreYieldsBackup
<1>2. Inv /\ RestoreYieldsBackup /\ [Next]_vars => RestoreYieldsBackup'
  <2> SUFFICES ASSUME Inv, RestoreYieldsBackup, [Next]_vars,
                      pc' = "idle", exit' = "ok", flags'.restore
               PROVE  \E m \in DOMAIN backups : file["conf"] = backups[m]
    BY RestoredSteps DEF Inv, SafeInv, RestoreYieldsBackup
  <2>1. CASE pc = "restoreLines" /\ writeDone
    <3>1. PICK m \in DOMAIN backups :
            /\ lines = WorkingCopy(backups[m])
            /\ pos <= Len(backups[m]) + 1
            /\ file["conf"] = SubSeq(backups[m], 1, pos - 1)
      BY <2>1 DEF Inv, ArchiveInv, RestoresBackup
    <3>2. backups[m] \in Seq(Line) /\ pos \in Nat \ {0}
      BY DEF Inv, TypeInv, TypeOK
    <3>3. Len(lines) = Len(backups[m])
      <4>1. DOMAIN WorkingCopy(backups[m]) = 1..Len(backups[m])
        BY <3>2 DEF WorkingCopy
      <4> QED
        BY <3>1, <3>2, <4>1, WorkingCopyType
    <3>4. pos - 1 = Len(backups[m])
      BY <2>1, <3>1, <3>2, <3>3 DEF writeDone
    <3>5. SubSeq(backups[m], 1, Len(backups[m])) = backups[m]
      BY <3>2
    <3> QED
      BY <3>1, <3>4, <3>5
  <2>2. CASE pc = "idle" /\ exit = "ok" /\ flags.restore
    BY <2>2 DEF RestoreYieldsBackup
  <2> QED
    BY <2>1, <2>2, RestoredSteps DEF Inv, SafeInv
<1> QED
  BY <1>1, <1>2, ArchiveInductive, PTL DEF Spec
=============================================================================
