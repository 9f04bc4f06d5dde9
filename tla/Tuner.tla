------------------------------- MODULE Tuner -------------------------------
(***************************************************************************)
(* timescaledb-tune as its user meets it: one machine with a               *)
(* postgresql.conf, a second file that --out-path may name, the backups in *)
(* the temp directory, and the command run again and again with different  *)
(* flags and different answers to its prompts (pkg/tstune/tuner.go,        *)
(* config_file.go and backup.go).                                          *)
(*                                                                         *)
(* "pc" is the place in Tuner.Run.  Each action is one handler up to the   *)
(* next prompt or file operation; WriteTo writes line by line, and the     *)
(* process may be killed, or an operation may fail, between any two steps. *)
(* A reply a prompt does not accept asks again and changes nothing, so it  *)
(* is a stuttering step here.                                              *)
(***************************************************************************)
EXTENDS Settings, FiniteSets

CONSTANTS Contents,    \* what postgresql.conf may hold before the first run
          FlagSets,    \* the combinations of flags the command is run with
          ClockSteps,  \* minutes that may pass between two runs
          MaxMinute,   \* bound on the clock, in minutes
          ReadFaults   \* whether reading a file may fail part of the way

Flags == [yes : BOOLEAN, quiet : BOOLEAN, dryRun : BOOLEAN, restore : BOOLEAN,
          outPath : BOOLEAN, confPath : BOOLEAN, profile : Profiles]

ASSUME TunerAssumption ==
  /\ Contents \subseteq Seq(Line)
  /\ FlagSets \subseteq Flags
  /\ ClockSteps \subseteq Nat
  /\ MaxMinute \in Nat
  /\ ReadFaults \in BOOLEAN

VARIABLES
  file,         \* the lines of "conf" (postgresql.conf) and of "out" (--out-path)
  backups,      \* minute in the name of a backup |-> its lines
  now,          \* the clock, in minutes
  flags,        \* flags of the current or last run
  pc,           \* where in Tuner.Run the program is, "idle" between runs
  exit,         \* how the last run ended, "none" while one is going on
  read,         \* the lines as getConfigFileState read and parsed them
  lines,        \* cfs.lines, the working copy
  group,        \* index into tunables
  pos,          \* loop index: a key of the group, or a line being written
  printed,      \* what --quiet printed as recommendations
  accepted,     \* history: the keys the user let the program change
  before,       \* history: both files when the run began
  overwritten   \* history: every content of conf a tuning run has replaced

vars == <<file, backups, now, flags, pc, exit, read, lines, group, pos,
          printed, accepted, before, overwritten>>

disk    == <<file, backups, overwritten>>
session == <<now, flags, before>>
work    == <<read, lines, group, pos, printed, accepted>>

Reasons == {"none", "ok", "declined", "error", "internal", "killed"}
Reading == {"init", "confCheck", "read", "backup", "restore", "restoreOpen"}
Writing == {"backupLines", "writeLines", "restoreLines"}
Deciding == {"sharedLib", "tune", "group", "apply", "quietPrompt", "ourParams"}
PCs == {"idle", "write"} \cup Reading \cup Writing \cup Deciding

-----------------------------------------------------------------------------
Init ==
  /\ \E c \in Contents : file = [p \in {"conf", "out"} |-> IF p = "conf" THEN c ELSE <<>>]
  /\ backups = [m \in {} |-> <<>>]
  /\ now = 0
  /\ flags \in FlagSets
  /\ pc = "idle" /\ exit = "none"
  /\ read = <<>> /\ lines = <<>> /\ group = 1 /\ pos = 1
  /\ printed = <<>> /\ accepted = {}
  /\ before = file
  /\ overwritten = {}

Goto(where) == pc' = where /\ exit' = exit
Exit(why)   == pc' = "idle" /\ exit' = why

-----------------------------------------------------------------------------
(* The user and the machine.                                               *)

\* The command is run with flags f, d minutes after the last one.
Run(f, d) ==
  /\ pc = "idle"
  /\ now + d <= MaxMinute
  /\ now' = now + d /\ flags' = f /\ before' = file
  /\ pc' = "init" /\ exit' = "none"
  /\ read' = <<>> /\ lines' = <<>> /\ group' = 1 /\ pos' = 1
  /\ printed' = <<>> /\ accepted' = {}
  /\ UNCHANGED disk

\* The command's output was redirected with >> to the end of postgresql.conf
\* (README: --quiet --yes --dry-run >> postgresql.conf).
AppendOutput ==
  /\ pc = "idle" /\ exit = "ok" /\ flags.quiet /\ flags.dryRun /\ ~flags.restore /\ printed # <<>>
  /\ file' = [file EXCEPT !["conf"] = @ \o printed]
  /\ before' = file'
  /\ Exit("none")
  /\ printed' = <<>>
  /\ UNCHANGED <<backups, overwritten, now, flags, read, lines, group, pos, accepted>>

\* The process is killed: nothing it has written is undone.
Kill ==
  /\ pc # "idle"
  /\ Exit("killed")
  /\ UNCHANGED <<disk, session, work>>

\* What the environment may refuse: pg_config, the flags' values, finding and
\* opening files, creating one, writing a line.  Every one ends in errorExit.
EnvironmentFails ==
  /\ \/ pc \in {"init", "write", "restore", "restoreOpen"} \cup Writing
     \/ pc = "backup" /\ ~flags.dryRun
     \/ pc = "read" /\ ReadFaults
  /\ Exit("error")
  /\ UNCHANGED <<disk, session, work>>

\* The answers promptUntilValidInput may come back with: --yes answers itself,
\* and the end of the input ends the prompt.
Replies == IF flags.yes THEN {"yes"} ELSE {"yes", "no", "skip", "quit", "eof"}

\* yesNoChecker: "skip" and "quit" are no answers and are asked again.
Refusals == {"no", "eof"}

\* skipChecker, at a group of settings, takes them and "quit" for a refusal.
SkipRefusals == Refusals \cup {"quit"}
-----------------------------------------------------------------------------
(* Before anything is tuned.                                               *)

\* initializeSystemConfig, getConfigFilePath and os.Open, when all succeed.
initializeSystemConfig ==
  /\ pc = "init"
  /\ Goto("confCheck")
  /\ UNCHANGED <<disk, session, work>>

processConfFileCheck ==
  /\ pc = "confCheck"
  /\ \E r \in IF flags.confPath THEN {"yes"} ELSE Replies :
       \/ r = "yes" /\ Goto(IF flags.restore THEN "restore" ELSE "read")
       \/ r \in Refusals /\ Exit("declined")
  /\ UNCHANGED <<disk, session, work>>

\* What bufio.Scanner yields of a file when no error is reported.  A read that
\* fails between two lines, or a line over its limit, ends the loop early and
\* the error is looked at only inside the loop.
Scanned(content) ==
  {SubSeq(content, 1, k) : k \in IF ReadFaults THEN 0..Len(content) ELSE {Len(content)}}

WorkingCopy(content) == [i \in DOMAIN content |-> configLine(content[i])]

getConfigFileState ==
  /\ pc = "read"
  /\ \E s \in Scanned(file["conf"]) : read' = s /\ lines' = WorkingCopy(s)
  /\ Goto("backup")
  /\ UNCHANGED <<disk, session, group, pos, printed, accepted>>

\* restore: a numbered list without a --yes; quitting, the end of the input
\* and a reply that is no number end the run.
restore ==
  /\ pc = "restore"
  /\ \/ /\ DOMAIN backups # {}
        /\ \/ /\ \E m \in DOMAIN backups : \E s \in Scanned(backups[m]) :
                   lines' = WorkingCopy(s)
              /\ Goto("restoreOpen")
           \/ Exit("declined") /\ UNCHANGED lines
     \/ DOMAIN backups = {} /\ Exit("error") /\ UNCHANGED lines
  /\ UNCHANGED <<disk, session, read, group, pos, printed, accepted>>

-----------------------------------------------------------------------------
(* WriteTo: truncate, then write the lines that are not marked, in order.  *)

Put(content) == IF lines[pos].remove THEN content ELSE Append(content, lines[pos].content)

outPath == IF flags.outPath /\ ~flags.restore THEN "out" ELSE "conf"

\* Defect used to test the properties: only the first run makes a backup.
backup_OnlyOnce ==
  /\ pc = "backup"
  /\ IF flags.dryRun \/ DOMAIN backups # {}
     THEN Goto("sharedLib") /\ UNCHANGED <<backups, pos>>
     ELSE /\ backups' = [m \in {now} |-> <<>>]
          /\ pos' = 1
          /\ Goto("backupLines")
  /\ UNCHANGED <<file, overwritten, session, read, lines, group, printed, accepted>>

\* backup: the file is named after the minute, and created empty.
backup ==
  /\ pc = "backup"
  /\ IF flags.dryRun
     THEN Goto("sharedLib") /\ UNCHANGED <<backups, pos>>
     ELSE /\ backups' = [m \in DOMAIN backups \cup {now} |->
                           IF m = now THEN <<>> ELSE backups[m]]
          /\ pos' = 1
          /\ Goto("backupLines")
  /\ UNCHANGED <<file, overwritten, session, read, lines, group, printed, accepted>>

backupLine ==
  /\ pc = "backupLines" /\ pos <= Len(lines)
  /\ backups' = [backups EXCEPT ![now] = Put(@)]
  /\ pos' = pos + 1
  /\ Goto(pc)
  /\ UNCHANGED <<file, overwritten, session, read, lines, group, printed, accepted>>

\* Defect used to test the properties: the last line may be left out.
backupDone_OffByOne ==
  /\ pc = "backupLines" /\ pos >= Len(lines)
  /\ Goto("sharedLib")
  /\ UNCHANGED <<disk, session, work>>

backupDone ==
  /\ pc = "backupLines" /\ pos > Len(lines)
  /\ Goto("sharedLib")
  /\ UNCHANGED <<disk, session, work>>

\* Defect used to test the properties: Restore does not truncate.
createConf_NoTruncate ==
  /\ pc \in {"write", "restoreOpen"}
  /\ file' = IF pc = "write" THEN [file EXCEPT ![outPath] = <<>>] ELSE file
  /\ overwritten' = IF pc = "write" /\ outPath = "conf"
                    THEN overwritten \cup {file["conf"]} ELSE overwritten
  /\ pos' = 1
  /\ Goto(IF pc = "write" THEN "writeLines" ELSE "restoreLines")
  /\ UNCHANGED <<backups, session, read, lines, group, printed, accepted>>

\* writeConfFile creates the file, Restore opens it and truncates it.
createConf ==
  /\ pc \in {"write", "restoreOpen"}
  /\ file' = [file EXCEPT ![outPath] = <<>>]
  /\ overwritten' = IF pc = "write" /\ outPath = "conf"
                    THEN overwritten \cup {file["conf"]} ELSE overwritten
  /\ pos' = 1
  /\ Goto(IF pc = "write" THEN "writeLines" ELSE "restoreLines")
  /\ UNCHANGED <<backups, session, read, lines, group, printed, accepted>>

writeLine ==
  /\ pc \in {"writeLines", "restoreLines"} /\ pos <= Len(lines)
  /\ file' = [file EXCEPT ![outPath] = Put(@)]
  /\ pos' = pos + 1
  /\ Goto(pc)
  /\ UNCHANGED <<backups, overwritten, session, read, lines, group, printed, accepted>>

writeDone ==
  /\ pc \in {"writeLines", "restoreLines"} /\ pos > Len(lines)
  /\ Exit("ok")
  /\ UNCHANGED <<disk, session, work>>

-----------------------------------------------------------------------------
(* The shared_preload_libraries line.                                      *)

libFound == sharedLibResult(read)

newLibLine ==
  IF libFound = {} THEN plainSharedLibLine
  ELSE updateSharedLibLine(read[CHOOSE i \in libFound : TRUE])

libUpdated == PutLine(lines, libFound, newLibLine)

processSharedLibLine ==
  /\ pc = "sharedLib" /\ ~flags.quiet
  /\ \/ /\ libUpdated = lines
        /\ Goto("tune")
        /\ UNCHANGED <<lines, accepted>>
     \/ /\ libUpdated # lines
        /\ \E r \in Replies :
             \/ /\ r = "yes"
                /\ lines' = libUpdated
                /\ accepted' = accepted \cup {SharedLib}
                /\ Goto("tune")
             \/ r \in Refusals /\ Exit("declined") /\ UNCHANGED <<lines, accepted>>
  /\ UNCHANGED <<disk, session, read, group, pos, printed>>

\* processQuiet prints the line and takes it without asking yet.
processQuietSharedLib ==
  /\ pc = "sharedLib" /\ flags.quiet
  /\ IF libUpdated = lines
     THEN UNCHANGED <<lines, printed, accepted>>
     ELSE /\ lines' = libUpdated
          /\ printed' = Append(printed, newLibLine)
          /\ accepted' = accepted \cup {SharedLib}
  /\ Goto("group")
  /\ UNCHANGED <<disk, session, read, group, pos>>

\* "Tune memory/parallelism/WAL and other settings?": no goes on without them.
promptTune ==
  /\ pc = "tune"
  /\ \E r \in Replies :
       \/ r = "yes" /\ Goto("group")
       \/ r = "no" /\ Goto("ourParams")
       \/ r = "eof" /\ Exit("declined")
  /\ UNCHANGED <<disk, session, work>>

-----------------------------------------------------------------------------
(* processTunables and processSettingsGroup.                               *)

label == tunables[group]
keys  == SettingsKeys[label]

Shown(k)   == ShowSetting(read, label, flags.profile, k)
Changed(k) == Shown(k) /\ Recommend(flags.profile, k) # NoRecommendation

\* Defect used to test the properties: an unavailable group is not passed.
nextGroup_Stuck ==
  /\ pc = "group" /\ group <= Len(tunables)
  /\ \A k \in KeysOf(label) : ~UnexpectedParse(read, label, flags.profile, k)
  /\ \A k \in KeysOf(label) : ~Shown(k)
  /\ group' = group + 1
  /\ Goto(pc)
  /\ UNCHANGED <<disk, session, read, lines, pos, printed, accepted>>

nextGroup ==
  /\ pc = "group"
  /\ group <= Len(tunables)
  /\ \/ ~IsAvailable(label)
     \/ /\ \A k \in KeysOf(label) : ~UnexpectedParse(read, label, flags.profile, k)
        /\ \A k \in KeysOf(label) : ~Shown(k)
  /\ group' = group + 1
  /\ Goto(pc)
  /\ UNCHANGED <<disk, session, read, lines, pos, printed, accepted>>

groupError ==
  /\ pc = "group"
  /\ group <= Len(tunables) /\ IsAvailable(label)
  /\ \E k \in KeysOf(label) : UnexpectedParse(read, label, flags.profile, k)
  /\ Exit("internal")
  /\ UNCHANGED <<disk, session, work>>

\* The group is shown when any setting is, one without a recommendation too.
processSettingsGroup ==
  /\ pc = "group"
  /\ group <= Len(tunables) /\ IsAvailable(label)
  /\ \A k \in KeysOf(label) : ~UnexpectedParse(read, label, flags.profile, k)
  /\ \E k \in KeysOf(label) : Shown(k)
  /\ \E r \in IF flags.quiet THEN {"yes"} ELSE Replies :
       \/ r = "yes" /\ Goto("apply") /\ pos' = 1 /\ UNCHANGED group
       \/ r = "skip" /\ Goto(pc) /\ group' = group + 1 /\ UNCHANGED pos
       \/ r \in SkipRefusals /\ Exit("declined") /\ UNCHANGED <<group, pos>>
  /\ UNCHANGED <<disk, session, read, lines, printed, accepted>>

\* doWithVisibile: one key of the group, printed with --quiet and put into the
\* working copy with the trailing comment the line had.
applySetting ==
  /\ pc = "apply" /\ pos <= Len(keys)
  /\ LET k     == keys[pos]
         rec   == Recommend(flags.profile, k)
         found == tuneParseResult(read, k)
         extra == IF found = {} THEN "" ELSE read[CHOOSE i \in found : TRUE].note
     IN IF Changed(k)
        THEN /\ lines' = PutLine(lines, found, SettingLine(k, rec, extra))
             /\ printed' = IF flags.quiet THEN Append(printed, SettingLine(k, rec, ""))
                                          ELSE printed
             /\ accepted' = accepted \cup {k}
        ELSE UNCHANGED <<lines, printed, accepted>>
  /\ pos' = pos + 1
  /\ Goto(pc)
  /\ UNCHANGED <<disk, session, read, group>>

\* Defect used to test the properties: the group after it is passed over.
applyDone_Twice ==
  /\ pc = "apply" /\ pos > Len(keys)
  /\ group' = group + 2
  /\ Goto("group")
  /\ UNCHANGED <<disk, session, read, lines, pos, printed, accepted>>

applyDone ==
  /\ pc = "apply" /\ pos > Len(keys)
  /\ group' = group + 1
  /\ Goto("group")
  /\ UNCHANGED <<disk, session, read, lines, pos, printed, accepted>>

groupsDone ==
  /\ pc = "group" /\ group > Len(tunables)
  /\ Goto(IF flags.quiet THEN "quietPrompt" ELSE "ourParams")
  /\ UNCHANGED <<disk, session, work>>

\* The one question of --quiet, asked only if something was printed.
quietPrompt ==
  /\ pc = "quietPrompt"
  /\ \/ printed = <<>> /\ Goto("ourParams") /\ UNCHANGED printed
     \/ /\ printed # <<>>
        /\ printed' = printed \o <<ourParamString(lastTunedParam, now),
                                   ourParamString(lastTunedVersionParam, now)>>
        /\ \E r \in Replies :
             \/ r = "yes" /\ Goto("ourParams")
             \/ r \in Refusals /\ Exit("declined")
  /\ UNCHANGED <<disk, session, read, lines, group, pos, accepted>>

\* Defect used to test the properties: --dry-run is forgotten.
finishLines_NoDryRun ==
  /\ pc = "ourParams"
  /\ lines' = removeDuplicates(processOurParams(lines, now))
  /\ Goto("write")
  /\ UNCHANGED <<disk, session, read, group, pos, printed, accepted>>

\* processOurParams and the removal of older stamps, then write or not.
finishLines ==
  /\ pc = "ourParams"
  /\ lines' = removeDuplicates(processOurParams(lines, now))
  /\ IF flags.dryRun THEN Exit("ok") ELSE Goto("write")
  /\ UNCHANGED <<disk, session, read, group, pos, printed, accepted>>

-----------------------------------------------------------------------------
\* The steps the program takes by itself or on an answer.
Program ==
  \/ initializeSystemConfig \/ processConfFileCheck
  \/ getConfigFileState \/ restore
  \/ backup \/ backupLine \/ backupDone
  \/ createConf \/ writeLine \/ writeDone
  \/ processSharedLibLine \/ processQuietSharedLib \/ promptTune
  \/ nextGroup \/ groupError \/ processSettingsGroup
  \/ applySetting \/ applyDone \/ groupsDone
  \/ quietPrompt \/ finishLines

Next ==
  \/ \E f \in FlagSets, d \in ClockSteps : Run(f, d)
  \/ AppendOutput
  \/ Kill
  \/ EnvironmentFails
  \/ Program
  \/ pc = "idle" /\ UNCHANGED vars   \* nobody runs the command any more

\* With --yes no question waits for a person, except the number --restore asks.
Unattended == flags.yes /\ ~flags.restore

Spec == Init /\ [][Next]_vars
FairSpec == Spec /\ WF_vars(Unattended /\ Program)

-----------------------------------------------------------------------------
(* What is proved in TunerProofs; TunerProperties has the properties of    *)
(* the edited file.                                                        *)

\* Every variable has its type.
TypeOK ==
  /\ file \in [{"conf", "out"} -> Seq(Line)]
  /\ backups \in [DOMAIN backups -> Seq(Line)] /\ DOMAIN backups \subseteq Nat
  /\ now \in Nat
  /\ flags \in Flags
  /\ pc \in PCs /\ exit \in Reasons
  /\ read \in Seq(Line) /\ lines \in Seq(WorkingLine)
  /\ group \in 1..(Len(tunables) + 1) /\ pos \in Nat \ {0}
  /\ printed \in Seq(Line)
  /\ accepted \subseteq Text
  /\ before \in [{"conf", "out"} -> Seq(Line)]
  /\ overwritten \subseteq Seq(Line)

\* Whatever postgresql.conf held when a tuning run began to write it is in
\* one of the backups, for good: through later runs, failed writes, kills and
\* restores (README "Restoring backups"; backup, writeConfFile).  It needs two
\* runs never to share a minute, and files to be read without errors.
OriginalRecoverable == \A c \in overwritten : \E m \in DOMAIN backups : backups[m] = c

\* No step of a tuning run changes postgresql.conf before the whole file the
\* run began with is on disk as this run's backup (Run, tuner.go:290-327).
BackupBeforeOverwrite ==
  [][pc # "idle" /\ ~flags.restore /\ file'["conf"] # file["conf"]
       => now \in DOMAIN backups /\ backups[now] = before["conf"]]_vars

\* Files differ from what they were at the start of the run only once the
\* last question has been answered: never after a refusal, an internal error
\* or in a --dry-run that tunes, and never a file that is not the output.
OnlyConsentedWrites ==
  \A p \in {"conf", "out"} : file[p] # before[p] =>
     /\ p = outPath
     /\ flags.dryRun => flags.restore
     /\ exit \notin {"declined", "internal"}
     /\ pc \in {"writeLines", "restoreLines", "idle"}

\* A restore that ends well leaves postgresql.conf identical to a backup, also
\* when the file before it was longer or torn (fsRestorer.Restore, WriteTo).
RestoreYieldsBackup ==
  (pc = "idle" /\ exit = "ok" /\ flags.restore) =>
    \E m \in DOMAIN backups : file["conf"] = backups[m]

-----------------------------------------------------------------------------
(* The inductive invariant behind them.                                    *)

\* Places of a run that tunes: each is reached past the branch of Run that
\* restores, and the writing ones past the one that ends a --dry-run.
Modes ==
  /\ pc \in {"read", "backup", "backupLines", "write", "writeLines"} \cup Deciding
       => ~flags.restore
  /\ pc \in {"restore", "restoreOpen", "restoreLines"} => flags.restore
  /\ pc \in {"backupLines", "write", "writeLines"} => ~flags.dryRun
  /\ pc # "idle" => exit = "none"

\* Until something is written both files are what they were.
FilesAsBefore == pc \notin {"idle", "writeLines", "restoreLines"} => file = before

\* The copy that is backed up is the file, and the backup its first lines.
CopyOfFile ==
  /\ pc \in {"backup", "backupLines"} => lines = WorkingCopy(file["conf"])
  /\ pc = "backupLines" =>
       /\ now \in DOMAIN backups
       /\ pos <= Len(file["conf"]) + 1
       /\ backups[now] = SubSeq(file["conf"], 1, pos - 1)

\* From the end of the backup to the end of the run it is the whole file.
BackedUp ==
  pc \in {"write", "writeLines"} \cup Deciding /\ ~flags.dryRun
    => now \in DOMAIN backups /\ backups[now] = before["conf"]

BeforeBackup == {"init", "confCheck", "read", "backup", "backupLines"}

\* A content that was overwritten has a backup no later step can touch: of an
\* earlier minute, or of this one when this run has made its backup.
Kept ==
  \A c \in overwritten : \E m \in DOMAIN backups :
    /\ backups[m] = c
    /\ \/ m < now
       \/ m = now /\ pc \notin BeforeBackup

SafeInv == Modes /\ FilesAsBefore /\ CopyOfFile /\ BackedUp /\ Kept /\ OnlyConsentedWrites
=============================================================================
