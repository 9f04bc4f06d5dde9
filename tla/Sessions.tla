------------------------------ MODULE Sessions ------------------------------
(***************************************************************************)
(* Several runs of timescaledb-tune at the same time, with an editor that  *)
(* saves postgresql.conf while they ask their questions, a temp directory  *)
(* that is cleaned, and a wall clock that may be turned back.              *)
(*                                                                         *)
(* A run is what Tuner shows in detail, cut down to its file operations:   *)
(* it opens the file, asks, reads, backs up, asks, and writes line by line *)
(* through a descriptor.  A descriptor stays with the file it was opened   *)
(* on when an editor puts a new file under the name.  Lines have one       *)
(* length here: a line written behind the end leaves holes of that length. *)
(***************************************************************************)
EXTENDS Integers, Sequences, FiniteSets

CONSTANTS Proc,       \* runs of the command
          Line,       \* lines of the file
          Hole,       \* a line's length of zero bytes
          Proposal,   \* the line each run proposes
          Contents,   \* what postgresql.conf may hold at first
          Saved,      \* what an editor may save
          Earlier,    \* names in the temp directory before: minutes, or foreign
          MaxSaves,   \* bound on the number of saves
          MaxMinute,  \* bound on the clock, in minutes
          BackSteps,  \* minutes the clock may be turned back by
          Cleaning,   \* whether backups may be deleted
          Apart       \* whether no two backups are made in one minute

Text == Seq(Line \cup {Hole})

ASSUME SessionsAssumption ==
  /\ Hole \notin Line
  /\ Proposal \in [Proc -> Line]
  /\ Contents \cup Saved \subseteq Text
  /\ Earlier \subseteq Int /\ IsFiniteSet(Earlier)
  /\ MaxSaves \in Nat /\ MaxMinute \in Nat /\ BackSteps \subseteq Nat \ {0}
  /\ Cleaning \in BOOLEAN /\ Apart \in BOOLEAN

VARIABLES
  files,     \* the files that have had the name postgresql.conf, the last has it
  backups,   \* name of a backup |-> its lines; foreign names are negative
  wall,      \* the wall clock, in minutes
  saves,     \* how often the editor has saved
  pc,        \* where each run is
  fd,        \* the file each run has open: an index into files
  read,      \* the text each run has read
  lines,     \* the text each run writes
  pos,       \* the line each run writes next
  name,      \* the name of each run's backup
  list,      \* the names each restoring run has shown
  made,      \* history: the names of backups, in the order they were made
  deleted,   \* history: the texts of backups that were deleted
  since,     \* history: what the file has held since each run opened it
  replaced   \* history: texts that tuning runs have replaced

vars == <<files, backups, wall, saves, pc, fd, read, lines, pos, name, list, made, deleted,
          since, replaced>>

PCs == {"off", "read", "backup", "backupLines", "edit", "create", "list", "pick",
        "truncate", "writeLines", "ok", "ended"}

current(fs) == fs[Len(fs)]

\* Defect used to test the properties: foreign names are listed too.
getBackups_AnyName == DOMAIN backups

\* Names whose rest is a date; the date has one width, so that text and time
\* sort alike.
getBackups == {n \in DOMAIN backups : n > 0}

sorted(S) == CHOOSE s \in [1..Cardinality(S) -> S] : \A i, j \in DOMAIN s : i < j => s[i] < s[j]

Init ==
  /\ \E c \in Contents : files = <<c>>
  /\ backups = [n \in Earlier |-> <<>>] /\ made = sorted({n \in Earlier : n > 0})
  /\ deleted = {}
  /\ wall \in {n \in 1..MaxMinute : \A m \in Earlier : m < n} /\ saves = 0
  /\ pc = [p \in Proc |-> "off"] /\ fd = [p \in Proc |-> 1]
  /\ read = [p \in Proc |-> <<>>] /\ lines = [p \in Proc |-> <<>>]
  /\ pos = [p \in Proc |-> 1] /\ name = [p \in Proc |-> 0] /\ list = [p \in Proc |-> <<>>]
  /\ since = [p \in Proc |-> {}] /\ replaced = {}

Goto(p, where) == pc' = [pc EXCEPT ![p] = where]

\* What the file becomes enters the history of every run that has opened it,
\* and so does a new file with the old text.
Notice(fs) ==
  since' = [p \in Proc |-> IF Len(fs) = Len(files) /\ current(fs) = current(files)
                           THEN since[p] ELSE since[p] \cup {current(fs)}]
-----------------------------------------------------------------------------
(* A run that tunes.                                                       *)

\* The file is opened, then the user is asked whether it is the right one.
Open(p) ==
  /\ pc[p] = "off"
  /\ \E where \in {"read", "list"} : Goto(p, where)
  /\ fd' = [fd EXCEPT ![p] = Len(files)]
  /\ since' = [since EXCEPT ![p] = {}]
  /\ UNCHANGED <<files, backups, wall, saves, read, lines, pos, name, list, made, deleted,
                 replaced>>

Read(p) ==
  /\ pc[p] = "read"
  /\ read' = [read EXCEPT ![p] = files[fd[p]]]
  /\ lines' = [lines EXCEPT ![p] = files[fd[p]]]
  /\ Goto(p, "backup")
  /\ UNCHANGED <<files, backups, wall, saves, fd, pos, name, list, made, deleted, since,
                 replaced>>

\* os.Create truncates a backup of the same name.
backup(p) ==
  /\ pc[p] = "backup"
  /\ Apart => wall \notin DOMAIN backups
  /\ backups' = [n \in DOMAIN backups \cup {wall} |-> IF n = wall THEN <<>> ELSE backups[n]]
  /\ made' = Append(made, wall)
  /\ name' = [name EXCEPT ![p] = wall]
  /\ pos' = [pos EXCEPT ![p] = 1]
  /\ Goto(p, "backupLines")
  /\ UNCHANGED <<files, wall, saves, fd, read, lines, list, deleted, since, replaced>>

\* A line written at its place in a file somebody may have cut short.
WriteAt(text, i, line) ==
  [j \in 1..(IF i > Len(text) THEN i ELSE Len(text)) |->
     IF j = i THEN line ELSE IF j > Len(text) THEN Hole ELSE text[j]]

backupLine(p) ==
  /\ pc[p] = "backupLines" /\ pos[p] <= Len(lines[p])
  /\ backups' = [backups EXCEPT ![name[p]] = WriteAt(@, pos[p], lines[p][pos[p]])]
  /\ pos' = [pos EXCEPT ![p] = @ + 1]
  /\ UNCHANGED <<files, wall, saves, pc, fd, read, lines, name, list, made, deleted, since,
                 replaced>>

\* Defect used to test the properties: the last line may be left out.
backupDone_OffByOne(p) ==
  /\ pc[p] = "backupLines" /\ pos[p] >= Len(lines[p])
  /\ Goto(p, "edit")
  /\ UNCHANGED <<files, backups, wall, saves, fd, read, lines, pos, name, list, made,
                 deleted, since, replaced>>

backupDone(p) ==
  /\ pc[p] = "backupLines" /\ pos[p] > Len(lines[p])
  /\ Goto(p, "edit")
  /\ UNCHANGED <<files, backups, wall, saves, fd, read, lines, pos, name, list, made,
                 deleted, since, replaced>>

\* All questions and edits: the run's line is put at the end if it is missing,
\* or the run is declined.
Edit(p) ==
  /\ pc[p] = "edit"
  /\ \/ /\ lines' = [lines EXCEPT ![p] =
                       IF \E i \in DOMAIN @ : @[i] = Proposal[p] THEN @
                                                                 ELSE Append(@, Proposal[p])]
        /\ Goto(p, "create")
     \/ Goto(p, "ended") /\ UNCHANGED lines
  /\ UNCHANGED <<files, backups, wall, saves, fd, read, pos, name, list, made, deleted,
                 since, replaced>>

\* Creating the file for a tuned text, or truncating it for a restored one:
\* by name, so it is the file that has the name now.
Create(p) ==
  /\ pc[p] \in {"create", "truncate"}
  /\ files' = [files EXCEPT ![Len(files)] = <<>>]
  /\ replaced' = IF pc[p] = "create"
                 THEN replaced \cup {[by |-> p, text |-> current(files),
                                      new |-> current(files) \in since[p]]}
                 ELSE replaced
  /\ fd' = [fd EXCEPT ![p] = Len(files)]
  /\ pos' = [pos EXCEPT ![p] = 1]
  /\ Notice(files')
  /\ Goto(p, "writeLines")
  /\ UNCHANGED <<backups, wall, saves, read, lines, name, list, made, deleted>>

writeLine(p) ==
  /\ pc[p] = "writeLines" /\ pos[p] <= Len(lines[p])
  /\ files' = [files EXCEPT ![fd[p]] = WriteAt(@, pos[p], lines[p][pos[p]])]
  /\ pos' = [pos EXCEPT ![p] = @ + 1]
  /\ Notice(files')
  /\ UNCHANGED <<backups, wall, saves, pc, fd, read, lines, name, list, made, deleted,
                 replaced>>

writeDone(p) ==
  /\ pc[p] = "writeLines" /\ pos[p] > Len(lines[p])
  /\ Goto(p, "ok")
  /\ UNCHANGED <<files, backups, wall, saves, fd, read, lines, pos, name, list, made,
                 deleted, since, replaced>>

-----------------------------------------------------------------------------
(* A run that restores.                                                    *)

\* Defect used to test the properties: the loop leaves out the middle pair.
reversed_OffByOne(s) ==
  [i \in DOMAIN s |-> LET half == Len(s) \div 2 - 1
                      IN IF i <= half \/ i > Len(s) - half THEN s[Len(s) + 1 - i] ELSE s[i]]

\* The loop swaps each name of the first half with its opposite.
reversed(s) ==
  [i \in DOMAIN s |-> LET half == Len(s) \div 2
                      IN IF i <= half \/ i > Len(s) - half THEN s[Len(s) + 1 - i] ELSE s[i]]

List(p) ==
  /\ pc[p] = "list"
  /\ list' = [list EXCEPT ![p] = reversed(sorted(getBackups))]
  /\ Goto(p, IF getBackups = {} THEN "ended" ELSE "pick")
  /\ UNCHANGED <<files, backups, wall, saves, fd, read, lines, pos, name, made, deleted,
                 since, replaced>>

\* The numbers accepted for a list; any other answer asks again or ends the run.
numberedListChecker(limit) == 1..limit

\* Defect used to test the properties: the file is truncated, then the backup
\* is opened.
Pick_TruncateFirst(p) ==
  /\ pc[p] = "pick"
  /\ \E i \in numberedListChecker(Len(list[p])) :
       LET n == list[p][i]
       IN IF n \in DOMAIN backups
          THEN lines' = [lines EXCEPT ![p] = backups[n]] /\ Goto(p, "truncate") /\ UNCHANGED files
          ELSE Goto(p, "ended") /\ UNCHANGED lines /\ files' = [files EXCEPT ![Len(files)] = <<>>]
  /\ Notice(files')
  /\ UNCHANGED <<backups, wall, saves, fd, read, pos, name, list, made, deleted, replaced>>

\* The number typed is a place in the list shown: by now the backup may have
\* grown, or be gone.  Anything but a number, and quitting, end the run.
Pick(p) ==
  /\ pc[p] = "pick"
  /\ \/ \E i \in numberedListChecker(Len(list[p])) :
          LET n == list[p][i]
          IN IF n \in DOMAIN backups
             THEN lines' = [lines EXCEPT ![p] = backups[n]] /\ Goto(p, "truncate")
             ELSE Goto(p, "ended") /\ UNCHANGED lines
     \/ Goto(p, "ended") /\ UNCHANGED lines
  /\ UNCHANGED <<files, backups, wall, saves, fd, read, pos, name, list, made, deleted,
                 since, replaced>>

\* A failed operation or a signal: what is written stays.
Die(p) ==
  /\ pc[p] \notin {"off", "ok", "ended"}
  /\ Goto(p, "ended")
  /\ UNCHANGED <<files, backups, wall, saves, fd, read, lines, pos, name, list, made,
                 deleted, since, replaced>>

-----------------------------------------------------------------------------
(* What happens around the runs.                                           *)

\* An editor overwrites the file, or puts a new one under its name.
Save(text) ==
  /\ saves < MaxSaves
  /\ saves' = saves + 1
  /\ files' \in {[files EXCEPT ![Len(files)] = text], Append(files, text)}
  /\ Notice(files')
  /\ UNCHANGED <<backups, wall, pc, fd, read, lines, pos, name, list, made, deleted,
                 replaced>>

\* A backup nobody is writing is deleted from the temp directory.
Clean(n) ==
  /\ Cleaning
  /\ \A p \in Proc : pc[p] = "backupLines" => name[p] # n
  /\ backups' = [m \in DOMAIN backups \ {n} |-> backups[m]]
  /\ deleted' = deleted \cup {backups[n]}
  /\ UNCHANGED <<files, wall, saves, pc, fd, read, lines, pos, name, list, made, since,
                 replaced>>

Clock ==
  /\ \/ wall' = wall + 1 /\ wall < MaxMinute
     \/ \E d \in BackSteps : wall' = wall - d /\ wall' > 0
  /\ UNCHANGED <<files, backups, saves, pc, fd, read, lines, pos, name, list, made, deleted,
                 since, replaced>>

Step(p) ==
  \/ Open(p) \/ Read(p) \/ backup(p) \/ backupLine(p) \/ backupDone(p) \/ Edit(p)
  \/ Create(p) \/ writeLine(p) \/ writeDone(p)
  \/ List(p) \/ Pick(p) \/ Die(p)

Next ==
  \/ \E p \in Proc : Step(p)
  \/ \E text \in Saved : Save(text)
  \/ \E n \in DOMAIN backups : Clean(n)
  \/ Clock

Spec == Init /\ [][Next]_vars

-----------------------------------------------------------------------------
\* Every variable has its type.
TypeOK ==
  /\ files \in Seq(Text) /\ files # <<>>
  /\ backups \in [DOMAIN backups -> Text] /\ DOMAIN backups \subseteq Int
  /\ wall \in Nat \ {0} /\ saves \in Nat
  /\ pc \in [Proc -> PCs]
  /\ fd \in [Proc -> 1..Len(files)]
  /\ read \in [Proc -> Text] /\ lines \in [Proc -> Text]
  /\ pos \in [Proc -> Nat \ {0}] /\ name \in [Proc -> Nat] /\ list \in [Proc -> Seq(Nat)]
  /\ made \in Seq(Nat)
  /\ deleted \subseteq Text /\ since \in [Proc -> SUBSET Text]
  /\ replaced \subseteq [by : Proc, text : Text, new : BOOLEAN]

\* However runs, restores, saves and deaths overlap, a text that a tuning run
\* replaces, and that has stood unchanged since that run opened the file, is
\* in a backup, or a backup of it was deleted in the temp directory (Run,
\* backup, WriteTo).  No two backups may be named in one minute.
StandingTextRecoverable ==
  \A r \in replaced :
    ~r.new => r.text \in deleted \/ \E n \in DOMAIN backups : backups[n] = r.text

\* The list is in the order the backups were made, the newest first, while
\* other runs make more of them (tuner.go:184): with a clock that only goes
\* forward.
MostRecentFirst ==
  \A p \in Proc : pc[p] = "pick" =>
    \A i, j \in DOMAIN list[p] : i < j =>
      \A k \in DOMAIN made : made[k] = list[p][j] =>
        \E l \in DOMAIN made : l > k /\ made[l] = list[p][i]

\* The text s is the beginning of the text t.
BeginningOf(s, t) == Len(s) <= Len(t) /\ s = SubSeq(t, 1, Len(s))

\* What a run needs to have before it writes: one that tunes, a backup of all it
\* has read; one that restores, a text it found in a backup of its list, which
\* may have grown since.  Either may have been deleted in the meantime.
Covered(p) ==
  IF list[p] = <<>>
  THEN read[p] \in deleted \/ \E n \in DOMAIN backups : backups[n] = read[p]
  ELSE \/ \E t \in deleted : BeginningOf(lines[p], t)
       \/ \E i \in DOMAIN list[p] :
            list[p][i] \in DOMAIN backups /\ BeginningOf(lines[p], backups[list[p][i]])

\* Whatever other runs, the cleaner and the clock do in between, postgresql.conf
\* is never cut short or written by a run that has nothing to put in its place:
\* not before a tuning run's backup is whole, and not before a restoring run has
\* the backup it was told to restore (Run, restore, Restore).
WritesAreCovered ==
  [][files' # files =>
       \/ saves' # saves
       \/ \E p \in Proc :
            /\ pc'[p] = "writeLines" /\ (pc'[p] # pc[p] \/ pos'[p] # pos[p])
            /\ Covered(p)]_vars

\* README:126 "makes a backup of your postgresql.conf file each time it runs":
\* what a tuning run replaces is in a backup (Run: the file is read once, then
\* questions are asked).
ReplacedIsBackedUp == \A r \in replaced : \E n \in DOMAIN backups : backups[n] = r.text

\* README:126 "a backup of your postgresql.conf file": what a restore is about
\* to write is a file some run has read, whole (getBackups, Restore).
RestoresWholeFile ==
  \A p \in Proc : pc[p] = "truncate" => \E q \in Proc : read[q] = lines[p]

\* tuner.go:286 "Generate current conf file state": what a run reads is what
\* has the name postgresql.conf at that moment.
ReadsCurrentFile ==
  [][\A p \in Proc : pc[p] = "read" /\ pc'[p] = "backup" => read'[p] = current(files)]_vars
=============================================================================
