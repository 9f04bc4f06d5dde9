--------------------------- MODULE SessionsProofs ---------------------------
(***************************************************************************)
(* A proof about overlapping runs, for every number of them: what a tuning *)
(* run replaces, and has stood since the run opened it, is in a backup.    *)
(*                                                                         *)
(* One assumption: no two backups are named in one minute (Apart).  The    *)
(* clock may go back, backups may be deleted, an editor may save at any    *)
(* time, and every run may die anywhere.                                   *)
(***************************************************************************)
EXTENDS Sessions, TLAPS

\* The types the argument needs.
Typed ==
  /\ files \in Seq(Text) /\ files # <<>>
  /\ pc \in [Proc -> PCs]
  /\ fd \in [Proc -> 1..Len(files)]
  /\ read \in [Proc -> Text] /\ lines \in [Proc -> Text]
  /\ pos \in [Proc -> Nat \ {0}]
  /\ name \in [Proc -> Int] /\ wall \in Int
  /\ backups \in [DOMAIN backups -> Text] /\ DOMAIN backups \subseteq Int
  /\ since \in [Proc -> SUBSET Text]

BackingUp(p) == pc[p] = "backupLines"
BackedUp(p)  == pc[p] \in {"edit", "create"}

\* No run is writing the backup named n.
Finished(n) == \A q \in Proc : BackingUp(q) => name[q] # n

\* Until its backup is made a run works on what it has read.
Copied(p) == pc[p] \in {"backup", "backupLines"} => lines[p] = read[p]

\* A backup being written grows along the text its run has read, and no other
\* run has its name.
Growing(p) ==
  BackingUp(p) =>
    /\ pos[p] <= Len(read[p]) + 1
    /\ name[p] \in DOMAIN backups
    /\ backups[name[p]] = SubSeq(read[p], 1, pos[p] - 1)
    /\ \A q \in Proc \ {p} : BackingUp(q) => name[q] # name[p]

\* A text is in a backup nobody writes, or was in one.
Archived(text) ==
  text \in deleted \/ \E n \in DOMAIN backups : backups[n] = text /\ Finished(n)

\* A run past its backup has all that it read in it.
Kept(p) == BackedUp(p) => Archived(read[p])

\* While the file stands as it was opened, its descriptor is the file's, and
\* what has been read is what it holds.
Standing(p) ==
  current(files) \notin since[p] =>
    /\ pc[p] = "read" => fd[p] = Len(files)
    /\ pc[p] \in {"backup", "backupLines", "edit", "create"} => read[p] = current(files)

\* A text replaced while it stood is archived.
Safe == \A r \in replaced : ~r.new => Archived(r.text)

IInv == Typed /\ Safe /\ \A p \in Proc : Copied(p) /\ Growing(p) /\ Kept(p) /\ Standing(p)

-----------------------------------------------------------------------------
(* Sequences.                                                              *)

LEMMA WriteAtText ==
  ASSUME NEW text \in Text, NEW i \in Nat \ {0}, NEW line \in Line \cup {Hole}
  PROVE  WriteAt(text, i, line) \in Text
<1> DEFINE n    == IF i > Len(text) THEN i ELSE Len(text)
           f(j) == IF j = i THEN line ELSE IF j > Len(text) THEN Hole ELSE text[j]
<1>1. n \in Nat
  BY DEF Text
<1>2. \A j \in 1..n : f(j) \in Line \cup {Hole}
  BY DEF Text
<1>3. WriteAt(text, i, line) = [j \in 1..n |-> f(j)]
  BY DEF WriteAt
<1> HIDE DEF n, f
<1> QED
  BY <1>1, <1>2, <1>3 DEF Text

LEMMA WriteAtGrows ==
  ASSUME NEW text \in Text, NEW i \in 1..Len(text)
  PROVE  WriteAt(SubSeq(text, 1, i - 1), i, text[i]) = SubSeq(text, 1, i)
<1> DEFINE cut  == SubSeq(text, 1, i - 1)
           f(j) == IF j = i THEN text[i] ELSE IF j > Len(cut) THEN Hole ELSE cut[j]
<1>1. text \in Seq(Line \cup {Hole}) /\ i \in Nat /\ i >= 1 /\ i <= Len(text) /\ Len(text) \in Nat
  BY DEF Text
<1>2. Len(cut) = i - 1 /\ \A j \in 1..(i - 1) : cut[j] = text[j]
  BY <1>1
<1>3. Len(SubSeq(text, 1, i)) = i /\ \A j \in 1..i : SubSeq(text, 1, i)[j] = text[j]
  BY <1>1
<1>4. SubSeq(text, 1, i) = [j \in 1..i |-> text[j]]
  BY <1>1
<1>5. WriteAt(cut, i, text[i]) = [j \in 1..i |-> f(j)]
  BY <1>1, <1>2 DEF WriteAt
<1>6. \A j \in 1..i : f(j) = text[j]
  BY <1>1, <1>2
<1> HIDE DEF f, cut
<1>7. WriteAt(cut, i, text[i]) = [j \in 1..i |-> text[j]]
  BY <1>5, <1>6
<1> QED
  BY <1>4, <1>7 DEF cut

LEMMA Whole == \A t \in Text : SubSeq(t, 1, Len(t)) = t /\ SubSeq(t, 1, 0) = <<>> /\ Len(t) \in Nat
BY DEF Text

-----------------------------------------------------------------------------
(* Types.                                                                  *)

\* What a change of the files needs: they stay files, and only grow in number.
LEMMA TypedFiles ==
  ASSUME Typed, NEW p \in Proc, NEW fs \in Seq(Text), Len(fs) >= Len(files),
         files' = fs, Notice(files'),
         fd' = fd \/ fd' = [fd EXCEPT ![p] = Len(files)]
  PROVE  /\ files' \in Seq(Text) /\ files' # <<>>
         /\ fd' \in [Proc -> 1..Len(files')]
         /\ since' \in [Proc -> SUBSET Text]
<1>1. files \in Seq(Text) /\ Len(files) \in Nat /\ Len(files) >= 1 /\ Len(fs) \in Nat
  BY DEF Typed
<1>2. current(fs) \in Text
  BY <1>1 DEF current
<1>3. fd' \in [Proc -> 1..Len(fs)]
  <2>1. fd \in [Proc -> 1..Len(files)] /\ 1..Len(files) \subseteq 1..Len(fs)
    BY <1>1 DEF Typed
  <2> QED
    BY <1>1, <2>1
<1>4. since' \in [Proc -> SUBSET Text]
  <2>1. \A q \in Proc : since[q] \in SUBSET Text
    BY DEF Typed
  <2> QED
    BY <1>2, <2>1 DEF Notice
<1> QED
  BY <1>1, <1>3, <1>4

LEMMA TypedStep ==
  ASSUME Typed, NEW p \in Proc, Step(p)
  PROVE  Typed'
<1>1. files \in Seq(Text) /\ Len(files) \in 1..Len(files) /\ fd[p] \in DOMAIN files
  BY DEF Typed
<1>2. \A q \in Proc : lines[q] \in Text /\ pos[q] \in Nat \ {0} /\ read[q] \in Text
  BY DEF Typed
<1>3. \A i \in 1..Len(lines[p]) : lines[p][i] \in Line \cup {Hole}
  BY <1>2 DEF Text
<1>4. \A w \in PCs : [pc EXCEPT ![p] = w] \in [Proc -> PCs]
  BY DEF Typed
<1>5. <<>> \in Text
  BY DEF Text
<1>6. CASE Open(p)
  <2>1. pc' \in [Proc -> PCs]
    BY <1>4, <1>6 DEF Open, Goto, PCs
  <2>2. fd' \in [Proc -> 1..Len(files)] /\ since' \in [Proc -> SUBSET Text]
    BY <1>1, <1>6 DEF Open, Typed
  <2> QED
    BY <1>6, <2>1, <2>2 DEF Open, Typed
<1>7. CASE Read(p)
  <2>1. pc' \in [Proc -> PCs]
    BY <1>4, <1>7 DEF Read, Goto, PCs
  <2>2. read' \in [Proc -> Text] /\ lines' \in [Proc -> Text]
    BY <1>1, <1>7 DEF Read, Typed
  <2> QED
    BY <1>7, <2>1, <2>2 DEF Read, Typed
<1>8. CASE backup(p)
  <2>1. pc' \in [Proc -> PCs]
    BY <1>4, <1>8 DEF backup, Goto, PCs
  <2>2. name' \in [Proc -> Int] /\ pos' \in [Proc -> Nat \ {0}]
    BY <1>8 DEF backup, Typed
  <2>3. backups' \in [DOMAIN backups' -> Text] /\ DOMAIN backups' \subseteq Int
    BY <1>5, <1>8 DEF backup, Typed
  <2> QED
    BY <1>8, <2>1, <2>2, <2>3 DEF backup, Typed
<1>9. CASE backupLine(p)
  <2>1. pos[p] \in 1..Len(lines[p])
    BY <1>2, <1>9 DEF backupLine, Text
  <2> DEFINE t == WriteAt(backups[name[p]], pos[p], lines[p][pos[p]])
  <2>2. name[p] \in DOMAIN backups => t \in Text
    BY <1>2, <1>3, <2>1, WriteAtText DEF Typed
  <2>3. backups' = [backups EXCEPT ![name[p]] = t]
    BY <1>9 DEF backupLine
  <2> HIDE DEF t
  <2>4. backups' \in [DOMAIN backups' -> Text] /\ DOMAIN backups' \subseteq Int
    BY <2>2, <2>3 DEF Typed
  <2>5. pos' \in [Proc -> Nat \ {0}]
    BY <1>2, <1>9 DEF backupLine, Typed
  <2> QED
    BY <1>9, <2>4, <2>5 DEF backupLine, Typed
<1>10. CASE backupDone(p)
  BY <1>4, <1>10 DEF backupDone, Goto, PCs, Typed
<1>11. CASE Edit(p)
  <2>1. pc' \in [Proc -> PCs]
    BY <1>4, <1>11 DEF Edit, Goto, PCs
  <2>2. Append(lines[p], Proposal[p]) \in Text
    BY <1>2, SessionsAssumption DEF Text
  <2>3. lines' \in [Proc -> Text]
    BY <1>2, <1>11, <2>2 DEF Edit, Typed
  <2> QED
    BY <1>11, <2>1, <2>3 DEF Edit, Typed
<1>12. CASE Create(p)
  <2> DEFINE fs == [files EXCEPT ![Len(files)] = <<>>]
  <2>1. fs \in Seq(Text) /\ Len(fs) = Len(files)
    BY <1>1, <1>5
  <2>2. files' = fs /\ fd' = [fd EXCEPT ![p] = Len(files)] /\ Notice(files')
    BY <1>12 DEF Create
  <2> HIDE DEF fs
  <2>3. /\ files' \in Seq(Text) /\ files' # <<>>
        /\ fd' \in [Proc -> 1..Len(files')] /\ since' \in [Proc -> SUBSET Text]
    <3>1. Len(fs) >= Len(files)
      BY <1>1, <2>1
    <3>2. fd' = fd \/ fd' = [fd EXCEPT ![p] = Len(files)]
      BY <2>2
    <3> QED
      BY <2>1, <2>2, <3>1, <3>2, TypedFiles
  <2>4. pc' \in [Proc -> PCs]
    BY <1>4, <1>12 DEF Create, Goto, PCs
  <2>5. pos' \in [Proc -> Nat \ {0}]
    BY <1>12 DEF Create, Typed
  <2> QED
    BY <1>12, <2>3, <2>4, <2>5 DEF Create, Typed
<1>13. CASE writeLine(p)
  <2>1. pos[p] \in 1..Len(lines[p])
    BY <1>2, <1>13 DEF writeLine, Text
  <2> DEFINE t  == WriteAt(files[fd[p]], pos[p], lines[p][pos[p]])
             fs == [files EXCEPT ![fd[p]] = t]
  <2>2. t \in Text
    BY <1>1, <1>2, <1>3, <2>1, WriteAtText
  <2>3. files' = fs /\ Notice(files')
    BY <1>13 DEF writeLine
  <2> HIDE DEF t
  <2>4. fs \in Seq(Text) /\ Len(fs) = Len(files)
    BY <1>1, <2>2
  <2> HIDE DEF fs
  <2>5. /\ files' \in Seq(Text) /\ files' # <<>>
        /\ fd' \in [Proc -> 1..Len(files')] /\ since' \in [Proc -> SUBSET Text]
    <3>1. fd' = fd
      BY <1>13 DEF writeLine
    <3> QED
      BY <1>1, <2>3, <2>4, <3>1, TypedFiles
  <2>6. pos' \in [Proc -> Nat \ {0}]
    BY <1>2, <1>13 DEF writeLine, Typed
  <2> QED
    BY <1>13, <2>5, <2>6 DEF writeLine, Typed
<1>14. CASE writeDone(p)
  BY <1>4, <1>14 DEF writeDone, Goto, PCs, Typed
<1>15. CASE List(p)
  BY <1>4, <1>15 DEF List, Goto, PCs, Typed
<1>16. CASE Pick(p)
  <2>1. pc' \in [Proc -> PCs]
    BY <1>4, <1>16 DEF Pick, Goto, PCs
  <2>2. lines' = lines \/ \E n \in DOMAIN backups : lines' = [lines EXCEPT ![p] = backups[n]]
    BY <1>16 DEF Pick
  <2>3. lines' \in [Proc -> Text]
    BY <2>2 DEF Typed
  <2> QED
    BY <1>16, <2>1, <2>3 DEF Pick, Typed
<1>17. CASE Die(p)
  BY <1>4, <1>17 DEF Die, Goto, PCs, Typed
<1> QED
  BY <1>6, <1>7, <1>8, <1>9, <1>10, <1>11, <1>12, <1>13, <1>14, <1>15, <1>16, <1>17 DEF Step

LEMMA TypedRest ==
  ASSUME Typed,
         \/ \E text \in Saved : Save(text)
         \/ \E n \in DOMAIN backups : Clean(n)
         \/ Clock
         \/ UNCHANGED vars
  PROVE  Typed'
<1>1. CASE \E text \in Saved : Save(text)
  <2>1. PICK text \in Saved : Save(text)
    BY <1>1
  <2>2. files \in Seq(Text) /\ Len(files) \in 1..Len(files) /\ text \in Text
    BY SessionsAssumption DEF Typed
  <2> DEFINE over == [files EXCEPT ![Len(files)] = text]
             new  == Append(files, text)
  <2>3. over \in Seq(Text) /\ Len(over) = Len(files)
    BY <2>2
  <2>4. new \in Seq(Text) /\ Len(new) = Len(files) + 1
    BY <2>2
  <2>5. files' \in {over, new} /\ Notice(files') /\ fd' = fd
    BY <2>1 DEF Save
  <2> HIDE DEF over, new
  <2>6. files' \in Seq(Text) /\ Len(files') \in Nat /\ Len(files') >= Len(files)
    BY <2>2, <2>3, <2>4, <2>5
  <2>7. files' # <<>>
    BY <2>2, <2>6
  <2>8. fd' \in [Proc -> 1..Len(files')]
    <3>1. fd \in [Proc -> 1..Len(files)] /\ 1..Len(files) \subseteq 1..Len(files')
      BY <2>2, <2>6 DEF Typed
    <3> QED
      BY <2>5, <3>1
  <2>9. since' \in [Proc -> SUBSET Text]
    <3>1. current(files') \in Text
      BY <2>2, <2>6 DEF current
    <3>2. \A q \in Proc : since[q] \in SUBSET Text
      BY DEF Typed
    <3> QED
      BY <2>5, <3>1, <3>2 DEF Notice
  <2> QED
    BY <2>1, <2>6, <2>7, <2>8, <2>9 DEF Save, Typed
<1>2. CASE \E n \in DOMAIN backups : Clean(n)
  BY <1>2 DEF Clean, Typed
<1>3. CASE Clock
  <2>1. wall' \in Int
    BY <1>3, SessionsAssumption DEF Clock, Typed
  <2> QED
    BY <1>3, <2>1 DEF Clock, Typed
<1>4. CASE UNCHANGED vars
  BY <1>4 DEF vars, Typed
<1> QED
  BY <1>1, <1>2, <1>3, <1>4

-----------------------------------------------------------------------------
(* Steps that neither write a file nor a backup.                           *)

LEMMA QuietStep ==
  ASSUME IInv, Typed', NEW p \in Proc, NEW w \in PCs \ {"backupLines"},
         pc' = [pc EXCEPT ![p] = w],
         UNCHANGED <<files, backups, name, deleted, replaced>>,
         \A q \in Proc \ {p} : /\ read'[q] = read[q] /\ lines'[q] = lines[q] /\ fd'[q] = fd[q]
                                /\ pos'[q] = pos[q] /\ since'[q] = since[q],
         Copied(p)', Kept(p)', Standing(p)'
  PROVE  IInv'
<1>1. pc'[p] = w /\ \A q \in Proc \ {p} : pc'[q] = pc[q]
  BY DEF IInv, Typed
<1>2. \A n : Finished(n) => Finished(n)'
  BY <1>1 DEF Finished, BackingUp
<1>3. \A text : Archived(text) => Archived(text)'
  BY <1>2 DEF Archived
<1>a. Safe'
  BY <1>3 DEF IInv, Safe
<1>4. Growing(p)'
  BY <1>1 DEF Growing, BackingUp
<1>5. ASSUME NEW q \in Proc \ {p}
      PROVE  Copied(q)' /\ Growing(q)' /\ Kept(q)' /\ Standing(q)'
  <2>1. Copied(q) /\ Growing(q) /\ Kept(q) /\ Standing(q)
    BY DEF IInv
  <2>2. Copied(q)' /\ Standing(q)'
    BY <1>1, <2>1 DEF Copied, Standing, current
  <2>3. Growing(q)'
    BY <1>1, <2>1 DEF Growing, BackingUp
  <2>4. Kept(q)'
    BY <1>1, <1>3, <2>1 DEF Kept, BackedUp
  <2> QED
    BY <2>2, <2>3, <2>4
<1> QED
  BY <1>a, <1>4, <1>5 DEF IInv

LEMMA OpenStep ==
  ASSUME IInv, Typed', NEW p \in Proc, Open(p)
  PROVE  IInv'
<1>1. PICK w \in {"read", "list"} : pc' = [pc EXCEPT ![p] = w]
  BY DEF Open, Goto
<1>2. pc'[p] = w /\ fd'[p] = Len(files) /\ w \in PCs \ {"backupLines"}
  BY <1>1 DEF Open, IInv, Typed, PCs
<1>3. \A q \in Proc \ {p} : fd'[q] = fd[q] /\ since'[q] = since[q]
  BY DEF Open, IInv, Typed
<1>4. Copied(p)' /\ Kept(p)' /\ Standing(p)'
  BY <1>2 DEF Open, Copied, Kept, BackedUp, Standing
<1> QED
  BY <1>1, <1>2, <1>3, <1>4, QuietStep DEF Open

LEMMA ReadStep ==
  ASSUME IInv, Typed', NEW p \in Proc, Read(p)
  PROVE  IInv'
<1>1. pc' = [pc EXCEPT ![p] = "backup"] /\ "backup" \in PCs \ {"backupLines"}
  BY DEF Read, Goto, PCs
<1>2. pc'[p] = "backup" /\ read'[p] = files[fd[p]] /\ lines'[p] = files[fd[p]]
  BY <1>1 DEF Read, IInv, Typed
<1>3. \A q \in Proc \ {p} : read'[q] = read[q] /\ lines'[q] = lines[q]
  BY DEF Read, IInv, Typed
<1>4. Copied(p)' /\ Kept(p)' /\ Standing(p)'
  BY <1>2 DEF Read, Copied, Kept, BackedUp, Standing, IInv, current
<1> QED
  BY <1>1, <1>3, <1>4, QuietStep DEF Read

LEMMA backupDoneStep ==
  ASSUME IInv, Typed', NEW p \in Proc, backupDone(p)
  PROVE  IInv'
<1>1. pc' = [pc EXCEPT ![p] = "edit"] /\ "edit" \in PCs \ {"backupLines"}
  BY DEF backupDone, Goto, PCs
<1>2. pc'[p] = "edit" /\ \A q \in Proc \ {p} : pc'[q] = pc[q]
  BY <1>1 DEF IInv, Typed
<1>3. BackingUp(p) /\ read[p] \in Text /\ pos[p] \in Nat /\ pos[p] > Len(lines[p])
  BY DEF backupDone, BackingUp, IInv, Typed
<1>4. Copied(p) /\ Growing(p) /\ Standing(p) /\ lines[p] = read[p]
  BY <1>3 DEF IInv, Copied, BackingUp
<1>5. pos[p] - 1 = Len(read[p])
  BY <1>3, <1>4, Whole DEF Growing
<1>6. backups[name[p]] = read[p]
  BY <1>3, <1>4, <1>5, Whole DEF Growing
<1>7. Finished(name[p])'
  BY <1>2, <1>3, <1>4 DEF Finished, Growing, BackingUp, backupDone
<1>8. Kept(p)'
  BY <1>3, <1>4, <1>6, <1>7 DEF Kept, Archived, Growing, backupDone
<1>9. Copied(p)' /\ Standing(p)'
  BY <1>2, <1>3, <1>4 DEF backupDone, Copied, Standing, BackingUp, current
<1> QED
  BY <1>1, <1>8, <1>9, QuietStep DEF backupDone

LEMMA EditStep ==
  ASSUME IInv, Typed', NEW p \in Proc, Edit(p)
  PROVE  IInv'
<1>1. PICK w \in {"create", "ended"} : pc' = [pc EXCEPT ![p] = w]
  BY DEF Edit, Goto
<1>2. w \in PCs \ {"backupLines"} /\ pc'[p] = w /\ \A q \in Proc \ {p} : pc'[q] = pc[q]
  BY <1>1 DEF IInv, Typed, PCs
<1>3. \A q \in Proc \ {p} : lines'[q] = lines[q]
  BY DEF Edit, IInv, Typed
<1>4. BackedUp(p) /\ Kept(p) /\ Standing(p)
  BY DEF Edit, BackedUp, IInv
<1>5. \A n : Finished(n) => Finished(n)'
  BY <1>2 DEF Finished, BackingUp, Edit
<1>6. Kept(p)'
  BY <1>4, <1>5 DEF Kept, Archived, Edit
<1>7. Copied(p)' /\ Standing(p)'
  BY <1>2, <1>4 DEF Edit, Copied, Standing, BackedUp, current
<1> QED
  BY <1>1, <1>2, <1>3, <1>6, <1>7, QuietStep DEF Edit

\* Where a run goes when it has nothing left to protect.
LEMMA IdleStep ==
  ASSUME IInv, Typed', NEW p \in Proc,
         writeDone(p) \/ List(p) \/ Pick(p) \/ Die(p)
  PROVE  IInv'
<1>1. PICK w \in {"ok", "ended", "pick", "truncate"} : pc' = [pc EXCEPT ![p] = w]
  BY DEF writeDone, List, Pick, Die, Goto
<1>2. w \in PCs \ {"backupLines"} /\ pc'[p] = w
  BY <1>1 DEF IInv, Typed, PCs
<1>3. \A q \in Proc \ {p} : lines'[q] = lines[q]
  BY DEF writeDone, List, Pick, Die, IInv, Typed
<1>4. Copied(p)' /\ Kept(p)' /\ Standing(p)'
  BY <1>2 DEF Copied, Kept, BackedUp, Standing
<1>5. UNCHANGED <<files, backups, name, deleted, replaced, read, fd, pos, since>>
  BY DEF writeDone, List, Pick, Die
<1> QED
  BY <1>1, <1>2, <1>3, <1>4, <1>5, QuietStep

-----------------------------------------------------------------------------
(* Steps that write a backup.                                              *)

LEMMA backupStep ==
  ASSUME IInv, Typed', Apart, NEW p \in Proc, backup(p)
  PROVE  IInv'
<1>1. /\ pc'[p] = "backupLines" /\ name'[p] = wall /\ pos'[p] = 1
      /\ \A q \in Proc \ {p} : pc'[q] = pc[q] /\ name'[q] = name[q] /\ pos'[q] = pos[q]
  BY DEF backup, Goto, IInv, Typed
<1>2. wall \notin DOMAIN backups /\ DOMAIN backups' = DOMAIN backups \cup {wall}
  BY DEF backup
<1>3. backups'[wall] = <<>> /\ \A n \in DOMAIN backups : backups'[n] = backups[n]
  BY <1>2 DEF backup
<1>4. \A n \in DOMAIN backups : Finished(n) => Finished(n)'
  BY <1>1, <1>2 DEF Finished, BackingUp
<1>5. UNCHANGED <<files, fd, read, lines, deleted, since, replaced>>
  BY DEF backup
<1>a. \A text : Archived(text) => Archived(text)'
  BY <1>2, <1>3, <1>4, <1>5 DEF Archived
<1>6. Safe'
  BY <1>5, <1>a DEF IInv, Safe
<1>7. Copied(p)' /\ Kept(p)' /\ Standing(p)'
  <2>1. pc[p] = "backup" /\ Copied(p) /\ Standing(p)
    BY DEF backup, IInv
  <2> QED
    BY <1>1, <1>5, <2>1 DEF Copied, Kept, BackedUp, Standing, current
<1>8. Growing(p)'
  <2>1. read[p] \in Text
    BY DEF IInv, Typed
  <2>2. pos'[p] <= Len(read'[p]) + 1 /\ SubSeq(read'[p], 1, pos'[p] - 1) = <<>>
    BY <1>1, <1>5, <2>1, Whole
  <2>3. \A q \in Proc \ {p} : BackingUp(q)' => name'[q] # wall
    BY <1>1, <1>2 DEF BackingUp, IInv, Growing
  <2> QED
    BY <1>1, <1>2, <1>3, <2>2, <2>3 DEF Growing
<1>9. ASSUME NEW q \in Proc \ {p}
      PROVE  Copied(q)' /\ Growing(q)' /\ Kept(q)' /\ Standing(q)'
  <2>1. Copied(q) /\ Growing(q) /\ Kept(q) /\ Standing(q)
    BY DEF IInv
  <2>2. Copied(q)' /\ Standing(q)'
    BY <1>1, <1>5, <2>1 DEF Copied, Standing, current
  <2>3. Growing(q)'
    BY <1>1, <1>2, <1>3, <1>5, <2>1 DEF Growing, BackingUp
  <2>4. Kept(q)'
    BY <1>1, <1>5, <1>a, <2>1 DEF Kept, BackedUp
  <2> QED
    BY <2>2, <2>3, <2>4
<1> QED
  BY <1>6, <1>7, <1>8, <1>9 DEF IInv

LEMMA backupLineStep ==
  ASSUME IInv, Typed', NEW p \in Proc, backupLine(p)
  PROVE  IInv'
<1>1. UNCHANGED <<files, pc, fd, read, lines, name, deleted, since, replaced>>
  BY DEF backupLine
<1>2. pos'[p] = pos[p] + 1 /\ \A q \in Proc \ {p} : pos'[q] = pos[q]
  BY DEF backupLine, IInv, Typed
<1>3. BackingUp(p) /\ Copied(p) /\ Growing(p) /\ lines[p] = read[p]
  BY DEF backupLine, BackingUp, IInv, Copied
<1>4. read[p] \in Text /\ pos[p] \in 1..Len(read[p])
  BY <1>3, Whole DEF backupLine, IInv, Typed
<1>5. /\ backups' = [backups EXCEPT ![name[p]] = WriteAt(backups[name[p]], pos[p], read[p][pos[p]])]
      /\ name[p] \in DOMAIN backups
      /\ backups[name[p]] = SubSeq(read[p], 1, pos[p] - 1)
  BY <1>3 DEF backupLine, Growing
<1>6. /\ DOMAIN backups' = DOMAIN backups
      /\ backups'[name[p]] = SubSeq(read[p], 1, pos[p])
      /\ \A n \in DOMAIN backups \ {name[p]} : backups'[n] = backups[n]
  BY <1>4, <1>5, WriteAtGrows
<1>7. \A n : Finished(n) => n # name[p]
  BY <1>3 DEF Finished
<1>8. \A n : Finished(n)' <=> Finished(n)
  BY <1>1 DEF Finished, BackingUp
<1>a. \A text : Archived(text) => Archived(text)'
  BY <1>1, <1>6, <1>7, <1>8 DEF Archived
<1>9. Safe'
  BY <1>1, <1>a DEF IInv, Safe
<1>10. Growing(p)'
  <2>1. pos'[p] <= Len(read[p]) + 1 /\ pos'[p] - 1 = pos[p]
    BY <1>2, <1>4, Whole
  <2> QED
    BY <1>1, <1>3, <1>6, <2>1 DEF Growing, BackingUp
<1>11. ASSUME NEW q \in Proc
       PROVE  Copied(q)' /\ Kept(q)' /\ Standing(q)'
  <2>1. Copied(q) /\ Kept(q) /\ Standing(q)
    BY DEF IInv
  <2>2. Copied(q)' /\ Standing(q)'
    BY <1>1, <2>1 DEF Copied, Standing, current
  <2>3. Kept(q)'
    BY <1>1, <1>a, <2>1 DEF Kept, BackedUp
  <2> QED
    BY <2>2, <2>3
<1>12. ASSUME NEW q \in Proc \ {p}
       PROVE  Growing(q)'
  <2>1. Growing(q) /\ (BackingUp(q) => name[q] # name[p])
    BY <1>3 DEF IInv, Growing
  <2> QED
    BY <1>1, <1>2, <1>6, <2>1 DEF Growing, BackingUp
<1> QED
  BY <1>9, <1>10, <1>11, <1>12 DEF IInv

-----------------------------------------------------------------------------
(* Steps that change the file.                                             *)

\* A change of the file, or of the file that has the name, is noticed by every
\* run, or it changes nothing the runs rely on.
LEMMA FilesStep ==
  ASSUME IInv, Typed', Notice(files'), Safe',
         UNCHANGED <<backups, read, lines, name, deleted>>,
         \A q \in Proc : \/ pc'[q] = "writeLines" /\ pc[q] # "backupLines"
                         \/ pc'[q] = pc[q] /\ fd'[q] = fd[q] /\ pos'[q] = pos[q]
                         \/ pc'[q] = pc[q] /\ pc[q] = "writeLines"
  PROVE  IInv'
<1>1. \A q \in Proc : BackingUp(q)' => BackingUp(q)
  BY DEF BackingUp
<1>2. \A n : Finished(n) => Finished(n)'
  BY <1>1 DEF Finished
<1>3. ASSUME NEW q \in Proc
      PROVE  Copied(q)' /\ Growing(q)' /\ Kept(q)' /\ Standing(q)'
  <2>1. Copied(q) /\ Growing(q) /\ Kept(q) /\ Standing(q)
    BY DEF IInv
  <2>2. Copied(q)'
    BY <2>1 DEF Copied
  <2>3. Growing(q)'
    BY <1>1, <2>1 DEF Growing, BackingUp
  <2>4. Kept(q)'
    BY <1>2, <2>1 DEF Kept, BackedUp, Archived
  <2>5. Standing(q)'
    <3>1. CASE Len(files') = Len(files) /\ current(files') = current(files)
      <4>1. since'[q] = since[q]
        BY <3>1 DEF Notice, IInv, Typed
      <4>2. /\ pc'[q] = "read" => pc[q] = "read" /\ fd'[q] = fd[q]
            /\ pc'[q] \in {"backup", "backupLines", "edit", "create"} => pc'[q] = pc[q]
        OBVIOUS
      <4> QED
        BY <2>1, <3>1, <4>1, <4>2 DEF Standing
    <3>2. CASE ~(Len(files') = Len(files) /\ current(files') = current(files))
      <4>1. since'[q] = since[q] \cup {current(files')}
        BY <3>2 DEF Notice
      <4> QED
        BY <4>1 DEF Standing, current
    <3> QED
      BY <3>1, <3>2
  <2> QED
    BY <2>2, <2>3, <2>4, <2>5
<1> QED
  BY <1>3 DEF IInv

LEMMA CreateStep ==
  ASSUME IInv, Typed', NEW p \in Proc, Create(p)
  PROVE  IInv'
<1>1. /\ pc'[p] = "writeLines" /\ pc[p] \in {"create", "truncate"}
      /\ \A q \in Proc \ {p} : pc'[q] = pc[q] /\ fd'[q] = fd[q] /\ pos'[q] = pos[q]
  BY DEF Create, Goto, IInv, Typed
<1>2. \A n : Finished(n) => Finished(n)'
  BY <1>1 DEF Create, Finished, BackingUp
<1>3. ASSUME NEW r \in replaced', ~r.new
      PROVE  Archived(r.text)
  <2>1. CASE r \in replaced
    BY <1>3, <2>1 DEF IInv, Safe
  <2>2. CASE r \notin replaced
    <3>1. /\ pc[p] = "create"
          /\ r = [by |-> p, text |-> current(files), new |-> current(files) \in since[p]]
      BY <1>3, <2>2 DEF Create
    <3>2. r.text = current(files) /\ current(files) \notin since[p]
      BY <1>3, <3>1
    <3>3. Standing(p) /\ Kept(p) /\ BackedUp(p)
      BY <3>1 DEF IInv, BackedUp
    <3> QED
      BY <3>1, <3>2, <3>3 DEF Standing, Kept
  <2> QED
    BY <2>1, <2>2
<1>4. Safe'
  BY <1>2, <1>3 DEF Create, Safe, Archived
<1> QED
  BY <1>1, <1>4, FilesStep DEF Create

LEMMA writeLineStep ==
  ASSUME IInv, Typed', NEW p \in Proc, writeLine(p)
  PROVE  IInv'
<1>1. pc[p] = "writeLines" /\ \A q \in Proc \ {p} : pos'[q] = pos[q]
  BY DEF writeLine, IInv, Typed
<1>2. UNCHANGED <<backups, pc, fd, read, lines, name, deleted, replaced>> /\ Notice(files')
  BY DEF writeLine
<1>3. Safe'
  BY <1>2 DEF IInv, Safe, Archived, Finished, BackingUp
<1> QED
  BY <1>1, <1>2, <1>3, FilesStep

LEMMA SaveStep ==
  ASSUME IInv, Typed', NEW text \in Saved, Save(text)
  PROVE  IInv'
<1>1. UNCHANGED <<backups, pc, fd, pos, read, lines, name, deleted, replaced>> /\ Notice(files')
  BY DEF Save
<1>2. Safe'
  BY <1>1 DEF IInv, Safe, Archived, Finished, BackingUp
<1> QED
  BY <1>1, <1>2, FilesStep

-----------------------------------------------------------------------------
(* A backup that is deleted is one nobody writes.                          *)

LEMMA CleanStep ==
  ASSUME IInv, Typed', NEW n \in DOMAIN backups, Clean(n)
  PROVE  IInv'
<1>1. UNCHANGED <<files, pc, fd, read, lines, pos, name, since, replaced>>
  BY DEF Clean
<1>2. /\ DOMAIN backups' = DOMAIN backups \ {n}
      /\ \A m \in DOMAIN backups \ {n} : backups'[m] = backups[m]
      /\ deleted' = deleted \cup {backups[n]}
      /\ \A q \in Proc : BackingUp(q) => name[q] # n
  BY DEF Clean, BackingUp
<1>3. \A m : Finished(m)' <=> Finished(m)
  BY <1>1 DEF Finished, BackingUp
<1>4. \A text : Archived(text) => Archived(text)'
  BY <1>2, <1>3 DEF Archived
<1>5. Safe'
  BY <1>1, <1>4 DEF IInv, Safe
<1>6. ASSUME NEW q \in Proc
      PROVE  Copied(q)' /\ Growing(q)' /\ Kept(q)' /\ Standing(q)'
  <2>1. Copied(q) /\ Growing(q) /\ Kept(q) /\ Standing(q)
    BY DEF IInv
  <2>2. Copied(q)' /\ Standing(q)'
    BY <1>1, <2>1 DEF Copied, Standing, current
  <2>3. Growing(q)'
    BY <1>1, <1>2, <2>1 DEF Growing, BackingUp
  <2>4. Kept(q)'
    BY <1>1, <1>4, <2>1 DEF Kept, BackedUp
  <2> QED
    BY <2>2, <2>3, <2>4
<1> QED
  BY <1>5, <1>6 DEF IInv

-----------------------------------------------------------------------------
LEMMA Initially == Init => IInv
<1> SUFFICES ASSUME Init
             PROVE  IInv
  OBVIOUS
<1>1. PICK c \in Contents : files = <<c>>
  BY DEF Init
<1>2. c \in Text /\ <<>> \in Text
  BY SessionsAssumption DEF Text
<1>3. files \in Seq(Text) /\ files # <<>> /\ Len(files) = 1
  BY <1>1, <1>2
<1>4. backups \in [DOMAIN backups -> Text] /\ DOMAIN backups \subseteq Int
  BY <1>2, SessionsAssumption DEF Init
<1>5. fd \in [Proc -> 1..Len(files)]
  BY <1>3 DEF Init
<1>6. wall \in Int
  BY SessionsAssumption DEF Init
<1>7. Typed
  BY <1>2, <1>3, <1>4, <1>5, <1>6 DEF Init, Typed, PCs
<1>8. \A p \in Proc : pc[p] = "off"
  BY DEF Init
<1>9. Safe
  BY DEF Init, Safe
<1> QED
  BY <1>7, <1>8, <1>9 DEF IInv, Copied, Growing, Kept, Standing, BackingUp, BackedUp

LEMMA Inductive ==
  ASSUME IInv, [Next]_vars, Apart
  PROVE  IInv'
<1>1. ASSUME NEW p \in Proc, Step(p)
      PROVE  IInv'
  <2>1. Typed'
    BY <1>1, TypedStep DEF IInv
  <2> QED
    BY <1>1, <2>1, OpenStep, ReadStep, backupStep, backupLineStep, backupDoneStep, EditStep,
       CreateStep, writeLineStep, IdleStep DEF Step
<1>2. ASSUME NEW text \in Saved, Save(text)
      PROVE  IInv'
  <2>1. Typed'
    BY <1>2, TypedRest DEF IInv
  <2> QED
    BY <1>2, <2>1, SaveStep
<1>3. ASSUME NEW n \in DOMAIN backups, Clean(n)
      PROVE  IInv'
  <2>1. Typed'
    BY <1>3, TypedRest DEF IInv
  <2> QED
    BY <1>3, <2>1, CleanStep
<1>4. CASE Clock \/ UNCHANGED vars
  <2>1. Typed'
    BY <1>4, TypedRest DEF IInv
  <2>2. UNCHANGED <<files, backups, pc, fd, read, lines, pos, name, deleted, since, replaced>>
    BY <1>4 DEF Clock, vars
  <2> QED
    BY <2>1, <2>2 DEF IInv, Safe, Archived, Finished, BackingUp, BackedUp, Copied, Growing,
                      Kept, Standing, current
<1> QED
  BY <1>1, <1>2, <1>3, <1>4 DEF Next

-----------------------------------------------------------------------------
\* For every number of runs, saves and lines, and whichever way the clock
\* goes: what a tuning run replaces, if it has stood since the run opened it,
\* is in a backup (Run, backup), unless that was deleted, as long as none is
\* overwritten.
THEOREM StandingTextKept ==
  ASSUME Apart
  PROVE  Spec => []StandingTextRecoverable
<1>1. Init => IInv
  BY Initially
<1>2. IInv /\ [Next]_vars => IInv'
  BY Inductive
<1>3. IInv => StandingTextRecoverable
  BY DEF IInv, Safe, Archived, StandingTextRecoverable
<1> QED
  BY <1>1, <1>2, <1>3, PTL DEF Spec
=============================================================================
