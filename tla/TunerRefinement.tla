-------------------------- MODULE TunerRefinement --------------------------
(***************************************************************************)
(* Tuner implements SafeEdit: the backups that are finished are the        *)
(* archive, and a file is being written from its truncation to the end of  *)
(* the run.                                                                *)
(***************************************************************************)
EXTENDS Tuner

\* A backup counts once its run is past making it; one a dead run left is
\* finished too, with whatever lines it got.
archive == {backups[m] : m \in {n \in DOMAIN backups : n # now \/ pc \notin BeforeBackup}}

writing ==
  CASE pc = "writeLines" /\ outPath = "conf" -> "tuning"
    [] pc = "restoreLines"                   -> "restoring"
    [] OTHER                                 -> "still"

Edit == INSTANCE SafeEdit
          WITH Texts <- Contents, conf <- file["conf"], kept <- archive, phase <- writing

\* Whatever the prompts, flags, failures and kills, what happens to
\* postgresql.conf and its backups is a behaviour of SafeEdit: no tuning run
\* truncates a text that is not archived, no restore writes one that is not,
\* and no archived text is lost (Run, backup, WriteTo, fsRestorer.Restore).
\* As for OriginalRecoverable, no two runs share a minute and reads succeed.
ImplementsSafeEdit == Edit!Spec

-----------------------------------------------------------------------------
(* What the proof needs besides Tuner's SafeInv.                           *)

\* There is no backup of this minute before this run makes one.
Fresh == {"init", "confCheck", "read", "backup", "restore", "restoreOpen", "restoreLines"}
OwnMinute ==
  \A m \in DOMAIN backups : m < now \/ (m = now /\ pc \notin Fresh)

\* What a restore writes is a backup, from its first line on.
RestoresBackup ==
  pc \in {"restoreOpen", "restoreLines"} =>
    \E m \in DOMAIN backups :
      /\ lines = WorkingCopy(backups[m])
      /\ pc = "restoreLines" =>
           /\ pos <= Len(backups[m]) + 1
           /\ file["conf"] = SubSeq(backups[m], 1, pos - 1)

ArchiveInv == OwnMinute /\ RestoresBackup
=============================================================================
