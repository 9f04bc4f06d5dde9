# A verification of timescaledb-tune

TLA+ modules, TLC runs and TLAPS proofs about `timescaledb-tune`, the command
that reads a `postgresql.conf`, recommends settings for the machine, asks, and
rewrites the file. Paths such as `tuner.go:279` are relative to `pkg/tstune/`
unless a directory is given.

The program is one sequential process. It is hard because of what surrounds
it: the file is the user's, is rewritten in place, and outlives each run; runs
follow one another with other flags and other answers, or overlap, while an
editor has the file open too; a run may die between two written lines; the
program understands only part of what PostgreSQL accepts in that file; and what
it recommends is arithmetic on sizes a user may give as any number.

## Inventory

| Component | State it keeps | Operations | Talks to | What makes it correct |
|---|---|---|---|---|
| `Tuner` (`tuner.go`) | flags, the configuration file state, the place in `Run` | `Run`, the handlers of each prompt, `processTunables`, `processQuiet`, `processOurParams`, `writeConfFile`, `restore` | all others, the user, the disk | a file changes only with consent, after its backup, and to what was accepted |
| Configuration file state (`config_file.go`, `tune_settings.go`) | the lines, with a removal mark; the result of the library line; the last match of each key | read and parse, replace or append a line, remove duplicates, write | reads the file, writes backup and file | an index points at the line PostgreSQL honours; nothing else changes |
| Library line (`shared_preload_libs.go`) | the match of one line | match, update | file state | PostgreSQL loads the extension and every library it loaded before; no other line is taken for the list |
| Backups (`backup.go`) | files in the temp directory, named by the minute | `backup`, `getBackups`, `Restore` | clock, disk | what a run overwrote can be restored |
| Prompts (`checker.go`, `promptUntilValidInput`) | none | accept, refuse, skip, ask again | the user | with `--yes` none waits |
| Values (`float_parser.go`, `utils.go`, `internal/parse`) | none | parse sizes, durations, numbers, booleans; compare | the decision what to show | a value is read in the unit PostgreSQL reads it in; a pair of values is comparable |
| Groups and recommenders (`pkg/pgtune`) | the machine's resources | keys of a group, availability, `Recommend` per profile | the decision what to show | advice fits the machine, the version and the other advice, and the parser that reads it back |
| Start of a run (`initializeSystemConfig`, `getConfigFilePath`, `pkg/pgutils`, flags) | the system configuration, the path | read flags and machine, check, search | recommenders, `Run` | a bad flag is refused, the right file is found |
| Output (`print.go`, `io_handler.go`) | none | print | the user | |

Components interact by plain calls; the shared state is the disk (the file, the
output of `--out-path`, the backups), which later runs and PostgreSQL read.

Hard behaviours: writes that stop half way; sequences of runs and restores;
duplicates, commented copies and lines the regular expressions do not see; the
difference between the lines as read and the working copy while it is edited;
answers that end a run after part of it was accepted; `--quiet`, which prints
one thing and writes another. `PROJECT.json` lists the hazards with their lines.

## Modules

| Module | Models | Extends |
|---|---|---|
| `PGValue` | values of settings, their parsers, sizes that wrap as `uint64` does, `isCloseEnough` | |
| `ConfFile` | one line and what the regular expressions make of it; the editing steps on the whole file; PostgreSQL's reading of it (external) | `PGValue` |
| `Recommenders` | what every recommender of both profiles recommends on a machine, its panics, the groups and their keys, `BytesToPGFormat` | `PGValue` |
| `Settings` | the kind of a group's recommender, the decision which key is shown | `ConfFile`, `Recommenders` |
| `Tuner` | the state machine: machine, disk, and the command run again and again; the safety properties that are proved and their inductive invariant | `Settings` |
| `TunerProperties` | properties of the edited file and of termination; their inductive invariant; statements of the documentation the code does not keep | `Tuner` |
| `SafeEdit` | abstract specification: a file, the archive of its texts, and who is writing | |
| `TunerRefinement` | the mapping under which `Tuner` implements `SafeEdit` | `Tuner`, an instance of `SafeEdit` |
| `Startup` | the state machine of a run besides editing: configuration, search for the file, one recommendation after the other | `Recommenders` |
| `Sessions` | overlapping runs cut down to their file operations, with an editor, a cleaned temp directory and a clock that goes back | |
| `TunerProofs`, `RefinementProofs`, `SessionsProofs`, `StartupProofs` | theorems on types, backups, the refinement, overlapping runs, panics, versions, the search | the module of their name |
| `EditProofs`, `OutputProofs` | theorems on the working copy, and on the file a run writes | `TunerProperties`, `EditProofs` |
| `ListProofs` | theorems on the list of backups | `SessionsProofs` |
| `AdviceProofs` | theorems on the sizes that are recommended | `StartupProofs` |
| `MCTuner`, `MCStartup`, `MCSessions` | small machines, files and flags for TLC | `TunerProperties` and `TunerRefinement`, `Startup`, `Sessions` |

The three state machines show the same run at three distances. `Tuner` is about
the text of the file, with what is recommended as a constant; `Startup` computes
what is recommended and leaves the file out; `Sessions` leaves out both, and has
more than one run. `MCTuner` joins the first two: in the run `unattended`, `Tuner`
has all the groups and values that `Recommenders` computes for one machine.

### State and code

| Variable | In the code |
|---|---|
| `file` | `postgresql.conf` (`"conf"`) and the `--out-path` file (`"out"`) |
| `backups` | the backup files, by the minute in the name |
| `now` | the clock, in the minutes that names are made of |
| `flags` | `TunerFlags`; memory, CPUs and paths are varied in `Startup` |
| `pc`, `exit` | the place in `Run`; how the last run ended |
| `read` | the lines as `getConfigFileState` parsed them: `tuneParseResults` and `sharedLibResult` are operators on it, because the code never updates them |
| `lines` | `cfs.lines` |
| `group`, `pos` | loop indexes: the group of settings; a key of the group, or a line being written |
| `printed` | what `--quiet` prints on standard output |
| `accepted`, `before`, `overwritten` | history, read by properties only: accepted keys, files at the start of the run, contents replaced so far |

An action is a handler up to its next prompt or file operation. A prompt is the
choice of the reply it comes back with: `promptUntilValidInput` asks again on
anything else, which changes nothing. `WriteTo` is one step per line
(`backupLine`, `writeLine`), between which `Kill` and `EnvironmentFails` may
end the run; an error exit keeps what has been written, as the code does.
`createConf` is `os.Create` of `writeConfFile`, or the open and truncate of a
restore. Removing duplicates sets the mark that `WriteTo` obeys. A group is
applied key by key.

A line is a key, a form, a value, a set of libraries and a trailing comment.
The forms are the cases the regular expressions and PostgreSQL tell apart:
`live`, `commented`, `split` (several runs of `#`), `comment` (one that is no
setting), `loose` (a setting PostgreSQL accepts that no expression matches) and
`broken` (what PostgreSQL refuses). `sharedRegex` has no anchor, so the comment
of any line may hold the library list. The trailing comment says in which way
(`Mentions`): not directly behind a `#`; behind one that is the first text of its
kind in the line, so that `strings.Replace` takes it away and a `live` line becomes
`broken`; or behind one that looks like the `#` in front, which goes in its place.
Such a line can be the one whose list is edited, and is not tried for its own
key (`parsedFor`).
A value is a number and a unit, so that equal texts are equal records and
`1024kB` and `1MB` stay different texts of one size. Wording, colour and layout
are left out, and fractions but for the tenths of `0.9` and `1.1`.

`AppendOutput`, `Kill` and the operators `Effective...` are not code under
`src/`: the shell of `README.md:121`, the operating system, and PostgreSQL's
rule that the last setting of a key wins.

In `Startup` the variables `machine` and `flags` are the input; `config` is
the `SystemConfig`, `path` and `tried` are those of `getConfigFilePath`, `group`
and `pos` the indexes of the loop over groups and keys, and `advice` collects
what `Recommend` has returned. `try` looks at one place; `recommend` asks for one
key. The code asks for a key that is missing from the file a moment later, when
it prints the group, but for each key of each available group, and before the
prompt. A path is a sequence of parts, so that the version is a part to find
in it; a panic is an outcome (`pc = "panic"`), as a recommender that returns
the empty set. Whether `pg_config` works, which files exist and which are
directories is up to `machine`.

In `Sessions` a file keeps its identity when another takes its name: `files` are
all that have had the name `postgresql.conf`, the last has it now, and `fd` says
which of them a run's descriptor is for. `Open`, `Read`, `backup`, `backupLine`,
`backupDone`, `Edit`, `Create`, `writeLine`, `writeDone` are `Run` between its
file operations; `List` and `Pick` are `restore`, which opens a backup and then the
file. A line written behind the end of a file that somebody truncated leaves a
hole (`WriteAt`). `Create` is `os.Create` (or the open of a restore) together with
the truncation in `WriteTo` right behind it: what another run writes between the
two is truncated as well. `Save` overwrites the file or puts a new one under its name,
as editors do. `made`, `since` and `replaced` are history. The text that a run
reads is copied in one step: a reader that overlaps a writer can get a mixture
in reality, which is then what it backs up.

## What the runs check

`edit` takes every file of up to two lines out of twenty-nine kinds, six of them
with a library list in a comment, and of three lines about one key or the stamps: enough for a duplicate above and below,
commented or not, with a line of something else around it. It starts one run
with each of five sets of flags and every answer to every prompt. Each group
has one or two keys, so that a group may be settled, shown in part, or wholly.

- `TypeOK`.
- `AcceptedTakesEffect`: what was accepted is what PostgreSQL will use, with
  duplicates and commented copies anywhere. Of the library list, PostgreSQL then
  loads all of the list that was found; all it loaded before, unless a commented
  copy was the last and took over (`libs_lost`); and timescaledb, unless the list
  names a library that contains the name (`toolkit_only`). Exempt are keys with a
  line that is not tried for them (`HasUnseen`: loose, or with the library list in
  its comment), and a library line that cannot be made live (`Liveable`: inside a
  comment, or behind several runs of `#`).
- `SettledAfterwards`: on its own output the program has nothing to propose
  for what it was allowed to set, and meets no parsing problem.
- `NothingElseTouched`: the lines that are no stamps can be found again in the
  output, in their order, and all but the last match of an accepted key
  unchanged; that one keeps its trailing comment, and what is new is a stamp or
  an accepted key behind them. A line of something else may get timescaledb into
  the list in its comment. It is about files in which that line loses no `#`
  (`NotMistaken`); `mention_line` shows the others.
- `StampedOnce`: one stamp of each kind remains, this run's.
- `AppendEquivalent`: output appended with `>>` has the effect of the edit.

`files` takes two files, one key and six sets of flags, for up to three runs at
minutes one to three, with a kill or a failing operation at every step. Three
runs are enough to tune, tear the result, and restore or tune over it. One key
is enough: what a line says does not matter here, only that lines change, come
and go.

- `OriginalRecoverable`: every content a tuning run replaced is in a backup.
- `BackupBeforeOverwrite`: `postgresql.conf` changes only when this run's
  backup is the whole file.
- `OnlyConsentedWrites`: nothing is written after a refusal, at an internal
  error or in a `--dry-run` that tunes, and only the output file.
- `RestoreYieldsBackup`: a restore that ends well leaves exactly a backup.
- `ImplementsSafeEdit` (a refinement): every step on file and backups is one of
  `SafeEdit`: archive the text there is, or a beginning of it; give up an
  archived text; write a next line; stop. No archived text is lost, and what a
  restore writes is an archived one. The archive is the set of finished backups,
  the writer is read off `pc` and the output path.

`unattended` gives `Tuner` all groups and the values computed for one machine with
one CPU (where parallelism is not available), against files of one line with
values near and far for each key, with reads that fail and both profiles.

- `SettledAfterwards` again: the advice has to survive the parser that its
  recommender is given.
- `UnattendedEnds`: with `--yes`, and no `--restore`, a run ends. The fairness is
  weak fairness of the program's own steps, only while the run is unattended:
  one process that is not waiting for input keeps running. Nothing is assumed
  of the user, of kills or of failures.

`startup` runs `Startup`, first on every combination of sixteen sizes of memory (none, a
few bytes, both sides of each threshold, fractions of a unit, one that wraps)
and nine of the WAL disk, one CPU and five, connections from the default, too
few, and many, workers at and below the least, and the profile from
flag or environment.

- `TypeOK`, which includes that a flag out of range never becomes a
  configuration.
- `PanicsOnlyWhenTooSmall`: the panics of `parseIntToFloatUnits` and
  `ParallelRecommender` are reached only by sizes of next to nothing, or that
  wrap to it.
- `WALFits`: the two WAL sizes, read back, are in order, and the larger is 60% of
  the disk up to a segment more and the rounding of its format less.
- `ConnectionsShareMemory`: `work_mem` and `max_connections`, from two recommenders,
  are for the same number of connections.
- `SharesOfMemory`: the memory sizes, read back, are the shares they are meant to
  be, as near as the program asks in its own comparison.

The numbers of the model checker have 32 bits, so a kilobyte is 32 bytes there
(64 in `wal_share`) and unsigned integers wrap at 32 "terabytes". Thresholds are
written in megabytes and gigabytes or as parts of them and keep their
proportions; the smaller unit makes rounding coarser, never finer, and the
bounds in the properties are stated in `Kilobyte`. The runs of `MCTuner` but
`unattended` have 1024.

Then it starts with every version that `pg_config` or a flag may tell (good,
too old, too new, unreadable), three systems, `PGDATA`, a path given as directory,
and the file at any one place, at all or at none:

- `KnownToVersion`: a setting that is recommended exists in the version.
- `SearchFinds`: a search fails only if no place has the file, and does not end
  at another version's.

`sessions` runs two processes, which tune or restore, with a save (in place or a
new file, with another text or the same), an earlier backup and a foreign name in
the temp directory, a cleaner that may delete any backup nobody is writing, and a
death anywhere. Two processes and one save are enough for a run to be overtaken by a
whole run of another and by a save; with the earlier backup there are up to three
to list, and one whose backup is not finished.

- `TypeOK`, which includes that only names of backups are listed.
- `StandingTextRecoverable`: a text that a tuning run replaces, and that stood
  unchanged since the run opened the file, is in a backup unless that backup was
  deleted. It is what remains of the promise when runs overlap; `lost_update.cfg`
  shows that a text which came up in between is lost. No two backups share a
  minute (`Apart`), as in `files`.
- `MostRecentFirst`: the list is in the order the backups were made, with a clock
  that only goes forward.
- `WritesAreCovered`: whatever other runs and the cleaner do in between,
  `postgresql.conf` is cut short or written only by a run that has something to put
  in its place: one that tunes, after all it has read is in a backup; one that
  restores, with the text (so far) of a backup it has shown. Either backup may
  have been deleted since. A restore whose backup is gone before it is opened
  thus leaves the file alone, at every step.

The bounds: `MaxMinute` caps the clock and with it the number of runs of `Tuner`;
`MaxSaves` caps the saves; `Contents`, `FlagSets`, `ClockSteps`, `Starts`, `Saved`,
`Earlier` and `BackSteps` are the enumerated inputs. `ReadFaults` is off in `edit`
and `files`, and `ClockSteps` there has no 0: with either, the properties fail, as
the runs below show. No symmetry is used. `Startup` and `Sessions` stop when the
runs have ended, so their runs do not check for deadlock.

Seven runs check one sentence of the documentation, of a comment or of an
assertion each, and TLC refutes it:

| Run | Sentence | What the code does |
|---|---|---|
| `scan_error` | a run backs up the file (`README.md:126`), and `could not read postgresql.conf` is an error (`config_file.go:169`) | `scanner.Err()` is tested inside the loop only: a long line or failed read cuts the file short, silently |
| `restore_dry_run` | `--dry-run` does not overwrite (`cmd/timescaledb-tune/main.go:46`) | `--restore` is handled before it |
| `toolkit_only` | "whether 'timescaledb' appears in the list" (`shared_preload_libs.go:17`) | `timescaledb_toolkit` contains it |
| `jit_number` | `--yes` accepts all recommendations (`README.md:98`) | `jit = 0` ends the run: `off` is no number |
| `same_minute` | a backup "each time it runs" (`README.md:126`) | two runs of one minute share a file |
| `libs_lost` | the list found is that of "the libraries currently set" (`shared_preload_libs.go:19`) | a commented list below the live one is uncommented and takes over; the libraries of the live one are no longer loaded |
| `mention_line` | "keep trailing comments" (`tuner.go:422`) | the `#` of a comment that holds the library list is removed, and PostgreSQL refuses the file |

The other configurations are not among the runs of `PROJECT.json`. Each is
started by hand (`tlc -config split_comment.cfg MCTuner`) and ends in a violation as
well; the module is `MCTuner` for the first three, `MCSessions` for the next four
and `MCStartup` for the last three:

| Configuration | Sentence | What the code does |
|---|---|---|
| `split_comment` | the line is updated to validly include the extension (`shared_preload_libs.go:39`) | one of several runs of `#` is removed |
| `empty_offer` | "Settings that need to be changed exist" (`tuner.go:498`) | a missing key counts before it is known that nothing is recommended for it |
| `same_timeout` | 900 is "15 minutes expressed in seconds" (`pkg/pgtune/wal.go:20`) | it is read back as milliseconds, and `15min` is proposed to change |
| `lost_update` | a backup of the file "each time it runs" (`README.md:126`) | what is saved during the questions is overwritten, and in no backup |
| `partial_backup` | one restores "a backup of your `postgresql.conf`" (`README.md:126`) | a half-written backup is listed and restored like a whole one |
| `stale_open` | the "current conf file state" is read (`tuner.go:286`) | it is read through a descriptor from before the first question |
| `clock_back` | "most recent backups are first" (`tuner.go:184`) | the order is that of wall-clock names |
| `percent_path` | the search "returns the full path" (`config_file.go:35`) | `PGDATA` is used as a format, and a percent sign in it rewritten |
| `tiny_size` | "bytes must be at least 1 byte" (`internal/parse/parse.go:115`) | `--memory=64` is accepted and panics |
| `wal_share` | "at most walMaxDiskPct" (`pkg/pgtune/wal.go:85`) | 60% is rounded up to a segment |

Every property of a passing run has a mutant in `PROJECT.json`: a definition
with a plausible mistake (next to the original, marked as a defect) under which
the property fails.

## What is proved

Every invariant and action property of the passing runs, and the refinement, is
a theorem as well. The theorems hold for every value of the constants the named
assumptions of the modules admit, which say of them what the code fixes: tables
have the right shape, the null recommender has no advice, groups share no keys
with each other, the library list or the stamps, the program's own words are
texts, the temp directory holds finitely many names, `Kilobyte` is at least 32.
What a theorem assumes beyond that is said below.

`TunerProofs` holds for every file, every table of groups and recommendations,
every set of flags, and without the bound on runs.

- `TypeCorrect`: `Spec => []TypeOK`. The invariant is `TypeOK` with the index
  of a group in range while it is being applied (`GroupInApply`), without which
  `tunables[group]` would have no meaning after the last group.
- `Recoverable` and `BackupFirst`: `OriginalRecoverable` and
  `BackupBeforeOverwrite`, under `0 \notin ClockSteps` (no two runs in one
  minute) and `ReadFaults = FALSE`, the assumptions the runs `same_minute` and
  `scan_error` show to be needed.
- `Consent`: `OnlyConsentedWrites`, with neither assumption.

`OriginalRecoverable` is not inductive: a state in which the only backup of a
content is the one this run is about to truncate satisfies it. The inductive
invariant `SafeInv` says why no such state is reached:

1. `Modes`: places of a restoring run and of a dry run are never mixed with the
   others.
2. `FilesAsBefore`: until writing starts both files are those the run began with.
3. `CopyOfFile`: while the backup is written, the working copy is an unmarked
   copy of the file and the backup is its first `pos - 1` lines
   (`PutPrefix` extends them by one).
4. `BackedUp`: from the end of the backup on, the backup of this minute is the
   file the run began with.
5. `Kept`: each overwritten content is in a backup of an earlier minute, or of
   this minute once this run has made its backup. A new run moves the clock
   past all of them, so that `backup` and `backupLine` never touch one.

`SafeInductive` puts the step lemmas together; each lemma splits the next-state
relation into the steps that matter to its conjunct and the rest
(`FileSteps`, `BackupSteps`, `KeepSteps`, `TuneSteps`). TLC checked `SafeInv`
on the instance of `files` before it was proved.

`EditProofs` and `OutputProofs` are about what a run writes, with read errors and
any clock:

- `TakesEffect`, `Settles`, `RestUntouched`, `StampsOnce`, `AppendsTheSame`:
  `AcceptedTakesEffect`, `SettledAfterwards`, `NothingElseTouched`, `StampedOnce`
  and `AppendEquivalent`.

All five speak of the state when the run has ended, where nothing is left of how
the file came about, so none is inductive. `EditInv` (in `TunerProperties`) says
it in between:

1. `Edited`: the working copy is the file as read with the accepted keys edited
   (`EditedBy`): the line an edit finds is replaced, or a line is appended that
   no other of its key follows, and all other lines are those of the file. Stamps
   are exempt, because only they are marked for removal before duplicates are.
2. `Unmarked`, `Stamped`: nothing is marked until duplicates are removed; then one
   stamp of each kind is left.
3. `Written`: what has been written is the unmarked ones of the first lines of the
   working copy, in their order (`WrittenFrom`, an embedding of positions).
4. `LibDecided`, `GroupsDone`: with `--yes` each key of each group that is behind
   was fit already or is accepted.
5. `Printed`: the output of `--quiet` has for each accepted key a line that no
   other of the key follows.

`EditInductive` proves it, with lemmas on what each editing step of `ConfFile` does
to lines and to `EditedBy` (`PutLineLines`, `StampEdits`, `MarkEdits`), and one step
lemma for each conjunct.
From the end state the theorems follow along one idea: the value PostgreSQL uses
and the line the program finds are both the last line of a key among certain forms
(`LastLines`), and the last line survives being copied through an embedding
(`LastThrough`), replaced, or followed by lines of other keys. TLC checked `EditInv`
on the instances of `edit` and `files` first.

`RefinementProofs`, for every instance, under the two assumptions of `Recoverable`:

- `Refinement`: `Spec => ImplementsSafeEdit`. The initial state maps to an initial
  state; each action is shown to be one step of `SafeEdit` or a stutter. Besides
  `SafeInv` this needs `OwnMinute` (a run that has not made its backup has none of
  this minute, so making it archives and never replaces) and `RestoresBackup`
  (what a restore writes is the beginning of one backup).
- `RestoredWhole`: `Spec => []RestoreYieldsBackup`, from the same invariant.

`SessionsProofs` and `ListProofs`, for every number of runs, lines and saves:

- `StandingTextKept`: `Spec => []StandingTextRecoverable` under `Apart`, also with a
  clock that goes back. `IInv` says of each run how far its backup is (`Growing`, `Kept`)
  and that no other run has its name; of the file, that it is what the run has
  read as long as nothing was noticed since (`Standing`); and of each replaced
  text, that its backup is one nobody writes any more or was deleted (`Safe`). The
  steps fall into three kinds: those that change neither file nor backups
  (`QuietStep`), the two that write a backup, and those that change the file
  (`FilesStep`), which every run notices or which leave the text as it was.
- `NewestFirst`: `MostRecentFirst` under `BackSteps = {}`, the assumption the
  configuration `clock_back` shows to be needed, but not `Apart`. `OrderInv` says
  that the names made so far rise, that none is later than the clock and that all
  backups have been made, and that a list on show falls and has such names only.
  That a finite set can be sorted at all (`Sorts`) is proved without induction:
  each number goes to the place that the count of smaller ones gives it.
- `WritesBacked`: `WritesAreCovered` under `Apart`, with a clock that goes back.
  `Backing` says that a run has a list exactly when it restores, that the read
  text of a tuning run that writes is archived, and that a restoring run holds the
  beginning of a backup of its list or of a deleted text. It lasts (`StepLasting`):
  a backup only grows along one text until it is deleted, which `IInv` knows from
  `Growing`.
- `SessionsTyped`: `TypeOK`.

`StartupProofs` and `AdviceProofs`, for every machine and all flags:

- `PanicFree`: `Spec => []PanicsOnlyWhenTooSmall`, from lemmas on each recommender:
  `BytesToPGFormat` fails for no number but 0, and which shares can be 0.
- `VersionSafe`: `Spec => []KnownToVersion`. The invariant of both says that
  `group` and `pos` are in range and that there is a configuration once a
  recommendation is asked for.
- `FindsTheFile`: `SearchFinds`, from `SearchInv`: what was looked at is a beginning
  of the list of candidates and not there, and what was found is one of them.
- `WALSizesFit`, `ConnectionsFit`, `MemoryShared`: `WALFits`, `ConnectionsShareMemory`
  and `SharesOfMemory`, under `ProgramSizes`: a kilobyte is 1024 and unsigned
  integers hold at least a terabyte, as in the program, and so with the numbers
  TLC cannot run. `Recorded` says that what is advised came from its recommender;
  `ReadsBack`, that a text from a megabyte on says a size at most a thousandth
  less; `Shared`, that dividing twice gives each user no more than a share.
- `StartTyped`: `TypeOK`, with the words of the program as texts
  (`WordsAssumption`). The invariant adds that a search runs only without
  a path from the flags (`TypedInv`), since it indexes the candidates.

`SearchInv` and `Recorded` were checked by TLC on the instance of `startup`, and
`OrderInv` on that of `sessions`, before they were proved.

Only model-checked: `UnattendedEnds`, since liveness under fairness is beyond the
prover, and the last three properties with the small units of their run (a
kilobyte of 32 bytes; the theorems have 1024).

## Not modelled

- Loose syntax beyond its being invisible: includes, `postgresql.auto.conf`. A
  library line in such a syntax gets a new line behind it that overrides its list,
  as in `libs_lost`.
- A line with more than one `= '...'` that says the same as the library list: the
  first is replaced, wherever it is. A loose library line with another list in its
  own comment, and a custom setting whose name ends in `shared_preload_libraries`,
  which the expression matches too. A stamp with the library list directly behind
  a `#` in its comment: without the `#` the quoted expression takes both values for
  one and still matches, where the line here is `broken` or a `comment`.
- What `fmt.Sprintf` makes of a percent sign: `Formatted` stands for a name that is
  not the one meant.
- Floating point: the products of the recommenders are exact here. With 53 bits
  of precision the two agree for sizes below 8 petabytes, up to the last byte,
  which formats drop.
- Fractions of times, and quotes around values: no recommendation has them.
- A read that overlaps a write of another run, and shows part of it.
- Directories given for `--out-path` and `--pg-config` (the same function as for
  the file), parsing of flags, `--version`.
- Output with its colours, and `PrettyDuration`: no state depends on it.

## Plan

Written, in this order: `PGValue`, `ConfFile`, `Settings`, `Tuner`,
`TunerProperties`, `MCTuner`, `TunerProofs`; `SafeEdit`, `TunerRefinement`,
`RefinementProofs`; `Recommenders`, `Startup`, `MCStartup`, `StartupProofs`;
`Sessions`, `MCSessions`, `SessionsProofs`; `EditProofs`, `OutputProofs`,
`ListProofs`, `AdviceProofs`. Next, proofs:

1. `WALFits`, `ConnectionsShareMemory` and `SharesOfMemory` for any size of a
   kilobyte, which takes the products of variables out of `ReadsBack`.
2. `PGDATAIsFound` for data directories without a percent sign, and `WALWithinShare`
   for disks whose share is whole segments: what is left of the sentences that the
   configurations `percent_path` and `wal_share` refute.
3. `OriginalRecoverable` and the refinement with read errors, for the runs that had none.
4. The safety half of `UnattendedEnds`: a measure that each step of an unattended
   run decreases.
