-------------------------- MODULE TunerProperties --------------------------
(***************************************************************************)
(* What a run of timescaledb-tune leaves in the file it writes, stated     *)
(* over the state of Tuner when the run has ended.                         *)
(***************************************************************************)
EXTENDS Tuner

\* A tuning run that wrote its file and ended without an error.
TunedOk == pc = "idle" /\ exit = "ok" /\ ~flags.restore /\ ~flags.dryRun

output == file[outPath]

\* A line of the key that is not tried for it: PostgreSQL honours it and no
\* regular expression sees it, or its comment mentions the library list.  What
\* such a key ends up as is up to that line.
Unseen(line, k) == line.key = k /\ (line.form = "loose" \/ mentionsLib(line))
HasUnseen(content, k) == \E i \in DOMAIN content : Unseen(content[i], k)

\* A line that counts for the key in getConfigFileState.
Tried(line, k) ==
  IF k = SharedLib THEN parseLineForSharedLibResult(line) ELSE parsedFor(line, k)

\* The library line the program edits is one it can bring into effect: not
\* inside a comment and not behind several runs of #.
Liveable ==
  \A i \in sharedLibResult(read) :
    read[i].key = SharedLib /\ read[i].form \in {"live", "commented"}

\* It is not a line about something else that loses a # by the edit.
NotMistaken ==
  \A i \in sharedLibResult(read) : read[i].key = SharedLib \/ read[i].note = mention

IsStamp(line) ==
  parseWithRegex(line, lastTunedParam) \/ parseWithRegex(line, lastTunedVersionParam)

-----------------------------------------------------------------------------
\* A change the user accepted is what PostgreSQL will use: the last line of
\* the key that counts has the recommended value, with duplicates, commented
\* copies and trailing comments anywhere in the file.  PostgreSQL then loads
\* timescaledb, unless the list found names a library that contains the name;
\* all of the list found; and all it loaded before, unless a commented copy is
\* the last and takes over (README "will be overwritten with the changes that
\* you accepted"; processSettingsGroup, processSharedLibLine).
AcceptedTakesEffect ==
  TunedOk => \A k \in accepted :
    HasUnseen(read, k) \/
      IF k = SharedLib
      THEN Liveable =>
             /\ extName \in EffectiveLibs(output) \/ \E i \in libFound : hasTimescale(read[i])
             /\ \A i \in libFound : read[i].libs \subseteq EffectiveLibs(output)
             /\ \/ EffectiveLibs(read) \subseteq EffectiveLibs(output)
                \/ \E i \in libFound : read[i].form = "commented"
      ELSE EffectiveVal(output, k) = {Recommend(flags.profile, k)}

\* Tuning settles: run again on the output, the program proposes no change to
\* a setting it was allowed to set, meets no parsing problem there and leaves
\* the library line as it is (checkIfShouldShowSetting on its own output).
SettledAfterwards ==
  TunedOk =>
    /\ \A g \in DOMAIN tunables : IsAvailable(tunables[g]) =>
         \A k \in KeysOf(tunables[g]) : (flags.yes \/ k \in accepted) =>
           /\ ShowSetting(output, tunables[g], flags.profile, k)
                => Recommend(flags.profile, k) = NoRecommendation
           /\ ~UnexpectedParse(output, tunables[g], flags.profile, k)
    /\ Liveable => \A i \in sharedLibResult(output) :
                     updateSharedLibLine(output[i]) = output[i]

\* Every line that is not a stamp is still there, in its place among the
\* others.  Of the lines of an accepted key only the last match may differ,
\* and it keeps its trailing comment; of another line only the library list in
\* its comment, if it is the last there is; what is new is a stamp, or a line of
\* an accepted key behind all of them (getConfigFileState, WriteTo, setLine).
\* It needs that no comment loses its # to the edit of the list (NotMistaken).
NothingElseTouched ==
  TunedOk /\ NotMistaken =>
    \E place \in [{i \in DOMAIN read : ~IsStamp(read[i])} -> DOMAIN output] :
      /\ \A i, j \in DOMAIN place : i < j => place[i] < place[j]
      /\ \A i \in DOMAIN place :
           \/ output[place[i]] = read[i]
           \/ /\ read[i].key \in accepted
              /\ \A j \in DOMAIN read : j > i => ~Tried(read[j], read[i].key)
              /\ output[place[i]].key = read[i].key
              /\ output[place[i]].note = read[i].note
           \/ /\ SharedLib \in accepted /\ i \in libFound
              /\ output[place[i]] = [read[i] EXCEPT !.libs = @ \cup {extName}]
      /\ \A j \in DOMAIN output :
           \/ \E i \in DOMAIN place : place[i] = j
           \/ IsStamp(output[j])
           \/ output[j].key \in accepted /\ \A i \in DOMAIN place : place[i] < j

\* However many stamps earlier runs, older versions and appended output have
\* left, commented ones included, the output has one of each, of this run
\* (processOurParams, removeDuplicatesProcessor).
StampedOnce ==
  TunedOk => \A p \in ourParams :
    \E i \in DOMAIN output :
      /\ output[i] = ourParamString(p, now)
      /\ \A j \in DOMAIN output : parseWithRegex(output[j], p) => j = i

\* Appending what --quiet --dry-run printed has the effect of the in-place
\* edit that was not written (README "append the recommendations to the end of
\* your conf file instead of in-place replacement"; processQuiet).
AppendEquivalent ==
  (pc = "idle" /\ exit = "ok" /\ flags.quiet /\ flags.dryRun /\ ~flags.restore) =>
    LET inPlace  == [i \in DOMAIN lines |-> lines[i].content]
        appended == read \o printed
    IN \A k \in TunableKeys \cup {SharedLib} :
         HasUnseen(read, k) \/
           /\ EffectiveVal(appended, k) = EffectiveVal(inPlace, k)
           /\ k = SharedLib => EffectiveLibs(appended) = EffectiveLibs(inPlace)

\* With --yes and no --restore a run ends by itself: no prompt, no group of
\* settings and no write loops for ever (Run, promptUntilValidInput).
UnattendedEnds == (pc # "idle" /\ Unattended) ~> (pc = "idle")

-----------------------------------------------------------------------------
(* The inductive invariant behind them: lines is read with the accepted    *)
(* keys edited, and what has been written is lines without the marked ones. *)

\* Where the line of a key is that an edit replaces; nowhere if it appends.
Found(k) == IF k = SharedLib THEN libFound ELSE tuneParseResult(read, k)

NoteOf(k) ==
  IF tuneParseResult(read, k) = {} THEN ""
  ELSE read[CHOOSE i \in tuneParseResult(read, k) : TRUE].note

\* What it becomes, in the file and in what --quiet prints.
NewLine(k) ==
  IF k = SharedLib THEN newLibLine
  ELSE SettingLine(k, Recommend(flags.profile, k), NoteOf(k))
PrintedLine(k) ==
  IF k = SharedLib THEN newLibLine ELSE SettingLine(k, Recommend(flags.profile, k), "")

\* Line i of the file once the keys K have been edited.
EditedLine(i, K) ==
  IF SharedLib \in K /\ i \in libFound THEN newLibLine
  ELSE IF read[i].key \in K \ {SharedLib} /\ i \in Found(read[i].key) THEN NewLine(read[i].key)
  ELSE read[i]

\* The stamps of this run.
OurStamps == {ourParamString(p, now) : p \in ourParams}

\* The working copy w is the file with the keys K edited, up to stamps.
EditedBy(w, K) ==
  /\ Len(read) <= Len(w)
  /\ \A i \in DOMAIN w : w[i].remove => IsStamp(w[i].content)
  /\ \A i \in DOMAIN read :
       \/ w[i].content = EditedLine(i, K)
       \/ IsStamp(EditedLine(i, K)) /\ w[i].content \in OurStamps
  /\ \A i \in DOMAIN w : i > Len(read) =>
       \/ w[i].content \in OurStamps
       \/ \E k \in K : Found(k) = {} /\ w[i].content = NewLine(k)
  /\ \A k \in K : Found(k) = {} =>
       \E i \in DOMAIN w :
         /\ i > Len(read) /\ w[i].content = NewLine(k)
         /\ \A j \in DOMAIN w : j > i => w[j].content.key # k

\* A run that tunes: before it marks duplicates, and from then to its end.
Tuning   == pc \in {"backup", "backupLines"} \cup Deciding
Finished == pc \in {"write", "writeLines"} \/ (pc = "idle" /\ exit = "ok" /\ ~flags.restore)

\* Nothing has been decided or edited before the library line is.
Undecided ==
  /\ pc \in Reading \cup {"backupLines", "sharedLib", "tune"} =>
       group = 1 /\ (pc # "tune" => accepted = {} /\ printed = <<>>)
  /\ pc \in {"backup", "backupLines", "sharedLib"} => lines = WorkingCopy(read)

Edited ==
  Tuning \/ Finished =>
    /\ accepted \subseteq TunableKeys \cup {SharedLib}
    /\ EditedBy(lines, accepted)

Unmarked == Tuning => \A i \in DOMAIN lines : ~lines[i].remove

\* One stamp of each kind is left unmarked, and it is this run's.
Stamped ==
  Finished => \A p \in ourParams :
    \E i \in DOMAIN lines :
      /\ lines[i] = configLine(ourParamString(p, now))
      /\ \A j \in DOMAIN lines :
           parseWithRegex(lines[j].content, p) /\ ~lines[j].remove => j = i

\* A content is the unmarked ones of the first n lines, in their order.
WrittenFrom(content, n) ==
  \E from \in [DOMAIN content -> 1..n] :
    /\ \A i, j \in DOMAIN content : i < j => from[i] < from[j]
    /\ \A i \in DOMAIN content :
         content[i] = lines[from[i]].content /\ ~lines[from[i]].remove
    /\ \A m \in 1..n : lines[m].remove \/ \E i \in DOMAIN content : from[i] = m

Written ==
  /\ pc = "writeLines" => pos <= Len(lines) + 1 /\ WrittenFrom(output, pos - 1)
  /\ TunedOk => WrittenFrom(output, Len(lines))

\* The library line was edited, or there was one the program had nothing to do to.
LibDecided ==
  Finished \/ pc \in Deciding \ {"sharedLib"} =>
    \/ SharedLib \in accepted
    \/ libFound # {} /\ \A i \in libFound : updateSharedLibLine(read[i]) = read[i]

\* A key of group g needs no change, or the change was accepted.
KeyDone(g, k) ==
  /\ ~UnexpectedParse(read, tunables[g], flags.profile, k)
  /\ \/ k \in accepted
     \/ ~ShowSetting(read, tunables[g], flags.profile, k)
     \/ Recommend(flags.profile, k) = NoRecommendation

\* With --yes every group is gone through to its end.
GroupsDone ==
  flags.yes =>
    /\ Finished \/ pc \in {"quietPrompt", "ourParams"} => group > Len(tunables)
    /\ Tuning \/ Finished =>
         \A g \in DOMAIN tunables : g < group /\ IsAvailable(tunables[g]) =>
           \A k \in KeysOf(tunables[g]) : KeyDone(g, k)
    /\ pc = "apply" =>
         /\ \A k \in KeysOf(label) : ~UnexpectedParse(read, label, flags.profile, k)
         /\ \A i \in DOMAIN keys : i < pos => KeyDone(group, keys[i])

\* What --quiet has printed: lines of accepted keys, for each of them one that
\* no other line of the key follows, and stamps.
PrintedFor(text, K) ==
  /\ \A i \in DOMAIN text :
       text[i].key \in ourParams \/ \E k \in K : text[i] = PrintedLine(k)
  /\ \A k \in K :
       \E i \in DOMAIN text :
         /\ text[i] = PrintedLine(k)
         /\ \A j \in DOMAIN text : j > i => text[j].key # k

Printed == flags.quiet /\ (Finished \/ pc \in Deciding) => PrintedFor(printed, accepted)

EditInv ==
  Undecided /\ Edited /\ Unmarked /\ Stamped /\ Written /\ LibDecided /\ GroupsDone /\ Printed

-----------------------------------------------------------------------------
(* What the documentation or a comment says and the code does not do.      *)

\* README:126 "makes a backup of your postgresql.conf file each time it runs":
\* the backup of a run is the file the run began with.
BackupIsWholeFile ==
  (pc = "sharedLib" /\ ~flags.dryRun) => backups[now] = before["conf"]

\* main.go:46 "Whether to just show the changes without overwriting the
\* configuration file".
DryRunOverwritesNothing == flags.dryRun => file["conf"] = before["conf"]

\* shared_preload_libs.go:39 the line is updated "to validly include the
\* 'timescaledb' extension": after an accepted run PostgreSQL loads it.
TimescaleLoaded ==
  (TunedOk /\ ~HasUnseen(read, SharedLib)) => extName \in EffectiveLibs(output)

\* shared_preload_libs.go:19 the list found is "the string value of the
\* libraries currently set in the config file", and the new one is made of it:
\* what PostgreSQL loaded before it still loads.
LibrariesKept == TunedOk => EffectiveLibs(read) \subseteq EffectiveLibs(output)

\* tuner.go:422 "keep trailing comments when writing": a comment stays one, and
\* a file PostgreSQL can read can be read afterwards.
StaysReadable ==
  TunedOk /\ (\A i \in DOMAIN read : read[i].form # "broken") =>
    \A i \in DOMAIN output : output[i].form # "broken"

\* README:98 "If you want to accept all recommendations, you can use --yes": a
\* run does not end on its own recommendation.
NoInternalError == exit # "internal"

\* tuner.go:498 "Settings that need to be changed exist": a group is offered,
\* and taken, only with a recommendation to make.
OfferHasRecommendation == pc = "apply" => \E k \in KeysOf(label) : Changed(k)

\* tuner.go:433 a setting is shown if "the setting's recommended value is far
\* enough away from its current value", and wal.go:20 the recommended
\* checkpoint_timeout is "15 minutes expressed in seconds": 15min is no change.
SameTimeoutNotShown ==
  (pc = "apply" /\ label = "WAL" /\ flags.profile = "promscale") =>
    \A i \in tuneParseResult(read, "checkpoint_timeout") :
      (read[i].form = "live" /\ read[i].val = [num |-> 15, unit |-> "min"])
        => ~Shown("checkpoint_timeout")
=============================================================================
