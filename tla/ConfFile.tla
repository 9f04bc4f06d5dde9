------------------------------ MODULE ConfFile ------------------------------
(***************************************************************************)
(* postgresql.conf as timescaledb-tune edits it: the lines, what the       *)
(* regular expressions of pkg/tstune/tune_settings.go and                  *)
(* shared_preload_libs.go make of one line, and the editing steps of       *)
(* config_file.go and tuner.go on the whole file.                          *)
(*                                                                         *)
(* A line is [key, form, val, libs, note].  "form" is how the line is      *)
(* written, as far as the regular expressions and PostgreSQL tell lines    *)
(* apart:                                                                  *)
(*   live       key = value                                                *)
(*   commented  #key = value, one run of # and then spaces                 *)
(*   split      # # key = '...', several runs of # before the key          *)
(*   comment    a comment that is no setting                               *)
(*   loose      a setting PostgreSQL accepts and the regular expressions   *)
(*              do not match (no "=", no spaces around it, no quotes, ...) *)
(*   broken     what PostgreSQL cannot read, and refuses the file for      *)
(* "note" is the trailing comment, or the text of a comment.  It may       *)
(* mention the library list, in one of three ways.  "libs" is the list of  *)
(* a shared_preload_libraries line, or of such a mention.  A line about    *)
(* nothing the program knows has a key of its own.                         *)
(***************************************************************************)
EXTENDS PGValue, Sequences

Form == {"live", "commented", "split", "comment", "loose", "broken"}
Line == [key : Text, form : Form, val : Value, libs : SUBSET Text, note : Text]

SharedLib == "shared_preload_libraries"
extName == "timescaledb"
lastTunedParam == "timescaledb.last_tuned"
lastTunedVersionParam == "timescaledb.last_tuned_version"

ourParams == {lastTunedParam, lastTunedVersionParam}

\* Comments that mention the library list: not directly behind a #, behind one
\* that is the first text of its kind in the line, or behind one that looks like
\* the # a commented line starts with.
mention         == "# see shared_preload_libraries"
mentionHash     == "# shared_preload_libraries"
mentionSameHash == "# shared_preload_libraries, # as in front"
Mentions == {mention, mentionHash, mentionSameHash}

\* The words the program itself writes.
ASSUME TextAssumption ==
  {SharedLib, extName, lastTunedParam, lastTunedVersionParam, "", "time", "version"}
    \cup Mentions \subseteq Text

\* Defect used to test the properties: the trailing comment is not written.
SettingLine_NoExtra(k, v, note) ==
  [key |-> k, form |-> "live", val |-> v, libs |-> {}, note |-> ""]

SettingLine(k, v, note) ==
  [key |-> k, form |-> "live", val |-> v, libs |-> {}, note |-> note]

plainSharedLibLine ==
  [key |-> SharedLib, form |-> "live", val |-> Word(""), libs |-> {extName}, note |-> ""]

\* The stamp of a run: the time it was written, or the version of the tool.
ourParamString(param, time) ==
  SettingLine(param,
              IF param = lastTunedParam THEN [num |-> time, unit |-> "time"]
                                        ELSE Word("version"),
              "")

-----------------------------------------------------------------------------
(* One line against the regular expressions.                               *)

\* keyToRegex and keyToRegexQuoted, anchored at both ends of the line.
parseWithRegex(line, k) == line.key = k /\ line.form \in {"live", "commented"}

\* A line about something else, with the library list in its comment.
mentionsLib(line) == line.key # SharedLib /\ line.note \in Mentions

\* sharedRegex has no anchor: it matches inside a comment too.
parseLineForSharedLibResult(line) ==
  \/ line.key = SharedLib /\ line.form \in {"live", "commented", "split"}
  \/ mentionsLib(line)

\* strings.Contains(libs, extName): the names of other libraries count.
NamesContainingExtName == {extName, "timescaledb_toolkit"}
hasTimescale(line) == line.libs \cap NamesContainingExtName # {}

\* What a line is without the first #, and without the # of its trailing comment.
uncommented(form) ==
  CASE form = "commented" -> "live"
    [] form = "split"     -> "commented"
    [] form = "comment"   -> "broken"
    [] OTHER              -> form

joined(form) == IF form \in {"commented", "split", "comment"} THEN "comment" ELSE "broken"

\* commentGroup is the run of # directly before the key of the list, and the
\* first text equal to it is removed, wherever in the line it is.
withoutCommentGroup(line) ==
  CASE \/ line.key = SharedLib
       \/ line.note = mentionSameHash /\ line.form \in {"commented", "split", "comment"}
         -> [line EXCEPT !.form = uncommented(@)]
    [] line.key # SharedLib /\ line.note = mention -> line
    [] OTHER -> [line EXCEPT !.form = joined(@), !.note = mention]

updateSharedLibLine(line) ==
  [withoutCommentGroup(line) EXCEPT !.libs = IF hasTimescale(line) THEN @ ELSE @ \cup {extName}]

-----------------------------------------------------------------------------
(* The whole file.  The working copy is a sequence of [content, remove].   *)

configLine(line) == [content |-> line, remove |-> FALSE]
WorkingLine == [content : Line, remove : BOOLEAN]

\* The position of the last line that matches, as a set of at most one: later
\* matches overwrite earlier ones in getConfigFileState.
LastMatch(lines, Matches(_)) ==
  {i \in DOMAIN lines :
     Matches(lines[i]) /\ \A j \in DOMAIN lines : j > i => ~Matches(lines[j])}

sharedLibResult(lines) == LastMatch(lines, parseLineForSharedLibResult)

\* A line the library expression matches is not tried for the settings.
parsedFor(line, k) == parseWithRegex(line, k) /\ ~parseLineForSharedLibResult(line)

\* Defect used to test the properties: the first match is kept.
tuneParseResult_First(lines, k) ==
  {i \in DOMAIN lines : parsedFor(lines[i], k) /\
                        \A j \in DOMAIN lines : j < i => ~parsedFor(lines[j], k)}

tuneParseResult(lines, k) == LastMatch(lines, LAMBDA l : parsedFor(l, k))

ReplaceAll(work, where, line) ==
  [i \in DOMAIN work |-> IF i \in where THEN configLine(line) ELSE work[i]]

\* Defect used to test the properties: a missing line is not appended.
PutLine_FoundOnly(work, where, line) == ReplaceAll(work, where, line)

\* Replace the line found, append when there is none.
PutLine(work, where, line) ==
  IF where = {} THEN Append(work, configLine(line)) ELSE ReplaceAll(work, where, line)

stampParam(work, param, time) ==
  PutLine(work,
          LastMatch(work, LAMBDA w : parseWithRegex(w.content, param)),
          ourParamString(param, time))

processOurParams(work, time) ==
  stampParam(stampParam(work, lastTunedParam, time), lastTunedVersionParam, time)

\* Defect used to test the properties: older stamps stay.
removeDuplicates_Never(work) == work

\* removeDuplicatesProcessor: every match but the last is marked for removal.
removeDuplicates(work) ==
  [i \in DOMAIN work |->
     [content |-> work[i].content,
      remove  |-> \/ work[i].remove
                  \/ \E p \in ourParams :
                       /\ parseWithRegex(work[i].content, p)
                       /\ \E j \in DOMAIN work : j > i /\ parseWithRegex(work[j].content, p)]]

-----------------------------------------------------------------------------
(* PostgreSQL's own reading of the file: the last line that is not a       *)
(* comment wins, however it is written.                                    *)
Effective(lines, k) ==
  LastMatch(lines, LAMBDA l : l.key = k /\ l.form \in {"live", "loose"})

EffectiveVal(lines, k)  == {lines[i].val : i \in Effective(lines, k)}
EffectiveLibs(lines) == UNION {lines[i].libs : i \in Effective(lines, SharedLib)}
=============================================================================
