------------------------------ MODULE MCTuner ------------------------------
(***************************************************************************)
(* Small machines and files to model-check Tuner on: a 1 GB, 4 CPU machine *)
(* with a 1 GB WAL disk and PostgreSQL 14, and two keys of each group;     *)
(* and one machine with everything Recommenders computes for it.           *)
(***************************************************************************)
EXTENDS TunerProperties, TunerRefinement

Size(n, u) == [num |-> n, unit |-> u]

MCText ==
  {SharedLib, extName, lastTunedParam, lastTunedVersionParam, "", "time", "version",
   "shared_buffers", "work_mem", "max_parallel_workers", "max_wal_size",
   "checkpoint_timeout", "bgwriter_flush_after", "max_connections", "jit", "port", "c1",
   "kB", "MB", "min", "on", "off", "no recommendation", "# note",
   "pg_stat_statements", "timescaledb_toolkit"} \cup Mentions

\* --- the machine -----------------------------------------------------------
MCSettingsKeys ==
  [l \in {tunables[g] : g \in DOMAIN tunables} |->
     CASE l = "memory"            -> <<"shared_buffers", "work_mem">>
       [] l = "parallelism"       -> <<"max_parallel_workers">>
       [] l = "WAL"               -> <<"max_wal_size", "checkpoint_timeout">>
       [] l = "background writer" -> <<"bgwriter_flush_after">>
       [] OTHER                   -> <<"max_connections", "jit">>]

MCRecommendation ==
  [p \in Profiles |-> [k \in UNION {{MCSettingsKeys[l][i] : i \in DOMAIN MCSettingsKeys[l]} :
                                    l \in DOMAIN MCSettingsKeys} |->
     CASE k = "shared_buffers" -> Size(IF p = "promscale" THEN 512 ELSE 256, "MB")
       [] k = "work_mem"             -> Size(8, "MB")
       [] k = "max_parallel_workers" -> Number(4)
       [] k = "max_wal_size"         -> Size(624, "MB")
       [] k = "checkpoint_timeout" /\ p = "promscale"   -> Number(900)
       [] k = "bgwriter_flush_after" /\ p = "promscale" -> Number(0)
       [] k = "max_connections"      -> Number(25)
       [] k = "jit"                  -> Word("off")
       [] OTHER                      -> NoRecommendation]]

\* --- lines -----------------------------------------------------------------
Live(k, v)      == SettingLine(k, v, "")
Commented(k, v) == [Live(k, v) EXCEPT !.form = "commented", !.note = "# note"]
Loose(k, v)     == [Live(k, v) EXCEPT !.form = "loose"]
Lib(form, libs) == [plainSharedLibLine EXCEPT !.form = form, !.libs = libs, !.note = "# note"]
Comment(text)   == [Live(text, Word("")) EXCEPT !.form = "comment"]
\* A line whose comment mentions the library list.
Seen(line, note, libs) == [line EXCEPT !.note = note, !.libs = libs]
OldStamp(p, form) == [ourParamString(p, 0) EXCEPT !.form = form]

SettingPool ==
  {Live("shared_buffers", Size(256, "MB")), Live("shared_buffers", Size(262144, "kB")),
   Live("shared_buffers", Size(128, "MB")), Commented("shared_buffers", Size(256, "MB")),
   Loose("shared_buffers", Size(128, "MB")), Live("work_mem", Size(8600, "kB")),
   Live("bgwriter_flush_after", Number(0)), Live("checkpoint_timeout", Size(15, "min")),
   Live("jit", Word("on")), Live("jit", Number(0))}

LibPool ==
  {Lib("live", {}), Lib("live", {"pg_stat_statements"}), Lib("live", {extName}),
   Lib("commented", {"pg_stat_statements"}), Lib("commented", {extName}),
   Lib("split", {}), Lib("live", {"timescaledb_toolkit"}), Lib("loose", {})}

MentionPool ==
  {Seen(Comment("c1"), mention, {extName}), Seen(Comment("c1"), mentionSameHash, {}),
   Seen(Live("port", Number(5432)), mentionHash, {}),
   Seen(Live("shared_buffers", Size(128, "MB")), mention, {}),
   Seen(Commented("shared_buffers", Size(256, "MB")), mentionSameHash, {"pg_stat_statements"}),
   Seen(OldStamp(lastTunedParam, "split"), mentionSameHash, {extName})}

StampPool ==
  {OldStamp(lastTunedParam, "live"), OldStamp(lastTunedParam, "commented"),
   OldStamp(lastTunedVersionParam, "live")}

OtherPool == {Comment("c1"), Live("port", Number(5432))}

Pool == SettingPool \cup LibPool \cup StampPool \cup OtherPool \cup MentionPool
Files(S, n) == UNION {[1..m -> S] : m \in 0..n}
AboutOneKey(c) == \A i, j \in DOMAIN c : c[i].key = c[j].key

\* Every file of two lines, and those of three about one key (duplicates).
EditContents ==
  Files(Pool, 2) \cup {c \in Files(SettingPool, 3) \cup Files(LibPool, 3) : AboutOneKey(c)}
                 \cup Files(StampPool, 3)

\* --- runs of the command ---------------------------------------------------
Asking == [yes |-> FALSE, quiet |-> FALSE, dryRun |-> FALSE, restore |-> FALSE,
           outPath |-> FALSE, confPath |-> TRUE, profile |-> "default"]
Yes      == [Asking EXCEPT !.yes = TRUE]
Quiet    == [Asking EXCEPT !.quiet = TRUE]
Append_  == [Yes EXCEPT !.quiet = TRUE, !.dryRun = TRUE]
Restore  == [Asking EXCEPT !.restore = TRUE]
Promscale(f) == [f EXCEPT !.profile = "promscale"]

EditFlags == {Yes, Append_, Quiet, Promscale([Append_ EXCEPT !.dryRun = FALSE]), Asking}

\* --- several runs, kills and restores ----------------------------------------
\* Which keys there are does not matter to the files, only that lines change:
\* one key, in the memory group, and a file with and without it.
OneKey == [l \in DOMAIN MCSettingsKeys |-> IF l = "memory" THEN <<"shared_buffers">> ELSE <<>>]
OneRecommendation ==
  [p \in Profiles |-> [k \in {"shared_buffers"} |-> MCRecommendation[p][k]]]

FilesContents ==
  {<<Live("shared_buffers", Size(128, "MB")), Lib("live", {extName}),
     OldStamp(lastTunedParam, "live"), OldStamp(lastTunedParam, "live")>>,
   <<Lib("commented", {})>>}

FilesFlags ==
  {Yes, [Yes EXCEPT !.outPath = TRUE, !.confPath = FALSE], Append_, Restore,
   [Asking EXCEPT !.confPath = FALSE], Promscale(Yes)}

\* --- where code and documentation differ ---------------------------------------
YesOnly      == {Yes}
PromscaleYes == {Promscale(Yes)}
RestoreDry   == {Yes, [Restore EXCEPT !.dryRun = TRUE]}
ScanContents    == Files(SettingPool, 2)
SplitContents   == Files({Lib("split", {})} \cup OtherPool, 2)
MentionContents == Files({Seen(Live("port", Number(5432)), mentionHash, {})} \cup OtherPool, 2)
LibContents     == Files({Lib("live", {"pg_stat_statements"}), Lib("commented", {extName})}, 2)
ToolkitContents == Files({Lib("live", {"timescaledb_toolkit"})} \cup OtherPool, 2)
JitContents     == Files({Live("jit", Number(0)), Live("jit", Word("on"))}, 1)
TimeoutContents == {<<Live("checkpoint_timeout", Size(15, "min"))>>}
NothingToTune   == {<<Live("bgwriter_flush_after", Size(512, "kB"))>>, <<>>}

\* --- what Recommenders computes for a whole machine -----------------------------
Computer ==
  [memory |-> 5 * GB, cpus |-> 1, version |-> <<"13">>, walDisk |-> 11 * GB, maxConns |-> 0,
   maxBGWorkers |-> 16]

ComputedKeys == [l \in {tunables[g] : g \in DOMAIN tunables} |-> Keys(Computer, "linux", l)]
GroupOf(k) ==
  CHOOSE l \in DOMAIN ComputedKeys :
    \E i \in DOMAIN ComputedKeys[l] : ComputedKeys[l][i] = k
ComputedText ==
  UNION {{ComputedKeys[l][i] : i \in DOMAIN ComputedKeys[l]} : l \in DOMAIN ComputedKeys}
\* With one CPU the parallelism group is passed and its recommender not asked.
ComputedRecommendation ==
  [p \in Profiles |-> [k \in ComputedText |->
     IF GroupOf(k) = "parallelism" THEN NoRecommendation
     ELSE CHOOSE v \in Advice(Computer, p, GroupOf(k), k) : TRUE]]
MCMachineText == MCText \cup ComputedText \cup {"GB", "TB", "tenths", "lz4"}

\* Every setting alone with a number and a size, the miscellaneous ones also
\* with a fraction and a word, and all of these at once; and each library line.
UnattendedContents ==
  {[i \in 1..Len(MiscKeys) |-> Live(MiscKeys[i], Number(1))]}
  \cup {<<Live(k, v)>> : k \in ComputedText, v \in {Number(0), Size(41, "MB")}}
  \cup {<<Live(MiscKeys[i], v)>> : i \in DOMAIN MiscKeys, v \in {Size(9, "tenths"), Word("on")}}
  \cup Files(LibPool, 1)
UnattendedFlags ==
  {Yes, Append_, [Yes EXCEPT !.confPath = FALSE], [Yes EXCEPT !.quiet = TRUE], Promscale(Yes),
   Quiet}
=============================================================================
