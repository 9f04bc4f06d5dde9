------------------------------ MODULE Startup ------------------------------
(***************************************************************************)
(* What a run of timescaledb-tune does before and besides editing: it      *)
(* makes a system configuration of its flags and of what it learns of the  *)
(* machine (initializeSystemConfig), looks for postgresql.conf             *)
(* (getConfigFilePath), and asks the recommender of each group for each of *)
(* its keys (processTunables).  Tuner shows the rest of the run.           *)
(*                                                                         *)
(* A path is the sequence of its parts.                                    *)
(***************************************************************************)
EXTENDS Recommenders

CONSTANT Starts  \* the machines and flags runs may start with

Path   == Seq(Text)
NoPath == <<>>
Percent == "%20"  \* a part of a path with a percent sign
NotSet == Word("not given")   \* a flag for a size that is not given

\* What pg_config prints, as its regular expression splits it.
PGConfigOutputs == [number : Text, rest : Text]

Machine ==
  [pgConfig : {o \in SUBSET PGConfigOutputs : \A a, b \in o : a = b},
                                         \* empty: it fails, or prints something else
   memory : 0..(Wrap - 1), cpus : Nat \ {0}, system : {"darwin", "linux", "windows"},
   PGDATA : Path,                       \* the directory it names, if it is set
   TSTUNE_PROFILE : {"", "promscale", "unknown"},
   exists : SUBSET Path, dirs : SUBSET Path]

Flags ==
  [profile : {"", "promscale", "unknown"}, pgVersion : Path, memory : Value,
   walDiskSize : Value, cpus : Nat, maxConns : Nat, maxBGWorkers : Int, confPath : Path]

ASSUME StartupAssumption == Starts \subseteq Machine \X Flags

\* The words of the program itself.
ASSUME WordsAssumption ==
  /\ {"", "kB", "MB", "GB", "TB", "tenths", "lz4", "off", "no recommendation"} \subseteq Text
  /\ {"postgresql.conf", "%!(NOVERB)", "/usr/local/var", "/opt/homebrew/var", "/etc/postgresql",
      "/var/lib/pgsql", "/var/lib/postgres/data", "/var/lib/postgresql/data"} \subseteq Text
  /\ ValidPGVersions \subseteq Path

VARIABLES
  machine,  \* what the machine tells
  flags,    \* the flags of the run
  pc,       \* where the run is
  config,   \* the system configuration: the set of it, empty at first
  path,     \* the file to tune
  tried,    \* the files looked for
  group,    \* index into tunables
  pos,      \* index into the keys of the group
  advice    \* key |-> what has been recommended for it

vars == <<machine, flags, pc, config, path, tried, group, pos, advice>>

PCs == {"config", "search", "open", "introduce", "advise", "done", "error", "panic"}

Init ==
  /\ \E s \in Starts : machine = s[1] /\ flags = s[2]
  /\ pc = "config" /\ config = {} /\ path = NoPath /\ tried = <<>>
  /\ group = 1 /\ pos = 1
  /\ advice = [k \in {} |-> NoRecommendation]

\* The environment has a say when the flag is blank.
profileGiven == IF flags.profile = "" THEN machine.TSTUNE_PROFILE ELSE flags.profile

profile == IF profileGiven = "promscale" THEN "promscale" ELSE "default"

-----------------------------------------------------------------------------
(* The system configuration.                                               *)

ToPGMajorVersion(output) ==
  CASE <<output.number>> \in ValidPGVersions -> {<<output.number>>}
    [] output.number \in {"7", "8", "9"} -> {<<output.number, output.rest>>}
    [] OTHER -> {}

\* The version flag, or the version pg_config tells, if it is one that the
\* program knows.
pgMajorVersion ==
  ValidPGVersions \cap (IF flags.pgVersion # <<>> THEN {flags.pgVersion}
                        ELSE UNION {ToPGMajorVersion(o) : o \in machine.pgConfig})

FlagBytes(flag, default) == IF flag = NotSet THEN {default} ELSE PGFormatToBytes(flag)

OrDefault(flag, default) == IF flag = 0 THEN default ELSE flag

\* Defect used to test the properties: any number of workers will do.
NewSystemConfig_AnyWorkers(c) == c.maxConns = 0 \/ c.maxConns >= minMaxConns

NewSystemConfig(c) ==
  /\ c.maxConns = 0 \/ c.maxConns >= minMaxConns
  /\ c.maxBGWorkers >= MaxBackgroundWorkersDefault

initializeSystemConfig ==
  {c \in {[version |-> v, memory |-> m, walDisk |-> w,
           cpus |-> OrDefault(flags.cpus, machine.cpus), maxConns |-> flags.maxConns,
           maxBGWorkers |-> OrDefault(flags.maxBGWorkers, MaxBackgroundWorkersDefault)] :
             v \in pgMajorVersion, m \in FlagBytes(flags.memory, machine.memory),
             w \in FlagBytes(flags.walDiskSize, 0)} :
     NewSystemConfig(c)}

dirPathToFile(p) ==
  IF p # NoPath /\ p \in machine.dirs THEN Append(p, "postgresql.conf") ELSE p

Configure ==
  /\ pc = "config"
  /\ config' = IF profileGiven = "unknown" THEN {} ELSE initializeSystemConfig
  /\ path' = dirPathToFile(flags.confPath)
  /\ pc' = CASE config' = {} -> "error"
             [] config' # {} /\ path' = NoPath -> "search"
             [] OTHER -> "open"
  /\ UNCHANGED <<machine, flags, tried, group, pos, advice>>

-----------------------------------------------------------------------------
(* The search for the file.                                                *)

\* The file the environment names, and the path the search makes of it: the
\* name is used as a format, so that a part with a percent sign is rewritten.
PGDATAFile == Append(machine.PGDATA, "postgresql.conf")

Formatted(p) == [i \in DOMAIN p |-> IF p[i] = Percent THEN "%!(NOVERB)" ELSE p[i]]

\* Defect used to test the properties: the version is left out of a path.
Places_NoVersion(version, system) ==
  CASE system = "darwin" -> <<<<"/usr/local/var">>, <<"/opt/homebrew/var">>>>
    [] system = "linux"  -> <<<<"/var/lib/pgsql", "14">>, <<"/var/lib/postgres/data">>>>
    [] OTHER -> <<>>

\* Where a package puts the file, with or without the version in the path.
Places(version, system) ==
  CASE system = "darwin" ->
         <<<<"/usr/local/var">>, <<"/usr/local/var">> \o version,
           <<"/opt/homebrew/var">>, <<"/opt/homebrew/var">> \o version>>
    [] system = "linux" ->
         <<<<"/etc/postgresql">> \o version, <<"/var/lib/pgsql">> \o version,
           <<"/var/lib/postgres/data">>, <<"/var/lib/postgresql/data">>>>
    [] OTHER -> <<>>

Candidates(version) ==
  (IF machine.PGDATA # NoPath THEN <<Formatted(PGDATAFile)>> ELSE <<>>)
    \o Places(version, machine.system)

\* One place is looked at; when it is the last, the search has failed.
try(c) ==
  LET places == Candidates(c.version)
      next   == places[Len(tried) + 1]
  IN /\ pc = "search"
     /\ IF tried = places
        THEN pc' = "error" /\ UNCHANGED <<tried, path>>
        ELSE /\ tried' = Append(tried, next)
             /\ IF next \in machine.exists THEN path' = next /\ pc' = "open"
                                           ELSE UNCHANGED <<path, pc>>
     /\ UNCHANGED <<machine, flags, config, group, pos, advice>>

\* A file that exists may still not be readable.
Open ==
  /\ pc = "open"
  /\ \/ path \in machine.exists /\ pc' = "introduce"
     \/ pc' = "error"
  /\ UNCHANGED <<machine, flags, config, path, tried, group, pos, advice>>

-----------------------------------------------------------------------------
(* The recommendations.                                                    *)

\* BytesToDecimalFormat shows the memory, in processTunables and, with --quiet,
\* in processQuiet.
introduce(c) ==
  /\ pc = "introduce"
  /\ pc' = IF c.memory = 0 THEN "panic" ELSE "advise"
  /\ UNCHANGED <<machine, flags, config, path, tried, group, pos, advice>>

label == tunables[group]

\* Defect used to test the properties: an unavailable group is not skipped.
Skipped_Never(c) == FALSE

Skipped(c) == label = "parallelism" /\ ~ParallelIsAvailable(c)

nextGroup(c) ==
  /\ pc = "advise"
  /\ Skipped(c) \/ pos > Len(Keys(c, machine.system, label))
  /\ IF group < Len(tunables) THEN group' = group + 1 /\ pos' = 1 /\ UNCHANGED pc
                              ELSE pc' = "done" /\ UNCHANGED <<group, pos>>
  /\ UNCHANGED <<machine, flags, config, path, tried, advice>>

recommend(c) ==
  /\ pc = "advise"
  /\ ~Skipped(c) /\ pos <= Len(Keys(c, machine.system, label))
  /\ LET key == Keys(c, machine.system, label)[pos]
         new == Advice(c, profile, label, key)
     IN IF new = {} THEN pc' = "panic" /\ UNCHANGED <<advice, pos>>
        ELSE /\ \E v \in new :
                  advice' = [k \in DOMAIN advice \cup {key} |-> IF k = key THEN v ELSE advice[k]]
             /\ pos' = pos + 1
             /\ UNCHANGED pc
  /\ UNCHANGED <<machine, flags, config, path, tried, group>>

Next ==
  \/ Configure \/ Open
  \/ \E c \in config : try(c) \/ introduce(c) \/ nextGroup(c) \/ recommend(c)

Spec == Init /\ [][Next]_vars

-----------------------------------------------------------------------------
\* Every variable has its type, and there is at most one configuration.
TypeOK ==
  /\ machine \in Machine /\ flags \in Flags /\ pc \in PCs
  /\ config \subseteq SystemConfig /\ \A c, d \in config : c = d
  /\ path \in Path /\ tried \in Seq(Path)
  /\ group \in DOMAIN tunables /\ pos \in Nat \ {0}
  /\ advice \in [DOMAIN advice -> Value]

\* The recommenders panic (parse.go:115, parallel.go:54) only when a size is
\* next to nothing, or wraps to that: memory that is too little for the 7864 kB
\* in a gigabyte of wal_buffers, or a WAL disk with less than a byte to use.
\* One CPU, few workers and a declined group never lead there.
TooSmall(c) ==
  \/ c.memory < 134
  \/ (c.memory * 3) % Wrap < 4
  \/ c.walDisk # 0 /\ (c.walDisk * 60) % Wrap < 100

PanicsOnlyWhenTooSmall == pc = "panic" => \E c \in config : TooSmall(c)

\* parse.go:115 "bytes must be at least 1 byte", an assertion of the program:
\* no accepted flag breaks it.
NeverPanics == pc # "panic"

Bytes(k) == CHOOSE b \in PGFormatToBytes(advice[k]) : TRUE
Advised(keys) == keys \subseteq DOMAIN advice

\* The texts of the WAL sizes keep what was computed (WALRecommender and
\* BytesToPGFormat): the least is not above the most, and the most is 60% of
\* the disk, up to a segment more and to a thousandth of it, or what is left of
\* the next smaller unit, less.
WALFits ==
  \A c \in config : Advised({"min_wal_size", "max_wal_size"}) =>
    LET share == (c.walDisk * 60) \div 100
    IN /\ Bytes("min_wal_size") <= Bytes("max_wal_size")
       /\ c.walDisk # 0 /\ c.walDisk * 60 < Wrap =>
            /\ Bytes("max_wal_size") < share + Segment
            /\ Bytes("max_wal_size") >= share - (share \div 1000 + share \div Kilobyte + 1)

\* wal.go:15 "max_wal_size should be 60% of the WAL disk", wal.go:85 "we want to
\* take up at most walMaxDiskPct".
WALWithinShare ==
  \A c \in config : Advised({"max_wal_size"}) /\ c.walDisk # 0 =>
    Bytes("max_wal_size") * 100 <= c.walDisk * 60

\* work_mem is for as many connections as the miscellaneous group allows, be it
\* from the flag or from the memory (NewMemoryRecommender, MiscRecommender):
\* together they take no more than 400 MB for each gigabyte, above the least
\* work_mem and but for rounding to a kilobyte.
ConnectionsShareMemory ==
  \A c \in config : Advised({"work_mem", "max_connections"}) =>
    LET users == advice["max_connections"].num * half(c.cpus)
    IN \/ Bytes("work_mem") <= workMemMin
       \/ Bytes("work_mem") * users <= PerGig(c.memory, 400) + KB * users

\* The texts of the memory sizes are the shares of the memory the recommenders
\* mean, as near as the program itself asks when it compares sizes
\* (MemoryRecommender, BytesToPGFormat, isCloseEnough).
SharesOfMemory ==
  \A c \in config : Advised({MemoryKeys[i] : i \in DOMAIN MemoryKeys}) =>
    LET shared == IF profile = "promscale" THEN 2 ELSE 4
    IN c.memory >= GB /\ c.memory * 3 < Wrap =>
         /\ isCloseEnough(Bytes("shared_buffers") * shared, c.memory)
         /\ isCloseEnough(Bytes("effective_cache_size") * 4, c.memory * 3)
         /\ Bytes("shared_buffers") < Bytes("effective_cache_size")
         /\ IF c.memory < 16 * GB - 8 * MB
            THEN isCloseEnough(Bytes("maintenance_work_mem") * 8, c.memory)
            ELSE Bytes("maintenance_work_mem") = 2 * GB - MB

\* tuner.go:122 "Some settings are not applicable in some versions": what is
\* recommended is a setting of the version (Keys, getValueForVersion).
Since(k) ==
  CASE k = "max_parallel_workers"      -> ValidPGVersions \ Before10
    [] k = "jit"                       -> ValidPGVersions \ (Before10 \cup {<<"10">>})
    [] k = "default_toast_compression" -> ValidPGVersions \ Before14
    [] OTHER                           -> ValidPGVersions

KnownToVersion ==
  \A c \in config, k \in DOMAIN advice :
    advice[k] # NoRecommendation => c.version \in Since(k)

\* A search that fails has left no place out, and one that succeeds has not
\* found the file of another version (getConfigFilePath).
SearchFinds ==
  flags.confPath = NoPath =>
    \A c \in config :
      /\ pc = "error" /\ path = NoPath =>
           \A p \in machine.exists :
             \A i \in DOMAIN Candidates(c.version) : p # Candidates(c.version)[i]
      /\ path \notin {NoPath, Formatted(PGDATAFile)} =>
           path \in machine.exists /\ Tail(path) \in {<<>>, c.version}

\* config_file.go:36 "If successful it returns the full path to the file": the
\* file in a data directory that PGDATA names is found.
PGDATAIsFound ==
  flags.confPath = NoPath /\ machine.PGDATA # NoPath /\ PGDATAFile \in machine.exists =>
    /\ path \in {NoPath, PGDATAFile}
    /\ path = NoPath => pc \in {"config", "search"} \/ config = {}
=============================================================================
