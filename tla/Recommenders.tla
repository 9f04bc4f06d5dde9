---------------------------- MODULE Recommenders ----------------------------
(***************************************************************************)
(* What timescaledb-tune recommends on a machine: the recommenders of      *)
(* pkg/pgtune and the formatting of sizes of internal/parse/parse.go.      *)
(*                                                                         *)
(* A recommendation is the set of the text returned, and the empty set     *)
(* when the code panics.  Sizes the code gives in small units are written  *)
(* as parts of a larger one (16 MB is GB \div 64), the same number when    *)
(* Kilobyte is 1024, and they keep a machine's proportions when it is      *)
(* less.  Products of whole numbers wrap; those the code takes in floating *)
(* point are exact here.                                                   *)
(***************************************************************************)
EXTENDS PGValue, Sequences

tunables == <<"memory", "parallelism", "WAL", "background writer", "miscellaneous">>
Profiles == {"default", "promscale"}

\* Major versions: what stands for 9.6 is the number and its rest.
Before10 == {<<"9", ".6">>}
Before12 == Before10 \cup {<<"10">>, <<"11">>}
Before13 == Before12 \cup {<<"12">>}
Before14 == Before13 \cup {<<"13">>}
ValidPGVersions ==
  Before14 \cup {<<"14">>, <<"15">>, <<"16">>, <<"17">>, <<"18">>, <<"19">>}

MaxBackgroundWorkersDefault == 16
minMaxConns == 25

SystemConfig ==
  [memory : Nat, cpus : Nat \ {0}, version : ValidPGVersions, walDisk : Nat,
   maxConns : {n \in Nat : n = 0 \/ n >= minMaxConns},
   maxBGWorkers : {n \in Nat : n >= MaxBackgroundWorkersDefault}]

half(cpus) == (cpus + 1) \div 2   \* math.Round(cpus / 2)

-----------------------------------------------------------------------------
(* Sizes.                                                                  *)

\* Defect used to test the properties: what is left is dropped in every unit.
BytesToPGFormat_NoSmaller(bytes) ==
  CASE bytes = 0  -> {}
    [] bytes >= GB -> {[num |-> bytes \div GB, unit |-> "GB"]}
    [] bytes >= MB -> {[num |-> bytes \div MB, unit |-> "MB"]}
    [] OTHER       -> {[num |-> bytes \div KB + 1, unit |-> "kB"]}

\* The largest unit, unless it leaves more than a thousandth: then the next.
WholeOrSmaller(bytes, size, unit, smallerSize, smallerUnit) ==
  IF (bytes % size) * 1000 > size
  THEN {[num |-> bytes \div smallerSize, unit |-> smallerUnit]}
  ELSE {[num |-> bytes \div size, unit |-> unit]}

BytesToPGFormat(bytes) ==
  CASE bytes = 0   -> {}
    [] bytes >= TB -> WholeOrSmaller(bytes, TB, "TB", GB, "GB")
    [] bytes >= GB /\ bytes < TB -> WholeOrSmaller(bytes, GB, "GB", MB, "MB")
    [] bytes >= MB /\ bytes < GB -> WholeOrSmaller(bytes, MB, "MB", KB, "kB")
    [] bytes >= KB /\ bytes < MB -> {[num |-> (2 * bytes + KB) \div (2 * KB), unit |-> "kB"]}
    [] bytes > 0 /\ bytes < KB   -> {[num |-> 1, unit |-> "kB"]}

\* So many megabytes for each gigabyte of memory.
PerGig(memory, megabytes) == (memory * megabytes) \div 1024

-----------------------------------------------------------------------------
(* The recommenders.                                                       *)

getMaxConns(memory) ==
  CASE memory <= 2 * GB -> minMaxConns
    [] memory > 2 * GB /\ memory <= 4 * GB -> 50
    [] memory > 4 * GB /\ memory <= 6 * GB -> 75
    [] memory > 6 * GB -> 100

conns(c) == IF c.maxConns = 0 THEN getMaxConns(c.memory) ELSE c.maxConns

maintenanceWorkMem(c) ==
  LET share == PerGig(c.memory, 128)
      limit == 2 * GB - MB
  IN IF share > limit THEN limit ELSE share

\* Defect used to test the properties: the flag for connections is ignored.
workMem_Default(c) == (PerGig(c.memory, 400) \div getMaxConns(c.memory)) \div half(c.cpus)

workMem(c) == (PerGig(c.memory, 400) \div conns(c)) \div half(c.cpus)

workMemMin == MB \div 16   \* 64 kB

MemoryRecommender(c, profile, key) ==
  CASE key = "shared_buffers" ->
         BytesToPGFormat(c.memory \div (IF profile = "promscale" THEN 2 ELSE 4))
    [] key = "effective_cache_size" -> BytesToPGFormat(((c.memory * 3) % Wrap) \div 4)
    [] key = "maintenance_work_mem" -> BytesToPGFormat(maintenanceWorkMem(c))
    [] key = "work_mem" ->
         BytesToPGFormat(IF workMem(c) < workMemMin THEN workMemMin ELSE workMem(c))

ParallelIsAvailable(c) == c.cpus > 1

\* Both panics keep to what IsAvailable and NewSystemConfig have checked.
ParallelRecommender(c, key) ==
  IF c.cpus <= 1 \/ c.maxBGWorkers < MaxBackgroundWorkersDefault THEN {}
  ELSE {Number(CASE key = "timescaledb.max_background_workers"  -> c.maxBGWorkers
                 [] key = "max_worker_processes"            -> 3 + c.maxBGWorkers + c.cpus
                 [] key = "max_parallel_workers_per_gather" -> half(c.cpus)
                 [] key = "max_parallel_workers"            -> c.cpus)}

Segment == GB \div 64   \* 16 MB

\* Defect used to test the properties: one more segment, full or not.
RoundUp_Always(max) == (max \div Segment + 2) * Segment

RoundUp(max) == IF max % Segment # 0 THEN (max \div Segment + 1) * Segment ELSE max

\* calcMaxWALBytes and promscaleCalcMaxWALBytes.
calcMaxWALBytes(c, profile) ==
  IF c.walDisk = 0 THEN IF profile = "promscale" THEN 4 * GB ELSE GB
  ELSE RoundUp(((c.walDisk * 60) % Wrap) \div 100)

WALRecommender(c, profile, key) ==
  CASE key = "wal_buffers" ->
         BytesToPGFormat(IF c.memory < 2 * GB
                         THEN (c.memory * 7864) \div (1024 * 1024)   \* 7864 kB per GB
                         ELSE GB \div 64)
    [] key = "min_wal_size" -> BytesToPGFormat(calcMaxWALBytes(c, profile) \div 2)
    [] key = "max_wal_size" -> BytesToPGFormat(calcMaxWALBytes(c, profile))
    [] key = "checkpoint_timeout" ->
         {IF profile = "promscale" THEN Number(900) ELSE NoRecommendation}
    [] key = "wal_compression" ->
         {IF profile = "promscale" THEN Number(1) ELSE NoRecommendation}

BgwriterRecommender(profile) ==
  {IF profile = "promscale" THEN Number(0) ELSE NoRecommendation}

maxLocks(memory) ==
  CASE memory >= 32 * GB -> 1024
    [] memory >= 16 * GB /\ memory < 32 * GB -> 512
    [] memory >= 8 * GB /\ memory < 16 * GB  -> 256
    [] memory < 8 * GB -> 128

\* Defect used to test the properties: the versions before 13 are old.
getValueForVersion_OffByOne(version, old, oldValue, newValue) ==
  IF version \in old \ {<<"13">>} THEN oldValue ELSE newValue

getValueForVersion(version, old, oldValue, newValue) ==
  IF version \in old THEN oldValue ELSE newValue

MiscRecommender(c, key) ==
  {CASE key = "default_statistics_target"    -> Number(100)
     [] key = "random_page_cost"             -> [num |-> 11, unit |-> "tenths"]
     [] key = "checkpoint_completion_target" -> [num |-> 9, unit |-> "tenths"]
     [] key = "max_connections"              -> Number(conns(c))
     [] key = "max_locks_per_transaction"    -> Number(maxLocks(c.memory))
     [] key = "autovacuum_max_workers"       -> Number(10)
     [] key = "autovacuum_naptime"           -> Number(10)
     [] key = "default_toast_compression"    ->
          getValueForVersion(c.version, Before14, NoRecommendation, Word("lz4"))
     [] key = "jit" -> getValueForVersion(c.version, Before12, NoRecommendation, Word("off"))
     [] key = "effective_io_concurrency" ->
          getValueForVersion(c.version, Before13, Number(200), Number(256))}

-----------------------------------------------------------------------------
(* The groups.                                                             *)

MemoryKeys == <<"shared_buffers", "effective_cache_size", "maintenance_work_mem", "work_mem">>

ParallelKeys ==
  <<"timescaledb.max_background_workers", "max_worker_processes",
    "max_parallel_workers_per_gather", "max_parallel_workers">>

WALKeys ==
  <<"wal_buffers", "min_wal_size", "max_wal_size", "checkpoint_timeout", "wal_compression">>

BgwriterKeys == <<"bgwriter_flush_after">>

MiscKeys ==
  <<"default_statistics_target", "random_page_cost", "checkpoint_completion_target",
    "max_connections", "max_locks_per_transaction", "autovacuum_max_workers",
    "autovacuum_naptime", "default_toast_compression", "jit", "effective_io_concurrency">>

ButLast(s) == SubSeq(s, 1, Len(s) - 1)

\* max_parallel_workers came with version 10; effective_io_concurrency is for
\* Linux only.
Keys(c, system, label) ==
  CASE label = "memory"            -> MemoryKeys
    [] label = "parallelism"       -> IF c.version \in Before10 THEN ButLast(ParallelKeys)
                                                                ELSE ParallelKeys
    [] label = "WAL"               -> WALKeys
    [] label = "background writer" -> BgwriterKeys
    [] label = "miscellaneous"     -> IF system = "linux" THEN MiscKeys ELSE ButLast(MiscKeys)

Advice(c, profile, label, key) ==
  CASE label = "memory"            -> MemoryRecommender(c, profile, key)
    [] label = "parallelism"       -> ParallelRecommender(c, key)
    [] label = "WAL"               -> WALRecommender(c, profile, key)
    [] label = "background writer" -> BgwriterRecommender(profile)
    [] label = "miscellaneous"     -> MiscRecommender(c, key)
=============================================================================
