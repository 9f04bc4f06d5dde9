---------------------------- MODULE AdviceProofs ----------------------------
(***************************************************************************)
(* Proofs about what Startup recommends: how the texts of the WAL and      *)
(* memory sizes, read back, are related to the machine and to each other,  *)
(* with a kilobyte as large as the program's; and the type invariant.      *)
(***************************************************************************)
EXTENDS StartupProofs

\* A kilobyte of 1024 bytes, and unsigned integers that hold a terabyte: those
\* of the program have 64 bits.
ProgramSizes == Kilobyte = 1024 /\ Wrap >= TB

LEMMA Sizes ==
  ASSUME ProgramSizes
  PROVE  /\ KB = 1024 /\ MB = 1048576 /\ GB = 1073741824 /\ TB = 1099511627776
         /\ Segment = 16777216 /\ workMemMin = 65536
         /\ Wrap \in Nat /\ Wrap >= 1099511627776
<1>1. KB = 1024
  BY DEF ProgramSizes, KB
<1>2. MB = 1048576
  BY <1>1 DEF ProgramSizes, MB
<1>3. GB = 1073741824
  BY <1>2 DEF ProgramSizes, GB
<1>4. TB = 1099511627776
  BY <1>3 DEF ProgramSizes, TB
<1>5. Segment = 16777216 /\ workMemMin = 65536
  BY <1>2, <1>3 DEF Segment, workMemMin
<1>6. Wrap \in Nat /\ Wrap >= 1099511627776
  BY <1>4, PGValueAssumption DEF ProgramSizes
<1> QED
  BY <1>1, <1>2, <1>3, <1>4, <1>5, <1>6

-----------------------------------------------------------------------------
(* What a size is when its text is read back.                              *)

\* Two sizes that the program writes as one text: the second is what the text
\* says, at most a thousandth less than the first.
Written(b, n) == /\ n \in Nat /\ n <= b
                 /\ 1000 * (b - n) <= b

\* From a megabyte on, a text loses at most a thousandth and adds nothing.
LEMMA ReadsBack ==
  ASSUME ProgramSizes, NEW b \in Nat, b >= MB, b < Wrap,
         NEW v \in BytesToPGFormat(b)
  PROVE  \E n \in Nat : PGFormatToBytes(v) = {n} /\ Written(b, n)
<1>1. /\ KB = 1024 /\ MB = 1048576 /\ GB = 1073741824 /\ TB = 1099511627776
      /\ Wrap \in Nat /\ Wrap >= 1099511627776
  BY Sizes
<1>a. ASSUME NEW m \in Nat, NEW u \in {1024, 1048576, 1073741824, 1099511627776}, m * u <= b
      PROVE  m < Wrap \div 2 /\ (m * u) % Wrap = m * u
  <2>1. m * u \in Nat /\ 1024 * m <= m * u
    OBVIOUS
  <2>2. 1024 * m < Wrap
    BY <1>1, <1>a, <2>1
  <2>3. m < Wrap \div 2
    BY <1>1, <2>2
  <2>4. \A i, j \in Nat : i < j => i % j = i
    OBVIOUS
  <2> QED
    BY <1>1, <1>a, <2>1, <2>3, <2>4
<1>2. CASE b >= TB
  <2>1. v \in WholeOrSmaller(b, TB, "TB", GB, "GB")
    BY <1>1, <1>2 DEF BytesToPGFormat
  <2>2. CASE (b % TB) * 1000 > TB
    <3> DEFINE m == b \div GB
    <3>1. v = [num |-> m, unit |-> "GB"]
      BY <2>1, <2>2 DEF WholeOrSmaller
    <3>2. m \in Nat /\ m * GB <= b /\ b - m * GB < GB
      BY <1>1
    <3> HIDE DEF m
    <3>3. PGFormatToBytes(v) = {m * GB}
      BY <1>1, <1>a, <3>1, <3>2 DEF PGFormatToBytes
    <3> QED
      BY <1>1, <1>2, <3>2, <3>3 DEF Written
  <2>3. CASE ~((b % TB) * 1000 > TB)
    <3> DEFINE m == b \div TB
    <3>1. v = [num |-> m, unit |-> "TB"]
      BY <2>1, <2>3 DEF WholeOrSmaller
    <3>2. m \in Nat /\ m * TB <= b /\ (b - m * TB) * 1000 <= TB
      BY <1>1, <2>3
    <3> HIDE DEF m
    <3>3. PGFormatToBytes(v) = {m * TB}
      BY <1>1, <1>a, <3>1, <3>2 DEF PGFormatToBytes
    <3> QED
      BY <1>1, <1>2, <3>2, <3>3 DEF Written
  <2> QED
    BY <2>2, <2>3
<1>3. CASE b >= GB /\ b < TB
  <2>1. v \in WholeOrSmaller(b, GB, "GB", MB, "MB")
    BY <1>1, <1>3 DEF BytesToPGFormat
  <2>2. CASE (b % GB) * 1000 > GB
    <3> DEFINE m == b \div MB
    <3>1. v = [num |-> m, unit |-> "MB"]
      BY <2>1, <2>2 DEF WholeOrSmaller
    <3>2. m \in Nat /\ m * MB <= b /\ b - m * MB < MB
      BY <1>1
    <3> HIDE DEF m
    <3>3. PGFormatToBytes(v) = {m * MB}
      BY <1>1, <1>a, <3>1, <3>2 DEF PGFormatToBytes
    <3> QED
      BY <1>1, <1>3, <3>2, <3>3 DEF Written
  <2>3. CASE ~((b % GB) * 1000 > GB)
    <3> DEFINE m == b \div GB
    <3>1. v = [num |-> m, unit |-> "GB"]
      BY <2>1, <2>3 DEF WholeOrSmaller
    <3>2. m \in Nat /\ m * GB <= b /\ (b - m * GB) * 1000 <= GB
      BY <1>1, <2>3
    <3> HIDE DEF m
    <3>3. PGFormatToBytes(v) = {m * GB}
      BY <1>1, <1>a, <3>1, <3>2 DEF PGFormatToBytes
    <3> QED
      BY <1>1, <1>3, <3>2, <3>3 DEF Written
  <2> QED
    BY <2>2, <2>3
<1>4. CASE b >= MB /\ b < GB
  <2>1. v \in WholeOrSmaller(b, MB, "MB", KB, "kB")
    BY <1>1, <1>4 DEF BytesToPGFormat
  <2>2. CASE (b % MB) * 1000 > MB
    <3> DEFINE m == b \div KB
    <3>1. v = [num |-> m, unit |-> "kB"]
      BY <2>1, <2>2 DEF WholeOrSmaller
    <3>2. m \in Nat /\ m * KB <= b /\ b - m * KB < KB
      BY <1>1
    <3> HIDE DEF m
    <3>3. PGFormatToBytes(v) = {m * KB}
      BY <1>1, <1>a, <3>1, <3>2 DEF PGFormatToBytes
    <3> QED
      BY <1>1, <1>4, <3>2, <3>3 DEF Written
  <2>3. CASE ~((b % MB) * 1000 > MB)
    <3> DEFINE m == b \div MB
    <3>1. v = [num |-> m, unit |-> "MB"]
      BY <2>1, <2>3 DEF WholeOrSmaller
    <3>2. m \in Nat /\ m * MB <= b /\ (b - m * MB) * 1000 <= MB
      BY <1>1, <2>3
    <3> HIDE DEF m
    <3>3. PGFormatToBytes(v) = {m * MB}
      BY <1>1, <1>a, <3>1, <3>2 DEF PGFormatToBytes
    <3> QED
      BY <1>1, <1>4, <3>2, <3>3 DEF Written
  <2> QED
    BY <2>2, <2>3
<1> QED
  BY <1>1, <1>2, <1>3, <1>4

-----------------------------------------------------------------------------
(* What has been recommended so far.                                       *)

MemoryNames == {"shared_buffers", "effective_cache_size", "maintenance_work_mem", "work_mem"}
WALNames    == {"wal_buffers", "min_wal_size", "max_wal_size", "checkpoint_timeout",
                "wal_compression"}

\* The advice of the two groups and on connections is that of their
\* recommenders, on a machine whose memory is an unsigned integer.
Recorded ==
  \A c \in config :
    /\ c.memory < Wrap
    /\ \A k \in DOMAIN advice :
         /\ k \in MemoryNames => advice[k] \in MemoryRecommender(c, profile, k)
         /\ k \in WALNames => advice[k] \in WALRecommender(c, profile, k)
         /\ k = "max_connections" => advice[k] \in MiscRecommender(c, k)

ParallelNames == {"timescaledb.max_background_workers", "max_worker_processes",
                  "max_parallel_workers_per_gather", "max_parallel_workers"}
MiscNames == {"default_statistics_target", "random_page_cost", "checkpoint_completion_target",
              "max_connections", "max_locks_per_transaction", "autovacuum_max_workers",
              "autovacuum_naptime", "default_toast_compression", "jit", "effective_io_concurrency"}

LEMMA KeysOfGroup ==
  ASSUME NEW c, NEW s, NEW g \in DOMAIN tunables,
         NEW i \in 1..Len(Keys(c, s, tunables[g]))
  PROVE  LET key == Keys(c, s, tunables[g])[i]
         IN /\ tunables[g] = "memory" => key \in MemoryNames
            /\ tunables[g] = "parallelism" => key \in ParallelNames
            /\ tunables[g] = "WAL" => key \in WALNames
            /\ tunables[g] = "background writer" => key = "bgwriter_flush_after"
            /\ tunables[g] = "miscellaneous" => key \in MiscNames
<1> DEFINE l   == tunables[g]
           key == Keys(c, s, l)[i]
<1>1. CASE l = "memory"
  <2>1. key \in MemoryNames
    BY <1>1 DEF Keys, MemoryKeys, MemoryNames
  <2> QED
    BY <1>1, <2>1
<1>2. CASE l = "WAL"
  <2>1. key \in WALNames
    BY <1>2 DEF Keys, WALKeys, WALNames
  <2> QED
    BY <1>2, <2>1
<1>3. CASE l = "background writer"
  <2>1. Keys(c, s, l) = BgwriterKeys
    BY <1>3 DEF Keys
  <2>2. i = 1
    BY <2>1 DEF BgwriterKeys
  <2>3. key = "bgwriter_flush_after"
    BY <2>1, <2>2 DEF BgwriterKeys
  <2> QED
    BY <1>3, <2>3
<1>4. CASE l = "parallelism"
  <2>1. \E j \in 1..4 : key = ParallelKeys[j]
    <3>1. CASE c.version \in Before10
      <4>1. i \in 1..3 /\ key = SubSeq(ParallelKeys, 1, 3)[i]
        BY <1>4, <3>1 DEF Keys, ButLast, ParallelKeys
      <4>2. key = ParallelKeys[i]
        BY <4>1 DEF ParallelKeys
      <4> QED
        BY <4>1, <4>2
    <3>2. CASE c.version \notin Before10
      <4>1. Keys(c, s, l) = ParallelKeys
        BY <1>4, <3>2 DEF Keys
      <4>2. Len(ParallelKeys) = 4
        BY DEF ParallelKeys
      <4> QED
        BY <4>1, <4>2
    <3> QED
      BY <3>1, <3>2
  <2>2. \A j \in 1..4 : ParallelKeys[j] \in ParallelNames
    BY DEF ParallelKeys, ParallelNames
  <2> QED
    BY <1>4, <2>1, <2>2
<1>5. CASE l = "miscellaneous"
  <2>1. \E j \in 1..10 : key = MiscKeys[j]
    <3>1. CASE s = "linux"
      <4>1. Keys(c, s, l) = MiscKeys
        BY <1>5, <3>1 DEF Keys
      <4>2. Len(MiscKeys) = 10
        BY DEF MiscKeys
      <4> QED
        BY <4>1, <4>2
    <3>2. CASE s # "linux"
      <4>1. i \in 1..9 /\ key = SubSeq(MiscKeys, 1, 9)[i]
        BY <1>5, <3>2 DEF Keys, ButLast, MiscKeys
      <4>2. key = MiscKeys[i]
        BY <4>1 DEF MiscKeys
      <4> QED
        BY <4>1, <4>2
    <3> QED
      BY <3>1, <3>2
  <2>2. \A j \in 1..10 : MiscKeys[j] \in MiscNames
    BY DEF MiscKeys, MiscNames
  <2> QED
    BY <1>5, <2>1, <2>2
<1>6. l \in {"memory", "parallelism", "WAL", "background writer", "miscellaneous"}
  BY Labels
<1> QED
  BY <1>1, <1>2, <1>3, <1>4, <1>5, <1>6

\* The groups share no keys.
LEMMA KeyTellsGroup ==
  ASSUME NEW c, NEW s, NEW g \in DOMAIN tunables,
         NEW i \in 1..Len(Keys(c, s, tunables[g]))
  PROVE  /\ Keys(c, s, tunables[g])[i] \in MemoryNames => tunables[g] = "memory"
         /\ Keys(c, s, tunables[g])[i] \in WALNames => tunables[g] = "WAL"
         /\ Keys(c, s, tunables[g])[i] = "max_connections" => tunables[g] = "miscellaneous"
<1> DEFINE l   == tunables[g]
           key == Keys(c, s, l)[i]
<1>1. l \in {"memory", "parallelism", "WAL", "background writer", "miscellaneous"}
  BY Labels
<1>2. /\ l = "memory" => key \in MemoryNames
      /\ l = "parallelism" => key \in ParallelNames
      /\ l = "WAL" => key \in WALNames
      /\ l = "background writer" => key = "bgwriter_flush_after"
      /\ l = "miscellaneous" => key \in MiscNames
  BY KeysOfGroup
<1> HIDE DEF l, key
<1>3. /\ key \in MemoryNames => l = "memory"
      /\ key \in WALNames => l = "WAL"
      /\ key = "max_connections" => l = "miscellaneous"
  BY <1>1, <1>2 DEF MemoryNames, WALNames, ParallelNames, MiscNames
<1> QED
  BY <1>3 DEF l, key

\* What a parser of sizes returns is an unsigned integer.
LEMMA ParsesBounded ==
  ASSUME NEW v \in Value, NEW b \in PGFormatToBytes(v)
  PROVE  b \in Nat /\ b < Wrap
<1>1. v.num \in Nat
  BY DEF Value
<1>2. b \in Nat
  BY ParsesOne
<1>3. \A m, n \in Nat : n > 0 => m % n < n /\ n \div 2 <= n
  OBVIOUS
<1>4. \A n \in Nat : (v.num * n) % Wrap < Wrap /\ v.num * n \in Nat
  BY <1>1, <1>3, PGValueAssumption
<1>5. \/ b = v.num /\ ~(v.num >= Wrap \div 2)
      \/ \E n \in {KB, MB, GB, TB} : b = (v.num * n) % Wrap
  BY DEF PGFormatToBytes
<1>6. KB \in Nat /\ MB \in Nat /\ GB \in Nat /\ TB \in Nat
  BY Units
<1>7. Wrap \div 2 \in Nat /\ Wrap \div 2 <= Wrap
  BY PGValueAssumption
<1>8. b < Wrap
  <2>1. CASE b = v.num /\ ~(v.num >= Wrap \div 2)
    BY <1>2, <1>7, <2>1, PGValueAssumption
  <2>2. CASE \E n \in {KB, MB, GB, TB} : b = (v.num * n) % Wrap
    BY <1>4, <1>6, <2>2
  <2> QED
    BY <1>5, <2>1, <2>2
<1> QED
  BY <1>2, <1>8

LEMMA MemoryBounded ==
  ASSUME machine \in Machine, flags \in Flags, NEW c \in initializeSystemConfig
  PROVE  c.memory < Wrap
<1>1. c.memory \in FlagBytes(flags.memory, machine.memory)
  BY DEF initializeSystemConfig
<1>2. flags.memory \in Value
  BY DEF Flags
<1>3. machine.memory < Wrap
  <2>1. machine.memory \in 0..(Wrap - 1)
    BY DEF Machine
  <2> QED
    BY <2>1, PGValueAssumption
<1> QED
  BY <1>1, <1>2, <1>3, ParsesBounded DEF FlagBytes

LEMMA RecordsAdvice ==
  ASSUME IInv, Recorded, NEW c \in config, recommend(c)
  PROVE  Recorded'
<1> DEFINE key == Keys(c, machine.system, label)[pos]
           new == Advice(c, profile, label, key)
<1>1. c \in SystemConfig /\ group \in DOMAIN tunables /\ pos \in Nat \ {0}
  BY DEF IInv, Configured
<1>2. /\ pos <= Len(Keys(c, machine.system, label))
      /\ UNCHANGED <<machine, flags, config, path, tried, group>>
  BY DEF recommend
<1>3. profile' = profile
  BY <1>2 DEF profile, profileGiven
<1>4. \A d \in config : d = c
  BY DEF IInv, Configured
<1>5. CASE new = {}
  <2>1. advice' = advice
    BY <1>5 DEF recommend
  <2> QED
    BY <1>2, <1>3, <2>1 DEF Recorded
<1>6. CASE new # {}
  <2>1. PICK v \in new :
          advice' = [k \in DOMAIN advice \cup {key} |-> IF k = key THEN v ELSE advice[k]]
    BY <1>6 DEF recommend
  <2>2. pos \in 1..Len(Keys(c, machine.system, tunables[group]))
    <3>1. Len(Keys(c, machine.system, label)) \in Nat
      BY <1>1, KeysCounted DEF label
    <3> QED
      BY <1>1, <1>2, <3>1 DEF label
  <2>3. /\ key \in MemoryNames => label = "memory"
        /\ key \in WALNames => label = "WAL"
        /\ key = "max_connections" => label = "miscellaneous"
    BY <1>1, <2>2, KeyTellsGroup DEF label
  <2>4. /\ key \in MemoryNames => v \in MemoryRecommender(c, profile, key)
        /\ key \in WALNames => v \in WALRecommender(c, profile, key)
        /\ key = "max_connections" => v \in MiscRecommender(c, key)
    BY <2>3 DEF Advice
  <2> HIDE DEF key, new
  <2> SUFFICES ASSUME NEW k \in DOMAIN advice'
               PROVE  /\ k \in MemoryNames => advice'[k] \in MemoryRecommender(c, profile, k)
                      /\ k \in WALNames => advice'[k] \in WALRecommender(c, profile, k)
                      /\ k = "max_connections" => advice'[k] \in MiscRecommender(c, k)
    BY <1>2, <1>3, <1>4 DEF Recorded
  <2>5. CASE k = key
    <3>1. advice'[k] = v
      BY <2>1, <2>5
    <3> QED
      BY <2>4, <2>5, <3>1
  <2>6. CASE k # key
    <3>1. k \in DOMAIN advice /\ advice'[k] = advice[k]
      BY <2>1, <2>6
    <3> QED
      BY <3>1 DEF Recorded
  <2> QED
    BY <2>5, <2>6
<1> QED
  BY <1>5, <1>6

LEMMA RecordedHolds == IInv /\ Recorded /\ [Next]_vars => Recorded'
<1> SUFFICES ASSUME IInv, Recorded, [Next]_vars PROVE Recorded'
  OBVIOUS
<1>1. CASE Configure
  <2>1. pc = "config" /\ advice' = advice
    BY <1>1 DEF Configure
  <2>2. DOMAIN advice' = {}
    BY <2>1 DEF IInv, Configured
  <2>3. config' = {} \/ config' = initializeSystemConfig
    BY <1>1 DEF Configure
  <2>4. \A c \in config' : c.memory < Wrap
    BY <2>3, MemoryBounded DEF IInv, Configured
  <2> QED
    BY <2>2, <2>4 DEF Recorded
<1>2. ASSUME UNCHANGED <<machine, flags, config, advice>> PROVE Recorded'
  <2>1. profile' = profile
    BY <1>2 DEF profile, profileGiven
  <2> QED
    BY <1>2, <2>1 DEF Recorded
<1>3. ASSUME NEW c \in config, recommend(c) PROVE Recorded'
  BY <1>3, RecordsAdvice
<1>4. CASE Open
  BY <1>2, <1>4 DEF Open
<1>5. ASSUME NEW c \in config, try(c) \/ introduce(c) \/ nextGroup(c) PROVE Recorded'
  BY <1>2, <1>5 DEF try, introduce, nextGroup
<1>6. CASE UNCHANGED vars
  BY <1>2, <1>6 DEF vars
<1> QED
  BY <1>1, <1>3, <1>4, <1>5, <1>6 DEF Next

LEMMA RecordedAlways == Spec => [](IInv /\ Recorded)
<1>1. Init => Recorded
  BY DEF Init, Recorded
<1> QED
  BY <1>1, InitHolds, NextHolds, RecordedHolds, PTL DEF Spec

-----------------------------------------------------------------------------
(* The sizes of the WAL.                                                   *)

\* The size of a key is the one its text has, when it has only one.
LEMMA BytesOf ==
  ASSUME NEW k, NEW n, PGFormatToBytes(advice[k]) = {n}
  PROVE  Bytes(k) = n
BY DEF Bytes

\* Up to a whole segment, and no further.
LEMMA UpToSegment ==
  ASSUME ProgramSizes, NEW max \in Nat
  PROVE  /\ RoundUp(max) \in Nat /\ max <= RoundUp(max) /\ RoundUp(max) < max + Segment
         /\ RoundUp(max) # 0 => RoundUp(max) >= Segment
<1>1. Segment = 16777216
  BY Sizes
<1>2. CASE max % Segment # 0
  <2>1. RoundUp(max) = (max \div Segment + 1) * Segment
    BY <1>2 DEF RoundUp
  <2> QED
    BY <1>1, <1>2, <2>1
<1>3. CASE max % Segment = 0
  <2>1. RoundUp(max) = max
    BY <1>3 DEF RoundUp
  <2> QED
    BY <1>1, <1>3, <2>1
<1> QED
  BY <1>2, <1>3

LEMMA WALSize ==
  ASSUME ProgramSizes, NEW c \in SystemConfig, NEW p
  PROVE  LET max   == calcMaxWALBytes(c, p)
             share == (c.walDisk * 60) \div 100
         IN /\ max \in Nat /\ max < Wrap
            /\ max # 0 => max >= Segment
            /\ c.walDisk # 0 /\ c.walDisk * 60 < Wrap => share <= max /\ max < share + Segment
<1> DEFINE max   == calcMaxWALBytes(c, p)
           d     == (c.walDisk * 60) % Wrap
           share == (c.walDisk * 60) \div 100
<1>1. c.walDisk \in Nat
  BY DEF SystemConfig
<1>2. Segment = 16777216 /\ GB = 1073741824 /\ Wrap \in Nat /\ Wrap >= 1099511627776
  BY Sizes
<1>3. CASE c.walDisk = 0
  <2>1. max = 4 * GB \/ max = GB
    BY <1>3 DEF calcMaxWALBytes
  <2> QED
    BY <1>2, <1>3, <2>1
<1>4. CASE c.walDisk # 0
  <2>1. max = RoundUp(d \div 100)
    BY <1>4 DEF calcMaxWALBytes
  <2>2. d \in Nat /\ d < Wrap
    <3>1. \A m, n \in Nat : n > 0 => m % n \in Nat /\ m % n < n
      OBVIOUS
    <3>2. c.walDisk * 60 \in Nat
      BY <1>1
    <3> QED
      BY <1>2, <3>1, <3>2
  <2>3. c.walDisk * 60 < Wrap => d = c.walDisk * 60
    <3>1. \A m, n \in Nat : m < n => m % n = m
      OBVIOUS
    <3>2. c.walDisk * 60 \in Nat
      BY <1>1
    <3> QED
      BY <1>2, <3>1, <3>2
  <2>4. c.walDisk * 60 < Wrap => d \div 100 = share
    BY <2>3
  <2> HIDE DEF d, share
  <2>5. d \div 100 \in Nat /\ 100 * (d \div 100) <= d
    BY <2>2
  <2>6. /\ max \in Nat /\ d \div 100 <= max /\ max < d \div 100 + Segment
        /\ max # 0 => max >= Segment
    BY <2>1, <2>5, UpToSegment
  <2> HIDE DEF max
  <2>7. max < Wrap
    BY <1>2, <2>2, <2>5, <2>6
  <2> QED
    BY <2>4, <2>6, <2>7 DEF max, share
<1> QED
  BY <1>3, <1>4

LEMMA RecordedFits == ProgramSizes /\ IInv /\ Recorded => WALFits
<1> SUFFICES ASSUME ProgramSizes, IInv, Recorded, NEW c \in config,
                    Advised({"min_wal_size", "max_wal_size"})
             PROVE  LET share == (c.walDisk * 60) \div 100
                    IN /\ Bytes("min_wal_size") <= Bytes("max_wal_size")
                       /\ c.walDisk # 0 /\ c.walDisk * 60 < Wrap =>
                            /\ Bytes("max_wal_size") < share + Segment
                            /\ Bytes("max_wal_size")
                                 >= share - (share \div 1000 + share \div Kilobyte + 1)
  BY DEF WALFits
<1> DEFINE max   == calcMaxWALBytes(c, profile)
           share == (c.walDisk * 60) \div 100
<1>1. c \in SystemConfig /\ c.walDisk \in Nat
  BY DEF IInv, Configured, SystemConfig
<1>2. Segment = 16777216 /\ MB = 1048576 /\ Wrap \in Nat /\ Kilobyte = 1024
  BY Sizes DEF ProgramSizes
<1>3. /\ max \in Nat /\ max < Wrap
      /\ max # 0 => max >= Segment
      /\ c.walDisk # 0 /\ c.walDisk * 60 < Wrap => share <= max /\ max < share + Segment
  BY <1>1, WALSize
<1>4. /\ advice["min_wal_size"] \in BytesToPGFormat(max \div 2)
      /\ advice["max_wal_size"] \in BytesToPGFormat(max)
  <2>1. /\ advice["min_wal_size"] \in WALRecommender(c, profile, "min_wal_size")
        /\ advice["max_wal_size"] \in WALRecommender(c, profile, "max_wal_size")
    BY DEF Advised, Recorded, WALNames
  <2> QED
    BY <2>1 DEF WALRecommender
<1>5. share \in Nat
  BY <1>1
<1> HIDE DEF max, share
<1>6. max # 0
  BY <1>4, Sizes DEF BytesToPGFormat
<1>7. max >= MB /\ max \div 2 \in Nat /\ max \div 2 >= MB /\ max \div 2 < Wrap
  BY <1>2, <1>3, <1>6
<1>8. PICK most \in Nat : PGFormatToBytes(advice["max_wal_size"]) = {most} /\ Written(max, most)
  BY <1>3, <1>4, <1>7, ReadsBack
<1>9. PICK least \in Nat :
        PGFormatToBytes(advice["min_wal_size"]) = {least} /\ Written(max \div 2, least)
  BY <1>4, <1>7, ReadsBack
<1>10. Bytes("max_wal_size") = most /\ Bytes("min_wal_size") = least
  BY <1>8, <1>9, BytesOf
<1>11. least <= most
  BY <1>3, <1>8, <1>9 DEF Written
<1>12. ASSUME share <= max, max < share + Segment
       PROVE  most < share + Segment /\ most >= share - (share \div 1000 + share \div Kilobyte + 1)
  <2>1. most <= max /\ 1000 * (max - most) <= max
    BY <1>8 DEF Written
  <2>2. share \div 1000 \in Nat /\ 1000 * (share \div 1000) + 1000 > share
    BY <1>5
  <2>3. share \div Kilobyte \in Nat
    BY <1>2, <1>5
  <2> QED
    BY <1>2, <1>3, <1>5, <1>12, <2>1, <2>2, <2>3
<1> QED
  BY <1>3, <1>10, <1>11, <1>12 DEF share

\* With the sizes of the program, and on every machine: the WAL sizes that are
\* recommended are in order when they are read back, and the larger is 60% of
\* the disk, up to a segment more and a thousandth less (WALRecommender,
\* calcMaxWALBytes, BytesToPGFormat).
THEOREM WALSizesFit == ASSUME ProgramSizes PROVE Spec => []WALFits
<1>1. IInv /\ Recorded => WALFits
  BY RecordedFits
<1> QED
  BY <1>1, RecordedAlways, PTL

-----------------------------------------------------------------------------
(* The sizes of memory.                                                    *)

\* Divisions never make more of what is divided.
LEMMA Shared ==
  ASSUME NEW a \in Nat, NEW m \in Nat \ {0}, NEW n \in Nat \ {0}
  PROVE  /\ (a \div m) \div n \in Nat /\ (a \div m) \div n <= a
         /\ ((a \div m) \div n) * (m * n) <= a
<1>1. \A i \in Nat, j \in Nat \ {0} :
        i \div j \in Nat /\ i \div j <= i /\ (i \div j) * j <= i
  <2> SUFFICES ASSUME NEW i \in Nat, NEW j \in Nat \ {0}
               PROVE  i \div j \in Nat /\ i \div j <= i /\ (i \div j) * j <= i
    OBVIOUS
  <2>1. i \div j \in Nat /\ i = (j * (i \div j)) + (i % j) /\ i % j \in Nat
    OBVIOUS
  <2>2. \A x \in Nat : x * j >= x
    OBVIOUS
  <2> QED
    BY <2>1, <2>2
<1> DEFINE d == a \div m
           e == d \div n
<1>2. d \in Nat /\ d <= a /\ d * m <= a
  BY <1>1
<1> HIDE DEF d
<1>3. e \in Nat /\ e <= d /\ e * n <= d
  BY <1>1, <1>2
<1> HIDE DEF e
<1>4. e * (m * n) = (e * n) * m
  BY <1>3
<1>5. (e * n) * m <= d * m
  <2>1. \A x, y \in Nat : x <= y => x * m <= y * m
    OBVIOUS
  <2>2. e * n \in Nat
    BY <1>3
  <2> QED
    BY <1>2, <1>3, <2>1, <2>2
<1>6. e * (m * n) <= a
  <2>1. e * n \in Nat /\ (e * n) * m \in Nat /\ d * m \in Nat
    BY <1>2, <1>3
  <2> QED
    BY <1>2, <1>4, <1>5, <2>1
<1>7. e <= a
  BY <1>2, <1>3
<1> QED
  BY <1>3, <1>6, <1>7 DEF d, e

\* Down to the least work_mem a text is at most half a kilobyte more, and the
\* least itself is kept.
LEMMA ReadsWorkMem ==
  ASSUME ProgramSizes, NEW b \in Nat, b >= workMemMin, b < Wrap,
         NEW v \in BytesToPGFormat(b)
  PROVE  \E n \in Nat : /\ PGFormatToBytes(v) = {n} /\ n <= b + KB
                        /\ b = workMemMin => n = workMemMin
<1>1. /\ KB = 1024 /\ MB = 1048576 /\ GB = 1073741824 /\ TB = 1099511627776
      /\ workMemMin = 65536 /\ Wrap \in Nat /\ Wrap >= 1099511627776
  BY Sizes
<1>2. CASE b >= MB
  <2>1. PICK n \in Nat : PGFormatToBytes(v) = {n} /\ Written(b, n)
    BY <1>2, ReadsBack
  <2> QED
    BY <1>1, <1>2, <2>1 DEF Written
<1>3. CASE b < MB
  <2> DEFINE m == (2 * b + KB) \div (2 * KB)
  <2>1. v = [num |-> m, unit |-> "kB"]
    BY <1>1, <1>3 DEF BytesToPGFormat
  <2>2. m \in Nat /\ m * KB <= b + KB /\ (b = 65536 => m = 64)
    BY <1>1
  <2> HIDE DEF m
  <2>3. m < Wrap \div 2 /\ (m * KB) % Wrap = m * KB
    <3>1. m * KB < 2097152 /\ m * KB \in Nat /\ m < 2097152
      BY <1>1, <1>3, <2>2
    <3>2. \A i, j \in Nat : i < j => i % j = i
      OBVIOUS
    <3>3. Wrap \div 2 >= 2097152
      BY <1>1
    <3>4. m * KB < Wrap
      BY <1>1, <3>1
    <3> QED
      BY <1>1, <2>2, <3>1, <3>2, <3>3, <3>4
  <2>4. PGFormatToBytes(v) = {m * KB}
    BY <1>1, <2>1, <2>2, <2>3 DEF PGFormatToBytes
  <2> QED
    BY <1>1, <2>2, <2>4
<1> QED
  BY <1>1, <1>2, <1>3

LEMMA RecordedShares == ProgramSizes /\ IInv /\ Recorded => ConnectionsShareMemory
<1> SUFFICES ASSUME ProgramSizes, IInv, Recorded, NEW c \in config,
                    Advised({"work_mem", "max_connections"})
             PROVE  LET users == advice["max_connections"].num * half(c.cpus)
                    IN \/ Bytes("work_mem") <= workMemMin
                       \/ Bytes("work_mem") * users <= PerGig(c.memory, 400) + KB * users
  BY DEF ConnectionsShareMemory
<1> DEFINE all   == PerGig(c.memory, 400)
           users == conns(c) * half(c.cpus)
           w     == workMem(c)
           b     == IF w < workMemMin THEN workMemMin ELSE w
<1>1. /\ c \in SystemConfig /\ c.memory \in Nat /\ c.memory < Wrap
      /\ c.cpus \in Nat \ {0} /\ c.maxConns \in Nat
  BY DEF IInv, Configured, SystemConfig, Recorded
<1>2. KB = 1024 /\ workMemMin = 65536 /\ Wrap \in Nat /\ Wrap >= 1099511627776
  BY Sizes
<1>3. all \in Nat /\ all <= c.memory
  BY <1>1 DEF PerGig
<1>4. half(c.cpus) \in Nat \ {0}
  BY <1>1 DEF half
<1>5. conns(c) \in Nat \ {0}
  BY <1>1, Units DEF conns, getMaxConns, minMaxConns
<1>6. advice["work_mem"] \in BytesToPGFormat(b)
  <2>1. advice["work_mem"] \in MemoryRecommender(c, profile, "work_mem")
    BY DEF Advised, Recorded, MemoryNames
  <2> QED
    BY <2>1 DEF MemoryRecommender
<1>7. advice["max_connections"].num * half(c.cpus) = users
  <2>1. advice["max_connections"] \in MiscRecommender(c, "max_connections")
    BY DEF Advised, Recorded
  <2>2. advice["max_connections"] = Number(conns(c))
    BY <2>1 DEF MiscRecommender
  <2>3. Number(conns(c)).num = conns(c)
    BY DEF Number
  <2>4. advice["max_connections"].num = conns(c)
    BY <2>2, <2>3
  <2> QED
    BY <2>4
<1> HIDE DEF all
<1>8. w \in Nat /\ w <= all /\ w * users <= all
  BY <1>3, <1>4, <1>5, Shared DEF workMem, all
<1>9. users \in Nat
  BY <1>4, <1>5
<1> HIDE DEF users, w
<1>10. b \in Nat /\ b >= workMemMin /\ b < Wrap
  BY <1>1, <1>2, <1>3, <1>8
<1>11. w < workMemMin => b = workMemMin
  OBVIOUS
<1>12. ~(w < workMemMin) => b = w
  OBVIOUS
<1> HIDE DEF b
<1>13. PICK n \in Nat : /\ PGFormatToBytes(advice["work_mem"]) = {n} /\ n <= b + KB
                        /\ b = workMemMin => n = workMemMin
  BY <1>6, <1>10, ReadsWorkMem
<1>14. Bytes("work_mem") = n
  BY <1>13, BytesOf
<1>15. CASE w < workMemMin
  BY <1>2, <1>7, <1>11, <1>13, <1>14, <1>15
<1>16. CASE ~(w < workMemMin)
  <2>1. n <= w + KB
    BY <1>12, <1>13, <1>16
  <2>2. n * users <= (w + KB) * users
    <3>1. \A x, y \in Nat : x <= y => x * users <= y * users
      BY <1>9
    <3>2. w + KB \in Nat
      BY <1>2, <1>8
    <3> QED
      BY <1>13, <2>1, <3>1, <3>2
  <2>3. (w + KB) * users = w * users + KB * users
    BY <1>2, <1>8, <1>9
  <2>4. n * users <= all + KB * users
    <3>1. n * users \in Nat /\ w * users \in Nat /\ KB * users \in Nat
      BY <1>2, <1>8, <1>9, <1>13
    <3> QED
      BY <1>3, <1>8, <2>2, <2>3, <3>1
  <2> QED
    BY <1>7, <1>14, <2>4 DEF all
<1> QED
  BY <1>15, <1>16

\* With the sizes of the program, and on every machine: work_mem, times the
\* number of connections that another recommender allows, is no more than 400
\* MB for each gigabyte of memory, above the least work_mem and but for
\* rounding (MemoryRecommender, MiscRecommender).
THEOREM ConnectionsFit == ASSUME ProgramSizes PROVE Spec => []ConnectionsShareMemory
<1>1. IInv /\ Recorded => ConnectionsShareMemory
  BY RecordedShares
<1> QED
  BY <1>1, RecordedAlways, PTL

LEMMA RecordedSizes == ProgramSizes /\ IInv /\ Recorded => SharesOfMemory
<1> SUFFICES ASSUME ProgramSizes, IInv, Recorded, NEW c \in config,
                    Advised({MemoryKeys[i] : i \in DOMAIN MemoryKeys}),
                    c.memory >= GB, c.memory * 3 < Wrap
             PROVE  LET shared == IF profile = "promscale" THEN 2 ELSE 4
                    IN /\ isCloseEnough(Bytes("shared_buffers") * shared, c.memory)
                       /\ isCloseEnough(Bytes("effective_cache_size") * 4, c.memory * 3)
                       /\ Bytes("shared_buffers") < Bytes("effective_cache_size")
                       /\ IF c.memory < 16 * GB - 8 * MB
                          THEN isCloseEnough(Bytes("maintenance_work_mem") * 8, c.memory)
                          ELSE Bytes("maintenance_work_mem") = 2 * GB - MB
  BY DEF SharesOfMemory
<1> DEFINE m      == c.memory
           shared == IF profile = "promscale" THEN 2 ELSE 4
           part   == m \div shared
           cache  == (m * 3) \div 4
           upkeep == maintenanceWorkMem(c)
<1>1. c \in SystemConfig /\ m \in Nat /\ m < Wrap
  BY DEF IInv, Configured, SystemConfig, Recorded
<1>2. /\ KB = 1024 /\ MB = 1048576 /\ GB = 1073741824 /\ TB = 1099511627776
      /\ Wrap \in Nat /\ Wrap >= 1099511627776
  BY Sizes
<1>3. /\ advice["shared_buffers"] \in BytesToPGFormat(part)
      /\ advice["effective_cache_size"] \in BytesToPGFormat(cache)
      /\ advice["maintenance_work_mem"] \in BytesToPGFormat(upkeep)
  <2>1. {"shared_buffers", "effective_cache_size", "maintenance_work_mem"} \subseteq DOMAIN advice
    <3>1. /\ 1 \in DOMAIN MemoryKeys /\ 2 \in DOMAIN MemoryKeys /\ 3 \in DOMAIN MemoryKeys
          /\ MemoryKeys[1] = "shared_buffers" /\ MemoryKeys[2] = "effective_cache_size"
          /\ MemoryKeys[3] = "maintenance_work_mem"
      BY DEF MemoryKeys
    <3> QED
      BY <3>1 DEF Advised
  <2>2. \A k \in {"shared_buffers", "effective_cache_size", "maintenance_work_mem"} :
          advice[k] \in MemoryRecommender(c, profile, k)
    BY <2>1 DEF Recorded, MemoryNames
  <2>3. (m * 3) % Wrap = m * 3
    <3>1. \A i, j \in Nat : i < j => i % j = i
      OBVIOUS
    <3> QED
      BY <1>1, <1>2, <3>1
  <2> QED
    BY <2>2, <2>3 DEF MemoryRecommender
<1>4. m >= 1073741824
  BY <1>2
<1>5. shared \in {2, 4}
  OBVIOUS
<1>6. /\ part \in Nat /\ part * shared <= m /\ m < part * shared + shared
      /\ cache \in Nat /\ cache * 4 <= m * 3 /\ m * 3 < cache * 4 + 4
  BY <1>1, <1>5
<1>7. /\ upkeep \in Nat
      /\ m < 16 * GB - 8 * MB => upkeep * 8 <= m /\ m < upkeep * 8 + 8
      /\ ~(m < 16 * GB - 8 * MB) => upkeep = 2 * GB - MB
  BY <1>1, <1>2 DEF maintenanceWorkMem, PerGig
<1> HIDE DEF shared, part, cache, upkeep
<1>8. /\ part >= MB /\ part < Wrap /\ cache >= MB /\ cache < Wrap
      /\ upkeep >= MB /\ upkeep < Wrap
  BY <1>1, <1>2, <1>4, <1>5, <1>6, <1>7
<1>9. PICK x \in Nat : PGFormatToBytes(advice["shared_buffers"]) = {x} /\ Written(part, x)
  BY <1>3, <1>6, <1>8, ReadsBack
<1>10. PICK y \in Nat : PGFormatToBytes(advice["effective_cache_size"]) = {y} /\ Written(cache, y)
  BY <1>3, <1>6, <1>8, ReadsBack
<1>11. PICK z \in Nat : PGFormatToBytes(advice["maintenance_work_mem"]) = {z} /\ Written(upkeep, z)
  BY <1>3, <1>7, <1>8, ReadsBack
<1>12. /\ Bytes("shared_buffers") = x /\ Bytes("effective_cache_size") = y
       /\ Bytes("maintenance_work_mem") = z
  BY <1>9, <1>10, <1>11, BytesOf
<1>13. isCloseEnough(x * shared, m)
  <2>1. x <= part /\ 1000 * (part - x) <= part
    BY <1>9 DEF Written
  <2>2. x * shared <= m /\ m - x * shared <= m \div 20 /\ x * shared \in Nat
    BY <1>1, <1>4, <1>5, <1>6, <2>1
  <2> QED
    BY <1>1, <1>4, <2>2 DEF isCloseEnough, AbsDiff
<1>14. isCloseEnough(y * 4, m * 3)
  <2>1. y <= cache /\ 1000 * (cache - y) <= cache
    BY <1>10 DEF Written
  <2>2. y * 4 <= m * 3 /\ m * 3 - y * 4 <= (m * 3) \div 20 /\ y * 4 \in Nat
    BY <1>1, <1>4, <1>6, <2>1
  <2> QED
    BY <1>1, <1>4, <2>2 DEF isCloseEnough, AbsDiff
<1>15. x < y
  <2>1. x <= part /\ y <= cache /\ 1000 * (cache - y) <= cache
    BY <1>9, <1>10 DEF Written
  <2> QED
    BY <1>1, <1>4, <1>5, <1>6, <2>1
<1>16. ASSUME m < 16 * GB - 8 * MB PROVE isCloseEnough(z * 8, m)
  <2>1. z <= upkeep /\ 1000 * (upkeep - z) <= upkeep
    BY <1>11 DEF Written
  <2>2. z * 8 <= m /\ m - z * 8 <= m \div 20 /\ z * 8 \in Nat
    BY <1>1, <1>4, <1>7, <1>16, <2>1
  <2> QED
    BY <1>1, <1>4, <2>2 DEF isCloseEnough, AbsDiff
<1>17. ASSUME ~(m < 16 * GB - 8 * MB) PROVE z = 2 * GB - MB
  <2>1. upkeep = 2146435072
    BY <1>2, <1>7, <1>17
  <2>2. advice["maintenance_work_mem"] = [num |-> 2047, unit |-> "MB"]
    <3>1. BytesToPGFormat(upkeep) = WholeOrSmaller(upkeep, GB, "GB", MB, "MB")
      BY <1>2, <2>1 DEF BytesToPGFormat
    <3>2. (upkeep % GB) * 1000 > GB /\ upkeep \div MB = 2047
      BY <1>2, <2>1
    <3> QED
      BY <1>3, <3>1, <3>2 DEF WholeOrSmaller
  <2>3. PGFormatToBytes(advice["maintenance_work_mem"]) = {2047 * MB}
    <3>1. ~(2047 >= Wrap \div 2) /\ (2047 * MB) % Wrap = 2047 * MB
      BY <1>2
    <3> QED
      BY <2>2, <3>1 DEF PGFormatToBytes
  <2> QED
    BY <1>2, <1>11, <2>3
<1> QED
  BY <1>12, <1>13, <1>14, <1>15, <1>16, <1>17 DEF shared

\* With the sizes of the program, and on every machine with a gigabyte or more
\* (whose triple is an unsigned integer): the memory sizes, read back, are the
\* shares of the memory they are meant to be (MemoryRecommender,
\* BytesToPGFormat).
THEOREM MemoryShared == ASSUME ProgramSizes PROVE Spec => []SharesOfMemory
<1>1. IInv /\ Recorded => SharesOfMemory
  BY RecordedSizes
<1> QED
  BY <1>1, RecordedAlways, PTL

-----------------------------------------------------------------------------
(* The type invariant.                                                     *)

LEMMA FormatTyped ==
  ASSUME NEW b \in Nat
  PROVE  BytesToPGFormat(b) \subseteq Value
<1>1. /\ KB \in Nat /\ MB \in Nat /\ GB \in Nat /\ TB \in Nat
      /\ 0 < KB /\ 0 < MB /\ 0 < GB /\ 0 < TB
  BY Units
<1>2. {"kB", "MB", "GB", "TB"} \subseteq Text
  BY WordsAssumption
<1>3. ASSUME NEW n \in Nat, NEW u \in {"kB", "MB", "GB", "TB"}
      PROVE  [num |-> n, unit |-> u] \in Value
  BY <1>2, <1>3 DEF Value
<1>4. ASSUME NEW s \in {MB, GB, TB}, NEW t \in {KB, MB, GB},
             NEW u \in {"kB", "MB", "GB", "TB"}, NEW w \in {"kB", "MB", "GB", "TB"}
      PROVE  WholeOrSmaller(b, s, u, t, w) \subseteq Value
  <2>1. b \div s \in Nat /\ b \div t \in Nat
    BY <1>1, DivNat
  <2>2. [num |-> b \div s, unit |-> u] \in Value
    BY <1>3, <2>1
  <2>3. [num |-> b \div t, unit |-> w] \in Value
    BY <1>3, <2>1
  <2> QED
    BY <2>2, <2>3 DEF WholeOrSmaller
<1>5. (2 * b + KB) \div (2 * KB) \in Nat
  <2>1. 2 * b + KB \in Nat /\ 2 * KB \in Nat /\ 2 * KB > 0
    BY <1>1
  <2> QED
    BY <2>1, DivNat
<1>6. CASE b = 0
  BY <1>1, <1>6 DEF BytesToPGFormat
<1>7. CASE b >= TB
  <2>1. BytesToPGFormat(b) = WholeOrSmaller(b, TB, "TB", GB, "GB")
    BY <1>1, <1>7, Units DEF BytesToPGFormat
  <2> QED
    BY <1>4, <2>1
<1>8. CASE b >= GB /\ b < TB
  <2>1. BytesToPGFormat(b) = WholeOrSmaller(b, GB, "GB", MB, "MB")
    BY <1>1, <1>8, Units DEF BytesToPGFormat
  <2> QED
    BY <1>4, <2>1
<1>9. CASE b >= MB /\ b < GB
  <2>1. BytesToPGFormat(b) = WholeOrSmaller(b, MB, "MB", KB, "kB")
    BY <1>1, <1>9, Units DEF BytesToPGFormat
  <2> QED
    BY <1>4, <2>1
<1>10. CASE b >= KB /\ b < MB
  <2>1. BytesToPGFormat(b) = {[num |-> (2 * b + KB) \div (2 * KB), unit |-> "kB"]}
    BY <1>1, <1>10, Units DEF BytesToPGFormat
  <2> QED
    BY <1>3, <1>5, <2>1
<1>11. CASE b > 0 /\ b < KB
  <2>1. BytesToPGFormat(b) = {[num |-> 1, unit |-> "kB"]}
    BY <1>1, <1>11, Units DEF BytesToPGFormat
  <2> QED
    BY <1>3, <2>1
<1> QED
  BY <1>1, <1>6, <1>7, <1>8, <1>9, <1>10, <1>11

LEMMA NumbersTyped ==
  /\ \A n \in Nat : Number(n) \in Value /\ [num |-> n, unit |-> "tenths"] \in Value
  /\ \A w \in {"lz4", "off"} : Word(w) \in Value
  /\ NoRecommendation \in Value
<1>1. {"", "tenths", "lz4", "off", "no recommendation"} \subseteq Text
  BY WordsAssumption
<1>2. \A n \in Nat, w \in Text : [num |-> n, unit |-> w] \in Value
  BY DEF Value
<1> QED
  BY <1>1, <1>2 DEF Number, Word, NoRecommendation

LEMMA MemoryTyped ==
  ASSUME NEW c \in SystemConfig, NEW p, NEW key \in MemoryNames
  PROVE  MemoryRecommender(c, p, key) \subseteq Value
<1>1. c.memory \in Nat /\ c.cpus \in Nat \ {0} /\ c.maxConns \in Nat
  BY DEF SystemConfig
<1>2. CASE key = "shared_buffers"
  <2>1. c.memory \div (IF p = "promscale" THEN 2 ELSE 4) \in Nat
    BY <1>1
  <2> QED
    BY <1>2, <2>1, FormatTyped DEF MemoryRecommender
<1>3. CASE key = "effective_cache_size"
  <2> DEFINE d == (c.memory * 3) % Wrap
  <2>1. d \in Nat
    BY <1>1, PGValueAssumption
  <2> HIDE DEF d
  <2>2. d \div 4 \in Nat
    BY <2>1
  <2> QED
    BY <1>3, <2>2, FormatTyped DEF MemoryRecommender, d
<1>4. CASE key = "maintenance_work_mem"
  <2>1. maintenanceWorkMem(c) \in Nat
    BY <1>1, Units DEF maintenanceWorkMem, PerGig
  <2> QED
    BY <1>4, <2>1, FormatTyped DEF MemoryRecommender
<1>5. CASE key = "work_mem"
  <2>1. PerGig(c.memory, 400) \in Nat
    BY <1>1 DEF PerGig
  <2>2. half(c.cpus) \in Nat \ {0} /\ conns(c) \in Nat \ {0}
    BY <1>1, Units DEF half, conns, getMaxConns, minMaxConns
  <2>3. workMem(c) \in Nat
    BY <2>1, <2>2, Shared DEF workMem
  <2>4. workMemMin \in Nat
    BY Units DEF workMemMin
  <2>5. (IF workMem(c) < workMemMin THEN workMemMin ELSE workMem(c)) \in Nat
    BY <2>3, <2>4
  <2> QED
    BY <1>5, <2>5, FormatTyped DEF MemoryRecommender
<1> QED
  BY <1>2, <1>3, <1>4, <1>5 DEF MemoryNames

LEMMA WALTyped ==
  ASSUME NEW c \in SystemConfig, NEW p, NEW key \in WALNames
  PROVE  WALRecommender(c, p, key) \subseteq Value
<1>1. c.memory \in Nat
  BY DEF SystemConfig
<1>2. calcMaxWALBytes(c, p) \in Nat /\ calcMaxWALBytes(c, p) \div 2 \in Nat
  <2>1. calcMaxWALBytes(c, p) \in Nat
    BY MaxWAL
  <2> QED
    BY <2>1, DivNat
<1>3. CASE key = "wal_buffers"
  <2>1. (IF c.memory < 2 * GB THEN (c.memory * 7864) \div (1024 * 1024) ELSE GB \div 64) \in Nat
    BY <1>1, Units
  <2> QED
    BY <1>3, <2>1, FormatTyped DEF WALRecommender
<1>4. CASE key = "min_wal_size"
  BY <1>2, <1>4, FormatTyped DEF WALRecommender
<1>5. CASE key = "max_wal_size"
  BY <1>2, <1>5, FormatTyped DEF WALRecommender
<1>6. CASE key \in {"checkpoint_timeout", "wal_compression"}
  <2>1. \A n \in Nat : Number(n) \in Value
    BY NumbersTyped
  <2>2. NoRecommendation \in Value
    BY NumbersTyped
  <2>3. WALRecommender(c, p, key) \subseteq {Number(900), Number(1), NoRecommendation}
    BY <1>6 DEF WALRecommender
  <2> QED
    BY <2>1, <2>2, <2>3
<1> QED
  BY <1>3, <1>4, <1>5, <1>6 DEF WALNames

LEMMA ParallelTyped ==
  ASSUME NEW c \in SystemConfig, NEW key \in ParallelNames
  PROVE  ParallelRecommender(c, key) \subseteq Value
<1>1. c.cpus \in Nat /\ c.maxBGWorkers \in Nat
  BY DEF SystemConfig
<1>2. 3 + c.maxBGWorkers + c.cpus \in Nat /\ half(c.cpus) \in Nat
  BY <1>1 DEF half
<1> QED
  BY <1>1, <1>2, NumbersTyped DEF ParallelRecommender, ParallelNames

LEMMA MiscTyped ==
  ASSUME NEW c \in SystemConfig, NEW key \in MiscNames
  PROVE  MiscRecommender(c, key) \subseteq Value
<1>1. c.memory \in Nat /\ c.maxConns \in Nat
  BY DEF SystemConfig
<1>2. conns(c) \in Nat /\ maxLocks(c.memory) \in Nat
  BY <1>1, Units DEF conns, getMaxConns, minMaxConns, maxLocks
<1>3. \A n \in {10, 100, 200, 256} : Number(n) \in Value
  BY NumbersTyped
<1>4. [num |-> 11, unit |-> "tenths"] \in Value /\ [num |-> 9, unit |-> "tenths"] \in Value
  BY NumbersTyped
<1>5. Number(conns(c)) \in Value /\ Number(maxLocks(c.memory)) \in Value
  BY <1>2, NumbersTyped
<1>6. Word("lz4") \in Value /\ Word("off") \in Value /\ NoRecommendation \in Value
  BY NumbersTyped
<1> QED
  BY <1>3, <1>4, <1>5, <1>6 DEF MiscRecommender, MiscNames, getValueForVersion

LEMMA AdviceTyped ==
  ASSUME NEW c \in SystemConfig, NEW p, NEW s, NEW g \in DOMAIN tunables,
         NEW i \in 1..Len(Keys(c, s, tunables[g]))
  PROVE  Advice(c, p, tunables[g], Keys(c, s, tunables[g])[i]) \subseteq Value
<1> DEFINE l   == tunables[g]
           key == Keys(c, s, l)[i]
<1>1. l \in {"memory", "parallelism", "WAL", "background writer", "miscellaneous"}
  BY Labels
<1>2. /\ l = "memory" => key \in MemoryNames
      /\ l = "parallelism" => key \in ParallelNames
      /\ l = "WAL" => key \in WALNames
      /\ l = "miscellaneous" => key \in MiscNames
  BY KeysOfGroup
<1> HIDE DEF l, key
<1>3. ASSUME l = "memory" PROVE Advice(c, p, l, key) \subseteq Value
  BY <1>2, <1>3, MemoryTyped DEF Advice
<1>4. ASSUME l = "parallelism" PROVE Advice(c, p, l, key) \subseteq Value
  BY <1>2, <1>4, ParallelTyped DEF Advice
<1>5. ASSUME l = "WAL" PROVE Advice(c, p, l, key) \subseteq Value
  BY <1>2, <1>5, WALTyped DEF Advice
<1>6. ASSUME l = "background writer" PROVE Advice(c, p, l, key) \subseteq Value
  BY <1>6, NumbersTyped DEF Advice, BgwriterRecommender
<1>7. ASSUME l = "miscellaneous" PROVE Advice(c, p, l, key) \subseteq Value
  BY <1>2, <1>7, MiscTyped DEF Advice
<1>8. Advice(c, p, l, key) \subseteq Value
  BY <1>1, <1>3, <1>4, <1>5, <1>6, <1>7
<1> QED
  BY <1>8 DEF l, key

LEMMA PathsTyped ==
  ASSUME machine \in Machine, NEW v \in ValidPGVersions
  PROVE  Candidates(v) \in Seq(Path)
<1>1. v \in Seq(Text)
  BY WordsAssumption DEF Path
<1>2. ASSUME NEW x \in Text
      PROVE  <<x>> \in Path /\ <<x>> \o v \in Path
  BY <1>1, <1>2 DEF Path
<1>3. Places(v, machine.system) \in Seq(Path)
  <2>1. CASE machine.system = "darwin"
    <3> DEFINE a == <<"/usr/local/var">>
               b == <<"/usr/local/var">> \o v
               c == <<"/opt/homebrew/var">>
               d == <<"/opt/homebrew/var">> \o v
    <3>1. a \in Path /\ b \in Path /\ c \in Path /\ d \in Path
      BY <1>2, WordsAssumption
    <3>2. Places(v, machine.system) = <<a, b, c, d>>
      BY <2>1 DEF Places
    <3> HIDE DEF a, b, c, d
    <3> QED
      BY <3>1, <3>2
  <2>2. CASE machine.system = "linux"
    <3> DEFINE a == <<"/etc/postgresql">> \o v
               b == <<"/var/lib/pgsql">> \o v
               c == <<"/var/lib/postgres/data">>
               d == <<"/var/lib/postgresql/data">>
    <3>1. a \in Path /\ b \in Path /\ c \in Path /\ d \in Path
      BY <1>2, WordsAssumption
    <3>2. Places(v, machine.system) = <<a, b, c, d>>
      BY <2>2 DEF Places
    <3> HIDE DEF a, b, c, d
    <3> QED
      BY <3>1, <3>2
  <2>3. CASE machine.system \notin {"darwin", "linux"}
    BY <2>3 DEF Places
  <2> QED
    BY <2>1, <2>2, <2>3
<1>4. PGDATAFile \in Seq(Text)
  <2>1. machine.PGDATA \in Seq(Text)
    BY DEF Machine, Path
  <2>2. "postgresql.conf" \in Text
    BY WordsAssumption
  <2> QED
    BY <2>1, <2>2 DEF PGDATAFile
<1> DEFINE f     == Formatted(PGDATAFile)
           first == IF machine.PGDATA # NoPath THEN <<f>> ELSE <<>>
           rest  == Places(v, machine.system)
<1>5. f \in Path
  <2>1. "%!(NOVERB)" \in Text
    BY WordsAssumption
  <2> DEFINE n    == Len(PGDATAFile)
             E(i) == IF PGDATAFile[i] = Percent THEN "%!(NOVERB)" ELSE PGDATAFile[i]
  <2>2. n \in Nat /\ DOMAIN PGDATAFile = 1..n /\ \A i \in 1..n : PGDATAFile[i] \in Text
    BY <1>4
  <2>3. \A i \in 1..n : E(i) \in Text
    BY <2>1, <2>2
  <2>4. f = [i \in 1..n |-> E(i)]
    BY <2>2 DEF Formatted
  <2> HIDE DEF n, E, f
  <2>5. [i \in 1..n |-> E(i)] \in Seq(Text)
    BY <2>2, <2>3
  <2> QED
    BY <2>4, <2>5 DEF Path
<1> HIDE DEF f
<1>6. first \in Seq(Path)
  <2>1. <<f>> \in Seq(Path) /\ <<>> \in Seq(Path)
    BY <1>5
  <2> QED
    BY <2>1
<1> HIDE DEF first, rest
<1>7. first \o rest \in Seq(Path)
  BY <1>3, <1>6 DEF rest
<1> QED
  BY <1>7 DEF Candidates, first, rest, f

\* A search looks for a file only when no path is given.
TypedInv == TypeOK /\ (pc = "search" => flags.confPath = NoPath)

LEMMA TypedHolds == IInv /\ SearchInv /\ TypedInv /\ [Next]_vars => TypedInv'
<1> SUFFICES ASSUME IInv, SearchInv, TypedInv, [Next]_vars PROVE TypedInv'
  OBVIOUS
<1>1. IInv'
  BY NextHolds
<1>2. /\ machine' \in Machine /\ flags' \in Flags
      /\ config' \subseteq SystemConfig /\ \A c, d \in config' : c = d
      /\ group' \in DOMAIN tunables /\ pos' \in Nat \ {0}
  BY <1>1 DEF IInv, Configured
<1>3. /\ pc \in PCs /\ path \in Path /\ tried \in Seq(Path)
      /\ advice \in [DOMAIN advice -> Value]
  BY DEF TypedInv, TypeOK
<1>4. SUFFICES /\ pc' \in PCs /\ path' \in Path /\ tried' \in Seq(Path)
               /\ advice' \in [DOMAIN advice' -> Value]
               /\ pc' = "search" => flags'.confPath = NoPath
  BY <1>2, <1>4 DEF TypedInv, TypeOK
<1>5. CASE Configure
  <2>1. /\ pc' \in {"error", "search", "open"} /\ UNCHANGED <<machine, flags, tried, advice>>
        /\ path' = dirPathToFile(flags.confPath) /\ (pc' = "search" => path' = NoPath)
    BY <1>5 DEF Configure
  <2>2. flags.confPath \in Seq(Text) /\ "postgresql.conf" \in Text
    BY WordsAssumption DEF TypedInv, TypeOK, Flags, Path
  <2>3. /\ Append(flags.confPath, "postgresql.conf") \in Seq(Text)
        /\ Append(flags.confPath, "postgresql.conf") # <<>>
    BY <2>2
  <2>4. path' \in Path /\ (path' = NoPath => flags.confPath = NoPath)
    BY <2>1, <2>2, <2>3 DEF dirPathToFile, Path, NoPath
  <2> QED
    BY <1>3, <2>1, <2>4 DEF PCs
<1>6. CASE Open
  BY <1>3, <1>6 DEF Open, PCs
<1>7. ASSUME NEW c \in config, try(c) PROVE TypedInv'
  <2> DEFINE places == Candidates(c.version)
             next   == places[Len(tried) + 1]
  <2>1. pc = "search" /\ UNCHANGED <<machine, flags, advice>> /\ flags.confPath = NoPath
    BY <1>7 DEF try, TypedInv
  <2>2. c.version \in ValidPGVersions /\ machine \in Machine
    BY DEF IInv, Configured, SystemConfig
  <2>3. places \in Seq(Path)
    BY <2>2, PathsTyped
  <2>4. Searched(c)
    BY <2>1 DEF SearchInv
  <2>5. Len(tried) \in 0..Len(places) /\ tried = [i \in 1..Len(tried) |-> places[i]]
    BY <2>4 DEF Searched
  <2>6. CASE tried = places
    <3>1. pc' = "error" /\ UNCHANGED <<tried, path>>
      BY <1>7, <2>6 DEF try
    <3> QED
      BY <1>2, <1>3, <2>1, <3>1 DEF PCs, TypedInv, TypeOK
  <2>7. CASE tried # places
    <3> HIDE DEF places
    <3>1. Len(tried) # Len(places)
      <4>1. places = [i \in 1..Len(places) |-> places[i]]
        BY <2>3
      <4> QED
        BY <2>5, <2>7, <4>1
    <3>2. Len(tried) + 1 \in 1..Len(places)
      <4>1. Len(tried) \in 0..Len(places) /\ Len(places) \in Nat
        BY <2>3, <2>5
      <4>2. \A m, n : n \in Nat /\ m \in 0..n /\ m # n => m + 1 \in 1..n
        OBVIOUS
      <4> QED
        BY <3>1, <4>1, <4>2
    <3>3. next \in Path
      BY <2>3, <3>2
    <3>4. tried' = Append(tried, next) /\ (path' = path \/ path' = next) /\ pc' \in {"search", "open"}
      BY <1>7, <2>1, <2>7 DEF try, places
    <3>5. tried' \in Seq(Path)
      BY <1>3, <3>3, <3>4
    <3>6. path' \in Path
      BY <1>3, <3>3, <3>4
    <3> QED
      BY <1>2, <1>3, <2>1, <3>4, <3>5, <3>6 DEF PCs, TypedInv, TypeOK
  <2> QED
    BY <2>6, <2>7
<1>8. ASSUME NEW c \in config, introduce(c) \/ nextGroup(c) PROVE TypedInv'
  <2>1. pc' \in {"panic", "advise", "done"} /\ UNCHANGED <<path, tried, advice>>
    BY <1>8 DEF introduce, nextGroup
  <2> QED
    BY <1>2, <1>3, <2>1 DEF PCs, TypedInv, TypeOK
<1>9. ASSUME NEW c \in config, recommend(c) PROVE TypedInv'
  <2> DEFINE key == Keys(c, machine.system, label)[pos]
             new == Advice(c, profile, label, key)
  <2>1. pc' \in {"panic", "advise"} /\ UNCHANGED <<path, tried>>
    BY <1>9 DEF recommend
  <2>2. c \in SystemConfig /\ group \in DOMAIN tunables /\ pos \in Nat \ {0}
    BY DEF IInv, Configured
  <2>3. pos \in 1..Len(Keys(c, machine.system, tunables[group]))
    <3>1. Len(Keys(c, machine.system, label)) \in Nat
      BY <2>2, KeysCounted DEF label
    <3>2. pos <= Len(Keys(c, machine.system, label))
      BY <1>9 DEF recommend
    <3> QED
      BY <2>2, <3>1, <3>2 DEF label
  <2>4. new \subseteq Value
    BY <2>2, <2>3, AdviceTyped DEF label
  <2>5. \/ advice' = advice
        \/ \E v \in new :
             advice' = [k \in DOMAIN advice \cup {key} |-> IF k = key THEN v ELSE advice[k]]
    BY <1>9 DEF recommend
  <2> HIDE DEF key, new
  <2>6. advice' \in [DOMAIN advice' -> Value]
    <3>1. ASSUME NEW v \in new,
                 advice' = [k \in DOMAIN advice \cup {key} |-> IF k = key THEN v ELSE advice[k]]
          PROVE  advice' \in [DOMAIN advice' -> Value]
      <4>1. \A k \in DOMAIN advice : advice[k] \in Value
        BY <1>3
      <4>2. DOMAIN advice' = DOMAIN advice \cup {key}
        BY <3>1
      <4>3. \A k \in DOMAIN advice \cup {key} : advice'[k] \in Value
        BY <2>4, <3>1, <4>1
      <4> QED
        BY <3>1, <4>2, <4>3
    <3> QED
      BY <1>3, <2>5, <3>1
  <2> QED
    BY <1>2, <1>3, <2>1, <2>6 DEF PCs, TypedInv, TypeOK
<1>10. CASE UNCHANGED vars
  BY <1>3, <1>10 DEF vars, TypedInv
<1> QED
  BY <1>5, <1>6, <1>7, <1>8, <1>9, <1>10 DEF Next, TypedInv, TypeOK

\* Every reachable state of a start is typed, on every machine and with any
\* flags: there is at most one configuration, within the limits NewSystemConfig
\* sets, the places looked at are paths, and advice is a value.
THEOREM StartTyped == Spec => []TypeOK
<1>1. Init => TypedInv
  <2> SUFFICES ASSUME Init PROVE TypedInv
    OBVIOUS
  <2>1. IInv
    BY InitHolds
  <2>2. NoPath \in Path /\ <<>> \in Seq(Path)
    BY DEF NoPath, Path
  <2>3. advice \in [DOMAIN advice -> Value]
    BY DEF Init
  <2> QED
    BY <2>1, <2>2, <2>3 DEF Init, IInv, Configured, TypedInv, TypeOK, PCs
<1>2. Init => SearchInv
  BY DEF Init, SearchInv
<1>3. TypedInv => TypeOK
  BY DEF TypedInv
<1> QED
  BY <1>1, <1>2, <1>3, InitHolds, NextHolds, SearchHolds, TypedHolds, PTL DEF Spec
=============================================================================
