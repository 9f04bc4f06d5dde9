--------------------------- MODULE StartupProofs ---------------------------
(***************************************************************************)
(* Proofs about Startup for every machine and every combination of flags:  *)
(* when the recommenders panic, and that they know the settings of each    *)
(* version.                                                                *)
(***************************************************************************)
EXTENDS Startup, TLAPS

-----------------------------------------------------------------------------
(* Sizes.                                                                  *)

LEMMA Units ==
  /\ KB \in Nat /\ KB >= 32
  /\ MB \in Nat /\ MB >= 1024 /\ MB >= KB
  /\ GB \in Nat /\ GB >= 32 * MB
  /\ TB \in Nat /\ TB >= GB
<1>1. KB \in Nat /\ KB >= 32
  BY PGValueAssumption DEF KB
<1>2. \A m, n \in Nat : m >= 32 => m * n \in Nat /\ m * n >= 32 * n
  BY SMT
<1>3. MB \in Nat /\ MB >= 32 * KB
  BY <1>1, <1>2, PGValueAssumption DEF MB
<1>4. GB \in Nat /\ GB >= 32 * MB
  BY <1>2, <1>3, PGValueAssumption DEF GB
<1>5. TB \in Nat /\ TB >= 32 * GB
  BY <1>2, <1>4, PGValueAssumption DEF TB
<1> QED
  BY <1>1, <1>3, <1>4, <1>5

\* Formatting fails for nothing but zero.
LEMMA FormatsAll ==
  ASSUME NEW bytes \in Nat, BytesToPGFormat(bytes) = {}
  PROVE  bytes = 0
<1> SUFFICES ASSUME bytes # 0 PROVE FALSE
  OBVIOUS
<1>1. /\ KB \in Nat /\ MB \in Nat /\ GB \in Nat /\ TB \in Nat
      /\ 0 < KB /\ KB <= MB /\ MB <= GB /\ GB <= TB
  BY Units
<1>2. \A u, v : \A size, smaller \in Nat : WholeOrSmaller(bytes, size, u, smaller, v) # {}
  BY DEF WholeOrSmaller
<1>3. CASE bytes >= TB
  <2>1. BytesToPGFormat(bytes) = WholeOrSmaller(bytes, TB, "TB", GB, "GB")
    BY <1>1, <1>3 DEF BytesToPGFormat
  <2> QED
    BY <1>1, <1>2, <2>1
<1>4. CASE bytes >= GB /\ bytes < TB
  <2>1. BytesToPGFormat(bytes) = WholeOrSmaller(bytes, GB, "GB", MB, "MB")
    BY <1>1, <1>4 DEF BytesToPGFormat
  <2> QED
    BY <1>1, <1>2, <2>1
<1>5. CASE bytes >= MB /\ bytes < GB
  <2>1. BytesToPGFormat(bytes) = WholeOrSmaller(bytes, MB, "MB", KB, "kB")
    BY <1>1, <1>5 DEF BytesToPGFormat
  <2> QED
    BY <1>1, <1>2, <2>1
<1>6. CASE bytes >= KB /\ bytes < MB
  <2>1. BytesToPGFormat(bytes) = {[num |-> (2 * bytes + KB) \div (2 * KB), unit |-> "kB"]}
    BY <1>1, <1>6 DEF BytesToPGFormat
  <2> QED
    BY <2>1
<1>7. CASE bytes > 0 /\ bytes < KB
  <2>1. BytesToPGFormat(bytes) = {[num |-> 1, unit |-> "kB"]}
    BY <1>1, <1>7 DEF BytesToPGFormat
  <2> QED
    BY <2>1
<1> QED
  BY <1>1, <1>3, <1>4, <1>5, <1>6, <1>7

LEMMA DivNat == \A m, n \in Nat : n > 0 => m \div n \in Nat
BY SMT

\* Rounding up to segments keeps what is there.
LEMMA RoundsUp ==
  ASSUME NEW max \in Nat
  PROVE  RoundUp(max) \in Nat /\ (max > 0 => RoundUp(max) >= Segment)
<1>1. Segment \in Nat /\ Segment >= 512
  BY Units DEF Segment
<1>2. \A m, n \in Nat : n > 0 => m \div n \in Nat /\ m % n \in Nat
  BY SMT
<1>3. \A m, n \in Nat : m * n \in Nat /\ (m + 1) * n \in Nat /\ (m + 1) * n >= n
  BY SMT
<1>4. \A m, n \in Nat : n > 0 /\ m < n => m % n = m
  BY SMT
<1>5. CASE max % Segment # 0
  <2>1. RoundUp(max) = (max \div Segment + 1) * Segment
    BY <1>5 DEF RoundUp
  <2> QED
    BY <1>1, <1>2, <1>3, <2>1
<1>6. CASE max % Segment = 0
  <2>1. RoundUp(max) = max
    BY <1>6 DEF RoundUp
  <2>2. max > 0 => max >= Segment
    BY <1>1, <1>4, <1>6
  <2> QED
    BY <2>1, <2>2
<1> QED
  BY <1>5, <1>6

-----------------------------------------------------------------------------
(* When a recommender panics.                                              *)

LEMMA MemoryPanics ==
  ASSUME NEW c \in SystemConfig, NEW p, NEW key \in {MemoryKeys[i] : i \in DOMAIN MemoryKeys},
         MemoryRecommender(c, p, key) = {}
  PROVE  TooSmall(c)
<1>1. c.memory \in Nat /\ c.cpus \in Nat \ {0} /\ c.maxConns \in Nat
  BY DEF SystemConfig
<1>2. key \in {"shared_buffers", "effective_cache_size", "maintenance_work_mem", "work_mem"}
  BY DEF MemoryKeys
<1>3. CASE key = "shared_buffers"
  <2> DEFINE b == c.memory \div (IF p = "promscale" THEN 2 ELSE 4)
  <2>1. b \in Nat /\ (b = 0 => c.memory < 4)
    BY <1>1
  <2>2. BytesToPGFormat(b) = {}
    BY <1>3 DEF MemoryRecommender
  <2> HIDE DEF b
  <2>3. b = 0
    BY <2>1, <2>2, FormatsAll
  <2> QED
    BY <1>1, <2>1, <2>3 DEF TooSmall
<1>4. CASE key = "effective_cache_size"
  <2> DEFINE d == (c.memory * 3) % Wrap
             b == d \div 4
  <2>1. d \in Nat
    BY <1>1, PGValueAssumption
  <2>2. BytesToPGFormat(b) = {}
    BY <1>4 DEF MemoryRecommender
  <2> HIDE DEF d
  <2>3. b \in Nat /\ (b = 0 => d < 4)
    BY <2>1
  <2> HIDE DEF b
  <2>4. d < 4
    BY <2>2, <2>3, FormatsAll
  <2> QED
    BY <2>4 DEF TooSmall, d
<1>5. CASE key = "maintenance_work_mem"
  <2> DEFINE b == maintenanceWorkMem(c)
  <2>1. b \in Nat /\ (b = 0 => c.memory < 134)
    BY <1>1, Units DEF maintenanceWorkMem, PerGig
  <2>2. BytesToPGFormat(b) = {}
    BY <1>5 DEF MemoryRecommender
  <2> HIDE DEF b
  <2>3. b = 0
    BY <2>1, <2>2, FormatsAll
  <2> QED
    BY <2>1, <2>3 DEF TooSmall
<1>6. CASE key = "work_mem"
  <2> DEFINE b == IF workMem(c) < workMemMin THEN workMemMin ELSE workMem(c)
  <2>1. workMemMin \in Nat /\ workMemMin > 0
    BY Units DEF workMemMin
  <2>2. conns(c) \in Nat /\ conns(c) > 0
    BY <1>1, Units DEF conns, getMaxConns, minMaxConns
  <2>3. half(c.cpus) \in Nat /\ half(c.cpus) > 0
    BY <1>1 DEF half
  <2>4. PerGig(c.memory, 400) \in Nat
    BY <1>1 DEF PerGig
  <2>5. workMem(c) \in Nat
    <3>1. PerGig(c.memory, 400) \div conns(c) \in Nat
      BY <2>2, <2>4, DivNat
    <3> QED
      BY <2>3, <3>1, DivNat DEF workMem
  <2>6. b \in Nat /\ b # 0
    BY <2>1, <2>5
  <2>7. BytesToPGFormat(b) = {}
    BY <1>6 DEF MemoryRecommender
  <2> HIDE DEF b
  <2> QED
    BY <2>6, <2>7, FormatsAll
<1> QED
  BY <1>2, <1>3, <1>4, <1>5, <1>6

LEMMA MaxWAL ==
  ASSUME NEW c \in SystemConfig, NEW p
  PROVE  /\ calcMaxWALBytes(c, p) \in Nat
         /\ calcMaxWALBytes(c, p) < 2 => c.walDisk # 0 /\ (c.walDisk * 60) % Wrap < 100
<1> DEFINE d   == (c.walDisk * 60) % Wrap
           max == d \div 100
<1>1. c.walDisk \in Nat /\ d \in Nat
  BY PGValueAssumption DEF SystemConfig
<1>2. GB \in Nat /\ GB >= 512 /\ Segment >= 512
  BY Units DEF Segment
<1>3. CASE c.walDisk = 0
  BY <1>2, <1>3 DEF calcMaxWALBytes
<1>4. CASE c.walDisk # 0
  <2>1. calcMaxWALBytes(c, p) = RoundUp(max)
    BY <1>4 DEF calcMaxWALBytes
  <2> HIDE DEF d
  <2>2. max \in Nat /\ (max = 0 => d < 100)
    BY <1>1
  <2> HIDE DEF max
  <2>3. RoundUp(max) \in Nat /\ (max > 0 => RoundUp(max) >= Segment)
    BY <2>2, RoundsUp
  <2>4. RoundUp(max) < 2 => d < 100
    <3>1. Segment \in Nat
      BY Units DEF Segment
    <3> QED
      BY <1>2, <2>2, <2>3, <3>1
  <2> QED
    BY <1>4, <2>1, <2>3, <2>4 DEF d
<1> QED
  BY <1>3, <1>4

LEMMA WALPanics ==
  ASSUME NEW c \in SystemConfig, NEW p, NEW key \in {WALKeys[i] : i \in DOMAIN WALKeys},
         WALRecommender(c, p, key) = {}
  PROVE  TooSmall(c)
<1>1. c.memory \in Nat
  BY DEF SystemConfig
<1>2. key \in {"wal_buffers", "min_wal_size", "max_wal_size", "checkpoint_timeout",
               "wal_compression"}
  BY DEF WALKeys
<1>3. CASE key = "wal_buffers"
  <2> DEFINE b == IF c.memory < 2 * GB THEN (c.memory * 7864) \div (1024 * 1024) ELSE GB \div 64
  <2>1. b \in Nat /\ (b = 0 => c.memory < 134)
    BY <1>1, Units
  <2>2. BytesToPGFormat(b) = {}
    BY <1>3 DEF WALRecommender
  <2> HIDE DEF b
  <2>3. b = 0
    BY <2>1, <2>2, FormatsAll
  <2> QED
    BY <2>1, <2>3 DEF TooSmall
<1>4. CASE key = "min_wal_size"
  <2> DEFINE b == calcMaxWALBytes(c, p) \div 2
  <2>1. b \in Nat /\ (b = 0 => calcMaxWALBytes(c, p) < 2)
    BY MaxWAL
  <2>2. BytesToPGFormat(b) = {}
    BY <1>4 DEF WALRecommender
  <2> HIDE DEF b
  <2>3. b = 0
    BY <2>1, <2>2, FormatsAll
  <2> QED
    BY <2>1, <2>3, MaxWAL DEF TooSmall
<1>5. CASE key = "max_wal_size"
  <2>1. BytesToPGFormat(calcMaxWALBytes(c, p)) = {}
    BY <1>5 DEF WALRecommender
  <2>2. calcMaxWALBytes(c, p) = 0
    BY <2>1, FormatsAll, MaxWAL
  <2> QED
    BY <2>2, MaxWAL DEF TooSmall
<1>6. CASE key \in {"checkpoint_timeout", "wal_compression"}
  BY <1>6 DEF WALRecommender
<1> QED
  BY <1>2, <1>3, <1>4, <1>5, <1>6

LEMMA Labels ==
  /\ DOMAIN tunables = 1..5 /\ Len(tunables) = 5
  /\ \A g \in DOMAIN tunables :
       tunables[g] \in {"memory", "parallelism", "WAL", "background writer", "miscellaneous"}
<1>1. DOMAIN tunables = 1..5 /\ Len(tunables) = 5
  BY DEF tunables
<1>2. \A g \in 1..5 : g = 1 \/ g = 2 \/ g = 3 \/ g = 4 \/ g = 5
  BY SMT
<1>3. /\ tunables[1] = "memory" /\ tunables[2] = "parallelism" /\ tunables[3] = "WAL"
      /\ tunables[4] = "background writer" /\ tunables[5] = "miscellaneous"
  BY DEF tunables
<1> QED
  BY <1>1, <1>2, <1>3

\* Of the recommenders of an available group only these two panic, and only
\* over a size that is too small.
LEMMA AdvicePanics ==
  ASSUME NEW c \in SystemConfig, NEW p, NEW s, NEW g \in DOMAIN tunables,
         NEW i \in 1..Len(Keys(c, s, tunables[g])),
         tunables[g] = "parallelism" => ParallelIsAvailable(c),
         Advice(c, p, tunables[g], Keys(c, s, tunables[g])[i]) = {}
  PROVE  TooSmall(c)
<1> DEFINE l   == tunables[g]
           key == Keys(c, s, l)[i]
<1>1. l \in {"memory", "parallelism", "WAL", "background writer", "miscellaneous"}
  BY Labels
<1>2. CASE l = "memory"
  <2>1. Keys(c, s, l) = MemoryKeys
    BY <1>2 DEF Keys
  <2>2. key \in {MemoryKeys[j] : j \in DOMAIN MemoryKeys}
    BY <2>1 DEF MemoryKeys
  <2>3. MemoryRecommender(c, p, key) = {}
    BY <1>2 DEF Advice
  <2> QED
    BY <2>2, <2>3, MemoryPanics
<1>3. CASE l = "parallelism"
  <2>1. ParallelRecommender(c, key) = {}
    BY <1>3 DEF Advice
  <2>2. c.cpus > 1 /\ c.cpus \in Nat /\ c.maxBGWorkers \in Nat /\ c.maxBGWorkers >= 16
    BY <1>3 DEF SystemConfig, ParallelIsAvailable, MaxBackgroundWorkersDefault
  <2>3. ~(c.cpus <= 1 \/ c.maxBGWorkers < MaxBackgroundWorkersDefault)
    BY <2>2 DEF MaxBackgroundWorkersDefault
  <2> QED
    BY <2>1, <2>3 DEF ParallelRecommender
<1>4. CASE l = "WAL"
  <2>1. Keys(c, s, l) = WALKeys
    BY <1>4 DEF Keys
  <2>2. key \in {WALKeys[j] : j \in DOMAIN WALKeys}
    BY <2>1 DEF WALKeys
  <2>3. WALRecommender(c, p, key) = {}
    BY <1>4 DEF Advice
  <2> QED
    BY <2>2, <2>3, WALPanics
<1>5. CASE l = "background writer"
  BY <1>5 DEF Advice, BgwriterRecommender
<1>6. CASE l = "miscellaneous"
  BY <1>6 DEF Advice, MiscRecommender
<1> QED
  BY <1>1, <1>2, <1>3, <1>4, <1>5, <1>6

-----------------------------------------------------------------------------
(* What the recommenders know of versions.                                 *)

LEMMA ShortKeys ==
  /\ Len(ButLast(ParallelKeys)) = 3 /\ Len(ButLast(MiscKeys)) = 9
  /\ \A i \in 1..Len(ButLast(ParallelKeys)) : ButLast(ParallelKeys)[i] # "max_parallel_workers"
  /\ \A i \in 1..Len(MiscKeys) : MiscKeys[i] # "max_parallel_workers"
  /\ \A i \in 1..Len(ButLast(MiscKeys)) : ButLast(MiscKeys)[i] # "max_parallel_workers"
<1>1. Len(ParallelKeys) = 4 /\ ButLast(ParallelKeys) = SubSeq(ParallelKeys, 1, 3)
  BY DEF ParallelKeys, ButLast
<1>2. \A i \in 1..3 : SubSeq(ParallelKeys, 1, 3)[i] = ParallelKeys[i]
  BY DEF ParallelKeys
<1>3. Len(SubSeq(ParallelKeys, 1, 3)) = 3
  BY DEF ParallelKeys
<1>4. Len(MiscKeys) = 10 /\ ButLast(MiscKeys) = SubSeq(MiscKeys, 1, 9)
  BY DEF MiscKeys, ButLast
<1>5. \A i \in 1..9 : SubSeq(MiscKeys, 1, 9)[i] = MiscKeys[i]
  BY DEF MiscKeys
<1>6. Len(SubSeq(MiscKeys, 1, 9)) = 9
  BY DEF MiscKeys
<1>7. \A i \in 1..3 : ParallelKeys[i] # "max_parallel_workers"
  BY DEF ParallelKeys
<1>8. \A i \in 1..10 : MiscKeys[i] # "max_parallel_workers"
  BY DEF MiscKeys
<1> QED
  BY <1>1, <1>2, <1>3, <1>4, <1>5, <1>6, <1>7, <1>8

LEMMA KeysCounted ==
  ASSUME NEW c, NEW s, NEW g \in DOMAIN tunables
  PROVE  Len(Keys(c, s, tunables[g])) \in Nat
<1>1. /\ Len(MemoryKeys) \in Nat /\ Len(WALKeys) \in Nat /\ Len(BgwriterKeys) \in Nat
      /\ Len(ParallelKeys) \in Nat /\ Len(MiscKeys) \in Nat
  BY DEF MemoryKeys, WALKeys, BgwriterKeys, ParallelKeys, MiscKeys
<1>2. Len(ButLast(ParallelKeys)) \in Nat /\ Len(ButLast(MiscKeys)) \in Nat
  BY ShortKeys
<1>3. Keys(c, s, tunables[g]) \in {MemoryKeys, WALKeys, BgwriterKeys, ParallelKeys, MiscKeys,
                                  ButLast(ParallelKeys), ButLast(MiscKeys)}
  <2>1. tunables[g] \in {"memory", "parallelism", "WAL", "background writer", "miscellaneous"}
    BY Labels
  <2> QED
    BY <2>1 DEF Keys
<1> QED
  BY <1>1, <1>2, <1>3

LEMMA AdviceKnowsVersion ==
  ASSUME NEW c \in SystemConfig, NEW p, NEW s, NEW g \in DOMAIN tunables,
         NEW i \in 1..Len(Keys(c, s, tunables[g])),
         NEW v \in Advice(c, p, tunables[g], Keys(c, s, tunables[g])[i]),
         v # NoRecommendation
  PROVE  c.version \in Since(Keys(c, s, tunables[g])[i])
<1> DEFINE l   == tunables[g]
           key == Keys(c, s, l)[i]
<1>1. l \in {"memory", "parallelism", "WAL", "background writer", "miscellaneous"}
  BY Labels
<1>2. c.version \in ValidPGVersions
  BY DEF SystemConfig
<1>3. key \notin {"max_parallel_workers", "jit", "default_toast_compression"}
        => c.version \in Since(key)
  BY <1>2 DEF Since
<1>4. CASE l = "memory"
  <2>1. key \in {MemoryKeys[j] : j \in DOMAIN MemoryKeys}
    BY <1>4 DEF Keys, MemoryKeys
  <2> QED
    BY <1>3, <2>1 DEF MemoryKeys
<1>5. CASE l = "WAL"
  <2>1. key \in {WALKeys[j] : j \in DOMAIN WALKeys}
    BY <1>5 DEF Keys, WALKeys
  <2> QED
    BY <1>3, <2>1 DEF WALKeys
<1>6. CASE l = "background writer"
  <2>1. key = "bgwriter_flush_after"
    <3>1. Keys(c, s, l) = BgwriterKeys
      BY <1>6 DEF Keys
    <3>2. i \in 1..1
      BY <3>1 DEF BgwriterKeys
    <3>3. i = 1
      BY <3>2
    <3> QED
      BY <3>1, <3>3 DEF BgwriterKeys
  <2> QED
    BY <1>3, <2>1
<1>7. CASE l = "parallelism"
  <2>1. c.version \in Before10 => key # "max_parallel_workers"
    BY <1>7, ShortKeys DEF Keys
  <2>2. key \notin {"jit", "default_toast_compression"}
    <3>1. CASE c.version \in Before10
      <4>1. i \in 1..3 /\ key = SubSeq(ParallelKeys, 1, 3)[i]
        BY <1>7, <3>1 DEF Keys, ButLast, ParallelKeys
      <4>2. key = ParallelKeys[i]
        BY <4>1 DEF ParallelKeys
      <4> QED
        BY <4>1, <4>2 DEF ParallelKeys
    <3>2. CASE c.version \notin Before10
      BY <1>7, <3>2 DEF Keys, ParallelKeys
    <3> QED
      BY <3>1, <3>2
  <2> QED
    BY <1>2, <1>3, <2>1, <2>2 DEF Since
<1>8. CASE l = "miscellaneous"
  <2>1. key # "max_parallel_workers"
    BY <1>8, ShortKeys DEF Keys
  <2>2. v \in MiscRecommender(c, key)
    BY <1>8 DEF Advice
  <2>3. CASE key = "jit"
    <3>1. c.version \notin Before12
      BY <2>2, <2>3 DEF MiscRecommender, getValueForVersion
    <3> QED
      BY <1>2, <2>3, <3>1 DEF Since, Before12
  <2>4. CASE key = "default_toast_compression"
    <3>1. c.version \notin Before14
      BY <2>2, <2>4 DEF MiscRecommender, getValueForVersion
    <3> QED
      BY <1>2, <2>4, <3>1 DEF Since
  <2> QED
    BY <1>3, <2>1, <2>3, <2>4
<1> QED
  BY <1>1, <1>4, <1>5, <1>6, <1>7, <1>8

-----------------------------------------------------------------------------
(* The configuration.                                                      *)

\* A parser returns one natural number, or an error.
LEMMA ParsesOne ==
  ASSUME NEW v \in Value
  PROVE  PGFormatToBytes(v) \subseteq Nat /\ \A a, b \in PGFormatToBytes(v) : a = b
<1>1. v.num \in Nat
  BY DEF Value
<1>2. \A n \in Nat : (v.num * n) % Wrap \in Nat
  BY <1>1, PGValueAssumption
<1>3. KB \in Nat /\ MB \in Nat /\ GB \in Nat /\ TB \in Nat
  BY Units
<1>4. PGFormatToBytes(v) = {} \/ \E n \in Nat : PGFormatToBytes(v) = {n}
  BY <1>1, <1>2, <1>3 DEF PGFormatToBytes
<1> QED
  BY <1>4

LEMMA OneVersion ==
  ASSUME machine \in Machine
  PROVE  pgMajorVersion \subseteq ValidPGVersions /\ \A a, b \in pgMajorVersion : a = b
<1>1. \A a, b \in machine.pgConfig : a = b
  BY DEF Machine
<1>2. \A o : \A a, b \in ToPGMajorVersion(o) : a = b
  BY DEF ToPGMajorVersion
<1> QED
  BY <1>1, <1>2 DEF pgMajorVersion

LEMMA Configuration ==
  ASSUME machine \in Machine, flags \in Flags
  PROVE  /\ initializeSystemConfig \subseteq SystemConfig
         /\ \A a, b \in initializeSystemConfig : a = b
<1> DEFINE memories == FlagBytes(flags.memory, machine.memory)
           disks    == FlagBytes(flags.walDiskSize, 0)
           cpus     == OrDefault(flags.cpus, machine.cpus)
           workers  == OrDefault(flags.maxBGWorkers, MaxBackgroundWorkersDefault)
           Made(v, m, w) == [version |-> v, memory |-> m, walDisk |-> w, cpus |-> cpus,
                             maxConns |-> flags.maxConns, maxBGWorkers |-> workers]
<1> DEFINE Given == flags.memory \in Value /\ flags.walDiskSize \in Value
                    /\ flags.cpus \in Nat /\ flags.maxConns \in Nat /\ flags.maxBGWorkers \in Int
<1>a. Given
  BY DEF Flags
<1>b. machine.memory \in Nat /\ machine.cpus \in Nat \ {0}
  <2>1. machine.memory \in 0..(Wrap - 1) /\ machine.cpus \in Nat \ {0}
    BY DEF Machine
  <2>2. \A n \in Nat : 0..(n - 1) \subseteq Nat
    OBVIOUS
  <2> QED
    BY <2>1, <2>2, PGValueAssumption
<1>c. \A v \in Value, n \in Nat :
        FlagBytes(v, n) \subseteq Nat /\ \A a, b \in FlagBytes(v, n) : a = b
  BY ParsesOne DEF FlagBytes
<1>1. memories \subseteq Nat /\ \A a, b \in memories : a = b
  BY <1>a, <1>b, <1>c
<1>2. disks \subseteq Nat /\ \A a, b \in disks : a = b
  BY <1>a, <1>c
<1>3. cpus \in Nat \ {0} /\ workers \in Int /\ flags.maxConns \in Nat
  BY <1>a, <1>b DEF OrDefault, MaxBackgroundWorkersDefault
<1>4. pgMajorVersion \subseteq ValidPGVersions /\ \A a, b \in pgMajorVersion : a = b
  BY OneVersion
<1>5. \A c \in initializeSystemConfig :
        \E v \in pgMajorVersion, m \in memories, w \in disks :
          c = Made(v, m, w) /\ NewSystemConfig(c)
  BY DEF initializeSystemConfig
<1> HIDE DEF memories, disks, cpus, workers
<1>6. ASSUME NEW v \in pgMajorVersion, NEW m \in memories, NEW w \in disks,
             NewSystemConfig(Made(v, m, w))
      PROVE  Made(v, m, w) \in SystemConfig
  <2>1. flags.maxConns = 0 \/ flags.maxConns >= minMaxConns
    BY <1>6 DEF NewSystemConfig
  <2>2. workers \in Nat /\ workers >= MaxBackgroundWorkersDefault
    BY <1>3, <1>6 DEF NewSystemConfig, MaxBackgroundWorkersDefault
  <2> QED
    BY <1>1, <1>2, <1>3, <1>4, <2>1, <2>2 DEF SystemConfig
<1>7. initializeSystemConfig \subseteq SystemConfig
  BY <1>5, <1>6
<1>8. \A a, b \in initializeSystemConfig : a = b
  BY <1>1, <1>2, <1>4, <1>5
<1> QED
  BY <1>7, <1>8

-----------------------------------------------------------------------------
(* The invariant.                                                          *)

Configured ==
  /\ machine \in Machine /\ flags \in Flags
  /\ config \subseteq SystemConfig /\ \A a, b \in config : a = b
  /\ group \in DOMAIN tunables /\ pos \in Nat \ {0}
  /\ pc = "config" => DOMAIN advice = {}

IInv == Configured /\ PanicsOnlyWhenTooSmall /\ KnownToVersion

LEMMA InitHolds == Init => IInv
<1> SUFFICES ASSUME Init PROVE IInv
  OBVIOUS
<1>1. 1 \in DOMAIN tunables
  <2>1. DOMAIN tunables = 1..5
    BY Labels
  <2> QED
    BY <2>1
<1>2. machine \in Machine /\ flags \in Flags /\ config = {}
  <2>1. PICK s \in Starts : machine = s[1] /\ flags = s[2]
    BY DEF Init
  <2>2. s \in Machine \X Flags
    BY StartupAssumption
  <2> QED
    BY <2>1, <2>2 DEF Init
<1> QED
  BY <1>1, <1>2 DEF Init, IInv, Configured, PanicsOnlyWhenTooSmall, KnownToVersion

LEMMA RecommendHolds ==
  ASSUME IInv, NEW c \in config, recommend(c)
  PROVE  IInv'
<1> DEFINE key == Keys(c, machine.system, label)[pos]
           new == Advice(c, profile, label, key)
<1>1. c \in SystemConfig /\ group \in DOMAIN tunables /\ pos \in Nat \ {0}
  BY DEF IInv, Configured
<1>2. /\ pc = "advise" /\ ~Skipped(c) /\ pos <= Len(Keys(c, machine.system, label))
      /\ UNCHANGED <<machine, flags, config, path, tried, group>>
  BY DEF recommend
<1>3. pos \in 1..Len(Keys(c, machine.system, tunables[group]))
  <2>1. Len(Keys(c, machine.system, label)) \in Nat
    BY <1>1, KeysCounted DEF label
  <2> QED
    BY <1>1, <1>2, <2>1 DEF label
<1>4. CASE new = {}
  <2>1. pc' = "panic" /\ UNCHANGED <<advice, pos>>
    BY <1>4 DEF recommend
  <2>2. tunables[group] = "parallelism" => ParallelIsAvailable(c)
    BY <1>2 DEF Skipped, label
  <2>3. TooSmall(c)
    BY <1>1, <1>3, <1>4, <2>2, AdvicePanics DEF label
  <2>4. PanicsOnlyWhenTooSmall'
    BY <1>2, <2>3 DEF PanicsOnlyWhenTooSmall, TooSmall
  <2> QED
    BY <1>2, <2>1, <2>4 DEF IInv, Configured, KnownToVersion
<1>5. CASE new # {}
  <2>1. PICK v \in new :
          advice' = [k \in DOMAIN advice \cup {key} |-> IF k = key THEN v ELSE advice[k]]
    BY <1>5 DEF recommend
  <2>2. pos' = pos + 1 /\ pc' = pc
    BY <1>5 DEF recommend
  <2>3. v # NoRecommendation => c.version \in Since(key)
    BY <1>1, <1>3, AdviceKnowsVersion DEF label
  <2>4. \A d \in config : d = c
    BY DEF IInv, Configured
  <2> HIDE DEF key, new
  <2>5. KnownToVersion'
    <3>1. ASSUME NEW k \in DOMAIN advice', advice'[k] # NoRecommendation
          PROVE  c.version \in Since(k)
      <4>1. CASE k = key
        BY <2>1, <2>3, <3>1, <4>1
      <4>2. CASE k # key
        <5>1. k \in DOMAIN advice /\ advice'[k] = advice[k]
          BY <2>1, <4>2
        <5> QED
          BY <3>1, <5>1 DEF IInv, KnownToVersion
      <4> QED
        BY <4>1, <4>2
    <3> QED
      BY <1>2, <2>4, <3>1 DEF KnownToVersion
  <2>6. Configured'
    BY <1>1, <1>2, <2>2 DEF IInv, Configured
  <2>7. PanicsOnlyWhenTooSmall'
    BY <1>2, <2>2 DEF PanicsOnlyWhenTooSmall
  <2> QED
    BY <2>5, <2>6, <2>7 DEF IInv
<1> QED
  BY <1>4, <1>5

LEMMA NextHolds == IInv /\ [Next]_vars => IInv'
<1> SUFFICES ASSUME IInv, [Next]_vars PROVE IInv'
  OBVIOUS
<1>1. CASE Configure
  <2>1. config' = {} \/ config' = initializeSystemConfig
    BY <1>1 DEF Configure
  <2>2. config' \subseteq SystemConfig /\ \A a, b \in config' : a = b
    BY <2>1, Configuration DEF IInv, Configured
  <2>3. pc = "config" /\ pc' \in {"error", "search", "open"}
        /\ UNCHANGED <<machine, flags, group, pos, advice>>
    BY <1>1 DEF Configure
  <2>4. Configured'
    BY <2>2, <2>3 DEF IInv, Configured
  <2>5. DOMAIN advice' = {}
    BY <2>3 DEF IInv, Configured
  <2> QED
    BY <2>3, <2>4, <2>5 DEF IInv, PanicsOnlyWhenTooSmall, KnownToVersion
<1>2. CASE Open
  BY <1>2 DEF Open, IInv, Configured, PanicsOnlyWhenTooSmall, KnownToVersion
<1>3. ASSUME NEW c \in config, try(c) PROVE IInv'
  BY <1>3 DEF try, IInv, Configured, PanicsOnlyWhenTooSmall, KnownToVersion
<1>4. ASSUME NEW c \in config, introduce(c) PROVE IInv'
  <2>1. /\ pc' = IF c.memory = 0 THEN "panic" ELSE "advise"
        /\ UNCHANGED <<machine, flags, config, group, pos, advice>>
    BY <1>4 DEF introduce
  <2>2. c.memory = 0 => TooSmall(c)
    BY DEF TooSmall
  <2>3. PanicsOnlyWhenTooSmall'
    BY <2>1, <2>2 DEF PanicsOnlyWhenTooSmall, TooSmall
  <2> QED
    BY <2>1, <2>3 DEF IInv, Configured, KnownToVersion
<1>5. ASSUME NEW c \in config, nextGroup(c) PROVE IInv'
  <2>1. /\ pc = "advise" /\ pc' \in {"advise", "done"}
        /\ UNCHANGED <<machine, flags, config, advice>>
    BY <1>5 DEF nextGroup
  <2>2. group' \in DOMAIN tunables /\ pos' \in Nat \ {0}
    <3>1. DOMAIN tunables = 1..5 /\ Len(tunables) = 5
      BY Labels
    <3>2. group \in DOMAIN tunables /\ pos \in Nat \ {0}
      BY DEF IInv, Configured
    <3>3. (group < Len(tunables) /\ group' = group + 1 /\ pos' = 1)
            \/ (group' = group /\ pos' = pos)
      BY <1>5 DEF nextGroup
    <3> QED
      BY <3>1, <3>2, <3>3
  <2>3. Configured'
    BY <2>1, <2>2 DEF IInv, Configured
  <2> QED
    BY <2>1, <2>3 DEF IInv, PanicsOnlyWhenTooSmall, KnownToVersion
<1>6. CASE UNCHANGED vars
  BY <1>6 DEF vars, IInv, Configured, PanicsOnlyWhenTooSmall, KnownToVersion, TooSmall
<1> QED
  BY <1>1, <1>2, <1>3, <1>4, <1>5, <1>6, RecommendHolds DEF Next

\* Whatever the flags and the machine, a run panics only over a size that is
\* next to nothing or wraps to that (the panics of parse.go:115 and
\* parallel.go:54 and 57): one CPU or few workers never lead there.
THEOREM PanicFree == Spec => []PanicsOnlyWhenTooSmall
<1>1. IInv => PanicsOnlyWhenTooSmall
  BY DEF IInv
<1> QED
  BY <1>1, InitHolds, NextHolds, PTL DEF Spec

\* Whatever the flags and the machine, no setting is recommended that the
\* version of PostgreSQL does not have (Keys, getValueForVersion).
THEOREM VersionSafe == Spec => []KnownToVersion
<1>1. IInv => KnownToVersion
  BY DEF IInv
<1> QED
  BY <1>1, InitHolds, NextHolds, PTL DEF Spec

-----------------------------------------------------------------------------
(* The search for the file.                                                *)

\* How far the search has come, when the configuration is c: the places in
\* front have been looked at and are empty, and what was found is a place.
Searched(c) ==
  LET places == Candidates(c.version)
  IN /\ Len(tried) \in 0..Len(places)
     /\ tried = [i \in 1..Len(tried) |-> places[i]]
     /\ path = NoPath => \A i \in 1..Len(tried) : tried[i] \notin machine.exists
     /\ path # NoPath => path \in machine.exists /\ \E i \in DOMAIN places : path = places[i]
     /\ pc = "search" => path = NoPath
     /\ pc = "error" /\ path = NoPath => tried = places
     /\ pc \notin {"config", "search", "error"} => path # NoPath

SearchInv ==
  /\ pc = "config" => config = {} /\ tried = <<>> /\ path = NoPath
  /\ flags.confPath = NoPath => \A c \in config : Searched(c)

\* A name put in front of a version is a path with the version behind it.
LEMMA Behind ==
  ASSUME NEW S, NEW v \in Seq(S), NEW x
  PROVE  /\ <<x>> \o v # <<>> /\ Tail(<<x>> \o v) = v
         /\ <<x>> # <<>> /\ Tail(<<x>>) = <<>>
<1> DEFINE T == S \cup {x}
<1>1. <<x>> \in Seq(T) /\ v \in Seq(T)
  OBVIOUS
<1>2. Len(<<x>> \o v) = Len(v) + 1
  BY <1>1
<1>3. Tail(<<x>> \o v) = v
  BY <1>1, <1>2
<1>4. <<x>> # <<>> /\ Tail(<<x>>) = <<>>
  OBVIOUS
<1>5. <<x>> \o v # <<>>
  BY <1>1, <1>2
<1> QED
  BY <1>3, <1>4, <1>5

LEMMA VersionsAreParts == \A v \in ValidPGVersions : \E S : v \in Seq(S)
<1>1. <<"9", ".6">> \in Seq({"9", ".6"})
  OBVIOUS
<1>2. \A x : <<x>> \in Seq({x})
  OBVIOUS
<1> SUFFICES ASSUME NEW v \in ValidPGVersions PROVE \E S : v \in Seq(S)
  OBVIOUS
<1>3. v = <<"9", ".6">> \/ \E x : v = <<x>>
  BY DEF ValidPGVersions, Before14, Before13, Before12, Before10
<1> QED
  BY <1>1, <1>2, <1>3

\* A list of four.
LEMMA Four ==
  ASSUME NEW a, NEW b, NEW c, NEW d
  PROVE  <<a, b, c, d>> \in Seq({a, b, c, d}) /\ DOMAIN <<a, b, c, d>> = 1..4
         /\ \A i \in 1..4 : <<a, b, c, d>>[i] \in {a, b, c, d}
OBVIOUS

\* Every place is a path, and with the version of the run or with none.
LEMMA PlacesOf ==
  ASSUME NEW v \in ValidPGVersions, NEW s
  PROVE  \E S : /\ Places(v, s) \in Seq(S)
                /\ \A p \in S : p # NoPath /\ Tail(p) \in {<<>>, v}
<1>1. PICK T : v \in Seq(T)
  BY VersionsAreParts
<1>2. \A x : /\ <<x>> \o v # NoPath /\ Tail(<<x>> \o v) \in {<<>>, v}
             /\ <<x>> # NoPath /\ Tail(<<x>>) \in {<<>>, v}
  BY <1>1, Behind DEF NoPath
<1>3. CASE s = "darwin"
  <2> DEFINE a == <<"/usr/local/var">>
             b == <<"/usr/local/var">> \o v
             c == <<"/opt/homebrew/var">>
             d == <<"/opt/homebrew/var">> \o v
  <2>1. Places(v, s) = <<a, b, c, d>>
    BY <1>3 DEF Places
  <2> DEFINE W == {a, b, c, d}
  <2>2. \A p \in W : p # NoPath /\ Tail(p) \in {<<>>, v}
    BY <1>2
  <2> HIDE DEF a, b, c, d
  <2>3. <<a, b, c, d>> \in Seq(W)
    BY Four
  <2> HIDE DEF W
  <2> QED
    BY <2>1, <2>2, <2>3
<1>4. CASE s = "linux"
  <2> DEFINE a == <<"/etc/postgresql">> \o v
             b == <<"/var/lib/pgsql">> \o v
             c == <<"/var/lib/postgres/data">>
             d == <<"/var/lib/postgresql/data">>
  <2>1. Places(v, s) = <<a, b, c, d>>
    BY <1>4 DEF Places
  <2> DEFINE W == {a, b, c, d}
  <2>2. \A p \in W : p # NoPath /\ Tail(p) \in {<<>>, v}
    BY <1>2
  <2> HIDE DEF a, b, c, d
  <2>3. <<a, b, c, d>> \in Seq(W)
    BY Four
  <2> HIDE DEF W
  <2> QED
    BY <2>1, <2>2, <2>3
<1>5. CASE s \notin {"darwin", "linux"}
  <2>1. Places(v, s) = <<>>
    BY <1>5 DEF Places
  <2> DEFINE W == {}
  <2>2. Places(v, s) \in Seq(W) /\ \A p \in W : p # NoPath /\ Tail(p) \in {<<>>, v}
    BY <2>1
  <2> HIDE DEF W
  <2> QED
    BY <2>2
<1> QED
  BY <1>3, <1>4, <1>5

\* The places looked at: the one PGDATA names, then those of the packages.
LEMMA CandidatesOf ==
  ASSUME machine \in Machine, NEW v \in ValidPGVersions
  PROVE  \E S : /\ Candidates(v) \in Seq(S)
                /\ \A p \in S : /\ p # NoPath
                                /\ p # Formatted(PGDATAFile) => Tail(p) \in {<<>>, v}
<1>1. PICK S : /\ Places(v, machine.system) \in Seq(S)
               /\ \A p \in S : p # NoPath /\ Tail(p) \in {<<>>, v}
  BY PlacesOf
<1> DEFINE f     == Formatted(PGDATAFile)
           first == IF machine.PGDATA # NoPath THEN <<f>> ELSE <<>>
           rest  == Places(v, machine.system)
           T     == S \cup {f}
<1>2. f # NoPath
  <2>1. machine.PGDATA \in Seq(Text)
    BY DEF Machine, Path
  <2>2. DOMAIN PGDATAFile = 1..(Len(machine.PGDATA) + 1) /\ Len(machine.PGDATA) \in Nat
    BY <2>1 DEF PGDATAFile
  <2>3. 1 \in DOMAIN f
    BY <2>2 DEF Formatted
  <2> QED
    BY <2>3 DEF NoPath
<1> HIDE DEF f
<1>3. first \in Seq(T)
  <2>1. <<f>> \in Seq(T) /\ <<>> \in Seq(T)
    OBVIOUS
  <2> QED
    BY <2>1
<1>4. rest \in Seq(T)
  BY <1>1
<1> HIDE DEF first, rest
<1>5. first \o rest \in Seq(T)
  BY <1>3, <1>4
<1>6. Candidates(v) = first \o rest
  BY DEF Candidates, first, rest, f
<1>7. \A p \in T : p # NoPath /\ (p # f => Tail(p) \in {<<>>, v})
  BY <1>1, <1>2
<1> HIDE DEF T
<1> QED
  BY <1>5, <1>6, <1>7 DEF f

LEMMA SearchesOn ==
  ASSUME IInv, SearchInv, NEW c \in config, try(c)
  PROVE  SearchInv'
<1> DEFINE places == Candidates(c.version)
           next   == places[Len(tried) + 1]
<1>1. machine \in Machine /\ c \in SystemConfig /\ c.version \in ValidPGVersions
  BY DEF IInv, Configured, SystemConfig
<1>2. PICK S : places \in Seq(S) /\ \A p \in S : p # NoPath
  BY <1>1, CandidatesOf
<1>3. pc = "search" /\ UNCHANGED <<machine, flags, config, group, pos, advice>>
  BY DEF try
<1>4. places' = places
  BY <1>3 DEF Candidates, Formatted, PGDATAFile
<1>5. pc' \in {"search", "open", "error"}
  BY <1>3 DEF try
<1>6. SUFFICES ASSUME flags.confPath = NoPath PROVE Searched(c)'
  <2>1. \A d \in config : d = c
    BY DEF IInv, Configured
  <2> QED
    BY <1>3, <1>5, <1>6, <2>1 DEF SearchInv
<1>7. Searched(c)
  BY <1>6 DEF SearchInv
<1> HIDE DEF places
<1>8. /\ path = NoPath /\ Len(tried) \in 0..Len(places)
      /\ tried = [i \in 1..Len(tried) |-> places[i]]
      /\ \A i \in 1..Len(tried) : tried[i] \notin machine.exists
  BY <1>3, <1>7 DEF Searched, places
<1>9. Len(places) \in Nat /\ DOMAIN places = 1..Len(places)
      /\ \A i \in 1..Len(places) : places[i] \in S
  BY <1>2
<1>10. CASE tried = places
  <2>1. pc' = "error" /\ tried' = tried /\ path' = path
    BY <1>10 DEF try, places
  <2> QED
    BY <1>3, <1>4, <1>8, <1>10, <2>1 DEF Searched, places
<1>11. CASE tried # places
  <2>1. Len(tried) < Len(places)
    <3>1. places = [i \in 1..Len(places) |-> places[i]]
      BY <1>2
    <3>2. Len(tried) # Len(places)
      BY <1>8, <1>11, <3>1
    <3>3. Len(tried) \in 0..Len(places) /\ Len(places) \in Nat
      BY <1>8, <1>9
    <3>4. \A m, n : n \in Nat /\ m \in 0..n /\ m # n => m < n
      OBVIOUS
    <3> QED
      BY <3>2, <3>3, <3>4
  <2>2. Len(tried) + 1 \in 1..Len(places)
    BY <1>8, <1>9, <2>1
  <2>3. tried' = Append(tried, next)
    BY <1>11 DEF try, places
  <2>4. next \in S /\ next # NoPath
    BY <1>2, <1>9, <2>2
  <2>5. /\ Len(tried') = Len(tried) + 1
        /\ tried' = [i \in 1..Len(tried') |-> places[i]]
    <3>1. tried \in Seq(S)
      BY <1>8, <1>9
    <3> DEFINE n == Len(tried)
    <3>2. n \in Nat
      BY <1>8, <1>9
    <3>3. Len(tried') = n + 1 /\ DOMAIN tried' = 1..(n + 1)
      BY <2>3, <2>4, <3>1
    <3>4. \A i \in 1..n : tried'[i] = places[i]
      BY <1>8, <2>3, <2>4, <3>1
    <3>5. tried'[n + 1] = places[n + 1]
      BY <2>3, <2>4, <3>1
    <3>6. tried' \in Seq(S)
      BY <2>3, <2>4, <3>1
    <3>7. tried' = [i \in 1..(n + 1) |-> tried'[i]]
      BY <3>3, <3>6
    <3> HIDE DEF n
    <3>8. \A i \in 1..(n + 1) : tried'[i] = places[i]
      BY <3>2, <3>4, <3>5
    <3> QED
      BY <3>3, <3>7, <3>8 DEF n
  <2>6. Len(tried') \in 0..Len(places)
    BY <1>8, <1>9, <2>2, <2>5
  <2>7. CASE next \in machine.exists
    <3>1. path' = next /\ pc' = "open"
      BY <1>11, <2>7 DEF try, places
    <3>2. path' # NoPath /\ path' \in machine'.exists /\ \E i \in DOMAIN places : path' = places[i]
      BY <1>3, <1>9, <2>2, <2>4, <2>7, <3>1
    <3> QED
      BY <1>4, <2>5, <2>6, <3>1, <3>2 DEF Searched, places
  <2>8. CASE next \notin machine.exists
    <3>1. path' = path /\ pc' = pc
      BY <1>11, <2>8 DEF try, places
    <3>2. \A i \in 1..Len(tried') : tried'[i] \notin machine'.exists
      <4>1. \A i \in 1..Len(tried) : tried'[i] = tried[i]
        BY <1>8, <1>9, <2>2, <2>5
      <4>2. tried'[Len(tried) + 1] = next
        BY <1>8, <1>9, <2>5
      <4> QED
        BY <1>3, <1>8, <1>9, <2>5, <2>8, <4>1, <4>2
    <3> QED
      BY <1>3, <1>4, <1>8, <2>5, <2>6, <3>1, <3>2 DEF Searched, places
  <2> QED
    BY <2>7, <2>8
<1> QED
  BY <1>10, <1>11

LEMMA SearchHolds == IInv /\ SearchInv /\ [Next]_vars => SearchInv'
<1> SUFFICES ASSUME IInv, SearchInv, [Next]_vars PROVE SearchInv'
  OBVIOUS
<1>1. CASE Configure
  <2>1. /\ pc = "config" /\ pc' \in {"error", "search", "open"} /\ tried = <<>> /\ path = NoPath
        /\ UNCHANGED <<machine, flags, tried, group, pos, advice>>
    BY <1>1 DEF Configure, SearchInv
  <2>2. SUFFICES ASSUME flags.confPath = NoPath, NEW c \in config' PROVE Searched(c)'
    BY <2>1 DEF SearchInv
  <2>3. path' = NoPath /\ pc' = "search"
    BY <1>1, <2>2 DEF Configure, dirPathToFile
  <2>4. config' \subseteq SystemConfig
    <3>1. config' = {} \/ config' = initializeSystemConfig
      BY <1>1 DEF Configure
    <3> QED
      BY <3>1, Configuration DEF IInv, Configured
  <2>5. c.version \in ValidPGVersions /\ machine \in Machine
    BY <2>2, <2>4 DEF SystemConfig, IInv, Configured
  <2>6. Len(Candidates(c.version)) \in Nat
    BY <2>5, CandidatesOf
  <2>7. Candidates(c.version)' = Candidates(c.version)
    BY <2>1 DEF Candidates, Formatted, PGDATAFile
  <2>8. Len(tried') = 0 /\ tried' = [i \in 1..0 |-> Candidates(c.version)[i]]
    BY <2>1
  <2> QED
    BY <2>3, <2>6, <2>7, <2>8 DEF Searched
<1>2. CASE Open
  <2>1. /\ pc = "open" /\ pc' \in {"introduce", "error"}
        /\ UNCHANGED <<machine, flags, config, path, tried, group, pos, advice>>
    BY <1>2 DEF Open
  <2>2. \A c : Candidates(c.version)' = Candidates(c.version)
    BY <2>1 DEF Candidates, Formatted, PGDATAFile
  <2> QED
    BY <2>1, <2>2 DEF SearchInv, Searched
<1>3. ASSUME NEW c \in config, try(c) PROVE SearchInv'
  BY <1>3, SearchesOn
<1>4. ASSUME NEW c \in config, introduce(c) \/ nextGroup(c) \/ recommend(c) PROVE SearchInv'
  <2>1. /\ pc \in {"introduce", "advise"} /\ pc' \in {"advise", "done", "panic"}
        /\ UNCHANGED <<machine, flags, config, path, tried>>
    BY <1>4 DEF introduce, nextGroup, recommend
  <2>2. \A d : Candidates(d.version)' = Candidates(d.version)
    BY <2>1 DEF Candidates, Formatted, PGDATAFile
  <2> QED
    BY <2>1, <2>2 DEF SearchInv, Searched
<1>5. CASE UNCHANGED vars
  <2>1. \A c : Candidates(c.version)' = Candidates(c.version)
    BY <1>5 DEF vars, Candidates, Formatted, PGDATAFile
  <2> QED
    BY <1>5, <2>1 DEF vars, SearchInv, Searched
<1> QED
  BY <1>1, <1>2, <1>3, <1>4, <1>5 DEF Next

LEMMA SearchFound == IInv /\ SearchInv => SearchFinds
<1> SUFFICES ASSUME IInv, SearchInv, flags.confPath = NoPath, NEW c \in config
             PROVE  /\ pc = "error" /\ path = NoPath =>
                         \A p \in machine.exists :
                           \A i \in DOMAIN Candidates(c.version) : p # Candidates(c.version)[i]
                    /\ path \notin {NoPath, Formatted(PGDATAFile)} =>
                         path \in machine.exists /\ Tail(path) \in {<<>>, c.version}
  BY DEF SearchFinds
<1> DEFINE places == Candidates(c.version)
<1>1. PICK S : /\ places \in Seq(S)
               /\ \A p \in S : p # Formatted(PGDATAFile) => Tail(p) \in {<<>>, c.version}
  <2>1. machine \in Machine /\ c.version \in ValidPGVersions
    BY DEF IInv, Configured, SystemConfig
  <2> QED
    BY <2>1, CandidatesOf
<1>2. Searched(c)
  BY DEF SearchInv
<1>3. DOMAIN places = 1..Len(places) /\ \A i \in DOMAIN places : places[i] \in S
  BY <1>1
<1>4. ASSUME pc = "error", path = NoPath
      PROVE  \A i \in DOMAIN places : places[i] \notin machine.exists
  BY <1>2, <1>3, <1>4 DEF Searched
<1>5. ASSUME path \notin {NoPath, Formatted(PGDATAFile)}
      PROVE  path \in machine.exists /\ Tail(path) \in {<<>>, c.version}
  BY <1>1, <1>2, <1>3, <1>5 DEF Searched
<1> QED
  BY <1>4, <1>5

\* Whatever the machine: a search that fails has left out no place where the
\* file is, and one that succeeds ends at a file that exists, not at that of
\* another version (getConfigFilePath).
THEOREM FindsTheFile == Spec => []SearchFinds
<1>1. Init => SearchInv
  BY DEF Init, SearchInv
<1> QED
  BY <1>1, InitHolds, NextHolds, SearchHolds, SearchFound, PTL DEF Spec
=============================================================================
