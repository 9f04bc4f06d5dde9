----------------------------- MODULE MCStartup -----------------------------
(***************************************************************************)
(* Small machines for Startup: a kilobyte of 32 bytes makes a gigabyte of  *)
(* 32768 and lets whole machines fit the numbers of the model checker;     *)
(* sizes wrap at 32 terabytes.                                             *)
(***************************************************************************)
EXTENDS Startup

MCText ==
  {"", "kB", "MB", "GB", "TB", "tenths", "lz4", "off", "weeks", "not given", "no recommendation"}
    \cup {"7", "8", "9", ".4", ".5", ".6", "10", "11", "12", "13", "14", "15", "16", "17", "18",
          "19", "20", ".1", "beta"}
    \cup {"data", "given", "postgresql.conf", Percent, "%!(NOVERB)", "/usr/local/var",
          "/opt/homebrew/var", "/etc/postgresql", "/var/lib/pgsql", "/var/lib/postgres/data",
          "/var/lib/postgresql/data"}

Size(n, u) == [num |-> n, unit |-> u]
PG(number, rest) == {[number |-> number, rest |-> rest]}

Host ==
  [pgConfig |-> PG("14", ".5"), memory |-> 8 * GB, cpus |-> 4, system |-> "linux",
   PGDATA |-> <<>>, TSTUNE_PROFILE |-> "", exists |-> {<<"/etc/postgresql", "14">>}, dirs |-> {}]

Plain ==
  [profile |-> "", pgVersion |-> <<>>, memory |-> NotSet, walDiskSize |-> NotSet,
   cpus |-> 0, maxConns |-> 0, maxBGWorkers |-> 0, confPath |-> <<>>]

\* --- sizes -------------------------------------------------------------------
Hosts == {[Host EXCEPT !.TSTUNE_PROFILE = e] : e \in {"", "promscale"}}

Memories ==
  {NotSet, Number(0), Number(64), Number(133), Number(134), Size(1, "MB"), Size(700, "kB"),
   Size(1500, "MB"), Size(2, "GB"), Size(3, "GB"), Size(6, "GB"), Size(511, "MB"),
   Size(17, "GB"), Size(32, "GB"), Size(32, "TB"), Size(5, "weeks")}

Disks ==
  {NotSet, Number(1), Number(2), Size(10, "MB"), Size(100, "MB"), Size(10, "GB"), Size(9999, "kB"),
   Size(12, "TB"), Size(1, "TB")}

SizeStarts == Hosts \X
  {[Plain EXCEPT !.memory = m, !.walDiskSize = w, !.cpus = n, !.maxConns = k, !.profile = p,
                 !.maxBGWorkers = b] :
     m \in Memories, w \in Disks, n \in {1, 5}, k \in {0, 24, 200},
     p \in {"", "promscale"}, b \in {15, 16}}

\* --- versions and places -------------------------------------------------------
Clusters ==
  {<<"data", "postgresql.conf">>, <<"given", "postgresql.conf">>, <<"/etc/postgresql", "13">>,
   <<"/var/lib/pgsql", "9", ".6">>, <<"/var/lib/pgsql", "14">>, <<"/var/lib/postgresql/data">>,
   <<"/opt/homebrew/var", "13">>, <<"/usr/local/var">>}

PlaceStarts ==
  {[Host EXCEPT !.pgConfig = o, !.system = s, !.PGDATA = d, !.exists = e, !.dirs = {<<"given">>}] :
     o \in {{}, PG("14", "beta"), PG("9", ".6"), PG("9", ".5"), PG("20", ".1")},
     s \in {"linux", "darwin", "windows"}, d \in {<<>>, <<"data">>},
     e \in {{}, Clusters} \cup {{f} : f \in Clusters}}
  \X
  {[Plain EXCEPT !.pgVersion = v, !.confPath = p, !.profile = q] :
     v \in {<<>>, <<"13">>, <<"10">>, <<"8", ".4">>}, p \in {<<>>, <<"given">>}, q \in {"", "unknown"}}

MCStarts == SizeStarts \cup PlaceStarts

\* --- where code and documentation differ -----------------------------------------
NoUnit   == {<<Host, [Plain EXCEPT !.memory = Number(64)]>>}
RealDisk == {<<Host, [Plain EXCEPT !.walDiskSize = Size(11, "GB")]>>}

PercentPath ==
  {<<[Host EXCEPT !.PGDATA = <<"data", Percent>>,
                  !.exists = {<<"data", Percent, "postgresql.conf">>} \cup @], Plain>>}
=============================================================================
