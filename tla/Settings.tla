------------------------------ MODULE Settings ------------------------------
(***************************************************************************)
(* The groups of settings (pkg/pgtune/tune.go and the recommenders) and    *)
(* the decision which settings of a group need a change                    *)
(* (checkIfShouldShowSetting, tuner.go).                                   *)
(*                                                                         *)
(* What is recommended is a constant function here: the decision reads it  *)
(* and does not compute it.  Recommenders computes it for a machine.       *)
(***************************************************************************)
EXTENDS ConfFile, Recommenders

CONSTANTS SettingsKeys,    \* the keys of each group, in the code's order
          Recommendation,  \* per profile, the recommended text of each key
          CPUs             \* the number of CPUs recommendations are for

KeysOf(label) == {SettingsKeys[label][i] : i \in DOMAIN SettingsKeys[label]}
TunableKeys == UNION {KeysOf(tunables[g]) : g \in DOMAIN tunables}

ASSUME SettingsAssumption ==
  /\ SettingsKeys \in [{tunables[g] : g \in DOMAIN tunables} -> Seq(Text)]
  /\ Recommendation \in [Profiles -> [TunableKeys -> Value]]
  /\ CPUs \in Nat \ {0}

\* NullRecommender has no advice, and no group has another group's key.
ASSUME RecommenderAssumption ==
  /\ \A k \in KeysOf("background writer") : Recommendation["default"][k] = NoRecommendation
  /\ \A g, h \in DOMAIN tunables :
       g # h => KeysOf(tunables[g]) \cap KeysOf(tunables[h]) = {}

\* No group has the library list or a stamp of the program among its keys.
ASSUME KeysAssumption == TunableKeys \cap (ourParams \cup {SharedLib}) = {}

Recommend(profile, k) == Recommendation[profile][k]

\* GetSettingsGroup and GetRecommender: the type of a group's recommender.
GetRecommender(label, profile) ==
  CASE label = "memory"      -> IF profile = "promscale" THEN "PromscaleMemoryRecommender"
                                                         ELSE "MemoryRecommender"
    [] label = "parallelism" -> "ParallelRecommender"
    [] label = "WAL"         -> IF profile = "promscale" THEN "PromscaleWALRecommender"
                                                         ELSE "WALRecommender"
    [] label = "background writer" ->
         IF profile = "promscale" THEN "PromscaleBgwriterRecommender" ELSE "NullRecommender"
    [] OTHER                 -> "MiscRecommender"

IsAvailable(label) == label = "parallelism" => CPUs > 1

-----------------------------------------------------------------------------
(* checkIfShouldShowSetting for one key, on the lines as they were read.   *)

\* Defect used to test the properties: an identical value is parsed as well.
Settled_NoEqual(line, rec) == rec = NoRecommendation

\* A live line that says exactly what is recommended, or a key nothing is
\* recommended for, is settled before any value is parsed.
Settled(line, rec) ==
  rec = NoRecommendation \/ (line.form # "commented" /\ line.val = rec)

FarApart(parse(_), curr, rec) ==
  \/ parse(curr) = {}
  \/ \E c \in parse(curr), t \in parse(rec) : ~isCloseEnough(c, t)

ShowSetting(lines, label, profile, k) ==
  LET parse(v) == ParseFloat(GetRecommender(label, profile), k, v)
      rec == Recommend(profile, k)
  IN \/ tuneParseResult(lines, k) = {}
     \/ \E i \in tuneParseResult(lines, k) :
          /\ ~Settled(lines[i], rec)
          /\ lines[i].form = "commented" \/ FarApart(parse, lines[i].val, rec)

\* "unexpected parsing problem": the current value is a number to the parser
\* and the recommended one is not.
UnexpectedParse(lines, label, profile, k) ==
  LET parse(v) == ParseFloat(GetRecommender(label, profile), k, v)
      rec == Recommend(profile, k)
  IN \E i \in tuneParseResult(lines, k) :
       /\ ~Settled(lines[i], rec)
       /\ parse(lines[i].val) # {} /\ parse(rec) = {}
=============================================================================
