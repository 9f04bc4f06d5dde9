------------------------------ MODULE PGValue ------------------------------
(***************************************************************************)
(* The values of PostgreSQL settings as timescaledb-tune reads them: the   *)
(* parsers of pkg/pgtune/float_parser.go and internal/parse/parse.go and   *)
(* the comparison of pkg/tstune/utils.go.                                  *)
(*                                                                         *)
(* The text of a value is a number with its suffix: "128MB" is             *)
(* [num |-> 128, unit |-> "MB"], "100" is [num |-> 100, unit |-> ""] and a *)
(* word such as "off" is [num |-> 0, unit |-> "off"].  Two texts are the   *)
(* same string exactly when they are the same record, so 1024kB and 1MB    *)
(* stay different texts of one size, and "0.9" is [num |-> 9,              *)
(* unit |-> "tenths"].  A result of a parser is the set of the number it   *)
(* returns, and the empty set when it returns an error.  Sizes wrap as     *)
(* uint64 does.  Other fractions and quotes around a value are left out.   *)
(***************************************************************************)
EXTENDS Integers

CONSTANTS Text,      \* words: keys, units, libraries, comments, parts of paths
          Kilobyte,  \* 1024 bytes; less in instances too small for numbers so large
          Wrap       \* where an unsigned integer wraps: 2^64

ASSUME PGValueAssumption == Kilobyte \in Nat /\ Kilobyte >= 32 /\ Wrap \in Nat \ {0}

KB == Kilobyte
MB == Kilobyte * KB
GB == Kilobyte * MB
TB == Kilobyte * GB

Value == [num : Nat, unit : Text]

Number(n) == [num |-> n, unit |-> ""]
Word(w)   == [num |-> 0, unit |-> w]

\* The empty string of Recommender.Recommend: no advice for this key.
NoRecommendation == Word("no recommendation")

-----------------------------------------------------------------------------
(* Parsers.  Sizes are in bytes, durations in microseconds so that "us"    *)
(* needs no fraction.                                                      *)

\* The product is taken without a check.
PGFormatToBytes(v) ==
  IF v.num >= Wrap \div 2 THEN {}   \* strconv.ParseInt fails
  ELSE CASE v.unit = ""   -> {v.num}
         [] v.unit = "kB" -> {(v.num * KB) % Wrap}
         [] v.unit = "MB" -> {(v.num * MB) % Wrap}
         [] v.unit = "GB" -> {(v.num * GB) % Wrap}
         [] v.unit = "TB" -> {(v.num * TB) % Wrap}
         [] OTHER         -> {}

\* A duration without a unit is in milliseconds for the only caller there is.
PGFormatToTime(v) ==
  CASE v.unit = "us"           -> {v.num}
    [] v.unit \in {"", "ms"}   -> {v.num * 1000}
    [] v.unit = "s"            -> {v.num * 1000 * 1000}
    [] v.unit = "min"          -> {v.num * 60 * 1000 * 1000}
    [] v.unit = "h"            -> {v.num * 60 * 60 * 1000 * 1000}
    [] v.unit = "d"            -> {v.num * 24 * 60 * 60 * 1000 * 1000}
    [] OTHER                   -> {}

\* In tenths.
numericFloatParser(v) ==
  CASE v.unit = ""       -> {10 * v.num}
    [] v.unit = "tenths" -> {v.num}
    [] OTHER             -> {}

boolFloatParser(v) ==
  CASE v \in {Number(1), Word("on"), Word("true"), Word("yes")} -> {1}
    [] v \in {Number(0), Word("off"), Word("false"), Word("no")} -> {0}
    [] OTHER -> {}

WALFloatParser(key, v) ==
  CASE key = "wal_compression"    -> boolFloatParser(v)
    [] key = "checkpoint_timeout" -> PGFormatToTime(v)
    [] OTHER                      -> PGFormatToBytes(v)

\* The parser chosen for a type of recommender.  PromscaleMemoryRecommender
\* and MiscRecommender are not listed in the code's switch: the default parses
\* their values, sizes and words included, as plain numbers.
ParseFloat(recommender, key, v) ==
  CASE recommender = "MemoryRecommender" -> PGFormatToBytes(v)
    [] recommender \in {"WALRecommender", "PromscaleWALRecommender"} ->
         WALFloatParser(key, v)
    [] OTHER -> numericFloatParser(v)

-----------------------------------------------------------------------------
AbsDiff(m, n) == IF m > n THEN m - n ELSE n - m

\* |(target - actual) / target| <= 0.05.  With a target of zero the quotient
\* is NaN or infinite and the comparison is false.
isCloseEnough(actual, target) ==
  target > 0 /\ AbsDiff(target, actual) <= target \div 20
=============================================================================
