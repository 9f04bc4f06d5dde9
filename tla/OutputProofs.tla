---------------------------- MODULE OutputProofs ----------------------------
(***************************************************************************)
(* What a run of the program leaves, proved from the invariant of          *)
(* EditProofs: the properties of TunerProperties for every file, table of  *)
(* settings, set of flags and answers.                                     *)
(***************************************************************************)
EXTENDS EditProofs, WellFoundedInduction

\* The last line of a text that is in S, as a set of at most one.  The program
\* and PostgreSQL both look for such a line, among different lines.
LastOf(text, S) ==
  {i \in DOMAIN text : text[i] \in S /\ \A j \in DOMAIN text : j > i => text[j] \notin S}
LastLines(text, S) == {text[i] : i \in LastOf(text, S)}

Parsed(k)   == {l \in Line : parsedFor(l, k)}
Honoured(k) == {l \in Line : l.key = k /\ l.form \in {"live", "loose"}}
Listed      == {l \in Line : parseLineForSharedLibResult(l)}

\* The lines of the working copy.
copy == [i \in DOMAIN lines |-> lines[i].content]

-----------------------------------------------------------------------------
(* The three readings of a file are of this kind.                          *)

LEMMA ParsedLast ==
  ASSUME NEW text \in Seq(Line), NEW k
  PROVE  tuneParseResult(text, k) = LastOf(text, Parsed(k))
<1>1. \A i \in DOMAIN text : text[i] \in Line
  OBVIOUS
<1>2. \A i \in DOMAIN text : text[i] \in Parsed(k) <=> parsedFor(text[i], k)
  BY <1>1 DEF Parsed
<1> QED
  BY <1>2 DEF tuneParseResult, LastMatch, LastOf

LEMMA HonouredLast ==
  ASSUME NEW text \in Seq(Line), NEW k
  PROVE  Effective(text, k) = LastOf(text, Honoured(k))
<1>1. \A i \in DOMAIN text : text[i] \in Line
  OBVIOUS
<1>2. \A i \in DOMAIN text :
        text[i] \in Honoured(k) <=> text[i].key = k /\ text[i].form \in {"live", "loose"}
  BY <1>1 DEF Honoured
<1> QED
  BY <1>2 DEF Effective, LastMatch, LastOf

LEMMA ListedLast ==
  ASSUME NEW text \in Seq(Line)
  PROVE  sharedLibResult(text) = LastOf(text, Listed)
<1>1. \A i \in DOMAIN text : text[i] \in Line
  OBVIOUS
<1>2. \A i \in DOMAIN text : text[i] \in Listed <=> parseLineForSharedLibResult(text[i])
  BY <1>1 DEF Listed
<1> QED
  BY <1>2 DEF sharedLibResult, LastMatch, LastOf

\* What PostgreSQL makes of a file depends on the last honoured line only.
LEMMA HonouredValues ==
  ASSUME NEW text \in Seq(Line), NEW other \in Seq(Line), NEW k,
         LastLines(text, Honoured(k)) = LastLines(other, Honoured(k))
  PROVE  /\ EffectiveVal(text, k) = EffectiveVal(other, k)
         /\ k = SharedLib => EffectiveLibs(text) = EffectiveLibs(other)
<1>1. \A t \in Seq(Line) : EffectiveVal(t, k) = {l.val : l \in LastLines(t, Honoured(k))}
  BY HonouredLast DEF EffectiveVal, LastLines
<1>2. \A t \in Seq(Line) :
        {t[i].libs : i \in Effective(t, k)} = {l.libs : l \in LastLines(t, Honoured(k))}
  BY HonouredLast DEF LastLines
<1>3. EffectiveVal(text, k) = EffectiveVal(other, k)
  BY <1>1
<1>4. {text[i].libs : i \in Effective(text, k)} = {other[i].libs : i \in Effective(other, k)}
  BY <1>2
<1> QED
  BY <1>3, <1>4 DEF EffectiveLibs

\* When there is such a line, it is all that counts.
LEMMA OneHonoured ==
  ASSUME NEW text \in Seq(Line), NEW k, NEW l, LastLines(text, Honoured(k)) = {l}
  PROVE  /\ EffectiveVal(text, k) = {l.val}
         /\ k = SharedLib => EffectiveLibs(text) = l.libs
<1>1. EffectiveVal(text, k) = {m.val : m \in LastLines(text, Honoured(k))}
  BY HonouredLast DEF EffectiveVal, LastLines
<1>2. {text[i].libs : i \in Effective(text, k)} = {m.libs : m \in LastLines(text, Honoured(k))}
  BY HonouredLast DEF LastLines
<1>3. EffectiveVal(text, k) = {l.val}
  BY <1>1
<1>4. {text[i].libs : i \in Effective(text, k)} = {l.libs}
  BY <1>2
<1> QED
  BY <1>3, <1>4 DEF EffectiveLibs

\* What the program shows depends on the last parsed line only.
LEMMA ParsedShown ==
  ASSUME NEW text \in Seq(Line), NEW other \in Seq(Line), NEW k,
         LastLines(text, Parsed(k)) = LastLines(other, Parsed(k)), NEW lab, NEW profile
  PROVE  /\ ShowSetting(text, lab, profile, k) <=> ShowSetting(other, lab, profile, k)
         /\ UnexpectedParse(text, lab, profile, k) <=> UnexpectedParse(other, lab, profile, k)
<1>1. \A t \in Seq(Line) : LastLines(t, Parsed(k)) = {t[i] : i \in tuneParseResult(t, k)}
  BY ParsedLast DEF LastLines
<1>2. {text[i] : i \in tuneParseResult(text, k)} = {other[i] : i \in tuneParseResult(other, k)}
  BY <1>1
<1> HIDE DEF LastLines
<1>3. /\ \A i \in tuneParseResult(text, k) : \E j \in tuneParseResult(other, k) : other[j] = text[i]
      /\ \A i \in tuneParseResult(other, k) : \E j \in tuneParseResult(text, k) : text[j] = other[i]
  BY ONLY <1>2
<1>4. tuneParseResult(text, k) = {} <=> tuneParseResult(other, k) = {}
  BY <1>3
<1>5. ShowSetting(text, lab, profile, k) <=> ShowSetting(other, lab, profile, k)
  BY <1>3, <1>4 DEF ShowSetting
<1>6. UnexpectedParse(text, lab, profile, k) <=> UnexpectedParse(other, lab, profile, k)
  BY <1>3 DEF UnexpectedParse
<1> QED
  BY <1>5, <1>6

\* A live line with the recommended value settles its key.
LEMMA OneParsed ==
  ASSUME NEW text \in Seq(Line), NEW k, NEW l, LastLines(text, Parsed(k)) = {l}, NEW lab,
         NEW profile, l.form = "live", l.val = Recommend(profile, k)
  PROVE  ~ShowSetting(text, lab, profile, k) /\ ~UnexpectedParse(text, lab, profile, k)
<1>1. {text[i] : i \in tuneParseResult(text, k)} = {l}
  BY ParsedLast DEF LastLines
<1>2. tuneParseResult(text, k) # {} /\ \A i \in tuneParseResult(text, k) : text[i] = l
  BY <1>1
<1>3. Settled(l, Recommend(profile, k))
  BY DEF Settled
<1> QED
  BY <1>2, <1>3 DEF ShowSetting, UnexpectedParse

-----------------------------------------------------------------------------
(* Where the last line of a kind is found again.                           *)

\* A line of the kind with none behind it is the last one.
LEMMA LastIs ==
  ASSUME NEW text, DOMAIN text \subseteq Int, NEW S, NEW i \in DOMAIN text,
         text[i] \in S, \A j \in DOMAIN text : j > i => text[j] \notin S
  PROVE  LastLines(text, S) = {text[i]}
<1>1. i \in LastOf(text, S)
  BY DEF LastOf
<1>2. ASSUME NEW j \in LastOf(text, S)
      PROVE  j = i
  <2>1. j \in DOMAIN text /\ text[j] \in S /\ ~(i > j)
    BY DEF LastOf
  <2>2. ~(j > i) /\ i \in Int /\ j \in Int
    BY <2>1
  <2> QED
    BY <2>1, <2>2
<1> QED
  BY <1>1, <1>2 DEF LastLines

\* A set of natural numbers that is not empty has a least one.
LEMMA LeastOf ==
  ASSUME NEW T \in SUBSET Nat, T # {}
  PROVE  \E b \in T : \A m \in T : b <= m
<1> DEFINE R == {ss \in Nat \X Nat : ss[1] < ss[2]}
<1>1. \A x, y \in Nat : x < y => <<x, y>> \in R
  OBVIOUS
<1>2. IsWellFoundedOn(R, Nat)
  BY NatLessThanWellFounded DEF OpToRel
<1> HIDE DEF R
<1>3. PICK b \in T : \A m \in T : <<m, b>> \notin R
  BY <1>2, WFMin
<1>4. \A m \in T : ~(m < b) /\ m \in Nat /\ b \in Nat
  BY <1>1, <1>3
<1>5. \A m \in T : b <= m
  BY <1>4
<1> QED
  BY <1>5

\* Where there is any line of the kind, there is a last one.
LEMMA SomeLast ==
  ASSUME NEW text \in Seq(Line), NEW S, NEW i \in DOMAIN text, text[i] \in S
  PROVE  LastOf(text, S) # {}
<1> DEFINE n == Len(text)
           back == {n - j : j \in {m \in DOMAIN text : text[m] \in S}}
<1>1. n \in Nat /\ DOMAIN text = 1..n
  OBVIOUS
<1>2. back \subseteq Nat /\ back # {}
  BY <1>1
<1>3. \A m \in DOMAIN text : text[m] \in S => n - m \in back
  OBVIOUS
<1>4. \A b \in back : \E j \in DOMAIN text : text[j] \in S /\ b = n - j
  OBVIOUS
<1> HIDE DEF back, n
<1>5. PICK b \in back : \A m \in back : b <= m
  BY <1>2, LeastOf
<1>6. PICK j \in DOMAIN text : text[j] \in S /\ b = n - j
  BY <1>4
<1>7. ASSUME NEW m \in DOMAIN text, m > j, text[m] \in S
      PROVE  FALSE
  <2>1. n - j <= n - m
    BY <1>3, <1>5, <1>6, <1>7
  <2>2. n \in Int /\ m \in Int /\ j \in Int
    BY <1>1
  <2> QED
    BY <1>7, <2>1, <2>2
<1> QED
  BY <1>6, <1>7 DEF LastOf

\* Two texts with the same lines of the kind in the same order agree on the last.
LEMMA LastThrough ==
  ASSUME NEW a, NEW b, DOMAIN a \subseteq Int, DOMAIN b \subseteq Int, NEW S,
         NEW from \in [DOMAIN b -> Int],
         \A i, j \in DOMAIN b : i < j => from[i] < from[j],
         \A i \in DOMAIN b : b[i] \in S => from[i] \in DOMAIN a /\ a[from[i]] = b[i],
         \A m \in DOMAIN a : a[m] \in S => \E i \in DOMAIN b : from[i] = m /\ b[i] \in S
  PROVE  LastLines(a, S) = LastLines(b, S)
<1>1. ASSUME NEW m \in LastOf(a, S)
      PROVE  \E i \in LastOf(b, S) : b[i] = a[m]
  <2>1. m \in DOMAIN a /\ a[m] \in S /\ \A j \in DOMAIN a : j > m => a[j] \notin S
    BY DEF LastOf
  <2>2. PICK i \in DOMAIN b : from[i] = m /\ b[i] \in S
    BY <2>1
  <2>3. ASSUME NEW j \in DOMAIN b, j > i, b[j] \in S
        PROVE  FALSE
    <3>1. from[j] \in DOMAIN a /\ a[from[j]] \in S
      BY <2>3
    <3>2. from[i] < from[j]
      BY <2>3
    <3>3. from[j] > m
      BY <2>2, <3>2
    <3> QED
      BY <2>1, <3>1, <3>3
  <2>4. i \in LastOf(b, S)
    BY <2>2, <2>3 DEF LastOf
  <2> QED
    BY <2>2, <2>4
<1>2. ASSUME NEW i \in LastOf(b, S)
      PROVE  \E m \in LastOf(a, S) : a[m] = b[i]
  <2>1. i \in DOMAIN b /\ b[i] \in S /\ \A j \in DOMAIN b : j > i => b[j] \notin S
    BY DEF LastOf
  <2>2. from[i] \in DOMAIN a /\ a[from[i]] = b[i]
    BY <2>1
  <2>3. ASSUME NEW m \in DOMAIN a, m > from[i], a[m] \in S
        PROVE  FALSE
    <3>1. PICK j \in DOMAIN b : from[j] = m /\ b[j] \in S
      BY <2>3
    <3>2. ~(j > i) /\ from[j] > from[i]
      BY <2>1, <2>3, <3>1
    <3>3. j < i => from[j] < from[i]
      BY <2>1
    <3>4. i \in Int /\ j \in Int /\ from[i] \in Int /\ from[j] \in Int
      BY <2>1
    <3> QED
      BY <3>2, <3>3, <3>4
  <2>4. from[i] \in LastOf(a, S)
    BY <2>1, <2>2, <2>3 DEF LastOf
  <2> QED
    BY <2>2, <2>4
<1>3. {a[m] : m \in LastOf(a, S)} = {b[i] : i \in LastOf(b, S)}
  BY <1>1, <1>2
<1> QED
  BY <1>3 DEF LastLines

\* The same, when one text is the other with lines changed or added.
LEMMA LastKept ==
  ASSUME NEW a, NEW b, DOMAIN a \subseteq Int, DOMAIN b \subseteq DOMAIN a, NEW S,
         \A i \in DOMAIN b : b[i] \in S => a[i] = b[i],
         \A i \in DOMAIN a : a[i] \in S => i \in DOMAIN b /\ b[i] \in S
  PROVE  LastLines(a, S) = LastLines(b, S)
<1> DEFINE from == [i \in DOMAIN b |-> i]
<1>1. from \in [DOMAIN b -> Int] /\ \A i \in DOMAIN b : from[i] = i
  OBVIOUS
<1> HIDE DEF from
<1>2. DOMAIN b \subseteq Int
  OBVIOUS
<1>3. \A i, j \in DOMAIN b : i < j => from[i] < from[j]
  BY <1>1
<1>4. \A i \in DOMAIN b : b[i] \in S => from[i] \in DOMAIN a /\ a[from[i]] = b[i]
  BY <1>1
<1>5. \A m \in DOMAIN a : a[m] \in S => \E i \in DOMAIN b : from[i] = m /\ b[i] \in S
  BY <1>1
<1> QED
  BY <1>1, <1>2, <1>3, <1>4, <1>5, LastThrough

-----------------------------------------------------------------------------
(* The working copy, the file written of it and the printed lines.         *)

LEMMA Domains ==
  ASSUME TypeOK, NEW K, EditedBy(lines, K)
  PROVE  /\ Len(read) \in Nat /\ DOMAIN read = 1..Len(read)
         /\ Len(lines) \in Nat /\ DOMAIN lines = 1..Len(lines)
         /\ Len(read) <= Len(lines) /\ DOMAIN read \subseteq DOMAIN lines
         /\ DOMAIN copy = DOMAIN lines /\ DOMAIN copy \subseteq Int
         /\ copy \in Seq(Line)
<1>1. /\ Len(read) \in Nat /\ DOMAIN read = 1..Len(read)
      /\ Len(lines) \in Nat /\ DOMAIN lines = 1..Len(lines)
      /\ Len(read) <= Len(lines)
  BY DEF TypeOK, EditedBy
<1>2. DOMAIN copy = DOMAIN lines
  BY DEF copy
<1>3. \A i \in DOMAIN lines : lines[i].content \in Line
  <2> SUFFICES ASSUME NEW i \in DOMAIN lines PROVE lines[i].content \in Line
    OBVIOUS
  <2>1. lines[i] \in WorkingLine
    BY DEF TypeOK
  <2> QED
    BY <2>1 DEF WorkingLine
<1>4. copy \in Seq(Line)
  BY <1>1, <1>3 DEF copy
<1> QED
  BY <1>1, <1>2, <1>4

\* A line of the copy is a stamp of this run, one of the file no edit was meant
\* for, or what an edit put where it found its line or behind the file.
LEMMA CopyLine ==
  ASSUME TypeOK, NEW K, EditedBy(lines, K), NEW i \in DOMAIN lines
  PROVE  \/ copy[i] \in OurStamps
         \/ i \in DOMAIN read /\ copy[i] = read[i] /\ \A h \in K : i \notin Found(h)
         \/ \E h \in K : i \in Found(h) /\ copy[i] = NewLine(h)
         \/ i > Len(read) /\ \E h \in K : Found(h) = {} /\ copy[i] = NewLine(h)
<1>1. copy[i] = lines[i].content
  BY DEF copy
<1>2. CASE i \in DOMAIN read
  <2>1. copy[i] = EditedLine(i, K) \/ copy[i] \in OurStamps
    BY <1>1, <1>2 DEF EditedBy
  <2>2. CASE \E h \in K : i \in Found(h)
    BY <1>2, <2>1, <2>2, EditedLineIs
  <2>3. CASE \A h \in K : i \notin Found(h)
    BY <1>2, <2>1, <2>3, EditedLineIs
  <2> QED
    BY <2>2, <2>3
<1>3. CASE i \notin DOMAIN read
  <2>1. i > Len(read)
    BY <1>3, Domains
  <2> QED
    BY <1>1, <2>1 DEF EditedBy
<1> QED
  BY <1>2, <1>3

\* A line of the file is in the copy as it was edited, unless that is a stamp.
LEMMA CopyRead ==
  ASSUME TypeOK, NEW K, EditedBy(lines, K), NEW i \in DOMAIN read,
         ~IsStamp(EditedLine(i, K))
  PROVE  i \in DOMAIN lines /\ copy[i] = EditedLine(i, K)
<1>1. i \in DOMAIN lines
  BY Domains
<1>2. lines[i].content = EditedLine(i, K)
  BY DEF EditedBy
<1> QED
  BY <1>1, <1>2 DEF copy

\* The copy agrees with the file on lines that are no stamps, if no edit finds
\* one of them or makes one.
LEMMA CopyLastKept ==
  ASSUME TypeOK, NEW K, EditedBy(lines, K), NEW S,
         \A l \in S : ~IsStamp(l),
         \A h \in K : NewLine(h) \notin S /\ \A i \in Found(h) : read[i] \notin S
  PROVE  LastLines(copy, S) = LastLines(read, S)
<1>1. /\ DOMAIN copy = DOMAIN lines /\ DOMAIN copy \subseteq Int
      /\ DOMAIN read \subseteq DOMAIN copy
  BY Domains
<1>2. ASSUME NEW i \in DOMAIN read, read[i] \in S
      PROVE  copy[i] = read[i]
  <2>1. EditedLine(i, K) = read[i]
    BY <1>2, EditedLineIs
  <2> QED
    BY <1>2, <2>1, CopyRead
<1>3. ASSUME NEW i \in DOMAIN copy, copy[i] \in S
      PROVE  i \in DOMAIN read /\ read[i] \in S
  <2>1. copy[i] \notin OurStamps
    BY <1>3, OurStampsAre
  <2> QED
    BY <1>1, <1>3, <2>1, CopyLine
<1> QED
  BY <1>1, <1>2, <1>3, LastKept

\* The edit of a key is the last of its kind in the copy, if nothing behind the
\* line that was found is, and nothing else that is written.
LEMMA CopyLastNew ==
  ASSUME TypeOK, NEW K \in SUBSET EditKeys, EditedBy(lines, K), NEW k \in K, NEW S,
         ~IsStamp(NewLine(k)),
         \A l \in OurStamps : l \notin S,
         \A h \in K : h # k => NewLine(h) \notin S,
         \A i \in Found(k), j \in DOMAIN read : j > i => read[j] \notin S
  PROVE  \E i \in DOMAIN lines :
           copy[i] = NewLine(k) /\ \A j \in DOMAIN lines : j > i => copy[j] \notin S
<1>1. /\ Len(read) \in Nat /\ DOMAIN read = 1..Len(read)
      /\ DOMAIN lines \subseteq Nat
  BY Domains
<1>2. ASSUME NEW i \in DOMAIN lines,
             Found(k) = {} => i > Len(read) /\ \A j \in DOMAIN lines : j > i => copy[j].key # k,
             Found(k) # {} => i \in Found(k),
             NEW j \in DOMAIN lines, j > i, copy[j] \in S
      PROVE  FALSE
  <2>1. copy[j] \notin OurStamps
    BY <1>2
  <2>2. ASSUME j \in DOMAIN read, copy[j] = read[j]
        PROVE  FALSE
    BY <1>1, <1>2, <2>2
  <2>3. ASSUME NEW h \in K, copy[j] = NewLine(h), j \in Found(h) \/ Found(h) = {}
        PROVE  FALSE
    <3>1. h = k
      BY <1>2, <2>3
    <3>2. CASE j \in Found(h)
      <4>1. i \in Found(k) /\ i # j
        BY <1>1, <1>2, <3>1, <3>2
      <4> QED
        BY <3>1, <3>2, <4>1, FoundOnce
    <3>3. CASE Found(h) = {}
      <4>1. NewLine(k).key = k
        BY <3>1, <3>3, NewLineIs
      <4> QED
        BY <1>2, <2>3, <3>1, <3>3, <4>1
    <3> QED
      BY <2>3, <3>2, <3>3
  <2> QED
    BY <2>1, <2>2, <2>3, CopyLine
<1>3. CASE Found(k) = {}
  <2>1. PICK i \in DOMAIN lines :
          /\ i > Len(read) /\ lines[i].content = NewLine(k)
          /\ \A j \in DOMAIN lines : j > i => lines[j].content.key # k
    BY <1>3 DEF EditedBy
  <2>2. copy[i] = NewLine(k) /\ \A j \in DOMAIN lines : j > i => copy[j].key # k
    BY <2>1 DEF copy
  <2> QED
    BY <1>2, <1>3, <2>1, <2>2
<1>4. CASE Found(k) # {}
  <2>1. PICK i \in Found(k) : TRUE
    BY <1>4
  <2>2. i \in DOMAIN read /\ EditedLine(i, K) = NewLine(k)
    BY FoundLine, EditedLineIs
  <2>3. i \in DOMAIN lines /\ copy[i] = NewLine(k)
    BY <2>2, CopyRead
  <2> QED
    BY <1>2, <1>4, <2>1, <2>3
<1> QED
  BY <1>3, <1>4

\* The file written has the copy's last line of a kind: only stamps are left out.
LEMMA OutputLast ==
  ASSUME TypeOK, NEW K, EditedBy(lines, K), NEW content, WrittenFrom(content, Len(lines)),
         DOMAIN content \subseteq Int, NEW S, \A l \in S : ~IsStamp(l)
  PROVE  LastLines(content, S) = LastLines(copy, S)
<1>1. DOMAIN copy = DOMAIN lines /\ DOMAIN lines = 1..Len(lines) /\ DOMAIN copy \subseteq Int
  BY Domains
<1>2. PICK from \in [DOMAIN content -> 1..Len(lines)] :
        /\ \A i, j \in DOMAIN content : i < j => from[i] < from[j]
        /\ \A i \in DOMAIN content :
             content[i] = lines[from[i]].content /\ ~lines[from[i]].remove
        /\ \A m \in 1..Len(lines) : lines[m].remove \/ \E i \in DOMAIN content : from[i] = m
  BY DEF WrittenFrom
<1>3. \A i \in DOMAIN content : from[i] \in DOMAIN copy /\ copy[from[i]] = content[i]
  BY <1>1, <1>2 DEF copy
<1>4. from \in [DOMAIN content -> Int]
  BY <1>1
<1>5. \A i \in DOMAIN content : content[i] \in S => from[i] \in DOMAIN copy /\ copy[from[i]] = content[i]
  BY <1>3
<1>6. ASSUME NEW m \in DOMAIN copy, copy[m] \in S
      PROVE  \E i \in DOMAIN content : from[i] = m /\ content[i] \in S
  <2>1. copy[m] = lines[m].content /\ m \in 1..Len(lines)
    BY <1>1 DEF copy
  <2>2. ~lines[m].remove
    BY <1>1, <1>6, <2>1 DEF EditedBy
  <2>3. PICK i \in DOMAIN content : from[i] = m
    BY <1>2, <2>1, <2>2
  <2> QED
    BY <1>3, <1>6, <2>3
<1>7. \A i, j \in DOMAIN content : i < j => from[i] < from[j]
  BY <1>2
<1>8. DOMAIN copy \subseteq Int
  BY <1>1
<1>9. LastLines(copy, S) = LastLines(content, S)
  BY <1>4, <1>5, <1>6, <1>7, <1>8, LastThrough
<1> QED
  BY <1>9

\* A line of the copy that is no stamp is written, and in front of what it was
\* in front of.
LEMMA OutputOne ==
  ASSUME TypeOK, NEW K, EditedBy(lines, K), NEW content, WrittenFrom(content, Len(lines)),
         DOMAIN content \subseteq Int, NEW S, NEW m \in DOMAIN lines,
         copy[m] \in S, ~IsStamp(copy[m]), \A j \in DOMAIN lines : j > m => copy[j] \notin S
  PROVE  LastLines(content, S) = {copy[m]}
<1>1. DOMAIN copy = DOMAIN lines /\ DOMAIN lines = 1..Len(lines) /\ DOMAIN copy \subseteq Int
  BY Domains
<1>2. PICK from \in [DOMAIN content -> 1..Len(lines)] :
        /\ \A i, j \in DOMAIN content : i < j => from[i] < from[j]
        /\ \A i \in DOMAIN content :
             content[i] = lines[from[i]].content /\ ~lines[from[i]].remove
        /\ \A n \in 1..Len(lines) : lines[n].remove \/ \E i \in DOMAIN content : from[i] = n
  BY DEF WrittenFrom
<1>3. \A i \in DOMAIN content : from[i] \in DOMAIN lines /\ copy[from[i]] = content[i]
  BY <1>1, <1>2 DEF copy
<1>4. copy[m] = lines[m].content
  BY DEF copy
<1>5. ~lines[m].remove
  BY <1>4 DEF EditedBy
<1>6. PICK i \in DOMAIN content : from[i] = m
  BY <1>1, <1>2, <1>5
<1>7. content[i] = copy[m]
  BY <1>3, <1>6
<1>8. ASSUME NEW j \in DOMAIN content, j > i
      PROVE  content[j] \notin S
  <2>1. from[i] < from[j] /\ from[j] \in DOMAIN lines
    BY <1>2, <1>3, <1>8
  <2>2. from[j] > m
    BY <1>6, <2>1
  <2> QED
    BY <1>3, <2>1, <2>2
<1> QED
  BY <1>6, <1>7, <1>8, LastIs

\* Lines of edited keys and stamps, appended to the file, say nothing about lines
\* of a kind that none of them is.
LEMMA AppendLastKept ==
  ASSUME TypeOK, NEW K, NEW text \in Seq(Line), PrintedFor(text, K), NEW S,
         \A l \in S : l.key \notin ourParams, \A h \in K : PrintedLine(h) \notin S
  PROVE  LastLines(read \o text, S) = LastLines(read, S)
<1> DEFINE a == read \o text
<1>1. /\ read \in Seq(Line) /\ Len(read) \in Nat /\ DOMAIN read = 1..Len(read)
      /\ Len(text) \in Nat /\ DOMAIN text = 1..Len(text)
  BY DEF TypeOK
<1>2. /\ DOMAIN a = 1..(Len(read) + Len(text))
      /\ \A i \in DOMAIN a : a[i] = IF i <= Len(read) THEN read[i] ELSE text[i - Len(read)]
  BY <1>1
<1> HIDE DEF a
<1>3. DOMAIN a \subseteq Int /\ DOMAIN read \subseteq DOMAIN a
  BY <1>1, <1>2
<1>4. \A i \in DOMAIN read : a[i] = read[i]
  BY <1>1, <1>2
<1>5. ASSUME NEW i \in DOMAIN a, a[i] \in S
      PROVE  i \in DOMAIN read /\ read[i] \in S
  <2>1. CASE i \in DOMAIN read
    BY <1>4, <1>5, <2>1
  <2>2. CASE i \notin DOMAIN read
    <3>1. i - Len(read) \in DOMAIN text /\ a[i] = text[i - Len(read)]
      BY <1>1, <1>2, <2>2
    <3>2. a[i].key \in ourParams \/ \E h \in K : a[i] = PrintedLine(h)
      BY <3>1 DEF PrintedFor
    <3> QED
      BY <1>5, <3>2
  <2> QED
    BY <2>1, <2>2
<1>6. \A i \in DOMAIN read : read[i] \in S => a[i] = read[i]
  BY <1>4
<1>7. LastLines(a, S) = LastLines(read, S)
  BY ONLY <1>3, <1>5, <1>6, LastKept
<1> QED
  BY <1>7 DEF a

\* For an edited key they end with the line that was printed for it.
LEMMA AppendLastNew ==
  ASSUME TypeOK, NEW K, NEW text \in Seq(Line), PrintedFor(text, K),
         NEW k \in K, NEW S, PrintedLine(k) \in S, \A l \in S : l.key = k
  PROVE  LastLines(read \o text, S) = {PrintedLine(k)}
<1> DEFINE a == read \o text
<1>1. /\ read \in Seq(Line) /\ Len(read) \in Nat /\ DOMAIN read = 1..Len(read)
      /\ Len(text) \in Nat /\ DOMAIN text = 1..Len(text)
  BY DEF TypeOK
<1>2. /\ DOMAIN a = 1..(Len(read) + Len(text))
      /\ \A i \in DOMAIN a : a[i] = IF i <= Len(read) THEN read[i] ELSE text[i - Len(read)]
  BY <1>1
<1> HIDE DEF a
<1>3. PICK i \in DOMAIN text :
        /\ text[i] = PrintedLine(k)
        /\ \A j \in DOMAIN text : j > i => text[j].key # k
  BY DEF PrintedFor
<1>4. /\ Len(read) + i \in DOMAIN a /\ a[Len(read) + i] = text[i]
  <2>1. i \in 1..Len(text)
    BY <1>1
  <2>2. Len(read) + i \in 1..(Len(read) + Len(text)) /\ ~(Len(read) + i <= Len(read))
        /\ (Len(read) + i) - Len(read) = i
    BY <1>1, <2>1
  <2> QED
    BY <1>2, <2>2
<1>5. ASSUME NEW j \in DOMAIN a, j > Len(read) + i
      PROVE  a[j] \notin S
  <2>1. i \in 1..Len(text) /\ j \in 1..(Len(read) + Len(text))
    BY <1>1, <1>2
  <2>2. j - Len(read) \in DOMAIN text /\ j - Len(read) > i /\ ~(j <= Len(read))
    BY <1>1, <1>5, <2>1
  <2>3. a[j] = text[j - Len(read)] /\ text[j - Len(read)].key # k
    BY <1>2, <1>3, <2>2
  <2> QED
    BY <2>3
<1>6. a[Len(read) + i] \in S
  BY <1>3, <1>4
<1>7. DOMAIN a \subseteq Int
  BY <1>2
<1>8. LastLines(a, S) = {a[Len(read) + i]}
  BY <1>4, <1>5, <1>6, <1>7, LastIs
<1> QED
  BY <1>3, <1>4, <1>8 DEF a

-----------------------------------------------------------------------------
(* The line of the library list.                                           *)

\* The line that was found for the list.
LEMMA LibLineIs ==
  ASSUME TypeOK, NEW i \in libFound
  PROVE  /\ i \in DOMAIN read /\ read[i] \in Line
         /\ parseLineForSharedLibResult(read[i])
         /\ newLibLine = updateSharedLibLine(read[i])
         /\ \A j \in libFound : j = i
<1>1. Found(SharedLib) = libFound
  BY DEF Found
<1>2. i \in DOMAIN read /\ parseLineForSharedLibResult(read[i])
  BY <1>1, FoundLine
<1>3. read[i] \in Line
  BY <1>2 DEF TypeOK
<1>4. newLibLine = updateSharedLibLine(read[i])
  BY NewLibLineIs
<1>5. \A j \in libFound : j = i
  BY <1>1, FoundOnce
<1> QED
  BY <1>2, <1>3, <1>4, <1>5

\* Updating a line of the list itself, live or with one run of # before it,
\* makes it a live one that needs no other update.
LEMMA LivenedLine ==
  ASSUME NEW l \in Line, l.key = SharedLib, l.form \in {"live", "commented"}
  PROVE  /\ updateSharedLibLine(l).key = SharedLib
         /\ updateSharedLibLine(l).form = "live"
         /\ extName \in updateSharedLibLine(l).libs \/ hasTimescale(l)
         /\ updateSharedLibLine(updateSharedLibLine(l)) = updateSharedLibLine(l)
<1> DEFINE u == updateSharedLibLine(l)
           x == IF hasTimescale(l) THEN l.libs ELSE l.libs \cup {extName}
<1>1. parseLineForSharedLibResult(l)
  BY DEF parseLineForSharedLibResult
<1>2. u \in Line /\ u.key = SharedLib
  BY <1>1, UpdatedLine
<1>3. u.form = "live"
  <2>1. u.form = uncommented(l.form)
    BY <1>1, UpdatedLine
  <2> QED
    BY <2>1 DEF uncommented
<1>4. u.libs = x
  <2> DEFINE w == withoutCommentGroup(l)
  <2>1. w \in Line /\ w.libs = l.libs
    BY WithoutCommentGroupType
  <2>2. u = [w EXCEPT !.libs = x]
    BY <2>1 DEF updateSharedLibLine
  <2> HIDE DEF w, u, x
  <2> QED
    BY <2>1, <2>2 DEF Line
<1>5. hasTimescale(u) /\ (extName \in u.libs \/ hasTimescale(l))
  BY <1>4 DEF hasTimescale, NamesContainingExtName
<1>6. ASSUME NEW m \in Line, m.key = SharedLib, m.form = "live", hasTimescale(m)
      PROVE  updateSharedLibLine(m) = m
  <2>1. withoutCommentGroup(m) = [m EXCEPT !.form = "live"]
    BY <1>6 DEF withoutCommentGroup, uncommented
  <2>2. withoutCommentGroup(m) = m
    BY <1>6, <2>1 DEF Line
  <2>3. updateSharedLibLine(m) = [m EXCEPT !.libs = m.libs]
    BY <1>6, <2>2 DEF updateSharedLibLine
  <2> QED
    BY <2>3 DEF Line
<1> HIDE DEF u
<1>7. updateSharedLibLine(u) = u
  BY <1>2, <1>3, <1>5, <1>6
<1> QED
  BY <1>2, <1>3, <1>5, <1>7 DEF u

LEMMA NewLibLive ==
  ASSUME TypeOK, Liveable
  PROVE  /\ newLibLine \in Line
         /\ newLibLine.key = SharedLib
         /\ newLibLine.form = "live"
         /\ extName \in newLibLine.libs \/ \E i \in libFound : hasTimescale(read[i])
         /\ \A i \in libFound : read[i].libs \subseteq newLibLine.libs
         /\ updateSharedLibLine(newLibLine) = newLibLine
<1>1. newLibLine \in Line
  BY NewLibType DEF TypeOK
<1>2. CASE libFound = {}
  <2>1. newLibLine = plainSharedLibLine
    BY <1>2, NewLibLineIs
  <2>2. /\ plainSharedLibLine.key = SharedLib /\ plainSharedLibLine.form = "live"
        /\ plainSharedLibLine.libs = {extName}
    BY DEF plainSharedLibLine
  <2>3. hasTimescale(plainSharedLibLine)
    BY <2>2 DEF hasTimescale, NamesContainingExtName
  <2>4. withoutCommentGroup(newLibLine) = [newLibLine EXCEPT !.form = "live"]
    BY <2>1, <2>2 DEF withoutCommentGroup, uncommented
  <2>5. withoutCommentGroup(newLibLine) = newLibLine
    BY <1>1, <2>1, <2>2, <2>4 DEF Line
  <2>6. updateSharedLibLine(newLibLine) = [newLibLine EXCEPT !.libs = newLibLine.libs]
    BY <2>1, <2>3, <2>5 DEF updateSharedLibLine
  <2>7. updateSharedLibLine(newLibLine) = newLibLine
    BY <1>1, <2>6 DEF Line
  <2> QED
    BY <1>1, <1>2, <2>1, <2>2, <2>7
<1>3. CASE libFound # {}
  <2>1. PICK i \in libFound : TRUE
    BY <1>3
  <2>2. i \in Found(SharedLib) /\ \A j \in libFound : j = i
    BY <2>1, FoundOnce DEF Found
  <2>3. /\ read[i] \in Line /\ parseLineForSharedLibResult(read[i])
        /\ newLibLine = updateSharedLibLine(read[i])
    BY <2>1, LibLineIs
  <2>4. read[i].key = SharedLib /\ read[i].form \in {"live", "commented"}
    BY <2>1 DEF Liveable, libFound
  <2>5. read[i].libs \subseteq newLibLine.libs
    BY <2>3, UpdatedLine
  <2> QED
    BY <1>1, <2>1, <2>2, <2>3, <2>4, <2>5, LivenedLine
<1> QED
  BY <1>2, <1>3

\* Where only the comment of a line mentions the list, and not behind a #, the
\* update adds to that list and changes nothing else.
LEMMA MentionLine ==
  ASSUME NEW l \in Line, l.key # SharedLib, l.note = mention
  PROVE  /\ \/ updateSharedLibLine(l) = l
            \/ updateSharedLibLine(l) = [l EXCEPT !.libs = @ \cup {extName}]
         /\ updateSharedLibLine(l).key = l.key
         /\ updateSharedLibLine(l).form = l.form
<1>1. withoutCommentGroup(l) = l
  BY DEF withoutCommentGroup, mention, mentionSameHash
<1>2. \/ updateSharedLibLine(l) = [l EXCEPT !.libs = l.libs]
      \/ updateSharedLibLine(l) = [l EXCEPT !.libs = @ \cup {extName}]
  BY <1>1 DEF updateSharedLibLine
<1> QED
  BY <1>2 DEF Line

-----------------------------------------------------------------------------
(* Lines that an edit of another key finds or writes.                      *)

\* The comment a setting keeps is not one that mentions the list.
LEMMA PlainNote ==
  ASSUME TypeOK, NEW k, k # SharedLib
  PROVE  NoteOf(k) \notin Mentions
<1>1. CASE tuneParseResult(read, k) = {}
  BY <1>1 DEF NoteOf, Mentions, mention, mentionHash, mentionSameHash
<1>2. CASE tuneParseResult(read, k) # {}
  <2>1. PICK j \in tuneParseResult(read, k) : NoteOf(k) = read[j].note
    BY <1>2 DEF NoteOf
  <2>2. parsedFor(read[j], k)
    BY <2>1, ParsedLast DEF tuneParseResult, LastMatch
  <2>3. read[j].key = k /\ ~mentionsLib(read[j])
    BY <2>2, ParsedApart DEF parseLineForSharedLibResult
  <2> QED
    BY <2>1, <2>3 DEF mentionsLib
<1> QED
  BY <1>1, <1>2

\* A setting that was edited is parsed again, and not taken for the list.
LEMMA NewParsed ==
  ASSUME TypeOK, NEW k \in EditKeys, k # SharedLib
  PROVE  NewLine(k) \in Parsed(k) /\ NewLine(k) \notin Listed
<1>1. NewLine(k) \in Line /\ NewLine(k).key = k /\ NewLine(k).form = "live"
  BY NewLineIs
<1>2. NewLine(k).note = NoteOf(k)
  <2>1. NewLine(k) = SettingLine(k, Recommend(flags.profile, k), NoteOf(k))
    BY DEF NewLine
  <2> QED
    BY <2>1, SettingLineIs
<1>3. ~parseLineForSharedLibResult(NewLine(k))
  BY <1>1, <1>2, PlainNote DEF parseLineForSharedLibResult, mentionsLib
<1> QED
  BY <1>1, <1>3 DEF Parsed, Listed, parsedFor, parseWithRegex

\* The line found for a key, and the one written for it, are not parsed for another.
LEMMA OthersParsed ==
  ASSUME TypeOK, NEW k, k # SharedLib, NEW h \in EditKeys, h # k
  PROVE  NewLine(h) \notin Parsed(k) /\ \A i \in Found(h) : read[i] \notin Parsed(k)
<1>1. CASE h # SharedLib
  <2>1. NewLine(h).key = h /\ \A i \in Found(h) : read[i].key = h
    BY <1>1, NewLineIs, FoundLine
  <2> QED
    BY <2>1 DEF Parsed, parsedFor, parseWithRegex
<1>2. CASE h = SharedLib
  <2>1. \A i \in Found(h) : parseLineForSharedLibResult(read[i])
    BY <1>2, FoundLine
  <2>2. CASE Found(h) = {}
    <3>1. NewLine(h).key = SharedLib
      BY <1>2, <2>2, NewLineIs
    <3> QED
      BY <2>2, <3>1 DEF Parsed, parsedFor, parseWithRegex
  <2>3. CASE Found(h) # {}
    <3>1. PICK i \in Found(h) : TRUE
      BY <2>3
    <3>2. /\ read[i] \in Line /\ parseLineForSharedLibResult(read[i])
          /\ NewLine(h) = updateSharedLibLine(read[i])
      BY <1>2, <3>1, LibLineIs DEF Found, NewLine
    <3>3. NewLine(h).key = SharedLib \/ mentionsLib(NewLine(h))
      BY <3>2, UpdatedLine DEF mentionsLib
    <3>4. NewLine(h).key = SharedLib \/ parseLineForSharedLibResult(NewLine(h))
      BY <3>3 DEF parseLineForSharedLibResult
    <3> QED
      BY <2>1, <3>4 DEF Parsed, parsedFor, parseWithRegex
  <2> QED
    BY <2>2, <2>3
<1> QED
  BY <1>1, <1>2

\* Nor are they of another key, if no line of that key mentions the list.
LEMMA OthersKey ==
  ASSUME TypeOK, NEW k, ~HasUnseen(read, k), NEW h \in EditKeys, h # k
  PROVE  NewLine(h).key # k /\ \A i \in Found(h) : read[i].key # k
<1>1. CASE h # SharedLib
  BY <1>1, NewLineIs, FoundLine
<1>2. CASE h = SharedLib
  <2>1. ASSUME NEW i \in Found(h)
        PROVE  read[i].key # k /\ NewLine(h).key = read[i].key
    <3>1. /\ i \in DOMAIN read /\ read[i] \in Line /\ parseLineForSharedLibResult(read[i])
          /\ NewLine(h) = updateSharedLibLine(read[i])
      BY <1>2, <2>1, LibLineIs DEF Found, NewLine
    <3>2. read[i].key = SharedLib \/ mentionsLib(read[i])
      BY <3>1 DEF parseLineForSharedLibResult
    <3>3. read[i].key # k
      BY <1>2, <3>1, <3>2 DEF HasUnseen, Unseen
    <3> QED
      BY <3>1, <3>3, UpdatedLine
  <2>2. Found(h) = {} => NewLine(h).key = SharedLib
    BY <1>2, NewLineIs
  <2> QED
    BY <1>2, <2>1, <2>2
<1> QED
  BY <1>1, <1>2

\* Behind the line found there is none that PostgreSQL honours instead.
LEMMA HonouredBehind ==
  ASSUME NEW k, ~HasUnseen(read, k), NEW i \in Found(k), NEW j \in DOMAIN read, j > i
  PROVE  read[j] \notin Honoured(k)
<1> SUFFICES ASSUME read[j] \in Honoured(k) PROVE FALSE
  OBVIOUS
<1>1. read[j].key = k /\ read[j].form \in {"live", "loose"} /\ ~Unseen(read[j], k)
  BY DEF Honoured, HasUnseen
<1>2. read[j].form = "live" /\ ~mentionsLib(read[j])
  BY <1>1 DEF Unseen
<1>3. Tried(read[j], k)
  BY <1>1, <1>2 DEF Tried, parsedFor, parseWithRegex, parseLineForSharedLibResult
<1> QED
  BY <1>3, BehindFound

LEMMA ParsedBehind ==
  ASSUME NEW k, k # SharedLib, NEW i \in Found(k), NEW j \in DOMAIN read, j > i
  PROVE  read[j] \notin Parsed(k)
BY BehindFound DEF Parsed, Tried

\* No line of a key the program edits is a stamp.
LEMMA KeysNoStamps ==
  ASSUME NEW k \in EditKeys, NEW l, l.key = k
  PROVE  ~IsStamp(l) /\ l \notin OurStamps
BY KeysApart, StampIs, OurStampsAre DEF parseWithRegex

LEMMA KindsNoStamps ==
  ASSUME NEW k \in EditKeys
  PROVE  /\ \A l \in Parsed(k) \cup Honoured(k) : l.key = k /\ ~IsStamp(l)
         /\ \A l \in OurStamps : l \notin Parsed(k) /\ l \notin Honoured(k) /\ l \notin Listed
<1>1. \A l \in Parsed(k) \cup Honoured(k) : l.key = k
  BY DEF Parsed, Honoured, parsedFor, parseWithRegex
<1>2. ASSUME NEW l \in OurStamps
      PROVE  l \notin Listed
  <2>1. l.note = "" /\ l.key # SharedLib
    BY OurStampsAre, KeysApart
  <2>2. l.note \notin Mentions
    BY <2>1 DEF Mentions, mention, mentionHash, mentionSameHash
  <2> QED
    BY <2>1, <2>2 DEF Listed, parseLineForSharedLibResult, mentionsLib
<1> QED
  BY <1>1, <1>2, KeysNoStamps
-----------------------------------------------------------------------------
(* The state at the end of a run.                                          *)

\* Whatever the run did: the copy is the file with the accepted keys edited.
LEMMA AtEnd ==
  ASSUME TypeOK, EditInv, Finished
  PROVE  /\ accepted \in SUBSET EditKeys
         /\ EditedBy(lines, accepted)
         /\ flags.quiet => PrintedFor(printed, accepted)
BY DEF EditInv, Edited, Printed, EditKeys

LEMMA AtTunedOk ==
  ASSUME TypeOK, EditInv, TunedOk
  PROVE  /\ Finished
         /\ WrittenFrom(output, Len(lines))
         /\ output \in Seq(Line) /\ DOMAIN output \subseteq Int
<1>1. Finished
  BY DEF TunedOk, Finished
<1>2. WrittenFrom(output, Len(lines))
  BY DEF EditInv, Written
<1>3. outPath \in {"conf", "out"}
  BY DEF outPath
<1>4. output \in Seq(Line)
  BY <1>3 DEF TypeOK, output
<1> QED
  BY <1>1, <1>2, <1>4

\* Lines of a kind that no accepted change finds or writes read in the output as
\* they did in the file.
LEMMA OutputKept ==
  ASSUME TypeOK, EditInv, TunedOk, NEW S, \A l \in S : ~IsStamp(l),
         \A h \in accepted : NewLine(h) \notin S /\ \A i \in Found(h) : read[i] \notin S
  PROVE  LastLines(output, S) = LastLines(read, S)
<1>1. accepted \in SUBSET EditKeys /\ EditedBy(lines, accepted)
  BY AtTunedOk, AtEnd
<1>2. LastLines(copy, S) = LastLines(read, S)
  BY <1>1, CopyLastKept
<1>3. LastLines(output, S) = LastLines(copy, S)
  BY <1>1, AtTunedOk, OutputLast
<1> QED
  BY <1>2, <1>3

\* An accepted change is the last line of its kind in the output, if the file
\* has none behind the line that was found and no other change writes one.
LEMMA OutputNew ==
  ASSUME TypeOK, EditInv, TunedOk, NEW K \in SUBSET EditKeys, EditedBy(lines, K),
         NEW k \in K, NEW S, NewLine(k) \in S, NewLine(k).key = k,
         \A l \in OurStamps : l \notin S,
         \A h \in K : h # k => NewLine(h) \notin S,
         \A i \in Found(k), j \in DOMAIN read : j > i => read[j] \notin S
  PROVE  LastLines(output, S) = {NewLine(k)}
<1>1. ~IsStamp(NewLine(k))
  BY KeysNoStamps
<1>2. PICK m \in DOMAIN lines :
        copy[m] = NewLine(k) /\ \A j \in DOMAIN lines : j > m => copy[j] \notin S
  BY <1>1, CopyLastNew
<1>3. WrittenFrom(output, Len(lines)) /\ DOMAIN output \subseteq Int
  BY AtTunedOk
<1>4. LastLines(output, S) = {copy[m]}
  BY <1>1, <1>2, <1>3, OutputOne
<1> QED
  BY <1>2, <1>4

\* A library line that was left as it is counts as edited.
LEMMA LibEditedToo ==
  ASSUME TypeOK, EditInv, TunedOk
  PROVE  EditedBy(lines, accepted \cup {SharedLib})
<1>1. accepted \in SUBSET EditKeys /\ EditedBy(lines, accepted)
  BY AtTunedOk, AtEnd
<1>2. CASE SharedLib \in accepted
  <2>1. accepted \cup {SharedLib} = accepted
    BY <1>2
  <2> QED
    BY <1>1, <2>1
<1>3. CASE SharedLib \notin accepted
  <2> DEFINE K == accepted \cup {SharedLib}
  <2>1. libFound # {} /\ \A i \in libFound : updateSharedLibLine(read[i]) = read[i]
    BY <1>3, AtTunedOk DEF EditInv, LibDecided
  <2>2. Found(SharedLib) = libFound
    BY DEF Found
  <2>3. ASSUME NEW i \in DOMAIN read
        PROVE  EditedLine(i, K) = EditedLine(i, accepted)
    <3>1. CASE i \in libFound
      <4>1. newLibLine = read[i]
        BY <2>1, <3>1, LibLineIs
      <4>2. EditedLine(i, K) = NewLine(SharedLib)
        BY <2>2, <3>1, EditedLineIs
      <4>3. \A h \in accepted : i \notin Found(h)
        BY <1>3, <2>2, <3>1, FoundApart
      <4>4. EditedLine(i, accepted) = read[i]
        BY <4>3, EditedLineIs
      <4> QED
        BY <4>1, <4>2, <4>4 DEF NewLine
    <3>2. CASE i \notin libFound /\ \E h \in accepted : i \in Found(h)
      <4>1. PICK h \in accepted : i \in Found(h)
        BY <3>2
      <4>2. h \in K
        BY <4>1
      <4> QED
        BY <4>1, <4>2, EditedLineIs
    <3>3. CASE i \notin libFound /\ \A h \in accepted : i \notin Found(h)
      <4>1. \A h \in K : i \notin Found(h)
        BY <2>2, <3>3
      <4> QED
        BY <3>3, <4>1, EditedLineIs
    <3> QED
      BY <3>1, <3>2, <3>3
  <2>4. accepted \subseteq K /\ \A h \in K : Found(h) = {} => h \in accepted
    BY <2>1, <2>2
  <2> HIDE DEF K
  <2>5. EditedBy(lines, K)
    BY <1>1, <2>3, <2>4 DEF EditedBy
  <2> QED
    BY <2>5 DEF K
<1> QED
  BY <1>2, <1>3

-----------------------------------------------------------------------------
(* The properties.                                                         *)

\* However many stamps the file held, the output has one of each kind, of this
\* run.
LEMMA StampedAtEnd == TypeOK /\ EditInv => StampedOnce
<1> SUFFICES ASSUME TypeOK, EditInv, TunedOk, NEW p \in ourParams
             PROVE  \E i \in DOMAIN output :
                      /\ output[i] = ourParamString(p, now)
                      /\ \A j \in DOMAIN output : parseWithRegex(output[j], p) => j = i
  BY DEF StampedOnce
<1>1. PICK m \in DOMAIN lines :
        /\ lines[m] = configLine(ourParamString(p, now))
        /\ \A j \in DOMAIN lines :
             parseWithRegex(lines[j].content, p) /\ ~lines[j].remove => j = m
  BY AtTunedOk DEF EditInv, Stamped
<1>2. PICK from \in [DOMAIN output -> 1..Len(lines)] :
        /\ \A i, j \in DOMAIN output : i < j => from[i] < from[j]
        /\ \A i \in DOMAIN output :
             output[i] = lines[from[i]].content /\ ~lines[from[i]].remove
        /\ \A n \in 1..Len(lines) : lines[n].remove \/ \E i \in DOMAIN output : from[i] = n
  BY AtTunedOk DEF WrittenFrom
<1>3. DOMAIN lines = 1..Len(lines) /\ DOMAIN output \subseteq Int
  BY AtTunedOk DEF TypeOK
<1>4. lines[m].content = ourParamString(p, now) /\ lines[m].remove = FALSE
  BY <1>1 DEF configLine
<1>5. PICK i \in DOMAIN output : from[i] = m
  BY <1>2, <1>3, <1>4
<1>6. output[i] = ourParamString(p, now)
  BY <1>2, <1>4, <1>5
<1>7. ASSUME NEW j \in DOMAIN output, parseWithRegex(output[j], p)
      PROVE  j = i
  <2>1. from[j] = m
    <3>1. from[j] \in DOMAIN lines /\ output[j] = lines[from[j]].content /\ ~lines[from[j]].remove
      BY <1>2, <1>3
    <3> QED
      BY <1>1, <1>7, <3>1
  <2>2. ~(from[i] < from[j]) /\ ~(from[j] < from[i])
    BY <1>3, <1>5, <2>1
  <2>3. ~(i < j) /\ ~(j < i) /\ i \in Int /\ j \in Int
    BY <1>2, <1>3, <2>2
  <2> QED
    BY <2>3
<1> QED
  BY <1>6, <1>7

\* However many stamps a file had, the file a run writes has one of each kind,
\* and it is this run's (processOurParams, removeDuplicatesProcessor).
THEOREM StampsOnce == Spec => []StampedOnce
<1>1. TypeInv /\ Modes /\ EditInv => StampedOnce
  BY StampedAtEnd DEF TypeInv
<1> QED
  BY <1>1, EditInductive, PTL
\* An accepted setting is the last of its key that PostgreSQL honours.
LEMMA HonouredNew ==
  ASSUME TypeOK, EditInv, TunedOk, NEW k \in accepted, ~HasUnseen(read, k),
         NewLine(k).key = k, NewLine(k).form = "live"
  PROVE  LastLines(output, Honoured(k)) = {NewLine(k)}
<1>1. accepted \in SUBSET EditKeys /\ EditedBy(lines, accepted) /\ k \in EditKeys
  BY AtTunedOk, AtEnd
<1>2. NewLine(k) \in Honoured(k)
  BY <1>1, NewLineIs DEF Honoured
<1>3. \A h \in accepted : h # k => NewLine(h) \notin Honoured(k)
  BY <1>1, OthersKey DEF Honoured
<1>4. \A l \in OurStamps : l \notin Honoured(k)
  BY <1>1, KindsNoStamps
<1>5. \A i \in Found(k), j \in DOMAIN read : j > i => read[j] \notin Honoured(k)
  BY HonouredBehind
<1> HIDE DEF Honoured
<1> QED
  BY <1>1, <1>2, <1>3, <1>4, <1>5, OutputNew

\* What PostgreSQL loaded before is in the new list, unless the line found for
\* it was a commented one.
LEMMA LoadedBefore ==
  ASSUME TypeOK, Liveable, ~HasUnseen(read, SharedLib)
  PROVE  \/ EffectiveLibs(read) \subseteq newLibLine.libs
         \/ \E i \in libFound : read[i].form = "commented"
<1>0. read \in Seq(Line)
  BY DEF TypeOK
<1>1. CASE libFound = {}
  <2>1. ASSUME NEW i \in Effective(read, SharedLib)
        PROVE  FALSE
    <3>1. i \in DOMAIN read /\ read[i].key = SharedLib /\ read[i].form \in {"live", "loose"}
      BY DEF Effective, LastMatch
    <3>2. ~Unseen(read[i], SharedLib)
      BY <3>1 DEF HasUnseen
    <3>3. read[i] \in Line /\ parseLineForSharedLibResult(read[i])
      BY <1>0, <3>1, <3>2 DEF Unseen, parseLineForSharedLibResult
    <3>4. LastOf(read, Listed) # {}
      BY <1>0, <3>1, <3>3, SomeLast DEF Listed
    <3> QED
      BY <1>0, <1>1, <3>4, ListedLast DEF libFound
  <2>2. EffectiveLibs(read) = {}
    BY <2>1 DEF EffectiveLibs
  <2> QED
    BY <2>2
<1>2. CASE libFound # {}
  <2>1. PICK i \in libFound : TRUE
    BY <1>2
  <2>2. /\ i \in DOMAIN read /\ read[i] \in Line /\ i \in Found(SharedLib)
        /\ read[i].key = SharedLib /\ read[i].form \in {"live", "commented"}
    BY <2>1, LibLineIs DEF Liveable, libFound, Found
  <2>3. CASE read[i].form = "live"
    <3>1. read[i] \in Honoured(SharedLib)
      BY <2>2, <2>3 DEF Honoured
    <3>2. \A j \in DOMAIN read : j > i => read[j] \notin Honoured(SharedLib)
      BY <2>2, HonouredBehind
    <3>3. LastLines(read, Honoured(SharedLib)) = {read[i]}
      BY <1>0, <2>2, <3>1, <3>2, LastIs
    <3>4. EffectiveLibs(read) = read[i].libs
      BY <1>0, <3>3, OneHonoured
    <3> QED
      BY <2>1, <3>4, NewLibLive
  <2> QED
    BY <2>1, <2>2, <2>3
<1> QED
  BY <1>1, <1>2

\* A change the user accepted is what PostgreSQL uses.
LEMMA EffectAtEnd == TypeOK /\ EditInv => AcceptedTakesEffect
<1> SUFFICES ASSUME TypeOK, EditInv, TunedOk, NEW k \in accepted, ~HasUnseen(read, k)
             PROVE  IF k = SharedLib
                    THEN Liveable =>
                           /\ extName \in EffectiveLibs(output) \/ \E i \in libFound : hasTimescale(read[i])
                           /\ \A i \in libFound : read[i].libs \subseteq EffectiveLibs(output)
                           /\ \/ EffectiveLibs(read) \subseteq EffectiveLibs(output)
                              \/ \E i \in libFound : read[i].form = "commented"
                    ELSE EffectiveVal(output, k) = {Recommend(flags.profile, k)}
  BY DEF AcceptedTakesEffect
<1>1. k \in EditKeys /\ output \in Seq(Line)
  BY AtTunedOk, AtEnd
<1>2. CASE k # SharedLib
  <2>1. /\ NewLine(k).key = k /\ NewLine(k).form = "live"
        /\ NewLine(k).val = Recommend(flags.profile, k)
    BY <1>1, <1>2, NewLineIs
  <2>2. EffectiveVal(output, k) = {NewLine(k).val}
    BY <1>1, <2>1, HonouredNew, OneHonoured
  <2> QED
    BY <1>2, <2>1, <2>2
<1>3. CASE k = SharedLib
  <2> SUFFICES ASSUME Liveable
               PROVE  /\ extName \in EffectiveLibs(output) \/ \E i \in libFound : hasTimescale(read[i])
                      /\ \A i \in libFound : read[i].libs \subseteq EffectiveLibs(output)
                      /\ \/ EffectiveLibs(read) \subseteq EffectiveLibs(output)
                         \/ \E i \in libFound : read[i].form = "commented"
    BY <1>3
  <2>1. NewLine(k) = newLibLine /\ newLibLine.key = k /\ newLibLine.form = "live"
    BY <1>3, NewLibLive DEF NewLine
  <2>2. EffectiveLibs(output) = newLibLine.libs
    BY <1>1, <1>3, <2>1, HonouredNew, OneHonoured
  <2> QED
    BY <1>3, <2>2, NewLibLive, LoadedBefore
<1> QED
  BY <1>2, <1>3

\* Whatever file, table of settings and answers: an accepted setting is what
\* PostgreSQL will use, for no later line of the key is left; timescaledb is
\* loaded, unless another name that contains it was there; and with it all that
\* was loaded before, unless a commented copy takes over (processTunables,
\* processSharedLibLine, WriteTo).
THEOREM TakesEffect == Spec => []AcceptedTakesEffect
<1>1. TypeInv /\ Modes /\ EditInv => AcceptedTakesEffect
  BY EffectAtEnd DEF TypeInv
<1> QED
  BY <1>1, EditInductive, PTL

\* Run again on the output, the program has nothing to change.
LEMMA SettledAtEnd == TypeOK /\ EditInv => SettledAfterwards
<1> SUFFICES ASSUME TypeOK, EditInv, TunedOk PROVE SettledAfterwards
  BY DEF SettledAfterwards
<1>1. accepted \in SUBSET EditKeys /\ EditedBy(lines, accepted)
  BY AtTunedOk, AtEnd
<1>2. read \in Seq(Line) /\ output \in Seq(Line)
  BY AtTunedOk DEF TypeOK
<1>3. ASSUME NEW g \in DOMAIN tunables, IsAvailable(tunables[g]), NEW k \in KeysOf(tunables[g]),
             flags.yes \/ k \in accepted
      PROVE  /\ ShowSetting(output, tunables[g], flags.profile, k)
                  => Recommend(flags.profile, k) = NoRecommendation
             /\ ~UnexpectedParse(output, tunables[g], flags.profile, k)
  <2>1. k \in TunableKeys
    BY DEF TunableKeys
  <2>2. k \in EditKeys /\ k # SharedLib
    BY <2>1, KeysApart DEF EditKeys
  <2>3. CASE k \in accepted
    <3>1. /\ NewLine(k).key = k /\ NewLine(k).form = "live" /\ NewLine(k) \in Parsed(k)
          /\ NewLine(k).val = Recommend(flags.profile, k)
      BY <2>2, NewLineIs, NewParsed
    <3>2. \A h \in accepted : h # k => NewLine(h) \notin Parsed(k)
      BY <1>1, <2>2, OthersParsed
    <3>3. \A l \in OurStamps : l \notin Parsed(k)
      BY <2>2, KindsNoStamps
    <3>4. \A i \in Found(k), j \in DOMAIN read : j > i => read[j] \notin Parsed(k)
      BY <2>2, ParsedBehind
    <3>5. LastLines(output, Parsed(k)) = {NewLine(k)}
      BY <1>1, <2>3, <3>1, <3>2, <3>3, <3>4, OutputNew
    <3> QED
      BY <1>2, <3>1, <3>5, OneParsed
  <2>4. CASE k \notin accepted
    <3>1. KeyDone(g, k)
      <4>1. flags.yes /\ Finished
        BY <1>3, <2>4, AtTunedOk
      <4>2. group > Len(tunables) /\ DOMAIN tunables = 1..Len(tunables) /\ Len(tunables) \in Nat
        BY <4>1, Tunables DEF EditInv, GroupsDone
      <4>3. g < group
        BY <4>2 DEF TypeOK
      <4> QED
        BY <1>3, <4>1, <4>3 DEF EditInv, GroupsDone
    <3>2. \A h \in accepted : NewLine(h) \notin Parsed(k) /\ \A i \in Found(h) : read[i] \notin Parsed(k)
      BY <1>1, <2>2, <2>4, OthersParsed
    <3>3. \A l \in Parsed(k) : ~IsStamp(l)
      BY <2>2, KindsNoStamps
    <3>4. LastLines(output, Parsed(k)) = LastLines(read, Parsed(k))
      BY <3>2, <3>3, OutputKept
    <3>5. /\ ShowSetting(output, tunables[g], flags.profile, k)
               <=> ShowSetting(read, tunables[g], flags.profile, k)
          /\ UnexpectedParse(output, tunables[g], flags.profile, k)
               <=> UnexpectedParse(read, tunables[g], flags.profile, k)
      BY <1>2, <3>4, ParsedShown
    <3> QED
      BY <2>4, <3>1, <3>5 DEF KeyDone
  <2> QED
    BY <2>3, <2>4
<1>4. ASSUME Liveable, NEW i \in sharedLibResult(output)
      PROVE  updateSharedLibLine(output[i]) = output[i]
  <2> DEFINE K == accepted \cup {SharedLib}
  <2>1. output[i] \in LastLines(output, Listed)
    BY <1>2, ListedLast DEF LastLines
  <2>2. K \in SUBSET EditKeys /\ EditedBy(lines, K) /\ SharedLib \in K
    BY <1>1, LibEditedToo DEF EditKeys
  <2>3. NewLine(SharedLib) = newLibLine /\ newLibLine.key = SharedLib
    BY <1>4, NewLibLive DEF NewLine
  <2>4. newLibLine \in Listed
    BY <1>4, NewLibLive DEF Listed, parseLineForSharedLibResult
  <2>5. \A h \in K : h # SharedLib => NewLine(h) \notin Listed
    BY <2>2, NewParsed
  <2>6. \A l \in OurStamps : l \notin Listed
    BY <2>2, KindsNoStamps
  <2>7. \A m \in Found(SharedLib), j \in DOMAIN read : j > m => read[j] \notin Listed
    BY BehindFound DEF Listed, Tried
  <2> HIDE DEF K, Listed
  <2>8. LastLines(output, Listed) = {newLibLine}
    BY <2>2, <2>3, <2>4, <2>5, <2>6, <2>7, OutputNew
  <2>9. output[i] = newLibLine
    BY <2>1, <2>8
  <2> QED
    BY <1>4, <2>9, NewLibLive
<1> QED
  BY <1>3, <1>4 DEF SettledAfterwards

\* After a run with --yes the file needs no change to what the run was allowed
\* to set, so that a second run has nothing to propose.
THEOREM Settles == Spec => []SettledAfterwards
<1>1. TypeInv /\ Modes /\ EditInv => SettledAfterwards
  BY SettledAtEnd DEF TypeInv
<1> QED
  BY <1>1, EditInductive, PTL

\* Appending what was printed has the effect of the edit that was not written.
LEMMA AppendAtEnd == TypeOK /\ EditInv => AppendEquivalent
<1> SUFFICES ASSUME TypeOK, EditInv, pc = "idle", exit = "ok", flags.quiet, ~flags.restore,
                    NEW k \in EditKeys, ~HasUnseen(read, k)
             PROVE  /\ EffectiveVal(read \o printed, k) = EffectiveVal(copy, k)
                    /\ k = SharedLib => EffectiveLibs(read \o printed) = EffectiveLibs(copy)
  BY DEF AppendEquivalent, EditKeys, copy
<1>1. /\ accepted \in SUBSET EditKeys /\ EditedBy(lines, accepted)
      /\ PrintedFor(printed, accepted) /\ printed \in Seq(Line)
  <2>1. Finished
    BY DEF Finished
  <2> QED
    BY <2>1, AtEnd DEF TypeOK
<1>2. read \o printed \in Seq(Line) /\ copy \in Seq(Line) /\ DOMAIN copy \subseteq Int
  BY <1>1, Domains DEF TypeOK
<1>3. /\ \A l \in Honoured(k) : l.key = k /\ ~IsStamp(l) /\ l.key \notin ourParams
      /\ \A l \in OurStamps : l \notin Honoured(k)
  BY KindsNoStamps, KeysApart
<1>4. ASSUME NEW h \in accepted, h # k
      PROVE  /\ NewLine(h) \notin Honoured(k) /\ PrintedLine(h) \notin Honoured(k)
             /\ \A i \in Found(h) : read[i] \notin Honoured(k)
  <2>1. NewLine(h).key # k /\ \A i \in Found(h) : read[i].key # k
    BY <1>1, <1>4, OthersKey
  <2>2. PrintedLine(h).key # k
    BY <1>1, <1>4, <2>1, PrintedLineIs
  <2> QED
    BY <2>1, <2>2 DEF Honoured
<1>5. CASE k \in accepted /\ NewLine(k) \in Honoured(k)
  <2>1. /\ PrintedLine(k) \in Honoured(k)
        /\ PrintedLine(k).val = NewLine(k).val
        /\ k = SharedLib => PrintedLine(k) = NewLine(k)
    <3>1. CASE k = SharedLib
      BY <1>5, <3>1, PrintedLineIs
    <3>2. CASE k # SharedLib
      BY <3>2, NewLineIs, PrintedLineIs DEF Honoured
    <3> QED
      BY <3>1, <3>2
  <2>2. LastLines(read \o printed, Honoured(k)) = {PrintedLine(k)}
    BY <1>1, <1>3, <1>5, <2>1, AppendLastNew
  <2>3. LastLines(copy, Honoured(k)) = {NewLine(k)}
    <3>1. ~IsStamp(NewLine(k)) /\ \A h \in accepted : h # k => NewLine(h) \notin Honoured(k)
      BY <1>3, <1>4, <1>5
    <3>2. \A i \in Found(k), j \in DOMAIN read : j > i => read[j] \notin Honoured(k)
      BY HonouredBehind
    <3>3. PICK m \in DOMAIN lines :
            copy[m] = NewLine(k) /\ \A j \in DOMAIN lines : j > m => copy[j] \notin Honoured(k)
      BY <1>1, <1>3, <1>5, <3>1, <3>2, CopyLastNew
    <3>4. DOMAIN copy = DOMAIN lines
      BY DEF copy
    <3>5. LastLines(copy, Honoured(k)) = {copy[m]}
      BY <1>2, <1>5, <3>3, <3>4, LastIs
    <3> QED
      BY <3>3, <3>5
  <2>4. /\ EffectiveVal(read \o printed, k) = {PrintedLine(k).val}
        /\ k = SharedLib => EffectiveLibs(read \o printed) = PrintedLine(k).libs
    BY <1>2, <2>2, OneHonoured
  <2>5. /\ EffectiveVal(copy, k) = {NewLine(k).val}
        /\ k = SharedLib => EffectiveLibs(copy) = NewLine(k).libs
    BY <1>2, <2>3, OneHonoured
  <2>6. EffectiveVal(read \o printed, k) = EffectiveVal(copy, k)
    BY <2>1, <2>4, <2>5
  <2>7. k = SharedLib => EffectiveLibs(read \o printed) = EffectiveLibs(copy)
    BY <2>1, <2>4, <2>5
  <2> QED
    BY <2>6, <2>7
<1>6. CASE ~(k \in accepted /\ NewLine(k) \in Honoured(k))
  <2>1. ASSUME k \in accepted
        PROVE  /\ NewLine(k) \notin Honoured(k) /\ PrintedLine(k) \notin Honoured(k)
               /\ \A i \in Found(k) : read[i] \notin Honoured(k)
    <3>1. k = SharedLib /\ NewLine(k) \notin Honoured(k)
      BY <1>6, <2>1, NewLineIs DEF Honoured
    <3>2. PrintedLine(k) \notin Honoured(k)
      BY <3>1, PrintedLineIs
    <3>3. ASSUME NEW i \in Found(k), read[i] \in Honoured(k)
          PROVE  FALSE
      <4>1. /\ read[i] \in Line /\ parseLineForSharedLibResult(read[i])
            /\ NewLine(k) = updateSharedLibLine(read[i])
        BY <3>1, <3>3, LibLineIs DEF Found, NewLine
      <4>2. read[i].key = SharedLib /\ read[i].form = "live"
        BY <3>1, <3>3, <4>1 DEF Honoured, parseLineForSharedLibResult, mentionsLib
      <4>3. NewLine(k).key = k /\ NewLine(k).form = "live"
        BY <3>1, <4>1, <4>2, LivenedLine
      <4>4. NewLine(k) \in Honoured(k)
        BY <4>3, NewLineIs DEF Honoured
      <4> QED
        BY <3>1, <4>4
    <3> QED
      BY <3>1, <3>2, <3>3
  <2>2. \A h \in accepted :
          /\ NewLine(h) \notin Honoured(k) /\ PrintedLine(h) \notin Honoured(k)
          /\ \A i \in Found(h) : read[i] \notin Honoured(k)
    BY <1>4, <2>1
  <2>3. LastLines(read \o printed, Honoured(k)) = LastLines(read, Honoured(k))
    BY <1>1, <1>3, <2>2, AppendLastKept
  <2>4. LastLines(copy, Honoured(k)) = LastLines(read, Honoured(k))
    BY <1>1, <1>3, <2>2, CopyLastKept
  <2>5. LastLines(read \o printed, Honoured(k)) = LastLines(copy, Honoured(k))
    BY <2>3, <2>4
  <2> QED
    BY <1>2, <2>5, HonouredValues
<1> QED
  BY <1>5, <1>6

\* What --quiet prints, appended to the file as it was, has the effect of the
\* edit the run would have made (processQuiet).
THEOREM AppendsTheSame == Spec => []AppendEquivalent
<1>1. TypeInv /\ Modes /\ EditInv => AppendEquivalent
  BY AppendAtEnd DEF TypeInv
<1> QED
  BY <1>1, EditInductive, PTL
\* An edited setting keeps its trailing comment; so does the line of the list.
LEMMA NoteKept ==
  ASSUME TypeOK, NEW k \in EditKeys, NEW i \in Found(k), read[i].key = k
  PROVE  NewLine(k).note = read[i].note
<1>1. CASE k = SharedLib
  BY <1>1, LibLineIs, UpdatedLine DEF Found, NewLine
<1>2. CASE k # SharedLib
  <2>1. i \in tuneParseResult(read, k)
    BY <1>2 DEF Found
  <2>2. PICK j \in tuneParseResult(read, k) : NoteOf(k) = read[j].note
    BY <2>1 DEF NoteOf
  <2>3. j \in Found(k)
    BY <1>2, <2>2 DEF Found
  <2>4. j = i
    BY <2>3, FoundOnce
  <2>5. NewLine(k) = SettingLine(k, Recommend(flags.profile, k), NoteOf(k))
    BY <1>2 DEF NewLine
  <2>6. NewLine(k).note = NoteOf(k)
    BY <2>5, SettingLineIs
  <2> QED
    BY <2>2, <2>4, <2>6
<1> QED
  BY <1>1, <1>2

\* What an edit makes of a line: one of the key it is about, with its comment, or
\* the same line with a longer list in its comment.
LEMMA EditKeeps ==
  ASSUME TypeOK, NotMistaken, NEW K \in SUBSET EditKeys, NEW i \in DOMAIN read
  PROVE  \/ EditedLine(i, K) = read[i]
         \/ /\ read[i].key \in K
            /\ \A j \in DOMAIN read : j > i => ~Tried(read[j], read[i].key)
            /\ EditedLine(i, K).key = read[i].key
            /\ EditedLine(i, K).note = read[i].note
         \/ /\ SharedLib \in K /\ i \in libFound
            /\ EditedLine(i, K) = [read[i] EXCEPT !.libs = @ \cup {extName}]
            /\ EditedLine(i, K).key = read[i].key /\ EditedLine(i, K).form = read[i].form
<1>1. CASE \A k \in K : i \notin Found(k)
  BY <1>1, EditedLineIs
<1>2. ASSUME NEW k \in K, i \in Found(k), read[i].key = k
      PROVE  /\ read[i].key \in K
             /\ \A j \in DOMAIN read : j > i => ~Tried(read[j], read[i].key)
             /\ EditedLine(i, K).key = read[i].key
             /\ EditedLine(i, K).note = read[i].note
  <2>1. EditedLine(i, K) = NewLine(k) /\ k \in EditKeys
    BY <1>2, EditedLineIs
  <2>2. NewLine(k).note = read[i].note
    BY <1>2, NoteKept
  <2>3. NewLine(k).key = k
    <3>1. CASE k = SharedLib
      BY <1>2, <3>1, LibLineIs, UpdatedLine DEF Found, NewLine
    <3>2. CASE k # SharedLib
      BY <3>2, NewLineIs
    <3> QED
      BY <3>1, <3>2
  <2>4. \A j \in DOMAIN read : j > i => ~Tried(read[j], k)
    BY <1>2, BehindFound
  <2> QED
    BY <1>2, <2>1, <2>2, <2>3, <2>4
<1>3. ASSUME NEW k \in K, i \in Found(k), read[i].key # k
      PROVE  \/ EditedLine(i, K) = read[i]
             \/ /\ SharedLib \in K /\ i \in libFound
                /\ EditedLine(i, K) = [read[i] EXCEPT !.libs = @ \cup {extName}]
                /\ EditedLine(i, K).key = read[i].key /\ EditedLine(i, K).form = read[i].form
  <2>1. k = SharedLib /\ i \in libFound
    BY <1>3, FoundLine DEF Found
  <2>2. EditedLine(i, K) = updateSharedLibLine(read[i]) /\ read[i] \in Line
    BY <1>3, <2>1, EditedLineIs, LibLineIs DEF NewLine
  <2>3. read[i].key # SharedLib /\ read[i].note = mention
    BY <1>3, <2>1 DEF NotMistaken, libFound
  <2> QED
    BY <2>1, <2>2, <2>3, MentionLine
<1> QED
  BY <1>1, <1>2, <1>3

\* An edit makes no stamp, and of a stamp nothing else.
LEMMA EditedStamp ==
  ASSUME TypeOK, NotMistaken, NEW K \in SUBSET EditKeys, NEW i \in DOMAIN read
  PROVE  IsStamp(EditedLine(i, K)) <=> IsStamp(read[i])
<1>1. ASSUME read[i].key \in K, EditedLine(i, K).key = read[i].key
      PROVE  ~IsStamp(EditedLine(i, K)) /\ ~IsStamp(read[i])
  BY <1>1, KeysNoStamps
<1>2. ASSUME EditedLine(i, K).key = read[i].key, EditedLine(i, K).form = read[i].form
      PROVE  IsStamp(EditedLine(i, K)) <=> IsStamp(read[i])
  BY <1>2 DEF IsStamp, parseWithRegex
<1> QED
  BY <1>1, <1>2, EditKeeps
\* Every line that is no stamp is in the output, in its place; of the lines of an
\* accepted key only the last match may differ, of others only a list in the
\* comment, and what is new is a stamp or a line of an accepted key behind them.
LEMMA UntouchedAtEnd == TypeOK /\ EditInv => NothingElseTouched
<1> SUFFICES ASSUME TypeOK, EditInv, TunedOk, NotMistaken PROVE NothingElseTouched
  BY DEF NothingElseTouched
<1>1. accepted \in SUBSET EditKeys /\ EditedBy(lines, accepted)
  BY AtTunedOk, AtEnd
<1>2. PICK from \in [DOMAIN output -> 1..Len(lines)] :
        /\ \A i, j \in DOMAIN output : i < j => from[i] < from[j]
        /\ \A i \in DOMAIN output :
             output[i] = lines[from[i]].content /\ ~lines[from[i]].remove
        /\ \A m \in 1..Len(lines) : lines[m].remove \/ \E i \in DOMAIN output : from[i] = m
  BY AtTunedOk DEF WrittenFrom
<1>3. /\ DOMAIN lines = 1..Len(lines) /\ Len(lines) \in Nat
      /\ DOMAIN read = 1..Len(read) /\ Len(read) \in Nat
      /\ DOMAIN read \subseteq DOMAIN lines
  <2>1. /\ DOMAIN lines = 1..Len(lines) /\ Len(lines) \in Nat
        /\ DOMAIN read = 1..Len(read) /\ Len(read) \in Nat
        /\ Len(read) <= Len(lines)
    BY <1>1 DEF TypeOK, EditedBy
  <2> QED
    BY <2>1
<1>4. DOMAIN output \subseteq Int /\ \A j \in DOMAIN output : from[j] \in DOMAIN lines
  BY <1>2, <1>3, AtTunedOk
<1>5. \A i, j \in DOMAIN output : from[i] < from[j] => i < j
  <2> SUFFICES ASSUME NEW i \in DOMAIN output, NEW j \in DOMAIN output, from[i] < from[j], ~(i < j)
               PROVE  FALSE
    OBVIOUS
  <2>1. from[i] \in Int /\ from[j] \in Int /\ i \in Int /\ j \in Int
    BY <1>3, <1>4
  <2>2. j < i \/ j = i
    BY <2>1
  <2>3. j < i => from[j] < from[i]
    BY <1>2
  <2> QED
    BY <2>1, <2>2, <2>3
<1>6. \A i, j \in DOMAIN output : from[i] = from[j] => i = j
  <2> SUFFICES ASSUME NEW i \in DOMAIN output, NEW j \in DOMAIN output, from[i] = from[j]
               PROVE  i = j
    OBVIOUS
  <2>1. from[i] \in Int /\ i \in Int /\ j \in Int
    BY <1>3, <1>4
  <2>2. (j < i => from[j] < from[i]) /\ (i < j => from[i] < from[j])
    BY <1>2
  <2> QED
    BY <2>1, <2>2
<1> DEFINE Rest  == {i \in DOMAIN read : ~IsStamp(read[i])}
           place == [i \in Rest |-> CHOOSE j \in DOMAIN output : from[j] = i]
<1>7. ASSUME NEW i \in Rest
      PROVE  lines[i].content = EditedLine(i, accepted) /\ ~lines[i].remove
  <2>1. i \in DOMAIN read /\ ~IsStamp(read[i]) /\ i \in DOMAIN lines
    BY <1>3
  <2>2. \/ lines[i].content = EditedLine(i, accepted)
        \/ IsStamp(EditedLine(i, accepted))
    BY <1>1, <2>1 DEF EditedBy
  <2>3. ~IsStamp(EditedLine(i, accepted))
    BY <1>1, <2>1, EditedStamp
  <2>4. lines[i].content = EditedLine(i, accepted)
    BY <2>2, <2>3
  <2> QED
    BY <1>1, <2>1, <2>3, <2>4 DEF EditedBy
<1>8. \A i \in Rest : place[i] \in DOMAIN output /\ from[place[i]] = i
  <2> SUFFICES ASSUME NEW i \in Rest PROVE place[i] \in DOMAIN output /\ from[place[i]] = i
    OBVIOUS
  <2>1. i \in 1..Len(lines) /\ ~lines[i].remove
    BY <1>3, <1>7
  <2>2. \E j \in DOMAIN output : from[j] = i
    BY <1>2, <2>1
  <2>3. place[i] = CHOOSE j \in DOMAIN output : from[j] = i
    OBVIOUS
  <2> QED
    BY <2>2, <2>3
<1>9. DOMAIN place = Rest /\ place \in [Rest -> DOMAIN output]
  BY <1>8
<1> HIDE DEF place
<1>10. \A i, j \in Rest : i < j => place[i] < place[j]
  BY <1>5, <1>8
<1>11. ASSUME NEW i \in Rest
       PROVE  \/ output[place[i]] = read[i]
              \/ /\ read[i].key \in accepted
                 /\ \A j \in DOMAIN read : j > i => ~Tried(read[j], read[i].key)
                 /\ output[place[i]].key = read[i].key
                 /\ output[place[i]].note = read[i].note
              \/ /\ SharedLib \in accepted /\ i \in libFound
                 /\ output[place[i]] = [read[i] EXCEPT !.libs = @ \cup {extName}]
  <2>1. output[place[i]] = EditedLine(i, accepted) /\ i \in DOMAIN read
    BY <1>2, <1>7, <1>8
  <2> QED
    BY <1>1, <2>1, EditKeeps
<1>12. ASSUME NEW j \in DOMAIN output
       PROVE  \/ \E i \in Rest : place[i] = j
              \/ IsStamp(output[j])
              \/ output[j].key \in accepted /\ \A i \in Rest : place[i] < j
  <2>1. output[j] = lines[from[j]].content /\ from[j] \in DOMAIN lines
    BY <1>2, <1>4
  <2>2. CASE from[j] \in Rest
    <3>1. place[from[j]] \in DOMAIN output /\ from[place[from[j]]] = from[j]
      BY <1>8, <2>2
    <3>2. place[from[j]] = j
      BY <1>6, <3>1
    <3> QED
      BY <2>2, <3>2
  <2>3. CASE from[j] \in DOMAIN read /\ IsStamp(read[from[j]])
    <3>1. IsStamp(EditedLine(from[j], accepted))
      BY <1>1, <2>3, EditedStamp
    <3>2. \/ lines[from[j]].content = EditedLine(from[j], accepted)
          \/ lines[from[j]].content \in OurStamps
      BY <1>1, <2>3 DEF EditedBy
    <3> QED
      BY <2>1, <3>1, <3>2, OurStampsAre
  <2>4. CASE from[j] \notin DOMAIN read
    <3>1. from[j] > Len(read)
      BY <1>3, <2>1, <2>4
    <3>2. \/ output[j] \in OurStamps
          \/ \E k \in accepted : Found(k) = {} /\ output[j] = NewLine(k)
      BY <1>1, <2>1, <3>1 DEF EditedBy
    <3>3. ASSUME NEW k \in accepted, Found(k) = {}, output[j] = NewLine(k)
          PROVE  output[j].key \in accepted
      <4>1. NewLine(k).key = k
        BY <1>1, <3>3, NewLineIs
      <4> QED
        BY <3>3, <4>1
    <3>4. \A i \in Rest : place[i] < j
      <4> SUFFICES ASSUME NEW i \in Rest PROVE place[i] < j
        OBVIOUS
      <4>1. i \in 1..Len(read) /\ from[j] \in 1..Len(lines)
        BY <1>3, <2>1
      <4>2. i < from[j]
        BY <1>3, <3>1, <4>1
      <4> QED
        BY <1>5, <1>8, <4>2
    <3> QED
      BY <3>2, <3>3, <3>4, OurStampsAre
  <2> QED
    BY <2>2, <2>3, <2>4
<1> HIDE DEF Rest
<1>13. \E p \in [Rest -> DOMAIN output] :
         /\ \A i, j \in DOMAIN p : i < j => p[i] < p[j]
         /\ \A i \in DOMAIN p :
              \/ output[p[i]] = read[i]
              \/ /\ read[i].key \in accepted
                 /\ \A j \in DOMAIN read : j > i => ~Tried(read[j], read[i].key)
                 /\ output[p[i]].key = read[i].key
                 /\ output[p[i]].note = read[i].note
              \/ /\ SharedLib \in accepted /\ i \in libFound
                 /\ output[p[i]] = [read[i] EXCEPT !.libs = @ \cup {extName}]
         /\ \A j \in DOMAIN output :
              \/ \E i \in DOMAIN p : p[i] = j
              \/ IsStamp(output[j])
              \/ output[j].key \in accepted /\ \A i \in DOMAIN p : p[i] < j
  <2> place \in [Rest -> DOMAIN output]
    BY <1>9
  <2> WITNESS place \in [Rest -> DOMAIN output]
  <2> QED
    BY <1>9, <1>10, <1>11, <1>12
<1> QED
  BY <1>13 DEF NothingElseTouched, Rest

\* All lines but those of accepted keys and stamps are in the output, once and
\* in their order, and an edited line keeps its place and its comment; a comment
\* that mentions the list may have it made longer, and is excluded where it
\* would lose its # (NotMistaken).
THEOREM RestUntouched == Spec => []NothingElseTouched
<1>1. TypeInv /\ Modes /\ EditInv => NothingElseTouched
  BY UntouchedAtEnd DEF TypeInv
<1> QED
  BY <1>1, EditInductive, PTL
=============================================================================
