----------------------------- MODULE EditProofs -----------------------------
(***************************************************************************)
(* The inductive invariant of TunerProperties: what the working copy is    *)
(* made of at every place of a run, and what has been written of it.  For  *)
(* every file, table of settings, set of flags and answers, with and       *)
(* without faults while a file is read.                                    *)
(***************************************************************************)
EXTENDS TunerProofs, TunerProperties

\* The keys a run may edit.
EditKeys == TunableKeys \cup {SharedLib}

-----------------------------------------------------------------------------
(* Single lines.                                                           *)

\* The program's own words differ, and no setting is called like one of them.
LEMMA KeysApart ==
  /\ SharedLib \notin ourParams
  /\ lastTunedParam # lastTunedVersionParam
  /\ SharedLib \notin TunableKeys
  /\ \A k \in EditKeys : k \notin ourParams
<1>1. /\ SharedLib \notin ourParams
      /\ lastTunedParam # lastTunedVersionParam
  BY DEF SharedLib, ourParams, lastTunedParam, lastTunedVersionParam
<1>2. SharedLib \notin TunableKeys /\ \A k \in TunableKeys : k \notin ourParams
  BY KeysAssumption
<1> QED
  BY <1>1, <1>2 DEF EditKeys

\* The parts of a line the program writes.
LEMMA SettingLineIs ==
  ASSUME NEW k, NEW v, NEW note
  PROVE  /\ SettingLine(k, v, note).key = k
         /\ SettingLine(k, v, note).form = "live"
         /\ SettingLine(k, v, note).val = v
         /\ SettingLine(k, v, note).note = note
BY DEF SettingLine

\* A stamp is a line with the key of a stamp that is not hidden in a comment.
LEMMA StampIs ==
  ASSUME NEW l
  PROVE  IsStamp(l) <=> \E p \in ourParams : parseWithRegex(l, p)
BY DEF IsStamp, ourParams

\* What processOurParams writes is a stamp, of one kind only.
LEMMA OwnStamp ==
  ASSUME NEW p \in ourParams, NEW t
  PROVE  /\ ourParamString(p, t).key = p
         /\ parseWithRegex(ourParamString(p, t), p)
         /\ IsStamp(ourParamString(p, t))
<1>1. ourParamString(p, t).key = p /\ ourParamString(p, t).form = "live"
  BY DEF ourParamString, SettingLine
<1> QED
  BY <1>1, StampIs DEF parseWithRegex

\* A line the library expression matches, after the edit: of the same key and
\* with the same libraries at least, it is matched again.
LEMMA UpdatedLine ==
  ASSUME NEW l \in Line, parseLineForSharedLibResult(l)
  PROVE  /\ updateSharedLibLine(l) \in Line
         /\ updateSharedLibLine(l).key = l.key
         /\ updateSharedLibLine(l).val = l.val
         /\ l.libs \subseteq updateSharedLibLine(l).libs
         /\ l.key = SharedLib => /\ updateSharedLibLine(l).form = uncommented(l.form)
                                 /\ updateSharedLibLine(l).note = l.note
         /\ l.key # SharedLib => updateSharedLibLine(l).note \in Mentions
<1> DEFINE w == withoutCommentGroup(l)
           x == IF hasTimescale(l) THEN l.libs ELSE l.libs \cup {extName}
<1>1. updateSharedLibLine(l) \in Line
  BY UpdateLibType
<1>2. /\ w \in Line /\ w.key = l.key /\ w.libs = l.libs /\ w.val = l.val
      /\ w.note = l.note \/ w.note = mention
  BY WithoutCommentGroupType
<1>3. l.key = SharedLib => w.form = uncommented(l.form) /\ w.note = l.note
  BY DEF withoutCommentGroup, Line
<1>4. l.key # SharedLib => w.note \in Mentions
  BY <1>2 DEF parseLineForSharedLibResult, mentionsLib, Mentions
<1>5. l.libs \subseteq x
  OBVIOUS
<1>6. updateSharedLibLine(l) = [w EXCEPT !.libs = x]
  BY <1>2 DEF updateSharedLibLine
<1> HIDE DEF w, x
<1>7. /\ updateSharedLibLine(l).key = w.key /\ updateSharedLibLine(l).val = w.val
      /\ updateSharedLibLine(l).form = w.form /\ updateSharedLibLine(l).note = w.note
      /\ updateSharedLibLine(l).libs = x
  BY <1>2, <1>6 DEF Line
<1> QED
  BY <1>1, <1>2, <1>3, <1>4, <1>5, <1>7

\* A line of a setting is not one the library expression matches.
LEMMA ParsedApart ==
  ASSUME NEW l, NEW k, parsedFor(l, k)
  PROVE  l.key = k /\ l.form # "loose" /\ ~parseLineForSharedLibResult(l) /\ parseWithRegex(l, k)
BY DEF parsedFor, parseWithRegex

\* The line found for a key is one that is tried for it.
LEMMA FoundLine ==
  ASSUME NEW k, NEW i \in Found(k)
  PROVE  /\ i \in DOMAIN read
         /\ Tried(read[i], k)
         /\ k # SharedLib => parsedFor(read[i], k) /\ read[i].key = k
         /\ k = SharedLib => parseLineForSharedLibResult(read[i])
<1>1. CASE k = SharedLib
  BY <1>1 DEF Found, libFound, sharedLibResult, LastMatch, Tried
<1>2. CASE k # SharedLib
  BY <1>2, ParsedApart DEF Found, tuneParseResult, LastMatch, Tried
<1> QED
  BY <1>1, <1>2

\* Behind the line found there is none that is tried for the key.
LEMMA BehindFound ==
  ASSUME NEW k, NEW i \in Found(k), NEW j \in DOMAIN read, j > i
  PROVE  ~Tried(read[j], k)
<1>1. CASE k = SharedLib
  BY <1>1 DEF Found, libFound, sharedLibResult, LastMatch, Tried
<1>2. CASE k # SharedLib
  BY <1>2 DEF Found, tuneParseResult, LastMatch, Tried
<1> QED
  BY <1>1, <1>2

\* At most one line is found for a key.
LEMMA FoundOnce ==
  ASSUME NEW k, NEW i \in Found(k), NEW j \in Found(k), TypeOK
  PROVE  i = j
<1>1. i \in Nat /\ j \in Nat
  BY FoundLine DEF TypeOK
<1>2. ~(i > j) /\ ~(j > i)
  BY FoundLine, BehindFound
<1> QED
  BY <1>1, <1>2

\* No line is found for two keys.
LEMMA FoundApart ==
  ASSUME NEW k, NEW h, NEW i \in Found(k), i \in Found(h)
  PROVE  k = h
<1>1. CASE k # SharedLib /\ h # SharedLib
  BY <1>1, FoundLine
<1>2. CASE k = SharedLib \/ h = SharedLib
  BY <1>2, FoundLine, ParsedApart
<1> QED
  BY <1>1, <1>2

\* The library line an edit writes: a new one, or the one found, updated.
LEMMA NewLibLineIs ==
  /\ libFound = {} => newLibLine = plainSharedLibLine
  /\ \A i \in libFound : TypeOK => newLibLine = updateSharedLibLine(read[i])
<1>1. libFound = {} => newLibLine = plainSharedLibLine
  BY DEF newLibLine
<1>2. ASSUME TypeOK, NEW i \in libFound
      PROVE  newLibLine = updateSharedLibLine(read[i])
  <2>1. PICK j \in libFound : newLibLine = updateSharedLibLine(read[j])
    BY <1>2 DEF newLibLine
  <2>2. i \in Found(SharedLib) /\ j \in Found(SharedLib)
    BY <1>2, <2>1 DEF Found
  <2>3. i = j
    BY <1>2, <2>2, FoundOnce
  <2> QED
    BY <2>1, <2>3
<1> QED
  BY <1>1, <1>2

\* The line an edit writes is of the key and no stamp, except where it is put in
\* the place of a line that mentions the library list.
LEMMA NewLineIs ==
  ASSUME TypeOK, NEW k \in EditKeys
  PROVE  /\ NewLine(k) \in Line
         /\ k # SharedLib \/ Found(k) = {} => /\ NewLine(k).key = k
                                              /\ NewLine(k).form = "live"
                                              /\ ~IsStamp(NewLine(k))
         /\ k # SharedLib => NewLine(k).val = Recommend(flags.profile, k)
<1>1. ASSUME NewLine(k).key = k
      PROVE  ~IsStamp(NewLine(k))
  BY <1>1, KeysApart DEF IsStamp, parseWithRegex, ourParams
<1>2. CASE k = SharedLib
  <2>1. NewLine(k) = newLibLine /\ newLibLine \in Line
    BY <1>2, NewLibType DEF NewLine, TypeOK
  <2>2. plainSharedLibLine.key = SharedLib /\ plainSharedLibLine.form = "live"
    BY DEF plainSharedLibLine
  <2>3. Found(k) = {} => newLibLine = plainSharedLibLine
    BY <1>2, NewLibLineIs DEF Found
  <2> QED
    BY <1>1, <1>2, <2>1, <2>2, <2>3
<1>3. CASE k # SharedLib
  <2>1. k \in TunableKeys
    BY <1>3 DEF EditKeys
  <2>2. k \in Text /\ Recommend(flags.profile, k) \in Value
    <3>1. PICK g \in 1..5 : k \in KeysOf(tunables[g])
      BY <2>1, Tunables DEF TunableKeys
    <3>2. PICK i \in DOMAIN SettingsKeys[tunables[g]] : k = SettingsKeys[tunables[g]][i]
      BY <3>1 DEF KeysOf
    <3>3. flags.profile \in Profiles
      BY DEF TypeOK, Flags
    <3> QED
      BY <3>2, <3>3, KeyType
  <2>3. NoteOf(k) \in Text
    BY ExtraType DEF TypeOK, NoteOf
  <2>4. NewLine(k) = SettingLine(k, Recommend(flags.profile, k), NoteOf(k))
    BY <1>3 DEF NewLine
  <2>5. NewLine(k) \in Line
    BY <2>2, <2>3, <2>4, SettingLineType
  <2> QED
    BY <1>1, <1>3, <2>4, <2>5, SettingLineIs
<1> QED
  BY <1>2, <1>3

\* What an edit makes of line i of the file.
LEMMA EditedLineIs ==
  ASSUME TypeOK, NEW i \in DOMAIN read, NEW K
  PROVE  /\ \A k \in K : i \in Found(k) => EditedLine(i, K) = NewLine(k)
         /\ (\A k \in K : i \notin Found(k)) => EditedLine(i, K) = read[i]
<1>1. ASSUME NEW k \in K, i \in Found(k)
      PROVE  EditedLine(i, K) = NewLine(k)
  <2>1. CASE k = SharedLib
    BY <1>1, <2>1 DEF EditedLine, Found, NewLine
  <2>2. CASE k # SharedLib
    <3>1. i \notin Found(SharedLib)
      BY <1>1, <2>2, FoundApart
    <3>2. read[i].key = k
      BY <1>1, <2>2, FoundLine
    <3> QED
      BY <1>1, <2>2, <3>1, <3>2 DEF EditedLine, Found
  <2> QED
    BY <2>1, <2>2
<1>2. ASSUME \A k \in K : i \notin Found(k)
      PROVE  EditedLine(i, K) = read[i]
  BY <1>2 DEF EditedLine, Found
<1> QED
  BY <1>1, <1>2

-----------------------------------------------------------------------------
(* The editing steps on the working copy.                                  *)

\* PutLine appends the line, or puts it at the given places; the rest stays.
LEMMA PutLineLines ==
  ASSUME NEW w \in Seq(WorkingLine), NEW where \in SUBSET DOMAIN w, NEW line \in Line
  PROVE  /\ PutLine(w, where, line) \in Seq(WorkingLine)
         /\ where = {} => /\ Len(PutLine(w, where, line)) = Len(w) + 1
                          /\ PutLine(w, where, line)[Len(w) + 1] = configLine(line)
         /\ where # {} => Len(PutLine(w, where, line)) = Len(w)
         /\ \A i \in where : PutLine(w, where, line)[i] = configLine(line)
         /\ \A i \in DOMAIN w \ where : PutLine(w, where, line)[i] = w[i]
<1> DEFINE s == PutLine(w, where, line)
<1>1. s \in Seq(WorkingLine)
  BY PutLineType
<1>2. CASE where = {}
  <2>1. s = Append(w, configLine(line))
    BY <1>2 DEF PutLine
  <2>2. configLine(line) \in WorkingLine
    BY DEF configLine, WorkingLine
  <2> QED
    BY <1>1, <1>2, <2>1, <2>2
<1>3. CASE where # {}
  <2>1. s = [i \in DOMAIN w |-> IF i \in where THEN configLine(line) ELSE w[i]]
    BY <1>3 DEF PutLine, ReplaceAll
  <2>2. DOMAIN s = DOMAIN w /\ \A i \in DOMAIN w : s[i] = IF i \in where THEN configLine(line)
                                                                          ELSE w[i]
    BY <2>1
  <2>3. Len(s) = Len(w)
    BY <1>1, <2>2
  <2> QED
    BY <1>1, <1>3, <2>2, <2>3
<1> QED
  BY <1>2, <1>3

\* Editing a key edits it and leaves what other keys' edits have done.
LEMMA EditKey ==
  ASSUME TypeOK, NEW w \in Seq(WorkingLine), NEW K \in SUBSET EditKeys, EditedBy(w, K),
         NEW k \in EditKeys
  PROVE  EditedBy(PutLine(w, Found(k), NewLine(k)), K \cup {k})
<1> DEFINE s == PutLine(w, Found(k), NewLine(k))
<1>1. /\ Len(read) \in Nat /\ DOMAIN read = 1..Len(read)
      /\ Len(w) \in Nat /\ DOMAIN w = 1..Len(w)
      /\ Len(read) <= Len(w)
  BY DEF TypeOK, EditedBy
<1>2. DOMAIN read \subseteq DOMAIN w
  BY <1>1
<1>3. Found(k) \in SUBSET DOMAIN w
  BY <1>2, FoundLine
<1>4. /\ s \in Seq(WorkingLine)
      /\ Found(k) = {} => Len(s) = Len(w) + 1 /\ s[Len(w) + 1] = configLine(NewLine(k))
      /\ Found(k) # {} => Len(s) = Len(w)
      /\ \A i \in Found(k) : s[i] = configLine(NewLine(k))
      /\ \A i \in DOMAIN w \ Found(k) : s[i] = w[i]
  <2>1. NewLine(k) \in Line
    BY NewLineIs
  <2> QED
    BY <1>3, <2>1, PutLineLines
<1> HIDE DEF s
<1>5. DOMAIN s = 1..Len(s) /\ DOMAIN w \subseteq DOMAIN s
  BY <1>1, <1>4
<1>6. /\ configLine(NewLine(k)).content = NewLine(k)
      /\ configLine(NewLine(k)).remove = FALSE
  BY DEF configLine
<1>7. ASSUME NEW i \in DOMAIN s
      PROVE  \/ i \in DOMAIN w /\ i \notin Found(k) /\ s[i] = w[i]
             \/ i \in DOMAIN w /\ i \in Found(k) /\ s[i] = configLine(NewLine(k))
             \/ i = Len(w) + 1 /\ Found(k) = {} /\ s[i] = configLine(NewLine(k))
  <2>1. CASE i \in DOMAIN w
    BY <1>4, <2>1
  <2>2. CASE i \notin DOMAIN w
    <3>1. CASE Found(k) # {}
      <4>1. Len(s) = Len(w)
        BY <1>4, <3>1
      <4>2. DOMAIN s = DOMAIN w
        BY <1>1, <1>5, <4>1
      <4> QED
        BY <2>2, <4>2
    <3>2. CASE Found(k) = {}
      <4>1. Len(s) = Len(w) + 1
        BY <1>4, <3>2
      <4>2. i = Len(w) + 1
        BY <1>1, <1>5, <2>2, <4>1
      <4> QED
        BY <1>4, <3>2, <4>2
    <3> QED
      BY <3>1, <3>2
  <2> QED
    BY <2>1, <2>2
<1>8. Len(read) <= Len(s)
  BY <1>1, <1>4
<1>9. ASSUME NEW i \in DOMAIN s, s[i].remove
      PROVE  IsStamp(s[i].content)
  BY <1>6, <1>7, <1>9 DEF EditedBy
<1>10. ASSUME NEW i \in DOMAIN read
       PROVE  \/ s[i].content = EditedLine(i, K \cup {k})
              \/ IsStamp(EditedLine(i, K \cup {k})) /\ s[i].content \in OurStamps
  <2>1. i \in DOMAIN w
    BY <1>2
  <2>2. CASE i \in Found(k)
    <3>1. s[i].content = NewLine(k)
      BY <1>4, <1>6, <2>1, <2>2
    <3>2. EditedLine(i, K \cup {k}) = NewLine(k)
      BY <2>2, EditedLineIs
    <3> QED
      BY <3>1, <3>2
  <2>3. CASE i \notin Found(k)
    <3>1. s[i] = w[i]
      BY <1>4, <2>1, <2>3
    <3>2. EditedLine(i, K \cup {k}) = EditedLine(i, K)
      <4>1. CASE \E h \in K : i \in Found(h)
        <5>1. PICK h \in K : i \in Found(h)
          BY <4>1
        <5>2. h \in K \cup {k}
          BY <5>1
        <5> QED
          BY <5>1, <5>2, EditedLineIs
      <4>2. CASE \A h \in K : i \notin Found(h)
        <5>1. \A h \in K \cup {k} : i \notin Found(h)
          BY <2>3, <4>2
        <5> QED
          BY <4>2, <5>1, EditedLineIs
      <4> QED
        BY <4>1, <4>2
    <3> QED
      BY <3>1, <3>2 DEF EditedBy
  <2> QED
    BY <2>2, <2>3
<1>11. ASSUME NEW i \in DOMAIN s, i > Len(read)
       PROVE  \/ s[i].content \in OurStamps
              \/ \E h \in K \cup {k} : Found(h) = {} /\ s[i].content = NewLine(h)
  <2>1. i \notin Found(k)
    BY <1>1, <1>11, FoundLine
  <2>2. CASE i \in DOMAIN w
    <3>1. s[i] = w[i]
      BY <1>4, <2>1, <2>2
    <3> QED
      BY <1>11, <2>2, <3>1 DEF EditedBy
  <2>3. CASE i = Len(w) + 1 /\ Found(k) = {} /\ s[i] = configLine(NewLine(k))
    BY <1>6, <2>3
  <2> QED
    BY <1>7, <2>1, <2>2, <2>3
<1>12. ASSUME NEW h \in K \cup {k}, Found(h) = {}
       PROVE  \E i \in DOMAIN s :
                /\ i > Len(read) /\ s[i].content = NewLine(h)
                /\ \A j \in DOMAIN s : j > i => s[j].content.key # h
  <2>1. CASE h = k
    <3>1. Len(w) + 1 \in DOMAIN s /\ Len(w) + 1 > Len(read) /\ Len(s) = Len(w) + 1
      <4>1. Found(k) = {}
        BY <1>12, <2>1
      <4>2. Len(s) = Len(w) + 1
        BY <1>4, <4>1
      <4> QED
        BY <1>1, <1>5, <4>2
    <3>2. s[Len(w) + 1].content = NewLine(h)
      BY <1>4, <1>6, <1>12, <2>1
    <3>3. \A j \in DOMAIN s : ~(j > Len(w) + 1)
      BY <1>1, <1>5, <3>1
    <3> QED
      BY <3>1, <3>2, <3>3
  <2>2. CASE h # k
    <3>1. PICK i \in DOMAIN w :
            /\ i > Len(read) /\ w[i].content = NewLine(h)
            /\ \A j \in DOMAIN w : j > i => w[j].content.key # h
      BY <1>12, <2>2 DEF EditedBy
    <3>2. i \in DOMAIN s /\ s[i] = w[i]
      <4>1. i \notin Found(k)
        BY <1>1, <3>1, FoundLine
      <4> QED
        BY <1>4, <1>5, <4>1
    <3>3. ASSUME NEW j \in DOMAIN s, j > i
          PROVE  s[j].content.key # h
      <4>1. j \notin Found(k)
        BY <1>1, <3>1, <3>3, FoundLine
      <4>2. CASE j \in DOMAIN w /\ s[j] = w[j]
        BY <3>1, <3>3, <4>2
      <4>3. CASE Found(k) = {} /\ s[j] = configLine(NewLine(k))
        <5>1. NewLine(k).key = k
          BY <4>3, NewLineIs
        <5> QED
          BY <1>6, <2>2, <4>3, <5>1
      <4> QED
        BY <1>7, <4>1, <4>2, <4>3
    <3> QED
      BY <3>1, <3>2, <3>3
  <2> QED
    BY <2>1, <2>2
<1> QED
  BY <1>8, <1>9, <1>10, <1>11, <1>12 DEF EditedBy, s

\* The place of a stamp in the working copy.
StampPlace(w, p) == LastMatch(w, LAMBDA l : parseWithRegex(l.content, p))

\* One stamp: where its last match was or at the end, and no match behind it.
LEMMA StampLines ==
  ASSUME NEW w \in Seq(WorkingLine), NEW p \in ourParams, NEW t \in Nat
  PROVE  LET s == stampParam(w, p, t)
             stamp == configLine(ourParamString(p, t))
         IN /\ s \in Seq(WorkingLine)
            /\ Len(s) \in {Len(w), Len(w) + 1}
            /\ \A i \in DOMAIN w :
                 s[i] = w[i] \/ (parseWithRegex(w[i].content, p) /\ s[i] = stamp)
            /\ \A i \in DOMAIN s : i \notin DOMAIN w => s[i] = stamp
            /\ \E i \in DOMAIN s :
                 /\ s[i] = stamp
                 /\ \A j \in DOMAIN s : j > i => ~parseWithRegex(s[j].content, p)
<1> DEFINE s     == stampParam(w, p, t)
           stamp == configLine(ourParamString(p, t))
           where == StampPlace(w, p)
<1>1. /\ where \in SUBSET DOMAIN w
      /\ \A i \in where : /\ parseWithRegex(w[i].content, p)
                          /\ \A j \in DOMAIN w : j > i => ~parseWithRegex(w[j].content, p)
  BY DEF StampPlace, LastMatch
<1>2. ourParamString(p, t) \in Line
  BY StampType DEF ourParams
<1>3. s = PutLine(w, where, ourParamString(p, t))
  BY DEF stampParam, StampPlace
<1> HIDE DEF where, s
<1>4. /\ s \in Seq(WorkingLine)
      /\ where = {} => Len(s) = Len(w) + 1 /\ s[Len(w) + 1] = stamp
      /\ where # {} => Len(s) = Len(w)
      /\ \A i \in where : s[i] = stamp
      /\ \A i \in DOMAIN w \ where : s[i] = w[i]
  BY <1>1, <1>2, <1>3, PutLineLines
<1>5. /\ DOMAIN s = 1..Len(s) /\ Len(s) \in Nat
      /\ DOMAIN w = 1..Len(w) /\ Len(w) \in Nat
  BY <1>4
<1> HIDE DEF stamp
<1>6. ASSUME NEW i \in DOMAIN w
      PROVE  s[i] = w[i] \/ (parseWithRegex(w[i].content, p) /\ s[i] = stamp)
  BY <1>1, <1>4
<1>7. CASE where = {}
  <2>1. Len(s) = Len(w) + 1 /\ s[Len(w) + 1] = stamp
    BY <1>4, <1>7
  <2>2. \A i \in DOMAIN s : i \notin DOMAIN w => s[i] = stamp
    BY <1>5, <2>1
  <2>3. Len(w) + 1 \in DOMAIN s /\ \A j \in DOMAIN s : ~(j > Len(w) + 1)
    BY <1>5, <2>1
  <2>4. \E i \in DOMAIN s :
          /\ s[i] = stamp
          /\ \A j \in DOMAIN s : j > i => ~parseWithRegex(s[j].content, p)
    BY <2>1, <2>3
  <2> QED
    BY <1>4, <1>6, <2>1, <2>2, <2>4 DEF s, stamp
<1>8. CASE where # {}
  <2>1. Len(s) = Len(w) /\ DOMAIN s = DOMAIN w
    BY <1>4, <1>5, <1>8
  <2>2. PICK i \in where : TRUE
    BY <1>8
  <2>3. i \in DOMAIN s /\ s[i] = stamp
    BY <1>1, <1>4, <2>1, <2>2
  <2>4. ASSUME NEW j \in DOMAIN s, j > i
        PROVE  ~parseWithRegex(s[j].content, p)
    <3>1. ~parseWithRegex(w[j].content, p)
      BY <1>1, <2>1, <2>2, <2>4
    <3> QED
      BY <1>6, <2>1, <3>1
  <2>5. \E i_1 \in DOMAIN s :
          /\ s[i_1] = stamp
          /\ \A j \in DOMAIN s : j > i_1 => ~parseWithRegex(s[j].content, p)
    BY <2>3, <2>4
  <2> QED
    BY <1>4, <1>6, <2>1, <2>5 DEF s, stamp
<1> QED
  BY <1>7, <1>8

\* What processOurParams writes are stamps.
LEMMA OurStampsAre ==
  ASSUME NEW l \in OurStamps
  PROVE  IsStamp(l) /\ l.key \in ourParams /\ l.note = ""
<1>1. PICK p \in ourParams : l = ourParamString(p, now)
  BY DEF OurStamps
<1>2. ourParamString(p, now).note = ""
  BY DEF ourParamString, SettingLine
<1> QED
  BY <1>1, <1>2, OwnStamp

\* Stamping edits no key, and changes no line that was not a stamp.
LEMMA StampEdits ==
  ASSUME TypeOK, NEW w \in Seq(WorkingLine), NEW K \in SUBSET EditKeys, EditedBy(w, K),
         NEW p \in ourParams
  PROVE  EditedBy(stampParam(w, p, now), K)
<1> DEFINE s     == stampParam(w, p, now)
           stamp == configLine(ourParamString(p, now))
<1>1. /\ s \in Seq(WorkingLine)
      /\ Len(s) \in {Len(w), Len(w) + 1}
      /\ \A i \in DOMAIN w :
           s[i] = w[i] \/ (parseWithRegex(w[i].content, p) /\ s[i] = stamp)
      /\ \A i \in DOMAIN s : i \notin DOMAIN w => s[i] = stamp
  BY StampLines DEF TypeOK
<1>2. stamp.content \in OurStamps /\ IsStamp(stamp.content) /\ ~stamp.remove
  BY OwnStamp DEF configLine, OurStamps
<1> HIDE DEF s, stamp
<1>3. /\ DOMAIN s = 1..Len(s) /\ Len(s) \in Nat
      /\ DOMAIN w = 1..Len(w) /\ Len(w) \in Nat
      /\ DOMAIN read = 1..Len(read) /\ Len(read) \in Nat
      /\ Len(read) <= Len(w)
  BY <1>1 DEF TypeOK, EditedBy
<1>4. Len(read) <= Len(s) /\ DOMAIN read \subseteq DOMAIN w /\ DOMAIN w \subseteq DOMAIN s
  <2>1. Len(s) = Len(w) \/ Len(s) = Len(w) + 1
    BY <1>1
  <2>2. Len(w) <= Len(s)
    <3>1. Len(w) \in Nat
      BY <1>3
    <3> QED
      BY <2>1, <3>1
  <2> QED
    BY <1>3, <2>2
<1>5. ASSUME NEW i \in DOMAIN s
      PROVE  \/ i \in DOMAIN w /\ s[i] = w[i]
             \/ s[i] = stamp /\ (i \in DOMAIN w => IsStamp(w[i].content))
  BY <1>1, StampIs
<1>6. ASSUME NEW i \in DOMAIN s, s[i].remove
      PROVE  IsStamp(s[i].content)
  BY <1>2, <1>5, <1>6 DEF EditedBy
<1>7. ASSUME NEW i \in DOMAIN read
      PROVE  \/ s[i].content = EditedLine(i, K)
             \/ IsStamp(EditedLine(i, K)) /\ s[i].content \in OurStamps
  <2>1. i \in DOMAIN w /\ i \in DOMAIN s
    BY <1>4
  <2>2. \/ w[i].content = EditedLine(i, K)
        \/ IsStamp(EditedLine(i, K)) /\ w[i].content \in OurStamps
    BY DEF EditedBy
  <2>3. CASE s[i] = w[i]
    BY <2>2, <2>3
  <2>4. CASE s[i] = stamp /\ IsStamp(w[i].content)
    BY <1>2, <2>2, <2>4
  <2> QED
    BY <1>5, <2>1, <2>3, <2>4
<1>8. ASSUME NEW i \in DOMAIN s, i > Len(read)
      PROVE  \/ s[i].content \in OurStamps
             \/ \E k \in K : Found(k) = {} /\ s[i].content = NewLine(k)
  <2>1. CASE i \in DOMAIN w /\ s[i] = w[i]
    BY <1>8, <2>1 DEF EditedBy
  <2>2. CASE s[i] = stamp
    BY <1>2, <2>2
  <2> QED
    BY <1>5, <2>1, <2>2
<1>9. ASSUME NEW k \in K, Found(k) = {}
      PROVE  \E i \in DOMAIN s :
               /\ i > Len(read) /\ s[i].content = NewLine(k)
               /\ \A j \in DOMAIN s : j > i => s[j].content.key # k
  <2>1. PICK i \in DOMAIN w :
          /\ i > Len(read) /\ w[i].content = NewLine(k)
          /\ \A j \in DOMAIN w : j > i => w[j].content.key # k
    BY <1>9 DEF EditedBy
  <2>2. ~IsStamp(w[i].content)
    BY <1>9, <2>1, NewLineIs
  <2>3. i \in DOMAIN s /\ s[i] = w[i]
    BY <1>4, <1>5, <2>2
  <2>4. ASSUME NEW j \in DOMAIN s, j > i
        PROVE  s[j].content.key # k
    <3>1. stamp.content.key # k
      BY KeysApart, OwnStamp DEF stamp, configLine
    <3> QED
      BY <1>5, <2>1, <2>4, <3>1
  <2> QED
    BY <2>1, <2>3, <2>4
<1> QED
  BY <1>4, <1>6, <1>7, <1>8, <1>9 DEF EditedBy, s

\* Marking duplicates changes no line, marks stamps only, and of the lines that
\* match a stamp only those with another match behind them.
LEMMA MarkLines ==
  ASSUME NEW w \in Seq(WorkingLine)
  PROVE  LET s == removeDuplicates(w)
         IN /\ s \in Seq(WorkingLine)
            /\ DOMAIN s = DOMAIN w
            /\ \A i \in DOMAIN w :
                 /\ s[i].content = w[i].content
                 /\ s[i].remove <=>
                      \/ w[i].remove
                      \/ \E p \in ourParams :
                           /\ parseWithRegex(w[i].content, p)
                           /\ \E j \in DOMAIN w : j > i /\ parseWithRegex(w[j].content, p)
<1> DEFINE s == removeDuplicates(w)
           mark(i) == \/ w[i].remove
                      \/ \E p \in ourParams :
                           /\ parseWithRegex(w[i].content, p)
                           /\ \E j \in DOMAIN w : j > i /\ parseWithRegex(w[j].content, p)
           line(i) == [content |-> w[i].content, remove |-> mark(i)]
<1>1. s = [i \in DOMAIN w |-> line(i)]
  BY DEF removeDuplicates
<1>2. \A i : line(i).content = w[i].content /\ line(i).remove = mark(i)
  OBVIOUS
<1>3. \A i \in DOMAIN w : mark(i) \in BOOLEAN
  <2> SUFFICES ASSUME NEW i \in DOMAIN w PROVE mark(i) \in BOOLEAN
    OBVIOUS
  <2>1. w[i] \in WorkingLine
    OBVIOUS
  <2>2. w[i].remove \in BOOLEAN
    BY <2>1 DEF WorkingLine
  <2> QED
    BY <2>2
<1>4. \A i \in DOMAIN w : line(i) \in WorkingLine
  <2> SUFFICES ASSUME NEW i \in DOMAIN w PROVE line(i) \in WorkingLine
    OBVIOUS
  <2>1. w[i] \in WorkingLine
    OBVIOUS
  <2>2. w[i].content \in Line /\ mark(i) \in BOOLEAN
    BY <1>3, <2>1 DEF WorkingLine
  <2> HIDE DEF mark
  <2> QED
    BY <2>2 DEF WorkingLine
<1> HIDE DEF line, s
<1>5. s \in Seq(WorkingLine) /\ DOMAIN s = DOMAIN w
  BY <1>1, <1>4
<1>6. \A i \in DOMAIN w : s[i].content = w[i].content /\ s[i].remove = mark(i)
  BY <1>1, <1>2
<1> QED
  BY <1>5, <1>6 DEF s

\* Marking edits nothing.
LEMMA MarkEdits ==
  ASSUME TypeOK, NEW w \in Seq(WorkingLine), NEW K, EditedBy(w, K)
  PROVE  EditedBy(removeDuplicates(w), K)
<1> DEFINE s == removeDuplicates(w)
<1>1. s \in Seq(WorkingLine) /\ DOMAIN s = DOMAIN w
  BY MarkLines
<1>2. \A i \in DOMAIN w : s[i].content = w[i].content
  BY MarkLines
<1>3. \A i \in DOMAIN w : s[i].remove => w[i].remove \/ IsStamp(w[i].content)
  <2>1. \A i \in DOMAIN w : s[i].remove =>
          w[i].remove \/ \E p \in ourParams : parseWithRegex(w[i].content, p)
    BY MarkLines
  <2> QED
    BY <2>1, StampIs
<1> HIDE DEF s
<1>4. Len(s) = Len(w) /\ Len(w) \in Nat /\ DOMAIN w = 1..Len(w)
  BY <1>1
<1>5. DOMAIN read \subseteq DOMAIN w
  BY <1>4 DEF EditedBy, TypeOK
<1>6. Len(read) <= Len(s)
  BY <1>4 DEF EditedBy
<1>7. \A i \in DOMAIN s : s[i].remove => IsStamp(s[i].content)
  BY <1>1, <1>2, <1>3 DEF EditedBy
<1>8. \A i \in DOMAIN read : \/ s[i].content = EditedLine(i, K)
                             \/ IsStamp(EditedLine(i, K)) /\ s[i].content \in OurStamps
  BY <1>2, <1>5 DEF EditedBy
<1>9. \A i \in DOMAIN s : i > Len(read) =>
        \/ s[i].content \in OurStamps
        \/ \E k \in K : Found(k) = {} /\ s[i].content = NewLine(k)
  BY <1>1, <1>2 DEF EditedBy
<1>10. \A k \in K : Found(k) = {} =>
         \E i \in DOMAIN s :
           /\ i > Len(read) /\ s[i].content = NewLine(k)
           /\ \A j \in DOMAIN s : j > i => s[j].content.key # k
  BY <1>1, <1>2 DEF EditedBy
<1> QED
  BY <1>6, <1>7, <1>8, <1>9, <1>10 DEF EditedBy, s

\* One unmarked stamp of kind p, of time t.
OneStamp(w, p, t) ==
  \E i \in DOMAIN w :
    /\ w[i] = configLine(ourParamString(p, t))
    /\ \A j \in DOMAIN w : parseWithRegex(w[j].content, p) /\ ~w[j].remove => j = i

\* The end of the tuning: both stamps are set, the second leaves the first
\* alone, and marking leaves one of each.
LEMMA FinishStamps ==
  ASSUME NEW w \in Seq(WorkingLine), NEW t \in Nat, \A i \in DOMAIN w : ~w[i].remove,
         NEW p \in ourParams
  PROVE  OneStamp(removeDuplicates(processOurParams(w, t)), p, t)
<1> DEFINE a == stampParam(w, lastTunedParam, t)
           b == stampParam(a, lastTunedVersionParam, t)
           s == removeDuplicates(b)
           stamp == configLine(ourParamString(p, t))
           LastIs(x) == \E i \in DOMAIN x :
                          /\ x[i] = stamp
                          /\ \A j \in DOMAIN x : j > i => ~parseWithRegex(x[j].content, p)
<1>1. lastTunedParam \in ourParams /\ lastTunedVersionParam \in ourParams
  BY DEF ourParams
<1>2. a \in Seq(WorkingLine)
  BY <1>1, StampLines
<1>3. b \in Seq(WorkingLine)
  BY <1>1, <1>2, StampLines
<1>4. \A q \in ourParams : configLine(ourParamString(q, t)).remove = FALSE
  BY DEF configLine
<1>5. \A i \in DOMAIN a : ~a[i].remove
  <2>1. \A i \in DOMAIN a : \/ i \in DOMAIN w /\ a[i] = w[i]
                            \/ a[i] = configLine(ourParamString(lastTunedParam, t))
    BY <1>1, StampLines
  <2> QED
    BY <1>1, <1>4, <2>1
<1>6. \A i \in DOMAIN b : \/ i \in DOMAIN a /\ b[i] = a[i]
                          \/ b[i] = configLine(ourParamString(lastTunedVersionParam, t))
  BY <1>1, <1>2, StampLines
<1>7. \A i \in DOMAIN b : ~b[i].remove
  BY <1>1, <1>4, <1>5, <1>6
<1>8. LastIs(b)
  <2>1. CASE p = lastTunedVersionParam
    BY <1>1, <1>2, <2>1, StampLines
  <2>2. CASE p = lastTunedParam
    <3>1. LastIs(a)
      BY <1>1, <2>2, StampLines
    <3>2. PICK i \in DOMAIN a :
            /\ a[i] = stamp
            /\ \A j \in DOMAIN a : j > i => ~parseWithRegex(a[j].content, p)
      BY <3>1
    <3>3. parseWithRegex(stamp.content, p)
      BY OwnStamp DEF configLine
    <3>4. \A l : parseWithRegex(l, p) => ~parseWithRegex(l, lastTunedVersionParam)
      BY <2>2, KeysApart DEF parseWithRegex
    <3>5. \A j \in DOMAIN a :
            \/ b[j] = a[j]
            \/ parseWithRegex(a[j].content, lastTunedVersionParam)
      BY <1>1, <1>2, StampLines
    <3>6. i \in DOMAIN b
      <4>1. /\ DOMAIN a = 1..Len(a) /\ Len(a) \in Nat
            /\ DOMAIN b = 1..Len(b) /\ Len(b) \in Nat
        BY <1>2, <1>3
      <4>2. Len(b) \in {Len(a), Len(a) + 1}
        BY <1>1, <1>2, StampLines
      <4>3. Len(b) = Len(a) \/ Len(b) = Len(a) + 1
        BY <4>2
      <4> HIDE DEF a, b
      <4>4. Len(a) \in Nat
        BY <4>1
      <4>5. Len(a) <= Len(b)
        BY <4>3, <4>4
      <4> QED
        BY <3>2, <4>1, <4>5
    <3>7. b[i] = stamp
      BY <3>2, <3>3, <3>4, <3>5
    <3>8. ASSUME NEW j \in DOMAIN b, j > i
          PROVE  ~parseWithRegex(b[j].content, p)
      <4>1. ~parseWithRegex(ourParamString(lastTunedVersionParam, t), p)
        BY <1>1, <2>2, KeysApart, OwnStamp DEF parseWithRegex
      <4>2. configLine(ourParamString(lastTunedVersionParam, t)).content
              = ourParamString(lastTunedVersionParam, t)
        BY DEF configLine
      <4> HIDE DEF a, b
      <4> QED
        BY <1>6, <3>2, <3>8, <4>1, <4>2
    <3> QED
      BY <3>6, <3>7, <3>8
  <2> QED
    BY <2>1, <2>2 DEF ourParams
<1> HIDE DEF a, b
<1>9. PICK i \in DOMAIN b :
        /\ b[i] = stamp
        /\ \A j \in DOMAIN b : j > i => ~parseWithRegex(b[j].content, p)
  BY <1>8
<1>10. /\ s \in Seq(WorkingLine) /\ DOMAIN s = DOMAIN b
       /\ \A j \in DOMAIN b : s[j].content = b[j].content
  BY <1>3, MarkLines
<1>11. \A j \in DOMAIN b :
         s[j].remove <=>
           \/ b[j].remove
           \/ \E q \in ourParams :
                /\ parseWithRegex(b[j].content, q)
                /\ \E m \in DOMAIN b : m > j /\ parseWithRegex(b[m].content, q)
  BY <1>3, MarkLines
<1> HIDE DEF s
<1>12. stamp.content = ourParamString(p, t) /\ stamp.remove = FALSE
  BY DEF configLine
<1>13. parseWithRegex(b[i].content, p)
       /\ \A q \in ourParams : parseWithRegex(b[i].content, q) => q = p
  BY <1>9, <1>12, OwnStamp DEF parseWithRegex
<1>14. ~s[i].remove
  BY <1>7, <1>9, <1>11, <1>13
<1>15. s[i] = stamp
  <2>1. s[i] \in WorkingLine /\ s[i].content = stamp.content
    BY <1>9, <1>10
  <2>2. s[i].remove = FALSE
    BY <1>14, <2>1 DEF WorkingLine
  <2> QED
    BY <1>12, <2>1, <2>2 DEF WorkingLine, configLine
<1>16. ASSUME NEW j \in DOMAIN s, parseWithRegex(s[j].content, p), ~s[j].remove
       PROVE  j = i
  <2>1. j \in DOMAIN b /\ parseWithRegex(b[j].content, p)
    BY <1>10, <1>16
  <2>2. ~(j > i)
    BY <1>9, <2>1
  <2>3. ~(i > j)
    BY <1>9, <1>11, <1>13, <1>16, <2>1
  <2>4. i \in Nat /\ j \in Nat
    BY <1>3, <1>9, <2>1
  <2> QED
    BY <2>2, <2>3, <2>4
<1> QED
  BY <1>9, <1>10, <1>15, <1>16 DEF OneStamp, s, a, b, processOurParams

-----------------------------------------------------------------------------
(* The invariant.  What is read decides what an edit does, so the relation  *)
(* between a working copy and a set of edited keys changes only with it.   *)

LEMMA SameEdits ==
  ASSUME read' = read, flags' = flags
  PROVE  /\ \A k : Found(k)' = Found(k) /\ NewLine(k)' = NewLine(k)
                   /\ PrintedLine(k)' = PrintedLine(k)
         /\ now' = now => \A w, K : EditedBy(w, K)' <=> EditedBy(w, K)
<1>1. libFound' = libFound /\ newLibLine' = newLibLine
  BY DEF libFound, newLibLine
<1>2. \A k : Found(k)' = Found(k) /\ NoteOf(k)' = NoteOf(k)
  BY <1>1 DEF Found, NoteOf
<1>3. \A k : NewLine(k)' = NewLine(k) /\ PrintedLine(k)' = PrintedLine(k)
  BY <1>1, <1>2 DEF NewLine, PrintedLine
<1>4. \A i, K : EditedLine(i, K)' = EditedLine(i, K)
  BY <1>1, <1>2, <1>3 DEF EditedLine
<1>5. ASSUME now' = now
      PROVE  \A w, K : EditedBy(w, K)' <=> EditedBy(w, K)
  <2>1. OurStamps' = OurStamps
    BY <1>5 DEF OurStamps, ourParamString
  <2> QED
    BY <1>2, <1>3, <1>4, <2>1 DEF EditedBy
<1> QED
  BY <1>2, <1>3, <1>5
\* The steps that change the working copy, what it is made from, or what of it
\* was accepted; the others only go on with a run, or end one.
LEMMA CopySteps ==
  ASSUME Modes, [Next]_vars
  PROVE  \/ \E f \in FlagSets, d \in ClockSteps : Run(f, d)
         \/ getConfigFileState
         \/ restore
         \/ processSharedLibLine
         \/ processQuietSharedLib
         \/ applySetting
         \/ finishLines
         \/ /\ UNCHANGED <<read, lines, accepted, flags, now>>
            /\ (Tuning' => Tuning) /\ (Finished' => Finished)
<1> USE DEF Goto, Exit, session, work, Tuning, Finished, Modes, Deciding
<1>1. CASE AppendOutput \/ Kill \/ EnvironmentFails
  BY <1>1 DEF AppendOutput, Kill, EnvironmentFails
<1>2. CASE initializeSystemConfig \/ processConfFileCheck
  BY <1>2 DEF initializeSystemConfig, processConfFileCheck
<1>3. CASE backup \/ backupLine \/ backupDone
  BY <1>3 DEF backup, backupLine, backupDone
<1>4. CASE createConf \/ writeLine \/ writeDone
  BY <1>4 DEF createConf, writeLine, writeDone
<1>5. CASE promptTune \/ nextGroup \/ groupError \/ processSettingsGroup
  BY <1>5 DEF promptTune, nextGroup, groupError, processSettingsGroup
<1>6. CASE applyDone \/ groupsDone \/ quietPrompt
  BY <1>6 DEF applyDone, groupsDone, quietPrompt
<1>7. CASE UNCHANGED vars
  BY <1>7 DEF vars
<1> QED
  BY <1>1, <1>2, <1>3, <1>4, <1>5, <1>6, <1>7 DEF Next, Program

\* Before the library line nothing is accepted, and no group is begun before
\* the tuning is.
LEMMA StepUndecided == Undecided /\ [Next]_vars => Undecided'
<1> SUFFICES ASSUME Undecided, [Next]_vars PROVE Undecided'
  OBVIOUS
<1> USE DEF Goto, Exit, disk, session, work, Undecided, Reading
<1>1. CASE \E f \in FlagSets, d \in ClockSteps : Run(f, d)
  BY <1>1 DEF Run
<1>2. CASE AppendOutput \/ Kill \/ EnvironmentFails \/ initializeSystemConfig
           \/ processConfFileCheck \/ getConfigFileState \/ restore
  BY <1>2 DEF AppendOutput, Kill, EnvironmentFails, initializeSystemConfig,
              processConfFileCheck, getConfigFileState, restore
<1>3. CASE backup \/ backupLine \/ backupDone \/ createConf \/ writeLine \/ writeDone
  BY <1>3 DEF backup, backupLine, backupDone, createConf, writeLine, writeDone
<1>4. CASE processSharedLibLine \/ processQuietSharedLib \/ promptTune
  BY <1>4 DEF processSharedLibLine, processQuietSharedLib, promptTune
<1>5. CASE nextGroup \/ groupError \/ processSettingsGroup
  BY <1>5 DEF nextGroup, groupError, processSettingsGroup
<1>6. CASE applySetting \/ applyDone \/ groupsDone \/ quietPrompt \/ finishLines
  BY <1>6 DEF applySetting, applyDone, groupsDone, quietPrompt, finishLines
<1>7. CASE UNCHANGED vars
  BY <1>7 DEF vars
<1> QED
  BY <1>1, <1>2, <1>3, <1>4, <1>5, <1>6, <1>7 DEF Next, Program

\* The working copy of what was read is that with no key edited.
LEMMA CopyEdits ==
  ASSUME read \in Seq(Line)
  PROVE  /\ EditedBy(WorkingCopy(read), {})
         /\ \A i \in DOMAIN WorkingCopy(read) : ~WorkingCopy(read)[i].remove
<1> DEFINE w == WorkingCopy(read)
<1>1. DOMAIN w = DOMAIN read
  BY DEF WorkingCopy
<1>2. \A i \in DOMAIN read : w[i].content = read[i] /\ w[i].remove = FALSE
  BY DEF WorkingCopy, configLine
<1>3. w \in Seq(WorkingLine)
  BY WorkingCopyType
<1> HIDE DEF w
<1>4. /\ DOMAIN w = 1..Len(w) /\ Len(w) \in Nat
      /\ DOMAIN read = 1..Len(read) /\ Len(read) \in Nat
  BY <1>3
<1>5. Len(w) = Len(read)
  BY <1>1, <1>3
<1>6. \A i \in DOMAIN w : ~(i > Len(read))
  <2>1. \A i \in DOMAIN read : ~(i > Len(read))
    OBVIOUS
  <2> QED
    BY <1>1, <2>1
<1>7. \A i \in DOMAIN read : w[i].content = EditedLine(i, {})
  BY <1>2 DEF EditedLine
<1>8. EditedBy(w, {})
  BY <1>1, <1>2, <1>4, <1>5, <1>6, <1>7 DEF EditedBy
<1> QED
  BY <1>1, <1>2, <1>8 DEF w

\* The same of what a step reads.
LEMMA CopyEditsNext == (read \in Seq(Line) => EditedBy(WorkingCopy(read), {}))'
<1>1. read \in Seq(Line) => EditedBy(WorkingCopy(read), {})
  BY CopyEdits
<1> QED
  BY <1>1, PTL

\* The two handlers of the library line take it as it is or edit its key.
LEMMA LibSteps ==
  ASSUME processSharedLibLine \/ processQuietSharedLib
  PROVE  /\ UNCHANGED <<read, flags, now>>
         /\ pc = "sharedLib"
         /\ pc' \in {"tune", "group"} \/ (pc' = "idle" /\ exit' = "declined")
         /\ \/ UNCHANGED <<lines, accepted>>
            \/ /\ lines' = PutLine(lines, Found(SharedLib), NewLine(SharedLib))
               /\ accepted' = accepted \cup {SharedLib}
<1>1. Found(SharedLib) = libFound /\ NewLine(SharedLib) = newLibLine
  BY DEF Found, NewLine
<1> USE DEF Goto, Exit, session, libUpdated
<1>2. CASE processSharedLibLine
  BY <1>1, <1>2 DEF processSharedLibLine
<1>3. CASE processQuietSharedLib
  BY <1>1, <1>3 DEF processQuietSharedLib
<1> QED
  BY <1>2, <1>3

\* A key that is applied is one of its group; it is edited if it needs to be.
LEMMA ApplySteps ==
  ASSUME TypeOK, GroupInApply, applySetting
  PROVE  /\ UNCHANGED <<read, flags, now, group>>
         /\ pc = "apply" /\ pc' = "apply" /\ exit' = exit
         /\ pos \in DOMAIN keys /\ pos' = pos + 1
         /\ keys[pos] \in TunableKeys /\ keys[pos] # SharedLib
         /\ \/ UNCHANGED <<lines, printed, accepted>> /\ ~Changed(keys[pos])
            \/ /\ lines' = PutLine(lines, Found(keys[pos]), NewLine(keys[pos]))
               /\ printed' = IF flags.quiet THEN Append(printed, PrintedLine(keys[pos]))
                                            ELSE printed
               /\ accepted' = accepted \cup {keys[pos]}
<1> DEFINE k == keys[pos]
<1>1. /\ UNCHANGED <<read, flags, now, group>>
      /\ pc = "apply" /\ pc' = "apply" /\ exit' = exit /\ pos' = pos + 1
  BY DEF applySetting, session, Goto
<1>2. group \in DOMAIN tunables /\ pos \in DOMAIN keys
  <2>1. group \in 1..5
    BY <1>1, Tunables DEF TypeOK, GroupInApply
  <2>2. keys \in Seq(Text)
    BY <2>1, Tunables, SettingsAssumption DEF keys, label
  <2>3. pos <= Len(keys)
    BY DEF applySetting
  <2> QED
    BY <2>1, <2>2, <2>3, Tunables DEF TypeOK
<1>3. k \in TunableKeys
  BY <1>2 DEF TunableKeys, KeysOf, keys, label
<1>4. k # SharedLib
  BY <1>3, KeysApart
<1>5. /\ Found(k) = tuneParseResult(read, k)
      /\ NewLine(k) = SettingLine(k, Recommend(flags.profile, k), NoteOf(k))
      /\ PrintedLine(k) = SettingLine(k, Recommend(flags.profile, k), "")
  BY <1>4 DEF Found, NewLine, PrintedLine
<1>6. \/ UNCHANGED <<lines, printed, accepted>> /\ ~Changed(k)
      \/ /\ lines' = PutLine(lines, tuneParseResult(read, k),
                             SettingLine(k, Recommend(flags.profile, k), NoteOf(k)))
         /\ printed' = IF flags.quiet
                       THEN Append(printed, SettingLine(k, Recommend(flags.profile, k), ""))
                       ELSE printed
         /\ accepted' = accepted \cup {k}
  BY DEF applySetting, NoteOf
<1> QED
  BY <1>1, <1>2, <1>3, <1>4, <1>5, <1>6

\* What the working copy is made of, at every place of a run that tunes.
CopyInv == Edited /\ Unmarked /\ Stamped

\* The copy that is finished is still the file with the accepted keys edited.
LEMMA FinishCopy ==
  ASSUME TypeOK, EditedBy(lines, accepted), accepted \subseteq EditKeys,
         \A i \in DOMAIN lines : ~lines[i].remove
  PROVE  LET s == removeDuplicates(processOurParams(lines, now))
         IN /\ EditedBy(s, accepted)
            /\ \A p \in ourParams : OneStamp(s, p, now)
<1> DEFINE a == stampParam(lines, lastTunedParam, now)
           b == stampParam(a, lastTunedVersionParam, now)
<1>1. lastTunedParam \in ourParams /\ lastTunedVersionParam \in ourParams
  BY DEF ourParams
<1>2. lines \in Seq(WorkingLine) /\ now \in Nat
  BY DEF TypeOK
<1>3. a \in Seq(WorkingLine) /\ EditedBy(a, accepted)
  BY <1>1, <1>2, StampLines, StampEdits
<1>4. b \in Seq(WorkingLine) /\ EditedBy(b, accepted)
  BY <1>1, <1>2, <1>3, StampLines, StampEdits
<1>5. EditedBy(removeDuplicates(b), accepted)
  BY <1>4, MarkEdits
<1>6. b = processOurParams(lines, now)
  BY DEF processOurParams
<1>7. \A p \in ourParams : OneStamp(removeDuplicates(processOurParams(lines, now)), p, now)
  BY <1>2, FinishStamps
<1> QED
  BY <1>5, <1>6, <1>7

LEMMA StepCopyInv ==
  TypeOK /\ GroupInApply /\ Modes /\ Undecided /\ CopyInv /\ [Next]_vars => CopyInv'
<1> SUFFICES ASSUME TypeOK, GroupInApply, Modes, Undecided, CopyInv, [Next]_vars
             PROVE  CopyInv'
  OBVIOUS
<1> USE DEF CopyInv
<1>1. CASE \E f \in FlagSets, d \in ClockSteps : Run(f, d)
  <2>1. ~Tuning' /\ ~Finished'
    BY <1>1 DEF Run, Tuning, Finished, Deciding
  <2> QED
    BY <2>1 DEF Edited, Unmarked, Stamped
<1>2. CASE getConfigFileState
  <2>1. /\ lines' = WorkingCopy(read') /\ accepted' = accepted
        /\ pc = "read" /\ pc' = "backup" /\ read' \in Seq(Line)
    <3>1. file["conf"] \in Seq(Line)
      BY DEF TypeOK
    <3> QED
      BY <1>2, <3>1, ScannedType DEF getConfigFileState, Goto
  <2>2. accepted' = {}
    BY <2>1 DEF Undecided, Reading
  <2>3. \A i \in DOMAIN WorkingCopy(read') : ~WorkingCopy(read')[i].remove
    BY <2>1, CopyEdits, WorkingCopyType DEF WorkingCopy, configLine
  <2>4. EditedBy(lines, accepted)'
    BY <2>1, <2>2, CopyEditsNext DEF WorkingCopy
  <2>5. ~Finished'
    BY <2>1 DEF Finished
  <2> QED
    BY <2>1, <2>2, <2>3, <2>4, <2>5 DEF Edited, Unmarked, Stamped
<1>3. CASE restore
  <2>1. ~Tuning' /\ ~Finished'
    BY <1>3 DEF restore, Tuning, Finished, Deciding, Goto, Exit
  <2> QED
    BY <2>1 DEF Edited, Unmarked, Stamped
<1>4. ASSUME Tuning, Tuning' \/ ~Finished', UNCHANGED <<read, flags, now>>, NEW k \in EditKeys,
             lines' = PutLine(lines, Found(k), NewLine(k)), accepted' = accepted \cup {k}
      PROVE  CopyInv'
  <2>1. /\ accepted \subseteq EditKeys /\ EditedBy(lines, accepted)
        /\ \A i \in DOMAIN lines : ~lines[i].remove
    BY <1>4 DEF Edited, Unmarked, EditKeys
  <2>2. lines \in Seq(WorkingLine) /\ NewLine(k) \in Line
    BY NewLineIs DEF TypeOK
  <2>3. EditedBy(lines', accepted')
    BY <1>4, <2>1, <2>2, EditKey
  <2>4. EditedBy(lines, accepted)'
    BY <1>4, <2>3, SameEdits
  <2>5. Found(k) \in SUBSET DOMAIN lines
    <3>1. Len(read) <= Len(lines)
      BY <2>1 DEF EditedBy
    <3>2. /\ DOMAIN read = 1..Len(read) /\ Len(read) \in Nat
          /\ DOMAIN lines = 1..Len(lines) /\ Len(lines) \in Nat
      BY DEF TypeOK
    <3>3. DOMAIN read \subseteq DOMAIN lines
      BY <3>1, <3>2
    <3> QED
      BY <3>3, FoundLine
  <2>6. \A i \in DOMAIN lines' : ~lines'[i].remove
    <3> DEFINE s == PutLine(lines, Found(k), NewLine(k))
    <3>1. /\ s \in Seq(WorkingLine)
          /\ Found(k) = {} => /\ Len(s) = Len(lines) + 1
                              /\ s[Len(lines) + 1] = configLine(NewLine(k))
          /\ Found(k) # {} => Len(s) = Len(lines)
          /\ \A i \in Found(k) : s[i] = configLine(NewLine(k))
          /\ \A i \in DOMAIN lines \ Found(k) : s[i] = lines[i]
      BY <2>2, <2>5, PutLineLines
    <3>2. configLine(NewLine(k)).remove = FALSE
      BY DEF configLine
    <3> HIDE DEF s
    <3>3. /\ DOMAIN s = 1..Len(s) /\ Len(s) \in Nat
          /\ DOMAIN lines = 1..Len(lines) /\ Len(lines) \in Nat
      BY <2>2, <3>1
    <3>4. ASSUME NEW i \in DOMAIN s
          PROVE  ~s[i].remove
      <4>1. CASE i \in DOMAIN lines
        BY <2>1, <3>1, <3>2, <4>1
      <4>2. CASE i \notin DOMAIN lines
        <5>1. CASE Found(k) = {}
          <6>1. Len(s) = Len(lines) + 1 /\ s[Len(lines) + 1] = configLine(NewLine(k))
            BY <3>1, <5>1
          <6>2. i = Len(lines) + 1
            BY <3>3, <4>2, <6>1
          <6> QED
            BY <3>2, <6>1, <6>2
        <5>2. CASE Found(k) # {}
          <6>1. Len(s) = Len(lines)
            BY <3>1, <5>2
          <6>2. DOMAIN s = DOMAIN lines
            BY <3>3, <6>1
          <6> QED
            BY <4>2, <6>2
        <5> QED
          BY <5>1, <5>2
      <4> QED
        BY <4>1, <4>2
    <3> QED
      BY <1>4, <3>4 DEF s
  <2>7. accepted' \subseteq EditKeys
    BY <1>4, <2>1
  <2>8. ~Finished'
    BY <1>4 DEF Tuning, Finished, Deciding
  <2> QED
    BY <2>4, <2>6, <2>7, <2>8 DEF Edited, Unmarked, Stamped, EditKeys
<1>5. ASSUME UNCHANGED <<read, lines, accepted, flags, now>>, Tuning' => Tuning,
             Finished' => Finished
      PROVE  CopyInv'
  <2>1. Edited'
    BY <1>5, SameEdits DEF Edited
  <2>2. Unmarked' /\ Stamped'
    BY <1>5 DEF Unmarked, Stamped
  <2> QED
    BY <2>1, <2>2
<1>6. CASE processSharedLibLine \/ processQuietSharedLib
  <2>1. /\ UNCHANGED <<read, flags, now>> /\ Tuning /\ ~Finished'
        /\ \/ UNCHANGED <<lines, accepted>>
           \/ /\ lines' = PutLine(lines, Found(SharedLib), NewLine(SharedLib))
              /\ accepted' = accepted \cup {SharedLib}
    BY <1>6, LibSteps DEF Tuning, Finished, Deciding
  <2>2. SharedLib \in EditKeys
    BY DEF EditKeys
  <2> QED
    BY <1>4, <1>5, <2>1, <2>2
<1>7. CASE applySetting
  <2>1. /\ UNCHANGED <<read, flags, now>> /\ Tuning /\ ~Finished'
        /\ keys[pos] \in EditKeys
        /\ \/ UNCHANGED <<lines, accepted>>
           \/ /\ lines' = PutLine(lines, Found(keys[pos]), NewLine(keys[pos]))
              /\ accepted' = accepted \cup {keys[pos]}
    BY <1>7, ApplySteps DEF Tuning, Finished, Deciding, EditKeys
  <2> QED
    BY <1>4, <1>5, <2>1
<1>8. CASE finishLines
  <2> DEFINE s == removeDuplicates(processOurParams(lines, now))
  <2>1. /\ UNCHANGED <<read, accepted, flags, now>> /\ Tuning /\ ~Tuning' /\ lines' = s
    BY <1>8 DEF finishLines, session, Tuning, Deciding, Goto, Exit
  <2>2. /\ accepted \subseteq EditKeys /\ EditedBy(lines, accepted)
        /\ \A i \in DOMAIN lines : ~lines[i].remove
    BY <2>1 DEF Edited, Unmarked, EditKeys
  <2>3. EditedBy(s, accepted) /\ \A p \in ourParams : OneStamp(s, p, now)
    BY <2>2, FinishCopy
  <2> HIDE DEF s
  <2>4. EditedBy(lines, accepted)'
    BY <2>1, <2>3, SameEdits
  <2>5. \A p \in ourParams : OneStamp(lines', p, now')
    BY <2>1, <2>3
  <2> QED
    BY <2>1, <2>2, <2>4, <2>5 DEF Edited, Unmarked, Stamped, EditKeys, OneStamp
<1> QED
  BY <1>1, <1>2, <1>3, <1>5, <1>6, <1>7, <1>8, CopySteps

-----------------------------------------------------------------------------
(* What has been written of the working copy.                              *)

\* Writing one more line, or passing over a marked one, writes from one more.
LEMMA WriteOne ==
  ASSUME lines \in Seq(WorkingLine), NEW c \in Seq(Line),
         pos \in Nat \ {0}, pos <= Len(lines), WrittenFrom(c, pos - 1)
  PROVE  WrittenFrom(Put(c), pos)
<1>1. PICK from \in [DOMAIN c -> 1..(pos - 1)] :
        /\ \A i, j \in DOMAIN c : i < j => from[i] < from[j]
        /\ \A i \in DOMAIN c : c[i] = lines[from[i]].content /\ ~lines[from[i]].remove
        /\ \A m \in 1..(pos - 1) : lines[m].remove \/ \E i \in DOMAIN c : from[i] = m
  BY DEF WrittenFrom
<1>2. lines[pos] \in WorkingLine
  OBVIOUS
<1>3. CASE lines[pos].remove
  <2>1. Put(c) = c
    BY <1>3 DEF Put
  <2>2. from \in [DOMAIN c -> 1..pos]
    BY <1>1
  <2>3. \A m \in 1..pos : lines[m].remove \/ \E i \in DOMAIN c : from[i] = m
    <3>1. \A m \in 1..pos : m = pos \/ m \in 1..(pos - 1)
      OBVIOUS
    <3> QED
      BY <1>1, <1>3, <3>1
  <2> QED
    BY <1>1, <2>1, <2>2, <2>3 DEF WrittenFrom
<1>4. CASE ~lines[pos].remove
  <2> DEFINE d    == Append(c, lines[pos].content)
             last == Len(c) + 1
             g    == [i \in 1..last |-> IF i = last THEN pos ELSE from[i]]
  <2>1. Put(c) = d
    BY <1>4 DEF Put
  <2>2. lines[pos].content \in Line
    BY <1>2 DEF WorkingLine
  <2>3. /\ DOMAIN d = 1..last /\ d[last] = lines[pos].content
        /\ \A i \in DOMAIN c : d[i] = c[i]
    BY <2>2
  <2>4. \A i \in 1..last : i = last \/ i \in DOMAIN c
    OBVIOUS
  <2>5. \A i \in DOMAIN c : i \in 1..last /\ i < last
    OBVIOUS
  <2>6. g[last] = pos /\ \A i \in DOMAIN c : g[i] = from[i]
    BY <2>5
  <2>7. g \in [1..last -> 1..pos]
    <3>1. \A i \in DOMAIN c : from[i] \in 1..pos
      BY <1>1
    <3> QED
      BY <2>4, <3>1
  <2>8. \A i \in DOMAIN c : from[i] \in 1..(pos - 1)
    BY <1>1
  <2> HIDE DEF g, d
  <2>9. ASSUME NEW i \in 1..last, NEW j \in 1..last, i < j
        PROVE  g[i] < g[j]
    <3>1. i \in DOMAIN c
      BY <2>9
    <3>2. CASE j = last
      BY <2>6, <2>8, <3>1, <3>2
    <3>3. CASE j \in DOMAIN c
      BY <1>1, <2>6, <2>9, <3>1, <3>3
    <3> QED
      BY <2>4, <3>2, <3>3
  <2>10. \A i \in 1..last : d[i] = lines[g[i]].content /\ ~lines[g[i]].remove
    BY <1>1, <1>4, <2>3, <2>4, <2>6
  <2>11. ASSUME NEW m \in 1..pos
         PROVE  lines[m].remove \/ \E i \in 1..last : g[i] = m
    <3>1. CASE m = pos
      BY <2>6, <3>1
    <3>2. CASE m # pos
      <4>1. m \in 1..(pos - 1)
        BY <3>2
      <4> QED
        BY <1>1, <2>5, <2>6, <4>1
    <3> QED
      BY <3>1, <3>2
  <2> HIDE DEF last
  <2>12. DOMAIN d = 1..last
    BY <2>3
  <2>13. WrittenFrom(d, pos)
    <3>1. g \in [DOMAIN d -> 1..pos]
      BY <2>7, <2>12
    <3>2. \A i, j \in DOMAIN d : i < j => g[i] < g[j]
      BY <2>9, <2>12
    <3>3. \A i \in DOMAIN d : d[i] = lines[g[i]].content /\ ~lines[g[i]].remove
      BY <2>10, <2>12
    <3>4. \A m \in 1..pos : lines[m].remove \/ \E i \in DOMAIN d : g[i] = m
      BY <2>11, <2>12
    <3> QED
      BY <3>1, <3>2, <3>3, <3>4 DEF WrittenFrom
  <2> QED
    BY <2>1, <2>13
<1> QED
  BY <1>3, <1>4

\* Nothing has been written from nothing.
LEMMA WriteNone == WrittenFrom(<<>>, 0)
<1> DEFINE from == [i \in {} |-> 0]
<1>1. DOMAIN <<>> = {} /\ 1..0 = {}
  OBVIOUS
<1>2. from \in [{} -> 1..0]
  OBVIOUS
<1> QED
  BY <1>1, <1>2 DEF WrittenFrom

LEMMA StepWritten == TypeOK /\ Modes /\ Written /\ [Next]_vars => Written'
<1> SUFFICES ASSUME TypeOK, Modes, Written, [Next]_vars PROVE Written'
  OBVIOUS
<1>1. CASE createConf
  <2>1. CASE pc' = "writeLines"
    <3>1. /\ flags' = flags /\ lines' = lines /\ pos' = 1
          /\ file' = [file EXCEPT ![outPath] = <<>>]
      BY <1>1 DEF createConf, session
    <3>2. output' = <<>>
      <4>1. outPath \in {"conf", "out"} /\ outPath' = outPath
        BY <3>1 DEF outPath
      <4>2. output' = file'[outPath]
        BY <4>1 DEF output
      <4> QED
        BY <3>1, <4>1, <4>2 DEF TypeOK
    <3>3. pos' <= Len(lines') + 1
      <4>1. Len(lines) \in Nat
        BY DEF TypeOK
      <4> QED
        BY <3>1, <4>1
    <3>4. WrittenFrom(output', pos' - 1)
      BY <3>1, <3>2, WriteNone
    <3>5. WrittenFrom(output, pos - 1)'
      BY <3>1, <3>4 DEF WrittenFrom
    <3> QED
      BY <2>1, <3>3, <3>5 DEF Written, TunedOk
  <2>2. CASE pc' # "writeLines"
    BY <1>1, <2>2 DEF createConf, Goto, Written, TunedOk
  <2> QED
    BY <2>1, <2>2
<1>2. CASE writeLine
  <2>1. CASE pc = "writeLines"
    <3>1. /\ pos <= Len(lines) /\ pos' = pos + 1 /\ pc' = "writeLines"
          /\ flags' = flags /\ lines' = lines
          /\ file' = [file EXCEPT ![outPath] = Put(@)]
      BY <1>2, <2>1 DEF writeLine, session, Goto
    <3>2. output' = Put(output) /\ output \in Seq(Line)
      <4>1. outPath \in {"conf", "out"} /\ outPath' = outPath
        BY <3>1 DEF outPath
      <4>2. output' = file'[outPath]
        BY <4>1 DEF output
      <4> QED
        BY <3>1, <4>1, <4>2 DEF TypeOK, output
    <3>3. WrittenFrom(output, pos - 1)
      BY <2>1 DEF Written
    <3>4. WrittenFrom(output', pos)
      BY <3>1, <3>2, <3>3, WriteOne DEF TypeOK
    <3>5. pos' - 1 = pos /\ pos' <= Len(lines') + 1
      BY <3>1 DEF TypeOK
    <3>6. WrittenFrom(output, pos - 1)'
      BY <3>1, <3>4, <3>5 DEF WrittenFrom
    <3> QED
      BY <3>1, <3>5, <3>6 DEF Written, TunedOk
  <2>2. CASE pc # "writeLines"
    BY <1>2, <2>2 DEF writeLine, Goto, Written, TunedOk
  <2> QED
    BY <2>1, <2>2
<1>3. CASE writeDone
  <2>1. pc' = "idle" /\ UNCHANGED <<file, flags, lines>> /\ pos > Len(lines)
    BY <1>3 DEF writeDone, disk, session, work, Exit
  <2>2. output' = output
    BY <2>1 DEF output, outPath
  <2>3. CASE pc = "writeLines"
    <3>1. pos <= Len(lines) + 1 /\ WrittenFrom(output, pos - 1)
      BY <2>3 DEF Written
    <3>2. pos - 1 = Len(lines)
      <4>1. Len(lines) \in Nat /\ pos \in Nat
        BY DEF TypeOK
      <4> QED
        BY <2>1, <3>1, <4>1
    <3>3. WrittenFrom(output, Len(lines))
      BY <3>1, <3>2
    <3>4. WrittenFrom(output, Len(lines))'
      BY <2>1, <2>2, <3>3 DEF WrittenFrom
    <3> QED
      BY <2>1, <3>4 DEF Written
  <2>4. CASE pc # "writeLines"
    <3>1. flags'.restore
      BY <1>3, <2>1, <2>4 DEF writeDone, Modes
    <3> QED
      BY <2>1, <3>1 DEF Written, TunedOk
  <2> QED
    BY <2>3, <2>4
<1>4. CASE /\ pc' # "writeLines" \/ (pc = "writeLines" /\ UNCHANGED <<file, flags, lines, pos>>)
           /\ TunedOk' => TunedOk /\ UNCHANGED <<file, flags, lines>>
  <2>1. UNCHANGED <<file, flags, lines>> => output' = output
    BY DEF output, outPath
  <2>2. UNCHANGED <<file, flags, lines, pos>> =>
          (WrittenFrom(output, pos - 1)' <=> WrittenFrom(output, pos - 1))
    BY <2>1 DEF WrittenFrom
  <2>3. UNCHANGED <<file, flags, lines>> =>
          (WrittenFrom(output, Len(lines))' <=> WrittenFrom(output, Len(lines)))
    BY <2>1 DEF WrittenFrom
  <2> QED
    BY <1>4, <2>2, <2>3 DEF Written
<1> USE DEF Goto, Exit, disk, session, work, TunedOk
<1>5. CASE \E f \in FlagSets, d \in ClockSteps : Run(f, d)
  BY <1>4, <1>5 DEF Run
<1>6. CASE AppendOutput \/ Kill \/ EnvironmentFails \/ initializeSystemConfig
           \/ processConfFileCheck \/ getConfigFileState \/ restore
  BY <1>4, <1>6 DEF AppendOutput, Kill, EnvironmentFails, initializeSystemConfig,
                    processConfFileCheck, getConfigFileState, restore
<1>7. CASE backup \/ backupLine \/ backupDone
  BY <1>4, <1>7 DEF backup, backupLine, backupDone
<1>8. CASE processSharedLibLine \/ processQuietSharedLib \/ promptTune
  BY <1>4, <1>8 DEF processSharedLibLine, processQuietSharedLib, promptTune
<1>9. CASE nextGroup \/ groupError \/ processSettingsGroup
  BY <1>4, <1>9 DEF nextGroup, groupError, processSettingsGroup
<1>10. CASE applySetting \/ applyDone \/ groupsDone \/ quietPrompt
  BY <1>4, <1>10 DEF applySetting, applyDone, groupsDone, quietPrompt
<1>11. CASE finishLines
  BY <1>4, <1>11 DEF finishLines
<1>12. CASE UNCHANGED vars
  BY <1>4, <1>12 DEF vars
<1> QED
  BY <1>1, <1>2, <1>3, <1>5, <1>6, <1>7, <1>8, <1>9, <1>10, <1>11, <1>12 DEF Next, Program

-----------------------------------------------------------------------------
(* What has been decided.                                                  *)

\* The library line is settled before anything else is tuned: when there is
\* nothing to do to it, it was found, and editing it gives the line it is.
LEMMA LibKept ==
  ASSUME TypeOK, lines = WorkingCopy(read), libUpdated = lines
  PROVE  libFound # {} /\ \A i \in libFound : updateSharedLibLine(read[i]) = read[i]
<1>1. lines \in Seq(WorkingLine) /\ newLibLine \in Line
  BY NewLibType DEF TypeOK
<1>2. libFound = Found(SharedLib)
  BY DEF Found
<1>3. DOMAIN lines = DOMAIN read /\ \A i \in DOMAIN read : lines[i] = configLine(read[i])
  BY DEF WorkingCopy
<1>4. libFound \in SUBSET DOMAIN lines
  BY <1>2, <1>3, FoundLine
<1>5. /\ libFound = {} => Len(lines) = Len(lines) + 1
      /\ \A i \in libFound : lines[i] = configLine(newLibLine)
  <2> DEFINE s == PutLine(lines, libFound, newLibLine)
  <2>1. /\ libFound = {} => Len(s) = Len(lines) + 1
        /\ \A i \in libFound : s[i] = configLine(newLibLine)
    BY <1>1, <1>4, PutLineLines
  <2>2. s = lines
    BY DEF libUpdated
  <2> QED
    BY <2>1, <2>2, Zenon
<1>6. libFound # {}
  <2>1. Len(lines) \in Nat
    BY DEF TypeOK
  <2> QED
    BY <1>5, <2>1
<1>7. ASSUME NEW i \in libFound
      PROVE  updateSharedLibLine(read[i]) = read[i]
  <2>1. configLine(read[i]) = configLine(newLibLine)
    BY <1>3, <1>4, <1>5
  <2>2. configLine(read[i]).content = read[i] /\ configLine(newLibLine).content = newLibLine
    BY DEF configLine
  <2>3. newLibLine = updateSharedLibLine(read[i])
    BY NewLibLineIs
  <2> QED
    BY <2>1, <2>2, <2>3
<1> QED
  BY <1>6, <1>7

LEMMA StepLibDecided ==
  TypeOK /\ GroupInApply /\ Modes /\ Undecided /\ CopyInv /\ LibDecided /\ [Next]_vars
    => LibDecided'
<1> SUFFICES ASSUME TypeOK, GroupInApply, Modes, Undecided, CopyInv, LibDecided, [Next]_vars,
                    Finished' \/ pc' \in Deciding \ {"sharedLib"}
             PROVE  \/ SharedLib \in accepted'
                    \/ libFound' # {} /\ \A i \in libFound' :
                                           updateSharedLibLine(read'[i]) = read'[i]
  BY DEF LibDecided
<1>1. CASE processSharedLibLine \/ processQuietSharedLib
  <2>1. pc = "sharedLib" /\ read' = read /\ libFound' = libFound
    BY <1>1, LibSteps DEF libFound
  <2>2. lines = WorkingCopy(read)
    BY <2>1 DEF Undecided
  <2>3. SharedLib \in accepted' \/ libUpdated = lines
    <3>1. ~(Finished' /\ pc = "sharedLib" /\ pc' = "idle" /\ exit' = "declined")
      BY DEF Finished
    <3> QED
      BY <1>1, <2>1, <3>1 DEF processSharedLibLine, processQuietSharedLib, Finished, Goto,
                              Exit, Deciding, Refusals
  <2> QED
    BY <2>1, <2>2, <2>3, LibKept
<1>2. ASSUME Finished \/ pc \in Deciding \ {"sharedLib"}, read' = read,
             accepted \subseteq accepted'
      PROVE  \/ SharedLib \in accepted'
             \/ libFound' # {} /\ \A i \in libFound' : updateSharedLibLine(read'[i]) = read'[i]
  BY <1>2 DEF LibDecided, libFound
<1>3. CASE applySetting
  BY <1>2, <1>3, ApplySteps DEF Deciding
<1>4. CASE finishLines
  BY <1>2, <1>4 DEF finishLines, Deciding
<1> USE DEF Goto, Exit, session, work, Finished, Deciding
<1>5. CASE (\E f \in FlagSets, d \in ClockSteps : Run(f, d)) \/ AppendOutput \/ Kill
  BY <1>5 DEF Run, AppendOutput, Kill
<1>6. CASE EnvironmentFails \/ initializeSystemConfig \/ processConfFileCheck
           \/ getConfigFileState \/ restore \/ backup \/ backupLine \/ backupDone
  BY <1>6 DEF EnvironmentFails, initializeSystemConfig, processConfFileCheck,
              getConfigFileState, restore, backup, backupLine, backupDone
<1>7. CASE createConf \/ writeLine \/ writeDone
  BY <1>2, <1>7 DEF createConf, writeLine, writeDone, Modes
<1>8. CASE promptTune \/ nextGroup \/ groupError \/ processSettingsGroup
  BY <1>2, <1>8 DEF promptTune, nextGroup, groupError, processSettingsGroup
<1>9. CASE applyDone \/ groupsDone \/ quietPrompt
  BY <1>2, <1>9 DEF applyDone, groupsDone, quietPrompt
<1>10. CASE UNCHANGED vars
  BY <1>2, <1>10 DEF vars
<1> QED
  BY <1>1, <1>3, <1>4, <1>5, <1>6, <1>7, <1>8, <1>9, <1>10 DEF Next, Program

\* A key that is done stays done.
LEMMA StaysDone ==
  ASSUME read' = read, flags' = flags, accepted \subseteq accepted', NEW g, NEW k, KeyDone(g, k)
  PROVE  KeyDone(g, k)'
BY DEF KeyDone

\* The keys of a group, by their place or as a set.
LEMMA GroupKeys ==
  ASSUME TypeOK, group <= Len(tunables)
  PROVE  /\ group \in DOMAIN tunables /\ label = tunables[group]
         /\ DOMAIN keys = 1..Len(keys) /\ Len(keys) \in Nat
         /\ \A k : k \in KeysOf(label) <=> \E i \in DOMAIN keys : k = keys[i]
<1>1. group \in DOMAIN tunables
  BY Tunables DEF TypeOK
<1>2. keys \in Seq(Text)
  BY <1>1, SettingsAssumption DEF keys, label
<1> QED
  BY <1>1, <1>2 DEF keys, label, KeysOf

LEMMA StepGroupsDone ==
  TypeOK /\ GroupInApply /\ Modes /\ Undecided /\ GroupsDone /\ [Next]_vars => GroupsDone'
<1> SUFFICES ASSUME TypeOK, GroupInApply, Modes, Undecided, GroupsDone, [Next]_vars, flags'.yes
             PROVE  GroupsDone'
  BY DEF GroupsDone
<1> DEFINE Passed(n) == \A g \in DOMAIN tunables : g < n /\ IsAvailable(tunables[g]) =>
                          \A k \in KeysOf(tunables[g]) : KeyDone(g, k)
           Closed    == Finished \/ pc \in {"quietPrompt", "ourParams"}
<1>1. ASSUME UNCHANGED <<read, flags, group>>, accepted \subseteq accepted', pc' # "apply",
             Tuning' \/ Finished' => Tuning \/ Finished,
             Closed' => Closed \/ group > Len(tunables)
      PROVE  GroupsDone'
  BY <1>1, StaysDone DEF GroupsDone
<1>2. CASE \E f \in FlagSets, d \in ClockSteps : Run(f, d)
  BY <1>2 DEF Run, GroupsDone, Tuning, Finished, Deciding
<1>3. CASE getConfigFileState
  <2>1. pc' = "backup" /\ group' = 1
    BY <1>3 DEF getConfigFileState, Goto, Undecided, Reading
  <2>2. \A g \in DOMAIN tunables : ~(g < 1)
    BY Tunables
  <2> QED
    BY <2>1, <2>2 DEF GroupsDone, Finished
<1>4. CASE processSharedLibLine \/ processQuietSharedLib
  <2>1. UNCHANGED <<read, flags, group>> /\ accepted \subseteq accepted'
    BY <1>4, LibSteps DEF processSharedLibLine, processQuietSharedLib
  <2>2. Tuning /\ pc' # "apply" /\ ~Closed'
    BY <1>4, LibSteps DEF Tuning, Finished, Deciding
  <2> QED
    BY <1>1, <2>1, <2>2
<1>5. ASSUME Passed(group), group <= Len(tunables), UNCHANGED <<read, flags>>,
             accepted \subseteq accepted', group' = group + 1, pc' = "group",
             IsAvailable(label) => \A k \in KeysOf(label) : KeyDone(group, k)
      PROVE  GroupsDone'
  <2>1. group \in DOMAIN tunables /\ label = tunables[group] /\ DOMAIN tunables = 1..5
    BY <1>5, GroupKeys, Tunables
  <2>2. \A g \in DOMAIN tunables : g < group' => g < group \/ g = group
    BY <1>5, <2>1
  <2>3. \A g \in DOMAIN tunables : g < group' /\ IsAvailable(tunables[g]) =>
          \A k \in KeysOf(tunables[g]) : KeyDone(g, k)
    BY <1>5, <2>1, <2>2
  <2>4. \A g \in DOMAIN tunables : g < group' /\ IsAvailable(tunables[g]) =>
          \A k \in KeysOf(tunables[g]) : KeyDone(g, k)'
    BY <1>5, <2>3, StaysDone
  <2> QED
    BY <1>5, <2>4 DEF GroupsDone, Finished
<1>6. CASE nextGroup
  <2>1. /\ group <= Len(tunables) /\ pc = "group" /\ group' = group + 1 /\ pc' = "group"
        /\ UNCHANGED <<read, flags, accepted>>
    BY <1>6 DEF nextGroup, session, Goto
  <2>2. flags.yes /\ Passed(group)
    BY <2>1 DEF GroupsDone, Tuning, Deciding
  <2>3. label = tunables[group]
    BY <2>1, GroupKeys
  <2>4. IsAvailable(label) => \A k \in KeysOf(label) : KeyDone(group, k)
    BY <1>6, <2>3 DEF nextGroup, KeyDone, Shown
  <2> QED
    BY <1>5, <2>1, <2>2, <2>4
<1>7. CASE processSettingsGroup
  <2>1. UNCHANGED <<read, flags, accepted>> /\ pc = "group" /\ flags.yes
    BY <1>7 DEF processSettingsGroup, session
  <2>2. pc' = "apply" /\ pos' = 1 /\ group' = group
    BY <1>7, <2>1 DEF processSettingsGroup, Replies, Goto, SkipRefusals, Refusals
  <2>3. Passed(group)
    BY <2>1 DEF GroupsDone, Tuning, Deciding
  <2>4. /\ \A k \in KeysOf(label) : ~UnexpectedParse(read, label, flags.profile, k)
        /\ group <= Len(tunables)
    BY <1>7 DEF processSettingsGroup
  <2>5. label' = label /\ keys' = keys
    BY <2>2 DEF label, keys
  <2>6. \A i \in DOMAIN keys : ~(i < 1)
    BY <2>4, GroupKeys
  <2>7. \A g \in DOMAIN tunables : g < group' /\ IsAvailable(tunables[g]) =>
          \A k \in KeysOf(tunables[g]) : KeyDone(g, k)'
    BY <2>1, <2>2, <2>3, StaysDone
  <2>8. ~Finished'
    BY <2>2 DEF Finished
  <2> QED
    BY <2>1, <2>2, <2>4, <2>5, <2>6, <2>7, <2>8 DEF GroupsDone
<1>8. CASE applySetting
  <2>0. PICK n, k0 : n = pos /\ k0 = keys[pos]
    OBVIOUS
  <2>1. /\ UNCHANGED <<read, flags, group>> /\ pc = "apply" /\ pc' = "apply"
        /\ n \in DOMAIN keys /\ pos' = n + 1 /\ accepted \subseteq accepted'
        /\ k0 \in accepted' \/ ~Changed(k0)
    BY <1>8, <2>0, ApplySteps
  <2>2. group <= Len(tunables) /\ label' = label /\ keys' = keys
    BY <2>1 DEF GroupInApply, label, keys
  <2>3. /\ group \in DOMAIN tunables /\ label = tunables[group]
        /\ DOMAIN keys = 1..Len(keys) /\ Len(keys) \in Nat
        /\ k0 \in KeysOf(label)
    BY <2>0, <2>1, <2>2, GroupKeys
  <2>4. /\ flags.yes /\ Passed(group)
        /\ \A k \in KeysOf(label) : ~UnexpectedParse(read, label, flags.profile, k)
        /\ \A i \in DOMAIN keys : i < n => KeyDone(group, keys[i])
    BY <2>0, <2>1 DEF GroupsDone, Tuning, Deciding
  <2>5. KeyDone(group, k0)'
    BY <2>1, <2>2, <2>3, <2>4 DEF KeyDone, Changed, Shown
  <2>6. \A i \in DOMAIN keys : i < pos' => i < n \/ i = n
    BY <2>1, <2>3
  <2>7. \A i \in DOMAIN keys' : i < pos' => KeyDone(group, keys[i])'
    BY <2>0, <2>1, <2>2, <2>4, <2>5, <2>6, StaysDone
  <2>8. \A g \in DOMAIN tunables : g < group' /\ IsAvailable(tunables[g]) =>
          \A k \in KeysOf(tunables[g]) : KeyDone(g, k)'
    BY <2>1, <2>4, StaysDone
  <2>9. ~Finished'
    BY <2>1 DEF Finished
  <2> QED
    BY <2>1, <2>2, <2>4, <2>7, <2>8, <2>9 DEF GroupsDone
<1>9. CASE applyDone
  <2>1. /\ pc = "apply" /\ pos > Len(keys) /\ group' = group + 1 /\ pc' = "group"
        /\ UNCHANGED <<read, flags, accepted>>
    BY <1>9 DEF applyDone, session, Goto
  <2>2. group <= Len(tunables)
    BY <2>1 DEF GroupInApply
  <2>3. /\ flags.yes /\ Passed(group)
        /\ \A i \in DOMAIN keys : i < pos => KeyDone(group, keys[i])
    BY <2>1 DEF GroupsDone, Tuning, Deciding
  <2>4. \A i \in DOMAIN keys : i < pos
    BY <2>1, <2>2, GroupKeys DEF TypeOK
  <2>5. \A k \in KeysOf(label) : KeyDone(group, k)
    BY <2>2, <2>3, <2>4, GroupKeys
  <2> QED
    BY <1>5, <2>1, <2>2, <2>3, <2>5
<1>10. CASE groupsDone
  <2>1. /\ UNCHANGED <<read, flags, group, accepted>> /\ pc = "group"
        /\ group > Len(tunables) /\ pc' # "apply"
    BY <1>10 DEF groupsDone, session, work, Goto
  <2> QED
    BY <1>1, <2>1 DEF Tuning, Deciding
<1>11. CASE finishLines
  <2>1. UNCHANGED <<read, flags, group, accepted>> /\ pc = "ourParams" /\ pc' # "apply"
    BY <1>11 DEF finishLines, session, Goto, Exit
  <2> QED
    BY <1>1, <2>1 DEF Tuning, Deciding
<1>12. CASE promptTune
  <2>1. /\ UNCHANGED <<read, flags, group, accepted>> /\ pc = "tune"
        /\ pc' = "group"
    BY <1>12 DEF promptTune, session, work, Goto, Replies
  <2> QED
    BY <1>1, <2>1 DEF Tuning, Finished, Deciding
<1>13. CASE quietPrompt
  <2>1. UNCHANGED <<read, flags, group, accepted>> /\ pc = "quietPrompt" /\ pc' # "apply"
    BY <1>13 DEF quietPrompt, session, Goto, Exit
  <2> QED
    BY <1>1, <2>1 DEF Tuning, Deciding
<1> USE DEF Goto, Exit, disk, session, work, Tuning, Finished, Deciding
<1>14. CASE AppendOutput \/ Kill \/ EnvironmentFails \/ initializeSystemConfig
            \/ processConfFileCheck \/ restore
  BY <1>1, <1>14 DEF AppendOutput, Kill, EnvironmentFails, initializeSystemConfig,
                     processConfFileCheck, restore
<1>15. CASE backup \/ backupLine \/ backupDone
  BY <1>1, <1>15 DEF backup, backupLine, backupDone
<1>16. CASE createConf \/ writeLine \/ writeDone
  BY <1>1, <1>16 DEF createConf, writeLine, writeDone, Modes
<1>17. CASE groupError
  BY <1>1, <1>17 DEF groupError
<1>18. CASE UNCHANGED vars
  <2>1. UNCHANGED <<read, flags, group, accepted, pc, exit, pos>>
    BY <1>18 DEF vars
  <2>2. label' = label /\ keys' = keys
    BY <2>1 DEF label, keys
  <2>3. \A g, k : KeyDone(g, k)' <=> KeyDone(g, k)
    BY <2>1 DEF KeyDone
  <2> QED
    BY <2>1, <2>2, <2>3 DEF GroupsDone
<1> QED
  BY <1>2, <1>3, <1>4, <1>6, <1>7, <1>8, <1>9, <1>10, <1>11, <1>12, <1>13, <1>14, <1>15,
     <1>16, <1>17, <1>18 DEF Next, Program

-----------------------------------------------------------------------------
(* What has been printed.                                                  *)

\* What is printed for a key is a line of that key; for the library list, the
\* line that is written.
LEMMA PrintedLineIs ==
  ASSUME TypeOK, NEW k \in EditKeys
  PROVE  /\ PrintedLine(k) \in Line
         /\ k = SharedLib => PrintedLine(k) = NewLine(k)
         /\ k # SharedLib => /\ PrintedLine(k).key = k
                             /\ PrintedLine(k).form = "live"
                             /\ PrintedLine(k).val = Recommend(flags.profile, k)
<1>1. CASE k = SharedLib
  <2>1. PrintedLine(k) = NewLine(k)
    BY <1>1 DEF PrintedLine, NewLine
  <2> QED
    BY <1>1, <2>1, NewLineIs
<1>2. CASE k # SharedLib
  <2>1. PrintedLine(k) = SettingLine(k, Recommend(flags.profile, k), "")
    BY <1>2 DEF PrintedLine
  <2>2. NewLine(k) = SettingLine(k, Recommend(flags.profile, k), NoteOf(k))
    BY <1>2 DEF NewLine
  <2>3. NewLine(k) \in Line
    BY NewLineIs
  <2>4. k \in Text /\ Recommend(flags.profile, k) \in Value
    BY <2>2, <2>3 DEF SettingLine, Line
  <2>5. PrintedLine(k) \in Line
    BY <2>1, <2>4, SettingLineType, TextAssumption
  <2>6. /\ PrintedLine(k).key = k /\ PrintedLine(k).form = "live"
        /\ PrintedLine(k).val = Recommend(flags.profile, k)
    <3> DEFINE r == Recommend(flags.profile, k)
               s == SettingLine(k, r, "")
    <3>1. PrintedLine(k) = s
      BY <2>1
    <3>2. s.key = k /\ s.form = "live" /\ s.val = r
      BY DEF SettingLine
    <3> HIDE DEF s
    <3>3. PrintedLine(k).key = k
      BY <3>1, <3>2
    <3>4. PrintedLine(k).form = "live"
      BY <3>1, <3>2
    <3>5. PrintedLine(k).val = r
      BY <3>1, <3>2
    <3> QED
      BY <3>3, <3>4, <3>5
  <2> QED
    BY <1>2, <2>5, <2>6
<1> QED
  BY <1>1, <1>2

\* Printing one more key; the library line is printed before all others.
LEMMA PrintOne ==
  ASSUME TypeOK, NEW text \in Seq(Line), NEW K \in SUBSET EditKeys, PrintedFor(text, K),
         NEW k \in EditKeys, k = SharedLib => K = {}
  PROVE  PrintedFor(Append(text, PrintedLine(k)), K \cup {k})
<1> DEFINE s == Append(text, PrintedLine(k))
           n == Len(text) + 1
<1>1. PrintedLine(k) \in Line /\ (k # SharedLib => PrintedLine(k).key = k)
  BY PrintedLineIs
<1>2. /\ \A i \in DOMAIN text : i \in DOMAIN s /\ s[i] = text[i] /\ i < n
      /\ \A i \in DOMAIN s : i \in DOMAIN text \/ i = n
      /\ n \in DOMAIN s /\ s[n] = PrintedLine(k)
      /\ \A i \in DOMAIN s : ~(i > n)
  BY <1>1
<1> HIDE DEF s, n
<1>3. ASSUME NEW i \in DOMAIN s
      PROVE  s[i].key \in ourParams \/ \E h \in K \cup {k} : s[i] = PrintedLine(h)
  BY <1>2 DEF PrintedFor
<1>4. ASSUME NEW h \in K \cup {k}
      PROVE  \E i \in DOMAIN s :
               /\ s[i] = PrintedLine(h)
               /\ \A j \in DOMAIN s : j > i => s[j].key # h
  <2>1. CASE h = k
    BY <1>2, <2>1
  <2>2. CASE h # k
    <3>1. PICK i \in DOMAIN text :
            text[i] = PrintedLine(h) /\ \A j \in DOMAIN text : j > i => text[j].key # h
      BY <2>2 DEF PrintedFor
    <3>2. PrintedLine(k).key # h
      BY <1>1, <2>2
    <3>3. \A j \in DOMAIN s : j > i => s[j].key # h
      BY <1>2, <3>1, <3>2
    <3> QED
      BY <1>2, <3>1, <3>3
  <2> QED
    BY <2>1, <2>2
<1> QED
  BY <1>3, <1>4 DEF PrintedFor, s

\* Printing the stamps.
LEMMA PrintStamps ==
  ASSUME TypeOK, NEW text \in Seq(Line), NEW K \in SUBSET EditKeys, PrintedFor(text, K),
         NEW a \in Line, NEW b \in Line, a.key \in ourParams, b.key \in ourParams
  PROVE  PrintedFor(text \o <<a, b>>, K)
<1> DEFINE s == text \o <<a, b>>
<1>1. /\ \A i \in DOMAIN text : i \in DOMAIN s /\ s[i] = text[i]
      /\ \A i \in DOMAIN s : i \in DOMAIN text \/ s[i] = a \/ s[i] = b
  <2>1. DOMAIN <<a, b>> = 1..2 /\ Len(<<a, b>>) = 2
    OBVIOUS
  <2>2. <<a, b>> \in Seq(Line)
    OBVIOUS
  <2>3. ASSUME NEW t \in Seq(Line), Len(t) = 2
        PROVE  /\ \A i \in DOMAIN text : i \in DOMAIN (text \o t) /\ (text \o t)[i] = text[i]
               /\ \A i \in DOMAIN (text \o t) :
                    i \in DOMAIN text \/ (text \o t)[i] = t[1] \/ (text \o t)[i] = t[2]
    <3>1. /\ Len(text \o t) = Len(text) + 2 /\ Len(text) \in Nat
          /\ text \o t \in Seq(Line)
      <4>1. text \o t \in Seq(Line) /\ Len(text \o t) = Len(text) + Len(t)
        OBVIOUS
      <4> QED
        BY <2>3, <4>1
    <3>2. DOMAIN (text \o t) = 1..(Len(text) + 2) /\ DOMAIN text = 1..Len(text)
      BY <3>1
    <3>3. \A i \in 1..(Len(text) + 2) :
            (text \o t)[i] = IF i <= Len(text) THEN text[i] ELSE t[i - Len(text)]
      BY <2>3, <3>1
    <3>4. \A i \in 1..(Len(text) + 2) :
            i \in 1..Len(text) \/ i - Len(text) = 1 \/ i - Len(text) = 2
      BY <3>1
    <3> QED
      BY <3>2, <3>3, <3>4
  <2> QED
    BY <2>1, <2>2, <2>3
<1> HIDE DEF s
<1>2. \A i \in DOMAIN s : s[i].key \in ourParams \/ \E k \in K : s[i] = PrintedLine(k)
  BY <1>1 DEF PrintedFor
<1>3. ASSUME NEW k \in K
      PROVE  \E i \in DOMAIN s :
               s[i] = PrintedLine(k) /\ \A j \in DOMAIN s : j > i => s[j].key # k
  <2>1. PICK i \in DOMAIN text :
          text[i] = PrintedLine(k) /\ \A j \in DOMAIN text : j > i => text[j].key # k
    BY DEF PrintedFor
  <2>2. k \notin ourParams
    BY KeysApart
  <2>3. \A j \in DOMAIN s : j > i => s[j].key # k
    BY <1>1, <2>1, <2>2
  <2> QED
    BY <1>1, <2>1, <2>3
<1> QED
  BY <1>2, <1>3 DEF PrintedFor, s

LEMMA StepPrinted ==
  TypeOK /\ GroupInApply /\ Modes /\ Undecided /\ CopyInv /\ Printed /\ [Next]_vars
    => Printed'
<1> SUFFICES ASSUME TypeOK, GroupInApply, Modes, Undecided, CopyInv, Printed, [Next]_vars,
                    flags'.quiet, Finished' \/ pc' \in Deciding
             PROVE  PrintedFor(printed, accepted)'
  BY DEF Printed
<1>1. ASSUME read' = read, flags' = flags, NEW s, NEW K, printed' = s, accepted' = K,
             PrintedFor(s, K)
      PROVE  PrintedFor(printed, accepted)'
  BY <1>1, SameEdits DEF PrintedFor
<1>2. printed \in Seq(Line) /\ (Tuning => accepted \in SUBSET EditKeys)
  BY DEF TypeOK, CopyInv, Edited, EditKeys
<1>3. CASE backup \/ backupDone
  <2>1. UNCHANGED <<read, flags, printed, accepted>> /\ printed = <<>> /\ accepted = {}
    BY <1>3 DEF backup, backupDone, session, work, Undecided, Reading
  <2>2. PrintedFor(<<>>, {})
    BY DEF PrintedFor
  <2> QED
    BY <1>1, <2>1, <2>2
<1>4. CASE processSharedLibLine
  BY <1>4 DEF processSharedLibLine, session
<1>5. CASE processQuietSharedLib
  <2>1. UNCHANGED <<read, flags>> /\ pc = "sharedLib"
    BY <1>5 DEF processQuietSharedLib, session
  <2>2. /\ accepted \in SUBSET EditKeys /\ PrintedFor(printed, accepted)
        /\ accepted = {}
    BY <1>2, <2>1 DEF Printed, Tuning, Deciding, Undecided
  <2>3. \/ UNCHANGED <<printed, accepted>>
        \/ /\ printed' = Append(printed, PrintedLine(SharedLib))
           /\ accepted' = accepted \cup {SharedLib}
    BY <1>5 DEF processQuietSharedLib, PrintedLine
  <2>4. PrintedFor(Append(printed, PrintedLine(SharedLib)), accepted \cup {SharedLib})
    BY <1>2, <2>2, PrintOne DEF EditKeys
  <2> QED
    BY <1>1, <2>1, <2>2, <2>3, <2>4
<1>6. CASE applySetting
  <2> DEFINE k == keys[pos]
  <2>1. /\ UNCHANGED <<read, flags>> /\ pc = "apply" /\ k \in EditKeys /\ k # SharedLib
        /\ \/ UNCHANGED <<printed, accepted>>
           \/ printed' = Append(printed, PrintedLine(k)) /\ accepted' = accepted \cup {k}
    BY <1>6, ApplySteps DEF EditKeys
  <2>2. accepted \in SUBSET EditKeys /\ PrintedFor(printed, accepted)
    BY <1>2, <2>1 DEF Printed, Tuning, Deciding
  <2>3. PrintedFor(Append(printed, PrintedLine(k)), accepted \cup {k})
    BY <1>2, <2>1, <2>2, PrintOne
  <2> QED
    BY <1>1, <2>1, <2>2, <2>3
<1>7. CASE quietPrompt
  <2> DEFINE a == ourParamString(lastTunedParam, now)
             b == ourParamString(lastTunedVersionParam, now)
  <2>1. /\ UNCHANGED <<read, flags, accepted>> /\ pc = "quietPrompt"
        /\ printed' = printed \/ printed' = printed \o <<a, b>>
    BY <1>7 DEF quietPrompt, session
  <2>2. accepted \in SUBSET EditKeys /\ PrintedFor(printed, accepted)
    BY <1>2, <2>1 DEF Printed, Tuning, Deciding
  <2>3. a \in Line /\ b \in Line /\ a.key \in ourParams /\ b.key \in ourParams
    <3>1. lastTunedParam \in ourParams /\ lastTunedVersionParam \in ourParams
      BY DEF ourParams
    <3>2. now \in Nat
      BY DEF TypeOK
    <3> QED
      BY <3>1, <3>2, StampType, OwnStamp
  <2> HIDE DEF a, b
  <2>4. PrintedFor(printed \o <<a, b>>, accepted)
    BY <1>2, <2>2, <2>3, PrintStamps
  <2> QED
    BY <1>1, <2>1, <2>2, <2>4
<1>8. ASSUME UNCHANGED <<read, flags, printed, accepted>>, Finished \/ pc \in Deciding
      PROVE  PrintedFor(printed, accepted)'
  BY <1>1, <1>8 DEF Printed
<1> USE DEF Goto, Exit, session, work, Finished, Deciding
<1>9. CASE (\E f \in FlagSets, d \in ClockSteps : Run(f, d)) \/ AppendOutput \/ Kill
  BY <1>9 DEF Run, AppendOutput, Kill
<1>10. CASE EnvironmentFails \/ initializeSystemConfig \/ processConfFileCheck
            \/ getConfigFileState \/ restore \/ backupLine
  BY <1>10 DEF EnvironmentFails, initializeSystemConfig, processConfFileCheck,
               getConfigFileState, restore, backupLine
<1>11. CASE createConf \/ writeLine \/ writeDone
  BY <1>8, <1>11 DEF createConf, writeLine, writeDone, Modes
<1>12. CASE promptTune \/ nextGroup \/ groupError \/ processSettingsGroup
  BY <1>8, <1>12 DEF promptTune, nextGroup, groupError, processSettingsGroup
<1>13. CASE applyDone \/ groupsDone \/ finishLines
  BY <1>8, <1>13 DEF applyDone, groupsDone, finishLines
<1>14. CASE UNCHANGED vars
  BY <1>8, <1>14 DEF vars
<1> QED
  BY <1>3, <1>4, <1>5, <1>6, <1>7, <1>9, <1>10, <1>11, <1>12, <1>13, <1>14 DEF Next, Program

-----------------------------------------------------------------------------
\* The whole invariant holds in every reachable state.
THEOREM EditInductive == Spec => [](TypeInv /\ Modes /\ EditInv)
<1> USE DEF TypeInv, EditInv, CopyInv
<1>1. Init => TypeInv /\ Modes /\ EditInv
  <2> SUFFICES ASSUME Init PROVE TypeInv /\ Modes /\ EditInv
    OBVIOUS
  <2>1. pc = "idle" /\ exit = "none"
    BY DEF Init
  <2>2. TypeInv /\ Modes
    BY <2>1, InitType DEF GroupInApply, Modes, Deciding
  <2>3. ~Tuning /\ ~Finished /\ ~TunedOk
    BY <2>1 DEF Tuning, Finished, Deciding, TunedOk
  <2>4. Undecided /\ Written /\ LibDecided /\ Printed /\ GroupsDone
    BY <2>1, <2>3 DEF Undecided, Reading, Written, LibDecided, Deciding, Printed, GroupsDone
  <2> QED
    BY <2>2, <2>3, <2>4 DEF Edited, Unmarked, Stamped
<1>2. TypeInv /\ Modes /\ EditInv /\ [Next]_vars => (TypeInv /\ Modes /\ EditInv)'
  BY StepType, StepGroup, StepModes, StepUndecided, StepCopyInv, StepWritten,
     StepLibDecided, StepGroupsDone, StepPrinted
<1> QED
  BY <1>1, <1>2, PTL DEF Spec
=============================================================================
