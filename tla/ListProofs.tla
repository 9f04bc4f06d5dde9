----------------------------- MODULE ListProofs -----------------------------
(***************************************************************************)
(* Proofs about the list of backups a restore shows, for every number of   *)
(* overlapping runs: the types, what a run has when it writes the file,    *)
(* and, with a clock that only goes forward, the order of the list.        *)
(***************************************************************************)
EXTENDS SessionsProofs, FiniteSetTheorems

-----------------------------------------------------------------------------
(* Sorting.                                                                *)

Increasing(s) == \A i, j \in DOMAIN s : i < j => s[i] < s[j]

\* The place of a number among those of a finite set: one behind the number of
\* the smaller ones.
Rank(S, x) == Cardinality({y \in S : y < x}) + 1

LEMMA Ranks ==
  ASSUME NEW S \in SUBSET Int, IsFiniteSet(S)
  PROVE  /\ \A x \in S : Rank(S, x) \in 1..Cardinality(S)
         /\ \A x, y \in S : x < y => Rank(S, x) < Rank(S, y)
<1> DEFINE Below(x) == {y \in S : y < x}
<1>1. \A x \in S : IsFiniteSet(Below(x)) /\ Cardinality(Below(x)) \in Nat
  <2> SUFFICES ASSUME NEW x \in S
               PROVE  IsFiniteSet(Below(x)) /\ Cardinality(Below(x)) \in Nat
    OBVIOUS
  <2>1. Below(x) \in SUBSET S
    OBVIOUS
  <2> HIDE DEF Below
  <2> QED
    BY <2>1, FS_Subset, FS_CardinalityType
<1>2. ASSUME NEW x \in S, NEW T \in SUBSET S, Below(x) \subseteq T, x \in T
      PROVE  Cardinality(Below(x)) + 1 <= Cardinality(T)
  <2>1. x \notin Below(x) /\ Below(x) \cup {x} \in SUBSET T
    BY <1>2
  <2> HIDE DEF Below
  <2>2. Cardinality(Below(x) \cup {x}) = Cardinality(Below(x)) + 1
    BY <1>1, <2>1, FS_AddElement
  <2>3. IsFiniteSet(T)
    BY FS_Subset
  <2>4. Cardinality(Below(x) \cup {x}) <= Cardinality(T)
    BY <2>1, <2>3, FS_Subset
  <2> QED
    BY <2>2, <2>4
<1>3. \A x \in S : Below(x) \subseteq S
  OBVIOUS
<1>4. \A x, y \in S : x < y => Below(x) \subseteq Below(y) /\ x \in Below(y)
  <2> SUFFICES ASSUME NEW x \in S, NEW y \in S, x < y
               PROVE  Below(x) \subseteq Below(y) /\ x \in Below(y)
    OBVIOUS
  <2>1. \A z \in S : z < x => z < y
    <3>1. x \in Int /\ y \in Int /\ \A z \in S : z \in Int
      OBVIOUS
    <3> QED
      BY <3>1
  <2> QED
    BY <2>1
<1>5. Cardinality(S) \in Nat
  BY FS_CardinalityType
<1>6. \A x : Rank(S, x) = Cardinality(Below(x)) + 1
  BY DEF Rank
<1> HIDE DEF Below
<1>7. ASSUME NEW x \in S
      PROVE  Rank(S, x) \in 1..Cardinality(S)
  <2>1. Cardinality(Below(x)) + 1 <= Cardinality(S) /\ Cardinality(Below(x)) \in Nat
    BY <1>1, <1>2, <1>3
  <2> QED
    BY <1>5, <1>6, <2>1
<1>8. ASSUME NEW x \in S, NEW y \in S, x < y
      PROVE  Rank(S, x) < Rank(S, y)
  <2>1. Below(y) \in SUBSET S /\ Below(x) \subseteq Below(y) /\ x \in Below(y)
    BY <1>3, <1>4, <1>8
  <2>2. Cardinality(Below(x)) + 1 <= Cardinality(Below(y))
    BY <1>2, <2>1
  <2>3. Cardinality(Below(x)) \in Nat /\ Cardinality(Below(y)) \in Nat
    BY <1>1
  <2>4. Rank(S, x) = Cardinality(Below(x)) + 1 /\ Rank(S, y) = Cardinality(Below(y)) + 1
    BY <1>6
  <2> QED
    BY <2>2, <2>3, <2>4
<1> QED
  BY <1>7, <1>8

\* Every finite set of numbers can be sorted: each number has its own rank, so
\* each rank has a number.
LEMMA Sorts ==
  ASSUME NEW S \in SUBSET Int, IsFiniteSet(S)
  PROVE  /\ Cardinality(S) \in Nat
         /\ sorted(S) \in [1..Cardinality(S) -> S] /\ Increasing(sorted(S))
         /\ \A x \in S : \E i \in 1..Cardinality(S) : sorted(S)[i] = x
<1> DEFINE n == Cardinality(S)
           rank == [x \in S |-> Rank(S, x)]
<1>1. n \in Nat /\ IsFiniteSet(1..n) /\ Cardinality(1..n) = n
  <2>1. n \in Nat
    BY FS_CardinalityType
  <2> HIDE DEF n
  <2>2. IsFiniteSet(1..n) /\ Cardinality(1..n) = IF 1 > n THEN 0 ELSE n - 1 + 1
    BY <2>1, FS_Interval
  <2> QED
    BY <2>1, <2>2
<1>a. (\A x \in S : x \in Int) /\ (\A i \in 1..n : i \in Int)
  BY <1>1
<1>2. rank \in [S -> 1..n] /\ \A x, y \in S : x < y => rank[x] < rank[y]
  BY Ranks
<1> HIDE DEF rank
<1>3. rank \in Injection(S, 1..n)
  <2>1. \A x, y \in S : rank[x] = rank[y] => x = y
    <3> SUFFICES ASSUME NEW x \in S, NEW y \in S, rank[x] = rank[y] PROVE x = y
      OBVIOUS
    <3>1. ~(x < y) /\ ~(y < x)
      <4>1. rank[x] \in Int
        BY <1>1, <1>2
      <4> QED
        BY <1>2, <4>1
    <3> QED
      BY <3>1
  <2> QED
    BY <1>2, <2>1 DEF Injection, IsInjective
<1>4. rank \in Surjection(S, 1..n)
  BY <1>1, <1>3, FS_Injection
<1>5. \A i \in 1..n : \E x \in S : rank[x] = i
  BY <1>4 DEF Surjection
<1> DEFINE s == [i \in 1..n |-> CHOOSE x \in S : rank[x] = i]
<1>6. s \in [1..n -> S] /\ \A i \in 1..n : rank[s[i]] = i
  BY <1>5
<1> HIDE DEF s
<1>7. \A i, j \in DOMAIN s : i < j => s[i] < s[j]
  <2> SUFFICES ASSUME NEW i \in 1..n, NEW j \in 1..n, i < j PROVE s[i] < s[j]
    BY <1>6
  <2>1. s[i] \in S /\ s[j] \in S /\ rank[s[i]] = i /\ rank[s[j]] = j
    BY <1>6
  <2>2. s[j] < s[i] => j < i
    BY <1>2, <2>1
  <2>3. s[i] # s[j]
    BY <1>1, <2>1
  <2>4. s[i] \in Int /\ s[j] \in Int
    BY <1>a, <2>1
  <2>5. ~(j < i)
    BY <1>a
  <2> QED
    BY <2>2, <2>3, <2>4, <2>5
<1>8. sorted(S) \in [1..n -> S] /\ \A i, j \in DOMAIN sorted(S) : i < j => sorted(S)[i] < sorted(S)[j]
  <2>1. \E t \in [1..n -> S] : \A i, j \in DOMAIN t : i < j => t[i] < t[j]
    BY <1>6, <1>7
  <2>2. sorted(S) = CHOOSE t \in [1..n -> S] : \A i, j \in DOMAIN t : i < j => t[i] < t[j]
    BY DEF sorted
  <2> QED
    BY <2>1, <2>2
<1> DEFINE r == sorted(S)
<1> HIDE DEF n, r
<1>9. r \in [1..n -> S] /\ \A i, j \in 1..n : i < j => r[i] < r[j]
  BY <1>8 DEF r
<1>10. r \in Injection(1..n, S)
  <2>1. \A i, j \in 1..n : r[i] = r[j] => i = j
    <3> SUFFICES ASSUME NEW i \in 1..n, NEW j \in 1..n, r[i] = r[j] PROVE i = j
      OBVIOUS
    <3>1. r[i] \in Int /\ i \in Int /\ j \in Int
      <4>1. r[i] \in S
        BY <1>9
      <4> QED
        BY <1>a, <4>1
    <3>2. ~(i < j) /\ ~(j < i)
      BY <1>9, <3>1
    <3> QED
      BY <3>1, <3>2
  <2> QED
    BY <1>9, <2>1 DEF Injection, IsInjective
<1>11. r \in Surjection(1..n, S)
  BY <1>1, <1>10, FS_Injection DEF n
<1>12. \A x \in S : \E i \in 1..n : r[i] = x
  BY <1>11 DEF Surjection
<1> QED
  BY <1>1, <1>8, <1>12 DEF n, r, Increasing

LEMMA Halves == \A m \in Nat : m \div 2 \in Nat /\ (m = 2 * (m \div 2) \/ m = 2 * (m \div 2) + 1)
BY SMT

\* A function on 1..n is a sequence of n numbers.
LEMMA Sequences ==
  ASSUME NEW n \in Nat, NEW S \in SUBSET Nat, NEW t \in [1..n -> S]
  PROVE  t \in Seq(Nat) /\ DOMAIN t = 1..n /\ Len(t) = n
<1>1. \A i \in 1..n : t[i] \in Nat
  OBVIOUS
<1>2. t \in [1..n -> Nat]
  BY <1>1
<1> QED
  BY <1>2

\* The loop of the program turns the list around, a middle name included.
LEMMA Reverses ==
  ASSUME NEW s \in Seq(Nat)
  PROVE  /\ reversed(s) \in Seq(Nat) /\ DOMAIN reversed(s) = DOMAIN s
         /\ \A i \in DOMAIN s : Len(s) + 1 - i \in DOMAIN s
                                /\ reversed(s)[i] = s[Len(s) + 1 - i]
<1> DEFINE half == Len(s) \div 2
           f(i) == IF i <= half \/ i > Len(s) - half THEN s[Len(s) + 1 - i] ELSE s[i]
<1>1. Len(s) \in Nat /\ DOMAIN s = 1..Len(s) /\ \A i \in 1..Len(s) : s[i] \in Nat
  OBVIOUS
<1>2. half \in Nat /\ (Len(s) = 2 * half \/ Len(s) = 2 * half + 1)
  BY <1>1, Halves
<1>3. reversed(s) = [i \in DOMAIN s |-> f(i)]
  BY DEF reversed
<1>4. ASSUME NEW i \in DOMAIN s
      PROVE  Len(s) + 1 - i \in DOMAIN s /\ f(i) = s[Len(s) + 1 - i]
  <2> HIDE DEF half
  <2>1. Len(s) + 1 - i \in 1..Len(s)
    BY <1>1
  <2>2. i <= half \/ i > Len(s) - half \/ Len(s) + 1 - i = i
    <3>1. i \in Nat /\ half \in Nat /\ Len(s) \in Nat
      <4>1. i \in 1..Len(s)
        BY <1>1
      <4>2. i \in Nat
        BY <1>1, <4>1
      <4> QED
        BY <1>1, <1>2, <4>2
    <3>2. CASE Len(s) = 2 * half
      BY <3>1, <3>2
    <3>3. CASE Len(s) = 2 * half + 1
      BY <3>1, <3>3
    <3> QED
      BY <1>2, <3>2, <3>3
  <2> QED
    BY <1>1, <2>1, <2>2
<1> HIDE DEF half, f
<1>5. \A i \in DOMAIN s : f(i) \in Nat
  BY <1>1, <1>4
<1>6. [i \in 1..Len(s) |-> f(i)] \in Seq(Nat)
  BY <1>1, <1>5
<1> QED
  BY <1>1, <1>3, <1>4, <1>6

LEMMA BackupNames ==
  ASSUME Typed, IsFiniteSet(DOMAIN backups)
  PROVE  getBackups \in SUBSET Int /\ getBackups \in SUBSET Nat /\ IsFiniteSet(getBackups)
<1> DEFINE S == getBackups
<1>1. S \in SUBSET Int /\ S \in SUBSET Nat /\ IsFiniteSet(S)
  <2>1. S \in SUBSET (DOMAIN backups)
    BY DEF getBackups
  <2>2. IsFiniteSet(S)
    BY <2>1, FS_Subset
  <2>3. \A m \in S : m \in Int /\ m > 0
    BY DEF getBackups, Typed
  <2> HIDE DEF S
  <2>4. \A m \in S : m \in Nat
    BY <2>3
  <2> QED
    BY <2>2, <2>4
<1> QED
  BY <1>1

\* What a restore shows: backups only, the latest name first.
LEMMA Lists ==
  ASSUME Typed, IsFiniteSet(DOMAIN backups)
  PROVE  LET s == reversed(sorted(getBackups))
         IN /\ s \in Seq(Nat)
            /\ \A i \in DOMAIN s : s[i] \in getBackups
            /\ \A i, j \in DOMAIN s : i < j => s[i] > s[j]
<1> DEFINE S == getBackups
           n == Cardinality(S)
           t == sorted(S)
           s == reversed(t)
<1>1. S \in SUBSET Int /\ S \in SUBSET Nat /\ IsFiniteSet(S)
  BY BackupNames
<1> HIDE DEF S
<1>2. n \in Nat /\ t \in [1..n -> S] /\ Increasing(t)
  BY <1>1, Sorts
<1> HIDE DEF n, t
<1>3. t \in Seq(Nat) /\ DOMAIN t = 1..n /\ Len(t) = n
  BY <1>1, <1>2, Sequences
<1>4. /\ s \in Seq(Nat) /\ DOMAIN s = 1..n
      /\ \A i \in 1..n : n + 1 - i \in 1..n /\ s[i] = t[n + 1 - i]
  BY <1>3, Reverses
<1> HIDE DEF s
<1>5. \A i \in DOMAIN s : s[i] \in S
  BY <1>2, <1>4
<1>6. ASSUME NEW i \in DOMAIN s, NEW j \in DOMAIN s, i < j
      PROVE  s[i] > s[j]
  <2>1. n + 1 - j < n + 1 - i /\ n + 1 - i \in 1..n /\ n + 1 - j \in 1..n
    BY <1>2, <1>4, <1>6
  <2>2. t[n + 1 - j] < t[n + 1 - i]
    BY <1>2, <1>3, <2>1 DEF Increasing
  <2>3. s[j] < s[i]
    BY <1>4, <2>2
  <2>4. s[i] \in S /\ s[j] \in S
    BY <1>5
  <2> QED
    BY <1>1, <2>3, <2>4
<1> QED
  BY <1>4, <1>5, <1>6 DEF s, t, S

\* The list is empty only when there are no backups.
LEMMA ListsAll ==
  ASSUME Typed, IsFiniteSet(DOMAIN backups), getBackups # {}
  PROVE  reversed(sorted(getBackups)) # <<>>
<1> DEFINE S == getBackups
           n == Cardinality(S)
           t == sorted(S)
<1>1. S \in SUBSET Int /\ S \in SUBSET Nat /\ IsFiniteSet(S) /\ S # {}
  BY BackupNames
<1> HIDE DEF S
<1>2. n \in Nat /\ t \in [1..n -> S] /\ \A x \in S : \E i \in 1..n : t[i] = x
  BY <1>1, Sorts
<1> HIDE DEF n, t
<1>3. t \in Seq(Nat) /\ DOMAIN t = 1..n
  BY <1>1, <1>2, Sequences
<1>4. DOMAIN reversed(t) # {}
  <2>1. DOMAIN reversed(t) = DOMAIN t
    BY <1>3, Reverses
  <2> QED
    BY <1>1, <1>2, <1>3, <2>1
<1>5. DOMAIN reversed(t) # {} => reversed(t) # <<>>
  OBVIOUS
<1> QED
  BY <1>4, <1>5 DEF t, S

-----------------------------------------------------------------------------
(* The types of all the variables.                                         *)

\* What the proof of StandingTextKept had no need of.
TypedMore ==
  /\ IsFiniteSet(DOMAIN backups)
  /\ wall \in Nat \ {0} /\ saves \in Nat
  /\ name \in [Proc -> Nat] /\ list \in [Proc -> Seq(Nat)]
  /\ made \in Seq(Nat)
  /\ deleted \subseteq Text
  /\ replaced \subseteq [by : Proc, text : Text, new : BOOLEAN]

\* The names of the backups there are at first, and those of them that are
\* backups of this program.
LEMMA EarlierNames ==
  LET S == {n \in Earlier : n > 0}
  IN S \in SUBSET Int /\ S \in SUBSET Nat /\ IsFiniteSet(S) /\ IsFiniteSet(Earlier)
<1> DEFINE S == {n \in Earlier : n > 0}
<1>1. IsFiniteSet(Earlier) /\ Earlier \in SUBSET Int
  BY SessionsAssumption
<1>2. S \in SUBSET Earlier /\ \A n \in S : n > 0
  OBVIOUS
<1> HIDE DEF S
<1>3. IsFiniteSet(S)
  BY <1>1, <1>2, FS_Subset
<1>4. \A n \in S : n \in Int
  BY <1>1, <1>2
<1>5. \A n \in S : n \in Nat
  BY <1>2, <1>4
<1> QED
  BY <1>1, <1>3, <1>4, <1>5 DEF S

LEMMA InitTypedMore == Init => TypedMore
<1> SUFFICES ASSUME Init PROVE TypedMore
  OBVIOUS
<1> DEFINE S == {n \in Earlier : n > 0}
           n == Cardinality(S)
<1>1. S \in SUBSET Int /\ S \in SUBSET Nat /\ IsFiniteSet(S) /\ IsFiniteSet(Earlier)
  BY EarlierNames
<1>2. made = sorted(S) /\ DOMAIN backups = Earlier
  BY DEF Init
<1> HIDE DEF S
<1>3. n \in Nat /\ sorted(S) \in [1..n -> S]
  BY <1>1, Sorts
<1> HIDE DEF n
<1>4. made \in Seq(Nat)
  BY <1>1, <1>2, <1>3, Sequences
<1>5. wall \in Nat \ {0}
  BY SessionsAssumption DEF Init
<1>6. saves \in Nat /\ name \in [Proc -> Nat] /\ list \in [Proc -> Seq(Nat)]
      /\ deleted = {} /\ replaced = {}
  BY DEF Init
<1> QED
  BY <1>1, <1>2, <1>4, <1>5, <1>6 DEF TypedMore

LEMMA StepTypedMore == Typed /\ TypedMore /\ [Next]_vars => TypedMore'
<1> SUFFICES ASSUME Typed, TypedMore, [Next]_vars PROVE TypedMore'
  OBVIOUS
<1> USE DEF TypedMore
<1>1. ASSUME NEW p \in Proc, backup(p)
      PROVE  TypedMore'
  <2>1. DOMAIN backups' = DOMAIN backups \cup {wall}
    BY <1>1 DEF backup
  <2>2. IsFiniteSet(DOMAIN backups')
    BY <2>1, FS_AddElement
  <2>3. made' \in Seq(Nat) /\ name' \in [Proc -> Nat]
    BY <1>1 DEF backup
  <2> QED
    BY <1>1, <2>2, <2>3 DEF backup
<1>2. ASSUME NEW p \in Proc, backupLine(p)
      PROVE  TypedMore'
  <2>1. DOMAIN backups' = DOMAIN backups
    BY <1>2 DEF backupLine
  <2> QED
    BY <1>2, <2>1 DEF backupLine
<1>3. ASSUME NEW p \in Proc, Create(p)
      PROVE  TypedMore'
  <2>1. current(files) \in Text
    <3>1. Len(files) \in 1..Len(files)
      BY DEF Typed
    <3> QED
      BY <3>1 DEF current, Typed
  <2>2. replaced' \subseteq [by : Proc, text : Text, new : BOOLEAN]
    <3> DEFINE r == [by |-> p, text |-> current(files), new |-> current(files) \in since[p]]
    <3>1. r \in [by : Proc, text : Text, new : BOOLEAN]
      BY <2>1
    <3>2. replaced' = replaced \/ replaced' = replaced \cup {r}
      BY <1>3 DEF Create
    <3> HIDE DEF r
    <3> QED
      BY <3>1, <3>2
  <2> QED
    BY <1>3, <2>2 DEF Create
<1>4. ASSUME NEW p \in Proc, List(p)
      PROVE  TypedMore'
  <2>1. reversed(sorted(getBackups)) \in Seq(Nat)
    BY Lists
  <2>2. list' \in [Proc -> Seq(Nat)]
    BY <1>4, <2>1 DEF List
  <2> QED
    BY <1>4, <2>2 DEF List
<1>5. ASSUME NEW p \in Proc, Open(p) \/ Read(p) \/ backupDone(p) \/ Edit(p) \/ writeLine(p)
                             \/ writeDone(p) \/ Pick(p) \/ Die(p)
      PROVE  TypedMore'
  BY <1>5 DEF Open, Read, backupDone, Edit, writeLine, writeDone, Pick, Die
<1>6. ASSUME NEW text \in Saved, Save(text)
      PROVE  TypedMore'
  BY <1>6 DEF Save
<1>7. ASSUME NEW n \in DOMAIN backups, Clean(n)
      PROVE  TypedMore'
  <2>1. DOMAIN backups' = DOMAIN backups \ {n} /\ deleted' = deleted \cup {backups[n]}
    BY <1>7 DEF Clean
  <2>2. IsFiniteSet(DOMAIN backups')
    BY <2>1, FS_RemoveElement
  <2>3. deleted' \subseteq Text
    BY <2>1 DEF Typed
  <2> QED
    BY <1>7, <2>2, <2>3 DEF Clean
<1>8. CASE Clock
  <2>1. wall' \in Nat \ {0}
    BY <1>8, SessionsAssumption DEF Clock
  <2> QED
    BY <1>8, <2>1 DEF Clock
<1>9. CASE UNCHANGED vars
  BY <1>9 DEF vars
<1> QED
  BY <1>1, <1>2, <1>3, <1>4, <1>5, <1>6, <1>7, <1>8, <1>9 DEF Next, Step

\* Both parts of the types hold in every state, with no assumption.
LEMMA TypedAlways == Spec => [](Typed /\ TypedMore)
<1>1. Init => Typed /\ TypedMore
  BY Initially, InitTypedMore DEF IInv
<1>2. Typed /\ TypedMore /\ [Next]_vars => (Typed /\ TypedMore)'
  BY TypedStep, TypedRest, StepTypedMore DEF Next
<1> QED
  BY <1>1, <1>2, PTL DEF Spec

\* Every variable has its type, however many runs there are.
THEOREM SessionsTyped == Spec => []TypeOK
<1>1. Typed /\ TypedMore => TypeOK
  BY DEF Typed, TypedMore, TypeOK
<1> QED
  BY <1>1, TypedAlways, PTL

-----------------------------------------------------------------------------
(* What a run has when it writes the file.                                 *)

\* A restoring run holds the beginning of a text of its list, or of a deleted one.
Offered(p) ==
  \/ \E t \in deleted : BeginningOf(lines[p], t)
  \/ \E i \in DOMAIN list[p] :
       list[p][i] \in DOMAIN backups /\ BeginningOf(lines[p], backups[list[p][i]])

\* A run has a list when it restores and none when it tunes.  While it writes, a
\* tuning run's text is archived and a restoring run's text is one it was offered.
Backing(p) ==
  /\ pc[p] \in {"off", "read", "backup", "backupLines", "edit", "create", "list"} => list[p] = <<>>
  /\ pc[p] \in {"pick", "truncate"} => list[p] # <<>>
  /\ pc[p] = "truncate" \/ (pc[p] = "writeLines" /\ list[p] # <<>>) => Offered(p)
  /\ pc[p] = "writeLines" /\ list[p] = <<>> => Archived(read[p])

LEMMA Beginnings ==
  /\ \A s \in Text : BeginningOf(s, s)
  /\ \A s, t, u \in Text : BeginningOf(s, t) /\ BeginningOf(t, u) => BeginningOf(s, u)
  /\ \A t \in Text : \A i \in 1..Len(t) : BeginningOf(SubSeq(t, 1, i - 1), SubSeq(t, 1, i))
<1>1. ASSUME NEW s \in Text
      PROVE  BeginningOf(s, s)
  BY DEF BeginningOf, Text
<1>2. ASSUME NEW s \in Text, NEW t \in Text, NEW u \in Text, BeginningOf(s, t), BeginningOf(t, u)
      PROVE  BeginningOf(s, u)
  <2>1. Len(s) \in Nat /\ Len(t) \in Nat /\ Len(u) \in Nat /\ Len(s) <= Len(t) /\ Len(t) <= Len(u)
    BY <1>2 DEF BeginningOf, Text
  <2>2. s = SubSeq(t, 1, Len(s)) /\ t = SubSeq(u, 1, Len(t))
    BY <1>2 DEF BeginningOf
  <2>3. u \in Seq(Line \cup {Hole}) /\ s \in Seq(Line \cup {Hole}) /\ t \in Seq(Line \cup {Hole})
    BY DEF Text
  <2>4. \A i \in 1..Len(s) : s[i] = t[i] /\ t[i] = u[i]
    BY <2>1, <2>2, <2>3
  <2>5. SubSeq(u, 1, Len(s)) = [i \in 1..Len(s) |-> u[i]]
    BY <2>1, <2>3
  <2>6. s = [i \in 1..Len(s) |-> s[i]]
    BY <2>3
  <2> QED
    BY <2>1, <2>4, <2>5, <2>6 DEF BeginningOf
<1>3. ASSUME NEW t \in Text, NEW i \in 1..Len(t)
      PROVE  BeginningOf(SubSeq(t, 1, i - 1), SubSeq(t, 1, i))
  <2>1. t \in Seq(Line \cup {Hole}) /\ Len(t) \in Nat /\ i \in Nat /\ i >= 1 /\ i <= Len(t)
    BY DEF Text
  <2> DEFINE s == SubSeq(t, 1, i - 1)
             u == SubSeq(t, 1, i)
  <2>2. Len(s) = i - 1 /\ Len(u) = i /\ u \in Seq(Line \cup {Hole})
    BY <2>1
  <2>3. s = [j \in 1..(i - 1) |-> t[j]] /\ \A j \in 1..i : u[j] = t[j]
    BY <2>1
  <2>4. SubSeq(u, 1, i - 1) = [j \in 1..(i - 1) |-> u[j]]
    <3> HIDE DEF u
    <3> QED
      BY <2>1, <2>2
  <2> HIDE DEF s, u
  <2>5. s = SubSeq(u, 1, i - 1)
    BY <2>1, <2>3, <2>4
  <2>6. BeginningOf(s, u)
    BY <2>1, <2>2, <2>5 DEF BeginningOf
  <2> QED
    BY <2>6 DEF s, u
<1> QED
  BY <1>1, <1>2, <1>3

\* Texts in backups last: a backup only grows, unless it is deleted, and a text
\* in a backup nobody writes stays archived.
Lasting ==
  /\ deleted \subseteq deleted'
  /\ \A n \in DOMAIN backups :
       \/ backups[n] \in deleted'
       \/ n \in DOMAIN backups' /\ BeginningOf(backups[n], backups'[n])
  /\ \A text : Archived(text) => Archived(text)'

LEMMA StepLasting ==
  ASSUME IInv, [Next]_vars, Apart
  PROVE  Lasting
<1>1. \A n \in DOMAIN backups : backups[n] \in Text
  BY DEF IInv, Typed
<1>2. ASSUME NEW p \in Proc, backup(p)
      PROVE  Lasting
  <2>1. wall \notin DOMAIN backups /\ DOMAIN backups' = DOMAIN backups \cup {wall}
    BY <1>2 DEF backup
  <2>2. deleted' = deleted /\ \A n \in DOMAIN backups : backups'[n] = backups[n]
    BY <1>2, <2>1 DEF backup
  <2>3. \A q \in Proc : BackingUp(q)' => (BackingUp(q) /\ name'[q] = name[q]) \/ name'[q] = wall
    BY <1>2 DEF backup, Goto, BackingUp, IInv, Typed
  <2>4. \A n \in DOMAIN backups : Finished(n) => Finished(n)'
    BY <2>1, <2>3 DEF Finished
  <2> QED
    BY <1>1, <2>1, <2>2, <2>4, Beginnings DEF Lasting, Archived
<1>3. ASSUME NEW p \in Proc, backupLine(p)
      PROVE  Lasting
  <2>1. UNCHANGED <<pc, name, deleted>>
    BY <1>3 DEF backupLine
  <2>2. BackingUp(p) /\ Growing(p) /\ lines[p] = read[p]
    BY <1>3 DEF backupLine, BackingUp, IInv, Copied
  <2>3. read[p] \in Text /\ pos[p] \in 1..Len(read[p])
    BY <1>3, <2>2, Whole DEF backupLine, IInv, Typed
  <2>4. /\ backups' = [backups EXCEPT ![name[p]] = WriteAt(backups[name[p]], pos[p], read[p][pos[p]])]
        /\ name[p] \in DOMAIN backups
        /\ backups[name[p]] = SubSeq(read[p], 1, pos[p] - 1)
    BY <1>3, <2>2 DEF backupLine, Growing
  <2>5. /\ DOMAIN backups' = DOMAIN backups
        /\ backups'[name[p]] = SubSeq(read[p], 1, pos[p])
        /\ \A n \in DOMAIN backups \ {name[p]} : backups'[n] = backups[n]
    BY <2>3, <2>4, WriteAtGrows
  <2>6. \A n \in DOMAIN backups : BeginningOf(backups[n], backups'[n])
    <3>1. BeginningOf(SubSeq(read[p], 1, pos[p] - 1), SubSeq(read[p], 1, pos[p]))
      BY <2>3, Beginnings
    <3>2. BeginningOf(backups[name[p]], backups'[name[p]])
      BY <2>4, <2>5, <3>1
    <3>3. \A n \in DOMAIN backups \ {name[p]} : BeginningOf(backups[n], backups'[n])
      BY <1>1, <2>5, Beginnings
    <3> QED
      BY <3>2, <3>3
  <2>7. \A n : Finished(n) => n # name[p] /\ Finished(n)'
    BY <2>1, <2>2 DEF Finished, BackingUp
  <2> QED
    BY <2>1, <2>5, <2>6, <2>7 DEF Lasting, Archived
<1>4. ASSUME NEW m \in DOMAIN backups, Clean(m)
      PROVE  Lasting
  <2>1. /\ DOMAIN backups' = DOMAIN backups \ {m}
        /\ \A n \in DOMAIN backups \ {m} : backups'[n] = backups[n]
        /\ deleted' = deleted \cup {backups[m]} /\ UNCHANGED <<pc, name>>
    BY <1>4 DEF Clean
  <2>2. \A n : Finished(n) => Finished(n)'
    BY <2>1 DEF Finished, BackingUp
  <2> QED
    BY <1>1, <2>1, <2>2, Beginnings DEF Lasting, Archived
<1>5. ASSUME UNCHANGED <<backups, deleted, name>>, \A q \in Proc : BackingUp(q)' => BackingUp(q)
      PROVE  Lasting
  <2>1. \A n : Finished(n) => Finished(n)'
    BY <1>5 DEF Finished
  <2> QED
    BY <1>1, <1>5, <2>1, Beginnings DEF Lasting, Archived
<1>6. ASSUME NEW p \in Proc, Step(p), ~backup(p), ~backupLine(p)
      PROVE  Lasting
  <2>1. UNCHANGED <<backups, deleted, name>>
    BY <1>6 DEF Step, Open, Read, backupDone, Edit, Create, writeLine, writeDone, List, Pick, Die
  <2>2. pc' = pc \/ \E w \in PCs \ {"backupLines"} : pc' = [pc EXCEPT ![p] = w]
    BY <1>6 DEF Step, Open, Read, backupDone, Edit, Create, writeLine, writeDone, List, Pick, Die,
                Goto, PCs
  <2>3. \A q \in Proc : BackingUp(q)' => BackingUp(q)
    BY <2>2 DEF BackingUp, IInv, Typed
  <2> QED
    BY <1>5, <2>1, <2>3
<1>7. CASE (\E text \in Saved : Save(text)) \/ Clock \/ UNCHANGED vars
  <2>1. UNCHANGED <<backups, deleted, name, pc>>
    BY <1>7 DEF Save, Clock, vars
  <2> QED
    BY <1>5, <2>1 DEF BackingUp
<1> QED
  BY <1>2, <1>3, <1>4, <1>6, <1>7 DEF Next

\* What a run was offered it is still offered, while its list and its text stay.
LEMMA OfferedLasts ==
  ASSUME Typed, Lasting, NEW p \in Proc, Offered(p), list'[p] = list[p], lines'[p] = lines[p],
         deleted' \subseteq Text, \A n \in DOMAIN backups' : backups'[n] \in Text
  PROVE  Offered(p)'
<1>1. lines[p] \in Text /\ \A n \in DOMAIN backups : backups[n] \in Text
  BY DEF Typed
<1>2. CASE \E t \in deleted : BeginningOf(lines[p], t)
  BY <1>2 DEF Offered, Lasting
<1>3. CASE \E i \in DOMAIN list[p] :
             list[p][i] \in DOMAIN backups /\ BeginningOf(lines[p], backups[list[p][i]])
  <2>1. PICK i \in DOMAIN list[p] :
          list[p][i] \in DOMAIN backups /\ BeginningOf(lines[p], backups[list[p][i]])
    BY <1>3
  <2> DEFINE n == list[p][i]
  <2>2. n \in DOMAIN backups /\ BeginningOf(lines[p], backups[n]) /\ backups[n] \in Text
    BY <1>1, <2>1
  <2> HIDE DEF n
  <2>3. CASE backups[n] \in deleted'
    BY <2>2, <2>3 DEF Offered
  <2>4. CASE n \in DOMAIN backups' /\ BeginningOf(backups[n], backups'[n])
    <3>1. BeginningOf(lines'[p], backups'[n])
      BY <1>1, <2>2, <2>4, Beginnings
    <3>2. i \in DOMAIN list'[p] /\ list'[p][i] = n
      BY <2>1 DEF n
    <3> QED
      BY <2>4, <3>1, <3>2 DEF Offered
  <2> QED
    BY <2>2, <2>3, <2>4 DEF Lasting
<1> QED
  BY <1>2, <1>3 DEF Offered

\* A run whose own place does not change stays backed.
LEMMA OthersBacked ==
  ASSUME Typed, Typed', TypedMore', Lasting, NEW p \in Proc, Backing(p),
         pc'[p] = pc[p], list'[p] = list[p], lines'[p] = lines[p], read'[p] = read[p]
  PROVE  Backing(p)'
<1>1. deleted' \subseteq Text /\ \A n \in DOMAIN backups' : backups'[n] \in Text
  BY DEF Typed, TypedMore
<1>2. Offered(p) => Offered(p)'
  BY <1>1, OfferedLasts
<1>3. Archived(read[p]) => Archived(read[p])'
  BY DEF Lasting, Archived
<1> QED
  BY <1>2, <1>3 DEF Backing

LEMMA InitBacking == Init => \A p \in Proc : Backing(p)
BY DEF Init, Backing

\* The run that takes the step: it goes to a place for which it has what it needs.
LEMMA StepBacking ==
  ASSUME IInv, IInv', TypedMore, TypedMore', Lasting, NEW p \in Proc, Backing(p), Step(p)
  PROVE  Backing(p)'
<1>1. Typed /\ pc[p] \in PCs /\ list[p] \in Seq(Nat) /\ lines[p] \in Text
  BY DEF IInv, Typed, TypedMore
<1>2. CASE Open(p) \/ Read(p) \/ backup(p) \/ backupDone(p) \/ Edit(p)
  <2>1. list[p] = <<>> /\ list' = list
    BY <1>2 DEF Open, Read, backup, backupDone, Edit, Backing
  <2>2. pc'[p] \in {"read", "list", "backup", "backupLines", "edit", "create", "ended"}
    BY <1>1, <1>2 DEF Open, Read, backup, backupDone, Edit, Goto, Typed
  <2>3. pc'[p] # "create" => pc'[p] \notin {"pick", "truncate", "writeLines"}
    BY <2>2
  <2> QED
    BY <2>1, <2>2, <2>3 DEF Backing
<1>3. CASE backupLine(p)
  <2>1. pc[p] = "backupLines" /\ pc' = pc /\ list' = list
    BY <1>3 DEF backupLine
  <2> QED
    BY <2>1 DEF Backing
<1>4. CASE Create(p)
  <2>1. /\ pc'[p] = "writeLines" /\ pc[p] \in {"create", "truncate"}
        /\ UNCHANGED <<backups, read, lines, name, list, deleted>>
    BY <1>1, <1>4 DEF Create, Goto, Typed
  <2>2. CASE pc[p] = "create"
    <3>1. Archived(read[p]) /\ list[p] = <<>>
      BY <2>2 DEF IInv, Kept, BackedUp, Backing
    <3>2. Archived(read[p])'
      BY <2>1, <3>1 DEF Lasting, Archived
    <3> QED
      BY <2>1, <3>1, <3>2 DEF Backing
  <2>3. CASE pc[p] = "truncate"
    <3>1. Offered(p) /\ list[p] # <<>>
      BY <2>3 DEF Backing
    <3>2. Offered(p)'
      BY <2>1, <3>1 DEF Offered
    <3> QED
      BY <2>1, <3>1, <3>2 DEF Backing
  <2> QED
    BY <2>1, <2>2, <2>3
<1>5. CASE writeLine(p)
  <2>1. UNCHANGED <<pc, lines, list, read>>
    BY <1>5 DEF writeLine
  <2> QED
    BY <1>1, <2>1, OthersBacked DEF IInv
<1>6. CASE writeDone(p) \/ Die(p)
  <2>1. pc'[p] \in {"ok", "ended"}
    BY <1>1, <1>6 DEF writeDone, Die, Goto, Typed
  <2> QED
    BY <2>1 DEF Backing
<1>7. CASE List(p)
  <2>1. pc'[p] = (IF getBackups = {} THEN "ended" ELSE "pick")
    BY <1>1, <1>7 DEF List, Goto, Typed
  <2>2. getBackups # {} => list'[p] # <<>>
    <3>1. list'[p] = reversed(sorted(getBackups))
      BY <1>7 DEF List, TypedMore
    <3>2. getBackups # {} => reversed(sorted(getBackups)) # <<>>
      BY <1>1, ListsAll DEF TypedMore
    <3> QED
      BY <3>1, <3>2
  <2> QED
    BY <2>1, <2>2 DEF Backing
<1>8. CASE Pick(p)
  <2>1. pc[p] = "pick" /\ list[p] # <<>> /\ UNCHANGED <<list, backups, deleted>>
    BY <1>8 DEF Pick, Backing
  <2>2. CASE pc'[p] = "ended"
    BY <2>2 DEF Backing
  <2>3. CASE pc'[p] # "ended"
    <3>1. PICK i \in 1..Len(list[p]) :
            list[p][i] \in DOMAIN backups /\ lines' = [lines EXCEPT ![p] = backups[list[p][i]]]
            /\ pc' = [pc EXCEPT ![p] = "truncate"]
      BY <1>1, <1>8, <2>3 DEF Pick, Goto, Typed, numberedListChecker
    <3>2. pc'[p] = "truncate" /\ lines'[p] = backups[list[p][i]] /\ i \in DOMAIN list[p]
      BY <1>1, <3>1 DEF Typed
    <3>3. BeginningOf(lines'[p], backups[list[p][i]])
      BY <3>1, <3>2, Beginnings DEF IInv, Typed
    <3>4. Offered(p)'
      BY <2>1, <3>1, <3>2, <3>3 DEF Offered
    <3> QED
      BY <2>1, <3>2, <3>4 DEF Backing
  <2> QED
    BY <2>2, <2>3
<1> QED
  BY <1>2, <1>3, <1>4, <1>5, <1>6, <1>7, <1>8 DEF Step

LEMMA KeepsBacking ==
  ASSUME Apart, IInv, TypedMore, \A p \in Proc : Backing(p), [Next]_vars
  PROVE  (\A p \in Proc : Backing(p))'
<1>1. IInv' /\ TypedMore' /\ Lasting /\ Typed /\ Typed'
  BY Inductive, StepTypedMore, StepLasting DEF IInv
<1>2. ASSUME NEW p \in Proc, Step(p), NEW q \in Proc
      PROVE  Backing(q)'
  <2>1. CASE q = p
    BY <1>1, <1>2, <2>1, StepBacking
  <2>2. CASE q # p
    <3>1. /\ pc'[q] = pc[q] /\ list'[q] = list[q] /\ lines'[q] = lines[q] /\ read'[q] = read[q]
      BY <1>1, <1>2, <2>2 DEF Step, Open, Read, backup, backupLine, backupDone, Edit, Create,
            writeLine, writeDone, List, Pick, Die, Goto, Typed, TypedMore
    <3> QED
      BY <1>1, <3>1, OthersBacked
  <2> QED
    BY <2>1, <2>2
<1>3. CASE \/ \E text \in Saved : Save(text)
           \/ \E n \in DOMAIN backups : Clean(n)
           \/ Clock
           \/ UNCHANGED vars
  <2>1. UNCHANGED <<pc, list, lines, read>>
    BY <1>3 DEF Save, Clean, Clock, vars
  <2> QED
    BY <1>1, <2>1, OthersBacked
<1> QED
  BY <1>2, <1>3 DEF Next

\* Whatever runs, the cleaner and the clock do in between: the file is cut short
\* and written only by a run that has its backup, or the text it was told to
\* restore (Run, restore), as long as no backup is overwritten.
THEOREM WritesBacked ==
  ASSUME Apart
  PROVE  Spec => WritesAreCovered
<1> DEFINE Inv == IInv /\ TypedMore /\ \A p \in Proc : Backing(p)
<1>1. Init => Inv
  BY Initially, InitTypedMore, InitBacking
<1>2. Inv /\ [Next]_vars => Inv'
  BY Inductive, StepTypedMore, KeepsBacking DEF IInv
<1>3. Inv /\ [Next]_vars =>
        [files' # files =>
           \/ saves' # saves
           \/ \E p \in Proc : /\ pc'[p] = "writeLines" /\ (pc'[p] # pc[p] \/ pos'[p] # pos[p])
                              /\ Covered(p)]_vars
  <2> SUFFICES ASSUME Inv, [Next]_vars, files' # files, saves' = saves
               PROVE  \E p \in Proc : /\ pc'[p] = "writeLines"
                                      /\ (pc'[p] # pc[p] \/ pos'[p] # pos[p]) /\ Covered(p)
    OBVIOUS
  <2>1. PICK p \in Proc : Create(p) \/ writeLine(p)
    <3>1. ~(\E text \in Saved : Save(text))
      BY DEF Save, TypedMore
    <3> QED
      BY <3>1 DEF Next, Step, Clean, Clock, vars, Open, Read, backup, backupLine, backupDone, Edit,
                  writeDone, List, Pick, Die
  <2>2. pc[p] \in {"create", "truncate", "writeLines"} /\ pc'[p] = "writeLines"
        /\ (pc'[p] # pc[p] \/ pos'[p] # pos[p])
    <3>1. pos[p] \in Nat /\ pos[p] + 1 # pos[p]
      BY DEF IInv, Typed
    <3> QED
      BY <2>1, <3>1 DEF Create, writeLine, Goto, IInv, Typed
  <2>3. Backing(p) /\ Kept(p)
    BY DEF IInv
  <2>4. Archived(read[p]) => read[p] \in deleted \/ \E n \in DOMAIN backups : backups[n] = read[p]
    BY DEF Archived
  <2>5. Covered(p)
    <3>1. CASE pc[p] = "create"
      BY <2>3, <2>4, <3>1 DEF Backing, Kept, BackedUp, Covered
    <3>2. CASE pc[p] # "create"
      <4>1. list[p] = <<>> => Archived(read[p])
        BY <2>2, <2>3, <3>2 DEF Backing
      <4>2. list[p] # <<>> => Offered(p)
        BY <2>2, <2>3, <3>2 DEF Backing
      <4> QED
        BY <2>4, <4>1, <4>2 DEF Covered, Offered
    <3> QED
      BY <3>1, <3>2
  <2> QED
    BY <2>2, <2>5
<1> HIDE DEF Inv
<1> QED
  BY <1>1, <1>2, <1>3, PTL DEF Spec, WritesAreCovered

-----------------------------------------------------------------------------
(* The order of the list, when the clock goes forward only.                *)

\* The names of the backups were made in their order, none of them later than
\* now, and every backup of the program has been made.
Ordered ==
  /\ \A k \in DOMAIN made : made[k] <= wall
  /\ \A k, l \in DOMAIN made : k < l => made[k] <= made[l]
  /\ \A n \in getBackups : \E k \in DOMAIN made : made[k] = n

\* The list a run shows is in falling order, of names that have been made.
Shown(p) ==
  pc[p] = "pick" =>
    /\ \A i, j \in DOMAIN list[p] : i < j => list[p][i] > list[p][j]
    /\ \A i \in DOMAIN list[p] : \E k \in DOMAIN made : made[k] = list[p][i]

OrderInv == Ordered /\ \A p \in Proc : Shown(p)

LEMMA InitOrder == Init => OrderInv
<1> SUFFICES ASSUME Init PROVE OrderInv
  OBVIOUS
<1> DEFINE S == {n \in Earlier : n > 0}
           n == Cardinality(S)
<1>1. S \in SUBSET Int /\ IsFiniteSet(S)
  BY EarlierNames
<1>2. made = sorted(S) /\ getBackups = S
  BY DEF Init, getBackups
<1>3. \A m \in S : m < wall
  BY DEF Init
<1> HIDE DEF S
<1>4. /\ n \in Nat /\ made \in [1..n -> S] /\ Increasing(made)
      /\ \A x \in S : \E i \in 1..n : made[i] = x
  BY <1>1, <1>2, Sorts
<1> HIDE DEF n
<1>5. wall \in Int /\ \A m \in S : m \in Int
  BY <1>1, SessionsAssumption DEF Init
<1>6. DOMAIN made = 1..n /\ \A k \in 1..n : made[k] \in S
  BY <1>4
<1>7. \A k \in DOMAIN made : made[k] <= wall
  BY <1>3, <1>5, <1>6
<1>8. \A k, l \in DOMAIN made : k < l => made[k] <= made[l]
  BY <1>4, <1>5, <1>6 DEF Increasing
<1>9. \A m \in getBackups : \E k \in DOMAIN made : made[k] = m
  BY <1>2, <1>4, <1>6
<1>10. \A p \in Proc : pc[p] = "off"
  BY DEF Init
<1> QED
  BY <1>7, <1>8, <1>9, <1>10 DEF OrderInv, Ordered, Shown

\* A list that is shown stays as it is while more backups are made.
LEMMA ShownKept ==
  ASSUME NEW p \in Proc, Shown(p), pc'[p] = "pick" => pc[p] = "pick", list'[p] = list[p],
         DOMAIN made \subseteq DOMAIN made', \A k \in DOMAIN made : made'[k] = made[k]
  PROVE  Shown(p)'
BY DEF Shown

LEMMA StepOrder ==
  ASSUME Typed, TypedMore, OrderInv, [Next]_vars, BackSteps = {}
  PROVE  OrderInv'
<1>1. ASSUME UNCHANGED <<list, made, wall>>, getBackups' \subseteq getBackups,
             \A p \in Proc : pc'[p] = "pick" => pc[p] = "pick"
      PROVE  OrderInv'
  <2>1. Ordered'
    BY <1>1 DEF OrderInv, Ordered
  <2>2. \A p \in Proc : Shown(p)'
    BY <1>1, ShownKept DEF OrderInv
  <2> QED
    BY <2>1, <2>2 DEF OrderInv
<1>2. ASSUME DOMAIN backups' \subseteq DOMAIN backups
      PROVE  getBackups' \subseteq getBackups
  BY <1>2 DEF getBackups
<1>3. ASSUME NEW p \in Proc, NEW w \in PCs \ {"pick"}, pc' = [pc EXCEPT ![p] = w]
      PROVE  \A q \in Proc : pc'[q] = "pick" => pc[q] = "pick"
  BY <1>3 DEF Typed
<1>4. ASSUME NEW p \in Proc, backup(p)
      PROVE  OrderInv'
  <2>1. made' = Append(made, wall) /\ made \in Seq(Nat) /\ wall \in Nat /\ wall' = wall
    BY <1>4 DEF backup, TypedMore
  <2> DEFINE n == Len(made) + 1
  <2>2. /\ Len(made) \in Nat /\ DOMAIN made = 1..Len(made)
        /\ DOMAIN made' = 1..n /\ made'[n] = wall
        /\ \A k \in DOMAIN made : made'[k] = made[k] /\ made[k] \in Nat
    BY <2>1
  <2>3. \A k \in DOMAIN made' : k \in DOMAIN made \/ k = n
    BY <2>2
  <2>4. n \in DOMAIN made' /\ DOMAIN made \subseteq DOMAIN made'
    BY <2>2
  <2>5. \A k \in DOMAIN made' : made'[k] <= wall'
    BY <2>1, <2>2, <2>3 DEF OrderInv, Ordered
  <2>6. ASSUME NEW k \in DOMAIN made', NEW l \in DOMAIN made', k < l
        PROVE  made'[k] <= made'[l]
    <3>1. CASE l \in DOMAIN made
      <4>1. k \in DOMAIN made
        BY <2>2, <2>6, <3>1
      <4> QED
        BY <2>2, <2>6, <3>1, <4>1 DEF OrderInv, Ordered
    <3>2. CASE l = n
      BY <2>1, <2>2, <2>5, <3>2
    <3> QED
      BY <2>3, <3>1, <3>2
  <2>7. ASSUME NEW m \in getBackups'
        PROVE  \E k \in DOMAIN made' : made'[k] = m
    <3>1. m \in DOMAIN backups' /\ m > 0
      BY DEF getBackups
    <3>2. m = wall \/ m \in getBackups
      BY <1>4, <3>1 DEF backup, getBackups
    <3> QED
      BY <2>2, <2>4, <3>2 DEF OrderInv, Ordered
  <2>8. Ordered'
    BY <2>5, <2>6, <2>7 DEF Ordered
  <2>9. ASSUME NEW q \in Proc
        PROVE  Shown(q)'
    <3>1. pc' = [pc EXCEPT ![p] = "backupLines"] /\ list' = list
      BY <1>4 DEF backup, Goto
    <3>2. pc'[q] = "pick" => pc[q] = "pick"
      BY <3>1 DEF Typed
    <3> QED
      BY <2>2, <2>4, <3>1, <3>2, ShownKept DEF OrderInv
  <2> QED
    BY <2>8, <2>9 DEF OrderInv
<1>5. ASSUME NEW p \in Proc, List(p)
      PROVE  OrderInv'
  <2>1. UNCHANGED <<backups, made, wall>>
    BY <1>5 DEF List
  <2>2. Ordered'
    BY <2>1 DEF OrderInv, Ordered, getBackups
  <2>3. ASSUME NEW q \in Proc \ {p}
        PROVE  Shown(q)'
    <3>1. pc'[q] = pc[q] /\ list'[q] = list[q]
      BY <1>5 DEF List, Goto, Typed, TypedMore
    <3> QED
      BY <2>1, <3>1, ShownKept DEF OrderInv
  <2>4. Shown(p)'
    <3> DEFINE s == reversed(sorted(getBackups))
    <3>1. list'[p] = s
      BY <1>5 DEF List, TypedMore
    <3>2. /\ \A i \in DOMAIN s : s[i] \in getBackups
          /\ \A i, j \in DOMAIN s : i < j => s[i] > s[j]
      BY Lists DEF TypedMore
    <3> HIDE DEF s
    <3>3. \A i \in DOMAIN s : \E k \in DOMAIN made : made[k] = s[i]
      BY <3>2 DEF OrderInv, Ordered
    <3> QED
      BY <2>1, <3>1, <3>2, <3>3 DEF Shown
  <2> QED
    BY <2>2, <2>3, <2>4 DEF OrderInv
<1>6. CASE Clock
  <2>1. wall' = wall + 1 /\ UNCHANGED <<list, made, backups, pc>>
    BY <1>6 DEF Clock
  <2>2. \A k \in DOMAIN made : made[k] <= wall'
    <3>1. wall \in Nat /\ \A k \in DOMAIN made : made[k] \in Nat
      BY DEF TypedMore
    <3> QED
      BY <2>1, <3>1 DEF OrderInv, Ordered
  <2> QED
    BY <2>1, <2>2 DEF OrderInv, Ordered, Shown, getBackups
<1>7. ASSUME NEW p \in Proc, Open(p)
      PROVE  OrderInv'
  <2>1. /\ UNCHANGED <<list, made, wall, backups>>
        /\ \E w \in {"read", "list"} : pc' = [pc EXCEPT ![p] = w]
    BY <1>7 DEF Open, Goto
  <2> QED
    BY <1>1, <1>2, <1>3, <2>1 DEF PCs
<1>8. ASSUME NEW p \in Proc, Read(p) \/ backupDone(p) \/ Edit(p) \/ Create(p) \/ writeDone(p)
                             \/ Pick(p) \/ Die(p)
      PROVE  OrderInv'
  <2>1. /\ UNCHANGED <<list, made, wall, backups>>
        /\ \E w \in {"backup", "edit", "create", "ended", "writeLines", "ok", "truncate"} :
             pc' = [pc EXCEPT ![p] = w]
    BY <1>8 DEF Read, backupDone, Edit, Create, writeDone, Pick, Die, Goto
  <2> QED
    BY <1>1, <1>2, <1>3, <2>1 DEF PCs
<1>9. CASE \/ \E p \in Proc : backupLine(p) \/ writeLine(p)
           \/ \E text \in Saved : Save(text)
           \/ \E n \in DOMAIN backups : Clean(n)
           \/ UNCHANGED vars
  <2>1. UNCHANGED <<list, made, wall, pc>>
    BY <1>9 DEF backupLine, writeLine, Save, Clean, vars
  <2>2. DOMAIN backups' \subseteq DOMAIN backups
    BY <1>9 DEF backupLine, writeLine, Save, Clean, vars
  <2> QED
    BY <1>1, <1>2, <2>1, <2>2
<1> QED
  BY <1>4, <1>5, <1>6, <1>7, <1>8, <1>9 DEF Next, Step

\* While other runs make more backups, and backups are deleted, the list a
\* restore shows has them in the order they were made, the newest first, as long
\* as the clock is not turned back (tuner.go:184).
THEOREM NewestFirst ==
  ASSUME BackSteps = {}
  PROVE  Spec => []MostRecentFirst
<1>1. Init => OrderInv
  BY InitOrder
<1>2. Typed /\ TypedMore /\ OrderInv /\ [Next]_vars => OrderInv'
  BY StepOrder
<1>3. Typed /\ TypedMore /\ OrderInv => MostRecentFirst
  <2> SUFFICES ASSUME TypedMore, OrderInv, NEW p \in Proc, pc[p] = "pick",
                      NEW i \in DOMAIN list[p], NEW j \in DOMAIN list[p], i < j,
                      NEW k \in DOMAIN made, made[k] = list[p][j]
               PROVE  \E l \in DOMAIN made : l > k /\ made[l] = list[p][i]
    BY DEF MostRecentFirst
  <2>1. list[p][i] > list[p][j]
    BY DEF OrderInv, Shown
  <2>2. PICK l \in DOMAIN made : made[l] = list[p][i]
    BY DEF OrderInv, Shown
  <2>3. /\ k \in Nat /\ l \in Nat
        /\ made[k] \in Nat /\ made[l] \in Nat
    BY DEF TypedMore
  <2>4. ~(l < k) /\ l # k
    BY <2>1, <2>2, <2>3 DEF OrderInv, Ordered
  <2> QED
    BY <2>2, <2>3, <2>4
<1> QED
  BY <1>1, <1>2, <1>3, TypedAlways, PTL DEF Spec
=============================================================================
