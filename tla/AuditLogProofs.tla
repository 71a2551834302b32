--------------------------- MODULE AuditLogProofs ---------------------------
EXTENDS AuditLog, SequenceTheorems, TLAPS

-----------------------------------------------------------------------------
(* Facts about lines *)

LEMMA LinesGrow ==
    ASSUME NEW lines \in Seq(AllLines), NEW e \in Events, NEW whole \in BOOLEAN
    PROVE  /\ NewLine(lines, e, whole) \in Seq(AllLines)
           /\ Extend(lines, e, whole) \in Seq(AllLines)
<1>1. [events |-> <<e>>, ended |-> whole] \in AllLines
  BY DEF AllLines
<1>2. NewLine(lines, e, whole) \in Seq(AllLines)
  BY <1>1 DEF NewLine
<1>3. CASE OpenEnded(lines)
  <2> DEFINE last == lines[Len(lines)]
             longer == [events |-> Append(last.events, e), ended |-> whole]
  <2>1. Len(lines) \in 1..Len(lines) /\ last \in AllLines
    BY <1>3 DEF OpenEnded
  <2>2. longer \in AllLines
    BY <2>1 DEF AllLines
  <2>3. [lines EXCEPT ![Len(lines)] = longer] \in Seq(AllLines)
    BY <2>1, <2>2
  <2> QED BY <1>2, <1>3, <2>3 DEF Extend
<1> QED BY <1>2, <1>3 DEF Extend

LEMMA AppendToConcat ==
    ASSUME NEW a \in Seq(AllLines), NEW b \in Seq(AllLines), NEW x \in AllLines
    PROVE  Append(a \o b, x) = a \o Append(b, x)
<1>1. <<x>> \in Seq(AllLines)
  OBVIOUS
<1>2. Append(a \o b, x) = (a \o b) \o <<x>> /\ Append(b, x) = b \o <<x>>
  BY AppendIsConcat, ConcatProperties
<1> QED BY <1>1, <1>2, ConcatAssociative

LEMMA SameSequence ==
    ASSUME NEW S, NEW s \in Seq(S), NEW t \in Seq(S), Len(s) = Len(t),
           \A i \in 1..Len(s) : s[i] = t[i]
    PROVE  s = t
  OBVIOUS

LEMMA ReplaceOne ==
    ASSUME NEW S, NEW s \in Seq(S), NEW k \in 1..Len(s), NEW x \in S,
           NEW new, new = [s EXCEPT ![k] = x]
    PROVE  /\ new \in Seq(S) /\ Len(new) = Len(s)
           /\ \A i \in 1..Len(s) : new[i] = IF i = k THEN x ELSE s[i]
  OBVIOUS

\* Bytes that continue the last line of a sequence continue it in every longer
\* sequence that ends with it.
LEMMA ExtendConcat ==
    ASSUME NEW a \in Seq(AllLines), NEW b \in Seq(AllLines), OpenEnded(b),
           NEW e \in Events, NEW whole \in BOOLEAN
    PROVE  Extend(a \o b, e, whole) = a \o Extend(b, e, whole)
<1>1. Len(a) \in Nat /\ Len(b) \in Nat /\ Len(b) > 0 /\ Len(b) \in 1..Len(b)
  BY DEF OpenEnded
<1>2. PICK x : x = [events |-> Append(b[Len(b)].events, e), ended |-> whole]
  OBVIOUS
<1>3. x \in AllLines
  <2>1. b[Len(b)] \in AllLines
    BY <1>1
  <2> QED BY <2>1, <1>2 DEF AllLines
<1>4. PICK ab \in Seq(AllLines) : ab = a \o b
  BY ConcatProperties
<1>5. /\ Len(ab) = Len(a) + Len(b)
      /\ \A i \in 1..(Len(a) + Len(b)) :
            ab[i] = IF i <= Len(a) THEN a[i] ELSE b[i - Len(a)]
  BY <1>4, ConcatProperties
<1>6. PICK c : c = [b EXCEPT ![Len(b)] = x]
  OBVIOUS
<1>7. /\ c \in Seq(AllLines) /\ Len(c) = Len(b)
      /\ \A i \in 1..Len(b) : c[i] = IF i = Len(b) THEN x ELSE b[i]
  BY <1>1, <1>3, <1>6, ReplaceOne
<1>8. PICK ac \in Seq(AllLines) : ac = a \o c
  BY <1>7, ConcatProperties
<1>9. /\ Len(ac) = Len(a) + Len(b)
      /\ \A i \in 1..(Len(a) + Len(b)) :
            ac[i] = IF i <= Len(a) THEN a[i] ELSE c[i - Len(a)]
  <2>1. c \in Seq(AllLines) /\ Len(c) = Len(b)
    BY <1>7
  <2>2. /\ Len(a \o c) = Len(a) + Len(c)
        /\ \A i \in 1..(Len(a) + Len(c)) :
              (a \o c)[i] = IF i <= Len(a) THEN a[i] ELSE c[i - Len(a)]
    BY <2>1, ConcatProperties
  <2> QED BY <2>1, <2>2, <1>8
<1>10. PICK abx : abx = [ab EXCEPT ![Len(ab)] = x]
  OBVIOUS
<1>11. /\ abx \in Seq(AllLines) /\ Len(abx) = Len(a) + Len(b)
       /\ \A i \in 1..(Len(a) + Len(b)) :
            abx[i] = IF i = Len(a) + Len(b) THEN x ELSE ab[i]
  <2>1. Len(ab) = Len(a) + Len(b) /\ Len(ab) \in 1..Len(ab)
    BY <1>1, <1>5
  <2> QED BY <2>1, <1>3, <1>10, ReplaceOne
<1>12. ASSUME NEW i \in 1..(Len(a) + Len(b))
       PROVE  abx[i] = ac[i]
  <2>1. i > Len(a) => /\ i - Len(a) \in 1..Len(b)
                      /\ c[i - Len(a)] = IF i = Len(a) + Len(b) THEN x ELSE b[i - Len(a)]
    <3>1. i > Len(a) => i - Len(a) \in 1..Len(b) /\ (i - Len(a) = Len(b) <=> i = Len(a) + Len(b))
      BY <1>1
    <3>2. \A j \in 1..Len(b) : c[j] = IF j = Len(b) THEN x ELSE b[j]
      BY <1>7
    <3> QED BY <3>1, <3>2
  <2>2. abx[i] = IF i = Len(a) + Len(b) THEN x ELSE ab[i]
    BY <1>11
  <2>3. ab[i] = IF i <= Len(a) THEN a[i] ELSE b[i - Len(a)]
    BY <1>5
  <2>4. ac[i] = IF i <= Len(a) THEN a[i] ELSE c[i - Len(a)]
    BY <1>9
  <2> QED BY <2>1, <2>2, <2>3, <2>4, <1>1
<1>13. abx = ac
  <2>1. Len(ac) = Len(abx)
    BY <1>9, <1>11
  <2>2. \A i \in 1..Len(abx) : abx[i] = ac[i]
    BY <1>11, <1>12
  <2> QED BY <1>11, <2>1, <2>2, SameSequence
<1>14. Extend(b, e, whole) = c
  BY <1>2, <1>6 DEF Extend
<1>15. ab # <<>> /\ ab[Len(ab)] = b[Len(b)]
  BY <1>1, <1>5
<1>16. Extend(ab, e, whole) = abx
  BY <1>2, <1>10, <1>15 DEF Extend, OpenEnded
<1> QED BY <1>4, <1>8, <1>13, <1>14, <1>16

LEMMA LastLinesType ==
    ASSUME NEW S, NEW s \in Seq(S), NEW n \in Nat
    PROVE  /\ LastLines(s, n) \in Seq(S)
           /\ Len(LastLines(s, n)) = IF n = 0 \/ Len(s) <= n THEN Len(s) ELSE n
           /\ n = 0 \/ Len(s) <= n => LastLines(s, n) = s
  BY DEF LastLines

LEMMA LastLinesElements ==
    ASSUME NEW S, NEW s \in Seq(S), NEW n \in Nat, n > 0, Len(s) >= n
    PROVE  /\ Len(LastLines(s, n)) = n
           /\ \A i \in 1..n : LastLines(s, n)[i] = s[Len(s) - n + i]
  BY DEF LastLines

\* The active log alone holds the last n lines of the whole log.
LEMMA TailInOneFile ==
    ASSUME NEW S, NEW r \in Seq(S), NEW a \in Seq(S),
           NEW n \in Nat, n > 0, Len(a) >= n
    PROVE  LastLines(r \o a, n) = LastLines(a, n)
<1>1. PICK ra \in Seq(S) : ra = r \o a
  BY ConcatProperties
<1>2. /\ Len(ra) = Len(r) + Len(a) /\ Len(a) \in Nat /\ Len(r) \in Nat
      /\ \A i \in 1..Len(ra) : ra[i] = IF i <= Len(r) THEN r[i] ELSE a[i - Len(r)]
  BY <1>1, ConcatProperties
<1>3. PICK s \in Seq(S), t \in Seq(S) : s = LastLines(ra, n) /\ t = LastLines(a, n)
  BY LastLinesType
<1>4. Len(s) = n /\ \A i \in 1..n : s[i] = ra[Len(ra) - n + i]
  <2>1. Len(ra) >= n
    BY <1>2
  <2> QED BY <2>1, <1>3, LastLinesElements
<1>5. Len(t) = n /\ \A i \in 1..n : t[i] = a[Len(a) - n + i]
  BY <1>3, LastLinesElements
<1>6. ASSUME NEW i \in 1..n PROVE s[i] = t[i]
  <2>0. Len(ra) - n + i \in Nat
    BY <1>2
  <2>1. PICK k \in Nat : k = Len(ra) - n + i
    BY <2>0
  <2>2. k \in 1..Len(ra) /\ k > Len(r) /\ k - Len(r) = Len(a) - n + i
    BY <1>2, <2>1
  <2>3. ra[k] = a[k - Len(r)]
    BY <1>2, <2>2
  <2> QED BY <1>4, <1>5, <2>1, <2>2, <2>3
<1>7. s = t
  BY <1>4, <1>5, <1>6, SameSequence
<1> QED BY <1>1, <1>3, <1>7

\* A tail put together from the last lines of two files is that of their
\* concatenation.
LEMMA TailInTwoFiles ==
    ASSUME NEW S, NEW r \in Seq(S), NEW a \in Seq(S), NEW n \in Nat,
           NEW missing \in Nat,
           n = 0 => missing = 0,
           n # 0 => Len(a) < n /\ missing = n - Len(a)
    PROVE  LastLines(LastLines(r, missing) \o a, n) = LastLines(r \o a, n)
<1>1. /\ r \o a \in Seq(S) /\ Len(r \o a) = Len(r) + Len(a)
      /\ Len(a) \in Nat /\ Len(r) \in Nat
  BY ConcatProperties
<1>2. CASE n = 0 \/ Len(r) + Len(a) <= n
  <2>1. missing = 0 \/ Len(r) <= missing
    BY <1>1, <1>2
  <2>2. LastLines(r, missing) = r
    BY <2>1, LastLinesType
  <2> QED BY <2>2
<1>3. CASE n # 0 /\ Len(r) + Len(a) > n
  <2>1. missing > 0 /\ Len(r) > missing /\ n = missing + Len(a)
    <3>1. Len(a) < n /\ missing = n - Len(a) /\ Len(r) + Len(a) > n
      BY <1>3
    <3> QED BY <3>1, <1>1
  <2>a. Len(r) - missing + 1 \in Nat
    BY <2>1, <1>1
  <2>2. PICK m \in Nat : m = Len(r) - missing + 1
    BY <2>a
  <2>3. PICK older \in Seq(S) : older = LastLines(r, missing)
    BY LastLinesType
  <2>4. Len(older) = missing /\ \A i \in 1..missing : older[i] = r[m + i - 1]
    BY <2>1, <2>2, <2>3, <1>1, LastLinesElements
  <2>5. PICK both \in Seq(S) : both = older \o a
    BY ConcatProperties
  <2>6. /\ Len(both) = n
        /\ \A i \in 1..n : both[i] = IF i <= missing THEN older[i] ELSE a[i - missing]
    BY <2>1, <2>4, <2>5, <1>1, ConcatProperties
  <2>7. LastLines(both, n) = both
    BY <2>6, LastLinesType
  <2>8. PICK ra \in Seq(S) : ra = r \o a
    BY <1>1
  <2>9. /\ Len(ra) = Len(r) + Len(a)
        /\ \A i \in 1..Len(ra) : ra[i] = IF i <= Len(r) THEN r[i] ELSE a[i - Len(r)]
    BY <2>8, <1>1, ConcatProperties
  <2>10. PICK tail \in Seq(S) : tail = LastLines(ra, n)
    BY LastLinesType
  <2>11. Len(tail) = n /\ \A i \in 1..n : tail[i] = ra[Len(ra) - n + i]
    <3>1. Len(ra) >= n /\ n > 0
      BY <2>9, <1>1, <1>3
    <3> QED BY <3>1, <2>10, LastLinesElements
  <2>12. ASSUME NEW i \in 1..n PROVE tail[i] = both[i]
    <3>a. m + i - 1 \in Nat
      BY <2>1, <2>2, <1>1
    <3>1. PICK k \in Nat : k = m + i - 1
      BY <3>a
    <3>2. /\ Len(ra) - n + i = k /\ k \in 1..Len(ra)
          /\ k <= Len(r) <=> i <= missing
          /\ k - Len(r) = i - missing
      BY <2>1, <2>2, <2>9, <1>1, <3>1
    <3>3. tail[i] = IF k <= Len(r) THEN r[k] ELSE a[k - Len(r)]
      BY <2>9, <2>11, <3>2
    <3>4. both[i] = IF i <= missing THEN r[k] ELSE a[i - missing]
      BY <2>1, <2>4, <2>6, <3>1, <1>1
    <3> QED BY <3>2, <3>3, <3>4
  <2>13. tail = both
    BY <2>6, <2>11, <2>12, SameSequence
  <2> QED BY <2>3, <2>5, <2>7, <2>8, <2>10, <2>13
<1> QED BY <1>1, <1>2, <1>3
-----------------------------------------------------------------------------
(* What the file operations do to the log as a whole *)

FilesOK ==
    /\ active \in Inodes \cup {NoFile}
    /\ rotated \in Inodes \cup {NoFile}
    /\ content \in [Inodes -> Seq(AllLines)]
    /\ logged \in Seq(AllLines)
    /\ dropped \in Seq(AllLines)
    /\ active = rotated => active = NoFile
    /\ LogIsExact
    /\ KeepsAFullRotation

LEMMA AtType ==
    ASSUME FilesOK
    PROVE  At(active) \in Seq(AllLines) /\ At(rotated) \in Seq(AllLines)
  BY DEF FilesOK, At

LEMMA OpenLogKeeps ==
    ASSUME FilesOK, OpenLog
    PROVE  FilesOK' /\ active' \in Inodes
<1>1. CASE active # NoFile
  BY <1>1 DEF OpenLog, FilesOK, LogIsExact, KeepsAFullRotation, At
<1>2. CASE active = NoFile
  <2>1. active' \in Free
    BY <1>2 DEF OpenLog
  <2>2. active' \in Inodes /\ active' # rotated /\ active' # NoFile
    BY <2>1, InodesAssumption DEF Free
  <2>3. content' \in [Inodes -> Seq(AllLines)]
    <3>1. PICK i \in Inodes : i = active'
      BY <2>2
    <3>2. content' = [content EXCEPT ![i] = <<>>] /\ <<>> \in Seq(AllLines)
      BY <1>2, <3>1 DEF OpenLog
    <3> QED BY <3>1, <3>2 DEF FilesOK
  <2>4. content'[active'] = <<>> /\ \A i \in Inodes \ {active'} : content'[i] = content[i]
    BY <1>2, <2>2 DEF OpenLog, FilesOK
  <2>5. rotated' = rotated /\ logged' = logged /\ dropped' = dropped
    BY DEF OpenLog
  <2>6. At(rotated)' = At(rotated) /\ At(active)' = <<>> /\ At(active) = <<>>
    BY <1>2, <2>2, <2>4, <2>5 DEF At, FilesOK
  <2> QED BY <2>2, <2>3, <2>5, <2>6 DEF FilesOK, LogIsExact, KeepsAFullRotation
<1> QED BY <1>1, <1>2

LEMMA OpenFailsKeeps ==
    ASSUME FilesOK, OpenFails
    PROVE  FilesOK'
<1>1. CASE UNCHANGED <<active, rotated, content, logged, dropped>>
  BY <1>1 DEF FilesOK, LogIsExact, KeepsAFullRotation, At
<1> QED BY <1>1, OpenLogKeeps DEF OpenFails

LEMMA RenameKeeps ==
    ASSUME FilesOK, Rename, Full(active)
    PROVE  FilesOK' /\ active' = NoFile
<1>1. /\ active # NoFile /\ active' = NoFile /\ rotated' = active
      /\ content' = content /\ logged' = logged /\ dropped' = dropped \o At(rotated)
  BY DEF Rename
<1>2. At(rotated)' = At(active) /\ At(active)' = <<>>
  BY <1>1 DEF At
<1>3. dropped' \in Seq(AllLines)
  BY <1>1, AtType, ConcatProperties DEF FilesOK
<1>4. dropped' \o At(active) \in Seq(AllLines)
  BY <1>3, AtType, ConcatProperties
<1>5. LogIsExact'
  BY <1>1, <1>2, <1>4, ConcatEmptySeq DEF LogIsExact, FilesOK
<1>6. KeepsAFullRotation'
  BY <1>2 DEF Full, KeepsAFullRotation
<1> QED BY <1>1, <1>3, <1>5, <1>6 DEF FilesOK

LEMMA PutKeeps ==
    ASSUME FilesOK, active # NoFile, NEW e \in Events, NEW whole \in BOOLEAN,
           Put(active, e, whole), UNCHANGED <<active, rotated, dropped>>
    PROVE  FilesOK'
<1>0. PICK older \in Seq(AllLines) : older = dropped \o At(rotated)
  BY AtType, ConcatProperties DEF FilesOK
<1>1. active \in Inodes /\ active # rotated /\ At(active) = content[active]
  BY DEF FilesOK, At
<1>2. content[active] \in Seq(AllLines)
  BY <1>1, AtType
<1>3. /\ Extend(content[active], e, whole) \in Seq(AllLines)
      /\ Extend(logged, e, whole) \in Seq(AllLines)
      /\ NewLine(logged, e, whole) \in Seq(AllLines)
  BY <1>2, LinesGrow DEF FilesOK
<1>4. /\ content' \in [Inodes -> Seq(AllLines)]
      /\ content'[active] = Extend(content[active], e, whole)
      /\ \A i \in Inodes \ {active} : content'[i] = content[i]
  BY <1>1, <1>3 DEF Put, FilesOK
<1>5. At(rotated)' = At(rotated)
  BY <1>1, <1>4 DEF At, FilesOK
<1>6. At(active)' = Extend(content[active], e, whole)
  BY <1>4 DEF At
<1>7. logged = older \o content[active]
  BY <1>0, <1>1 DEF FilesOK, LogIsExact
<1>8. logged' = older \o Extend(content[active], e, whole)
  <2>1. CASE OpenEnded(content[active])
    BY <1>2, <1>7, <2>1, ExtendConcat DEF Put
  <2>2. CASE ~OpenEnded(content[active])
    <3>0. [events |-> <<e>>, ended |-> whole] \in AllLines
      BY DEF AllLines
    <3>1. PICK line \in AllLines : line = [events |-> <<e>>, ended |-> whole]
      BY <3>0
    <3>2. NewLine(older \o content[active], e, whole) = older \o NewLine(content[active], e, whole)
      <4>1. Append(older \o content[active], line) = older \o Append(content[active], line)
        BY <1>0, <1>2, <3>1, AppendToConcat
      <4> QED BY <3>1, <4>1 DEF NewLine
    <3>3. Extend(content[active], e, whole) = NewLine(content[active], e, whole)
      BY <2>2 DEF Extend
    <3>4. logged' = NewLine(logged, e, whole)
      BY <2>2 DEF Put
    <3> QED BY <1>7, <3>2, <3>3, <3>4
  <2> QED BY <2>1, <2>2
<1>9. logged' \in Seq(AllLines)
  BY <1>3 DEF Put
<1> QED BY <1>0, <1>1, <1>4, <1>5, <1>6, <1>8, <1>9 DEF FilesOK, LogIsExact, KeepsAFullRotation
-----------------------------------------------------------------------------
(* A step of one task *)

TaskInv(t) == LockDiscipline(t) /\ AppendProgress(t) /\ TailProgress(t)

LEMMA Parts ==
    IndInv <=> TypeOK /\ Exclusion /\ FilesOK /\ \A t \in Tasks : TaskInv(t)
  BY DEF IndInv, TypeOK, FilesOK, TaskInv

\* A step of t concerns t alone, and touches files only under t's exclusive lock.
OnlyMoves(t) ==
    \A u \in Tasks \ {t} :
        /\ pc'[u] = pc[u] /\ event'[u] = event[u] /\ want'[u] = want[u]
        /\ got'[u] = got[u] /\ flock'[u] = flock[u]
        /\ u \in mutex' <=> u \in mutex

FilesUnderLock(t) ==
    \/ UNCHANGED <<active, rotated, content, fd>>
    \/ flock[t] = "exclusive"

LEMMA Bystanders ==
    ASSUME TypeOK, Exclusion, NEW t \in Tasks, NEW u \in Tasks \ {t}, TaskInv(u),
           OnlyMoves(t), FilesUnderLock(t)
    PROVE  TaskInv(u)'
<1>1. /\ pc'[u] = pc[u] /\ event'[u] = event[u] /\ want'[u] = want[u]
      /\ got'[u] = got[u] /\ flock'[u] = flock[u]
      /\ u \in mutex' <=> u \in mutex
  BY DEF OnlyMoves
<1>2. LockDiscipline(u)'
  BY <1>1 DEF TaskInv, LockDiscipline, LockMode, IsAppend
<1>3. CASE UNCHANGED <<active, rotated, content, fd>>
  BY <1>1, <1>2, <1>3 DEF TaskInv, AppendProgress, TailProgress, At
<1>4. CASE flock[t] = "exclusive"
  <2>1. flock[u] = "none"
    BY <1>4 DEF Exclusion
  <2>2. pc[u] \notin Appending \cup Tailing
    BY <2>1 DEF TaskInv, LockDiscipline, LockMode
  <2> QED BY <1>1, <1>2, <2>2 DEF TaskInv, AppendProgress, TailProgress, Appending, Tailing
<1> QED BY <1>3, <1>4 DEF FilesUnderLock

LEMMA StepPreserves ==
    ASSUME IndInv, NEW t \in Tasks, TypeOK', FilesOK', Exclusion',
           OnlyMoves(t), FilesUnderLock(t), TaskInv(t)'
    PROVE  IndInv'
<1>1. \A u \in Tasks \ {t} : TaskInv(u)'
  BY Parts, Bystanders
<1>2. \A u \in Tasks : TaskInv(u)'
  BY <1>1
<1> QED BY <1>2 DEF IndInv, TypeOK, FilesOK, TaskInv

\* Nobody can come to hold a lock by a step that takes none.
LEMMA NoNewLocks ==
    ASSUME Exclusion, mutex' \subseteq mutex,
           \A u \in Tasks : flock'[u] \in {flock[u], "none"}
    PROVE  Exclusion'
  BY DEF Exclusion

-----------------------------------------------------------------------------
(* Returning *)

LEMMA DoneFacts ==
    ASSUME TypeOK, NEW t \in Tasks, NEW outcome \in Outcomes,
           NEW lines \in Seq(AllLines), Unlock(t), Done(t, outcome, lines), FilesOK',
           fd' \in [Processes -> Inodes \cup {NoFile}]
    PROVE  TypeOK' /\ OnlyMoves(t) /\ TaskInv(t)' /\ mutex' \subseteq mutex
           /\ \A u \in Tasks : flock'[u] \in {flock[u], "none"}
<1>1. TypeOK'
  <2>1. /\ pc' \in [Tasks -> Points] /\ out' \in [Tasks -> Outcomes]
        /\ event' \in [Tasks -> 0..MaxCalls] /\ want' \in [Tasks -> Wanted \cup {0}]
        /\ cancelled' \in [Tasks -> BOOLEAN] /\ calls' \in 0..MaxCalls
    BY AuditBoundsAssumption DEF TypeOK, Done, Goto, Points
  <2>2. got' \in [Tasks -> Seq(AllLines)] /\ result' \in [Tasks -> Seq(AllLines)]
    BY DEF TypeOK, Done
  <2>3. mutex' \subseteq Tasks /\ flock' \in [Tasks -> {"none", "shared", "exclusive"}]
    BY DEF TypeOK, Unlock
  <2> QED BY <2>1, <2>2, <2>3 DEF TypeOK, FilesOK
<1>2. OnlyMoves(t) /\ mutex' \subseteq mutex
  BY DEF TypeOK, OnlyMoves, Unlock, Done, Goto
<1>3. pc'[t] = "idle" /\ t \notin mutex' /\ flock'[t] = "none"
  BY DEF TypeOK, Unlock, Done, Goto
<1>4. TaskInv(t)'
  BY <1>3 DEF TaskInv, LockDiscipline, AppendProgress, TailProgress, Appending, Tailing
<1>5. \A u \in Tasks : flock'[u] \in {flock[u], "none"}
  BY DEF TypeOK, Unlock
<1> QED BY <1>1, <1>2, <1>4, <1>5

LEMMA DoneStep ==
    ASSUME IndInv, NEW t \in Tasks, NEW outcome \in Outcomes,
           NEW lines \in Seq(AllLines), Unlock(t), Done(t, outcome, lines), FilesOK',
           fd' \in [Processes -> Inodes \cup {NoFile}], FilesUnderLock(t)
    PROVE  IndInv'
<1>1. TypeOK /\ Exclusion
  BY Parts
<1>2. /\ TypeOK' /\ OnlyMoves(t) /\ TaskInv(t)' /\ mutex' \subseteq mutex
      /\ \A u \in Tasks : flock'[u] \in {flock[u], "none"}
  BY <1>1, DoneFacts
<1> QED BY <1>1, <1>2, NoNewLocks, StepPreserves

LEMMA ReturnStep ==
    ASSUME IndInv, NEW t \in Tasks, NEW outcome \in Outcomes, Return(t, outcome),
           FilesOK', fd' \in [Processes -> Inodes \cup {NoFile}], FilesUnderLock(t)
    PROVE  IndInv'
<1>1. Unlock(t) /\ Done(t, outcome, <<>>) /\ <<>> \in Seq(AllLines)
  BY DEF Return
<1> QED BY <1>1, DoneStep

LEMMA SameFiles ==
    ASSUME IndInv, UNCHANGED files, NEW t \in Tasks
    PROVE  FilesOK' /\ fd' \in [Processes -> Inodes \cup {NoFile}] /\ FilesUnderLock(t)
  BY DEF files, IndInv, TypeOK, FilesOK, LogIsExact, KeepsAFullRotation, At, FilesUnderLock

\* Going on inside a call with the locks it has.
LEMMA ContinueStep ==
    ASSUME IndInv, NEW t \in Tasks, NEW point \in Appending, Continue(t, point),
           pc[t] \in Appending,
           FilesOK', fd' \in [Processes -> Inodes \cup {NoFile}],
           AppendProgress(t)'
    PROVE  IndInv'
<1>1. TypeOK /\ Exclusion /\ TaskInv(t)
  BY Parts
<1>2. TypeOK'
  BY <1>1 DEF TypeOK, FilesOK, Continue, Goto, Stay, Request, locks, Points, Appending
<1>3. OnlyMoves(t) /\ UNCHANGED <<mutex, flock>>
  BY <1>1 DEF TypeOK, OnlyMoves, Continue, Goto, Stay, Request, locks
<1>4. Exclusion'
  BY <1>1, <1>3 DEF Exclusion
<1>5. flock[t] = "exclusive"
  BY <1>1 DEF TaskInv, LockDiscipline, LockMode
<1>6. pc'[t] = point
  BY <1>1 DEF TypeOK, Continue, Goto
<1>7. LockDiscipline(t)' /\ TailProgress(t)'
  BY <1>1, <1>3, <1>6 DEF TaskInv, LockDiscipline, TailProgress, LockMode, IsAppend,
     Appending, Tailing, Continue, Stay, Request
<1> QED BY <1>2, <1>3, <1>4, <1>5, <1>7, StepPreserves DEF TaskInv, FilesUnderLock
-----------------------------------------------------------------------------
(* Waiting, and the steps of an append *)

LEMMA TakeMutexStep ==
    ASSUME IndInv, NEW t \in Tasks, TakeMutex(t)
    PROVE  IndInv'
<1>1. TypeOK /\ Exclusion /\ TaskInv(t)
  BY Parts
<1>2. /\ pc[t] = "mutex" /\ mutex' = mutex \cup {t}
      /\ pc' = [pc EXCEPT ![t] = "flock"]
      /\ \A u \in mutex : ProcessOf[u] # ProcessOf[t]
      /\ UNCHANGED <<files, flock, got, event, want, cancelled, calls, out, result>>
  BY DEF TakeMutex, Goto, Stay, Request
<1>3. TypeOK'
  BY <1>1, <1>2 DEF TypeOK, files, Points
<1>4. OnlyMoves(t)
  BY <1>1, <1>2 DEF TypeOK, OnlyMoves
<1>5. Exclusion'
  BY <1>1, <1>2 DEF Exclusion
<1>6. TaskInv(t)'
  BY <1>1, <1>2 DEF TypeOK, TaskInv, LockDiscipline, AppendProgress, TailProgress,
     Appending, Tailing
<1> QED BY <1>2, <1>3, <1>4, <1>5, <1>6, SameFiles, StepPreserves

LEMMA TakeFlockStep ==
    ASSUME IndInv, NEW t \in Tasks, TakeFlock(t)
    PROVE  IndInv'
<1>1. TypeOK /\ Exclusion /\ TaskInv(t)
  BY Parts
<1> DEFINE point == IF IsAppend(t) THEN "ensure" ELSE "readActive"
<1>2. /\ pc[t] = "flock" /\ flock' = [flock EXCEPT ![t] = LockMode(t)]
      /\ pc' = [pc EXCEPT ![t] = point]
      /\ UNCHANGED <<files, mutex, got, event, want, cancelled, calls, out, result>>
  BY DEF TakeFlock, Goto, Stay, Request
<1>3. TypeOK'
  BY <1>1, <1>2 DEF TypeOK, files, Points, LockMode
<1>4. OnlyMoves(t)
  BY <1>1, <1>2 DEF TypeOK, OnlyMoves
<1>5. Exclusion'
  <2>1. \A u \in Tasks \ {t} :
          flock[u] = "none" \/ (flock[u] = "shared" /\ LockMode(t) = "shared")
    BY DEF TakeFlock
  <2> QED BY <1>1, <1>2, <2>1 DEF TypeOK, Exclusion, LockMode
<1>6. pc'[t] = point /\ flock'[t] = LockMode(t) /\ t \in mutex'
  BY <1>1, <1>2 DEF TypeOK, TaskInv, LockDiscipline
<1>7. TaskInv(t)'
  BY <1>2, <1>6 DEF TaskInv, LockDiscipline, LockMode, IsAppend, AppendProgress,
     TailProgress, Appending, Tailing
<1> QED BY <1>2, <1>3, <1>4, <1>5, <1>7, SameFiles, StepPreserves

\* Steps that only return.
LEMMA EndStep ==
    ASSUME IndInv, NEW t \in Tasks,
           LockFails(t) \/ GiveUp(t) \/ NoticeCancel(t) \/ Sync(t)
    PROVE  IndInv'
<1>1. UNCHANGED files /\ \E outcome \in Outcomes : Return(t, outcome)
  BY DEF LockFails, GiveUp, NoticeCancel, Sync, Outcomes
<1> QED BY <1>1, SameFiles, ReturnStep

LEMMA OpenAndGoStep ==
    ASSUME IndInv, NEW t \in Tasks, pc[t] \in Appending,
           NEW point \in {"rotate", "write"}, OpenAndGo(t, point)
    PROVE  IndInv'
<1>1. TypeOK /\ FilesOK /\ TaskInv(t)
  BY Parts
<1>2. flock[t] = "exclusive" /\ ProcessOf[t] \in Processes
  BY <1>1, ProcessAssumption DEF TaskInv, LockDiscipline, LockMode
<1>3. CASE OpenLog /\ fd' = [fd EXCEPT ![ProcessOf[t]] = active'] /\ Continue(t, point)
  <2>1. FilesOK' /\ active' \in Inodes
    BY <1>1, <1>3, OpenLogKeeps
  <2>2. fd' \in [Processes -> Inodes \cup {NoFile}] /\ fd'[ProcessOf[t]] = active'
    BY <1>1, <1>2, <1>3, <2>1 DEF TypeOK
  <2>3. pc'[t] = point
    BY <1>1, <1>3 DEF TypeOK, Continue, Goto
  <2>4. AppendProgress(t)'
    BY <2>1, <2>2, <2>3, InodesAssumption DEF AppendProgress
  <2> QED BY <1>3, <2>1, <2>2, <2>4, ContinueStep DEF Appending
<1>4. CASE OpenFails /\ fd' = [fd EXCEPT ![ProcessOf[t]] = NoFile] /\ Return(t, "error")
  <2>1. FilesOK'
    BY <1>1, <1>4, OpenFailsKeeps
  <2>2. fd' \in [Processes -> Inodes \cup {NoFile}]
    BY <1>1, <1>4 DEF TypeOK
  <2> QED BY <1>2, <1>4, <2>1, <2>2, ReturnStep DEF FilesUnderLock, Outcomes
<1> QED BY <1>3, <1>4 DEF OpenAndGo

LEMMA EnsureStep ==
    ASSUME IndInv, NEW t \in Tasks, Ensure(t)
    PROVE  IndInv'
<1>1. TypeOK /\ FilesOK /\ TaskInv(t) /\ pc[t] \in Appending
  BY Parts DEF Ensure, Appending
<1>2. CASE fd[ProcessOf[t]] # NoFile /\ fd[ProcessOf[t]] = active
           /\ Continue(t, "rotate") /\ UNCHANGED files
  <2>1. AppendProgress(t)'
    BY <1>1, <1>2 DEF AppendProgress, files, Continue, Goto, TypeOK
  <2> QED BY <1>1, <1>2, <2>1, SameFiles, ContinueStep DEF Appending
<1>3. CASE Return(t, "error") /\ UNCHANGED files
  BY <1>3, SameFiles, ReturnStep DEF Outcomes
<1>4. CASE OpenAndGo(t, "rotate")
  BY <1>1, <1>4, OpenAndGoStep
<1> QED BY <1>2, <1>3, <1>4 DEF Ensure

LEMMA ReopenStep ==
    ASSUME IndInv, NEW t \in Tasks, Reopen(t)
    PROVE  IndInv'
  BY OpenAndGoStep DEF Reopen, Appending

LEMMA RotateStep ==
    ASSUME IndInv, NEW t \in Tasks, Rotate(t)
    PROVE  IndInv'
<1>1. TypeOK /\ FilesOK /\ TaskInv(t) /\ pc[t] = "rotate" /\ pc[t] \in Appending
  BY Parts DEF Rotate, Appending
<1>2. /\ flock[t] = "exclusive" /\ ProcessOf[t] \in Processes
      /\ active # NoFile /\ fd[ProcessOf[t]] = active
  BY <1>1, ProcessAssumption DEF TaskInv, LockDiscipline, LockMode, AppendProgress
<1>3. fd' = [fd EXCEPT ![ProcessOf[t]] = NoFile] => fd' \in [Processes -> Inodes \cup {NoFile}]
  BY <1>1 DEF TypeOK
<1>4. CASE Continue(t, "write") /\ UNCHANGED files
  <2>1. AppendProgress(t)'
    BY <1>1, <1>2, <1>4 DEF AppendProgress, files, Continue, Goto, TypeOK
  <2> QED BY <1>1, <1>4, <2>1, SameFiles, ContinueStep DEF Appending
<1>5. CASE Full(fd[ProcessOf[t]]) /\ Rename /\ Continue(t, "reopen")
           /\ fd' = [fd EXCEPT ![ProcessOf[t]] = NoFile]
  <2>1. FilesOK' /\ active' = NoFile
    BY <1>1, <1>2, <1>5, RenameKeeps
  <2>2. AppendProgress(t)'
    BY <1>1, <1>5, <2>1 DEF AppendProgress, Continue, Goto, TypeOK
  <2> QED BY <1>1, <1>3, <1>5, <2>1, <2>2, ContinueStep DEF Appending
<1>6. CASE Return(t, "error") /\ fd' = [fd EXCEPT ![ProcessOf[t]] = NoFile]
           /\ UNCHANGED <<active, rotated, content, logged, dropped>>
  <2>1. FilesOK'
    BY <1>1, <1>6 DEF FilesOK, LogIsExact, KeepsAFullRotation, At
  <2> QED BY <1>2, <1>3, <1>6, <2>1, ReturnStep DEF FilesUnderLock, Outcomes
<1>7. CASE Return(t, "error") /\ UNCHANGED files
  BY <1>7, SameFiles, ReturnStep DEF Outcomes
<1> QED BY <1>4, <1>5, <1>6, <1>7 DEF Rotate

LEMMA WriteStep ==
    ASSUME IndInv, NEW t \in Tasks, Write(t)
    PROVE  IndInv'
<1>1. TypeOK /\ FilesOK /\ TaskInv(t) /\ pc[t] = "write" /\ pc[t] \in Appending
  BY Parts DEF Write, Appending
<1>2. /\ flock[t] = "exclusive" /\ active # NoFile /\ fd[ProcessOf[t]] = active
      /\ event[t] \in Events
  <2>1. event[t] \in 0..MaxCalls /\ event[t] # 0
    BY <1>1 DEF TaskInv, LockDiscipline, IsAppend, TypeOK
  <2>2. event[t] \in Events
    BY <2>1, AuditBoundsAssumption DEF Events
  <2> QED BY <1>1, <2>2 DEF TaskInv, LockDiscipline, LockMode, AppendProgress
<1>3. UNCHANGED <<active, rotated, fd, dropped>>
  BY DEF Write
<1>4. fd' \in [Processes -> Inodes \cup {NoFile}]
  BY <1>1, <1>3 DEF TypeOK
<1>5. CASE Put(fd[ProcessOf[t]], event[t], TRUE) /\ Continue(t, "sync")
  <2>1. FilesOK'
    BY <1>1, <1>2, <1>3, <1>5, PutKeeps
  <2>2. AppendProgress(t)'
    BY <1>1, <1>2, <1>3, <1>5 DEF AppendProgress, Continue, Goto, TypeOK
  <2> QED BY <1>1, <1>4, <1>5, <2>1, <2>2, ContinueStep DEF Appending
<1>6. CASE Put(fd[ProcessOf[t]], event[t], FALSE) /\ Return(t, "error")
  <2>1. FilesOK'
    BY <1>1, <1>2, <1>3, <1>6, PutKeeps
  <2> QED BY <1>2, <1>4, <1>6, <2>1, ReturnStep DEF FilesUnderLock, Outcomes
<1>7. CASE UNCHANGED <<content, logged>> /\ Return(t, "error")
  BY <1>3, <1>7, SameFiles, ReturnStep DEF files, Outcomes
<1> QED BY <1>5, <1>6, <1>7 DEF Write
-----------------------------------------------------------------------------
(* The steps of a tail *)

LEMMA WantType ==
    ASSUME TypeOK, NEW t \in Tasks
    PROVE  want[t] \in Nat
<1>1. want[t] \in Wanted \/ want[t] = 0
  BY DEF TypeOK
<1>2. CASE want[t] \in Wanted
  BY <1>2, WantedAssumption
<1>3. CASE want[t] = 0
  BY <1>3
<1> QED BY <1>1, <1>2, <1>3

LEMMA ReadActiveStep ==
    ASSUME IndInv, NEW t \in Tasks, ReadActive(t)
    PROVE  IndInv'
<1>1. TypeOK /\ FilesOK /\ Exclusion /\ TaskInv(t) /\ pc[t] = "readActive"
  BY Parts DEF ReadActive
<1>2. PICK lines : lines = LastLines(At(active), want[t])
  OBVIOUS
<1>3. /\ lines \in Seq(AllLines)
      /\ Len(lines) < want[t] \/ want[t] = 0 => lines = At(active)
  BY <1>1, <1>2, AtType, WantType, LastLinesType
<1>4. CASE Unlock(t) /\ Done(t, "ok", lines) /\ UNCHANGED files
  BY <1>3, <1>4, SameFiles, DoneStep DEF Outcomes
<1>5. CASE /\ want[t] = 0 \/ Len(lines) < want[t]
           /\ got' = [got EXCEPT ![t] = lines]
           /\ Goto(t, "readRotated") /\ UNCHANGED locks /\ Stay /\ UNCHANGED files
  <2>1. TypeOK'
    BY <1>1, <1>3, <1>5 DEF TypeOK, Goto, Stay, Request, locks, files, Points
  <2>2. OnlyMoves(t) /\ UNCHANGED <<mutex, flock, event, want>>
    BY <1>1, <1>5 DEF TypeOK, OnlyMoves, Goto, Stay, Request, locks
  <2>3. Exclusion'
    BY <1>1, <2>2 DEF Exclusion
  <2>4. pc'[t] = "readRotated" /\ got'[t] = lines
    BY <1>1, <1>5 DEF TypeOK, Goto
  <2>5. TaskInv(t)'
    BY <1>1, <1>3, <1>5, <2>2, <2>4 DEF TaskInv, LockDiscipline, LockMode, IsAppend,
       AppendProgress, TailProgress, Appending, Tailing, At, files
  <2> QED BY <1>5, <2>1, <2>2, <2>3, <2>5, SameFiles, StepPreserves
<1>6. CASE Return(t, "error") /\ UNCHANGED files
  BY <1>6, SameFiles, ReturnStep DEF Outcomes
<1> QED BY <1>2, <1>4, <1>5, <1>6 DEF ReadActive

\* What a tail puts together when it reads the rotated log.
Missing(t)  == IF want[t] = 0 THEN 0 ELSE want[t] - Len(got[t])
Combined(t) == LastLines(LastLines(At(rotated), Missing(t)) \o got[t], want[t])

LEMMA CombinedIsTail ==
    ASSUME IndInv, NEW t \in Tasks, pc[t] = "readRotated"
    PROVE  /\ Combined(t) = LastLines(At(rotated) \o At(active), want[t])
           /\ Combined(t) \in Seq(AllLines)
<1>1. FilesOK /\ TypeOK /\ TaskInv(t)
  BY Parts
<1>2. got[t] = At(active) /\ (want[t] = 0 \/ Len(got[t]) < want[t])
  BY <1>1 DEF TaskInv, TailProgress
<1>3. At(active) \in Seq(AllLines) /\ At(rotated) \in Seq(AllLines) /\ want[t] \in Nat
  BY <1>1, AtType, WantType
<1>4. /\ Missing(t) \in Nat
      /\ want[t] = 0 => Missing(t) = 0
      /\ want[t] # 0 => Len(At(active)) < want[t] /\ Missing(t) = want[t] - Len(At(active))
  BY <1>2, <1>3 DEF Missing
<1>5. Combined(t) = LastLines(At(rotated) \o At(active), want[t])
  BY <1>2, <1>3, <1>4, TailInTwoFiles DEF Combined
<1>6. PICK both \in Seq(AllLines) : both = At(rotated) \o At(active)
  BY <1>3, ConcatProperties
<1>7. LastLines(both, want[t]) \in Seq(AllLines)
  BY <1>3, <1>6, LastLinesType
<1> QED BY <1>5, <1>6, <1>7

LEMMA ReadRotatedStep ==
    ASSUME IndInv, NEW t \in Tasks, ReadRotated(t)
    PROVE  IndInv'
<1>1. pc[t] = "readRotated" /\ UNCHANGED files
  BY DEF ReadRotated
<1>2. CASE Unlock(t) /\ Done(t, "ok", Combined(t))
  BY <1>1, <1>2, CombinedIsTail, SameFiles, DoneStep DEF Outcomes
<1>3. CASE Return(t, "error")
  BY <1>1, <1>3, SameFiles, ReturnStep DEF Outcomes
<1> QED BY <1>2, <1>3 DEF ReadRotated, Combined, Missing

-----------------------------------------------------------------------------
(* Steps from outside *)

LEMMA BeginStep ==
    ASSUME IndInv, NEW t \in Tasks, NEW e \in 0..(calls + 1), NEW n \in Wanted \cup {0},
           Begin(t, e, n)
    PROVE  IndInv'
<1>1. TypeOK /\ FilesOK /\ Exclusion /\ TaskInv(t) /\ pc[t] = "idle"
  BY Parts DEF Begin
<1>2. /\ calls < MaxCalls /\ calls' = calls + 1
      /\ pc' = [pc EXCEPT ![t] = "mutex"]
      /\ event' = [event EXCEPT ![t] = e] /\ want' = [want EXCEPT ![t] = n]
      /\ out' = [out EXCEPT ![t] = "none"] /\ result' = [result EXCEPT ![t] = <<>>]
      /\ UNCHANGED <<files, mutex, flock, cancelled, got>>
  BY DEF Begin, Goto, locks
<1>3. TypeOK'
  <2>1. calls' \in 0..MaxCalls /\ e \in 0..MaxCalls
    BY <1>1, <1>2, AuditBoundsAssumption DEF TypeOK
  <2>2. result' \in [Tasks -> Seq(AllLines)]
    BY <1>1, <1>2 DEF TypeOK
  <2> QED BY <1>1, <1>2, <2>1, <2>2 DEF TypeOK, files, Points, Outcomes
<1>4. OnlyMoves(t)
  BY <1>1, <1>2 DEF TypeOK, OnlyMoves
<1>5. Exclusion'
  BY <1>1, <1>2 DEF Exclusion
<1>6. pc'[t] = "mutex" /\ t \notin mutex' /\ flock'[t] = "none"
  BY <1>1, <1>2 DEF TypeOK, TaskInv, LockDiscipline, Appending, Tailing
<1>7. TaskInv(t)'
  BY <1>6 DEF TaskInv, LockDiscipline, AppendProgress, TailProgress, Appending, Tailing
<1> QED BY <1>2, <1>3, <1>4, <1>5, <1>7, SameFiles, StepPreserves

LEMMA CancelStep ==
    ASSUME IndInv, NEW t \in Tasks, Cancel(t)
    PROVE  IndInv'
  BY DEF Cancel, IndInv, TypeOK, Exclusion, LockDiscipline, AppendProgress, TailProgress,
     LogIsExact, KeepsAFullRotation, At, files, locks, LockMode, IsAppend

LEMMA CrashStep ==
    ASSUME IndInv, NEW p \in Processes, Crash(p)
    PROVE  IndInv'
<1>1. TypeOK /\ FilesOK /\ Exclusion /\ \A t \in Tasks : TaskInv(t)
  BY Parts
<1> DEFINE Dead(t) == ProcessOf[t] = p
<1>2. /\ fd' = [fd EXCEPT ![p] = NoFile]
      /\ mutex' = mutex \ {t \in Tasks : Dead(t)}
      /\ flock' = [t \in Tasks |-> IF Dead(t) THEN "none" ELSE flock[t]]
      /\ pc' = [t \in Tasks |-> IF Dead(t) THEN "idle" ELSE pc[t]]
      /\ event' = [t \in Tasks |-> IF Dead(t) THEN 0 ELSE event[t]]
      /\ want' = [t \in Tasks |-> IF Dead(t) THEN 0 ELSE want[t]]
      /\ cancelled' = [t \in Tasks |-> IF Dead(t) THEN FALSE ELSE cancelled[t]]
      /\ got' = [t \in Tasks |-> IF Dead(t) THEN <<>> ELSE got[t]]
      /\ out' = [t \in Tasks |-> IF Dead(t) THEN "none" ELSE out[t]]
      /\ result' = [t \in Tasks |-> IF Dead(t) THEN <<>> ELSE result[t]]
      /\ UNCHANGED <<active, rotated, content, logged, dropped, calls>>
  BY DEF Crash
<1>3. FilesOK'
  BY <1>1, <1>2 DEF FilesOK, LogIsExact, KeepsAFullRotation, At
<1>4. TypeOK'
  <2>1. got' \in [Tasks -> Seq(AllLines)] /\ result' \in [Tasks -> Seq(AllLines)]
    BY <1>1, <1>2 DEF TypeOK
  <2>2. event' \in [Tasks -> 0..MaxCalls] /\ want' \in [Tasks -> Wanted \cup {0}]
    BY <1>1, <1>2, AuditBoundsAssumption DEF TypeOK
  <2> QED BY <1>1, <1>2, <1>3, <2>1, <2>2 DEF TypeOK, FilesOK, Points, Outcomes
<1>5. Exclusion'
  BY <1>1, <1>2, NoNewLocks DEF TypeOK
<1>6. ASSUME NEW t \in Tasks PROVE TaskInv(t)'
  <2>1. CASE Dead(t)
    <3>1. pc'[t] = "idle" /\ t \notin mutex' /\ flock'[t] = "none"
      BY <1>2, <2>1
    <3> QED BY <3>1 DEF TaskInv, LockDiscipline, AppendProgress, TailProgress,
              Appending, Tailing
  <2>2. CASE ~Dead(t)
    <3>1. /\ pc'[t] = pc[t] /\ event'[t] = event[t] /\ want'[t] = want[t]
          /\ got'[t] = got[t] /\ flock'[t] = flock[t]
          /\ t \in mutex' <=> t \in mutex
      BY <1>2, <2>2
    <3>2. fd'[ProcessOf[t]] = fd[ProcessOf[t]]
      BY <1>1, <1>2, <2>2, ProcessAssumption DEF TypeOK
    <3> QED BY <1>1, <1>2, <3>1, <3>2 DEF TaskInv, LockDiscipline, LockMode, IsAppend,
              AppendProgress, TailProgress, At
  <2> QED BY <2>1, <2>2
<1> QED BY <1>3, <1>4, <1>5, <1>6 DEF IndInv, TypeOK, FilesOK, TaskInv

-----------------------------------------------------------------------------
(* The theorems *)

LEMMA InitInv == Init => IndInv
<1> SUFFICES ASSUME Init PROVE IndInv
  OBVIOUS
<1>1. TypeOK
  BY AuditBoundsAssumption DEF Init, TypeOK, Points, Outcomes
<1>2. FilesOK
  BY <1>1 DEF Init, TypeOK, FilesOK, LogIsExact, KeepsAFullRotation, At
<1>3. Exclusion /\ \A t \in Tasks : TaskInv(t)
  BY DEF Init, Exclusion, TaskInv, LockDiscipline, AppendProgress, TailProgress,
     Appending, Tailing
<1> QED BY <1>1, <1>2, <1>3, Parts

LEMMA NextInv == IndInv /\ [Next]_vars => IndInv'
<1> SUFFICES ASSUME IndInv, [Next]_vars PROVE IndInv'
  OBVIOUS
<1>1. CASE UNCHANGED vars
  BY <1>1 DEF vars, files, locks, tasks, IndInv, TypeOK, Exclusion, LockDiscipline,
     AppendProgress, TailProgress, LogIsExact, KeepsAFullRotation, At, LockMode, IsAppend
<1>2. ASSUME NEW t \in Tasks, BeginAppend(t) PROVE IndInv'
  <2>1. calls + 1 \in 0..(calls + 1)
    BY Parts DEF TypeOK
  <2> QED BY <1>2, <2>1, BeginStep DEF BeginAppend
<1>3. ASSUME NEW t \in Tasks, NEW n \in Wanted, BeginTail(t, n) PROVE IndInv'
  <2>1. 0 \in 0..(calls + 1)
    BY Parts DEF TypeOK
  <2> QED BY <1>3, <2>1, BeginStep DEF BeginTail
<1>4. ASSUME NEW t \in Tasks, Poll(t) PROVE IndInv'
  BY <1>4, TakeMutexStep, TakeFlockStep, EndStep DEF Poll
<1>5. ASSUME NEW t \in Tasks, Native(t) PROVE IndInv'
  BY <1>5, EnsureStep, RotateStep, ReopenStep, WriteStep, ReadActiveStep,
     ReadRotatedStep, EndStep DEF Native
<1>6. ASSUME NEW t \in Tasks, Cancel(t) \/ LockFails(t) PROVE IndInv'
  BY <1>6, CancelStep, EndStep
<1>7. ASSUME NEW p \in Processes, Crash(p) PROVE IndInv'
  BY <1>7, CrashStep
<1> QED BY <1>1, <1>2, <1>3, <1>4, <1>5, <1>6, <1>7 DEF Next

\* The inductive invariant of the audit log holds for any number of processes,
\* tasks and calls, and any threshold.
THEOREM IndInvHolds == Spec => []IndInv
  BY InitInv, NextInv, PTL DEF Spec

\* However appends, rotations, failures and crashes interleave, the history is
\* what was overwritten, then audit.log.1, then audit.log.
THEOREM TheLogIsExact == Spec => []LogIsExact
<1>1. IndInv => LogIsExact
  BY DEF IndInv
<1> QED BY <1>1, IndInvHolds, PTL

\* Whenever a rotation has overwritten history, a log that had reached the
\* threshold is still there.
THEOREM AFullRotationIsKept == Spec => []KeepsAFullRotation
<1>1. IndInv => KeepsAFullRotation
  BY DEF IndInv
<1> QED BY <1>1, IndInvHolds, PTL

-----------------------------------------------------------------------------
(* A tail is exact *)

\* The call of t ends, with that outcome.
Ends(t, outcome) == pc'[t] = "idle" /\ out'[t] = outcome

LEMMA ReturnEnds ==
    ASSUME TypeOK, NEW t \in Tasks, NEW outcome, Return(t, outcome)
    PROVE  out'[t] = outcome
  BY DEF TypeOK, Return, Done

LEMMA OthersStay ==
    ASSUME TypeOK, NEW u \in Tasks, NEW t \in Tasks \ {u},
           \/ \E e, n \in Nat : Begin(u, e, n)
           \/ Cancel(u) \/ Poll(u) \/ Native(u) \/ LockFails(u)
    PROVE  pc'[t] = pc[t]
<1> USE DEF Goto
<1>1. ASSUME NEW outcome, NEW lines, Done(u, outcome, lines) PROVE pc'[t] = pc[t]
  BY <1>1 DEF TypeOK, Done
<1>2. ASSUME NEW outcome, Return(u, outcome) PROVE pc'[t] = pc[t]
  BY <1>1, <1>2 DEF Return
<1>3. ASSUME NEW point, Continue(u, point) PROVE pc'[t] = pc[t]
  BY <1>3 DEF TypeOK, Continue
<1>4. ASSUME NEW point, OpenAndGo(u, point) PROVE pc'[t] = pc[t]
  BY <1>2, <1>3, <1>4 DEF OpenAndGo
<1>5. CASE Poll(u)
  BY <1>2, <1>5 DEF Poll, TakeMutex, TakeFlock, GiveUp, TypeOK
<1>6. CASE Ensure(u) \/ Rotate(u) \/ Reopen(u) \/ Write(u) \/ Sync(u) \/ NoticeCancel(u)
  BY <1>2, <1>3, <1>4, <1>6 DEF Ensure, Rotate, Reopen, Write, Sync, NoticeCancel
<1>7. CASE ReadActive(u)
  BY <1>1, <1>2, <1>7 DEF ReadActive, TypeOK
<1>8. CASE ReadRotated(u)
  BY <1>1, <1>2, <1>8 DEF ReadRotated
<1>9. CASE Cancel(u) \/ LockFails(u) \/ \E e, n \in Nat : Begin(u, e, n)
  BY <1>2, <1>9 DEF Cancel, LockFails, Begin, TypeOK
<1> QED BY <1>5, <1>6, <1>7, <1>8, <1>9 DEF Native

LEMMA ReadActiveExact ==
    ASSUME IndInv, NEW t \in Tasks, ReadActive(t), Ends(t, "ok")
    PROVE  result'[t] = LastLines(At(rotated) \o At(active), want[t])
<1>1. FilesOK /\ TypeOK
  BY Parts
<1>2. PICK lines : lines = LastLines(At(active), want[t])
  OBVIOUS
<1>3. CASE want[t] > 0 /\ Len(lines) >= want[t] /\ Done(t, "ok", lines)
  <2>1. At(active) \in Seq(AllLines) /\ At(rotated) \in Seq(AllLines) /\ want[t] \in Nat
    BY <1>1, AtType, WantType
  <2>2. Len(At(active)) >= want[t]
    BY <1>2, <1>3, <2>1, LastLinesType
  <2>3. LastLines(At(rotated) \o At(active), want[t]) = lines
    BY <1>2, <1>3, <2>1, <2>2, TailInOneFile
  <2> QED BY <1>1, <1>3, <2>3 DEF Done, TypeOK
<1>4. CASE Goto(t, "readRotated")
  BY <1>1, <1>4 DEF Goto, TypeOK, Ends
<1>5. CASE Return(t, "error")
  BY <1>1, <1>5, ReturnEnds DEF Ends
<1> QED BY <1>2, <1>3, <1>4, <1>5 DEF ReadActive

LEMMA ReadRotatedExact ==
    ASSUME IndInv, NEW t \in Tasks, ReadRotated(t), Ends(t, "ok")
    PROVE  result'[t] = LastLines(At(rotated) \o At(active), want[t])
<1>1. TypeOK /\ pc[t] = "readRotated"
  BY Parts DEF ReadRotated
<1>2. CASE Done(t, "ok", Combined(t))
  BY <1>1, <1>2, CombinedIsTail DEF Done, TypeOK
<1>3. CASE Return(t, "error")
  BY <1>1, <1>3, ReturnEnds DEF Ends
<1> QED BY <1>2, <1>3 DEF ReadRotated, Combined, Missing

LEMMA TailStep ==
    ASSUME IndInv, Next, NEW t \in Tasks, pc[t] \in Tailing, Ends(t, "ok")
    PROVE  result'[t] = LastLines(At(rotated) \o At(active), want[t])
<1>1. TypeOK /\ TaskInv(t) /\ pc[t] # "idle" /\ pc'[t] # pc[t]
  BY Parts DEF Tailing, Ends
<1>2. ASSUME NEW u \in Tasks \ {t},
             \/ BeginAppend(u) \/ Cancel(u) \/ Poll(u) \/ Native(u) \/ LockFails(u)
             \/ \E n \in Wanted : BeginTail(u, n)
      PROVE  FALSE
  <2>1. calls + 1 \in Nat /\ Wanted \subseteq Nat
    BY <1>1, WantedAssumption DEF TypeOK
  <2> QED BY <1>1, <1>2, <2>1, OthersStay DEF BeginAppend, BeginTail
<1>3. ASSUME NEW p \in Processes, Crash(p) PROVE FALSE
  BY <1>1, <1>3 DEF Crash, Ends, TypeOK
<1>4. ~BeginAppend(t) /\ \A n \in Wanted : ~BeginTail(t, n)
  BY <1>1 DEF BeginAppend, BeginTail, Begin
<1>5. ~Cancel(t)
  BY <1>1 DEF Cancel
<1>6. ~Poll(t) /\ ~LockFails(t)
  BY DEF Poll, TakeMutex, TakeFlock, GiveUp, LockFails, Waiting, Tailing
<1>7. ~NoticeCancel(t)
  BY <1>1, ReturnEnds DEF NoticeCancel, Ends
<1>8. ~Ensure(t) /\ ~Rotate(t) /\ ~Reopen(t) /\ ~Write(t) /\ ~Sync(t)
  BY DEF Ensure, Rotate, Reopen, Write, Sync, Tailing
<1>9. ReadActive(t) \/ ReadRotated(t)
  BY <1>2, <1>3, <1>4, <1>5, <1>6, <1>7, <1>8 DEF Next, Native
<1> QED BY <1>9, ReadActiveExact, ReadRotatedExact

\* A tail that succeeds returns exactly the last lines of the two files.
THEOREM TailsAreExact == Spec => TailIsExact
<1>1. IndInv /\ [Next]_vars =>
        [\A t \in Tasks :
            pc[t] \in {"readActive", "readRotated"} /\ pc'[t] = "idle" /\ out'[t] = "ok"
            => result'[t] = LastLines(At(rotated) \o At(active), want[t])]_vars
  BY TailStep DEF Ends, Tailing
<1> QED BY <1>1, IndInvHolds, PTL DEF Spec, TailIsExact
=============================================================================
