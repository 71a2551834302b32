-------------------------- MODULE AuditTailProofs --------------------------
(***************************************************************************)
(* Proofs about AuditTailView: what an audit_tail call returns, in terms   *)
(* of the entries that were appended, whatever the size of a block, of an  *)
(* entry and of a window, wherever a write stopped half-way.               *)
(***************************************************************************)
EXTENDS AuditTailView, SequenceTheorems, FiniteSetTheorems, WellFoundedInduction, TLAPS

(* Functions defined step by step *)

\* Induction over the natural numbers, for a set of them.
LEMMA SetInduction ==
    ASSUME NEW S, 0 \in S, \A n \in Nat : n \in S => n + 1 \in S
    PROVE  Nat \subseteq S
<1>1. SUFFICES ASSUME Nat \ S # {} PROVE FALSE
  OBVIOUS
<1>2. PICK n \in Nat \ S : \A m \in Nat \ S : ~(<<m, n>> \in OpToRel(<, Nat))
  BY <1>1, NatLessThanWellFounded, WFMin, Zenon
<1>3. n \in Nat /\ n - 1 \in Nat /\ n - 1 < n /\ n - 1 + 1 = n
  OBVIOUS
<1>4. <<n - 1, n>> \in OpToRel(<, Nat)
  BY <1>3, Zenon DEF OpToRel
<1>5. n - 1 \in S
  BY <1>2, <1>3, <1>4, Zenon
<1> QED BY <1>3, <1>5, Zenon

\* The same up to a bound.
LEMMA BoundedInduction ==
    ASSUME NEW k \in Nat, NEW S, 0 \in S, \A n \in 1..k : n - 1 \in S => n \in S
    PROVE  0..k \subseteq S
<1> DEFINE T == {n \in Nat : n <= k => n \in S}
<1>1. 0 \in T
  OBVIOUS
<1>2. ASSUME NEW n \in Nat, n \in T PROVE n + 1 \in T
  <2>1. n + 1 <= k => n + 1 \in 1..k /\ (n + 1) - 1 = n /\ n <= k
    OBVIOUS
  <2> QED BY <1>2, <2>1
<1> HIDE DEF T
<1>3. Nat \subseteq T
  BY <1>1, <1>2, SetInduction
<1> QED BY <1>3 DEF T

Steps(G, k, S) == G \in [1..k -> [S -> S]]

\* f begins with a and takes the steps of G.
Takes(f, G, k, S, a) ==
    f \in [0..k -> S] /\ f[0] = a /\ \A n \in 1..k : f[n] = G[n][f[n - 1]]

\* There is a function that takes given steps.
LEMMA StepByStep ==
    ASSUME NEW k \in Nat, NEW S, NEW a \in S, NEW G, Steps(G, k, S)
    PROVE  \E f : Takes(f, G, k, S, a)
<1> DEFINE Built(m) == \E f \in [0..m -> S] : f[0] = a /\ \A n \in 1..m : f[n] = G[n][f[n - 1]]
           T == {m \in Nat : m <= k => Built(m)}
<1> USE DEF Steps
<1>1. 0 \in T
  <2>1. PICK f : f = [n \in 0..0 |-> a]
    OBVIOUS
  <2>2. f \in [0..0 -> S] /\ f[0] = a /\ \A n \in 1..0 : f[n] = G[n][f[n - 1]]
    BY <2>1
  <2> QED BY <2>2
<1>2. ASSUME NEW m \in Nat, m \in T, m + 1 <= k PROVE Built(m + 1)
  <2>1. PICK f \in [0..m -> S] : f[0] = a /\ \A n \in 1..m : f[n] = G[n][f[n - 1]]
    BY <1>2
  <2>2. m \in 0..m /\ m + 1 \in 1..k
    BY <1>2
  <2>3. G[m + 1][f[m]] \in S
    BY <2>1, <2>2
  <2>4. PICK e : e = [n \in 0..(m + 1) |-> IF n = m + 1 THEN G[m + 1][f[m]] ELSE f[n]]
    OBVIOUS
  <2>5. e \in [0..(m + 1) -> S]
    BY <2>1, <2>3, <2>4
  <2>6. e[0] = a
    BY <2>1, <2>4
  <2>7. ASSUME NEW n \in 1..(m + 1) PROVE e[n] = G[n][e[n - 1]]
    <3>1. CASE n = m + 1
      <4>1. n - 1 = m /\ m # m + 1 /\ m \in 0..(m + 1) /\ n \in 0..(m + 1)
        BY <3>1
      <4>2. e[m] = f[m] /\ e[n] = G[m + 1][f[m]]
        BY <2>4, <3>1, <4>1
      <4> QED BY <3>1, <4>1, <4>2
    <3>2. CASE n \in 1..m
      <4>1. n # m + 1 /\ n - 1 # m + 1 /\ n \in 0..(m + 1) /\ n - 1 \in 0..(m + 1)
        BY <3>2
      <4>2. e[n] = f[n] /\ e[n - 1] = f[n - 1]
        BY <2>4, <4>1
      <4> QED BY <2>1, <3>2, <4>2
    <3> QED BY <3>1, <3>2
  <2> QED BY <2>5, <2>6, <2>7
<1>3. ASSUME NEW m \in Nat, m \in T PROVE m + 1 \in T
  <2>1. m + 1 \in Nat
    OBVIOUS
  <2>2. m + 1 <= k => Built(m + 1)
    BY <1>2, <1>3, Zenon
  <2> HIDE DEF Built
  <2> QED BY <2>1, <2>2, Zenon
<1> HIDE DEF T
<1>4. Nat \subseteq T
  BY <1>1, <1>3, SetInduction
<1>5. Built(k)
  BY <1>4 DEF T
<1> QED BY <1>5 DEF Takes

-----------------------------------------------------------------------------
(* Sets of numbers in order *)

\* b lists the members of B from the smallest to the greatest.
Lists(b, B) ==
    /\ b \in Seq(Nat)
    /\ \A i, j \in 1..Len(b) : i < j => b[i] < b[j]
    /\ B = {b[i] : i \in 1..Len(b)}

LEMMA ListedOnce ==
    ASSUME NEW b, NEW B, Lists(b, B), NEW i \in 0..Len(b)
    PROVE  /\ IsFiniteSet({b[j] : j \in (i + 1)..Len(b)})
           /\ Cardinality({b[j] : j \in (i + 1)..Len(b)}) = Len(b) - i
<1> DEFINE places == (i + 1)..Len(b)
           listed == {b[j] : j \in places}
           f == [j \in places |-> b[j]]
<1>1. Len(b) \in Nat /\ i \in Int /\ i + 1 \in Int /\ \A j \in places : j \in 1..Len(b)
  BY DEF Lists
<1>2. IsFiniteSet(places) /\ Cardinality(places) = Len(b) - i
  <2>1. PICK m \in Nat : m = Len(b)
    BY <1>1
  <2>2. i + 1 \in Int /\ m \in Int
    BY <2>1
  <2>3. IsFiniteSet((i + 1)..m) /\ Cardinality((i + 1)..m) = IF i + 1 > m THEN 0 ELSE m - (i + 1) + 1
    BY <2>2, FS_Interval
  <2>4. (IF i + 1 > m THEN 0 ELSE m - (i + 1) + 1) = m - i
    BY <2>1
  <2> QED BY <2>1, <2>3, <2>4
<1>3. f \in Bijection(places, listed)
  <2>1. ASSUME NEW j \in places, NEW l \in places, f[j] = f[l] PROVE j = l
    <3>1. j \in 1..Len(b) /\ l \in 1..Len(b) /\ b[j] = b[l]
      BY <1>1, <2>1
    <3>2. b[j] \in Nat /\ b[l] \in Nat
      BY <3>1 DEF Lists
    <3>3. ~(j < l) /\ ~(l < j)
      BY <3>1, <3>2 DEF Lists
    <3> QED BY <3>1, <3>3
  <2>2. f \in Injection(places, listed)
    BY <2>1 DEF Injection, IsInjective
  <2>3. f \in Surjection(places, listed)
    BY DEF Surjection
  <2> QED BY <2>2, <2>3 DEF Bijection
<1>4. IsFiniteSet(listed) /\ Cardinality(places) = Cardinality(listed)
  BY <1>2, <1>3, FS_Bijection, FS_Surjection DEF ExistsBijection
<1> QED BY <1>2, <1>4

\* A listed set has as many members as its list, and its newest are the last.
LEMMA NewestListed ==
    ASSUME NEW b, NEW B, Lists(b, B), NEW n \in Nat
    PROVE  /\ IsFiniteSet(B) /\ Cardinality(B) = Len(b)
           /\ Newest(B, n) = {b[j] : j \in {k \in 1..Len(b) : k > Len(b) - n}}
<1>1. PICK m \in Nat : m = Len(b)
  BY DEF Lists
<1>2. IsFiniteSet(B) /\ Cardinality(B) = m
  <2>1. 0 \in 0..Len(b) /\ (0 + 1)..Len(b) = 1..Len(b) /\ m - 0 = m
    BY <1>1
  <2> QED BY <1>1, <2>1, ListedOnce DEF Lists
<1>3. ASSUME NEW i \in 1..m PROVE Cardinality({x \in B : x > b[i]}) = m - i
  <2>1. {x \in B : x > b[i]} = {b[j] : j \in (i + 1)..m}
    <3>1. ASSUME NEW j \in 1..m PROVE b[j] > b[i] <=> j \in (i + 1)..m
      <4>1. b[j] \in Nat /\ b[i] \in Nat /\ (i < j => b[i] < b[j]) /\ (j < i => b[j] < b[i])
        BY <1>1 DEF Lists
      <4>2. j = i \/ j < i \/ i < j
        OBVIOUS
      <4>3. i < j <=> j \in (i + 1)..m
        OBVIOUS
      <4>4. j = i => ~(b[j] > b[i])
        BY <4>1
      <4>5. j < i => ~(b[j] > b[i])
        BY <4>1
      <4>6. i < j => b[j] > b[i]
        BY <4>1
      <4>7. j = i => ~(i < j)
        OBVIOUS
      <4>8. j < i => ~(i < j)
        OBVIOUS
      <4> QED BY <4>2, <4>3, <4>4, <4>5, <4>6, <4>7, <4>8
    <3>2. B = {b[j] : j \in 1..m}
      BY <1>1 DEF Lists
    <3>3. \A j \in (i + 1)..m : j \in 1..m
      OBVIOUS
    <3> QED BY <3>1, <3>2, <3>3
  <2>2. i \in 0..Len(b)
    BY <1>1
  <2> QED BY <1>1, <2>1, <2>2, ListedOnce
<1>4. ASSUME NEW x PROVE x \in Newest(B, n) <=> x \in {b[j] : j \in {k \in 1..m : k > m - n}}
  <2>1. B = {b[j] : j \in 1..m}
    BY <1>1 DEF Lists
  <2>2. CASE x \in B
    <3>1. PICK i \in 1..m : x = b[i]
      BY <2>1, <2>2
    <3>2. x \in Newest(B, n) <=> m - i < n
      BY <1>3, <2>2, <3>1 DEF Newest
    <3>3. m - i < n <=> i > m - n
      OBVIOUS
    <3>4. ASSUME NEW j \in 1..m, x = b[j] PROVE j = i
      <4>1. b[j] \in Nat /\ (i < j => b[i] < b[j]) /\ (j < i => b[j] < b[i])
        BY <1>1 DEF Lists
      <4>2. ~(b[i] < b[j]) /\ ~(b[j] < b[i])
        BY <3>1, <3>4, <4>1
      <4> QED BY <4>1, <4>2
    <3>5. x \in {b[j] : j \in {k \in 1..m : k > m - n}} <=> i > m - n
      BY <3>1, <3>4
    <3> QED BY <3>2, <3>3, <3>5
  <2>3. CASE x \notin B
    BY <2>1, <2>3 DEF Newest
  <2> QED BY <2>2, <2>3
<1>5. Newest(B, n) = {b[j] : j \in {k \in 1..m : k > m - n}}
  BY <1>4
<1> QED BY <1>1, <1>2, <1>5

\* A greater number goes to the end of the list.
LEMMA ListsOneMore ==
    ASSUME NEW b, NEW B, Lists(b, B), NEW i \in Nat, \A x \in B : x < i
    PROVE  /\ Lists(Append(b, i), B \cup {i})
           /\ Len(Append(b, i)) = Len(b) + 1 /\ Append(b, i)[Len(b) + 1] = i
           /\ \A k \in 1..Len(b) : Append(b, i)[k] = b[k]
<1>1. PICK m \in Nat : m = Len(b)
  BY DEF Lists
<1>2. PICK c : c = Append(b, i)
  OBVIOUS
<1>3. /\ c \in Seq(Nat) /\ Len(c) = m + 1 /\ c[m + 1] = i
      /\ \A k \in 1..m : c[k] = b[k]
  BY <1>1, <1>2, AppendProperties DEF Lists
<1>4. ASSUME NEW j \in 1..(m + 1), NEW k \in 1..(m + 1), j < k PROVE c[j] < c[k]
  <2>1. j \in 1..m
    BY <1>4
  <2>2. c[j] = b[j] /\ b[j] \in B
    BY <1>1, <1>3, <2>1 DEF Lists
  <2>3. CASE k \in 1..m
    BY <1>1, <1>3, <1>4, <2>1, <2>2, <2>3 DEF Lists
  <2>4. CASE k = m + 1
    BY <1>3, <2>2, <2>4
  <2> QED BY <2>3, <2>4
<1>5. {c[k] : k \in 1..(m + 1)} = {b[k] : k \in 1..m} \cup {i}
  <2>1. \A k \in 1..(m + 1) : k \in 1..m \/ k = m + 1
    OBVIOUS
  <2>2. m + 1 \in 1..(m + 1) /\ \A k \in 1..m : k \in 1..(m + 1)
    OBVIOUS
  <2> QED BY <1>3, <2>1, <2>2
<1>6. Lists(c, B \cup {i})
  BY <1>1, <1>3, <1>4, <1>5 DEF Lists
<1> QED BY <1>1, <1>2, <1>3, <1>6

-----------------------------------------------------------------------------
(* Lines of a file *)

Texts == Seq(Nat)

\* The line l is what stands in data from i up to a newline or the end.
LineAt(data, i, l) ==
    /\ l \in Texts /\ l # <<>>
    /\ i \in Nat \ {0} /\ i + Len(l) - 1 <= Len(data)
    /\ \A j \in 1..Len(l) : l[j] = data[i + j - 1] /\ l[j] # 0
    /\ i + Len(l) - 1 = Len(data) \/ data[i + Len(l)] = 0

\* The lines that begin in B, in the order of the file.
LinesOf(data, B, lines) ==
    \E b :
        /\ Lists(b, B)
        /\ lines \in Seq(Texts) /\ Len(lines) = Len(b)
        /\ \A k \in 1..Len(b) : LineAt(data, b[k], lines[k])

LEMMA OneMoreLine ==
    ASSUME NEW data \in Texts, NEW B, NEW lines, LinesOf(data, B, lines),
           NEW i \in Nat, \A x \in B : x < i, NEW l, LineAt(data, i, l)
    PROVE  LinesOf(data, B \cup {i}, Append(lines, l))
<1>1. PICK b : /\ Lists(b, B)
               /\ lines \in Seq(Texts) /\ Len(lines) = Len(b)
               /\ \A k \in 1..Len(b) : LineAt(data, b[k], lines[k])
  BY DEF LinesOf
<1>2. PICK m \in Nat : m = Len(b)
  BY <1>1 DEF Lists
<1>3. PICK c : c = Append(b, i)
  OBVIOUS
<1>4. /\ Lists(c, B \cup {i}) /\ Len(c) = m + 1 /\ c[m + 1] = i
      /\ \A k \in 1..m : c[k] = b[k]
  BY <1>1, <1>2, <1>3, ListsOneMore
<1>5. PICK more : more = Append(lines, l)
  OBVIOUS
<1>6. /\ more \in Seq(Texts) /\ Len(more) = m + 1 /\ more[m + 1] = l
      /\ \A k \in 1..m : more[k] = lines[k]
  <2>1. l \in Texts
    BY DEF LineAt
  <2> QED BY <1>1, <1>2, <1>5, <2>1, AppendProperties
<1>7. \A k \in 1..(m + 1) : LineAt(data, c[k], more[k])
  <2>1. ASSUME NEW k \in 1..(m + 1) PROVE LineAt(data, c[k], more[k])
    <3>1. CASE k \in 1..m
      BY <1>1, <1>2, <1>4, <1>6, <3>1, Zenon
    <3>2. CASE k = m + 1
      BY <1>4, <1>6, <3>2
    <3> QED BY <3>1, <3>2
  <2> QED BY <2>1
<1> QED BY <1>4, <1>5, <1>6, <1>7 DEF LinesOf

\* SplitLines as the function it evaluates, after i bytes.
SplitAt(data, now, i) ==
    IF data[i] # 0 THEN now
    ELSE [lines |-> IF i = now.start THEN now.lines
                    ELSE Append(now.lines, SubSeq(data, now.start, i - 1)),
          start |-> i + 1]

Unsplit == [lines |-> <<>>, start |-> 1]

IsSplitting(f, data) ==
    f = [i \in 0..Len(data) |-> IF i = 0 THEN Unsplit ELSE SplitAt(data, f[i - 1], i)]

Finished(data, all) ==
    IF all.start > Len(data) THEN all.lines
    ELSE Append(all.lines, SubSeq(data, all.start, Len(data)))

Splits == [lines : Seq(Texts), start : Nat \ {0}]

LEMMA Splitting ==
    ASSUME NEW data \in Texts
    PROVE  \E f : IsSplitting(f, data) /\ SplitLines(data) = Finished(data, f[Len(data)])
<1>1. PICK k \in Nat : k = Len(data)
  BY DEF Texts
<1>2. ASSUME NEW i \in 1..k, NEW now \in Splits PROVE SplitAt(data, now, i) \in Splits
  <2>1. PICK first \in Nat \ {0} : first = now.start
    BY DEF Splits
  <2>2. PICK line : line = SubSeq(data, first, i - 1)
    OBVIOUS
  <2>3. line \in Texts
    <3>1. CASE first > i - 1
      <4>1. line = <<>>
        BY <2>2, <3>1, SubSeqEmpty DEF Texts
      <4> QED BY <4>1, EmptySeq DEF Texts
    <3>2. CASE first <= i - 1
      <4>1. first \in 1..(k + 1) /\ i - 1 \in (first - 1)..k
        BY <3>2
      <4> QED BY <1>1, <2>2, <4>1, SubSeqProperties DEF Texts
    <3> QED BY <3>1, <3>2
  <2>4. now.lines \in Seq(Texts) /\ Append(now.lines, line) \in Seq(Texts)
    BY <2>3, AppendProperties DEF Splits
  <2>5. i + 1 \in Nat \ {0}
    OBVIOUS
  <2> QED BY <2>1, <2>2, <2>4, <2>5 DEF SplitAt, Splits
<1>3. Unsplit \in Splits
  BY EmptySeq DEF Unsplit, Splits
<1>4. PICK G : /\ Steps(G, k, Splits)
               /\ \A i \in 1..k : \A now \in Splits : G[i][now] = SplitAt(data, now, i)
  <2>1. PICK g : g = [i \in 1..k |-> [now \in Splits |-> SplitAt(data, now, i)]]
    OBVIOUS
  <2>2. Steps(g, k, Splits)
    BY <1>2, <2>1 DEF Steps
  <2> QED BY <2>1, <2>2
<1>5. PICK f : Takes(f, G, k, Splits, Unsplit)
  BY <1>3, <1>4, StepByStep
<1>6. \A i \in 0..k : f[i] = IF i = 0 THEN Unsplit ELSE SplitAt(data, f[i - 1], i)
  <2>1. ASSUME NEW i \in 1..k PROVE G[i][f[i - 1]] = SplitAt(data, f[i - 1], i)
    <3>1. f[i - 1] \in Splits
      BY <1>5 DEF Takes
    <3> QED BY <1>4, <3>1
  <2>2. \A i \in 0..k : i # 0 => i \in 1..k
    OBVIOUS
  <2> QED BY <1>5, <2>1, <2>2 DEF Takes
<1>7. IsSplitting(f, data)
  <2>1. f = [i \in 0..k |-> f[i]]
    BY <1>5 DEF Takes
  <2> QED BY <1>1, <1>6, <2>1 DEF IsSplitting
<1>8. PICK g : g = CHOOSE h : IsSplitting(h, data)
  OBVIOUS
<1>9. SplitLines(data) = Finished(data, g[Len(data)])
  BY <1>8 DEF SplitLines, IsSplitting, Finished, SplitAt, Unsplit
<1> QED BY <1>7, <1>8, <1>9

LEMMA LineBetween ==
    ASSUME NEW data \in Texts, NEW i \in 1..Len(data), NEW last \in i..Len(data),
           \A j \in i..last : data[j] # 0, last = Len(data) \/ data[last + 1] = 0
    PROVE  LineAt(data, i, SubSeq(data, i, last))
<1>1. PICK k \in Nat : k = Len(data)
  BY DEF Texts
<1>2. PICK l : l = SubSeq(data, i, last)
  OBVIOUS
<1>3. \A j \in 1..k : data[j] \in Nat
  BY <1>1 DEF Texts
<1>4. i \in 1..k /\ last \in i..k /\ i \in Int /\ last \in Int
  BY <1>1
<1>5. \A j \in i..last : data[j] \in Nat
  BY <1>3, <1>4
<1>6. /\ l \in Seq(Nat)
      /\ Len(l) = last - i + 1
      /\ \A j \in 1..(last - i + 1) : l[j] = data[i + j - 1]
  BY <1>2, <1>4, <1>5, SubSeqProperties
<1>7. PICK m \in Nat : m = last - i + 1
  BY <1>4
<1>8. \A j \in 1..m : i + j - 1 \in i..last
  BY <1>4, <1>7
<1>9. l # <<>>
  <2>1. m # 0
    BY <1>4, <1>7
  <2> QED BY <1>6, <1>7, <2>1
<1>10. i + m - 1 = last /\ i + m = last + 1
  BY <1>4, <1>7
<1>11. \A j \in 1..m : l[j] = data[i + j - 1] /\ l[j] # 0
  BY <1>6, <1>7, <1>8
<1>12. last <= k
  BY <1>4
<1>13. Len(l) = m
  BY <1>6, <1>7
<1>14. i \in Nat \ {0} /\ i + m - 1 <= k /\ (i + m - 1 = k \/ data[i + m] = 0)
  BY <1>1, <1>4, <1>10, <1>12
<1>15. LineAt(data, i, l)
  BY <1>1, <1>6, <1>9, <1>11, <1>13, <1>14, Zenon DEF LineAt, Texts
<1> QED BY <1>2, <1>15

\* Where SplitLines stands after i bytes.
Split(data, i, now) ==
    /\ now \in Splits /\ now.start \in 1..(i + 1)
    /\ \A j \in now.start..i : data[j] # 0
    /\ now.start = 1 \/ data[now.start - 1] = 0
    /\ LinesOf(data, {j \in Begins(data) : j < now.start}, now.lines)

\* The line that is open when a newline or the end comes.
LEMMA OpenLine ==
    ASSUME NEW data \in Texts, NEW last \in 1..Len(data), NEW now, Split(data, last, now),
           now.start <= last, last = Len(data) \/ data[last + 1] = 0
    PROVE  LinesOf(data, {j \in Begins(data) : j < last + 1},
                   Append(now.lines, SubSeq(data, now.start, last)))
<1>1. PICK k \in Nat : k = Len(data)
  BY DEF Texts
<1>2. PICK i \in 1..k : i = now.start /\ i <= last
  BY <1>1 DEF Split
<1>3. LineAt(data, i, SubSeq(data, i, last))
  BY <1>1, <1>2, LineBetween DEF Split
<1>4. {j \in Begins(data) : j < last + 1} = {j \in Begins(data) : j < i} \cup {i}
  <2>1. i \in Begins(data)
    BY <1>1, <1>2 DEF Split, Begins, Texts
  <2>2. ASSUME NEW j \in Begins(data), i < j, j < last + 1 PROVE FALSE
    <3>1. j \in 1..k
      BY <1>1 DEF Begins, Texts
    <3>2. j - 1 \in i..last /\ j # 1
      BY <2>2, <3>1
    <3> QED BY <1>2, <3>2 DEF Begins, Split
  <2>3. \A j \in Begins(data) : j \in 1..k
    BY <1>1 DEF Begins, Texts
  <2>4. \A j \in 1..k : (j < i => j < last + 1) /\ (j < i \/ j = i \/ i < j)
    BY <1>2
  <2>5. i < last + 1
    BY <1>2
  <2> QED BY <2>1, <2>2, <2>3, <2>4, <2>5
<1>5. LinesOf(data, {j \in Begins(data) : j < i}, now.lines)
  BY <1>2 DEF Split
<1> QED BY <1>2, <1>3, <1>4, <1>5, OneMoreLine

LEMMA NextSplit ==
    ASSUME NEW data \in Texts, NEW i \in 1..Len(data), NEW now, Split(data, i - 1, now)
    PROVE  Split(data, i, SplitAt(data, now, i))
<1>1. PICK k \in Nat : k = Len(data)
  BY DEF Texts
<1>2. i \in 1..k /\ i - 1 + 1 = i /\ now.start \in 1..i
  BY <1>1 DEF Split
<1>3. CASE data[i] # 0
  <2>1. now.start \in 1..(i + 1)
    BY <1>2
  <2>2. \A j \in now.start..i : j \in now.start..(i - 1) \/ j = i
    BY <1>2
  <2>3. SplitAt(data, now, i) = now
    BY <1>3 DEF SplitAt
  <2> QED BY <1>3, <2>1, <2>2, <2>3 DEF Split
<1>4. CASE data[i] = 0
  <2>1. PICK next : next = SplitAt(data, now, i)
    OBVIOUS
  <2>2. next.start = i + 1 /\ i + 1 \in 1..(i + 1) /\ i + 1 - 1 = i /\ (i + 1)..i = {}
    BY <1>2, <1>4, <2>1 DEF SplitAt
  <2>3. next.lines \in Seq(Texts) /\ LinesOf(data, {j \in Begins(data) : j < i + 1}, next.lines)
    <3>1. CASE now.start = i
      <4>1. next.lines = now.lines
        BY <1>4, <2>1, <3>1 DEF SplitAt
      <4>2. \A j \in Begins(data) : j \in 1..k /\ j # i
        BY <1>1, <1>4 DEF Begins, Texts
      <4>3. \A j \in 1..k : j # i => (j < i <=> j < i + 1)
        BY <1>2
      <4>4. {j \in Begins(data) : j < i + 1} = {j \in Begins(data) : j < i}
        BY <4>2, <4>3
      <4> QED BY <3>1, <4>1, <4>4 DEF Split, Splits
    <3>2. CASE now.start # i
      <4>1. next.lines = Append(now.lines, SubSeq(data, now.start, i - 1))
        BY <1>4, <2>1, <3>2 DEF SplitAt
      <4>2. i - 1 \in 1..Len(data) /\ now.start <= i - 1 /\ data[i - 1 + 1] = 0
        BY <1>1, <1>2, <1>4, <3>2
      <4>3. LinesOf(data, {j \in Begins(data) : j < i - 1 + 1}, next.lines)
        BY <4>1, <4>2, OpenLine
      <4>4. \A j \in Begins(data) : j \in 1..k /\ j # i
        BY <1>1, <1>4 DEF Begins, Texts
      <4>5. \A j \in 1..k : j # i => (j < i - 1 + 1 <=> j < i + 1)
        BY <1>2
      <4>6. {j \in Begins(data) : j < i + 1} = {j \in Begins(data) : j < i - 1 + 1}
        BY <4>4, <4>5
      <4> QED BY <4>3, <4>6 DEF LinesOf
    <3> QED BY <3>1, <3>2
  <2>4. next \in Splits
    <3>1. next = [lines |-> next.lines, start |-> next.start]
      BY <1>4, <2>1 DEF SplitAt
    <3>2. next.start \in Nat \ {0}
      BY <1>2, <2>2
    <3> QED BY <2>3, <3>1, <3>2 DEF Splits
  <2> QED BY <1>4, <2>1, <2>2, <2>3, <2>4 DEF Split
<1> QED BY <1>3, <1>4

LEMMA NothingListed == Lists(<<>>, {})
<1>1. \A i \in 1..0 : FALSE
  OBVIOUS
<1> QED BY <1>1, EmptySeq DEF Lists

\* SplitLines gives the lines of a file.
LEMMA SplitIsExact ==
    ASSUME NEW data \in Texts
    PROVE  LinesOf(data, Begins(data), SplitLines(data))
<1>1. PICK k \in Nat : k = Len(data)
  BY DEF Texts
<1>2. PICK f : IsSplitting(f, data) /\ SplitLines(data) = Finished(data, f[k])
  BY <1>1, Splitting
<1>3. /\ f[0] = Unsplit
      /\ \A i \in 1..k : f[i] = SplitAt(data, f[i - 1], i)
  <2>1. 0 \in 0..k /\ \A i \in 1..k : i \in 0..k /\ i # 0
    OBVIOUS
  <2> QED BY <1>1, <1>2, <2>1 DEF IsSplitting
<1> DEFINE S == {i \in 0..k : Split(data, i, f[i])}
<1>4. 0 \in S
  <2>1. \A j \in Begins(data) : ~(j < 1)
    BY DEF Begins, Texts
  <2>2. {j \in Begins(data) : j < 1} = {}
    BY <2>1
  <2>3. LinesOf(data, {}, <<>>)
    <3>1. <<>> \in Seq(Texts) /\ Len(<<>>) = 0
      BY EmptySeq
    <3> QED BY <3>1, NothingListed DEF LinesOf
  <2>4. Unsplit \in Splits
    BY EmptySeq DEF Unsplit, Splits
  <2>5. Unsplit.start = 1 /\ Unsplit.lines = <<>> /\ 1 \in 1..(0 + 1) /\ 1..0 = {} /\ 0 \in 0..k
    BY DEF Unsplit
  <2>6. Split(data, 0, Unsplit)
    BY <2>2, <2>3, <2>4, <2>5 DEF Split
  <2> QED BY <1>3, <2>5, <2>6
<1>5. ASSUME NEW i \in 1..k, i - 1 \in S PROVE i \in S
  BY <1>1, <1>3, <1>5, NextSplit
<1>6. 0..k \subseteq S
  <2> HIDE DEF S
  <2> QED BY <1>4, <1>5, BoundedInduction
<1>7. PICK all : all = f[k] /\ Split(data, k, all)
  <2>1. k \in 0..k
    OBVIOUS
  <2> QED BY <1>6, <2>1
<1>8. all.start \in 1..(k + 1)
  BY <1>7 DEF Split
<1>9. \A j \in Begins(data) : j \in 1..k
  BY <1>1 DEF Begins, Texts
<1>10. {j \in Begins(data) : j < k + 1} = Begins(data)
  BY <1>9
<1>11. CASE all.start > k
  <2>1. all.start = k + 1
    BY <1>8, <1>11
  <2>2. SplitLines(data) = all.lines
    BY <1>1, <1>2, <1>7, <1>11 DEF Finished
  <2> QED BY <1>7, <1>10, <2>1, <2>2 DEF Split
<1>12. CASE all.start <= k
  <2>1. k \in 1..Len(data)
    BY <1>1, <1>8, <1>12
  <2>2. SplitLines(data) = Append(all.lines, SubSeq(data, all.start, k))
    <3>1. ~(all.start > k)
      BY <1>8, <1>12
    <3> QED BY <1>1, <1>2, <1>7, <3>1, Zenon DEF Finished
  <2>3. LinesOf(data, {j \in Begins(data) : j < k + 1}, SplitLines(data))
    BY <1>1, <1>7, <1>12, <2>1, <2>2, OpenLine
  <2> QED BY <1>10, <2>3
<1> QED BY <1>8, <1>11, <1>12

-----------------------------------------------------------------------------
(* The backward reader *)

\* ScanBlock as the function it evaluates, after k bytes from the end.
ScanAt(chunk, now, k) ==
    IF now.wanted = 0 THEN now
    ELSE IF chunk[Len(chunk) - k + 1] # 0 THEN [now EXCEPT !.inside = TRUE]
    ELSE IF ~now.inside THEN now
    ELSE [wanted |-> now.wanted - 1, inside |-> FALSE,
          from |-> IF now.wanted = 1 THEN Len(chunk) - k + 1 + 1 ELSE 1]

Unscanned(wanted, inside) == [wanted |-> wanted, inside |-> inside, from |-> 1]

IsScan(f, chunk, wanted, inside) ==
    f = [k \in 0..Len(chunk) |->
           IF k = 0 THEN Unscanned(wanted, inside) ELSE ScanAt(chunk, f[k - 1], k)]

Scans == [wanted : Nat, inside : BOOLEAN, from : Nat \ {0}]

LEMMA Scanning ==
    ASSUME NEW chunk \in Texts, NEW wanted \in Nat, NEW inside \in BOOLEAN
    PROVE  \E f : /\ IsScan(f, chunk, wanted, inside)
                  /\ ScanBlock(chunk, wanted, inside) = f[Len(chunk)]
<1>1. PICK m \in Nat : m = Len(chunk)
  BY DEF Texts
<1>2. ASSUME NEW k \in 1..m, NEW now \in Scans PROVE ScanAt(chunk, now, k) \in Scans
  <2>1. now.wanted \in Nat /\ now.inside \in BOOLEAN /\ now.from \in Nat \ {0}
    BY DEF Scans
  <2>2. m - k + 1 + 1 \in Nat \ {0}
    OBVIOUS
  <2>3. now.wanted # 0 => now.wanted - 1 \in Nat
    BY <2>1
  <2>4. [now EXCEPT !.inside = TRUE] \in Scans
    BY DEF Scans
  <2> QED BY <1>1, <2>1, <2>2, <2>3, <2>4 DEF ScanAt, Scans
<1>3. Unscanned(wanted, inside) \in Scans
  BY DEF Unscanned, Scans
<1>4. PICK G : /\ Steps(G, m, Scans)
               /\ \A k \in 1..m : \A now \in Scans : G[k][now] = ScanAt(chunk, now, k)
  <2>1. PICK g : g = [k \in 1..m |-> [now \in Scans |-> ScanAt(chunk, now, k)]]
    OBVIOUS
  <2>2. Steps(g, m, Scans)
    BY <1>2, <2>1 DEF Steps
  <2> QED BY <2>1, <2>2
<1>5. PICK f : Takes(f, G, m, Scans, Unscanned(wanted, inside))
  BY <1>3, <1>4, StepByStep
<1>6. \A k \in 0..m : f[k] = IF k = 0 THEN Unscanned(wanted, inside) ELSE ScanAt(chunk, f[k - 1], k)
  <2>1. ASSUME NEW k \in 1..m PROVE G[k][f[k - 1]] = ScanAt(chunk, f[k - 1], k)
    <3>1. f[k - 1] \in Scans
      BY <1>5 DEF Takes
    <3> QED BY <1>4, <3>1
  <2>2. \A k \in 0..m : k # 0 => k \in 1..m
    OBVIOUS
  <2> QED BY <1>5, <2>1, <2>2 DEF Takes
<1>7. IsScan(f, chunk, wanted, inside)
  <2>1. f = [k \in 0..m |-> f[k]]
    BY <1>5 DEF Takes
  <2> QED BY <1>1, <1>6, <2>1 DEF IsScan
<1>8. PICK g : g = CHOOSE h : IsScan(h, chunk, wanted, inside)
  OBVIOUS
<1>9. ScanBlock(chunk, wanted, inside) = g[Len(chunk)]
  BY <1>8 DEF ScanBlock, IsScan, ScanAt, Unscanned
<1> QED BY <1>7, <1>8, <1>9

\* The records that begin after the first m bytes.
After(data, m) == {i \in Begins(data) : i > m}

\* The newest n records begin after the first c bytes, where a record may begin.
CutAt(data, n, c) ==
    /\ c \in 0..Len(data)
    /\ c = 0 \/ data[c] = 0
    /\ \/ Cardinality(After(data, c)) = n
       \/ c = 0 /\ Cardinality(After(data, c)) <= n

\* All but the first m bytes are scanned, and records are still wanted.
Scanned(data, n, m, wanted, inside) ==
    /\ m \in 0..Len(data)
    /\ wanted \in Nat \ {0} /\ inside \in BOOLEAN
    /\ Cardinality(After(data, m + 1)) = n - wanted
    /\ inside <=> m < Len(data) /\ data[m + 1] # 0

LEMMA AfterFinite ==
    ASSUME NEW data \in Texts, NEW m \in Nat
    PROVE  IsFiniteSet(After(data, m)) /\ Cardinality(After(data, m)) \in Nat
<1>1. PICK k \in Nat : k = Len(data)
  BY DEF Texts
<1>2. IsFiniteSet(1..k)
  <2>1. 1 \in Int /\ k \in Int
    OBVIOUS
  <2> QED BY <2>1, FS_Interval
<1>3. After(data, m) \subseteq 1..k
  BY <1>1 DEF After, Begins, Texts
<1> QED BY <1>2, <1>3, FS_Subset, FS_CardinalityType

\* One byte more is scanned.
LEMMA AfterOneMore ==
    ASSUME NEW data \in Texts, NEW p \in 1..Len(data)
    PROVE  IF p < Len(data) /\ data[p + 1] # 0 /\ data[p] = 0
           THEN Cardinality(After(data, p)) = Cardinality(After(data, p + 1)) + 1
           ELSE After(data, p) = After(data, p + 1)
<1>1. PICK k \in Nat : k = Len(data)
  BY DEF Texts
<1>2. p \in 1..k /\ p + 1 \in Nat /\ p + 1 - 1 = p /\ p + 1 # 1
  BY <1>1
<1>3. \A i \in Begins(data) : i \in 1..k
  BY <1>1 DEF Begins, Texts
<1>4. \A i \in 1..k : i > p <=> i > p + 1 \/ i = p + 1
  BY <1>2
<1>5. p + 1 \in Begins(data) <=> p < k /\ data[p + 1] # 0 /\ data[p] = 0
  <2>1. DOMAIN data = 1..k
    BY <1>1 DEF Texts
  <2>2. p + 1 \in 1..k <=> p < k
    BY <1>2
  <2> QED BY <1>2, <2>1, <2>2 DEF Begins
<1>6. CASE p < k /\ data[p + 1] # 0 /\ data[p] = 0
  <2>1. After(data, p) = After(data, p + 1) \cup {p + 1}
    BY <1>2, <1>3, <1>4, <1>5, <1>6 DEF After
  <2>2. p + 1 \notin After(data, p + 1)
    BY <1>2 DEF After
  <2>3. Cardinality(After(data, p)) = Cardinality(After(data, p + 1)) + 1
    BY <1>2, <2>1, <2>2, AfterFinite, FS_AddElement
  <2> QED BY <1>1, <1>6, <2>3
<1>7. CASE ~(p < k /\ data[p + 1] # 0 /\ data[p] = 0)
  <2>1. After(data, p) = After(data, p + 1)
    BY <1>3, <1>4, <1>5, <1>7 DEF After
  <2> QED BY <1>1, <1>7, <2>1
<1> QED BY <1>6, <1>7

\* Where a scan stands within the block from start to end.
InBlock(data, n, start, m, size, now) ==
    /\ now \in Scans
    /\ \/ now.from = 1 /\ Scanned(data, n, m, now.wanted, now.inside)
       \/ now.wanted = 0 /\ now.from \in 1..(size + 1) /\ CutAt(data, n, start + now.from - 1)

LEMMA ScanOneMore ==
    ASSUME NEW data \in Texts, NEW n \in Nat, NEW start \in Nat, NEW size \in Nat,
           start + size <= Len(data), NEW k \in 1..size, NEW now, NEW chunk \in Texts,
           Len(chunk) = size, \A i \in 1..size : chunk[i] = data[start + i],
           InBlock(data, n, start, start + size - (k - 1), size, now)
    PROVE  InBlock(data, n, start, start + size - k, size, ScanAt(chunk, now, k))
<1>1. PICK l \in Nat : l = Len(data)
  BY DEF Texts
<1>2. PICK i \in 1..size : i = size - k + 1
  <2>1. size - k + 1 \in 1..size
    OBVIOUS
  <2> QED BY <2>1
<1>3. PICK p \in 1..l : p = start + i
  <2>1. start + i \in 1..l
    BY <1>1
  <2> QED BY <2>1
<1>4. start + size - (k - 1) = p /\ start + size - k = p - 1 /\ p - 1 + 1 = p /\ p - 1 \in 0..l
  BY <1>2, <1>3
<1>5. chunk[Len(chunk) - k + 1] = data[p]
  BY <1>2, <1>3
<1>6. PICK next : next = ScanAt(chunk, now, k)
  OBVIOUS
<1>7. CASE now.wanted = 0
  <2>1. next = now
    BY <1>6, <1>7 DEF ScanAt
  <2>2. ~Scanned(data, n, p, now.wanted, now.inside)
    BY <1>7 DEF Scanned
  <2> QED BY <1>4, <1>6, <2>1, <2>2 DEF InBlock
<1>8. CASE now.wanted # 0
  <2>1. now \in Scans /\ now.from = 1 /\ Scanned(data, n, p, now.wanted, now.inside)
    BY <1>4, <1>8 DEF InBlock
  <2>2. PICK w \in Nat \ {0} : w = now.wanted /\ Cardinality(After(data, p + 1)) = n - w
    BY <2>1 DEF Scanned
  <2>3. PICK c \in Nat : c = Cardinality(After(data, p))
    BY AfterFinite
  <2>4. PICK d \in Nat : d = Cardinality(After(data, p + 1)) /\ d = n - w
    <3>1. p + 1 \in Nat
      OBVIOUS
    <3> QED BY <2>2, <3>1, AfterFinite
  <2>5. now.inside <=> p < l /\ data[p + 1] # 0
    BY <1>1, <2>1 DEF Scanned
  <2>6. IF now.inside /\ data[p] = 0 THEN c = d + 1 ELSE c = d
    BY <1>1, <2>3, <2>4, <2>5, AfterOneMore
  <2>7. p - 1 < l
    OBVIOUS
  <2>8. CASE data[p] # 0
    <3>1. next = [now EXCEPT !.inside = TRUE]
      BY <1>5, <1>6, <1>8, <2>8 DEF ScanAt
    <3>2. next \in Scans /\ next.from = 1 /\ next.wanted = w /\ next.inside = TRUE
      BY <2>1, <2>2, <3>1 DEF Scans
    <3>3. Scanned(data, n, p - 1, w, TRUE)
      BY <1>1, <1>4, <2>3, <2>4, <2>6, <2>7, <2>8 DEF Scanned
    <3> QED BY <1>4, <1>6, <3>2, <3>3 DEF InBlock
  <2>9. CASE data[p] = 0 /\ ~now.inside
    <3>1. next = now
      BY <1>5, <1>6, <1>8, <2>9 DEF ScanAt
    <3>2. Scanned(data, n, p - 1, w, FALSE)
      BY <1>1, <1>4, <2>3, <2>4, <2>6, <2>7, <2>9 DEF Scanned
    <3>3. now.inside = FALSE
      BY <2>1, <2>9 DEF Scans
    <3> QED BY <1>4, <1>6, <2>1, <2>2, <3>1, <3>2, <3>3 DEF InBlock
  <2>10. CASE data[p] = 0 /\ now.inside
    <3>1. next = [wanted |-> w - 1, inside |-> FALSE, from |-> IF w = 1 THEN i + 1 ELSE 1]
      BY <1>2, <1>5, <1>6, <1>8, <2>2, <2>10 DEF ScanAt
    <3>2. next \in Scans
      <4>1. w - 1 \in Nat /\ i + 1 \in Nat \ {0} /\ 1 \in Nat \ {0}
        OBVIOUS
      <4> QED BY <3>1, <4>1 DEF Scans
    <3>3. CASE w = 1
      <4>1. next.wanted = 0 /\ next.from = i + 1
        BY <3>1, <3>3
      <4>2. i + 1 \in 1..(size + 1) /\ start + (i + 1) - 1 = p /\ p \in 0..l
        BY <1>3
      <4>3. c = n
        BY <2>4, <2>6, <2>10, <3>3
      <4>4. CutAt(data, n, p)
        BY <1>1, <2>3, <2>10, <4>2, <4>3 DEF CutAt
      <4> QED BY <1>6, <3>2, <4>1, <4>2, <4>4 DEF InBlock
    <3>4. CASE w # 1
      <4>1. next.wanted = w - 1 /\ next.from = 1 /\ next.inside = FALSE
        BY <3>1, <3>4
      <4>2. w - 1 \in Nat \ {0} /\ c = n - (w - 1)
        <5>1. c = d + 1 /\ d = n - w
          BY <2>4, <2>6, <2>10, Zenon
        <5> QED BY <3>4, <5>1
      <4>3. Scanned(data, n, p - 1, w - 1, FALSE)
        BY <1>1, <1>4, <2>3, <2>7, <2>10, <4>2 DEF Scanned
      <4> QED BY <1>4, <1>6, <3>2, <4>1, <4>3 DEF InBlock
    <3> QED BY <3>3, <3>4
  <2> QED BY <2>8, <2>9, <2>10
<1> QED BY <1>7, <1>8

\* ScanBlock finds where the newest n records begin, or goes on wanting some.
LEMMA BlockIsScanned ==
    ASSUME NEW data \in Texts, NEW n \in Nat, NEW start \in Nat, NEW size \in Nat,
           start + size <= Len(data), NEW wanted, NEW inside,
           Scanned(data, n, start + size, wanted, inside), NEW chunk \in Texts,
           Len(chunk) = size, \A i \in 1..size : chunk[i] = data[start + i]
    PROVE  InBlock(data, n, start, start, size, ScanBlock(chunk, wanted, inside))
<1>1. wanted \in Nat /\ inside \in BOOLEAN
  BY DEF Scanned
<1>2. PICK f : IsScan(f, chunk, wanted, inside) /\ ScanBlock(chunk, wanted, inside) = f[size]
  BY <1>1, Scanning
<1>3. /\ f[0] = Unscanned(wanted, inside)
      /\ \A k \in 1..size : f[k] = ScanAt(chunk, f[k - 1], k)
  <2>1. 0 \in 0..size /\ \A k \in 1..size : k \in 0..size /\ k # 0
    OBVIOUS
  <2> QED BY <1>2, <2>1 DEF IsScan
<1> DEFINE S == {k \in 0..size : InBlock(data, n, start, start + size - k, size, f[k])}
<1>4. 0 \in S
  <2>1. Unscanned(wanted, inside) \in Scans
    BY <1>1 DEF Unscanned, Scans
  <2>2. start + size - 0 = start + size /\ 0 \in 0..size
    OBVIOUS
  <2>3. InBlock(data, n, start, start + size, size, Unscanned(wanted, inside))
    BY <2>1 DEF InBlock, Unscanned
  <2> QED BY <1>3, <2>2, <2>3
<1>5. ASSUME NEW k \in 1..size, k - 1 \in S PROVE k \in S
  <2>1. InBlock(data, n, start, start + size - (k - 1), size, f[k - 1])
    BY <1>5
  <2>2. InBlock(data, n, start, start + size - k, size, ScanAt(chunk, f[k - 1], k))
    BY <2>1, ScanOneMore
  <2>3. f[k] = ScanAt(chunk, f[k - 1], k) /\ k \in 0..size
    BY <1>3
  <2> QED BY <2>2, <2>3
<1>6. 0..size \subseteq S
  <2> HIDE DEF S
  <2> QED BY <1>4, <1>5, BoundedInduction
<1>7. size \in 0..size /\ start + size - size = start
  OBVIOUS
<1> QED BY <1>2, <1>6, <1>7

\* ReadTail as the function it evaluates, after k blocks.
ReadBlock(data, now) ==
    LET start == IF now.end < Block THEN 0 ELSE now.end - Block
        chunk == SubSeq(data, start + 1, now.end)
        found == ScanBlock(chunk, now.wanted, now.inside)
    IN  IF now.end = 0 THEN now
        ELSE [end |-> IF found.wanted = 0 THEN 0 ELSE start,
              wanted |-> found.wanted, inside |-> found.inside,
              tail |-> SubSeq(chunk, found.from, Len(chunk)) \o now.tail]

Unread(data, n) == [end |-> Len(data), wanted |-> n, inside |-> FALSE, tail |-> <<>>]

IsReading(f, data, n) ==
    f = [k \in 0..Len(data) |-> IF k = 0 THEN Unread(data, n) ELSE ReadBlock(data, f[k - 1])]

\* After k blocks: what has been read is the rest of the file, or its newest n records.
Reading(data, n, k, now) ==
    /\ now = [end |-> now.end, wanted |-> now.wanted, inside |-> now.inside, tail |-> now.tail]
    /\ now.end \in Nat /\ now.wanted \in Nat /\ now.inside \in BOOLEAN
    /\ now.end <= Len(data) - k
    /\ \/ /\ now.end # 0 /\ Scanned(data, n, now.end, now.wanted, now.inside)
          /\ now.tail = SubSeq(data, now.end + 1, Len(data))
       \/ /\ now.end = 0
          /\ \E c \in 0..Len(data) :
               CutAt(data, n, c) /\ now.tail = SubSeq(data, c + 1, Len(data))

LEMMA SuffixOfBlock ==
    ASSUME NEW data \in Texts, NEW start \in Nat, NEW end \in Nat, start <= end, end <= Len(data),
           NEW from \in 1..(end - start + 1)
    PROVE  /\ SubSeq(SubSeq(data, start + 1, end), from, end - start)
                  \o SubSeq(data, end + 1, Len(data))
                = SubSeq(data, start + from - 1 + 1, Len(data))
<1>1. PICK l \in Nat : l = Len(data)
  BY DEF Texts
<1>2. PICK s : s = SubSeq(data, start + from, l)
  OBVIOUS
<1>3. PICK a : a = SubSeq(SubSeq(data, start + 1, end), from, end - start)
  OBVIOUS
<1>4. PICK b : b = SubSeq(data, end + 1, l)
  OBVIOUS
<1>5. PICK chunk : chunk = SubSeq(data, start + 1, end)
  OBVIOUS
<1>6. \A i \in 1..l : data[i] \in Nat
  BY <1>1 DEF Texts
<1>7. /\ chunk \in Seq(Nat) /\ Len(chunk) = end - start
      /\ \A i \in 1..(end - start) : chunk[i] = data[start + i]
  <2>1. start + 1 \in Int /\ end \in Int /\ \A i \in (start + 1)..end : data[i] \in Nat
    BY <1>1, <1>6
  <2>2. /\ chunk \in Seq(Nat)
        /\ Len(chunk) = IF start + 1 <= end THEN end - (start + 1) + 1 ELSE 0
        /\ \A i \in 1..(end - (start + 1) + 1) : chunk[i] = data[start + 1 + i - 1]
    BY <1>5, <2>1, SubSeqProperties
  <2>3. (IF start + 1 <= end THEN end - (start + 1) + 1 ELSE 0) = end - start
    OBVIOUS
  <2>4. end - (start + 1) + 1 = end - start /\ \A i \in 1..(end - start) : start + 1 + i - 1 = start + i
    OBVIOUS
  <2> QED BY <2>2, <2>3, <2>4
<1>8. PICK m \in Nat : m = end - start - from + 1
  BY <1>1
<1>9. /\ a \in Seq(Nat) /\ Len(a) = m
      /\ \A i \in 1..m : a[i] = data[start + from + i - 1]
  <2>1. from \in Int /\ end - start \in Int /\ \A i \in from..(end - start) : i \in 1..(end - start)
    OBVIOUS
  <2>2. \A i \in from..(end - start) : chunk[i] \in Nat
    <3>1. \A i \in 1..(end - start) : start + i \in 1..l
      BY <1>1
    <3> QED BY <1>6, <1>7, <2>1, <3>1
  <2>3. /\ a \in Seq(Nat)
        /\ Len(a) = IF from <= end - start THEN end - start - from + 1 ELSE 0
        /\ \A i \in 1..(end - start - from + 1) : a[i] = chunk[from + i - 1]
    <3>1. a = SubSeq(chunk, from, end - start)
      BY <1>3, <1>5, Zenon
    <3> QED BY <2>1, <2>2, <3>1, SubSeqProperties
  <2>4. (IF from <= end - start THEN end - start - from + 1 ELSE 0) = m
    BY <1>8
  <2>5. \A i \in 1..m : from + i - 1 \in 1..(end - start) /\ start + (from + i - 1) = start + from + i - 1
    BY <1>8
  <2>6. \A i \in 1..m : a[i] = data[start + from + i - 1]
    BY <1>7, <1>8, <2>3, <2>5
  <2> QED BY <2>3, <2>4, <2>6
<1>10. PICK r \in Nat : r = l - end
  <2>1. end <= l
    BY <1>1, Zenon
  <2>2. l - end \in Nat
    BY <2>1
  <2> QED BY <2>2, Zenon
<1>11. /\ b \in Seq(Nat) /\ Len(b) = r
       /\ \A i \in 1..r : b[i] = data[end + i]
  <2>1. end + 1 \in Int /\ l \in Int /\ \A i \in (end + 1)..l : data[i] \in Nat
    BY <1>6
  <2>2. /\ b \in Seq(Nat)
        /\ Len(b) = IF end + 1 <= l THEN l - (end + 1) + 1 ELSE 0
        /\ \A i \in 1..(l - (end + 1) + 1) : b[i] = data[end + 1 + i - 1]
    BY <1>4, <2>1, SubSeqProperties
  <2>3. (IF end + 1 <= l THEN l - (end + 1) + 1 ELSE 0) = r
    BY <1>10
  <2>4. l - (end + 1) + 1 = r /\ \A i \in 1..r : end + 1 + i - 1 = end + i
    BY <1>10
  <2> QED BY <2>2, <2>3, <2>4
<1>12. /\ s \in Seq(Nat) /\ Len(s) = m + r
       /\ \A i \in 1..(m + r) : s[i] = data[start + from + i - 1]
  <2>1. start + from \in Int /\ l \in Int /\ \A i \in (start + from)..l : data[i] \in Nat
    BY <1>6
  <2>2. /\ s \in Seq(Nat)
        /\ Len(s) = IF start + from <= l THEN l - (start + from) + 1 ELSE 0
        /\ \A i \in 1..(l - (start + from) + 1) : s[i] = data[start + from + i - 1]
    BY <1>2, <2>1, SubSeqProperties
  <2>3. (IF start + from <= l THEN l - (start + from) + 1 ELSE 0) = m + r
    BY <1>1, <1>8, <1>10
  <2>4. l - (start + from) + 1 = m + r
    BY <1>8, <1>10
  <2> QED BY <2>2, <2>3, <2>4
<1>13. PICK ab : ab = a \o b
  OBVIOUS
<1>14. /\ ab \in Seq(Nat) /\ Len(ab) = m + r
       /\ \A i \in 1..(m + r) : ab[i] = IF i <= m THEN a[i] ELSE b[i - m]
  <2>1. a \in Seq(Nat) /\ b \in Seq(Nat)
    BY <1>9, <1>11
  <2>2. /\ ab \in Seq(Nat) /\ Len(ab) = Len(a) + Len(b)
        /\ \A i \in 1..(Len(a) + Len(b)) : ab[i] = IF i <= Len(a) THEN a[i] ELSE b[i - Len(a)]
    BY <1>13, <2>1, ConcatProperties, Zenon
  <2>3. Len(a) = m /\ Len(b) = r
    BY <1>9, <1>11
  <2> QED BY <2>2, <2>3, Zenon
<1>15. \A i \in 1..(m + r) : ab[i] = s[i]
  <2>1. ASSUME NEW i \in 1..(m + r) PROVE ab[i] = s[i]
    <3>1. CASE i <= m
      <4>1. i \in 1..m
        BY <3>1
      <4> QED BY <1>9, <1>12, <1>14, <3>1, <4>1
    <3>2. CASE ~(i <= m)
      <4>1. i - m \in 1..r /\ end + (i - m) = start + from + i - 1
        BY <1>8, <3>2
      <4> QED BY <1>11, <1>12, <1>14, <3>2, <4>1
    <3> QED BY <3>1, <3>2
  <2> QED BY <2>1
<1>16. ab = s
  BY <1>12, <1>14, <1>15, SeqEqual
<1>17. start + from - 1 + 1 = start + from
  OBVIOUS
<1> QED BY <1>1, <1>2, <1>3, <1>4, <1>13, <1>16, <1>17

LEMMA ScanBlockType ==
    ASSUME NEW chunk \in Texts, NEW wanted \in Nat, NEW inside \in BOOLEAN
    PROVE  ScanBlock(chunk, wanted, inside) \in Scans
<1>1. PICK size \in Nat : size = Len(chunk)
  BY DEF Texts
<1>2. PICK f : IsScan(f, chunk, wanted, inside) /\ ScanBlock(chunk, wanted, inside) = f[size]
  BY <1>1, Scanning
<1>3. /\ f[0] = Unscanned(wanted, inside)
      /\ \A k \in 1..size : f[k] = ScanAt(chunk, f[k - 1], k)
  <2>1. 0 \in 0..size /\ \A k \in 1..size : k \in 0..size /\ k # 0
    OBVIOUS
  <2> QED BY <1>1, <1>2, <2>1 DEF IsScan
<1> DEFINE S == {k \in 0..size : f[k] \in Scans}
<1>4. 0 \in S
  BY <1>3 DEF Unscanned, Scans
<1>5. ASSUME NEW k \in 1..size, k - 1 \in S PROVE k \in S
  <2>1. PICK now \in Scans : now = f[k - 1]
    BY <1>5
  <2>2. f[k] = ScanAt(chunk, now, k) /\ k \in 0..size
    BY <1>3, <2>1
  <2>3. size - k + 1 + 1 \in Nat \ {0}
    OBVIOUS
  <2>4. now.wanted \in Nat /\ now.inside \in BOOLEAN /\ now.from \in Nat \ {0}
    BY DEF Scans
  <2>5. now.wanted # 0 => now.wanted - 1 \in Nat
    BY <2>4
  <2>6. [now EXCEPT !.inside = TRUE] \in Scans
    BY DEF Scans
  <2>7. ScanAt(chunk, now, k) \in Scans
    BY <1>1, <2>3, <2>4, <2>5, <2>6 DEF ScanAt, Scans
  <2> QED BY <2>2, <2>7
<1>6. 0..size \subseteq S
  <2> HIDE DEF S
  <2> QED BY <1>4, <1>5, BoundedInduction
<1> QED BY <1>2, <1>6

Readings(data) == [end : 0..Len(data), wanted : Nat, inside : BOOLEAN, tail : Texts]

\* A piece of a text is a text.
LEMMA PieceOfText ==
    ASSUME NEW data \in Texts, NEW i \in Nat \ {0}, NEW j \in 0..Len(data)
    PROVE  /\ SubSeq(data, i, j) \in Texts
           /\ Len(SubSeq(data, i, j)) = IF i <= j THEN j - i + 1 ELSE 0
           /\ \A m \in 1..(j - i + 1) : SubSeq(data, i, j)[m] = data[i + m - 1]
<1>1. PICK k \in Nat : k = Len(data) /\ j \in 0..k
  BY DEF Texts
<1>2. \A m \in 1..k : data[m] \in Nat
  <2>1. data \in Seq(Nat)
    BY DEF Texts
  <2> QED BY <1>1, <2>1, ElementOfSeq, Zenon
<1>3. i \in Int /\ j \in Int /\ \A m \in i..j : m \in 1..k
  BY <1>1
<1>4. \A m \in i..j : data[m] \in Nat
  BY <1>2, <1>3
<1>5. PICK u : u = SubSeq(data, i, j)
  OBVIOUS
<1>6. u \in Seq(Nat) /\ Len(u) = IF i <= j THEN j - i + 1 ELSE 0
  BY <1>3, <1>4, <1>5, SubSeqProperties
<1>7. \A m \in 1..(j - i + 1) : u[m] = data[i + m - 1]
  BY <1>3, <1>4, <1>5, SubSeqProperties
<1> QED BY <1>5, <1>6, <1>7, Zenon DEF Texts

\* The block that is read next.
LEMMA NextBlock ==
    ASSUME NEW data \in Texts, NEW end \in 1..Len(data)
    PROVE  LET start == IF end < Block THEN 0 ELSE end - Block
               chunk == SubSeq(data, start + 1, end)
           IN  /\ start \in Nat /\ start < end
               /\ chunk \in Texts /\ Len(chunk) = end - start
               /\ \A i \in 1..(end - start) : chunk[i] = data[start + i]
<1>1. PICK start : start = IF end < Block THEN 0 ELSE end - Block
  OBVIOUS
<1>2. PICK chunk : chunk = SubSeq(data, start + 1, end)
  OBVIOUS
<1>3. PICK k \in Nat : k = Len(data) /\ end \in 1..k
  BY DEF Texts
<1>4. start \in Nat /\ start < end
  BY <1>1, <1>3, TailAssumption
<1>5. start + 1 \in Nat \ {0} /\ end \in 0..k
  BY <1>3, <1>4
<1>6. /\ chunk \in Texts
      /\ Len(chunk) = IF start + 1 <= end THEN end - (start + 1) + 1 ELSE 0
      /\ \A i \in 1..(end - (start + 1) + 1) : chunk[i] = data[start + 1 + i - 1]
  BY <1>2, <1>3, <1>5, PieceOfText
<1>7. (IF start + 1 <= end THEN end - (start + 1) + 1 ELSE 0) = end - start
  BY <1>3, <1>4
<1>8. end - (start + 1) + 1 = end - start /\ \A i \in 1..(end - start) : start + 1 + i - 1 = start + i
  BY <1>3, <1>4
<1>9. Len(chunk) = end - start /\ \A i \in 1..(end - start) : chunk[i] = data[start + i]
  BY <1>6, <1>7, <1>8
<1> QED BY <1>1, <1>2, <1>4, <1>6, <1>9, Zenon

LEMMA ReadingTail ==
    ASSUME NEW data \in Texts, NEW n \in Nat
    PROVE  \E f : /\ IsReading(f, data, n)
                  /\ ReadTail(data, n) = SplitLines(f[Len(data)].tail)
<1>1. PICK l \in Nat : l = Len(data)
  BY DEF Texts
<1>2. ASSUME NEW now \in Readings(data) PROVE ReadBlock(data, now) \in Readings(data)
  <2>1. CASE now.end = 0
    BY <2>1 DEF ReadBlock
  <2>2. CASE now.end # 0
    <3>1. PICK end \in 1..l : end = now.end
      <4>1. now.end \in 0..l /\ now.end # 0
        BY <1>1, <2>2 DEF Readings
      <4>2. now.end \in 1..l
        BY <4>1
      <4> QED BY <4>2
    <3>2. PICK start : start = IF end < Block THEN 0 ELSE end - Block
      OBVIOUS
    <3>3. PICK chunk : chunk = SubSeq(data, start + 1, end)
      OBVIOUS
    <3>4. start \in Nat /\ start < end /\ chunk \in Texts
      BY <1>1, <3>1, <3>2, <3>3, NextBlock
    <3>5. PICK found : found = ScanBlock(chunk, now.wanted, now.inside)
      OBVIOUS
    <3>6. now.wanted \in Nat /\ now.inside \in BOOLEAN /\ now.tail \in Texts
      BY DEF Readings
    <3>7. found \in Scans
      BY <3>4, <3>5, <3>6, ScanBlockType
    <3>8. found.wanted \in Nat /\ found.inside \in BOOLEAN /\ found.from \in Nat \ {0}
      BY <3>7 DEF Scans
    <3>9. PICK m \in Nat : m = Len(chunk)
      BY <3>4 DEF Texts
    <3>10. PICK rest : rest = SubSeq(chunk, found.from, m)
      OBVIOUS
    <3>11. rest \in Texts
      <4>1. m \in 0..Len(chunk)
        BY <3>9
      <4> QED BY <3>4, <3>8, <3>10, <4>1, PieceOfText
    <3>12. PICK tail : tail = rest \o now.tail
      OBVIOUS
    <3>13. tail \in Texts
      BY <3>6, <3>11, <3>12, ConcatProperties DEF Texts
    <3>14. PICK e : e = IF found.wanted = 0 THEN 0 ELSE start
      OBVIOUS
    <3>15. e \in 0..l
      BY <3>4, <3>14
    <3>16. ReadBlock(data, now) = [end |-> e, wanted |-> found.wanted, inside |-> found.inside, tail |-> tail]
      BY <2>2, <3>1, <3>2, <3>3, <3>5, <3>9, <3>10, <3>12, <3>14, Zenon DEF ReadBlock
    <3> QED BY <1>1, <3>8, <3>13, <3>15, <3>16 DEF Readings
  <2> QED BY <2>1, <2>2
<1>3. Unread(data, n) \in Readings(data)
  <2>1. l \in 0..l /\ <<>> \in Texts
    BY EmptySeq DEF Texts
  <2> QED BY <1>1, <2>1 DEF Unread, Readings
<1>4. PICK G : /\ Steps(G, l, Readings(data))
               /\ \A k \in 1..l : \A now \in Readings(data) : G[k][now] = ReadBlock(data, now)
  <2>1. PICK S : S = Readings(data)
    OBVIOUS
  <2>2. PICK g : g = [k \in 1..l |-> [now \in S |-> ReadBlock(data, now)]]
    OBVIOUS
  <2>3. Steps(g, l, S)
    BY <1>2, <2>1, <2>2 DEF Steps
  <2> QED BY <2>1, <2>2, <2>3
<1>5. PICK f : Takes(f, G, l, Readings(data), Unread(data, n))
  BY <1>3, <1>4, StepByStep
<1>6. \A k \in 0..l : f[k] = IF k = 0 THEN Unread(data, n) ELSE ReadBlock(data, f[k - 1])
  <2>1. ASSUME NEW k \in 1..l PROVE G[k][f[k - 1]] = ReadBlock(data, f[k - 1])
    <3>1. f[k - 1] \in Readings(data)
      BY <1>5 DEF Takes
    <3> QED BY <1>4, <3>1
  <2>2. \A k \in 0..l : k # 0 => k \in 1..l
    OBVIOUS
  <2> QED BY <1>5, <2>1, <2>2 DEF Takes
<1>7. IsReading(f, data, n)
  <2>1. f = [k \in 0..l |-> f[k]]
    BY <1>5 DEF Takes
  <2> QED BY <1>1, <1>6, <2>1 DEF IsReading
<1>8. PICK g : g = CHOOSE h : IsReading(h, data, n)
  OBVIOUS
<1>9. ReadTail(data, n) = SplitLines(g[Len(data)].tail)
  BY <1>8 DEF ReadTail, IsReading, ReadBlock, Unread
<1> QED BY <1>7, <1>8, <1>9

\* What is left when the scan reaches the start of the file.
LEMMA AllScanned ==
    ASSUME NEW data \in Texts, NEW n \in Nat, NEW wanted, NEW inside,
           Scanned(data, n, 0, wanted, inside)
    PROVE  CutAt(data, n, 0)
<1>1. PICK k \in Nat : k = Len(data)
  BY DEF Texts
<1>2. PICK w \in Nat \ {0} : w = wanted /\ Cardinality(After(data, 1)) = n - w
  <2>1. 0 + 1 = 1
    OBVIOUS
  <2> QED BY <2>1 DEF Scanned
<1>3. After(data, 0) \subseteq After(data, 1) \cup {1}
  <2>1. \A i \in Begins(data) : i \in 1..k
    BY <1>1 DEF Begins, Texts
  <2>2. \A i \in 1..k : i > 1 \/ i = 1
    OBVIOUS
  <2> QED BY <2>1, <2>2 DEF After
<1>4. PICK d \in Nat : d = Cardinality(After(data, 1)) /\ IsFiniteSet(After(data, 1))
  BY AfterFinite
<1>5. 1 \notin After(data, 1)
  BY DEF After
<1>6. /\ IsFiniteSet(After(data, 1) \cup {1})
      /\ Cardinality(After(data, 1) \cup {1}) = d + 1
  BY <1>4, <1>5, FS_AddElement
<1>7. PICK c \in Nat : c = Cardinality(After(data, 0))
  BY AfterFinite
<1>8. c <= d + 1
  BY <1>3, <1>6, <1>7, FS_Subset
<1>9. d = n - w
  BY <1>2, <1>4
<1>10. c <= n
  BY <1>8, <1>9
<1>11. 0 \in 0..k
  OBVIOUS
<1> QED BY <1>1, <1>7, <1>10, <1>11 DEF CutAt

LEMMA ReadOneMore ==
    ASSUME NEW data \in Texts, NEW n \in Nat, NEW k \in 1..Len(data), NEW now,
           Reading(data, n, k - 1, now)
    PROVE  Reading(data, n, k, ReadBlock(data, now))
<1>1. PICK l \in Nat : l = Len(data) /\ k \in 1..l
  BY DEF Texts
<1>2. PICK end \in Nat : end = now.end /\ end <= l - (k - 1)
  BY <1>1 DEF Reading
<1>3. CASE end = 0
  <2>1. ReadBlock(data, now) = now
    BY <1>2, <1>3 DEF ReadBlock
  <2>2. 0 <= l - k
    BY <1>1
  <2> QED BY <1>1, <1>2, <1>3, <2>1, <2>2 DEF Reading
<1>4. CASE end # 0
  <2>1. /\ Scanned(data, n, end, now.wanted, now.inside)
        /\ now.tail = SubSeq(data, end + 1, l)
        /\ now.wanted \in Nat /\ now.inside \in BOOLEAN
    BY <1>1, <1>2, <1>4 DEF Reading
  <2>2. end \in 1..l
    BY <1>1, <1>2, <1>4
  <2>3. PICK start : start = IF end < Block THEN 0 ELSE end - Block
    OBVIOUS
  <2>4. PICK chunk : chunk = SubSeq(data, start + 1, end)
    OBVIOUS
  <2>5. /\ start \in Nat /\ start < end /\ chunk \in Texts /\ Len(chunk) = end - start
        /\ \A i \in 1..(end - start) : chunk[i] = data[start + i]
    BY <1>1, <2>2, <2>3, <2>4, NextBlock
  <2>6. PICK size \in Nat : size = end - start /\ start + size = end /\ start + size <= l
    <3>1. end - start \in Nat /\ start + (end - start) = end /\ end <= l
      BY <2>2, <2>5
    <3> QED BY <3>1
  <2>7. PICK found : found = ScanBlock(chunk, now.wanted, now.inside)
    OBVIOUS
  <2>8. InBlock(data, n, start, start, size, found)
    BY <1>1, <2>1, <2>5, <2>6, <2>7, BlockIsScanned
  <2>9. /\ found.wanted \in Nat /\ found.inside \in BOOLEAN
        /\ found.from \in Nat \ {0}
    BY <2>8 DEF InBlock, Scans
  <2>10. PICK next : next = ReadBlock(data, now)
    OBVIOUS
  <2>11. next = [end |-> IF found.wanted = 0 THEN 0 ELSE start,
                 wanted |-> found.wanted, inside |-> found.inside,
                 tail |-> SubSeq(chunk, found.from, size) \o now.tail]
    <3>1. Len(chunk) = size
      BY <2>5, <2>6
    <3> QED BY <1>2, <1>4, <2>3, <2>4, <2>7, <2>10, <3>1, Zenon DEF ReadBlock
  <2>12. ASSUME found.from <= size + 1
         PROVE  next.tail = SubSeq(data, start + found.from - 1 + 1, l)
    <3>1. found.from \in 1..(end - start + 1) /\ start <= end /\ end <= Len(data)
      BY <1>1, <2>2, <2>5, <2>6, <2>9, <2>12
    <3>2. next.tail = SubSeq(chunk, found.from, end - start) \o SubSeq(data, end + 1, l)
      BY <2>1, <2>6, <2>11
    <3>3. SubSeq(chunk, found.from, end - start) \o SubSeq(data, end + 1, l)
            = SubSeq(data, start + found.from - 1 + 1, l)
      BY <1>1, <2>4, <2>5, <3>1, SuffixOfBlock
    <3> QED BY <3>2, <3>3
  <2>13. next = [end |-> next.end, wanted |-> next.wanted, inside |-> next.inside, tail |-> next.tail]
    BY <2>11
  <2>14. CASE found.wanted = 0
    <3>1. found.from \in 1..(size + 1) /\ CutAt(data, n, start + found.from - 1)
      BY <2>8, <2>14 DEF InBlock, Scanned
    <3>2. PICK c : c = start + found.from - 1
      OBVIOUS
    <3>3. c \in 0..l /\ CutAt(data, n, c)
      BY <1>1, <3>1, <3>2 DEF CutAt
    <3>4. next.tail = SubSeq(data, c + 1, l)
      BY <2>12, <3>1, <3>2
    <3>5. next.end = 0 /\ next.wanted = 0 /\ next.inside \in BOOLEAN
      BY <2>9, <2>11, <2>14
    <3>6. 0 <= l - k
      BY <1>1
    <3>7. \E d \in 0..Len(data) : CutAt(data, n, d) /\ next.tail = SubSeq(data, d + 1, Len(data))
      BY <1>1, <3>3, <3>4, Zenon
    <3>8. next.end \in Nat /\ next.wanted \in Nat /\ next.end <= Len(data) - k
      BY <1>1, <3>5, <3>6
    <3> QED BY <2>10, <2>13, <3>5, <3>7, <3>8, Zenon DEF Reading
  <2>15. CASE found.wanted # 0
    <3>1. found.from = 1 /\ Scanned(data, n, start, found.wanted, found.inside)
      BY <2>8, <2>15 DEF InBlock
    <3>2. next.end = start /\ next.wanted = found.wanted /\ next.inside = found.inside
      BY <2>11, <2>15
    <3>3. start + 1 - 1 + 1 = start + 1 /\ 1 <= size + 1
      BY <2>5, <2>6
    <3>4. next.tail = SubSeq(data, start + 1, l)
      BY <2>12, <3>1, <3>3
    <3>5. start <= l - k
      BY <1>1, <1>2, <2>5
    <3>6. CASE start # 0
      BY <1>1, <2>5, <2>9, <2>10, <2>13, <3>1, <3>2, <3>4, <3>5, <3>6 DEF Reading
    <3>7. CASE start = 0
      <4>1. 0 \in 0..l /\ CutAt(data, n, 0)
        BY <3>1, <3>7, AllScanned
      <4> QED BY <1>1, <2>5, <2>9, <2>10, <2>13, <3>2, <3>4, <3>5, <3>7, <4>1 DEF Reading
    <3> QED BY <3>6, <3>7
  <2> QED BY <2>14, <2>15
<1> QED BY <1>3, <1>4

\* ReadTail splits the file from where its newest n records begin.
LEMMA TailIsCut ==
    ASSUME NEW data \in Texts, NEW n \in Nat \ {0}
    PROVE  \E c \in 0..Len(data) :
             CutAt(data, n, c) /\ ReadTail(data, n) = SplitLines(SubSeq(data, c + 1, Len(data)))
<1>1. PICK l \in Nat : l = Len(data)
  BY DEF Texts
<1>2. PICK f : IsReading(f, data, n) /\ ReadTail(data, n) = SplitLines(f[l].tail)
  BY <1>1, ReadingTail
<1>3. /\ f[0] = Unread(data, n)
      /\ \A k \in 1..l : f[k] = ReadBlock(data, f[k - 1])
  <2>1. 0 \in 0..l /\ \A k \in 1..l : k \in 0..l /\ k # 0
    OBVIOUS
  <2> QED BY <1>1, <1>2, <2>1 DEF IsReading
<1> DEFINE S == {k \in 0..l : Reading(data, n, k, f[k])}
<1>4. 0 \in S
  <2>1. PICK now : now = Unread(data, n)
    OBVIOUS
  <2>2. /\ now = [end |-> now.end, wanted |-> now.wanted, inside |-> now.inside, tail |-> now.tail]
        /\ now.end = l /\ now.wanted = n /\ now.inside = FALSE /\ now.tail = <<>>
    BY <1>1, <2>1 DEF Unread
  <2>3. \A i \in Begins(data) : i \in 1..l
    BY <1>1 DEF Begins, Texts
  <2>4. now.tail = SubSeq(data, l + 1, l)
    <3>1. l + 1 \in Int /\ l \in Int /\ l < l + 1
      OBVIOUS
    <3> QED BY <2>2, <3>1, SubSeqEmpty
  <2>5. After(data, l + 1) = {} /\ After(data, l) = {}
    <3>1. \A i \in 1..l : ~(i > l) /\ ~(i > l + 1)
      OBVIOUS
    <3> QED BY <2>3, <3>1 DEF After
  <2>6. Cardinality({}) = 0
    BY FS_EmptySet
  <2>7. CASE l = 0
    <3>1. CutAt(data, n, 0)
      BY <1>1, <2>5, <2>6, <2>7 DEF CutAt
    <3>2. l = Len(data) /\ l = 0 /\ 0 \in 0..l /\ now.tail = SubSeq(data, 0 + 1, l)
      BY <1>1, <2>4, <2>7
    <3>3. \E d \in 0..Len(data) : CutAt(data, n, d) /\ now.tail = SubSeq(data, d + 1, Len(data))
      BY <3>1, <3>2, Zenon
    <3>4. now.end = 0 /\ now.end \in Nat /\ now.wanted \in Nat /\ now.inside \in BOOLEAN
      BY <2>2, <2>7
    <3>5. now.end <= Len(data) - 0
      BY <2>7, <3>2, <3>4
    <3>6. Reading(data, n, 0, now)
      BY <2>2, <3>3, <3>4, <3>5, Zenon DEF Reading
    <3> QED BY <1>3, <2>1, <3>2, <3>6
  <2>8. CASE l # 0
    <3>1. n - n = 0 /\ l \in 0..l /\ ~(l < l) /\ l <= l - 0 /\ 0 \in 0..l
      OBVIOUS
    <3>2. Scanned(data, n, l, n, FALSE)
      BY <1>1, <2>5, <2>6, <3>1 DEF Scanned
    <3> QED BY <1>1, <1>3, <2>1, <2>2, <2>4, <2>8, <3>1, <3>2 DEF Reading
  <2> QED BY <2>7, <2>8
<1>5. ASSUME NEW k \in 1..l, k - 1 \in S PROVE k \in S
  <2>1. Reading(data, n, k - 1, f[k - 1])
    BY <1>5
  <2>2. Reading(data, n, k, ReadBlock(data, f[k - 1]))
    BY <1>1, <2>1, ReadOneMore
  <2>3. f[k] = ReadBlock(data, f[k - 1]) /\ k \in 0..l
    BY <1>3
  <2> QED BY <2>2, <2>3
<1>6. 0..l \subseteq S
  <2> HIDE DEF S
  <2> QED BY <1>4, <1>5, BoundedInduction
<1>7. Reading(data, n, l, f[l])
  <2>1. l \in 0..l
    OBVIOUS
  <2> QED BY <1>6, <2>1
<1>8. f[l].end = 0
  <2>1. f[l].end \in Nat /\ f[l].end <= l - l
    BY <1>1, <1>7 DEF Reading
  <2> QED BY <2>1
<1> QED BY <1>1, <1>2, <1>7, <1>8 DEF Reading

LEMMA CutIsNewest ==
    ASSUME NEW data \in Texts, NEW n \in Nat \ {0}, NEW c, CutAt(data, n, c)
    PROVE  After(data, c) = Newest(Begins(data), n)
<1>1. PICK l \in Nat : l = Len(data)
  BY DEF Texts
<1>2. c \in 0..l /\ c \in Nat
  BY <1>1 DEF CutAt
<1>3. \A i \in Begins(data) : i \in 1..l
  BY <1>1 DEF Begins, Texts
<1>4. PICK a \in Nat : a = Cardinality(After(data, c)) /\ IsFiniteSet(After(data, c))
  BY <1>2, AfterFinite
<1>5. a = n \/ (c = 0 /\ a <= n)
  BY <1>4 DEF CutAt
<1>6. ASSUME NEW i \in Begins(data), i > c PROVE Cardinality({j \in Begins(data) : j > i}) < n
  <2>1. {j \in Begins(data) : j > i} = After(data, i)
    BY DEF After
  <2>2. i \in Nat
    BY <1>3, <1>6
  <2>3. PICK d \in Nat : d = Cardinality(After(data, i)) /\ IsFiniteSet(After(data, i))
    BY <2>2, AfterFinite
  <2>4. i \notin After(data, i) /\ After(data, i) \cup {i} \subseteq After(data, c)
    <3>1. \A j \in Begins(data) : j > i => j > c
      BY <1>2, <1>3, <1>6
    <3>2. ~(i > i)
      BY <2>2
    <3> QED BY <1>6, <3>1, <3>2, Zenon DEF After
  <2>5. IsFiniteSet(After(data, i) \cup {i}) /\ Cardinality(After(data, i) \cup {i}) = d + 1
    BY <2>3, <2>4, FS_AddElement
  <2>6. d + 1 <= a
    BY <1>4, <2>4, <2>5, FS_Subset
  <2>7. d < n
    BY <1>5, <2>6
  <2> QED BY <2>1, <2>3, <2>7
<1>7. ASSUME NEW i \in Begins(data), ~(i > c) PROVE ~(Cardinality({j \in Begins(data) : j > i}) < n)
  <2>1. {j \in Begins(data) : j > i} = After(data, i)
    BY DEF After
  <2>2. i \in 1..l /\ i \in Nat
    BY <1>3
  <2>3. PICK d \in Nat : d = Cardinality(After(data, i)) /\ IsFiniteSet(After(data, i))
    BY <2>2, AfterFinite
  <2>4. After(data, c) \subseteq After(data, i)
    <3>1. \A j \in Begins(data) : j > c => j > i
      BY <1>2, <1>3, <1>7, <2>2
    <3> QED BY <3>1 DEF After
  <2>5. a <= d
    BY <1>4, <2>3, <2>4, FS_Subset
  <2>6. a = n
    BY <1>2, <1>5, <1>7, <2>2
  <2>7. ~(d < n)
    BY <2>5, <2>6
  <2> QED BY <2>1, <2>3, <2>7
<1> QED BY <1>6, <1>7 DEF After, Newest

\* The lines of the end of a file are lines of the file.
LEMMA LinesOfSuffix ==
    ASSUME NEW data \in Texts, NEW c \in 0..Len(data), c = 0 \/ data[c] = 0, NEW lines,
           LinesOf(SubSeq(data, c + 1, Len(data)), Begins(SubSeq(data, c + 1, Len(data))), lines)
    PROVE  LinesOf(data, After(data, c), lines)
<1>1. PICK l \in Nat : l = Len(data) /\ c \in 0..l
  BY DEF Texts
<1>2. PICK s : s = SubSeq(data, c + 1, l)
  OBVIOUS
<1>3. PICK m \in Nat : m = l - c
  <2>1. PICK a \in 0..l : a = c
    BY <1>1, Zenon
  <2>2. l - a \in Nat
    OBVIOUS
  <2> QED BY <2>1, <2>2, Zenon
<1>4. s \in Texts /\ Len(s) = m /\ \A i \in 1..m : s[i] = data[c + i]
  <2>1. c + 1 \in Nat \ {0} /\ l \in 0..Len(data)
    BY <1>1
  <2>2. /\ s \in Texts
        /\ Len(s) = IF c + 1 <= l THEN l - (c + 1) + 1 ELSE 0
        /\ \A i \in 1..(l - (c + 1) + 1) : s[i] = data[c + 1 + i - 1]
    BY <1>2, <2>1, PieceOfText
  <2>3. (IF c + 1 <= l THEN l - (c + 1) + 1 ELSE 0) = m
    BY <1>1, <1>3
  <2>4. l - (c + 1) + 1 = m /\ \A i \in 1..m : c + 1 + i - 1 = c + i
    BY <1>1, <1>3
  <2> QED BY <2>2, <2>3, <2>4
<1>5. PICK b : /\ Lists(b, Begins(s))
               /\ lines \in Seq(Texts) /\ Len(lines) = Len(b)
               /\ \A k \in 1..Len(b) : LineAt(s, b[k], lines[k])
  BY <1>1, <1>2 DEF LinesOf
<1>6. PICK q \in Nat : q = Len(b)
  BY <1>5 DEF Lists
<1>7. \A i \in Begins(s) : i \in 1..m
  BY <1>4 DEF Begins, Texts
<1>8. \A k \in 1..q : b[k] \in 1..m /\ b[k] \in Begins(s)
  BY <1>5, <1>6, <1>7 DEF Lists
<1>9. PICK d : d = [k \in 1..q |-> c + b[k]]
  OBVIOUS
<1>10. d \in Seq(Nat) /\ Len(d) = q /\ \A k \in 1..q : d[k] = c + b[k]
  <2>1. \A k \in 1..q : c + b[k] \in Nat
    BY <1>1, <1>8
  <2> QED BY <1>9, <2>1
<1>11. ASSUME NEW i \in 1..m PROVE i \in Begins(s) <=> c + i \in Begins(data)
  <2>1. c + i \in 1..l /\ s[i] = data[c + i]
    BY <1>1, <1>3, <1>4
  <2>2. DOMAIN s = 1..m /\ DOMAIN data = 1..l
    BY <1>1, <1>4 DEF Texts
  <2>3. CASE i = 1
    <3>1. c + i = 1 \/ (c # 0 /\ c + i - 1 = c)
      BY <1>1, <2>3
    <3> QED BY <2>1, <2>2, <2>3, <3>1 DEF Begins
  <2>4. CASE i # 1
    <3>1. i - 1 \in 1..m /\ c + i # 1 /\ c + i - 1 = c + (i - 1)
      BY <1>1, <2>4
    <3>2. s[i - 1] = data[c + i - 1]
      BY <1>4, <3>1
    <3> QED BY <2>1, <2>2, <2>4, <3>1, <3>2 DEF Begins
  <2> QED BY <2>3, <2>4
<1>12. Lists(d, After(data, c))
  <2>1. ASSUME NEW i \in 1..q, NEW j \in 1..q, i < j PROVE d[i] < d[j]
    <3>1. b[i] < b[j] /\ b[i] \in 1..m /\ b[j] \in 1..m
      BY <1>5, <1>6, <1>8, <2>1 DEF Lists
    <3>2. c + b[i] < c + b[j]
      BY <1>1, <3>1
    <3> QED BY <1>10, <3>2
  <2>2. ASSUME NEW x \in After(data, c) PROVE \E k \in 1..q : x = d[k]
    <3>1. x \in 1..l /\ x > c /\ x \in Begins(data)
      BY <1>1 DEF After, Begins, Texts
    <3>2. PICK i \in 1..m : x = c + i
      <4>1. x - c \in 1..m /\ x = c + (x - c)
        BY <1>1, <1>3, <3>1
      <4> QED BY <4>1
    <3>3. i \in Begins(s)
      BY <1>11, <3>1, <3>2
    <3>4. PICK k \in 1..q : i = b[k]
      BY <1>5, <1>6, <3>3 DEF Lists
    <3> QED BY <1>10, <3>2, <3>4
  <2>3. ASSUME NEW k \in 1..q PROVE d[k] \in After(data, c)
    <3>1. c + b[k] \in Begins(data)
      BY <1>8, <1>11
    <3>2. PICK i \in 1..m : i = b[k]
      BY <1>8
    <3>3. c + i > c
      BY <1>1
    <3> QED BY <1>10, <3>1, <3>2, <3>3 DEF After
  <2>4. After(data, c) = {d[k] : k \in 1..q}
    BY <2>2, <2>3
  <2> QED BY <1>10, <2>1, <2>4 DEF Lists
<1>13. ASSUME NEW k \in 1..q PROVE LineAt(data, d[k], lines[k])
  <2>1. PICK i \in 1..m : i = b[k]
    BY <1>8
  <2>2. PICK line : line = lines[k]
    OBVIOUS
  <2>3. LineAt(s, i, line)
    BY <1>5, <1>6, <2>1, <2>2
  <2>4. PICK z \in Nat : z = Len(line)
    BY <2>3 DEF LineAt, Texts
  <2>5. i + z - 1 <= m /\ (i + z - 1 = m \/ s[i + z] = 0)
    BY <1>4, <2>3, <2>4 DEF LineAt
  <2>6. c + i \in Nat \ {0} /\ c + i + z - 1 <= l
    BY <1>1, <1>3, <2>5
  <2>7. c + i + z - 1 = l \/ data[c + i + z] = 0
    <3>1. CASE i + z - 1 = m
      BY <1>1, <1>3, <3>1
    <3>2. CASE i + z - 1 # m
      <4>1. i + z \in 1..m /\ c + (i + z) = c + i + z
        BY <1>1, <2>5, <3>2
      <4> QED BY <1>4, <2>5, <3>2, <4>1
    <3> QED BY <3>1, <3>2
  <2>8. ASSUME NEW j \in 1..z PROVE line[j] = data[c + i + j - 1] /\ line[j] # 0
    <3>1. line[j] = s[i + j - 1] /\ line[j] # 0
      BY <2>3, <2>4 DEF LineAt
    <3>2. i + j - 1 \in 1..m /\ c + (i + j - 1) = c + i + j - 1
      BY <1>1, <2>5
    <3> QED BY <1>4, <3>1, <3>2
  <2>9. line \in Texts /\ line # <<>>
    BY <2>3 DEF LineAt
  <2>10. LineAt(data, c + i, line)
    BY <1>1, <2>4, <2>6, <2>7, <2>8, <2>9, Zenon DEF LineAt
  <2> QED BY <1>10, <2>1, <2>2, <2>10
<1> QED BY <1>5, <1>6, <1>10, <1>12, <1>13 DEF LinesOf

\* ReadTail gives the newest n lines of a file.
LEMMA TailIsNewest ==
    ASSUME NEW data \in Texts, NEW n \in Nat \ {0}
    PROVE  LinesOf(data, Newest(Begins(data), n), ReadTail(data, n))
<1>1. PICK c \in 0..Len(data) :
        CutAt(data, n, c) /\ ReadTail(data, n) = SplitLines(SubSeq(data, c + 1, Len(data)))
  BY TailIsCut
<1>2. SubSeq(data, c + 1, Len(data)) \in Texts
  <2>1. c + 1 \in Nat \ {0} /\ Len(data) \in 0..Len(data)
    BY DEF Texts
  <2> QED BY <2>1, PieceOfText
<1>3. LinesOf(SubSeq(data, c + 1, Len(data)), Begins(SubSeq(data, c + 1, Len(data))), ReadTail(data, n))
  BY <1>1, <1>2, SplitIsExact
<1>4. LinesOf(data, After(data, c), ReadTail(data, n))
  BY <1>1, <1>3, LinesOfSuffix DEF CutAt
<1> QED BY <1>1, <1>4, CutIsNewest

-----------------------------------------------------------------------------
(* The files *)

Entries ==
    [caller : {"cli", "mcp"}, action : {"get", "mcp_run", "audit_tail"},
     tokens : SUBSET {"timed_out", "raw_exit", "n"}, nonce : Readers \cup {"", "another"}]

\* What an entry of an MCP caller says, and that only an audit_tail call has a nonce.
SaysItsKind(e) ==
    /\ e.caller = "mcp" =>
         \/ e.action = "mcp_run" /\ e.tokens = {"timed_out", "raw_exit"}
         \/ e.action = "audit_tail" /\ e.tokens = {"n"}
    /\ e.action # "audit_tail" => e.nonce = ""

\* Entries follow one another, and a newline stands between different records only.
InOrder(data) ==
    \A i, j \in 1..Len(data) :
        i < j /\ data[i] # 0 /\ data[j] # 0 =>
            /\ data[i] <= data[j]
            /\ \A k \in i..j : data[k] = 0 => data[i] < data[j]

Before(first, second) ==
    \A i \in 1..Len(first), j \in 1..Len(second) :
        first[i] # 0 /\ second[j] # 0 => first[i] < second[j]

FilesOK ==
    /\ older \in Seq(0..Len(entry)) /\ current \in Seq(0..Len(entry))
    /\ InOrder(older) /\ InOrder(current) /\ Before(older, current)

\* The inductive invariant.
TailInv ==
    /\ entry \in Seq(Entries)
    /\ \A e \in 1..Len(entry) : SaysItsKind(entry[e])
    /\ FilesOK
    /\ limit \in [Readers -> Nat]
    /\ nonce \in [Readers -> Readers \cup {""}]
    /\ DOMAIN reader = Readers /\ DOMAIN view = Readers

\* What one append adds to a file.
PartOf(piece, e) ==
    piece \in Seq({0, e}) /\ \A i \in 1..(Len(piece) - 1) : piece[i] = e

Appended(file, e, next) ==
    next \in {file \o Append(Bytes(e), 0), file \o Bytes(e), file \o <<e>>, file}

LEMMA Parts ==
    ASSUME NEW e \in Nat, NEW file \in Texts, NEW next, Appended(file, e, next)
    PROVE  \E piece : PartOf(piece, e) /\ next = file \o piece
<1>1. PICK m \in Nat : m = Size
  BY TailAssumption
<1>2. PICK all : all = Bytes(e)
  OBVIOUS
<1>3. all \in Seq({0, e}) /\ Len(all) = m /\ \A i \in 1..m : all[i] = e
  BY <1>1, <1>2 DEF Bytes
<1>4. PartOf(all, e)
  <2>1. \A i \in 1..(m - 1) : i \in 1..m
    OBVIOUS
  <2> QED BY <1>3, <2>1 DEF PartOf
<1>5. PartOf(Append(all, 0), e)
  <2>1. PICK more : more = Append(all, 0)
    OBVIOUS
  <2>2. more \in Seq({0, e}) /\ Len(more) = m + 1 /\ \A i \in 1..m : more[i] = all[i]
    BY <1>3, <2>1, AppendProperties
  <2>3. m + 1 - 1 = m
    OBVIOUS
  <2> QED BY <1>3, <2>1, <2>2, <2>3 DEF PartOf
<1>6. PartOf(<<e>>, e)
  <2>1. <<e>> \in Seq({0, e}) /\ Len(<<e>>) = 1 /\ 1..(1 - 1) = {}
    OBVIOUS
  <2> QED BY <2>1 DEF PartOf
<1>7. PartOf(<<>>, e) /\ file = file \o <<>>
  <2>1. <<>> \in Seq({0, e}) /\ Len(<<>>) = 0 /\ 1..(0 - 1) = {}
    BY EmptySeq
  <2>2. file = file \o <<>>
    BY ConcatEmptySeq DEF Texts
  <2> QED BY <2>1, <2>2 DEF PartOf
<1>8. \/ next = file \o Append(all, 0) \/ next = file \o all
      \/ next = file \o <<e>> \/ next = file
  BY <1>2 DEF Appended
<1> QED BY <1>4, <1>5, <1>6, <1>7, <1>8

LEMMA AppendKeepsOrder ==
    ASSUME NEW n \in Nat, NEW file \in Seq(0..n), InOrder(file),
           NEW piece, PartOf(piece, n + 1), NEW next, next = file \o piece
    PROVE  /\ next \in Seq(0..(n + 1)) /\ InOrder(next)
           /\ \A j \in 1..Len(next) : \/ j \in 1..Len(file) /\ next[j] = file[j]
                                      \/ next[j] \in {0, n + 1}
<1>1. PICK l \in Nat, m \in Nat : l = Len(file) /\ m = Len(piece)
  BY DEF PartOf
<1>2. file \in Seq(0..(n + 1)) /\ piece \in Seq(0..(n + 1))
  <2>1. 0..n \subseteq 0..(n + 1) /\ {0, n + 1} \subseteq 0..(n + 1)
    OBVIOUS
  <2> QED BY <2>1, SeqMonotonic DEF PartOf
<1>3. /\ next \in Seq(0..(n + 1)) /\ Len(next) = l + m
      /\ \A i \in 1..(l + m) : next[i] = IF i <= l THEN file[i] ELSE piece[i - l]
  <2>1. /\ next \in Seq(0..(n + 1)) /\ Len(next) = Len(file) + Len(piece)
        /\ \A i \in 1..(Len(file) + Len(piece)) :
             next[i] = IF i <= Len(file) THEN file[i] ELSE piece[i - Len(file)]
    BY <1>2, ConcatProperties, Zenon
  <2> QED BY <1>1, <2>1, Zenon
<1>4. \A i \in 1..l : next[i] = file[i] /\ file[i] \in 0..n
  <2>1. \A i \in 1..l : i \in 1..(l + m) /\ i <= l
    OBVIOUS
  <2>2. \A i \in 1..l : file[i] \in 0..n
    BY <1>1
  <2> QED BY <1>3, <2>1, <2>2, Zenon
<1>5. \A i \in (l + 1)..(l + m) : next[i] \in {0, n + 1} /\ (i # l + m => next[i] = n + 1)
  <2>1. ASSUME NEW i \in (l + 1)..(l + m)
        PROVE  next[i] \in {0, n + 1} /\ (i # l + m => next[i] = n + 1)
    <3>1. i \in 1..(l + m) /\ ~(i <= l) /\ i - l \in 1..m /\ (i # l + m => i - l \in 1..(m - 1))
      OBVIOUS
    <3>2. next[i] = piece[i - l]
      BY <1>3, <3>1, Zenon
    <3>3. piece[i - l] \in {0, n + 1} /\ (i - l \in 1..(m - 1) => piece[i - l] = n + 1)
      <4>1. PICK d \in 1..m : d = i - l
        BY <3>1
      <4>2. piece[d] \in {0, n + 1}
        BY <1>1 DEF PartOf
      <4>3. d \in 1..(m - 1) => piece[d] = n + 1
        BY <1>1 DEF PartOf
      <4> QED BY <4>1, <4>2, <4>3, Zenon
    <3> QED BY <3>1, <3>2, <3>3
  <2> QED BY <2>1
<1>6. ASSUME NEW i \in 1..(l + m), NEW j \in 1..(l + m), i < j, next[i] # 0, next[j] # 0
      PROVE  next[i] <= next[j] /\ \A k \in i..j : next[k] = 0 => next[i] < next[j]
  <2>1. CASE j \in 1..l
    <3>1. i \in 1..l /\ \A k \in i..j : k \in 1..l
      BY <1>6, <2>1
    <3>2. /\ file[i] <= file[j]
          /\ \A k \in i..j : file[k] = 0 => file[i] < file[j]
      BY <1>1, <1>4, <1>6, <2>1, <3>1 DEF InOrder
    <3> QED BY <1>4, <2>1, <3>1, <3>2, Zenon
  <2>2. CASE j \in (l + 1)..(l + m) /\ i \in 1..l
    <3>1. next[j] = n + 1 /\ next[i] \in 0..n
      BY <1>4, <1>5, <1>6, <2>2
    <3>2. PICK x \in 0..n : x = next[i]
      BY <3>1, Zenon
    <3>3. x <= n + 1 /\ x < n + 1
      OBVIOUS
    <3> QED BY <3>1, <3>2, <3>3, Zenon
  <2>3. CASE j \in (l + 1)..(l + m) /\ i \in (l + 1)..(l + m)
    <3>1. next[j] = n + 1 /\ next[i] = n + 1
      BY <1>5, <1>6, <2>3
    <3>2. ASSUME NEW k \in i..j PROVE next[k] # 0
      <4>1. CASE k = j
        BY <1>6, <4>1
      <4>2. CASE k # j
        <5>1. k \in (l + 1)..(l + m) /\ k # l + m
          BY <2>3, <4>2
        <5>2. next[k] = n + 1
          BY <1>5, <5>1
        <5>3. n + 1 # 0
          OBVIOUS
        <5> QED BY <5>2, <5>3, Zenon
      <4> QED BY <4>1, <4>2
    <3>3. n + 1 <= n + 1
      OBVIOUS
    <3> QED BY <3>1, <3>2, <3>3, Zenon
  <2>4. \A x \in 1..(l + m) : x \in 1..l \/ x \in (l + 1)..(l + m)
    OBVIOUS
  <2> QED BY <1>6, <2>1, <2>2, <2>3, <2>4
<1>7. InOrder(next)
  BY <1>3, <1>6 DEF InOrder
<1>8. \A j \in 1..(l + m) : (j \in 1..l /\ next[j] = file[j]) \/ next[j] \in {0, n + 1}
  <2>1. \A x \in 1..(l + m) : x \in 1..l \/ x \in (l + 1)..(l + m)
    OBVIOUS
  <2> QED BY <1>4, <1>5, <2>1
<1> QED BY <1>1, <1>3, <1>7, <1>8

\* An append that rotates or not, that writes the whole record or not, keeps the files in order.
LEMMA AppendKeepsFiles ==
    ASSUME TailInv, AppendBytes(Len(entry) + 1), Len(entry') = Len(entry) + 1
    PROVE  FilesOK'
<1>1. PICK n \in Nat : n = Len(entry)
  <2>1. entry \in Seq(Entries)
    BY DEF TailInv
  <2> QED BY <2>1
<1>2. /\ older \in Seq(0..n) /\ current \in Seq(0..n)
      /\ InOrder(older) /\ InOrder(current) /\ Before(older, current)
  BY <1>1 DEF TailInv, FilesOK
<1>3. PICK file : file = IF Len(current) >= FileSize THEN <<>> ELSE current
  OBVIOUS
<1>4. /\ older' = IF Len(current) >= FileSize THEN current ELSE older
      /\ current' \in {file \o Append(Bytes(n + 1), 0), file \o Bytes(n + 1), file \o <<n + 1>>, file}
  BY <1>1, <1>3, Zenon DEF AppendBytes
<1>5. file \in Seq(0..n) /\ InOrder(file) /\ older' \in Seq(0..n) /\ InOrder(older') /\ Before(older', file)
  <2>1. CASE Len(current) >= FileSize
    <3>1. file = <<>> /\ older' = current
      BY <1>3, <1>4, <2>1
    <3>2. \A i \in 1..0 : FALSE
      OBVIOUS
    <3>3. <<>> \in Seq(0..n) /\ Len(<<>>) = 0
      BY EmptySeq
    <3> QED BY <1>2, <3>1, <3>2, <3>3 DEF InOrder, Before
  <2>2. CASE ~(Len(current) >= FileSize)
    BY <1>2, <1>3, <1>4, <2>2
  <2> QED BY <2>1, <2>2
<1>6. file \in Texts /\ n + 1 \in Nat
  <2>1. 0..n \subseteq Nat
    OBVIOUS
  <2> QED BY <1>5, <2>1, SeqMonotonic DEF Texts
<1>7. PICK piece : PartOf(piece, n + 1) /\ current' = file \o piece
  <2>1. PICK e \in Nat : e = n + 1
    BY <1>6
  <2>2. PICK more : more = current'
    OBVIOUS
  <2>3. Appended(file, e, more)
    BY <1>4, <2>1, <2>2, Zenon DEF Appended
  <2>4. \E piece : PartOf(piece, e) /\ more = file \o piece
    BY <1>6, <2>3, Parts
  <2> QED BY <2>1, <2>2, <2>4
<1>8. PICK next : next = current'
  OBVIOUS
<1>9. /\ next \in Seq(0..(n + 1)) /\ InOrder(next)
      /\ \A j \in 1..Len(next) : \/ j \in 1..Len(file) /\ next[j] = file[j]
                                 \/ next[j] \in {0, n + 1}
  BY <1>5, <1>7, <1>8, AppendKeepsOrder
<1>10. PICK old : old = older'
  OBVIOUS
<1>11. \A i \in 1..Len(old) : old[i] \in 0..n
  BY <1>5, <1>10
<1>12. ASSUME NEW i \in 1..Len(old), NEW j \in 1..Len(next), old[i] # 0, next[j] # 0
       PROVE  old[i] < next[j]
  <2>1. CASE j \in 1..Len(file) /\ next[j] = file[j]
    BY <1>5, <1>10, <1>12, <2>1 DEF Before
  <2>2. CASE next[j] = n + 1
    <3>1. old[i] \in 0..n
      BY <1>11
    <3> QED BY <2>2, <3>1
  <2> QED BY <1>9, <1>12, <2>1, <2>2
<1>13. Before(old, next)
  BY <1>12 DEF Before
<1>14. old \in Seq(0..(n + 1))
  <2>1. 0..n \subseteq 0..(n + 1)
    OBVIOUS
  <2> QED BY <1>5, <1>10, <2>1, SeqMonotonic
<1>15. Len(entry') = n + 1
  BY <1>1
<1> QED BY <1>5, <1>8, <1>9, <1>10, <1>13, <1>14, <1>15 DEF FilesOK, InOrder, Before

LEMMA NewEntryKeeps ==
    ASSUME TailInv, NEW e \in Entries, SaysItsKind(e),
           entry' = Append(entry, e), AppendBytes(Len(entry) + 1)
    PROVE  /\ entry' \in Seq(Entries)
           /\ \A i \in 1..Len(entry') : SaysItsKind(entry'[i])
           /\ FilesOK'
<1>1. entry \in Seq(Entries) /\ \A i \in 1..Len(entry) : SaysItsKind(entry[i])
  BY DEF TailInv
<1>2. PICK more : more = entry'
  OBVIOUS
<1>3. PICK n \in Nat : n = Len(entry)
  BY <1>1
<1>4. /\ more \in Seq(Entries) /\ Len(more) = n + 1 /\ more[n + 1] = e
      /\ \A i \in 1..n : more[i] = entry[i]
  BY <1>1, <1>2, <1>3, AppendProperties
<1>5. \A i \in 1..(n + 1) : SaysItsKind(more[i])
  <2>1. \A i \in 1..(n + 1) : i \in 1..n \/ i = n + 1
    OBVIOUS
  <2> QED BY <1>1, <1>3, <1>4, <2>1, Zenon
<1>6. FilesOK'
  BY <1>2, <1>3, <1>4, AppendKeepsFiles
<1> QED BY <1>2, <1>4, <1>5, <1>6

LEMMA TailInvInit == TailInit => TailInv
<1>1. ASSUME TailInit PROVE TailInv
  <2>1. older = <<>> /\ current = <<>> /\ entry = <<>>
    BY <1>1 DEF TailInit
  <2>2. \A i \in 1..0 : FALSE
    OBVIOUS
  <2>3. Len(<<>>) = 0 /\ <<>> \in Seq(Entries) /\ <<>> \in Seq(0..0)
    BY EmptySeq
  <2>4. FilesOK
    BY <2>1, <2>2, <2>3 DEF FilesOK, InOrder, Before
  <2>5. \A e \in 1..Len(entry) : SaysItsKind(entry[e])
    BY <2>1, <2>2, <2>3
  <2>6. /\ limit \in [Readers -> Nat]
        /\ nonce \in [Readers -> Readers \cup {""}]
        /\ DOMAIN reader = Readers /\ DOMAIN view = Readers
    BY <1>1 DEF TailInit
  <2> QED BY <2>1, <2>3, <2>4, <2>5, <2>6 DEF TailInv
<1> QED BY <1>1

LEMMA TailInvNext == TailInv /\ [TailNext]_tailVars => TailInv'
<1>1. SUFFICES ASSUME TailInv, [TailNext]_tailVars PROVE TailInv'
  OBVIOUS
<1>2. /\ limit \in [Readers -> Nat]
      /\ nonce \in [Readers -> Readers \cup {""}]
      /\ DOMAIN reader = Readers /\ DOMAIN view = Readers
  BY <1>1 DEF TailInv
<1>3. CASE OtherAppends
  <2>1. PICK e : /\ e \in Entries /\ SaysItsKind(e)
                 /\ entry' = Append(entry, e) /\ AppendBytes(Len(entry) + 1)
    <3>1. CASE NewEntry("cli", "get", {}, "")
      <4>1. PICK e : e = [caller |-> "cli", action |-> "get", tokens |-> {}, nonce |-> ""]
        OBVIOUS
      <4>2. e \in Entries
        BY <4>1 DEF Entries
      <4>3. SaysItsKind(e)
        BY <4>1 DEF SaysItsKind
      <4> QED BY <3>1, <4>1, <4>2, <4>3, Zenon DEF NewEntry
    <3>2. CASE NewEntry("mcp", "mcp_run", {"timed_out", "raw_exit"}, "")
      <4>1. PICK e : e = [caller |-> "mcp", action |-> "mcp_run",
                          tokens |-> {"timed_out", "raw_exit"}, nonce |-> ""]
        OBVIOUS
      <4>2. e \in Entries
        BY <4>1 DEF Entries
      <4>3. SaysItsKind(e)
        BY <4>1 DEF SaysItsKind
      <4> QED BY <3>2, <4>1, <4>2, <4>3, Zenon DEF NewEntry
    <3>3. CASE NewEntry("mcp", "audit_tail", {"n"}, "another")
      <4>1. PICK e : e = [caller |-> "mcp", action |-> "audit_tail", tokens |-> {"n"}, nonce |-> "another"]
        OBVIOUS
      <4>2. e \in Entries
        BY <4>1 DEF Entries
      <4>3. SaysItsKind(e)
        BY <4>1 DEF SaysItsKind
      <4> QED BY <3>3, <4>1, <4>2, <4>3, Zenon DEF NewEntry
    <3> QED BY <1>3, <3>1, <3>2, <3>3 DEF OtherAppends
  <2>2. UNCHANGED <<reader, limit, nonce, view>>
    BY <1>3 DEF OtherAppends
  <2> QED BY <1>1, <1>2, <2>1, <2>2, NewEntryKeeps DEF TailInv
<1>4. ASSUME NEW r \in Readers, AskTail(r) PROVE TailInv'
  <2>1. UNCHANGED <<older, current, entry, view>>
    BY <1>4 DEF AskTail
  <2>2. FilesOK'
    BY <1>1, <2>1 DEF TailInv, FilesOK
  <2>3. PICK n \in Asked : limit' = [limit EXCEPT ![r] = Clamp(n)]
    BY <1>4 DEF AskTail
  <2>4. Clamp(n) \in Nat
    BY TailAssumption DEF Clamp
  <2>5. limit' \in [Readers -> Nat]
    BY <1>2, <2>3, <2>4
  <2>6. PICK own \in {r, ""} : nonce' = [nonce EXCEPT ![r] = own]
    BY <1>4 DEF AskTail
  <2>7. nonce' \in [Readers -> Readers \cup {""}]
    BY <1>2, <2>6
  <2>8. DOMAIN reader' = Readers
    BY <1>2, <1>4 DEF AskTail
  <2> QED BY <1>1, <1>2, <2>1, <2>2, <2>5, <2>7, <2>8 DEF TailInv
<1>5. ASSUME NEW r \in Readers, RecordRead(r) PROVE TailInv'
  <2>1. NewEntry("mcp", "audit_tail", {"n"}, nonce[r])
    BY <1>5 DEF RecordRead
  <2>2. PICK e : e = [caller |-> "mcp", action |-> "audit_tail", tokens |-> {"n"}, nonce |-> nonce[r]]
    OBVIOUS
  <2>3. e \in Entries
    BY <1>2, <2>2 DEF Entries
  <2>4. SaysItsKind(e)
    BY <2>2 DEF SaysItsKind
  <2>5. entry' = Append(entry, e) /\ AppendBytes(Len(entry) + 1)
    BY <2>1, <2>2, Zenon DEF NewEntry
  <2>6. DOMAIN reader' = Readers /\ UNCHANGED <<limit, nonce, view>>
    BY <1>2, <1>5 DEF RecordRead
  <2> QED BY <1>1, <1>2, <2>3, <2>4, <2>5, <2>6, NewEntryKeeps DEF TailInv
<1>6. ASSUME NEW r \in Readers, ReturnTail(r) PROVE TailInv'
  <2>1. UNCHANGED <<older, current, entry, limit, nonce>>
    BY <1>6 DEF ReturnTail
  <2>2. FilesOK'
    BY <1>1, <2>1 DEF TailInv, FilesOK
  <2>3. DOMAIN reader' = Readers /\ DOMAIN view' = Readers
    BY <1>2, <1>6 DEF ReturnTail
  <2> QED BY <1>1, <1>2, <2>1, <2>2, <2>3 DEF TailInv
<1>7. CASE UNCHANGED tailVars
  BY <1>1, <1>7 DEF TailInv, FilesOK, tailVars
<1> QED BY <1>1, <1>3, <1>4, <1>5, <1>6, <1>7 DEF TailNext

\* The files hold whole and torn records in the order in which they were written, and an entry
\* that an AI may see says no more than its kind of entry says.
THEOREM TailInvHolds == TailSpec => []TailInv
BY TailInvInit, TailInvNext, PTL DEF TailSpec

-----------------------------------------------------------------------------
(* Records in lines *)

\* Lines that are not empty, in the order of the entries that begin them.
Ascending(lines) ==
    /\ lines \in Seq(Texts)
    /\ \A k \in 1..Len(lines) : lines[k] # <<>> /\ lines[k][1] \in Nat
    /\ \A i, j \in 1..Len(lines) : i < j => lines[i][1] < lines[j][1]

RecordsOf(lines) == {lines[k][1] : k \in {j \in 1..Len(lines) : IsRecord(lines[j])}}

WholeAt(data, B) == {data[i] : i \in {j \in B : Whole(data, j)}}

LEMMA FirstByte ==
    ASSUME NEW data \in Texts, NEW i, NEW l, LineAt(data, i, l)
    PROVE  /\ i \in 1..Len(data) /\ l[1] = data[i] /\ l[1] \in Nat /\ l[1] # 0
           /\ IsRecord(l) <=> Whole(data, i)
<1>1. PICK k \in Nat : k = Len(data)
  BY DEF Texts
<1>2. PICK z \in Nat : z = Len(l)
  BY DEF LineAt, Texts
<1>3. /\ l \in Seq(Nat) /\ l # <<>> /\ i \in Nat \ {0} /\ i + z - 1 <= k
      /\ \A j \in 1..z : l[j] = data[i + j - 1] /\ l[j] # 0
      /\ i + z - 1 = k \/ data[i + z] = 0
  BY <1>1, <1>2 DEF LineAt, Texts
<1>4. z # 0
  BY <1>2, <1>3
<1>5. 1 \in 1..z /\ i + 1 - 1 = i /\ i \in 1..k
  BY <1>3, <1>4
<1>6. l[1] = data[i] /\ l[1] \in Nat /\ l[1] # 0
  BY <1>2, <1>3, <1>5
<1>7. PICK s \in Nat \ {0} : s = Size
  BY TailAssumption
<1>8. IsRecord(l) <=> z = s /\ \A j \in 1..s : l[j] = l[1]
  <2>1. l = [j \in 1..z |-> l[j]]
    BY <1>2, <1>3
  <2>2. Bytes(l[1]) = [j \in 1..s |-> l[1]]
    BY <1>7 DEF Bytes
  <2>3. ASSUME IsRecord(l) PROVE z = s /\ \A j \in 1..s : l[j] = l[1]
    <3>1. l = [j \in 1..s |-> l[1]]
      BY <2>2, <2>3 DEF IsRecord
    <3>2. 1..z = 1..s
      BY <2>1, <3>1
    <3>3. z = s
      <4>1. z \in 1..z /\ s \in 1..s
        BY <1>4
      <4>2. z \in 1..s /\ s \in 1..z
        BY <3>2, <4>1
      <4> QED BY <4>2
    <3>4. \A j \in 1..s : l[j] = l[1]
      <4>1. PICK first : first = l[1]
        OBVIOUS
      <4>2. l = [j \in 1..s |-> first]
        BY <3>1, <4>1
      <4> QED BY <4>1, <4>2
    <3> QED BY <3>3, <3>4
  <2>4. ASSUME z = s, \A j \in 1..s : l[j] = l[1] PROVE IsRecord(l)
    <3>1. PICK first : first = l[1]
      OBVIOUS
    <3>2. l = [j \in 1..s |-> first]
      BY <2>1, <2>4, <3>1
    <3> QED BY <2>2, <3>1, <3>2 DEF IsRecord
  <2> QED BY <2>3, <2>4
<1>9. Whole(data, i) <=> /\ i + s - 1 <= k
                         /\ \A j \in i..(i + s - 1) : data[j] = data[i]
                         /\ i + s - 1 = k \/ data[i + s] = 0
  BY <1>1, <1>7 DEF Whole
<1>10. ASSUME z = s, \A j \in 1..s : l[j] = l[1] PROVE Whole(data, i)
  <2>1. ASSUME NEW j \in i..(i + s - 1) PROVE data[j] = data[i]
    <3>1. PICK d \in 1..s : d = j - i + 1 /\ i + d - 1 = j
      <4>1. j - i + 1 \in 1..s /\ i + (j - i + 1) - 1 = j
        BY <1>3
      <4> QED BY <4>1
    <3>2. l[d] = data[i + d - 1] /\ l[d] = l[1]
      BY <1>3, <1>10
    <3> QED BY <1>6, <3>1, <3>2
  <2> QED BY <1>3, <1>9, <1>10, <2>1
<1>11. ASSUME Whole(data, i) PROVE z = s /\ \A j \in 1..s : l[j] = l[1]
  <2>1. /\ i + s - 1 <= k
        /\ \A j \in i..(i + s - 1) : data[j] = data[i]
        /\ i + s - 1 = k \/ data[i + s] = 0
    BY <1>9, <1>11
  <2>2. ~(z < s)
    <3>1. SUFFICES ASSUME z < s PROVE FALSE
      OBVIOUS
    <3>2. i + z - 1 # k /\ i + z \in i..(i + s - 1)
      BY <1>3, <2>1, <3>1
    <3>3. data[i + z] = 0 /\ data[i + z] = data[i]
      BY <1>3, <2>1, <3>2
    <3> QED BY <1>6, <3>3
  <2>3. ~(s < z)
    <3>1. SUFFICES ASSUME s < z PROVE FALSE
      OBVIOUS
    <3>2. i + s - 1 # k /\ s + 1 \in 1..z /\ i + (s + 1) - 1 = i + s
      BY <1>3, <3>1
    <3>3. data[i + s] = 0 /\ l[s + 1] = data[i + (s + 1) - 1] /\ l[s + 1] # 0
      BY <1>3, <2>1, <3>2
    <3> QED BY <3>2, <3>3
  <2>4. z = s
    BY <2>2, <2>3
  <2>5. ASSUME NEW j \in 1..s PROVE l[j] = l[1]
    <3>1. i + j - 1 \in i..(i + s - 1) /\ j \in 1..z
      BY <1>3, <2>4
    <3> QED BY <1>3, <1>6, <2>1, <3>1
  <2> QED BY <2>4, <2>5
<1> QED BY <1>1, <1>5, <1>6, <1>8, <1>10, <1>11

\* The lines of a file in order are in order themselves, and the records among them are those
\* of the file.
LEMMA LinesAscend ==
    ASSUME NEW data \in Texts, InOrder(data), NEW B \in SUBSET Begins(data),
           NEW lines, LinesOf(data, B, lines)
    PROVE  /\ Ascending(lines)
           /\ RecordsOf(lines) = WholeAt(data, B)
           /\ \A k \in 1..Len(lines) : \E i \in 1..Len(data) : lines[k][1] = data[i] /\ data[i] # 0
           /\ IsFiniteSet(B) /\ Cardinality(B) = Len(lines)
<1>1. PICK b : /\ Lists(b, B)
               /\ lines \in Seq(Texts) /\ Len(lines) = Len(b)
               /\ \A k \in 1..Len(b) : LineAt(data, b[k], lines[k])
  BY DEF LinesOf
<1>2. PICK q \in Nat : q = Len(lines) /\ q = Len(b)
  BY <1>1 DEF Lists
<1>3. PICK l \in Nat : l = Len(data)
  BY DEF Texts
<1>4. ASSUME NEW k \in 1..q
      PROVE  /\ b[k] \in 1..l /\ b[k] \in B /\ lines[k] # <<>>
             /\ lines[k][1] = data[b[k]] /\ lines[k][1] \in Nat /\ lines[k][1] # 0
             /\ IsRecord(lines[k]) <=> Whole(data, b[k])
  <2>1. LineAt(data, b[k], lines[k])
    BY <1>1, <1>2
  <2>2. lines[k] # <<>>
    BY <2>1 DEF LineAt
  <2>3. b[k] \in B
    BY <1>1, <1>2 DEF Lists
  <2> QED BY <1>3, <2>1, <2>2, <2>3, FirstByte
<1>5. ASSUME NEW i \in 1..q, NEW j \in 1..q, i < j PROVE lines[i][1] < lines[j][1]
  <2>1. PICK x \in 1..l, y \in 1..l : x = b[i] /\ y = b[j] /\ x < y
    BY <1>1, <1>2, <1>4, <1>5 DEF Lists
  <2>2. y \in Begins(data)
    BY <1>4, <2>1
  <2>3. y # 1 /\ y - 1 \in x..y
    BY <2>1
  <2>4. data[y - 1] = 0
    BY <2>2, <2>3 DEF Begins
  <2>5. data[x] # 0 /\ data[y] # 0
    BY <1>4, <2>1
  <2>6. data[x] < data[y]
    BY <1>3, <2>1, <2>3, <2>4, <2>5 DEF InOrder
  <2> QED BY <1>4, <2>1, <2>6
<1>6. Ascending(lines)
  BY <1>1, <1>2, <1>4, <1>5 DEF Ascending
<1>7. RecordsOf(lines) = WholeAt(data, B)
  <2>1. ASSUME NEW k \in 1..q, IsRecord(lines[k]) PROVE lines[k][1] \in WholeAt(data, B)
    BY <1>4, <2>1 DEF WholeAt
  <2>2. ASSUME NEW i \in B, Whole(data, i) PROVE data[i] \in RecordsOf(lines)
    <3>1. PICK k \in 1..q : i = b[k]
      BY <1>1, <1>2 DEF Lists
    <3> QED BY <1>2, <1>4, <2>2, <3>1 DEF RecordsOf
  <2>3. RecordsOf(lines) \subseteq WholeAt(data, B)
    BY <1>2, <2>1 DEF RecordsOf
  <2>4. WholeAt(data, B) \subseteq RecordsOf(lines)
    BY <2>2 DEF WholeAt
  <2> QED BY <2>3, <2>4
<1>8. \A k \in 1..q : \E i \in 1..l : lines[k][1] = data[i] /\ data[i] # 0
  BY <1>4
<1>9. IsFiniteSet(B) /\ Cardinality(B) = q
  <2>1. 0 \in Nat
    OBVIOUS
  <2> QED BY <1>1, <1>2, <2>1, NewestListed
<1> QED BY <1>2, <1>3, <1>6, <1>7, <1>8, <1>9

\* The newest n are at most n.
LEMMA NewestAreFew ==
    ASSUME NEW b, NEW B, Lists(b, B), NEW n \in Nat
    PROVE  IsFiniteSet(Newest(B, n)) /\ Cardinality(Newest(B, n)) <= n
<1>1. PICK m \in Nat : m = Len(b)
  BY DEF Lists
<1>2. Newest(B, n) = {b[j] : j \in {k \in 1..m : k > m - n}}
  BY <1>1, NewestListed
<1>3. PICK i \in 0..m : i = IF m <= n THEN 0 ELSE m - n
  <2>1. (IF m <= n THEN 0 ELSE m - n) \in 0..m
    OBVIOUS
  <2> QED BY <2>1
<1>4. {k \in 1..m : k > m - n} = (i + 1)..m
  BY <1>3
<1>5. m - i <= n
  BY <1>3
<1>6. /\ IsFiniteSet({b[j] : j \in (i + 1)..m})
      /\ Cardinality({b[j] : j \in (i + 1)..m}) = m - i
  BY <1>1, ListedOnce
<1> QED BY <1>2, <1>4, <1>5, <1>6

LEMMA JoinedAscend ==
    ASSUME NEW a, NEW b, Ascending(a), Ascending(b),
           \A i \in 1..Len(a), j \in 1..Len(b) : a[i][1] < b[j][1]
    PROVE  /\ Ascending(a \o b)
           /\ Len(a \o b) = Len(a) + Len(b)
           /\ RecordsOf(a \o b) = RecordsOf(a) \cup RecordsOf(b)
           /\ \A k \in 1..Len(a \o b) : \/ \E i \in 1..Len(a) : (a \o b)[k] = a[i]
                                        \/ \E j \in 1..Len(b) : (a \o b)[k] = b[j]
<1>1. PICK m \in Nat, q \in Nat : m = Len(a) /\ q = Len(b)
  BY DEF Ascending
<1>2. PICK c : c = a \o b
  OBVIOUS
<1>3. a \in Seq(Texts) /\ b \in Seq(Texts)
  BY DEF Ascending
<1>4. /\ c \in Seq(Texts) /\ Len(c) = m + q
      /\ \A k \in 1..(m + q) : c[k] = IF k <= m THEN a[k] ELSE b[k - m]
  <2>1. /\ c \in Seq(Texts) /\ Len(c) = Len(a) + Len(b)
        /\ \A k \in 1..(Len(a) + Len(b)) : c[k] = IF k <= Len(a) THEN a[k] ELSE b[k - Len(a)]
    BY <1>2, <1>3, ConcatProperties, Zenon
  <2> QED BY <1>1, <2>1, Zenon
<1>5. \A k \in 1..m : k \in 1..(m + q) /\ c[k] = a[k]
  <2>1. \A k \in 1..m : k \in 1..(m + q) /\ k <= m
    OBVIOUS
  <2> QED BY <1>4, <2>1, Zenon
<1>6. \A j \in 1..q : m + j \in 1..(m + q) /\ c[m + j] = b[j]
  <2>1. ASSUME NEW j \in 1..q PROVE m + j \in 1..(m + q) /\ c[m + j] = b[j]
    <3>1. PICK k \in 1..(m + q) : k = m + j /\ ~(k <= m) /\ k - m = j
      <4>1. m + j \in 1..(m + q) /\ ~(m + j <= m) /\ m + j - m = j
        OBVIOUS
      <4> QED BY <4>1
    <3>2. c[k] = b[k - m]
      BY <1>4, <3>1, Zenon
    <3> QED BY <3>1, <3>2
  <2> QED BY <2>1
<1>7. \A k \in 1..(m + q) : k \in 1..m \/ \E j \in 1..q : k = m + j
  <2>1. ASSUME NEW k \in 1..(m + q), k \notin 1..m PROVE \E j \in 1..q : k = m + j
    <3>1. k - m \in 1..q /\ k = m + (k - m)
      BY <2>1
    <3> QED BY <3>1
  <2> QED BY <2>1
<1>8. \A k \in 1..(m + q) : c[k] # <<>> /\ c[k][1] \in Nat
  BY <1>1, <1>5, <1>6, <1>7 DEF Ascending
<1>9. ASSUME NEW x \in 1..(m + q), NEW y \in 1..(m + q), x < y PROVE c[x][1] < c[y][1]
  <2>1. CASE y \in 1..m
    <3>1. x \in 1..m
      BY <1>9, <2>1
    <3> QED BY <1>1, <1>5, <1>9, <2>1, <3>1 DEF Ascending
  <2>2. ASSUME NEW j \in 1..q, y = m + j PROVE c[x][1] < c[y][1]
    <3>1. CASE x \in 1..m
      BY <1>1, <1>5, <1>6, <2>2, <3>1
    <3>2. ASSUME NEW i \in 1..q, x = m + i PROVE c[x][1] < c[y][1]
      <4>1. i < j
        BY <1>9, <2>2, <3>2
      <4> QED BY <1>1, <1>6, <2>2, <3>2, <4>1 DEF Ascending
    <3> QED BY <1>7, <3>1, <3>2
  <2> QED BY <1>7, <2>1, <2>2
<1>10. Ascending(c)
  BY <1>4, <1>8, <1>9 DEF Ascending
<1>11. RecordsOf(c) = RecordsOf(a) \cup RecordsOf(b)
  <2>1. ASSUME NEW k \in 1..(m + q), IsRecord(c[k]) PROVE c[k][1] \in RecordsOf(a) \cup RecordsOf(b)
    <3>1. CASE k \in 1..m
      BY <1>1, <1>5, <2>1, <3>1 DEF RecordsOf
    <3>2. ASSUME NEW j \in 1..q, k = m + j PROVE c[k][1] \in RecordsOf(b)
      BY <1>1, <1>6, <2>1, <3>2 DEF RecordsOf
    <3> QED BY <1>7, <3>1, <3>2
  <2>2. ASSUME NEW k \in 1..m, IsRecord(a[k]) PROVE a[k][1] \in RecordsOf(c)
    BY <1>4, <1>5, <2>2 DEF RecordsOf
  <2>3. ASSUME NEW k \in 1..q, IsRecord(b[k]) PROVE b[k][1] \in RecordsOf(c)
    BY <1>4, <1>6, <2>3 DEF RecordsOf
  <2>4. RecordsOf(c) \subseteq RecordsOf(a) \cup RecordsOf(b)
    BY <1>4, <2>1 DEF RecordsOf
  <2>5. RecordsOf(a) \subseteq RecordsOf(c)
    BY <1>1, <2>2 DEF RecordsOf
  <2>6. RecordsOf(b) \subseteq RecordsOf(c)
    BY <1>1, <2>3 DEF RecordsOf
  <2> QED BY <2>4, <2>5, <2>6
<1>12. \A k \in 1..(m + q) : (\E i \in 1..m : c[k] = a[i]) \/ (\E j \in 1..q : c[k] = b[j])
  BY <1>5, <1>6, <1>7
<1> QED BY <1>1, <1>2, <1>4, <1>10, <1>11, <1>12

LEMMA LastOfShort ==
    ASSUME NEW s, NEW n, Len(s) <= n
    PROVE  LastOf(s, n) = s
BY DEF LastOf

LEMMA NewestTypes ==
    ASSUME NEW data \in Texts, NEW n \in Nat
    PROVE  /\ IsFiniteSet(Newest(Begins(data), n)) /\ Cardinality(Newest(Begins(data), n)) \in Nat
           /\ Cardinality(Newest(Begins(data), n)) <= n
           /\ Newest(Begins(data), n) \subseteq Begins(data)
<1>1. PICK b : Lists(b, Begins(data))
  BY SplitIsExact DEF LinesOf
<1> QED BY <1>1, NewestAreFew, FS_CardinalityType DEF Newest

\* What tailAuditContext gives.
LEMMA TailLinesAreRecent ==
    ASSUME TailInv
    PROVE  /\ Ascending(TailLines(Most)) /\ RecordsOf(TailLines(Most)) = Recent
           /\ \A k \in 1..Len(TailLines(Most)) : TailLines(Most)[k][1] \in 1..Len(entry)
<1>1. PICK n \in Nat : n = Len(entry)
  <2>1. entry \in Seq(Entries)
    BY DEF TailInv
  <2> QED BY <2>1
<1>2. /\ older \in Seq(0..n) /\ current \in Seq(0..n)
      /\ InOrder(older) /\ InOrder(current) /\ Before(older, current)
  BY <1>1 DEF TailInv, FilesOK
<1>3. older \in Texts /\ current \in Texts
  <2>1. 0..n \subseteq Nat
    OBVIOUS
  <2> QED BY <1>2, <2>1, SeqMonotonic DEF Texts
<1>4. /\ \A i \in 1..Len(older) : older[i] # 0 => older[i] \in 1..n
      /\ \A i \in 1..Len(current) : current[i] # 0 => current[i] \in 1..n
  <2>1. \A x \in 0..n : x # 0 => x \in 1..n
    OBVIOUS
  <2> QED BY <1>2, <2>1
<1>5. PICK most \in Nat \ {0} : most = Most
  BY TailAssumption
<1>6. PICK new : new = Newest(Begins(current), most)
  OBVIOUS
<1>7. PICK lines : lines = ReadTail(current, most)
  OBVIOUS
<1>8. LinesOf(current, new, lines) /\ new \in SUBSET Begins(current)
  BY <1>3, <1>6, <1>7, TailIsNewest DEF Newest
<1>9. /\ Ascending(lines) /\ RecordsOf(lines) = WholeAt(current, new)
      /\ \A k \in 1..Len(lines) : \E i \in 1..Len(current) : lines[k][1] = current[i] /\ current[i] # 0
      /\ Cardinality(new) = Len(lines)
  BY <1>2, <1>3, <1>8, LinesAscend
<1>10. PICK z \in Nat : z = Len(lines) /\ z = Cardinality(new) /\ z <= most
  <2>1. Cardinality(new) \in Nat /\ Cardinality(new) <= most
    BY <1>3, <1>6, NewestTypes
  <2> QED BY <1>9, <2>1
<1>11. PICK left \in Nat : left = most - z
  BY <1>10
<1>12. PICK old : old = Newest(Begins(older), left)
  OBVIOUS
<1>13. Recent = WholeAt(current, new) \cup WholeAt(older, old)
  BY <1>5, <1>6, <1>10, <1>11, <1>12, Zenon DEF Recent, WholeAt
<1>14. CASE z >= most
  <2>1. TailLines(most) = lines
    <3>1. LastOf(lines, most) = lines
      BY <1>10, LastOfShort
    <3> QED BY <1>7, <1>10, <1>14, <3>1, Zenon DEF TailLines
  <2>2. left = 0
    BY <1>10, <1>11, <1>14
  <2>3. old = {}
    <3>1. Cardinality(old) \in Nat /\ Cardinality(old) <= 0 /\ IsFiniteSet(old)
      BY <1>3, <1>12, <2>2, NewestTypes
    <3>2. Cardinality(old) = 0
      BY <3>1
    <3> QED BY <3>1, <3>2, FS_EmptySet
  <2>4. Recent = RecordsOf(lines)
    BY <1>9, <1>13, <2>3 DEF WholeAt
  <2>5. \A k \in 1..Len(lines) : lines[k][1] \in 1..n
    BY <1>4, <1>9
  <2> QED BY <1>1, <1>5, <1>9, <2>1, <2>4, <2>5
<1>15. CASE ~(z >= most)
  <2>1. left \in Nat \ {0}
    BY <1>10, <1>11, <1>15
  <2>2. PICK first : first = ReadTail(older, left)
    OBVIOUS
  <2>3. LinesOf(older, old, first) /\ old \in SUBSET Begins(older)
    BY <1>3, <1>12, <2>1, <2>2, TailIsNewest DEF Newest
  <2>4. /\ Ascending(first) /\ RecordsOf(first) = WholeAt(older, old)
        /\ \A k \in 1..Len(first) : \E i \in 1..Len(older) : first[k][1] = older[i] /\ older[i] # 0
        /\ Cardinality(old) = Len(first)
    <3>1. older \in Texts /\ InOrder(older)
      BY <1>2, <1>3
    <3> QED BY <2>3, <3>1, LinesAscend
  <2>5. PICK y \in Nat : y = Len(first) /\ y <= left
    <3>1. Cardinality(old) \in Nat /\ Cardinality(old) <= left
      BY <1>3, <1>12, NewestTypes
    <3> QED BY <2>4, <3>1
  <2>6. \A i \in 1..Len(first), j \in 1..Len(lines) : first[i][1] < lines[j][1]
    <3>1. ASSUME NEW i \in 1..Len(first), NEW j \in 1..Len(lines) PROVE first[i][1] < lines[j][1]
      <4>1. PICK x \in 1..Len(older) : first[i][1] = older[x] /\ older[x] # 0
        BY <2>4
      <4>2. PICK w \in 1..Len(current) : lines[j][1] = current[w] /\ current[w] # 0
        BY <1>9
      <4>3. older[x] < current[w]
        BY <1>2, <4>1, <4>2 DEF Before
      <4> QED BY <4>1, <4>2, <4>3
    <3> QED BY <3>1
  <2>7. PICK both : both = first \o lines
    OBVIOUS
  <2>8. /\ Ascending(both) /\ Len(both) = y + z
        /\ RecordsOf(both) = RecordsOf(first) \cup RecordsOf(lines)
        /\ \A k \in 1..Len(both) : \/ \E i \in 1..Len(first) : both[k] = first[i]
                                   \/ \E j \in 1..Len(lines) : both[k] = lines[j]
    <3>1. Ascending(first) /\ Ascending(lines)
      BY <1>9, <2>4
    <3>2. /\ Ascending(both) /\ Len(both) = Len(first) + Len(lines)
          /\ RecordsOf(both) = RecordsOf(first) \cup RecordsOf(lines)
          /\ \A k \in 1..Len(both) : \/ \E i \in 1..Len(first) : both[k] = first[i]
                                     \/ \E j \in 1..Len(lines) : both[k] = lines[j]
      BY <2>6, <2>7, <3>1, JoinedAscend
    <3> QED BY <1>10, <2>5, <3>2
  <2>9. y + z <= most
    BY <1>10, <1>11, <2>5
  <2>10. TailLines(most) = both
    <3>1. LastOf(both, most) = both
      BY <2>8, <2>9, LastOfShort
    <3>2. left = most - Len(lines)
      BY <1>10, <1>11
    <3>3. ~(Len(lines) >= most)
      BY <1>10, <1>15
    <3> QED BY <1>7, <2>2, <2>7, <3>1, <3>2, <3>3, Zenon DEF TailLines
  <2>11. RecordsOf(both) = Recent
    BY <1>9, <1>13, <2>4, <2>8
  <2>12. \A k \in 1..Len(both) : both[k][1] \in 1..n
    <3>1. \A i \in 1..Len(first) : first[i][1] \in 1..n
      BY <1>4, <2>4
    <3>2. \A j \in 1..Len(lines) : lines[j][1] \in 1..n
      BY <1>4, <1>9
    <3> QED BY <2>8, <3>1, <3>2
  <2> QED BY <1>1, <1>5, <2>8, <2>10, <2>11, <2>12
<1> QED BY <1>14, <1>15

-----------------------------------------------------------------------------
(* Choosing from a sequence *)

ChooseAt(s, places, now, i) == IF i \in places THEN Append(now, s[i]) ELSE now

IsChoosing(f, s, places) ==
    f = [i \in 0..Len(s) |-> IF i = 0 THEN <<>> ELSE ChooseAt(s, places, f[i - 1], i)]

LEMMA Choosing ==
    ASSUME NEW T, NEW s \in Seq(T), NEW places
    PROVE  \E f : IsChoosing(f, s, places) /\ Chosen(s, places) = f[Len(s)]
<1>1. PICK k \in Nat : k = Len(s)
  OBVIOUS
<1>2. ASSUME NEW i \in 1..k, NEW now \in Seq(T) PROVE ChooseAt(s, places, now, i) \in Seq(T)
  <2>1. s[i] \in T
    BY <1>1
  <2> QED BY <2>1, AppendProperties DEF ChooseAt
<1>3. <<>> \in Seq(T)
  BY EmptySeq
<1>4. PICK G : /\ Steps(G, k, Seq(T))
               /\ \A i \in 1..k : \A now \in Seq(T) : G[i][now] = ChooseAt(s, places, now, i)
  <2>1. PICK U : U = Seq(T)
    OBVIOUS
  <2>2. PICK g : g = [i \in 1..k |-> [now \in U |-> ChooseAt(s, places, now, i)]]
    OBVIOUS
  <2>3. Steps(g, k, U)
    BY <1>2, <2>1, <2>2 DEF Steps
  <2> QED BY <2>1, <2>2, <2>3
<1>5. PICK f : Takes(f, G, k, Seq(T), <<>>)
  BY <1>3, <1>4, StepByStep
<1>6. \A i \in 0..k : f[i] = IF i = 0 THEN <<>> ELSE ChooseAt(s, places, f[i - 1], i)
  <2>1. ASSUME NEW i \in 1..k PROVE G[i][f[i - 1]] = ChooseAt(s, places, f[i - 1], i)
    <3>1. f[i - 1] \in Seq(T)
      BY <1>5 DEF Takes
    <3> QED BY <1>4, <3>1
  <2>2. \A i \in 0..k : i # 0 => i \in 1..k
    OBVIOUS
  <2> QED BY <1>5, <2>1, <2>2 DEF Takes
<1>7. IsChoosing(f, s, places)
  <2>1. f = [i \in 0..k |-> f[i]]
    BY <1>5 DEF Takes
  <2> QED BY <1>1, <1>6, <2>1 DEF IsChoosing
<1>8. PICK g : g = CHOOSE h : IsChoosing(h, s, places)
  OBVIOUS
<1>9. Chosen(s, places) = g[Len(s)]
  BY <1>8 DEF Chosen, IsChoosing, ChooseAt
<1> QED BY <1>7, <1>8, <1>9

\* c has the elements of s at the places that p lists.
Picks(c, s, p, T) ==
    /\ c \in Seq(T) /\ Len(c) = Len(p)
    /\ \A k \in 1..Len(p) : c[k] = s[p[k]]

\* Chosen keeps the elements at the places, in their order.
LEMMA ChosenPicks ==
    ASSUME NEW T, NEW s \in Seq(T), NEW places
    PROVE  \E p : Lists(p, {i \in 1..Len(s) : i \in places}) /\ Picks(Chosen(s, places), s, p, T)
<1>1. PICK k \in Nat : k = Len(s)
  OBVIOUS
<1>2. PICK f : IsChoosing(f, s, places) /\ Chosen(s, places) = f[k]
  BY <1>1, Choosing
<1>3. /\ f[0] = <<>>
      /\ \A i \in 1..k : f[i] = ChooseAt(s, places, f[i - 1], i)
  <2>1. 0 \in 0..k /\ \A i \in 1..k : i \in 0..k /\ i # 0
    OBVIOUS
  <2> QED BY <1>1, <1>2, <2>1 DEF IsChoosing
<1> DEFINE In(i) == {j \in 1..i : j \in places}
           S == {i \in 0..k : \E p : Lists(p, In(i)) /\ Picks(f[i], s, p, T)}
<1>4. 0 \in S
  <2>1. In(0) = {} /\ 0 \in 0..k
    OBVIOUS
  <2>2. <<>> \in Seq(T) /\ Len(<<>>) = 0 /\ \A i \in 1..0 : FALSE
    BY EmptySeq
  <2>3. Picks(<<>>, s, <<>>, T)
    BY <2>2 DEF Picks
  <2> QED BY <1>3, <2>1, <2>3, NothingListed
<1>5. ASSUME NEW i \in 1..k, i - 1 \in S PROVE i \in S
  <2>1. PICK p : Lists(p, In(i - 1)) /\ Picks(f[i - 1], s, p, T)
    BY <1>5
  <2>2. i \in 0..k /\ i \in Nat /\ \A x \in In(i - 1) : x < i
    OBVIOUS
  <2>3. CASE i \notin places
    <3>1. In(i) = In(i - 1)
      <4>1. \A j \in 1..i : j \in 1..(i - 1) \/ j = i
        OBVIOUS
      <4>2. \A j \in 1..(i - 1) : j \in 1..i
        OBVIOUS
      <4> QED BY <2>3, <4>1, <4>2
    <3>2. f[i] = f[i - 1]
      BY <1>3, <2>3 DEF ChooseAt
    <3> QED BY <2>1, <2>2, <3>1, <3>2
  <2>4. CASE i \in places
    <3>1. In(i) = In(i - 1) \cup {i}
      <4>1. \A j \in 1..i : j \in 1..(i - 1) \/ j = i
        OBVIOUS
      <4>2. i \in 1..i /\ \A j \in 1..(i - 1) : j \in 1..i
        OBVIOUS
      <4> QED BY <2>4, <4>1, <4>2
    <3>2. PICK q : q = Append(p, i)
      OBVIOUS
    <3>3. PICK m \in Nat : m = Len(p)
      BY <2>1 DEF Lists
    <3>4. /\ Lists(q, In(i)) /\ Len(q) = m + 1 /\ q[m + 1] = i
          /\ \A j \in 1..m : q[j] = p[j]
      <4> HIDE DEF In
      <4> QED BY <2>1, <2>2, <3>1, <3>2, <3>3, ListsOneMore
    <3>5. PICK old, c : old = f[i - 1] /\ c = f[i]
      OBVIOUS
    <3>6. old \in Seq(T) /\ Len(old) = m /\ \A j \in 1..m : old[j] = s[p[j]]
      BY <2>1, <3>3, <3>5 DEF Picks
    <3>7. c = Append(old, s[i])
      BY <1>3, <2>4, <3>5 DEF ChooseAt
    <3>8. s[i] \in T
      BY <1>1
    <3>9. /\ c \in Seq(T) /\ Len(c) = m + 1 /\ c[m + 1] = s[i]
          /\ \A j \in 1..m : c[j] = old[j]
      BY <3>6, <3>7, <3>8, AppendProperties
    <3>10. \A j \in 1..(m + 1) : c[j] = s[q[j]]
      <4>1. \A j \in 1..(m + 1) : j \in 1..m \/ j = m + 1
        OBVIOUS
      <4> QED BY <3>4, <3>6, <3>9, <4>1, Zenon
    <3>11. Picks(c, s, q, T)
      BY <3>4, <3>9, <3>10 DEF Picks
    <3> QED BY <2>2, <3>4, <3>5, <3>11
  <2> QED BY <2>3, <2>4
<1>6. 0..k \subseteq S
  <2> HIDE DEF S
  <2> QED BY <1>4, <1>5, BoundedInduction
<1>7. k \in 0..k
  OBVIOUS
<1>8. \E p : Lists(p, In(k)) /\ Picks(f[k], s, p, T)
  BY <1>6, <1>7
<1> QED BY <1>1, <1>2, <1>8

\* c has the elements of s at the places, in their order.
Keeps(c, s, places) ==
    /\ \A i \in 1..Len(c) : \E x \in 1..Len(s) : x \in places /\ c[i] = s[x]
    /\ \A x \in 1..Len(s) : x \in places => \E i \in 1..Len(c) : c[i] = s[x]
    /\ \A i, j \in 1..Len(c) : i < j =>
         \E x, y \in 1..Len(s) : x < y /\ x \in places /\ y \in places /\ c[i] = s[x] /\ c[j] = s[y]

LEMMA ChosenKeeps ==
    ASSUME NEW T, NEW s \in Seq(T), NEW places
    PROVE  Chosen(s, places) \in Seq(T) /\ Keeps(Chosen(s, places), s, places)
<1>1. PICK p : /\ Lists(p, {i \in 1..Len(s) : i \in places})
               /\ Picks(Chosen(s, places), s, p, T)
  BY ChosenPicks
<1>2. PICK c : c = Chosen(s, places)
  OBVIOUS
<1>3. PICK k \in Nat : k = Len(p) /\ k = Len(c)
  BY <1>1, <1>2 DEF Lists, Picks
<1>4. c \in Seq(T) /\ \A i \in 1..k : c[i] = s[p[i]]
  BY <1>1, <1>2, <1>3 DEF Picks
<1>5. PICK z \in Nat : z = Len(s)
  OBVIOUS
<1>6. /\ \A i \in 1..k : p[i] \in 1..z /\ p[i] \in places
      /\ \A x \in 1..z : x \in places => \E i \in 1..k : p[i] = x
      /\ \A i, j \in 1..k : i < j => p[i] < p[j]
  <2>1. {i \in 1..z : i \in places} = {p[i] : i \in 1..k}
    BY <1>1, <1>3, <1>5 DEF Lists
  <2>2. \A i, j \in 1..k : i < j => p[i] < p[j]
    BY <1>1, <1>3 DEF Lists
  <2> QED BY <2>1, <2>2
<1>7. Keeps(c, s, places)
  <2>1. ASSUME NEW i \in 1..k, NEW j \in 1..k, i < j
        PROVE  \E x, y \in 1..z : x < y /\ x \in places /\ y \in places /\ c[i] = s[x] /\ c[j] = s[y]
    BY <1>4, <1>6, <2>1
  <2>2. ASSUME NEW x \in 1..z, x \in places PROVE \E i \in 1..k : c[i] = s[x]
    BY <1>4, <1>6, <2>2
  <2> QED BY <1>3, <1>4, <1>5, <1>6, <2>1, <2>2 DEF Keeps
<1> QED BY <1>2, <1>4, <1>7

-----------------------------------------------------------------------------
(* What is shown *)

Shown == [entry : Nat, tokens : SUBSET {"timed_out", "raw_exit", "n"}]

\* A view in the order of its entries, with only the tokens an AI may see.
Fit(v) ==
    /\ v \in Seq(Shown)
    /\ \A k \in 1..Len(v) : v[k].entry \in 1..Len(entry) /\ v[k].tokens \subseteq {"timed_out", "n"}
    /\ \A i, j \in 1..Len(v) : i < j => v[i].entry < v[j].entry

EntriesOf(v) == {v[k].entry : k \in 1..Len(v)}

LEMMA VisibleIsFit ==
    ASSUME TailInv, NEW e \in 1..Len(entry), entry[e].caller = "mcp"
    PROVE  Visible(e) \subseteq {"timed_out", "n"}
<1>1. PICK x : x = entry[e]
  OBVIOUS
<1>2. \/ x.action = "mcp_run" /\ x.tokens = {"timed_out", "raw_exit"}
      \/ x.action = "audit_tail" /\ x.tokens = {"n"}
  BY <1>1 DEF TailInv, SaysItsKind
<1>3. CASE x.action = "mcp_run" /\ x.tokens = {"timed_out", "raw_exit"}
  <2>1. Visible(e) = x.tokens \cap Allowed
    BY <1>1, <1>3 DEF Visible
  <2> QED BY <2>1 DEF Allowed
<1>4. CASE x.action = "audit_tail" /\ x.tokens = {"n"}
  <2>1. Visible(e) = x.tokens
    BY <1>1, <1>4 DEF Visible
  <2> QED BY <1>4, <2>1
<1> QED BY <1>2, <1>3, <1>4

\* FilterLines shows the records of MCP callers.
LEMMA FilterExact ==
    ASSUME TailInv, NEW lines, Ascending(lines),
           \A k \in 1..Len(lines) : lines[k][1] \in 1..Len(entry)
    PROVE  /\ Fit(FilterLines(lines))
           /\ EntriesOf(FilterLines(lines)) = {e \in RecordsOf(lines) : entry[e].caller = "mcp"}
<1>1. PICK n \in Nat : n = Len(entry)
  <2>1. entry \in Seq(Entries)
    BY DEF TailInv
  <2> QED BY <2>1
<1>2. PICK z \in Nat : z = Len(lines) /\ DOMAIN lines = 1..z
  BY DEF Ascending
<1>3. PICK places : places = {i \in 1..z : IsRecord(lines[i]) /\ entry[lines[i][1]].caller = "mcp"}
  OBVIOUS
<1>4. PICK c : c = Chosen(lines, places)
  OBVIOUS
<1>5. c \in Seq(Texts) /\ Keeps(c, lines, places)
  BY <1>4, ChosenKeeps DEF Ascending
<1>6. PICK k \in Nat : k = Len(c) /\ DOMAIN c = 1..k
  BY <1>5
<1>7. PICK v : v = [i \in 1..k |-> [entry |-> c[i][1], tokens |-> Visible(c[i][1])]]
  OBVIOUS
<1>8. FilterLines(lines) = v
  BY <1>2, <1>3, <1>4, <1>6, <1>7, Zenon DEF FilterLines
<1>9. /\ \A i \in 1..k : \E x \in 1..z : x \in places /\ c[i] = lines[x]
      /\ \A x \in 1..z : x \in places => \E i \in 1..k : c[i] = lines[x]
      /\ \A i, j \in 1..k : i < j => \E x, y \in 1..z : x < y /\ c[i] = lines[x] /\ c[j] = lines[y]
  BY <1>2, <1>5, <1>6 DEF Keeps
<1>10. ASSUME NEW i \in 1..k
       PROVE  /\ c[i][1] \in 1..n /\ c[i][1] \in Nat /\ Visible(c[i][1]) \subseteq {"timed_out", "n"}
              /\ c[i][1] \in {e \in RecordsOf(lines) : entry[e].caller = "mcp"}
  <2>1. PICK x \in 1..z : x \in places /\ c[i] = lines[x]
    BY <1>9
  <2>2. lines[x][1] \in 1..n /\ IsRecord(lines[x]) /\ entry[lines[x][1]].caller = "mcp"
    BY <1>1, <1>2, <1>3, <2>1
  <2>3. Visible(lines[x][1]) \subseteq {"timed_out", "n"}
    BY <1>1, <2>2, VisibleIsFit
  <2>4. lines[x][1] \in RecordsOf(lines)
    BY <1>2, <2>2 DEF RecordsOf
  <2> QED BY <2>1, <2>2, <2>3, <2>4
<1>11. \A i \in 1..k : /\ v[i] = [entry |-> c[i][1], tokens |-> Visible(c[i][1])]
                       /\ v[i].entry = c[i][1] /\ v[i].tokens = Visible(c[i][1])
  BY <1>7
<1>12. v \in Seq(Shown) /\ Len(v) = k
  <2>1. ASSUME NEW i \in 1..k PROVE v[i] \in Shown
    <3>1. PICK x, y : x = c[i][1] /\ y = Visible(c[i][1])
      OBVIOUS
    <3>2. x \in Nat /\ y \in SUBSET {"timed_out", "raw_exit", "n"}
      BY <1>10, <3>1
    <3>3. v[i] = [entry |-> x, tokens |-> y]
      BY <1>11, <3>1, Zenon
    <3> QED BY <3>2, <3>3 DEF Shown
  <2>2. v \in [1..k -> Shown]
    BY <1>7, <2>1
  <2> QED BY <2>2, SeqDef, LenProperties
<1>13. ASSUME NEW i \in 1..k, NEW j \in 1..k, i < j PROVE v[i].entry < v[j].entry
  <2>1. PICK x \in 1..z, y \in 1..z : x < y /\ c[i] = lines[x] /\ c[j] = lines[y]
    BY <1>9, <1>13
  <2>2. lines[x][1] < lines[y][1]
    BY <1>2, <2>1 DEF Ascending
  <2> QED BY <1>11, <2>1, <2>2
<1>14. Fit(v)
  <2>1. \A i \in 1..k : v[i].entry \in 1..n /\ v[i].tokens \subseteq {"timed_out", "n"}
    BY <1>10, <1>11, Zenon
  <2> QED BY <1>1, <1>12, <1>13, <2>1 DEF Fit
<1>15. EntriesOf(v) = {e \in RecordsOf(lines) : entry[e].caller = "mcp"}
  <2>1. EntriesOf(v) = {c[i][1] : i \in 1..k}
    BY <1>11, <1>12 DEF EntriesOf
  <2>2. ASSUME NEW e \in RecordsOf(lines), entry[e].caller = "mcp" PROVE \E i \in 1..k : e = c[i][1]
    <3>1. PICK x \in 1..z : e = lines[x][1] /\ IsRecord(lines[x])
      BY <1>2 DEF RecordsOf
    <3>2. x \in places
      BY <1>3, <2>2, <3>1
    <3> QED BY <1>9, <3>1, <3>2
  <2> QED BY <1>10, <2>1, <2>2
<1> QED BY <1>8, <1>14, <1>15

\* StripSelf takes out the entry that carries the call's nonce, and nothing if it has none.
LEMMA StripExact ==
    ASSUME TailInv, NEW v, Fit(v), NEW own
    PROVE  /\ Fit(StripSelf(v, own))
           /\ EntriesOf(StripSelf(v, own)) = {e \in EntriesOf(v) : own = "" \/ entry[e].nonce # own}
<1>1. CASE own = ""
  BY <1>1 DEF StripSelf
<1>2. CASE own # ""
  <2>1. PICK m \in Nat : m = Len(v) /\ DOMAIN v = 1..m
    BY DEF Fit
  <2>2. PICK places : places = {i \in 1..m : ~(/\ entry[v[i].entry].action = "audit_tail"
                                               /\ entry[v[i].entry].nonce = own)}
    OBVIOUS
  <2>3. PICK w : w = Chosen(v, places)
    OBVIOUS
  <2>4. StripSelf(v, own) = w
    BY <1>2, <2>1, <2>2, <2>3, Zenon DEF StripSelf
  <2>5. w \in Seq(Shown) /\ Keeps(w, v, places)
    BY <2>3, ChosenKeeps DEF Fit
  <2>6. PICK k \in Nat : k = Len(w)
    BY <2>5
  <2>7. /\ \A i \in 1..k : \E x \in 1..m : x \in places /\ w[i] = v[x]
        /\ \A x \in 1..m : x \in places => \E i \in 1..k : w[i] = v[x]
        /\ \A i, j \in 1..k : i < j => \E x, y \in 1..m : x < y /\ w[i] = v[x] /\ w[j] = v[y]
    BY <2>1, <2>5, <2>6 DEF Keeps
  <2>8. /\ \A x \in 1..m : v[x].entry \in 1..Len(entry) /\ v[x].tokens \subseteq {"timed_out", "n"}
        /\ \A x, y \in 1..m : x < y => v[x].entry < v[y].entry
    BY <2>1 DEF Fit
  <2>9. \A i \in 1..k : w[i].entry \in 1..Len(entry) /\ w[i].tokens \subseteq {"timed_out", "n"}
    <3>1. ASSUME NEW i \in 1..k
          PROVE  w[i].entry \in 1..Len(entry) /\ w[i].tokens \subseteq {"timed_out", "n"}
      <4>1. PICK x \in 1..m : w[i] = v[x]
        BY <2>7
      <4> QED BY <2>8, <4>1, Zenon
    <3> QED BY <3>1
  <2>10. \A i, j \in 1..k : i < j => w[i].entry < w[j].entry
    <3>1. ASSUME NEW i \in 1..k, NEW j \in 1..k, i < j PROVE w[i].entry < w[j].entry
      <4>1. PICK x \in 1..m, y \in 1..m : x < y /\ w[i] = v[x] /\ w[j] = v[y]
        BY <2>7, <3>1, Zenon
      <4>2. v[x].entry < v[y].entry
        BY <2>8, <4>1, Zenon
      <4> QED BY <4>1, <4>2, Zenon
    <3> QED BY <3>1, Zenon
  <2>11. Fit(w)
    BY <2>5, <2>6, <2>9, <2>10 DEF Fit
  <2>12. \A x \in 1..m : x \in places <=> entry[v[x].entry].nonce # own
    <3>1. \A e \in 1..Len(entry) : entry[e].action # "audit_tail" => entry[e].nonce # own
      BY <1>2 DEF TailInv, SaysItsKind
    <3>2. ASSUME NEW x \in 1..m PROVE x \in places <=> entry[v[x].entry].nonce # own
      <4>1. v[x].entry \in 1..Len(entry)
        BY <2>8
      <4> QED BY <2>2, <3>1, <4>1, Zenon
    <3> QED BY <3>2
  <2>13. EntriesOf(w) = {w[i].entry : i \in 1..k} /\ EntriesOf(v) = {v[x].entry : x \in 1..m}
    BY <2>1, <2>6 DEF EntriesOf
  <2>14. EntriesOf(w) = {e \in EntriesOf(v) : entry[e].nonce # own}
    <3>1. ASSUME NEW i \in 1..k
          PROVE  w[i].entry \in EntriesOf(v) /\ entry[w[i].entry].nonce # own
      <4>1. PICK x \in 1..m : x \in places /\ w[i] = v[x]
        BY <2>7
      <4> QED BY <2>12, <2>13, <4>1, Zenon
    <3>2. ASSUME NEW e \in EntriesOf(v), entry[e].nonce # own PROVE e \in EntriesOf(w)
      <4>1. PICK x \in 1..m : e = v[x].entry
        BY <2>13
      <4>2. PICK i \in 1..k : w[i] = v[x]
        BY <2>7, <2>12, <3>2, <4>1
      <4> QED BY <2>13, <4>1, <4>2, Zenon
    <3> QED BY <2>13, <3>1, <3>2
  <2> QED BY <1>2, <2>4, <2>11, <2>14
<1> QED BY <1>1, <1>2

\* A fit view lists its entries.
LEMMA FitLists ==
    ASSUME TailInv, NEW v, Fit(v)
    PROVE  \E b : Lists(b, EntriesOf(v)) /\ Len(b) = Len(v) /\ \A k \in 1..Len(v) : b[k] = v[k].entry
<1>1. PICK m \in Nat : m = Len(v)
  BY DEF Fit
<1>2. PICK b : b = [k \in 1..m |-> v[k].entry]
  OBVIOUS
<1>3. \A k \in 1..m : b[k] = v[k].entry
  BY <1>2
<1>4. \A k \in 1..m : v[k].entry \in Nat
  <2>1. PICK n \in Nat : n = Len(entry)
    <3>1. entry \in Seq(Entries)
      BY DEF TailInv
    <3> QED BY <3>1
  <2>2. \A k \in 1..m : v[k].entry \in 1..n
    BY <1>1, <2>1 DEF Fit
  <2> QED BY <2>2
<1>5. b \in Seq(Nat) /\ Len(b) = m
  <2>1. b \in [1..m -> Nat]
    BY <1>2, <1>4
  <2> QED BY <2>1, SeqDef, LenProperties
<1>6. \A i, j \in 1..m : i < j => b[i] < b[j]
  BY <1>1, <1>3 DEF Fit
<1>7. EntriesOf(v) = {b[k] : k \in 1..m}
  BY <1>1, <1>3 DEF EntriesOf
<1>8. Lists(b, EntriesOf(v))
  BY <1>5, <1>6, <1>7 DEF Lists
<1> QED BY <1>1, <1>3, <1>5, <1>8

\* LastOf keeps the newest.
LEMMA LastExact ==
    ASSUME TailInv, NEW v, Fit(v), NEW n \in Nat
    PROVE  /\ Fit(LastOf(v, n))
           /\ EntriesOf(LastOf(v, n)) = Newest(EntriesOf(v), n)
           /\ Len(LastOf(v, n)) = Cardinality(EntriesOf(LastOf(v, n)))
<1>1. PICK m \in Nat : m = Len(v)
  BY DEF Fit
<1>2. PICK b : Lists(b, EntriesOf(v)) /\ Len(b) = m /\ \A k \in 1..m : b[k] = v[k].entry
  BY <1>1, FitLists
<1>3. Newest(EntriesOf(v), n) = {b[j] : j \in {k \in 1..m : k > m - n}}
  BY <1>2, NewestListed
<1>4. PICK w : w = LastOf(v, n)
  OBVIOUS
<1>5. Fit(w) /\ EntriesOf(w) = {b[j] : j \in {k \in 1..m : k > m - n}}
  <2>1. CASE m <= n
    <3>1. w = v
      BY <1>1, <1>4, <2>1, LastOfShort
    <3>2. {k \in 1..m : k > m - n} = 1..m
      BY <2>1
    <3>3. EntriesOf(v) = {b[j] : j \in 1..m}
      BY <1>2 DEF Lists
    <3> QED BY <3>1, <3>2, <3>3
  <2>2. CASE ~(m <= n)
    <3>1. PICK l \in 1..(m + 1) : l = m - n + 1
      BY <2>2
    <3>2. w = SubSeq(v, l, m)
      BY <1>1, <1>4, <2>2, <3>1, Zenon DEF LastOf
    <3>3. l \in Int /\ m \in Int /\ \A i \in l..m : v[i] \in Shown
      <4>1. \A i \in 1..m : v[i] \in Shown
        BY <1>1 DEF Fit
      <4>2. \A i \in l..m : i \in 1..m
        OBVIOUS
      <4> QED BY <4>1, <4>2
    <3>4. PICK x : x = l - 1
      OBVIOUS
    <3>5. w \in Seq(Shown) /\ Len(w) = n /\ \A i \in 1..n : w[i] = v[i + x]
      <4>1. /\ w \in Seq(Shown) /\ Len(w) = IF l <= m THEN m - l + 1 ELSE 0
            /\ \A i \in 1..(m - l + 1) : w[i] = v[l + i - 1]
        <5>1. \A i \in l..m : v[i] \in Shown
          BY <3>3
        <5>2. /\ SubSeq(v, l, m) \in Seq(Shown)
              /\ Len(SubSeq(v, l, m)) = IF l <= m THEN m - l + 1 ELSE 0
              /\ \A i \in 1..(m - l + 1) : SubSeq(v, l, m)[i] = v[l + i - 1]
          BY <3>3, <5>1, SubSeqProperties
        <5> QED BY <3>2, <5>2, Zenon
      <4>2. /\ m - l + 1 = n /\ (IF l <= m THEN m - l + 1 ELSE 0) = n
            /\ \A i \in 1..n : l + i - 1 = i + x
        BY <3>1, <3>4
      <4> QED BY <4>1, <4>2, Zenon
    <3>6. \A i \in 1..n : i + x \in 1..m /\ i + x > m - n
      BY <3>1, <3>4, <2>2
    <3>7. \A i, j \in 1..n : i < j => i + x < j + x
      BY <3>1, <3>4
    <3>8. \A k \in 1..m : k > m - n => \E i \in 1..n : k = i + x
      <4>1. ASSUME NEW k \in 1..m, k > m - n PROVE \E i \in 1..n : k = i + x
        <5>1. k - x \in 1..n /\ k = (k - x) + x
          BY <2>2, <3>1, <3>4, <4>1
        <5> QED BY <5>1
      <4> QED BY <4>1
    <3>9. Fit(w)
      <4>1. \A i \in 1..m : v[i].entry \in 1..Len(entry) /\ v[i].tokens \subseteq {"timed_out", "n"}
        BY <1>1 DEF Fit
      <4>2. \A i, j \in 1..m : i < j => v[i].entry < v[j].entry
        BY <1>1 DEF Fit
      <4>3. \A i \in 1..n : w[i].entry \in 1..Len(entry) /\ w[i].tokens \subseteq {"timed_out", "n"}
        BY <3>5, <3>6, <4>1, Zenon
      <4>4. \A i, j \in 1..n : i < j => w[i].entry < w[j].entry
        BY <3>5, <3>6, <3>7, <4>2, Zenon
      <4> QED BY <3>5, <4>3, <4>4, Zenon DEF Fit
    <3>10. \A i \in 1..n : w[i].entry = b[i + x]
      BY <1>2, <3>5, <3>6, Zenon
    <3>11. EntriesOf(w) = {w[i].entry : i \in 1..n}
      BY <3>5, Zenon DEF EntriesOf
    <3> QED BY <3>6, <3>8, <3>9, <3>10, <3>11
  <2> QED BY <2>1, <2>2
<1>6. Len(w) = Cardinality(EntriesOf(w))
  <2>1. PICK a : Lists(a, EntriesOf(w)) /\ Len(a) = Len(w)
    BY <1>5, FitLists
  <2> QED BY <2>1, NewestListed
<1> QED BY <1>3, <1>4, <1>5, <1>6

-----------------------------------------------------------------------------
(* A call *)

\* What a call that returns puts together is the newest of what is due.
LEMMA ViewIsDue ==
    ASSUME TailInv, NEW r \in Readers,
           NEW w, w = LastOf(StripSelf(FilterLines(TailLines(Most)), nonce[r]), limit[r])
    PROVE  /\ Fit(w) /\ EntriesOf(w) = Newest(Due(r), limit[r])
           /\ Len(w) = Cardinality(Newest(Due(r), limit[r]))
<1>1. PICK lines : lines = TailLines(Most)
  OBVIOUS
<1>2. /\ Ascending(lines) /\ RecordsOf(lines) = Recent
      /\ \A k \in 1..Len(lines) : lines[k][1] \in 1..Len(entry)
  BY <1>1, TailLinesAreRecent
<1>3. PICK v : v = FilterLines(lines)
  OBVIOUS
<1>4. Fit(v) /\ EntriesOf(v) = {e \in Recent : entry[e].caller = "mcp"}
  BY <1>2, <1>3, FilterExact
<1>5. PICK u : u = StripSelf(v, nonce[r])
  OBVIOUS
<1>6. Fit(u) /\ EntriesOf(u) = {e \in EntriesOf(v) : nonce[r] = "" \/ entry[e].nonce # nonce[r]}
  <2>1. PICK own : own = nonce[r]
    OBVIOUS
  <2>2. /\ Fit(StripSelf(v, own))
        /\ EntriesOf(StripSelf(v, own)) = {e \in EntriesOf(v) : own = "" \/ entry[e].nonce # own}
    BY <1>4, StripExact
  <2> QED BY <1>5, <2>1, <2>2
<1>7. EntriesOf(u) = Due(r)
  BY <1>4, <1>6 DEF Due
<1>8. limit[r] \in Nat /\ w = LastOf(u, limit[r])
  BY <1>1, <1>3, <1>5 DEF TailInv
<1>9. Fit(w) /\ EntriesOf(w) = Newest(EntriesOf(u), limit[r]) /\ Len(w) = Cardinality(EntriesOf(w))
  BY <1>6, <1>8, LastExact
<1> QED BY <1>7, <1>9

\* Only ReturnTail takes a call from reading to returned.
LEMMA ReturnedByTail ==
    ASSUME TailInv, [TailNext]_tailVars, NEW r \in Readers,
           reader[r] = "reading", reader'[r] = "returned"
    PROVE  view'[r] = LastOf(StripSelf(FilterLines(TailLines(Most)), nonce[r]), limit[r])
<1>1. DOMAIN reader = Readers /\ DOMAIN view = Readers
  BY DEF TailInv
<1>2. CASE OtherAppends
  BY <1>2 DEF OtherAppends
<1>3. ASSUME NEW s \in Readers, AskTail(s) PROVE FALSE
  <2>1. reader' = [reader EXCEPT ![s] = "recording"]
    BY <1>3 DEF AskTail
  <2>2. reader'[r] = IF r = s THEN "recording" ELSE reader[r]
    BY <1>1, <2>1
  <2> QED BY <2>2
<1>4. ASSUME NEW s \in Readers, RecordRead(s) PROVE FALSE
  <2>1. reader' = [reader EXCEPT ![s] = "reading"]
    BY <1>4 DEF RecordRead
  <2>2. reader'[r] = IF r = s THEN "reading" ELSE reader[r]
    BY <1>1, <2>1
  <2> QED BY <2>2
<1>5. ASSUME NEW s \in Readers, ReturnTail(s)
      PROVE  view'[r] = LastOf(StripSelf(FilterLines(TailLines(Most)), nonce[r]), limit[r])
  <2>1. CASE reader' = [reader EXCEPT ![s] = "failed"]
    <3>1. reader'[r] = IF r = s THEN "failed" ELSE reader[r]
      BY <1>1, <2>1
    <3> QED BY <3>1
  <2>2. CASE /\ reader' = [reader EXCEPT ![s] = "returned"]
             /\ view' = [view EXCEPT ![s] =
                           LastOf(StripSelf(FilterLines(TailLines(Most)), nonce[s]), limit[s])]
    <3>1. reader'[r] = IF r = s THEN "returned" ELSE reader[r]
      BY <1>1, <2>2
    <3>2. r = s
      BY <3>1
    <3>3. PICK x : x = LastOf(StripSelf(FilterLines(TailLines(Most)), nonce[s]), limit[s])
      OBVIOUS
    <3>4. view' = [view EXCEPT ![s] = x]
      BY <2>2, <3>3, Zenon
    <3>5. view'[r] = x
      BY <1>1, <3>2, <3>4
    <3> QED BY <3>2, <3>3, <3>5, Zenon
  <2> QED BY <1>5, <2>1, <2>2, Zenon DEF ReturnTail
<1>6. CASE UNCHANGED tailVars
  BY <1>6 DEF tailVars
<1> QED BY <1>2, <1>3, <1>4, <1>5, <1>6 DEF TailNext

LEMMA TailViewStep ==
    ASSUME TailInv, [TailNext]_tailVars, NEW r \in Readers,
           reader[r] = "reading", reader'[r] = "returned"
    PROVE  LET due == {e \in Due(r) : Cardinality({f \in Due(r) : f > e}) < limit[r]} IN
           /\ Len(view'[r]) = Cardinality(due)
           /\ \A i \in DOMAIN view'[r] :
                /\ view'[r][i].entry \in due
                /\ view'[r][i].tokens \subseteq {"timed_out", "n"}
                /\ \A j \in DOMAIN view'[r] : i < j => view'[r][i].entry < view'[r][j].entry
<1>1. PICK w : w = LastOf(StripSelf(FilterLines(TailLines(Most)), nonce[r]), limit[r])
  OBVIOUS
<1>2. PICK v : v = view'[r]
  OBVIOUS
<1>3. v = w
  BY <1>1, <1>2, ReturnedByTail, Zenon
<1>4. PICK due : due = {e \in Due(r) : Cardinality({f \in Due(r) : f > e}) < limit[r]}
  OBVIOUS
<1>5. Fit(v) /\ EntriesOf(v) = due /\ Len(v) = Cardinality(due)
  <2>1. Newest(Due(r), limit[r]) = due
    BY <1>4, Zenon DEF Newest
  <2> QED BY <1>1, <1>3, <2>1, ViewIsDue
<1>6. PICK k \in Nat : k = Len(v) /\ DOMAIN v = 1..k
  BY <1>5 DEF Fit
<1>7. \A i \in 1..k : /\ v[i].entry \in due /\ v[i].tokens \subseteq {"timed_out", "n"}
                      /\ \A j \in 1..k : i < j => v[i].entry < v[j].entry
  BY <1>5, <1>6 DEF Fit, EntriesOf
<1> QED BY <1>2, <1>4, <1>5, <1>6, <1>7, Zenon

\* What an audit_tail call returns is exactly what is due: of the entries whose record is whole
\* and recent, those of MCP callers but its own, the last n in the order they were written, with
\* only the tokens an AI may see (mcp_audit_tail.go:47-84, readAuditTail), for every number of
\* calls and writers, size of a block, a file, an entry and a window, and wherever a write stopped.
THEOREM TailViewsAreExact == TailSpec => TailViewIsExact
<1>1. TailInv /\ [TailNext]_tailVars
      => [\A r \in Readers : reader[r] = "reading" /\ reader'[r] = "returned" =>
            LET due == {e \in Due(r) : Cardinality({f \in Due(r) : f > e}) < limit[r]} IN
            /\ Len(view'[r]) = Cardinality(due)
            /\ \A i \in DOMAIN view'[r] :
                 /\ view'[r][i].entry \in due
                 /\ view'[r][i].tokens \subseteq {"timed_out", "n"}
                 /\ \A j \in DOMAIN view'[r] : i < j => view'[r][i].entry < view'[r][j].entry]_tailVars
  BY TailViewStep
<1> QED BY <1>1, TailInvHolds, PTL DEF TailSpec, TailViewIsExact

=============================================================================
