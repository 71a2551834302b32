------------------------ MODULE RedactorExactProofs ------------------------
(***************************************************************************)
(* Proofs about RedactorExact: when no two forms of secrets can share a    *)
(* byte, what the reader of a stream gets is the redaction of the child's  *)
(* whole output, up to the cap, however that output was cut into pieces.   *)
(***************************************************************************)
EXTENDS RedactorExact, RedactorProofs, SequenceTheorems, WellFoundedInduction, TLAPS

(* The reference is a function defined step by step *)

\* Induction over the natural numbers, for a set of them.
LEMMA SetInduction ==
    ASSUME NEW S, 0 \in S, \A n \in Nat : n \in S => n + 1 \in S
    PROVE  Nat \subseteq S
<1>1. SUFFICES ASSUME Nat \ S # {} PROVE FALSE
  OBVIOUS
<1>2. PICK n \in Nat \ S : \A m \in Nat \ S : ~(<<m, n>> \in OpToRel(<, Nat))
  BY <1>1, NatLessThanWellFounded, WFMin, Zenon
<1>3. n \in Nat /\ n - 1 \in Nat /\ n - 1 < n /\ n - 1 + 1 = n
  OBVIOUS
<1>4. <<n - 1, n>> \in OpToRel(<, Nat)
  BY <1>3, Zenon DEF OpToRel
<1>5. n - 1 \in S
  BY <1>2, <1>3, <1>4, Zenon
<1> QED BY <1>3, <1>5, Zenon

\* What Redaction's definition says of its first k + 1 values.
Upto(h, k, forms, text) ==
    h = [n \in 0..k |-> IF n = 0 THEN <<>> ELSE h[n - 1] \o Piece(forms, text, n)]

\* Such a function exists, so that Redaction is what its definition says.
LEMMA UptoExists ==
    ASSUME NEW forms, NEW text
    PROVE  \A k \in Nat : \E h : Upto(h, k, forms, text)
<1> DEFINE T == {k \in Nat : \E h : Upto(h, k, forms, text)}
<1>1. 0 \in T
  <2> DEFINE h == [n \in 0..0 |-> <<>>]
  <2>1. h = [n \in 0..0 |-> IF n = 0 THEN <<>> ELSE h[n - 1] \o Piece(forms, text, n)]
    OBVIOUS
  <2> QED BY <2>1 DEF Upto
<1>2. ASSUME NEW k \in Nat, k \in T PROVE k + 1 \in T
  <2>1. PICK h : Upto(h, k, forms, text)
    BY <1>2
  <2>2. \A n \in 0..k : h[n] = IF n = 0 THEN <<>> ELSE h[n - 1] \o Piece(forms, text, n)
    BY <2>1 DEF Upto
  <2>3. PICK e : e = [n \in 0..(k + 1) |-> IF n = k + 1 THEN h[k] \o Piece(forms, text, n) ELSE h[n]]
    OBVIOUS
  <2>4. ASSUME NEW n \in 0..(k + 1)
        PROVE  e[n] = IF n = 0 THEN <<>> ELSE e[n - 1] \o Piece(forms, text, n)
    <3>1. CASE n = 0
      <4>1. n \in 0..k /\ n # k + 1
        BY <3>1
      <4> QED BY <2>2, <2>3, <3>1, <4>1
    <3>2. CASE n \in 1..k
      <4>1. n \in 0..k /\ n - 1 \in 0..k /\ n # k + 1 /\ n - 1 # k + 1 /\ n - 1 \in 0..(k + 1) /\ n # 0
        BY <3>2
      <4>2. e[n] = h[n] /\ e[n - 1] = h[n - 1]
        BY <2>3, <4>1
      <4> QED BY <2>2, <4>1, <4>2
    <3>3. CASE n = k + 1
      <4>1. n - 1 = k /\ k \in 0..(k + 1) /\ k # k + 1 /\ n # 0
        BY <3>3
      <4>2. e[k] = h[k] /\ e[n] = h[k] \o Piece(forms, text, n)
        BY <2>3, <3>3, <4>1
      <4> QED BY <4>1, <4>2
    <3> QED BY <3>1, <3>2, <3>3
  <2>5. e = [n \in 0..(k + 1) |-> e[n]]
    BY <2>3
  <2>6. e = [n \in 0..(k + 1) |-> IF n = 0 THEN <<>> ELSE e[n - 1] \o Piece(forms, text, n)]
    BY <2>4, <2>5
  <2>7. k + 1 \in Nat
    OBVIOUS
  <2> QED BY <2>6, <2>7 DEF Upto
<1> HIDE DEF T
<1>3. Nat \subseteq T
  BY <1>1, <1>2, SetInduction
<1> QED BY <1>3 DEF T

LEMMA RedactionIsUpto ==
    ASSUME NEW forms, NEW text \in Strings
    PROVE  Upto(Redaction(forms, text), Len(text), forms, text)
<1>1. \E h : Upto(h, Len(text), forms, text)
  <2>1. Len(text) \in Nat
    BY DEF Strings
  <2> QED BY <2>1, UptoExists
<1>2. Redaction(forms, text) = CHOOSE h : Upto(h, Len(text), forms, text)
  BY DEF Redaction, Upto
<1> QED BY <1>1, <1>2

-----------------------------------------------------------------------------
(* Forms in a text *)

\* Disjoint, of any set of forms.
Apart(forms) ==
    \A p, q \in forms : \A d \in 1..Len(p.value) :
        Agrees(p.value, d, q.value) => p = q /\ d = 1

\* Inside an occurrence of a form no other form begins, nor seems to.
LEMMA NoneWithin ==
    ASSUME NEW forms \in SUBSET PatternType, Apart(forms), NEW text \in Strings,
           NEW p \in forms, NEW q \in forms, NEW j \in Nat, NEW i \in Nat,
           1 <= j, j <= i, i <= j + Len(p.value) - 1,
           Occurs(text, j, p.value), Agrees(text, i, q.value)
    PROVE  p = q /\ i = j
<1>1. /\ Len(text) \in Nat /\ Len(p.value) \in Nat /\ Len(q.value) \in Nat
      /\ j + Len(p.value) - 1 <= Len(text)
  BY DEF PatternType, Strings, Occurs
<1>2. PICK d \in 1..Len(p.value) : d = i - j + 1
  BY <1>1
<1>3. ASSUME NEW k \in 1..Len(q.value), d + k - 1 <= Len(p.value)
      PROVE  p.value[d + k - 1] = q.value[k]
  <2>1. d + k - 1 \in 1..Len(p.value) /\ j + (d + k - 1) - 1 = i + k - 1 /\ i + k - 1 <= Len(text)
    BY <1>1, <1>2, <1>3
  <2>2. p.value[d + k - 1] = text[i + k - 1]
    BY <2>1 DEF Occurs, Agrees
  <2>3. text[i + k - 1] = q.value[k]
    BY <2>1 DEF Agrees
  <2> QED BY <2>2, <2>3
<1>4. Agrees(p.value, d, q.value)
  BY <1>3 DEF Agrees
<1>5. p = q /\ d = 1
  BY <1>4 DEF Apart
<1> QED BY <1>1, <1>2, <1>5

\* Of forms that are apart, at most one occurs at a position, and it is replaced.
LEMMA OneForm ==
    ASSUME NEW forms \in SUBSET PatternType, Apart(forms), NEW text \in Strings,
           NEW i \in 1..Len(text), NEW p \in Occurrences(forms, text, i)
    PROVE  /\ Occurrences(forms, text, i) = {p}
           /\ Longest(Occurrences(forms, text, i)) = {p}
           /\ p.name \in Names
           /\ Piece(forms, text, i) = Token(p.name, i)
<1>1. /\ p \in forms /\ Occurs(text, i, p.value) /\ p.name \in Names
      /\ p.value \in Strings /\ p.value # <<>>
  BY DEF Occurrences, PatternType
<1>2. i \in Nat /\ 1 <= i /\ Len(p.value) \in Nat /\ i <= i + Len(p.value) - 1
  <2>1. Len(text) \in Nat /\ Len(p.value) \in Nat /\ Len(p.value) # 0
    BY <1>1 DEF Strings
  <2> QED BY <2>1
<1>3. \A q \in Occurrences(forms, text, i) : q = p
  BY <1>1, <1>2, NoneWithin DEF Occurrences, Occurs
<1>4. Occurrences(forms, text, i) = {p}
  BY <1>3
<1>5. Longest({p}) = {p}
  BY <1>2 DEF Longest
<1>6. (CHOOSE q \in {p} : TRUE) = p
  OBVIOUS
<1> QED BY <1>1, <1>4, <1>5, <1>6 DEF Piece

\* What becomes of a byte is output.
LEMMA PieceType ==
    ASSUME NEW forms \in SUBSET PatternType, Apart(forms), NEW text \in Strings,
           NEW i \in 1..Len(text)
    PROVE  Piece(forms, text, i) \in Seq(Output)
<1>1. i \in Nat /\ text[i] \in Bytes
  BY DEF Strings
<1>2. CASE \E p : p \in Occurrences(forms, text, i)
  BY <1>1, <1>2, OneForm, TokenType
<1>3. CASE Occurrences(forms, text, i) = {}
  <2>1. <<text[i]>> \in Strings
    BY <1>1 DEF Strings
  <2>2. Plain(<<text[i]>>, i) \in Seq(Output)
    BY <1>1, <2>1, PlainType
  <2> QED BY <1>3, <2>2 DEF Piece
<1> QED BY <1>2, <1>3

\* The redaction of the first n bytes, from that of the first n - 1.
LEMMA RedactionSteps ==
    ASSUME NEW forms \in SUBSET PatternType, Apart(forms), NEW text \in Strings
    PROVE  /\ Redaction(forms, text)[0] = <<>>
           /\ \A n \in 1..Len(text) :
                 Redaction(forms, text)[n] = Redaction(forms, text)[n - 1] \o Piece(forms, text, n)
           /\ \A n \in 0..Len(text) : Redaction(forms, text)[n] \in Seq(Output)
<1>1. PICK f : f = Redaction(forms, text)
  OBVIOUS
<1>2. Len(text) \in Nat
  BY DEF Strings
<1>3. f = [n \in 0..Len(text) |-> IF n = 0 THEN <<>> ELSE f[n - 1] \o Piece(forms, text, n)]
  BY <1>1, RedactionIsUpto DEF Upto
<1>4. f[0] = <<>> /\ \A n \in 1..Len(text) : f[n] = f[n - 1] \o Piece(forms, text, n)
  <2>1. 0 \in 0..Len(text) /\ \A n \in 1..Len(text) : n \in 0..Len(text) /\ n # 0
    BY <1>2
  <2>2. \A n \in 0..Len(text) : f[n] = IF n = 0 THEN <<>> ELSE f[n - 1] \o Piece(forms, text, n)
    BY <1>3, Zenon
  <2> QED BY <2>1, <2>2, Zenon
<1> DEFINE T == {k \in Nat : k <= Len(text) => f[k] \in Seq(Output)}
<1>5. 0 \in T
  <2>1. f[0] \in Seq(Output)
    <3>1. <<>> \in Seq(Output)
      OBVIOUS
    <3> QED BY <1>4, <3>1, Zenon
  <2> QED BY <2>1, Zenon
<1>6. ASSUME NEW k \in Nat, k \in T PROVE k + 1 \in T
  <2>1. SUFFICES ASSUME k + 1 <= Len(text) PROVE f[k + 1] \in Seq(Output)
    OBVIOUS
  <2>2. k + 1 \in 1..Len(text) /\ k + 1 - 1 = k /\ k <= Len(text)
    BY <1>2, <2>1
  <2>3. f[k] \in Seq(Output) /\ Piece(forms, text, k + 1) \in Seq(Output)
    BY <1>6, <2>2, PieceType
  <2>4. f[k + 1] = f[k] \o Piece(forms, text, k + 1)
    <3>1. PICK m : m = k + 1
      OBVIOUS
    <3>2. m \in 1..Len(text) /\ m - 1 = k
      BY <2>2, <3>1
    <3>3. f[m] = f[m - 1] \o Piece(forms, text, m)
      BY <1>4, <3>2, Zenon
    <3> QED BY <3>1, <3>2, <3>3, Zenon
  <2>5. f[k] \o Piece(forms, text, k + 1) \in Seq(Output)
    BY <2>3
  <2> QED BY <2>4, <2>5, Zenon
<1> HIDE DEF T
<1>7. Nat \subseteq T
  BY <1>5, <1>6, SetInduction
<1>8. \A n \in 0..Len(text) : f[n] \in Seq(Output)
  BY <1>2, <1>7 DEF T
<1> QED BY <1>1, <1>4, <1>8

\* Later redactions only add to earlier ones.
LEMMA RedactionAdds ==
    ASSUME NEW forms \in SUBSET PatternType, Apart(forms), NEW text \in Strings,
           NEW n \in 0..Len(text), NEW m \in n..Len(text)
    PROVE  \E rest \in Seq(Output) :
              Redaction(forms, text)[m] = Redaction(forms, text)[n] \o rest
<1>1. PICK f : f = Redaction(forms, text)
  OBVIOUS
<1>2. /\ Len(text) \in Nat /\ n \in Nat
      /\ \A i \in 1..Len(text) : f[i] = f[i - 1] \o Piece(forms, text, i)
      /\ \A i \in 0..Len(text) : f[i] \in Seq(Output)
  <2>1. Len(text) \in Nat /\ n \in Nat
    BY DEF Strings
  <2> QED BY <1>1, <2>1, RedactionSteps, Zenon
<1> DEFINE T == {k \in Nat : n + k <= Len(text) => \E rest \in Seq(Output) : f[n + k] = f[n] \o rest}
<1>3. 0 \in T
  <2>1. f[n] \in Seq(Output) /\ n + 0 = n /\ <<>> \in Seq(Output)
    BY <1>2
  <2>2. f[n] \o <<>> = f[n]
    BY <2>1
  <2> QED BY <2>1, <2>2, Zenon
<1>4. ASSUME NEW k \in Nat, k \in T, n + (k + 1) <= Len(text)
      PROVE  \E rest \in Seq(Output) : f[n + (k + 1)] = f[n] \o rest
  <2>1. PICK i \in 1..Len(text) : i = n + (k + 1) /\ i - 1 = n + k /\ n + k <= Len(text)
    BY <1>2, <1>4
  <2>2. PICK rest \in Seq(Output) : f[n + k] = f[n] \o rest
    BY <1>4, <2>1
  <2>3. PICK b \in Seq(Output) : b = Piece(forms, text, i)
    BY PieceType
  <2>4. f[i] = f[i - 1] \o b
    BY <1>2, <2>3, Zenon
  <2>5. PICK a \in Seq(Output) : a = f[n]
    BY <1>2
  <2>6. (a \o rest) \o b = a \o (rest \o b) /\ rest \o b \in Seq(Output)
    OBVIOUS
  <2> QED BY <2>1, <2>2, <2>4, <2>5, <2>6, Zenon
<1> HIDE DEF T
<1>5. Nat \subseteq T
  <2>1. ASSUME NEW k \in Nat, k \in T PROVE k + 1 \in T
    <3>1. k + 1 \in Nat
      OBVIOUS
    <3> QED BY <1>4, <2>1, <3>1, Zenon DEF T
  <2> QED BY <1>3, <2>1, SetInduction
<1>6. PICK k \in Nat : m = n + k /\ n + k <= Len(text)
  <2>1. m - n \in Nat /\ m = n + (m - n) /\ m <= Len(text)
    BY <1>2
  <2> QED BY <2>1
<1> QED BY <1>1, <1>5, <1>6 DEF T

\* More text makes no form where none began to show.
LEMMA MoreTextFinds ==
    ASSUME NEW text \in Strings, NEW p \in Strings, NEW value \in Strings,
           NEW i \in 1..Len(text)
    PROVE  /\ Occurs(text, i, value) => Occurs(text \o p, i, value)
           /\ Occurs(text \o p, i, value) => Occurs(text, i, value) \/ Begins(text, i, value)
           /\ Begins(text \o p, i, value) => Begins(text, i, value)
<1>1. /\ Len(text) \in Nat /\ Len(p) \in Nat /\ Len(value) \in Nat /\ i \in Nat
      /\ Len(text \o p) = Len(text) + Len(p)
  BY DEF Strings
<1>2. Agrees(text \o p, i, value) => Agrees(text, i, value)
  BY MoreText
<1>3. ASSUME Occurs(text, i, value) PROVE Occurs(text \o p, i, value)
  <2>1. i + Len(value) - 1 <= Len(text)
    BY <1>3 DEF Occurs
  <2>2. ASSUME NEW k \in 1..Len(value) PROVE (text \o p)[i + k - 1] = value[k]
    <3>1. i + k - 1 \in 1..Len(text) /\ i + k - 1 <= Len(text)
      BY <1>1, <2>1
    <3>2. text[i + k - 1] = value[k]
      BY <1>3, <3>1 DEF Occurs, Agrees
    <3>3. (text \o p)[i + k - 1] = text[i + k - 1]
      BY <3>1 DEF Strings
    <3> QED BY <3>2, <3>3
  <2> QED BY <1>1, <2>1, <2>2 DEF Occurs, Agrees
<1> QED BY <1>1, <1>2, <1>3 DEF Occurs, Begins

\* So the redaction of what is settled stays as it is.
LEMMA MoreTextKeeps ==
    ASSUME NEW forms \in SUBSET PatternType, Apart(forms), NEW text \in Strings,
           NEW p \in Strings, NEW n \in 0..Len(text),
           \A i \in 1..n : \A q \in forms : ~Begins(text, i, q.value)
    PROVE  /\ \A i \in 1..n : Occurrences(forms, text \o p, i) = Occurrences(forms, text, i)
           /\ Redaction(forms, text \o p)[n] = Redaction(forms, text)[n]
<1>1. /\ Len(text) \in Nat /\ Len(p) \in Nat /\ n \in Nat /\ text \o p \in Strings
      /\ Len(text \o p) = Len(text) + Len(p)
  BY DEF Strings
<1>2. \A i \in 1..n : Occurrences(forms, text \o p, i) = Occurrences(forms, text, i)
  <2>1. ASSUME NEW i \in 1..n, NEW q \in forms
        PROVE  Occurs(text \o p, i, q.value) <=> Occurs(text, i, q.value)
    <3>1. q.value \in Strings /\ i \in 1..Len(text)
      BY <1>1 DEF PatternType
    <3> QED BY <3>1, MoreTextFinds
  <2> QED BY <2>1 DEF Occurrences
<1>3. \A i \in 1..n : Piece(forms, text \o p, i) = Piece(forms, text, i)
  <2>1. SUFFICES ASSUME NEW i \in 1..n
        PROVE  Piece(forms, text \o p, i) = Piece(forms, text, i)
    OBVIOUS
  <2>2. Occurrences(forms, text \o p, i) = Occurrences(forms, text, i)
    BY <1>2
  <2>3. Inside(forms, text \o p, i) <=> Inside(forms, text, i)
    <3>1. \A j \in 1..(i - 1) : j \in 1..n
      BY <1>1
    <3>2. \A j \in 1..(i - 1) : Occurrences(forms, text \o p, j) = Occurrences(forms, text, j)
      BY <1>2, <3>1
    <3> QED BY <3>2, Zenon DEF Inside
  <2>4. (text \o p)[i] = text[i]
    BY <1>1 DEF Strings
  <2>5. CASE Occurrences(forms, text, i) # {}
    BY <2>2, <2>5 DEF Piece
  <2>6. CASE Occurrences(forms, text, i) = {} /\ Inside(forms, text, i)
    BY <2>2, <2>3, <2>6 DEF Piece
  <2>7. CASE Occurrences(forms, text, i) = {} /\ ~Inside(forms, text, i)
    BY <2>2, <2>3, <2>4, <2>7 DEF Piece
  <2> QED BY <2>5, <2>6, <2>7
<1>4. PICK f, g : f = Redaction(forms, text) /\ g = Redaction(forms, text \o p)
  OBVIOUS
<1>5. /\ f[0] = g[0]
      /\ \A i \in 1..Len(text) : f[i] = f[i - 1] \o Piece(forms, text, i)
      /\ \A i \in 1..Len(text \o p) : g[i] = g[i - 1] \o Piece(forms, text \o p, i)
  BY <1>1, <1>4, RedactionSteps
<1> DEFINE T == {k \in Nat : k <= n => f[k] = g[k]}
<1>6. 0 \in T
  BY <1>5
<1>7. ASSUME NEW k \in Nat, k \in T PROVE k + 1 \in T
  <2>1. SUFFICES ASSUME k + 1 <= n PROVE f[k + 1] = g[k + 1]
    OBVIOUS
  <2>2. PICK i : i = k + 1
    OBVIOUS
  <2>3. i \in 1..n /\ i \in 1..Len(text) /\ i \in 1..Len(text \o p) /\ i - 1 = k /\ k <= n
    BY <1>1, <2>1, <2>2
  <2>4. f[i] = f[i - 1] \o Piece(forms, text, i) /\ g[i] = g[i - 1] \o Piece(forms, text \o p, i)
    BY <1>5, <2>3, Zenon
  <2>5. f[k] = g[k] /\ Piece(forms, text \o p, i) = Piece(forms, text, i)
    BY <1>3, <1>7, <2>3
  <2> QED BY <2>2, <2>3, <2>4, <2>5, Zenon
<1> HIDE DEF T
<1>8. n \in T
  BY <1>1, <1>6, <1>7, SetInduction
<1> QED BY <1>2, <1>4, <1>8 DEF T

\* Where no form is registered, all is passed on as it is.
LEMMA PlainJoin ==
    ASSUME NEW a \in Strings, NEW b \in Strings, NEW i \in Nat
    PROVE  Plain(a, i) \o Plain(b, i + Len(a)) = Plain(a \o b, i)
<1>1. /\ Len(a) \in Nat /\ Len(b) \in Nat /\ Len(a \o b) = Len(a) + Len(b)
      /\ a \o b \in Strings /\ i + Len(a) \in Nat
  BY DEF Strings
<1>2. PICK x, y, z : x = Plain(a, i) /\ y = Plain(b, i + Len(a)) /\ z = Plain(a \o b, i)
  OBVIOUS
<1>3. /\ x \in Seq(Output) /\ y \in Seq(Output) /\ z \in Seq(Output)
      /\ Len(x) = Len(a) /\ Len(y) = Len(b) /\ Len(z) = Len(a) + Len(b)
  BY <1>1, <1>2, PlainType
<1>4. ASSUME NEW k \in 1..(Len(a) + Len(b)) PROVE (x \o y)[k] = z[k]
  <2>1. z[k] = [at |-> i + k - 1, token |-> NoName, byte |-> (a \o b)[k]]
    BY <1>1, <1>2 DEF Plain
  <2>2. CASE k <= Len(a)
    <3>1. k \in 1..Len(a) /\ (a \o b)[k] = a[k]
      BY <1>1, <2>2 DEF Strings
    <3>2. x[k] = [at |-> i + k - 1, token |-> NoName, byte |-> a[k]]
      BY <1>2, <3>1 DEF Plain
    <3>3. (x \o y)[k] = x[k]
      BY <1>1, <1>3, <3>1
    <3> QED BY <2>1, <3>1, <3>2, <3>3
  <2>3. CASE k > Len(a)
    <3>1. PICK j : j = k - Len(a)
      OBVIOUS
    <3>2. j \in 1..Len(b) /\ k \in 1..Len(a \o b)
      BY <1>1, <2>3, <3>1
    <3>3. (a \o b)[k] = b[j]
      BY <1>1, <2>3, <3>1, <3>2 DEF Strings
    <3>4. y[j] = [at |-> i + Len(a) + j - 1, token |-> NoName, byte |-> b[j]]
      BY <1>2, <3>2 DEF Plain
    <3>5. i + Len(a) + j - 1 = i + k - 1
      BY <1>1, <3>1
    <3>6. (x \o y)[k] = y[j]
      BY <1>1, <1>3, <2>3, <3>1, <3>2
    <3> QED BY <2>1, <3>3, <3>4, <3>5, <3>6, Zenon
  <2>4. k <= Len(a) \/ k > Len(a)
    BY <1>1
  <2> QED BY <2>2, <2>3, <2>4
<1>5. x \o y \in Seq(Output) /\ Len(x \o y) = Len(x) + Len(y)
  BY <1>3, ConcatProperties
<1>6. x \o y = z
  BY <1>3, <1>4, <1>5, SeqEqual
<1> QED BY <1>2, <1>6

\* So the redaction for no forms is the text itself.
LEMMA NothingToFind ==
    ASSUME NEW text \in Strings
    PROVE  Redaction({}, text)[Len(text)] = Plain(text, 1)
<1>1. PICK f : f = Redaction({}, text)
  OBVIOUS
<1>2. {} \in SUBSET PatternType /\ Apart({}) /\ Len(text) \in Nat
  BY DEF Apart, Strings
<1>3. f[0] = <<>> /\ \A i \in 1..Len(text) : f[i] = f[i - 1] \o Piece({}, text, i)
  BY <1>1, <1>2, RedactionSteps
<1>4. \A i \in 1..Len(text) : Piece({}, text, i) = Plain(<<text[i]>>, i)
  BY DEF Piece, Inside, Occurrences
<1> DEFINE T == {k \in Nat : k <= Len(text) => f[k] = Plain(SubSeq(text, 1, k), 1)}
<1>5. 0 \in T
  <2>1. SubSeq(text, 1, 0) = <<>>
    BY DEF Strings
  <2>2. Plain(<<>>, 1) = <<>>
    BY DEF Plain
  <2> QED BY <1>3, <2>1, <2>2
<1>6. ASSUME NEW k \in Nat, k \in T, k + 1 <= Len(text)
      PROVE  f[k + 1] = Plain(SubSeq(text, 1, k + 1), 1)
  <2>1. PICK i \in 1..Len(text) : i = k + 1 /\ i - 1 = k /\ k <= Len(text)
    BY <1>2, <1>6
  <2>2. PICK a, b : a = SubSeq(text, 1, k) /\ b = <<text[i]>>
    OBVIOUS
  <2>3. /\ a \in Strings /\ b \in Strings /\ Len(a) = k
        /\ SubSeq(text, 1, k + 1) = a \o b
    <3>1. \A S : \A q \in Seq(S) : \A m \in 1..Len(q) :
             /\ SubSeq(q, 1, m - 1) \in Seq(S) /\ <<q[m]>> \in Seq(S)
             /\ Len(SubSeq(q, 1, m - 1)) = m - 1
             /\ SubSeq(q, 1, m) = SubSeq(q, 1, m - 1) \o <<q[m]>>
      OBVIOUS
    <3> QED BY <2>1, <2>2, <3>1, Zenon DEF Strings
  <2>4. f[k] = Plain(a, 1)
    BY <1>6, <2>1, <2>2
  <2>5. f[i] = f[i - 1] \o Plain(b, i)
    BY <1>3, <1>4, <2>2, Zenon
  <2>6. 1 \in Nat /\ 1 + Len(a) = i
    BY <2>1, <2>3
  <2>7. Plain(a, 1) \o Plain(b, i) = Plain(a \o b, 1)
    BY <2>3, <2>6, PlainJoin
  <2> QED BY <2>1, <2>3, <2>4, <2>5, <2>7
<1>7. ASSUME NEW k \in Nat, k \in T PROVE k + 1 \in T
  BY <1>6, <1>7
<1> HIDE DEF T
<1>8. Len(text) \in T
  BY <1>2, <1>5, <1>7, SetInduction
<1>9. SubSeq(text, 1, Len(text)) = text
  BY DEF Strings
<1>10. f[Len(text)] = Plain(SubSeq(text, 1, Len(text)), 1)
  BY <1>2, <1>8 DEF T
<1> QED BY <1>1, <1>9, <1>10, Zenon

-----------------------------------------------------------------------------
(* What the sink lets through *)

\* The first elements of two sequences put together.
LEMMA FirstOfJoin ==
    ASSUME NEW S, NEW a \in Seq(S), NEW b \in Seq(S)
    PROVE  /\ a \o b \in Seq(S) /\ Len(a \o b) = Len(a) + Len(b)
           /\ \A m \in 0..Len(a) : SubSeq(a \o b, 1, m) = SubSeq(a, 1, m)
           /\ \A m \in 0..Len(b) : SubSeq(a \o b, 1, Len(a) + m) = a \o SubSeq(b, 1, m)
<1>1. a \o b \in Seq(S) /\ Len(a \o b) = Len(a) + Len(b)
  OBVIOUS
<1>2. \A m \in 0..Len(a) : SubSeq(a \o b, 1, m) = SubSeq(a, 1, m)
  OBVIOUS
<1>3. \A m \in 0..Len(b) : SubSeq(a \o b, 1, Len(a) + m) = a \o SubSeq(b, 1, m)
  OBVIOUS
<1> QED BY <1>1, <1>2, <1>3

\* Some output, of which a first part is gone and the rest is on its way; what
\* has been read is what the sink let through of the first part.
Parted(s, all, rest, read) ==
    \E m \in 0..Len(all) : all = SubSeq(all, 1, m) \o rest /\ read = Cut(s, SubSeq(all, 1, m))

GoneAndRest(s, all, rest, read) ==
    \E gone \in Seq(Output) : all = gone \o rest /\ read = Cut(s, gone)

LEMMA Parts ==
    ASSUME NEW s, NEW all \in Seq(Output), NEW rest \in Seq(Output), NEW read
    PROVE  Parted(s, all, rest, read) <=> GoneAndRest(s, all, rest, read)
<1>1. ASSUME NEW m \in 0..Len(all) PROVE SubSeq(all, 1, m) \in Seq(Output)
  OBVIOUS
<1>2. ASSUME NEW gone \in Seq(Output), all = gone \o rest
      PROVE  Len(gone) \in 0..Len(all) /\ SubSeq(all, 1, Len(gone)) = gone
  <2>1. Len(gone) \in Nat /\ Len(rest) \in Nat /\ Len(all) = Len(gone) + Len(rest)
    BY <1>2
  <2>2. SubSeq(gone \o rest, 1, Len(gone)) = SubSeq(gone, 1, Len(gone))
    BY <2>1, FirstOfJoin
  <2>3. SubSeq(gone, 1, Len(gone)) = gone
    BY SubSeqFull
  <2> QED BY <1>2, <2>1, <2>2, <2>3
<1> QED BY <1>1, <1>2, Zenon DEF Parted, GoneAndRest

\* A capped sink that has let through what fits of some output, and then lets
\* through what fits of the rest.
LEMMA CutJoin ==
    ASSUME NEW s \in Capped, NEW gone \in Seq(Output), NEW rest \in Seq(Output)
    PROVE  Cut(s, gone \o rest)
              = Cut(s, gone) \o SubSeq(rest, 1, Smaller(Len(rest), Limit - Len(Cut(s, gone))))
<1>1. Len(gone) \in Nat /\ Len(rest) \in Nat /\ Limit \in Nat
      /\ Len(gone \o rest) = Len(gone) + Len(rest)
  BY SizesAssumption, FirstOfJoin
<1>2. PICK whole : whole = gone \o rest /\ Len(whole) = Len(gone) + Len(rest)
  BY <1>1
<1>3. /\ \A m \in 0..Len(gone) : SubSeq(whole, 1, m) = SubSeq(gone, 1, m)
      /\ \A m \in 0..Len(rest) : SubSeq(whole, 1, Len(gone) + m) = gone \o SubSeq(rest, 1, m)
  BY <1>2, FirstOfJoin
<1>4. CASE Limit <= Len(gone)
  <2>1. Smaller(Limit, Len(gone)) = Limit /\ Smaller(Limit, Len(whole)) = Limit /\ Limit \in 0..Len(gone)
    BY <1>1, <1>2, <1>4 DEF Smaller
  <2>2. Cut(s, gone) = SubSeq(gone, 1, Limit) /\ Cut(s, whole) = SubSeq(gone, 1, Limit)
    BY <1>3, <2>1 DEF Cut
  <2>3. SubSeq(gone, 1, Limit) \in Seq(Output) /\ Len(SubSeq(gone, 1, Limit)) = Limit
    BY <2>1
  <2>4. Smaller(Len(rest), Limit - Limit) = 0
    BY <1>1 DEF Smaller
  <2>5. SubSeq(rest, 1, 0) = <<>>
    OBVIOUS
  <2>6. SubSeq(gone, 1, Limit) \o <<>> = SubSeq(gone, 1, Limit)
    BY <2>3, ConcatEmptySeq
  <2> QED BY <1>2, <2>2, <2>3, <2>4, <2>5, <2>6
<1>5. CASE Limit > Len(gone)
  <2>1. Smaller(Limit, Len(gone)) = Len(gone)
    BY <1>1, <1>5 DEF Smaller
  <2>2. Cut(s, gone) = gone
    BY <2>1, SubSeqFull DEF Cut
  <2>3. PICK m \in 0..Len(rest) : m = Smaller(Len(rest), Limit - Len(gone))
    BY <1>1, <1>5 DEF Smaller
  <2>4. Smaller(Limit, Len(whole)) = Len(gone) + m
    <3>1. \A l, g, r \in Nat : l > g => Smaller(l, g + r) = g + Smaller(r, l - g)
      BY DEF Smaller
    <3> QED BY <1>1, <1>2, <1>5, <2>3, <3>1
  <2>5. Cut(s, whole) = gone \o SubSeq(rest, 1, m)
    BY <1>3, <2>4 DEF Cut
  <2> QED BY <1>2, <2>2, <2>3, <2>5
<1>6. Limit <= Len(gone) \/ Limit > Len(gone)
  BY <1>1
<1> QED BY <1>4, <1>5, <1>6

\* Once the cap is full, more output makes no difference.
LEMMA CutFull ==
    ASSUME NEW s \in Capped, NEW a \in Seq(Output), NEW b \in Seq(Output), Limit <= Len(a)
    PROVE  Cut(s, a \o b) = SubSeq(a, 1, Limit)
<1>1. /\ Len(a) \in Nat /\ Len(b) \in Nat /\ Len(a \o b) = Len(a) + Len(b) /\ Limit \in 0..Len(a)
      /\ SubSeq(a \o b, 1, Limit) = SubSeq(a, 1, Limit)
  BY SizesAssumption, FirstOfJoin
<1>2. Smaller(Limit, Len(a \o b)) = Limit
  BY <1>1 DEF Smaller
<1> QED BY <1>1, <1>2 DEF Cut

-----------------------------------------------------------------------------
(* A step of one stream *)

SameExact(r) == Same(r) /\ emitUpTo'[r] = emitUpTo[r] /\ failed'[r] = failed[r]

\* The streams that do not move keep their part of the invariant.
LEMMA OthersStayExact ==
    ASSUME NEW r \in Streams, ScanInv(r), ExactHere(r), patterns' = patterns, SameExact(r)
    PROVE  ScanInv(r)' /\ ExactHere(r)'
<1>1. Decided(r)' = Decided(r)
  BY DEF Decided, SameExact, Same
<1>2. CoversFound(r) => CoversFound(r)'
  BY DEF CoversFound, Found, SameExact, Same
<1>3. \A n : Closed(r, n) => Closed(r, n)'
  BY DEF Closed, SameExact, Same
<1>4. ScanInv(r)'
  BY <1>1, <1>2, <1>3 DEF ScanInv, SameExact, Same
<1>5. \A n : Settled(r, n) => Settled(r, n)'
  BY DEF Settled, SameExact, Same
<1>6. \A n : Exact(r, n) => Exact(r, n)'
  BY <1>1 DEF Exact, SameExact, Same
<1>7. ExactHere(r)'
  BY <1>5, <1>6 DEF ExactHere, SameExact, Same
<1> QED BY <1>4, <1>7

\* The forms of a state in which they are disjoint, as the lemmas about texts take them.
LEMMA Forms ==
    ASSUME IndInv, Disjoint
    PROVE  patterns \in SUBSET PatternType /\ Apart(patterns)
BY DEF IndInv, TypeOK, PatternType, Disjoint, Apart

\* What Exact says of a writer that has not given up scanning.
LEMMA ExactMeans ==
    ASSUME IndInv, Disjoint, NEW s \in Streams, ~passThrough[s], NEW n \in 0..Len(fed[s])
    PROVE  Exact(s, n)
           <=> /\ n = Decided(s)
               /\ GoneAndRest(s, Redaction(patterns, fed[s])[n], out[s], kept[s])
<1>1. Redaction(patterns, fed[s])[n] \in Seq(Output) /\ out[s] \in Seq(Output)
  BY Forms, RedactionSteps, Types DEF IndInv
<1>2. Exact(s, n)
      <=> n = Decided(s) /\ Parted(s, Redaction(patterns, fed[s])[n], out[s], kept[s])
  BY DEF Exact, Parted
<1> QED BY <1>1, <1>2, Parts

-----------------------------------------------------------------------------
(* scan: the redaction grows by what becomes of the next byte *)

\* Where the cursor is in what has been printed.
LEMMA Cursor ==
    ASSUME IndInv, NEW s \in Streams, Scanning(s)
    PROVE  /\ Len(fed[s]) - Len(work[s]) \in Nat /\ at[s] \in Nat /\ emitUpTo[s] \in Nat
           /\ Position(s, at[s]) = (Len(fed[s]) - Len(work[s])) + at[s]
           /\ Decided(s) = Position(s, at[s]) - 1
           /\ Len(fed[s]) \in Nat /\ Len(work[s]) \in Nat
<1>1. TypeOK /\ Suffix(work[s], fed[s]) /\ pc[s] = "scan"
  BY PositionOf DEF IndInv, Scanning
<1>2. /\ Len(fed[s]) \in Nat /\ Len(work[s]) \in Nat /\ at[s] \in Nat /\ emitUpTo[s] \in Nat
      /\ Len(work[s]) <= Len(fed[s])
  BY <1>1, Types DEF Suffix
<1>3. Position(s, at[s]) = (Len(fed[s]) - Len(work[s])) + at[s]
  BY DEF Position
<1>4. Decided(s) = Len(fed[s]) - (Len(work[s]) - at[s] + 1)
  BY <1>1 DEF Decided
<1>5. PICK f \in Nat, w \in Nat, a \in Nat : f = Len(fed[s]) /\ w = Len(work[s]) /\ a = at[s]
  BY <1>2
<1>6. w <= f
  BY <1>2, <1>5, Zenon
<1>7. f - w \in Nat /\ f - (w - a + 1) = (f - w) + a - 1
  BY <1>6
<1>8. Position(s, at[s]) = (f - w) + a /\ Decided(s) = f - (w - a + 1)
  BY <1>3, <1>4, <1>5, Zenon
<1>9. f - w \in Nat /\ Decided(s) = Position(s, at[s]) - 1
  BY <1>7, <1>8
<1> QED BY <1>2, <1>3, <1>5, <1>9, Zenon

\* A form found in work is found in what has been printed.
LEMMA FoundIsPrinted ==
    ASSUME IndInv, NEW s \in Streams, Scanning(s), NEW p \in patterns, NEW j \in 1..Len(work[s])
    PROVE  /\ Occurs(work[s], j, p.value) <=> Occurs(fed[s], Len(fed[s]) - Len(work[s]) + j, p.value)
           /\ Agrees(work[s], j, p.value) <=> Agrees(fed[s], Len(fed[s]) - Len(work[s]) + j, p.value)
<1>1. p.value \in Strings
  BY Types DEF IndInv, PatternType
<1> QED BY <1>1, PositionOf, SuffixShows

\* At a byte that no form covers, those found lie behind the cursor.
LEMMA BehindCursor ==
    ASSUME IndInv, NEW s \in Streams, ScanInv(s), Scanning(s), ~Covered(s)
    PROVE  Closed(s, Decided(s))
<1>1. PICK d \in Nat : d = Len(fed[s]) - Len(work[s])
  BY Cursor
<1>2. /\ at[s] \in Nat /\ at[s] \in 1..Len(work[s]) /\ emitUpTo[s] \in Nat /\ emitUpTo[s] < at[s]
      /\ Decided(s) = d + at[s] - 1 /\ Len(work[s]) \in Nat
  <2>1. at[s] \in 1..Len(work[s])
    BY PositionOf
  <2>2. ~(at[s] <= emitUpTo[s])
    BY DEF Covered
  <2>3. Position(s, at[s]) = d + at[s] /\ Decided(s) = Position(s, at[s]) - 1
    BY <1>1, Cursor, Zenon
  <2>4. at[s] \in Nat /\ emitUpTo[s] \in Nat /\ Len(work[s]) \in Nat
    BY Cursor
  <2> QED BY <2>1, <2>2, <2>3, <2>4
<1>3. Closed(s, d) /\ CoversFound(s)
  BY <1>1 DEF ScanInv, Scanning
<1>4. ASSUME NEW i \in 1..Decided(s), NEW p \in Occurrences(patterns, fed[s], i)
      PROVE  i + Len(p.value) - 1 <= Decided(s)
  <2>1. p \in patterns /\ Occurs(fed[s], i, p.value) /\ Len(p.value) \in Nat
    BY Types DEF Occurrences, IndInv, PatternType, Strings
  <2>2. CASE i <= d
    <3>1. i \in 1..d
      BY <1>2, <2>2
    <3>2. i + Len(p.value) - 1 <= d
      BY <1>3, <3>1 DEF Closed
    <3> QED BY <1>2, <2>1, <3>2
  <2>3. CASE i > d
    <3>1. PICK j \in 1..(at[s] - 1) : i = d + j
      <4>1. i - d \in 1..(at[s] - 1) /\ i = d + (i - d)
        BY <1>2, <2>3
      <4> QED BY <4>1
    <3>2. j \in 1..Len(work[s])
      BY <1>2
    <3>3. Occurs(work[s], j, p.value)
      BY <1>1, <2>1, <3>1, <3>2, FoundIsPrinted
    <3>4. PICK f : f = <<j, p>>
      OBVIOUS
    <3>5. f \in Found(s) /\ End(f) = j + Len(p.value) - 1
      BY <2>1, <3>3, <3>4 DEF Found, End
    <3>6. j + Len(p.value) - 1 <= emitUpTo[s]
      BY <1>3, <3>5 DEF CoversFound
    <3>7. \A l \in Nat : j + l - 1 <= emitUpTo[s] => d + j + l - 1 <= d + at[s] - 1
      BY <1>2
    <3> QED BY <1>2, <2>1, <3>1, <3>6, <3>7
  <2> QED BY <1>2, <2>2, <2>3
<1> QED BY <1>4 DEF Closed

\* A covered byte is inside a form that begins before it.
LEMMA UnderCover ==
    ASSUME IndInv, NEW s \in Streams, ScanInv(s), Scanning(s), Covered(s)
    PROVE  \E j \in Nat : \E p \in patterns :
              /\ 1 <= j /\ j < Position(s, at[s])
              /\ Position(s, at[s]) <= j + Len(p.value) - 1
              /\ Occurs(fed[s], j, p.value)
<1>1. PICK d \in Nat : d = Len(fed[s]) - Len(work[s])
  BY Cursor
<1>2. /\ at[s] \in Nat /\ at[s] \in 1..Len(work[s]) /\ emitUpTo[s] \in Nat /\ emitUpTo[s] >= at[s]
      /\ Position(s, at[s]) = d + at[s] /\ Len(work[s]) \in Nat
  <2>1. at[s] \in 1..Len(work[s])
    BY PositionOf
  <2>2. at[s] <= emitUpTo[s]
    BY DEF Covered
  <2> QED BY <1>1, <2>1, <2>2, Cursor
<1>3. PICK f \in Found(s) : emitUpTo[s] = End(f)
  BY <1>2 DEF ScanInv, Scanning, CoversFound
<1>4. PICK j \in 1..(at[s] - 1), p \in patterns : f = <<j, p>> /\ Occurs(work[s], j, p.value)
  BY <1>3 DEF Found
<1>5. emitUpTo[s] = j + Len(p.value) - 1 /\ Len(p.value) \in Nat /\ j \in 1..Len(work[s])
  <2>1. Len(p.value) \in Nat
    BY Types DEF IndInv, PatternType, Strings
  <2> QED BY <1>2, <1>3, <1>4, <2>1 DEF End
<1>6. Occurs(fed[s], d + j, p.value)
  BY <1>1, <1>4, <1>5, FoundIsPrinted
<1>7. d + j \in Nat /\ 1 <= d + j /\ d + j < d + at[s] /\ d + at[s] <= d + j + Len(p.value) - 1
  <2>1. PICK l \in Nat : l = Len(p.value)
    BY <1>5
  <2>2. PICK a \in Nat : a = at[s]
    BY <1>2
  <2>3. a <= j + l - 1 /\ j < a /\ j \in Nat /\ 1 <= j
    BY <1>2, <1>5, <2>1, <2>2
  <2>4. d + j \in Nat /\ 1 <= d + j /\ d + j < d + a /\ d + a <= d + j + l - 1
    BY <2>3
  <2> QED BY <2>1, <2>2, <2>4, Zenon
<1> QED BY <1>2, <1>6, <1>7

\* The same of the next state.
LEMMA ExactNext ==
    ASSUME NEW s \in Streams, NEW n, TypeOK', ~passThrough'[s], n = Decided(s)',
           NEW all \in Seq(Output), all = Redaction(patterns', fed'[s])[n],
           GoneAndRest(s, all, out'[s], kept'[s])
    PROVE  Exact(s, n)'
<1>1. out'[s] \in Seq(Output)
  BY DEF TypeOK
<1>2. Parted(s, all, out'[s], kept'[s])
  BY <1>1, Parts
<1> QED BY <1>2 DEF Exact, Parted

\* A step of scan to the next byte: it adds to out what becomes of this one.
LEMMA GoesOnExact ==
    ASSUME IndInv, IndInv', Disjoint, NEW s \in Streams, ScanInv(s), ExactHere(s),
           Scanning(s), at' = [at EXCEPT ![s] = @ + 1], CoversFound(s)',
           NEW piece \in Seq(Output),
           piece = Piece(patterns, fed[s], Position(s, at[s])), out'[s] = out[s] \o piece,
           final[s] \/ \A q \in patterns : ~Begins(fed[s], Position(s, at[s]), q.value),
           UNCHANGED <<shared, pc, work, holdover, final, passThrough, sinks, fed>>
    PROVE  ScanInv(s)' /\ ExactHere(s)'
<1>1. PICK i \in 1..Len(fed[s]) : i = Position(s, at[s])
  BY PositionOf
<1>2. i \in Nat /\ i - 1 \in 0..Len(fed[s]) /\ Len(fed[s]) \in Nat /\ fed[s] \in Strings
  BY <1>1, Types DEF IndInv
<1>3. /\ pc[s] = "scan" /\ pc'[s] = "scan" /\ at'[s] = at[s] + 1 /\ ~passThrough[s]
      /\ patterns' = patterns /\ fed' = fed /\ work' = work /\ kept' = kept
      /\ holdover' = holdover /\ final' = final /\ passThrough' = passThrough /\ failed' = failed
  <2>1. at'[s] = at[s] + 1
    BY FunctionTypes DEF IndInv
  <2>2. pc[s] = "scan" /\ pc'[s] = "scan" /\ ~passThrough[s]
    BY DEF IndInv, TextInv, Scanning
  <2> QED BY <2>1, <2>2 DEF shared, sinks
<1>4. ScanInv(s)'
  <2>1. Closed(s, Len(fed[s]) - Len(work[s]))' <=> Closed(s, Len(fed[s]) - Len(work[s]))
    BY <1>3 DEF Closed
  <2> QED BY <1>3, <2>1 DEF ScanInv
<1>5. CASE failed[s]
  BY <1>3, <1>4, <1>5 DEF ExactHere
<1>6. CASE ~failed[s]
  <2>1. PICK n \in 0..Len(fed[s]) : Settled(s, n) /\ Exact(s, n)
    BY <1>6 DEF ExactHere
  <2>2. n = i - 1 /\ Decided(s) = i - 1
    BY <1>1, <1>3, <2>1, Cursor, ExactMeans
  <2>3. Decided(s)' = i
    <3>1. Decided(s) = Len(fed[s]) - (Len(work[s]) - at[s] + 1)
      BY <1>3 DEF Decided
    <3>2. Decided(s)' = Len(fed[s]) - (Len(work[s]) - (at[s] + 1) + 1)
      BY <1>3 DEF Decided
    <3>3. Len(fed[s]) \in Nat /\ Len(work[s]) \in Nat /\ at[s] \in Nat
      BY Cursor
    <3>4. PICK f \in Nat, w \in Nat, a \in Nat : f = Len(fed[s]) /\ w = Len(work[s]) /\ a = at[s]
      BY <3>3
    <3>5. f - (w - (a + 1) + 1) = (f - (w - a + 1)) + 1
      OBVIOUS
    <3>6. Decided(s)' = Decided(s) + 1
      BY <3>1, <3>2, <3>4, <3>5, Zenon
    <3> QED BY <1>2, <2>2, <3>6
  <2>4. Settled(s, i)'
    <3>1. CASE final[s]
      BY <1>3, <3>1 DEF Settled
    <3>2. CASE ~final[s]
      <4>1. \A j \in 1..(i - 1) : \A q \in patterns : ~Begins(fed[s], j, q.value)
        BY <2>1, <2>2, <3>2 DEF Settled
      <4>2. \A j \in 1..i : j \in 1..(i - 1) \/ j = i
        BY <1>2
      <4>3. \A j \in 1..i : \A q \in patterns : ~Begins(fed[s], j, q.value)
        BY <1>1, <3>2, <4>1, <4>2
      <4> QED BY <1>3, <4>3 DEF Settled
    <3> QED BY <3>1, <3>2
  <2>5. PICK all, more : /\ all = Redaction(patterns, fed[s])[i - 1]
                         /\ more = Redaction(patterns, fed[s])[i]
    OBVIOUS
  <2>6. all \in Seq(Output) /\ more \in Seq(Output) /\ more = all \o piece
    <3>1. patterns \in SUBSET PatternType /\ Apart(patterns)
      BY Forms
    <3>2. PICK f : f = Redaction(patterns, fed[s])
      OBVIOUS
    <3>3. /\ \A m \in 1..Len(fed[s]) : f[m] = f[m - 1] \o Piece(patterns, fed[s], m)
          /\ \A m \in 0..Len(fed[s]) : f[m] \in Seq(Output)
      BY <1>2, <3>1, <3>2, RedactionSteps, Zenon
    <3>4. i \in 0..Len(fed[s])
      BY <1>2
    <3>5. f[i] = f[i - 1] \o Piece(patterns, fed[s], i)
      BY <3>3, Zenon
    <3> QED BY <1>1, <1>2, <2>5, <3>2, <3>3, <3>4, <3>5, Zenon
  <2>7. PICK gone \in Seq(Output) : all = gone \o out[s] /\ kept[s] = Cut(s, gone)
    BY <1>3, <2>1, <2>2, <2>5, ExactMeans DEF GoneAndRest
  <2>8. out[s] \in Seq(Output)
    BY Types DEF IndInv
  <2>9. more = gone \o (out[s] \o piece)
    <3>1. PICK o \in Seq(Output) : o = out[s]
      BY <2>8
    <3>2. (gone \o o) \o piece = gone \o (o \o piece)
      OBVIOUS
    <3> QED BY <2>6, <2>7, <3>1, <3>2, Zenon
  <2>10. GoneAndRest(s, more, out'[s], kept'[s])
    BY <1>3, <2>7, <2>9, Zenon DEF GoneAndRest
  <2>11. Exact(s, i)'
    BY <1>3, <2>3, <2>5, <2>6, <2>10, ExactNext DEF IndInv
  <2>12. i \in 0..Len(fed'[s])
    BY <1>2, <1>3
  <2> QED BY <1>4, <2>4, <2>11, <2>12 DEF ExactHere
<1> QED BY <1>5, <1>6

\* What scan finds at the cursor is what occurs there in all that was printed.
LEMMA FoundHere ==
    ASSUME IndInv, NEW s \in Streams, Scanning(s)
    PROVE  Matches(work[s], at[s]) = Occurrences(patterns, fed[s], Position(s, at[s]))
<1>1. \A p \in patterns :
         Occurs(work[s], at[s], p.value) <=> Occurs(fed[s], Position(s, at[s]), p.value)
  BY PositionOf, FoundIsPrinted DEF Position
<1> QED BY <1>1, PositionOf DEF Matches, Occurrences

\* What has been found up to the next byte.
LEMMA FoundNext ==
    ASSUME IndInv, NEW s \in Streams, Scanning(s),
           at'[s] = at[s] + 1, work' = work, patterns' = patterns
    PROVE  Found(s)' = Found(s) \cup {f \in {at[s]} \X patterns : Occurs(work[s], at[s], f[2].value)}
<1>1. at[s] \in Nat /\ at[s] >= 1
  BY PositionOf
<1>2. 1..(at[s] + 1 - 1) = (1..(at[s] - 1)) \cup {at[s]}
  BY <1>1
<1> QED BY <1>2 DEF Found

\* No form begins, or seems to begin, at a byte inside another one.
LEMMA NoneBeginsWithin ==
    ASSUME IndInv, Disjoint, NEW s \in Streams, NEW p \in patterns,
           NEW j \in Nat, NEW i \in Nat, 1 <= j, j <= i, i <= j + Len(p.value) - 1,
           Occurs(fed[s], j, p.value)
    PROVE  \A q \in patterns : ~Begins(fed[s], i, q.value)
<1>1. SUFFICES ASSUME NEW q \in patterns, Begins(fed[s], i, q.value) PROVE FALSE
  OBVIOUS
<1>2. fed[s] \in Strings /\ Agrees(fed[s], i, q.value)
  BY <1>1, Types DEF IndInv, Begins
<1>3. p = q /\ i = j
  BY <1>2, Forms, NoneWithin
<1>4. j + Len(p.value) - 1 <= Len(fed[s]) /\ Len(fed[s]) < j + Len(p.value) - 1
  BY <1>1, <1>3 DEF Occurs, Begins
<1>5. Len(fed[s]) \in Nat /\ Len(p.value) \in Nat
  BY Types DEF IndInv, PatternType, Strings
<1> QED BY <1>4, <1>5

\* scan finds a form: the token becomes of its first byte.
LEMMA ReplaceExact ==
    ASSUME IndInv, IndInv', Disjoint, NEW s \in Streams, ScanInv(s), ExactHere(s), Replace(s)
    PROVE  ScanInv(s)' /\ ExactHere(s)'
<1>1. /\ Scanning(s) /\ at' = [at EXCEPT ![s] = @ + 1]
      /\ UNCHANGED <<shared, pc, work, holdover, final, passThrough, sinks, fed>>
  BY DEF Replace, Advance
<1>2. PICK i \in 1..Len(fed[s]) : i = Position(s, at[s])
  BY <1>1, PositionOf
<1>3. PICK p \in Longest(Matches(work[s], at[s])) :
        /\ out' = [out EXCEPT ![s] = @ \o Token(p.name, i)]
        /\ emitUpTo' = [emitUpTo EXCEPT ![s] = Larger(@, at[s] + Len(p.value) - 1)]
  BY <1>2 DEF Replace
<1>4. /\ p \in Occurrences(patterns, fed[s], i) /\ p \in patterns
      /\ Occurs(work[s], at[s], p.value) /\ Occurs(fed[s], i, p.value)
  BY <1>1, <1>2, <1>3, FoundHere DEF Longest, Occurrences, Matches
<1>5. fed[s] \in Strings /\ patterns \in SUBSET PatternType /\ Apart(patterns)
  BY Types, Forms DEF IndInv
<1>6. Occurrences(patterns, fed[s], i) = {p} /\ p.name \in Names
      /\ Piece(patterns, fed[s], i) = Token(p.name, i)
  BY <1>4, <1>5, OneForm
<1>7. /\ i \in Nat /\ 1 <= i /\ Len(p.value) \in Nat /\ Len(p.value) >= 1
      /\ at[s] \in Nat /\ at[s] >= 1 /\ emitUpTo[s] \in Nat
  <2>1. p.value \in Seq(Bytes) /\ p.value # <<>>
    BY <1>4, <1>5 DEF PatternType, Strings
  <2>2. Len(p.value) \in Nat /\ Len(p.value) # 0
    BY <2>1
  <2>3. i \in Nat /\ 1 <= i
    BY <1>5 DEF Strings
  <2>4. at[s] \in Nat /\ at[s] >= 1 /\ emitUpTo[s] \in Nat
    BY <1>1, PositionOf, Types DEF IndInv
  <2> QED BY <2>2, <2>3, <2>4
<1>8. PICK e \in Nat : e = at[s] + Len(p.value) - 1 /\ e >= at[s]
  <2>1. at[s] + Len(p.value) - 1 \in Nat /\ at[s] + Len(p.value) - 1 >= at[s]
    BY <1>7
  <2> QED BY <2>1
<1>9. /\ at'[s] = at[s] + 1 /\ out'[s] = out[s] \o Token(p.name, i)
      /\ emitUpTo'[s] = Larger(emitUpTo[s], e)
  BY <1>1, <1>3, <1>8, FunctionTypes DEF IndInv
<1>10. CoversFound(s)'
  <2>1. Found(s)' = Found(s) \cup {<<at[s], p>>}
    <3>1. \A q \in patterns : Occurs(work[s], at[s], q.value) <=> q = p
      <4>1. Matches(work[s], at[s]) = {p} /\ Live = patterns
        BY <1>1, <1>2, <1>6, FoundHere, PositionOf
      <4> QED BY <4>1, <1>4 DEF Matches
    <3>2. {f \in {at[s]} \X patterns : Occurs(work[s], at[s], f[2].value)} = {<<at[s], p>>}
      BY <1>4, <3>1
    <3> QED BY <1>1, <1>9, <3>2, FoundNext DEF shared
  <2>2. End(<<at[s], p>>) = e
    BY <1>8 DEF End
  <2>3. CoversFound(s) /\ \A f \in Found(s) : End(f) <= emitUpTo[s]
    BY <1>1 DEF ScanInv, Scanning, CoversFound
  <2>4. \A f \in Found(s) : End(f) \in Int
    <3>1. ASSUME NEW f \in Found(s) PROVE End(f) \in Int
      <4>1. PICK j \in 1..(at[s] - 1), q \in patterns : f = <<j, q>>
        BY DEF Found
      <4>2. Len(q.value) \in Nat
        BY <1>5 DEF PatternType, Strings
      <4>3. j \in Int /\ End(f) = j + Len(q.value) - 1
        BY <1>7, <4>1 DEF End
      <4> QED BY <4>2, <4>3
    <3> QED BY <3>1
  <2>5. PICK m \in Nat : m = Larger(emitUpTo[s], e) /\ emitUpTo[s] <= m /\ e <= m
                         /\ (m = e \/ (m = emitUpTo[s] /\ emitUpTo[s] # 0))
    BY <1>7, <1>8 DEF Larger
  <2>6. \A f \in Found(s)' : End(f) <= m
    BY <1>7, <2>1, <2>2, <2>3, <2>4, <2>5
  <2>7. \E f \in Found(s)' : m = End(f)
    <3>1. CASE m = e
      BY <2>1, <2>2, <3>1
    <3>2. CASE m = emitUpTo[s] /\ emitUpTo[s] # 0
      BY <2>1, <2>3, <3>2 DEF CoversFound
    <3> QED BY <2>5, <3>1, <3>2
  <2> QED BY <1>9, <2>5, <2>6, <2>7 DEF CoversFound, End
<1>11. Token(p.name, i) \in Seq(Output)
  BY <1>6, <1>7, TokenType
<1>12. \A q \in patterns : ~Begins(fed[s], i, q.value)
  BY <1>4, <1>7, NoneBeginsWithin
<1> QED BY <1>1, <1>2, <1>6, <1>9, <1>10, <1>11, <1>12, GoesOnExact

\* Where no form is found, what has been found stays the same.
LEMMA FoundNoMore ==
    ASSUME IndInv, NEW s \in Streams, ScanInv(s), Scanning(s), ~MatchHere(s),
           at'[s] = at[s] + 1, emitUpTo' = emitUpTo, work' = work, patterns' = patterns
    PROVE  CoversFound(s)' /\ Occurrences(patterns, fed[s], Position(s, at[s])) = {}
<1>1. CoversFound(s)
  BY DEF ScanInv, Scanning
<1>2. Occurrences(patterns, fed[s], Position(s, at[s])) = {}
  BY FoundHere DEF MatchHere
<1>3. \A p \in patterns : ~Occurs(work[s], at[s], p.value)
  BY PositionOf DEF MatchHere, Matches
<1>4. Found(s)' = Found(s)
  BY <1>3, FoundNext
<1>5. CoversFound(s)'
  BY <1>1, <1>4 DEF CoversFound, End
<1> QED BY <1>2, <1>5

\* A byte inside a form that was found: nothing becomes of it.
LEMMA SuppressExact ==
    ASSUME IndInv, IndInv', Disjoint, NEW s \in Streams, ScanInv(s), ExactHere(s), Suppress(s)
    PROVE  ScanInv(s)' /\ ExactHere(s)'
<1>1. /\ Scanning(s) /\ ~MatchHere(s) /\ Covered(s) /\ at' = [at EXCEPT ![s] = @ + 1]
      /\ out' = out /\ emitUpTo' = emitUpTo
      /\ UNCHANGED <<shared, pc, work, holdover, final, passThrough, sinks, fed>>
  BY DEF Suppress, Advance
<1>2. PICK i \in 1..Len(fed[s]) : i = Position(s, at[s])
  BY <1>1, PositionOf
<1>3. at'[s] = at[s] + 1
  BY <1>1, FunctionTypes DEF IndInv
<1>4. CoversFound(s)' /\ Occurrences(patterns, fed[s], i) = {}
  BY <1>1, <1>2, <1>3, FoundNoMore DEF shared
<1>5. PICK j \in Nat, p \in patterns :
         1 <= j /\ j < i /\ i <= j + Len(p.value) - 1 /\ Occurs(fed[s], j, p.value)
  BY <1>1, <1>2, UnderCover
<1>6. i \in Nat /\ Len(p.value) \in Nat
  BY Types DEF IndInv, PatternType, Strings
<1>7. Inside(patterns, fed[s], i)
  <2>1. j \in 1..(i - 1) /\ i < j + Len(p.value)
    BY <1>5, <1>6
  <2>2. p \in Occurrences(patterns, fed[s], j)
    BY <1>5 DEF Occurrences
  <2> QED BY <2>1, <2>2 DEF Inside
<1>8. Piece(patterns, fed[s], i) = <<>>
  BY <1>4, <1>7 DEF Piece
<1>9. \A q \in patterns : ~Begins(fed[s], i, q.value)
  <2>1. j <= i
    BY <1>5, <1>6
  <2> QED BY <1>5, <1>6, <2>1, NoneBeginsWithin
<1>10. <<>> \in Seq(Output) /\ out[s] \o <<>> = out[s]
  <2>1. out[s] \in Seq(Output)
    BY Types DEF IndInv
  <2> QED BY <2>1, ConcatEmptySeq
<1> QED BY <1>1, <1>2, <1>4, <1>8, <1>9, <1>10, GoesOnExact

\* A byte outside all forms: it becomes itself.
LEMMA PassOnExact ==
    ASSUME IndInv, IndInv', Disjoint, NEW s \in Streams, ScanInv(s), ExactHere(s), PassOn(s)
    PROVE  ScanInv(s)' /\ ExactHere(s)'
<1>1. /\ Scanning(s) /\ ~MatchHere(s) /\ ~Covered(s) /\ ~Partial(s)
      /\ at' = [at EXCEPT ![s] = @ + 1] /\ emitUpTo' = emitUpTo
      /\ UNCHANGED <<shared, pc, work, holdover, final, passThrough, sinks, fed>>
  BY DEF PassOn, Advance
<1>2. PICK i \in 1..Len(fed[s]) : i = Position(s, at[s])
  BY <1>1, PositionOf
<1>3. at'[s] = at[s] + 1 /\ i \in Nat
  BY <1>1, FunctionTypes DEF IndInv
<1>4. CoversFound(s)' /\ Occurrences(patterns, fed[s], i) = {}
  BY <1>1, <1>2, <1>3, FoundNoMore DEF shared
<1>5. ~Inside(patterns, fed[s], i)
  <2>1. SUFFICES ASSUME NEW j \in 1..(i - 1), NEW p \in Occurrences(patterns, fed[s], j),
                        i < j + Len(p.value)
        PROVE  FALSE
    BY DEF Inside
  <2>2. Closed(s, i - 1)
    BY <1>1, <1>2, BehindCursor, Cursor
  <2>3. j + Len(p.value) - 1 <= i - 1
    BY <2>2 DEF Closed
  <2>4. Len(p.value) \in Nat /\ j \in Nat
    BY Types DEF IndInv, PatternType, Strings, Occurrences
  <2> QED BY <1>3, <2>1, <2>3, <2>4
<1>6. work[s][at[s]] = fed[s][i]
  <2>1. Suffix(work[s], fed[s]) /\ at[s] \in 1..Len(work[s])
    BY <1>1, PositionOf
  <2> QED BY <1>2, <2>1 DEF Suffix, Position
<1>7. Piece(patterns, fed[s], i) = Plain(<<work[s][at[s]]>>, i)
  BY <1>4, <1>5, <1>6 DEF Piece
<1>8. Plain(<<work[s][at[s]]>>, i) \in Seq(Output)
  <2>1. <<work[s][at[s]]>> \in Strings
    <3>1. work[s] \in Seq(Bytes) /\ at[s] \in 1..Len(work[s])
      BY <1>1, PositionOf DEF Strings
    <3> QED BY <3>1 DEF Strings
  <2> QED BY <1>3, <2>1, PlainType
<1>9. out'[s] = out[s] \o Plain(<<work[s][at[s]]>>, i)
  <2>1. out' = [out EXCEPT ![s] = @ \o Plain(<<work[s][at[s]]>>, i)]
    BY <1>2 DEF PassOn
  <2> QED BY <2>1, FunctionTypes DEF IndInv
<1>10. final[s] \/ \A q \in patterns : ~Begins(fed[s], i, q.value)
  <2>1. NoStart(s, i)
    BY <1>1, <1>2, NothingHere
  <2> QED BY <2>1 DEF NoStart, Begins
<1> QED BY <1>1, <1>2, <1>4, <1>7, <1>8, <1>9, <1>10, GoesOnExact

\* scan returns: what it has decided about is what it keeps nothing of.
LEMMA ReturnsExact ==
    ASSUME IndInv, IndInv', Disjoint, NEW s \in Streams, ScanInv(s), ExactHere(s),
           pc[s] = "scan", pc'[s] = "sink", Decided(s)' = Decided(s), Closed(s, Decided(s)),
           final[s] \/ patterns = {} => holdover'[s] = <<>>,
           UNCHANGED <<shared, work, at, emitUpTo, out, final, passThrough, sinks, fed>>
    PROVE  ScanInv(s)' /\ ExactHere(s)'
<1>1. /\ patterns' = patterns /\ fed' = fed /\ out' = out /\ kept' = kept
      /\ final' = final /\ passThrough' = passThrough /\ failed' = failed
  BY DEF shared, sinks
<1>2. PICK n : n = Decided(s) /\ n = Decided(s)'
  OBVIOUS
<1>3. Closed(s, n)'
  BY <1>1, <1>2 DEF Closed
<1>4. Closed(s, Decided(s))'
  BY <1>2, <1>3 DEF Closed
<1>5. ScanInv(s)'
  BY <1>1, <1>4 DEF ScanInv
<1>6. CASE failed[s]
  BY <1>1, <1>5, <1>6 DEF ExactHere
<1>7. CASE ~failed[s]
  <2>1. PICK m \in 0..Len(fed[s]) : Settled(s, m) /\ Exact(s, m)
    BY <1>7 DEF ExactHere
  <2>2. Settled(s, m)' /\ Exact(s, m)'
    BY <1>1, <2>1 DEF Settled, Exact
  <2> QED BY <1>1, <1>5, <2>2 DEF ExactHere
<1> QED BY <1>6, <1>7

\* scan keeps the rest: no form found reaches into it.
LEMMA HoldOverExact ==
    ASSUME IndInv, IndInv', Disjoint, NEW s \in Streams, ScanInv(s), ExactHere(s), HoldOver(s)
    PROVE  ScanInv(s)' /\ ExactHere(s)'
<1>1. /\ Scanning(s) /\ ~MatchHere(s) /\ ~Covered(s) /\ Partial(s) /\ pc[s] = "scan"
      /\ holdover' = [holdover EXCEPT ![s] = SubSeq(work[s], at[s], Len(work[s]))]
      /\ pc' = [pc EXCEPT ![s] = "sink"]
      /\ UNCHANGED <<shared, work, at, emitUpTo, out, final, passThrough, sinks, fed>>
  BY DEF HoldOver, Scanning, Goto
<1>2. /\ pc'[s] = "sink" /\ holdover'[s] = SubSeq(work[s], at[s], Len(work[s]))
  BY <1>1, FunctionTypes DEF IndInv
<1>3. Len(holdover'[s]) = Len(work[s]) - at[s] + 1
  <2>1. work[s] \in Seq(Bytes) /\ at[s] \in 1..Len(work[s]) /\ Len(work[s]) \in Nat
    BY <1>1, PositionOf DEF Strings
  <2> QED BY <1>2, <2>1
<1>4. Decided(s)' = Decided(s)
  BY <1>1, <1>2, <1>3 DEF Decided
<1>5. ~final[s] /\ patterns # {}
  BY <1>1, PositionOf DEF Partial
<1>6. Closed(s, Decided(s))
  BY <1>1, BehindCursor
<1> QED BY <1>1, <1>2, <1>4, <1>5, <1>6, ReturnsExact

\* scan has come to the end of the text: everything printed is decided about.
LEMMA ScanEndsExact ==
    ASSUME IndInv, IndInv', Disjoint, NEW s \in Streams, ScanInv(s), ExactHere(s), ScanEnds(s)
    PROVE  ScanInv(s)' /\ ExactHere(s)'
<1>1. /\ pc[s] = "scan" /\ at[s] > Len(work[s]) /\ pc' = [pc EXCEPT ![s] = "sink"]
      /\ UNCHANGED <<shared, work, at, emitUpTo, out, holdover, final, passThrough, sinks, fed>>
  BY DEF ScanEnds, Goto, scanner
<1>2. pc'[s] = "sink" /\ holdover[s] = <<>>
  BY <1>1, FunctionTypes DEF IndInv, ScanInv
<1>3. Len(fed[s]) \in Nat /\ Decided(s) = Len(fed[s]) /\ Decided(s)' = Len(fed[s])
  <2>1. Len(work[s]) \in Nat /\ Len(fed[s]) \in Nat /\ at[s] \in 1..(Len(work[s]) + 1)
    BY Types DEF IndInv, TextInv
  <2>2. at[s] = Len(work[s]) + 1 /\ Len(work[s]) - at[s] + 1 = 0
    BY <1>1, <2>1
  <2>3. Decided(s) = Len(fed[s]) - 0
    BY <1>1, <2>2 DEF Decided
  <2>4. Len(<<>>) = 0
    OBVIOUS
  <2>5. Decided(s)' = Len(fed[s]) - 0
    BY <1>1, <1>2, <2>4 DEF Decided
  <2> QED BY <2>1, <2>3, <2>5
<1>4. Closed(s, Decided(s))
  BY <1>3 DEF Closed, Occurrences, Occurs
<1> QED BY <1>1, <1>2, <1>3, <1>4, ReturnsExact

-----------------------------------------------------------------------------
(* The sink, and the end of the stream *)

\* What the sink lets through is the redaction, as far as the cap allows.
LEMMA DeliverExact ==
    ASSUME IndInv, IndInv', Disjoint, NEW s \in Streams, ScanInv(s), ExactHere(s), Deliver(s)
    PROVE  ScanInv(s)' /\ ExactHere(s)'
<1>1. /\ pc[s] = "sink" /\ UNCHANGED <<patterns, holdover, final, passThrough, fed>>
      /\ IF s \in Capped THEN CappedWrite(s) ELSE FileWrite(s)
      /\ out' = [out EXCEPT ![s] = <<>>]
      /\ pc' = [pc EXCEPT ![s] = IF final[s] THEN "flushed" ELSE "idle"]
  BY DEF Deliver, Goto, shared
<1>2. /\ out'[s] = <<>> /\ pc'[s] \in {"flushed", "idle"} /\ (pc'[s] = "flushed" => final[s])
      /\ out[s] \in Seq(Output) /\ kept[s] \in Seq(Output)
      /\ Len(out[s]) \in Nat /\ Len(kept[s]) \in Nat /\ fed[s] \in Strings /\ Limit \in Nat
  BY <1>1, FunctionTypes, Types, SizesAssumption DEF IndInv
<1>3. Decided(s)' = Decided(s)
  BY <1>1, <1>2 DEF Decided
<1>4. ScanInv(s)'
  <2>1. Closed(s, Decided(s)) /\ (final[s] \/ patterns = {} => holdover[s] = <<>>)
    BY <1>1 DEF ScanInv
  <2>2. \A n : Closed(s, n) => Closed(s, n)'
    BY <1>1 DEF Closed
  <2>3. PICK n : n = Decided(s)
    OBVIOUS
  <2>4. Closed(s, n)' /\ n = Decided(s)'
    BY <1>3, <2>1, <2>2, <2>3
  <2>5. Closed(s, Decided(s))'
    BY <2>4 DEF Closed
  <2> QED BY <1>1, <1>2, <2>1, <2>5 DEF ScanInv
<1>5. CASE failed'[s]
  BY <1>4, <1>5 DEF ExactHere
<1>6. CASE ~failed'[s]
  <2>1. ~failed[s] /\ (s \notin Capped => Keep(s, Len(out[s])))
    <3>1. failed[s] => failed'[s]
      BY <1>1, FunctionTypes DEF IndInv, CappedWrite, FileWrite
    <3>2. ASSUME s \notin Capped PROVE Keep(s, Len(out[s]))
      BY <1>1, <1>6, <3>2, FunctionTypes DEF FileWrite, IndInv
    <3> QED BY <1>6, <3>1, <3>2
  <2>2. PICK n \in 0..Len(fed[s]) : Settled(s, n) /\ Exact(s, n)
    BY <2>1 DEF ExactHere
  <2>3. Settled(s, n)' /\ fed' = fed
    BY <1>1, <2>2 DEF Settled
  <2>4. PICK all \in Seq(Output) : all = Redaction(patterns, fed[s])[n]
    BY <1>2, Forms, RedactionSteps
  <2>5. \A m : Keep(s, m) => kept'[s] = kept[s] \o SubSeq(out[s], 1, m)
    BY FunctionTypes DEF IndInv, Keep
  <2>6. s \in Capped => kept'[s] = kept[s] \o SubSeq(out[s], 1, Smaller(Len(out[s]), Limit - Len(kept[s])))
    BY <1>1, <2>5 DEF CappedWrite
  <2>7. CASE passThrough[s]
    <3>1. s \in Capped /\ Len(kept[s]) = Limit
      BY <2>7 DEF IndInv, OutputInv
    <3>2. Smaller(Len(out[s]), Limit - Len(kept[s])) = 0
      BY <1>2, <3>1 DEF Smaller
    <3>3. SubSeq(out[s], 1, 0) = <<>> /\ kept[s] \o <<>> = kept[s]
      BY <1>2, ConcatEmptySeq
    <3>4. kept'[s] = kept[s]
      BY <2>6, <3>1, <3>2, <3>3
    <3>5. Limit <= Len(all) /\ kept[s] = SubSeq(all, 1, Limit)
      BY <2>2, <2>4, <2>7 DEF Exact
    <3>6. Exact(s, n)'
      BY <1>1, <2>4, <2>7, <3>4, <3>5 DEF Exact
    <3> QED BY <1>4, <2>3, <3>6 DEF ExactHere
  <2>8. CASE ~passThrough[s]
    <3>1. n = Decided(s)
      BY <2>2, <2>8, ExactMeans
    <3>2. PICK gone \in Seq(Output) : all = gone \o out[s] /\ kept[s] = Cut(s, gone)
      BY <2>2, <2>4, <2>8, ExactMeans DEF GoneAndRest
    <3>3. kept'[s] = Cut(s, all)
      <4>1. CASE s \in Capped
        <5>1. PICK rest \in Seq(Output) : rest = out[s]
          BY <1>2
        <5>2. Cut(s, gone \o rest)
                = Cut(s, gone) \o SubSeq(rest, 1, Smaller(Len(rest), Limit - Len(Cut(s, gone))))
          BY <4>1, CutJoin
        <5> QED BY <2>6, <3>2, <4>1, <5>1, <5>2, Zenon
      <4>2. CASE s \notin Capped
        <5>1. SubSeq(out[s], 1, Len(out[s])) = out[s]
          BY <1>2, SubSeqFull
        <5>2. Cut(s, gone) = gone /\ Cut(s, all) = all
          BY <4>2 DEF Cut
        <5> QED BY <2>1, <2>5, <3>2, <4>2, <5>1, <5>2
      <4> QED BY <4>1, <4>2
    <3>4. all \o <<>> = all /\ <<>> \in Seq(Output)
      BY ConcatEmptySeq
    <3>5. GoneAndRest(s, all, out'[s], kept'[s])
      BY <1>2, <3>3, <3>4, Zenon DEF GoneAndRest
    <3>6. Exact(s, n)'
      <4>1. TypeOK' /\ ~passThrough'[s] /\ n = Decided(s)' /\ all = Redaction(patterns', fed'[s])[n]
        BY <1>1, <1>3, <2>4, <2>8, <3>1 DEF IndInv
      <4> QED BY <3>5, <4>1, ExactNext
    <3> QED BY <1>4, <2>3, <3>6 DEF ExactHere
  <2> QED BY <2>7, <2>8
<1> QED BY <1>5, <1>6

\* Flush decides about what was held over; nothing more will be printed.
LEMMA FlushExact ==
    ASSUME IndInv, IndInv', Disjoint, NEW s \in Streams, ScanInv(s), ExactHere(s), Flush(s)
    PROVE  ScanInv(s)' /\ ExactHere(s)'
<1>1. /\ pc[s] = "idle" /\ final' = [final EXCEPT ![s] = TRUE]
      /\ UNCHANGED <<patterns, passThrough, truncated, failed, kept, fed>>
  BY DEF Flush, shared, sinks
<1>2. /\ final'[s] /\ out[s] = <<>> /\ Closed(s, Decided(s))
      /\ Decided(s) = Len(fed[s]) - Len(holdover[s])
  BY <1>1, FunctionTypes DEF IndInv, ScanInv, Decided
<1>3. \A n : Closed(s, n) => Closed(s, n)'
  BY <1>1 DEF Closed
<1>4. PICK d : d = Len(fed[s]) - Len(holdover[s])
  OBVIOUS
<1>5. Closed(s, d)'
  BY <1>2, <1>3, <1>4
<1>6. ScanInv(s)' /\ Decided(s)' = d /\ out'[s] = <<>>
  <2>1. CASE holdover[s] = <<>> /\ Goto(s, "flushed") /\ UNCHANGED scanner
    <3>1. pc'[s] = "flushed" /\ UNCHANGED <<out, holdover>>
      BY <2>1, FunctionTypes DEF Goto, IndInv, scanner
    <3>2. Decided(s)' = d
      BY <1>1, <1>4, <3>1 DEF Decided
    <3>3. Closed(s, Decided(s))'
      BY <1>5, <3>2 DEF Closed
    <3> QED BY <1>2, <2>1, <3>1, <3>2, <3>3 DEF ScanInv
  <2>2. CASE StartScan(s, holdover[s])
    <3>1. /\ pc'[s] = "scan" /\ work'[s] = holdover[s] /\ at'[s] = 1 /\ emitUpTo'[s] = 0
          /\ out'[s] = <<>> /\ holdover'[s] = <<>>
      BY <2>2, FunctionTypes DEF IndInv, StartScan, Goto
    <3>2. Decided(s)' = d
      <4>1. Decided(s)' = Len(fed[s]) - (Len(holdover[s]) - 1 + 1)
        BY <1>1, <3>1 DEF Decided
      <4>2. Len(holdover[s]) \in Nat
        BY Types DEF IndInv
      <4>3. Len(holdover[s]) - 1 + 1 = Len(holdover[s])
        BY <4>2
      <4> QED BY <1>4, <4>1, <4>3, Zenon
    <3>3. Closed(s, Len(fed[s]) - Len(work[s]))'
      BY <1>1, <1>4, <1>5, <3>1 DEF Closed
    <3>4. CoversFound(s)'
      BY <3>1 DEF CoversFound, Found
    <3> QED BY <3>1, <3>2, <3>3, <3>4 DEF ScanInv
  <2> QED BY <2>1, <2>2 DEF Flush
<1>7. CASE failed[s]
  BY <1>1, <1>6, <1>7 DEF ExactHere
<1>8. CASE ~failed[s]
  <2>1. PICK n \in 0..Len(fed[s]) : Exact(s, n)
    BY <1>8 DEF ExactHere
  <2>2. Settled(s, n)'
    BY <1>2 DEF Settled
  <2>3. Exact(s, n)'
    BY <1>1, <1>2, <1>4, <1>6, <2>1 DEF Exact
  <2> QED BY <1>1, <1>6, <2>2, <2>3 DEF ExactHere
<1> QED BY <1>7, <1>8

\* Destroy changes no text.
LEMMA DestroyExact ==
    ASSUME IndInv, IndInv', Disjoint, NEW s \in Streams, ScanInv(s), ExactHere(s), Destroy(s)
    PROVE  ScanInv(s)' /\ ExactHere(s)'
<1>1. /\ pc[s] = "flushed" /\ pc' = [pc EXCEPT ![s] = "destroyed"]
      /\ UNCHANGED <<patterns, work, at, emitUpTo, out, holdover, final, passThrough, sinks, fed>>
  BY DEF Destroy, Goto, scanner
<1>2. pc'[s] = "destroyed"
  BY <1>1, FunctionTypes DEF IndInv
<1>3. Decided(s)' = Decided(s)
  BY <1>1, <1>2 DEF Decided
<1>4. \A n : /\ Closed(s, n) => Closed(s, n)'
             /\ Settled(s, n) => Settled(s, n)'
             /\ Exact(s, n) => Exact(s, n)'
  BY <1>1, <1>3 DEF Closed, Settled, Exact, sinks
<1>5. PICK d : d = Decided(s) /\ d = Decided(s)'
  BY <1>3
<1>6. Closed(s, d)'
  BY <1>1, <1>4, <1>5 DEF ScanInv
<1>7. Closed(s, Decided(s))'
  BY <1>5, <1>6 DEF Closed
<1>8. ScanInv(s)'
  BY <1>1, <1>2, <1>7 DEF ScanInv
<1> QED BY <1>1, <1>4, <1>8 DEF ExactHere, sinks

-----------------------------------------------------------------------------
(* Write *)

\* What was settled before more is printed stays so, and its redaction with it.
LEMMA PrintedMore ==
    ASSUME IndInv, Disjoint, NEW s \in Streams, NEW p \in Strings, ~final[s],
           fed'[s] = fed[s] \o p, patterns' = patterns, final' = final,
           NEW n \in 0..Len(fed[s]), Settled(s, n)
    PROVE  /\ Len(fed'[s]) = Len(fed[s]) + Len(p) /\ n \in 0..Len(fed'[s])
           /\ Settled(s, n)' /\ (Closed(s, n) => Closed(s, n)')
           /\ Redaction(patterns', fed'[s])[n] = Redaction(patterns, fed[s])[n]
<1>1. /\ fed[s] \in Strings /\ Len(fed[s]) \in Nat /\ Len(p) \in Nat
      /\ Len(fed'[s]) = Len(fed[s]) + Len(p)
  BY Types DEF IndInv, Strings
<1>2. n \in 0..Len(fed'[s])
  BY <1>1
<1>3. \A i \in 1..n : \A q \in patterns : ~Begins(fed[s], i, q.value)
  BY DEF Settled
<1>4. patterns \in SUBSET PatternType /\ Apart(patterns)
  BY Forms
<1>5. /\ \A i \in 1..n : Occurrences(patterns, fed'[s], i) = Occurrences(patterns, fed[s], i)
      /\ Redaction(patterns, fed'[s])[n] = Redaction(patterns, fed[s])[n]
  <2>1. PICK text \in Strings : text = fed[s]
    BY <1>1
  <2>2. fed'[s] = text \o p /\ n \in 0..Len(text)
        /\ \A i \in 1..n : \A q \in patterns : ~Begins(text, i, q.value)
    BY <1>3, <2>1
  <2>3. /\ \A i \in 1..n : Occurrences(patterns, text \o p, i) = Occurrences(patterns, text, i)
        /\ Redaction(patterns, text \o p)[n] = Redaction(patterns, text)[n]
    BY <1>4, <2>2, MoreTextKeeps
  <2> QED BY <2>1, <2>2, <2>3, Zenon
<1>6. ASSUME NEW i \in 1..n, NEW q \in patterns
      PROVE  ~Begins(fed'[s], i, q.value)
  <2>1. i \in 1..Len(fed[s]) /\ q.value \in Strings
    BY <1>1, <1>4 DEF PatternType
  <2> QED BY <1>1, <1>3, <2>1, MoreTextFinds
<1>7. Settled(s, n)'
  BY <1>6 DEF Settled
<1>8. Closed(s, n) => Closed(s, n)'
  BY <1>5 DEF Closed
<1> QED BY <1>1, <1>2, <1>5, <1>7, <1>8

\* Write without scanning: there are no forms, or the cap is full of the redaction.
LEMMA BypassExact ==
    ASSUME IndInv, IndInv', Disjoint, NEW s \in Streams, NEW p \in Strings,
           ScanInv(s), ExactHere(s), Write(s, p), Bypass(s, p),
           \/ patterns = {} /\ UNCHANGED passThrough
           \/ /\ passThrough[s] \/ truncated[s]
              /\ passThrough' = [passThrough EXCEPT ![s] = TRUE]
    PROVE  ScanInv(s)' /\ ExactHere(s)'
<1>1. /\ pc[s] = "idle" /\ ~failed[s] /\ pc' = [pc EXCEPT ![s] = "sink"]
      /\ out' = [out EXCEPT ![s] = Plain(p, Len(fed[s]) + 1)]
      /\ holdover' = [holdover EXCEPT ![s] = <<>>] /\ fed' = [fed EXCEPT ![s] = @ \o p]
      /\ UNCHANGED <<patterns, final, truncated, failed, kept>>
  BY DEF Write, Bypass, Goto, shared, sinks
<1>2. /\ pc'[s] = "sink" /\ holdover'[s] = <<>> /\ out'[s] = Plain(p, Len(fed[s]) + 1)
      /\ fed'[s] = fed[s] \o p /\ ~final[s] /\ out[s] = <<>>
      /\ Decided(s) = Len(fed[s]) - Len(holdover[s])
  BY <1>1, FunctionTypes DEF IndInv, TextInv, ScanInv, Decided
<1>3. /\ fed[s] \in Strings /\ Len(fed[s]) \in Nat /\ Len(p) \in Nat
      /\ Len(fed'[s]) \in Nat /\ fed'[s] \in Strings
      /\ Len(fed'[s]) = Len(fed[s]) + Len(p)
  BY <1>2, Types DEF IndInv, Strings
<1>4. Decided(s)' = Len(fed'[s])
  <2>1. Decided(s)' = Len(fed'[s]) - Len(<<>>)
    BY <1>2 DEF Decided
  <2>2. Len(<<>>) = 0
    OBVIOUS
  <2> QED BY <1>3, <2>1, <2>2
<1>5. ScanInv(s)'
  <2>1. Closed(s, Decided(s))'
    BY <1>3, <1>4 DEF Closed, Occurrences, Occurs
  <2> QED BY <1>2, <2>1 DEF ScanInv
<1>6. PICK n \in 0..Len(fed[s]) : Settled(s, n) /\ Exact(s, n)
  BY <1>1 DEF ExactHere
<1>7. /\ n \in 0..Len(fed'[s]) /\ Settled(s, n)'
      /\ Redaction(patterns', fed'[s])[n] = Redaction(patterns, fed[s])[n]
  BY <1>1, <1>2, <1>6, PrintedMore
<1>8. PICK all \in Seq(Output) : all = Redaction(patterns, fed[s])[n]
  BY <1>3, Forms, RedactionSteps
<1>9. CASE passThrough[s]
  <2>1. passThrough'[s]
    BY <1>9, FunctionTypes DEF IndInv
  <2>2. Limit <= Len(all) /\ kept[s] = SubSeq(all, 1, Limit)
    BY <1>6, <1>8, <1>9 DEF Exact
  <2>3. Exact(s, n)'
    BY <1>1, <1>7, <1>8, <2>1, <2>2 DEF Exact
  <2> QED BY <1>5, <1>7, <2>3 DEF ExactHere
<1>10. ASSUME ~passThrough[s]
       PROVE  n = Decided(s) /\ kept[s] = Cut(s, all)
  <2>1. PICK gone \in Seq(Output) : all = gone \o out[s] /\ kept[s] = Cut(s, gone)
    BY <1>6, <1>8, <1>10, ExactMeans DEF GoneAndRest
  <2>2. gone \o <<>> = gone
    BY ConcatEmptySeq
  <2> QED BY <1>2, <1>6, <1>10, <2>1, <2>2, ExactMeans
<1>11. CASE ~passThrough[s] /\ passThrough' = [passThrough EXCEPT ![s] = TRUE] /\ truncated[s]
  <2>1. passThrough'[s] /\ s \in Capped /\ Len(kept[s]) = Limit
    BY <1>11, FunctionTypes DEF IndInv, OutputInv
  <2>2. kept[s] = SubSeq(all, 1, Smaller(Limit, Len(all)))
    BY <1>10, <1>11, <2>1 DEF Cut
  <2>3. Len(all) \in Nat /\ Limit \in Nat /\ Smaller(Limit, Len(all)) \in 0..Len(all)
    BY SizesAssumption DEF Smaller
  <2>4. \A m \in 0..Len(all) : Len(SubSeq(all, 1, m)) = m
    OBVIOUS
  <2>5. Smaller(Limit, Len(all)) = Limit
    BY <2>1, <2>2, <2>3, <2>4, Zenon
  <2>6. Limit <= Len(all)
    BY <2>3, <2>5
  <2>7. Exact(s, n)'
    BY <1>1, <1>7, <1>8, <2>1, <2>2, <2>5, <2>6 DEF Exact
  <2> QED BY <1>5, <1>7, <2>7 DEF ExactHere
<1>12. CASE ~passThrough[s] /\ patterns = {} /\ UNCHANGED passThrough
  <2>1. holdover[s] = <<>> /\ n = Len(fed[s])
    <3>1. holdover[s] = <<>>
      BY <1>1, <1>12 DEF ScanInv
    <3>2. n = Len(fed[s]) - Len(<<>>)
      BY <1>2, <1>10, <1>12, <3>1
    <3>3. Len(<<>>) = 0
      OBVIOUS
    <3> QED BY <1>3, <3>1, <3>2, <3>3
  <2>2. all = Plain(fed[s], 1)
    BY <1>3, <1>8, <1>12, <2>1, NothingToFind
  <2>3. PICK more : more = Redaction(patterns', fed'[s])[Len(fed'[s])]
    OBVIOUS
  <2>4. more = Plain(fed[s] \o p, 1)
    BY <1>1, <1>2, <1>3, <1>12, <2>3, NothingToFind
  <2>5. 1 + Len(fed[s]) = Len(fed[s]) + 1 /\ 1 \in Nat
    BY <1>3
  <2>6. Plain(fed[s], 1) \o Plain(p, 1 + Len(fed[s])) = Plain(fed[s] \o p, 1)
    BY <1>3, <2>5, PlainJoin
  <2>7. more = all \o out'[s]
    BY <1>2, <2>2, <2>4, <2>5, <2>6, Zenon
  <2>8. more \in Seq(Output)
    BY <1>2, <1>3, <2>4, <2>5, PlainType
  <2>9. GoneAndRest(s, more, out'[s], kept'[s])
    BY <1>1, <1>10, <1>12, <2>7, Zenon DEF GoneAndRest
  <2>10. PICK k : k = Len(fed'[s])
    OBVIOUS
  <2>11. Exact(s, k)'
    BY <1>4, <1>12, <2>3, <2>8, <2>9, <2>10, ExactNext DEF IndInv
  <2>12. Settled(s, k)' /\ k \in 0..Len(fed'[s])
    BY <1>1, <1>3, <1>12, <2>10 DEF Settled
  <2> QED BY <1>5, <2>11, <2>12 DEF ExactHere
<1> QED BY <1>9, <1>11, <1>12

\* Write: what is scanned begins where what is decided about ends.
LEMMA WriteExact ==
    ASSUME IndInv, IndInv', Disjoint, NEW s \in Streams, NEW p \in Strings,
           ScanInv(s), ExactHere(s), Write(s, p)
    PROVE  ScanInv(s)' /\ ExactHere(s)'
<1>1. /\ pc[s] = "idle" /\ ~failed[s] /\ fed' = [fed EXCEPT ![s] = @ \o p]
      /\ UNCHANGED <<patterns, final, truncated, failed, kept>>
  BY DEF Write, shared, sinks
<1>2. Live = patterns
  BY <1>1, Users
<1>3. CASE /\ Bypass(s, p)
           /\ \/ patterns = {} /\ UNCHANGED passThrough
              \/ /\ passThrough[s] \/ truncated[s]
                 /\ passThrough' = [passThrough EXCEPT ![s] = TRUE]
  BY <1>3, BypassExact
<1>4. CASE StartScan(s, holdover[s] \o p) /\ ~passThrough[s] /\ UNCHANGED passThrough
  <2>1. /\ pc'[s] = "scan" /\ work'[s] = holdover[s] \o p /\ at'[s] = 1 /\ emitUpTo'[s] = 0
        /\ out'[s] = <<>> /\ holdover'[s] = <<>> /\ fed'[s] = fed[s] \o p
        /\ ~final[s] /\ out[s] = <<>> /\ ~passThrough'[s] /\ Closed(s, Decided(s))
        /\ Decided(s) = Len(fed[s]) - Len(holdover[s])
    BY <1>1, <1>4, FunctionTypes DEF IndInv, StartScan, Goto, TextInv, ScanInv, Decided
  <2>2. PICK n \in 0..Len(fed[s]) : Settled(s, n) /\ Exact(s, n)
    BY <1>1 DEF ExactHere
  <2>3. n = Decided(s) /\ GoneAndRest(s, Redaction(patterns, fed[s])[n], out[s], kept[s])
    BY <1>4, <2>2, ExactMeans
  <2>4. /\ Len(fed'[s]) = Len(fed[s]) + Len(p) /\ n \in 0..Len(fed'[s])
        /\ Settled(s, n)' /\ Closed(s, n)'
        /\ Redaction(patterns', fed'[s])[n] = Redaction(patterns, fed[s])[n]
    BY <1>1, <2>1, <2>2, <2>3, PrintedMore
  <2>5. Len(fed'[s]) - Len(work'[s]) = n /\ Decided(s)' = n
    <3>1. Len(work'[s]) = Len(holdover[s]) + Len(p)
      BY <2>1, Types DEF IndInv, Strings
    <3>2. Decided(s)' = Len(fed'[s]) - (Len(work'[s]) - 1 + 1)
      BY <2>1 DEF Decided
    <3>3. Len(fed[s]) \in Nat /\ Len(holdover[s]) \in Nat /\ Len(p) \in Nat
      BY Types DEF IndInv, Strings
    <3>4. PICK f \in Nat, h \in Nat, l \in Nat : f = Len(fed[s]) /\ h = Len(holdover[s]) /\ l = Len(p)
      BY <3>3
    <3>5. n = f - h /\ Len(fed'[s]) = f + l /\ Len(work'[s]) = h + l
      BY <2>1, <2>3, <2>4, <3>1, <3>4, Zenon
    <3>6. (f + l) - (h + l) = f - h /\ (f + l) - (h + l - 1 + 1) = f - h
      OBVIOUS
    <3>7. Len(fed'[s]) - Len(work'[s]) = n
      BY <3>5, <3>6, Zenon
    <3>8. Decided(s)' = (f + l) - (h + l - 1 + 1)
      <4>1. PICK g, w : g = Len(fed'[s]) /\ w = Len(work'[s])
        OBVIOUS
      <4>2. Decided(s)' = g - (w - 1 + 1) /\ g = f + l /\ w = h + l
        BY <3>2, <3>5, <4>1, Zenon
      <4> QED BY <4>2
    <3> QED BY <3>5, <3>6, <3>7, <3>8
  <2>6. ScanInv(s)'
    <3>1. Closed(s, Len(fed[s]) - Len(work[s]))'
      BY <2>4, <2>5 DEF Closed
    <3>2. CoversFound(s)'
      BY <2>1 DEF CoversFound, Found
    <3> QED BY <2>1, <3>1, <3>2 DEF ScanInv
  <2>7. Redaction(patterns, fed[s])[n] \in Seq(Output)
    BY Types, Forms, RedactionSteps DEF IndInv
  <2>8. Exact(s, n)'
    BY <1>1, <2>1, <2>3, <2>4, <2>5, <2>7, ExactNext DEF IndInv
  <2> QED BY <2>4, <2>6, <2>8 DEF ExactHere
<1> QED BY <1>2, <1>3, <1>4 DEF Write

-----------------------------------------------------------------------------
(* The theorems *)

\* Nothing has been printed, and nothing let go.
LEMMA InitExact == Init => ExactInv
<1> SUFFICES ASSUME Init PROVE ExactInv
  OBVIOUS
<1>1. IndInv
  BY InitInv
<1>2. ASSUME Disjoint, NEW s \in Streams
      PROVE  ScanInv(s) /\ ExactHere(s)
  <2>1. /\ pc[s] = "idle" /\ holdover[s] = <<>> /\ fed[s] = <<>> /\ out[s] = <<>>
        /\ kept[s] = <<>> /\ ~passThrough[s]
    BY DEF Init
  <2>2. Len(fed[s]) = 0 /\ Decided(s) = 0 /\ fed[s] \in Strings
    BY <2>1 DEF Decided, Strings
  <2>3. Closed(s, 0) /\ Settled(s, 0)
    BY DEF Closed, Settled
  <2>4. ScanInv(s)
    BY <2>1, <2>2, <2>3 DEF ScanInv, Closed
  <2>5. Redaction(patterns, fed[s])[0] = <<>>
    BY <1>1, <1>2, <2>2, Forms, RedactionSteps
  <2>6. GoneAndRest(s, <<>>, <<>>, <<>>)
    <3>1. <<>> \in Seq(Output) /\ <<>> = <<>> \o <<>>
      BY ConcatEmptySeq
    <3>2. Cut(s, <<>>) = <<>>
      <4>1. Smaller(Limit, Len(<<>>)) = 0
        BY SizesAssumption DEF Smaller
      <4>2. SubSeq(<<>>, 1, 0) = <<>>
        OBVIOUS
      <4> QED BY <4>1, <4>2 DEF Cut
    <3> QED BY <3>1, <3>2 DEF GoneAndRest
  <2>7. Exact(s, 0)
    <3>1. 0 \in 0..Len(fed[s])
      BY <2>2
    <3> QED BY <1>1, <1>2, <2>1, <2>2, <2>5, <2>6, <3>1, ExactMeans
  <2> QED BY <2>2, <2>3, <2>4, <2>7 DEF ExactHere
<1> QED BY <1>1, <1>2 DEF ExactInv

\* A step of one stream leaves the others as they are.
LEMMA OthersSameExact ==
    ASSUME IndInv, NEW s \in Streams, NEW r \in Streams \ {s},
           \/ \E p \in Strings : Write(s, p)
           \/ Scan(s) \/ Deliver(s) \/ Flush(s) \/ Destroy(s)
    PROVE  patterns' = patterns /\ SameExact(r)
<1>1. CASE \E p \in Strings : Write(s, p)
  BY <1>1, FunctionTypes DEF IndInv, Write, Bypass, StartScan, Goto, SameExact, Same, shared, sinks
<1>2. CASE Replace(s) \/ Suppress(s) \/ PassOn(s)
  BY <1>2, FunctionTypes
  DEF IndInv, Replace, Suppress, PassOn, Advance, SameExact, Same, shared, sinks
<1>3. CASE HoldOver(s) \/ ScanEnds(s)
  BY <1>3, FunctionTypes DEF IndInv, HoldOver, ScanEnds, Goto, SameExact, Same, shared, sinks, scanner
<1>4. CASE Deliver(s)
  <2>1. kept'[r] = kept[r] /\ truncated'[r] = truncated[r] /\ failed'[r] = failed[r]
    BY <1>4, FunctionTypes DEF IndInv, Deliver, CappedWrite, FileWrite, Keep
  <2> QED BY <1>4, <2>1, FunctionTypes DEF IndInv, Deliver, Goto, SameExact, Same, shared
<1>5. CASE Flush(s)
  BY <1>5, FunctionTypes DEF IndInv, Flush, StartScan, Goto, SameExact, Same, shared, sinks, scanner
<1>6. CASE Destroy(s)
  BY <1>6, FunctionTypes DEF IndInv, Destroy, Goto, SameExact, Same, sinks, scanner
<1> QED BY <1>1, <1>2, <1>3, <1>4, <1>5, <1>6 DEF Scan

\* Every step keeps the invariant.
LEMMA NextExact == ExactInv /\ [Next]_vars => ExactInv'
<1> SUFFICES ASSUME ExactInv, [Next]_vars PROVE ExactInv'
  OBVIOUS
<1>1. IndInv /\ IndInv'
  BY NextKeeps DEF ExactInv
<1>2. CASE UNCHANGED vars
  <2>1. patterns' = patterns /\ \A r \in Streams : SameExact(r)
    BY <1>2 DEF SameExact, Same, vars, shared, scanner, sinks
  <2>2. Disjoint' => Disjoint
    BY <2>1 DEF Disjoint
  <2> QED BY <1>1, <2>1, <2>2, OthersStayExact DEF ExactInv
<1>3. ASSUME NEW s \in Streams,
             \/ \E p \in Strings : Write(s, p)
             \/ Scan(s) \/ Deliver(s) \/ Flush(s) \/ Destroy(s)
      PROVE  ExactInv'
  <2>1. patterns' = patterns
    BY <1>3 DEF Write, Scan, Replace, Suppress, PassOn, HoldOver, ScanEnds, Deliver, Flush,
                Destroy, shared
  <2>2. SUFFICES ASSUME Disjoint PROVE \A r \in Streams : ScanInv(r)' /\ ExactHere(r)'
    BY <1>1, <2>1 DEF ExactInv, Disjoint
  <2>3. \A r \in Streams : ScanInv(r) /\ ExactHere(r)
    BY <2>2 DEF ExactInv
  <2>4. ScanInv(s)' /\ ExactHere(s)'
    BY <1>1, <1>3, <2>2, <2>3, WriteExact, ReplaceExact, SuppressExact, HoldOverExact,
       PassOnExact, ScanEndsExact, DeliverExact, FlushExact, DestroyExact DEF Scan
  <2>5. \A r \in Streams \ {s} : ScanInv(r)' /\ ExactHere(r)'
    BY <1>1, <1>3, <2>1, <2>3, OthersSameExact, OthersStayExact
  <2> QED BY <2>4, <2>5
<1>4. ASSUME NEW s \in Streams, NEW p \in Pieces PROVE p \in Strings
  BY DEF Pieces, Strings
<1> QED BY <1>2, <1>3, <1>4 DEF Next

\* While forms cannot overlap, what a writer has let go is at every moment the
\* redaction of the first bytes printed, about which it has decided for good.
THEOREM ExactInvHolds == Spec => []ExactInv
BY InitExact, NextExact, PTL DEF Spec

\* When no two forms can share a byte, the reader of a stream that has been
\* flushed has the redaction of the child's whole output, up to the cap, however
\* the output was cut into pieces: nothing innocent is lost, nothing comes twice.
THEOREM OutputIsTheRedaction == Spec => []OutputIsExact
<1>1. ASSUME ExactInv, Disjoint, NEW s \in Streams, Flushed(s)
      PROVE  kept[s] = Cut(s, Redacted(s))
  <2>1. /\ IndInv /\ ScanInv(s) /\ ExactHere(s) /\ ~failed[s]
        /\ pc[s] \in {"flushed", "destroyed"}
    BY <1>1 DEF ExactInv, Flushed
  <2>2. holdover[s] = <<>> /\ out[s] = <<>>
    BY <2>1 DEF ScanInv
  <2>3. Len(fed[s]) \in Nat /\ fed[s] \in Strings
    BY <2>1, Types DEF IndInv
  <2>4. PICK n \in 0..Len(fed[s]) : Exact(s, n)
    BY <2>1 DEF ExactHere
  <2>5. PICK all \in Seq(Output), more \in Seq(Output) :
           all = Redaction(patterns, fed[s])[n] /\ more = Redacted(s)
    <3>1. Len(fed[s]) \in 0..Len(fed[s])
      BY <2>3
    <3> QED BY <1>1, <2>1, <2>3, <3>1, Forms, RedactionSteps DEF Redacted
  <2>6. CASE passThrough[s]
    <3>1. s \in Capped /\ Limit <= Len(all) /\ kept[s] = SubSeq(all, 1, Limit)
      BY <2>1, <2>4, <2>5, <2>6 DEF Exact, IndInv, OutputInv
    <3>2. PICK rest \in Seq(Output) : more = all \o rest
      <4>1. Len(fed[s]) \in n..Len(fed[s])
        BY <2>3
      <4> QED BY <1>1, <2>1, <2>3, <2>5, <4>1, Forms, RedactionAdds DEF Redacted
    <3> QED BY <2>5, <3>1, <3>2, CutFull
  <2>7. CASE ~passThrough[s]
    <3>1. n = Decided(s) /\ GoneAndRest(s, all, out[s], kept[s])
      BY <1>1, <2>1, <2>4, <2>5, <2>7, ExactMeans
    <3>2. Decided(s) = Len(fed[s])
      BY <2>1, <2>2, <2>3 DEF Decided
    <3>3. PICK gone \in Seq(Output) : all = gone \o <<>> /\ kept[s] = Cut(s, gone)
      BY <2>2, <3>1 DEF GoneAndRest
    <3>4. gone \o <<>> = gone
      BY ConcatEmptySeq
    <3> QED BY <2>5, <3>1, <3>2, <3>3, <3>4 DEF Redacted
  <2> QED BY <2>6, <2>7
<1>2. ExactInv => OutputIsExact
  BY <1>1 DEF OutputIsExact
<1> QED BY <1>2, ExactInvHolds, PTL
=============================================================================
