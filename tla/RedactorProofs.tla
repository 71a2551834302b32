--------------------------- MODULE RedactorProofs ---------------------------
(***************************************************************************)
(* Proofs about Redactor: no form of a secret ever comes out whole,        *)
(* whatever the secrets, the cuts in the child's output and the cap.       *)
(***************************************************************************)
EXTENDS Redactor, FiniteSetTheorems, TLAPS

(* Texts *)

\* What the end of a text shows of a value is what the whole text shows.
LEMMA SuffixShows ==
    ASSUME NEW text \in Strings, NEW whole \in Strings, Suffix(text, whole),
           NEW value \in Strings, NEW i \in 1..Len(text)
    PROVE  /\ Agrees(text, i, value) <=> Agrees(whole, Len(whole) - Len(text) + i, value)
           /\ Occurs(text, i, value) <=> Occurs(whole, Len(whole) - Len(text) + i, value)
<1>1. Len(text) \in Nat /\ Len(whole) \in Nat /\ Len(text) <= Len(whole)
  BY DEF Suffix, Strings
<1>2. Len(whole) - Len(text) \in Nat
  BY <1>1
<1>3. PICK d \in Nat : d = Len(whole) - Len(text)
  BY <1>2
<1>4. /\ Len(text) \in Nat /\ Len(whole) \in Nat /\ Len(value) \in Nat /\ i \in Nat
      /\ Len(whole) = d + Len(text)
  BY <1>1, <1>3 DEF Strings
<1>5. \A j \in 1..Len(text) : text[j] = whole[d + j]
  BY <1>3 DEF Suffix
<1>6. \A k \in 1..Len(value) :
        /\ i + k - 1 <= Len(text) <=> d + i + k - 1 <= Len(whole)
        /\ i + k - 1 <= Len(text) => text[i + k - 1] = whole[d + i + k - 1]
  <2>1. ASSUME NEW k \in 1..Len(value), i + k - 1 <= Len(text)
        PROVE  text[i + k - 1] = whole[d + i + k - 1]
    <3>1. i + k - 1 \in 1..Len(text) /\ d + (i + k - 1) = d + i + k - 1
      BY <1>4, <2>1
    <3> QED BY <1>5, <3>1
  <2> QED BY <1>4, <2>1
<1>7. Agrees(text, i, value) <=> Agrees(whole, d + i, value)
  BY <1>6 DEF Agrees
<1>8. i + Len(value) - 1 <= Len(text) <=> d + i + Len(value) - 1 <= Len(whole)
  BY <1>4
<1> QED BY <1>3, <1>4, <1>7, <1>8 DEF Occurs

\* The end of a text is still its end when both grow.
LEMMA SuffixGrows ==
    ASSUME NEW text \in Strings, NEW whole \in Strings, NEW p \in Strings,
           Suffix(text, whole)
    PROVE  Suffix(text \o p, whole \o p)
<1> DEFINE d == Len(whole) - Len(text)
<1>1. /\ Len(text) \in Nat /\ Len(whole) \in Nat /\ Len(p) \in Nat /\ d \in Nat
      /\ \A j \in 1..Len(text) : text[j] = whole[d + j]
  BY DEF Suffix, Strings
<1>2. Len(text \o p) = Len(text) + Len(p) /\ Len(whole \o p) = Len(whole) + Len(p)
  BY DEF Strings
<1>3. ASSUME NEW i \in 1..Len(text \o p)
      PROVE  (text \o p)[i] = (whole \o p)[d + i]
  <2>1. CASE i <= Len(text)
    BY <1>1, <1>2, <2>1 DEF Strings
  <2>2. CASE i > Len(text)
    BY <1>1, <1>2, <2>2 DEF Strings
  <2> QED BY <1>1, <1>2, <2>1, <2>2
<1> QED BY <1>1, <1>2, <1>3 DEF Suffix

LEMMA SuffixOfSuffix ==
    ASSUME NEW text \in Strings, NEW whole \in Strings, Suffix(text, whole),
           NEW i \in 1..Len(text)
    PROVE  /\ SubSeq(text, i, Len(text)) \in Strings
           /\ Suffix(SubSeq(text, i, Len(text)), whole)
<1> DEFINE end == SubSeq(text, i, Len(text))
<1>1. /\ Len(text) \in Nat /\ Len(whole) \in Nat /\ i \in Nat /\ Len(text) <= Len(whole)
      /\ \A j \in 1..Len(text) : text[j] = whole[Len(whole) - Len(text) + j]
  BY DEF Suffix, Strings
<1>2. /\ end \in Seq(Bytes) /\ Len(end) = Len(text) - i + 1
      /\ \A j \in 1..Len(end) : end[j] = text[i + j - 1]
  BY <1>1 DEF Strings
<1>3. ASSUME NEW j \in 1..Len(end)
      PROVE  end[j] = whole[Len(whole) - Len(end) + j]
  <2>1. i + j - 1 \in 1..Len(text)
    BY <1>1, <1>2
  <2>2. Len(whole) - Len(text) + (i + j - 1) = Len(whole) - Len(end) + j
    BY <1>1, <1>2
  <2> QED BY <1>1, <1>2, <2>1, <2>2
<1> QED BY <1>1, <1>2, <1>3 DEF Suffix, Strings

LEMMA EmptySuffix ==
    ASSUME NEW whole \in Strings
    PROVE  <<>> \in Strings /\ Suffix(<<>>, whole)
BY DEF Suffix, Strings

\* Where a text already differs from a value, more text makes no difference.
LEMMA MoreText ==
    ASSUME NEW text \in Strings, NEW p \in Strings, NEW value \in Strings,
           NEW i \in 1..Len(text), ~Agrees(text, i, value)
    PROVE  i \in 1..Len(text \o p) /\ ~Agrees(text \o p, i, value)
<1>1. PICK k \in 1..Len(value) : i + k - 1 <= Len(text) /\ text[i + k - 1] # value[k]
  BY DEF Agrees
<1>2. i + k - 1 \in 1..Len(text) /\ Len(text \o p) = Len(text) + Len(p) /\ Len(p) \in Nat
  BY <1>1 DEF Strings
<1>3. (text \o p)[i + k - 1] = text[i + k - 1]
  BY <1>2 DEF Strings
<1> QED BY <1>1, <1>2, <1>3 DEF Agrees, Strings

-----------------------------------------------------------------------------
(* Patterns and output *)

PatternType == [name : Names, value : Strings \ {<<>>}]

LEMMA ElementOf == \A S, q : q \in Seq(S) => \A i \in DOMAIN q : q[i] \in S
OBVIOUS

LEMMA PatternsTyped ==
    ASSUME NEW family \in Families
    PROVE  PatternsOf(family) \subseteq PatternType
<1>1. \A s \in DOMAIN family : family[s] \in [name : Names, value : Strings]
  <2>1. family \in Seq([name : Names, value : Strings])
    BY FamiliesAssumption
  <2> QED BY <2>1, ElementOf
<1>2. ASSUME NEW f \in FormIndex(family)
      PROVE  family[f[1]].name \in Names /\ FormAt(family, f) \in Strings \ {<<>>}
  <2>1. PICK s \in DOMAIN family : f \in {s} \X DOMAIN FormsOf(family[s].value)
    BY <1>2 DEF FormIndex
  <2>2. f[1] = s /\ f[2] \in DOMAIN FormsOf(family[s].value)
    BY <2>1
  <2>3. family[s] \in [name : Names, value : Strings]
    BY <1>1, <2>1
  <2>4. family[s].name \in Names /\ family[s].value \in Strings
    BY <2>3
  <2>5. Encoded[family[s].value] \in Seq(Strings \ {<<>>})
    BY <2>1, EncodedAssumption
  <2>6. FormsOf(family[s].value) \in Seq(Strings \ {<<>>})
    <3>1. CASE family[s].value = <<>>
      BY <3>1 DEF FormsOf
    <3>2. CASE family[s].value # <<>>
      <4>1. <<family[s].value>> \in Seq(Strings \ {<<>>})
        BY <2>4, <3>2
      <4>2. (IF Len(family[s].value) < MinRawLen THEN <<>> ELSE Encoded[family[s].value])
              \in Seq(Strings \ {<<>>})
        BY <2>5
      <4> QED BY <3>2, <4>1, <4>2 DEF FormsOf
    <3> QED BY <3>1, <3>2
  <2>7. FormsOf(family[s].value)[f[2]] \in Strings \ {<<>>}
    BY <2>2, <2>6
  <2> QED BY <2>2, <2>4, <2>7 DEF FormAt
<1> QED BY <1>2 DEF PatternsOf, PatternType, Registered

LEMMA Types ==
    ASSUME TypeOK, NEW s \in Streams
    PROVE  /\ patterns \subseteq PatternType
           /\ work[s] \in Strings /\ holdover[s] \in Strings /\ fed[s] \in Strings
           /\ out[s] \in Seq(Output) /\ kept[s] \in Seq(Output)
           /\ at[s] \in Nat /\ emitUpTo[s] \in Nat
           /\ Len(work[s]) \in Nat /\ Len(holdover[s]) \in Nat /\ Len(fed[s]) \in Nat
           /\ Len(out[s]) \in Nat /\ Len(kept[s]) \in Nat
<1>1. /\ work \in [Streams -> Strings] /\ holdover \in [Streams -> Strings]
      /\ fed \in [Streams -> Strings]
      /\ out \in [Streams -> Seq(Output)] /\ kept \in [Streams -> Seq(Output)]
      /\ at \in [Streams -> Nat] /\ emitUpTo \in [Streams -> Nat]
  BY DEF TypeOK
<1> QED BY <1>1 DEF TypeOK, PatternType, Strings

LEMMA PlainType ==
    ASSUME NEW text \in Strings, NEW i \in Nat
    PROVE  /\ Plain(text, i) \in Seq(Output)
           /\ Len(Plain(text, i)) = Len(text)
           /\ \A k \in 1..Len(text) : Plain(text, i)[k].at = i + k - 1
<1>1. Len(text) \in Nat /\ \A k \in 1..Len(text) : text[k] \in Nat /\ i + k - 1 \in Nat
  <2>1. Len(text) \in Nat /\ \A k \in 1..Len(text) : text[k] \in Bytes
    BY DEF Strings
  <2>2. \A k \in 1..Len(text) : text[k] \in Nat
    BY <2>1, BytesAssumption
  <2>3. \A k \in 1..Len(text) : i + k - 1 \in Nat
    OBVIOUS
  <2> QED BY <2>1, <2>2, <2>3
<1> QED BY <1>1 DEF Plain, Output

LEMMA TokenType ==
    ASSUME NEW name \in Names, NEW i \in Nat
    PROVE  /\ Token(name, i) \in Seq(Output)
           /\ \A k \in 1..Len(Token(name, i)) : Token(name, i)[k].token = name
BY SizesAssumption DEF Token, Output

\* Clean output followed by clean output is clean.
LEMMA CleanJoin ==
    ASSUME NEW s \in Streams, NEW a \in Seq(Output), NEW b \in Seq(Output),
           Clean(s, a), Clean(s, b)
    PROVE  Clean(s, a \o b)
<1>1. /\ Len(a) \in Nat /\ Len(b) \in Nat /\ Len(a \o b) = Len(a) + Len(b)
  OBVIOUS
<1>2. ASSUME NEW k \in 1..Len(a \o b), (a \o b)[k].token = NoName
      PROVE  NoStart(s, (a \o b)[k].at)
  <2>1. CASE k <= Len(a)
    <3>1. k \in 1..Len(a) /\ (a \o b)[k] = a[k]
      BY <1>1, <2>1
    <3> QED BY <1>2, <3>1 DEF Clean
  <2>2. CASE k > Len(a)
    <3>1. k - Len(a) \in 1..Len(b) /\ (a \o b)[k] = b[k - Len(a)]
      BY <1>1, <2>2
    <3> QED BY <1>2, <3>1 DEF Clean
  <2> QED BY <1>1, <2>1, <2>2
<1> QED BY <1>2 DEF Clean

LEMMA CleanPart ==
    ASSUME NEW s \in Streams, NEW a \in Seq(Output), NEW n \in 0..Len(a), Clean(s, a)
    PROVE  SubSeq(a, 1, n) \in Seq(Output) /\ Len(SubSeq(a, 1, n)) = n
           /\ Clean(s, SubSeq(a, 1, n))
<1>1. /\ SubSeq(a, 1, n) \in Seq(Output) /\ Len(SubSeq(a, 1, n)) = n
      /\ \A k \in 1..n : k \in 1..Len(a) /\ SubSeq(a, 1, n)[k] = a[k]
  OBVIOUS
<1> QED BY <1>1 DEF Clean

-----------------------------------------------------------------------------
(* A step of one stream *)

Same(r) ==
    /\ pc'[r] = pc[r] /\ work'[r] = work[r] /\ at'[r] = at[r]
    /\ out'[r] = out[r] /\ holdover'[r] = holdover[r]
    /\ final'[r] = final[r] /\ passThrough'[r] = passThrough[r]
    /\ truncated'[r] = truncated[r] /\ kept'[r] = kept[r] /\ fed'[r] = fed[r]

LEMMA OthersKeep ==
    ASSUME NEW r \in Streams, TextInv(r), OutputInv(r), patterns' = patterns, Same(r)
    PROVE  TextInv(r)' /\ OutputInv(r)'
<1>1. TextInv(r)'
  BY DEF TextInv, Suffix, Same
<1>2. \A i : NoStart(r, i) => NoStart(r, i)'
  BY DEF NoStart, Occurs, Agrees, Same
<1>3. OutputInv(r)'
  BY <1>2 DEF OutputInv, Clean, Same
<1> QED BY <1>1, <1>3

\* While nothing is printed, what is clean stays clean.
LEMMA CleanStays ==
    ASSUME NEW s \in Streams, patterns' = patterns, fed'[s] = fed[s],
           final[s] => final'[s], NEW a, Clean(s, a)
    PROVE  Clean(s, a)'
<1>1. \A i : NoStart(s, i) => NoStart(s, i)'
  BY DEF NoStart, Occurs, Agrees
<1> QED BY <1>1 DEF Clean

LEMMA StepKeeps ==
    ASSUME IndInv, TypeOK', PatternsLive', patterns' = patterns, NEW s \in Streams,
           \A r \in Streams \ {s} : Same(r), TextInv(s)', OutputInv(s)'
    PROVE  IndInv'
<1>1. \A r \in Streams \ {s} : TextInv(r)' /\ OutputInv(r)'
  BY OthersKeep DEF IndInv
<1>2. \A r \in Streams : TextInv(r)' /\ OutputInv(r)'
  BY <1>1
<1> QED BY <1>2 DEF IndInv

\* A writer that is not destroyed leaves the patterns to the others.
LEMMA PatternsKept ==
    ASSUME IndInv, NEW s \in Streams, NEW point, pc' = [pc EXCEPT ![s] = point],
           pc[s] # "destroyed", point # "destroyed",
           UNCHANGED <<intact, patternRefs>>
    PROVE  PatternsLive'
<1>1. {r \in Streams : pc'[r] # "destroyed"} = {r \in Streams : pc[r] # "destroyed"}
  <2>1. pc \in [Streams -> {"idle", "scan", "sink", "flushed", "destroyed"}]
    BY DEF IndInv, TypeOK
  <2> QED BY <2>1
<1> QED BY <1>1 DEF IndInv, PatternsLive

LEMMA Users ==
    ASSUME IndInv, NEW s \in Streams, pc[s] # "destroyed"
    PROVE  intact /\ Live = patterns
<1> DEFINE users == {r \in Streams : pc[r] # "destroyed"}
<1>1. IsFiniteSet(users)
  BY StreamsAssumption, FS_Subset
<1>2. Cardinality(users) # 0
  BY <1>1, FS_EmptySet
<1>3. Cardinality(users) \in Nat
  BY <1>1, FS_CardinalityType
<1> QED BY <1>2, <1>3 DEF IndInv, PatternsLive, Live

LEMMA InitInv == Init => IndInv
<1> SUFFICES ASSUME Init PROVE IndInv
  OBVIOUS
<1>1. Cardinality(Streams) \in Nat /\ {s \in Streams : pc[s] # "destroyed"} = Streams
  BY StreamsAssumption, FS_CardinalityType DEF Init
<1>2. patterns \subseteq PatternType
  BY PatternsTyped DEF Init
<1>3. /\ work \in [Streams -> Strings] /\ holdover \in [Streams -> Strings]
      /\ fed \in [Streams -> Strings]
      /\ out \in [Streams -> Seq(Output)] /\ kept \in [Streams -> Seq(Output)]
  BY DEF Init, Strings
<1>4. PatternsLive
  <2>1. Cardinality(Streams) # 0
    BY FS_EmptySet, StreamsAssumption
  <2>2. Cardinality({s \in Streams : pc[s] # "destroyed"}) = Cardinality(Streams)
    BY <1>1
  <2>3. patternRefs > 0 /\ intact
    BY <2>1, <1>1 DEF Init
  <2>4. patternRefs = Cardinality(Streams)
    BY DEF Init
  <2> QED BY <2>2, <2>3, <2>4 DEF PatternsLive
<1>5. TypeOK
  BY <1>1, <1>2, <1>3 DEF Init, TypeOK, PatternType
<1>6. ASSUME NEW s \in Streams PROVE TextInv(s) /\ OutputInv(s)
  <2>1. work[s] = <<>> /\ holdover[s] = <<>> /\ fed[s] = <<>>
    BY DEF Init
  <2>2. Suffix(work[s], fed[s]) /\ Suffix(holdover[s], fed[s])
    BY <2>1 DEF Suffix
  <2>3. TextInv(s)
    BY <2>1, <2>2 DEF Init, TextInv
  <2>4. OutputInv(s)
    BY SizesAssumption DEF Init, OutputInv, Clean
  <2> QED BY <2>3, <2>4
<1> QED BY <1>4, <1>5, <1>6 DEF IndInv

-----------------------------------------------------------------------------
(* Write *)

LEMMA FunctionTypes ==
    ASSUME TypeOK
    PROVE  /\ pc \in [Streams -> {"idle", "scan", "sink", "flushed", "destroyed"}]
           /\ work \in [Streams -> Strings] /\ holdover \in [Streams -> Strings]
           /\ fed \in [Streams -> Strings]
           /\ out \in [Streams -> Seq(Output)] /\ kept \in [Streams -> Seq(Output)]
           /\ at \in [Streams -> Nat] /\ emitUpTo \in [Streams -> Nat]
           /\ final \in [Streams -> BOOLEAN] /\ passThrough \in [Streams -> BOOLEAN]
           /\ truncated \in [Streams -> BOOLEAN] /\ failed \in [Streams -> BOOLEAN]
BY DEF TypeOK

\* What is passed on before the end stays clean however much is printed.
LEMMA CleanGrows ==
    ASSUME TypeOK, NEW s \in Streams, NEW p \in Strings, ~final[s],
           patterns' = patterns, fed'[s] = fed[s] \o p, NEW a, Clean(s, a)
    PROVE  Clean(s, a)'
<1>1. ASSUME NEW i, NoStart(s, i) PROVE NoStart(s, i)'
  <2>1. fed[s] \in Strings /\ i \in 1..Len(fed[s])
    BY <1>1, Types DEF NoStart
  <2>2. ASSUME NEW q \in patterns
        PROVE  ~Agrees(fed[s] \o p, i, q.value) /\ i \in 1..Len(fed[s] \o p)
    <3>1. q.value \in Strings
      BY Types DEF PatternType
    <3>2. ~Agrees(fed[s], i, q.value)
      BY <1>1 DEF NoStart
    <3> QED BY <2>1, <3>1, <3>2, MoreText
  <2>3. i \in 1..Len(fed[s] \o p)
    BY <2>1 DEF Strings
  <2> QED BY <2>2, <2>3 DEF NoStart, Occurs
<1> QED BY <1>1 DEF Clean

LEMMA WriteStep ==
    ASSUME IndInv, NEW s \in Streams, NEW p \in Strings, Write(s, p)
    PROVE  IndInv'
<1>1. TypeOK /\ TextInv(s) /\ OutputInv(s)
  BY DEF IndInv
<1>2. /\ pc[s] = "idle" /\ ~final[s] /\ work[s] = <<>> /\ Live = patterns
      /\ UNCHANGED <<shared, final, sinks>>
  BY <1>1, Users DEF Write, TextInv
<1>3. /\ fed' = [fed EXCEPT ![s] = @ \o p]
      /\ fed'[s] = fed[s] \o p /\ fed'[s] \in Strings /\ fed' \in [Streams -> Strings]
  BY <1>1, FunctionTypes DEF Write, Strings
<1>4. Clean(s, kept[s])' /\ kept'[s] = kept[s]
  BY <1>1, <1>2, <1>3, CleanGrows DEF OutputInv, shared, sinks
<1>5. CASE /\ Bypass(s, p)
           /\ \/ patterns = {} /\ UNCHANGED passThrough
              \/ /\ passThrough[s] \/ truncated[s]
                 /\ passThrough' = [passThrough EXCEPT ![s] = TRUE]
  <2>1. /\ Plain(p, Len(fed[s]) + 1) \in Seq(Output)
        /\ pc' = [pc EXCEPT ![s] = "sink"]
        /\ out' = [out EXCEPT ![s] = Plain(p, Len(fed[s]) + 1)]
        /\ holdover' = [holdover EXCEPT ![s] = <<>>] /\ <<>> \in Strings
        /\ UNCHANGED <<work, at, emitUpTo>>
    <3>1. Len(fed[s]) + 1 \in Nat
      BY <1>1, Types
    <3> QED BY <1>5, <3>1, PlainType DEF Bypass, Goto, Strings
  <2>2. TypeOK'
    <3>1. passThrough' \in [Streams -> BOOLEAN]
      BY <1>1, <1>5, FunctionTypes
    <3>2. work' \in [Streams -> Strings] /\ holdover' \in [Streams -> Strings]
      BY <1>1, <2>1, FunctionTypes
    <3>3. out' \in [Streams -> Seq(Output)] /\ kept' \in [Streams -> Seq(Output)]
      BY <1>1, <1>2, <2>1, FunctionTypes DEF sinks
    <3>4. pc' \in [Streams -> {"idle", "scan", "sink", "flushed", "destroyed"}]
      BY <1>1, <2>1, FunctionTypes
    <3>5. UNCHANGED <<patterns, intact, patternRefs, at, emitUpTo, final, truncated, failed>>
      BY <1>2, <2>1 DEF shared, sinks
    <3> QED BY <1>1, <1>3, <3>1, <3>2, <3>3, <3>4, <3>5 DEF TypeOK
  <2>3. \A r \in Streams \ {s} : Same(r)
    BY <1>1, <1>2, <1>3, <1>5, <2>1, FunctionTypes DEF Same, shared, sinks
  <2>4. PatternsLive'
    BY <1>2, <2>1, PatternsKept DEF shared
  <2>5. TextInv(s)'
    <3>1. Suffix(<<>>, fed'[s])
      BY <1>3, EmptySuffix
    <3>2. work'[s] = <<>> /\ holdover'[s] = <<>> /\ pc'[s] = "sink" /\ at'[s] = at[s]
      BY <1>1, <1>2, <2>1, FunctionTypes
    <3> QED BY <1>1, <1>2, <3>1, <3>2 DEF TextInv
  <2>6. OutputInv(s)'
    <3>1. CASE patterns = {} /\ UNCHANGED passThrough
      <4>1. out'[s] = Plain(p, Len(fed[s]) + 1) /\ Len(fed[s]) \in Nat /\ Len(p) \in Nat
        BY <1>1, <2>1, FunctionTypes, Types DEF Strings
      <4>2. Len(fed'[s]) = Len(fed[s]) + Len(p)
        BY <1>1, <1>3, Types DEF Strings
      <4>3. Len(out'[s]) = Len(p) /\ \A k \in 1..Len(p) : out'[s][k].at = Len(fed[s]) + 1 + k - 1
        BY <4>1, PlainType
      <4>4. \A k \in 1..Len(out'[s]) : out'[s][k].at \in 1..Len(fed'[s])
        BY <4>1, <4>2, <4>3
      <4>5. Clean(s, out[s])'
        BY <3>1, <1>2, <4>4 DEF Clean, NoStart, shared
      <4> QED BY <1>1, <1>2, <1>4, <3>1, <4>5 DEF OutputInv, sinks
    <3>2. CASE /\ passThrough[s] \/ truncated[s]
               /\ passThrough' = [passThrough EXCEPT ![s] = TRUE]
      <4>1. passThrough'[s] /\ truncated[s]
        BY <1>1, <3>2, FunctionTypes DEF OutputInv
      <4> QED BY <1>1, <1>2, <1>4, <4>1 DEF OutputInv, sinks
    <3> QED BY <1>5, <3>1, <3>2
  <2> QED BY <1>2, <2>2, <2>3, <2>4, <2>5, <2>6, StepKeeps DEF shared
<1>6. CASE StartScan(s, holdover[s] \o p) /\ ~passThrough[s] /\ UNCHANGED passThrough
  <2>1. /\ holdover[s] \o p \in Strings /\ <<>> \in Strings /\ <<>> \in Seq(Output)
        /\ pc' = [pc EXCEPT ![s] = "scan"]
        /\ work' = [work EXCEPT ![s] = holdover[s] \o p]
        /\ at' = [at EXCEPT ![s] = 1] /\ emitUpTo' = [emitUpTo EXCEPT ![s] = 0]
        /\ out' = [out EXCEPT ![s] = <<>>] /\ holdover' = [holdover EXCEPT ![s] = <<>>]
    BY <1>1, <1>6, Types DEF StartScan, Goto, Strings
  <2>2. TypeOK'
    BY <1>1, <1>2, <1>3, <1>6, <2>1 DEF TypeOK, shared, sinks
  <2>3. \A r \in Streams \ {s} : Same(r)
    BY <1>1, <1>2, <1>3, <1>6, <2>1, FunctionTypes DEF Same, shared, sinks
  <2>4. PatternsLive'
    BY <1>2, <2>1, PatternsKept DEF shared
  <2>5. TextInv(s)'
    <3>1. Suffix(<<>>, fed'[s]) /\ Suffix(holdover[s] \o p, fed[s] \o p)
      BY <1>1, <1>3, <1>6, EmptySuffix, SuffixGrows, Types DEF TextInv
    <3>2. /\ work'[s] = holdover[s] \o p /\ holdover'[s] = <<>> /\ pc'[s] = "scan"
          /\ at'[s] = 1
      BY <1>1, <2>1, FunctionTypes
    <3>3. Len(work'[s]) \in Nat
      BY <2>1, <3>2 DEF Strings
    <3> QED BY <1>2, <1>3, <1>6, <3>1, <3>2, <3>3 DEF TextInv
  <2>6. OutputInv(s)'
    <3>1. out'[s] = <<>>
      BY <1>1, <2>1, FunctionTypes
    <3> QED BY <1>1, <1>2, <1>4, <1>6, <3>1 DEF OutputInv, Clean, sinks
  <2> QED BY <1>2, <2>2, <2>3, <2>4, <2>5, <2>6, StepKeeps DEF shared
<1>7. \/ /\ patterns = {} /\ Bypass(s, p) /\ UNCHANGED passThrough
      \/ /\ passThrough[s] \/ truncated[s]
         /\ passThrough' = [passThrough EXCEPT ![s] = TRUE] /\ Bypass(s, p)
      \/ ~passThrough[s] /\ StartScan(s, holdover[s] \o p) /\ UNCHANGED passThrough
  <2>1. Write(s, p) /\ Live = patterns
    BY <1>2
  <2> QED BY <2>1 DEF Write
<1> QED BY <1>5, <1>6, <1>7

-----------------------------------------------------------------------------
(* scan *)

\* A step that produces clean output and goes on to the next byte.
LEMMA ScanGoesOn ==
    ASSUME IndInv, NEW s \in Streams, Scanning(s), Advance(s),
           NEW piece \in Seq(Output), Clean(s, piece),
           out' = [out EXCEPT ![s] = @ \o piece], emitUpTo' \in [Streams -> Nat],
           UNCHANGED <<shared, pc, work, holdover, final, passThrough, sinks, fed>>
    PROVE  IndInv'
<1>1. TypeOK /\ TextInv(s) /\ OutputInv(s) /\ PatternsLive
  BY DEF IndInv
<1>2. at' = [at EXCEPT ![s] = @ + 1] /\ at' \in [Streams -> Nat] /\ at'[s] = at[s] + 1
  BY <1>1, FunctionTypes DEF Advance
<1>3. /\ out[s] \in Seq(Output) /\ out[s] \o piece \in Seq(Output)
      /\ out'[s] = out[s] \o piece /\ out' \in [Streams -> Seq(Output)]
  BY <1>1, FunctionTypes
<1>4. TypeOK'
  BY <1>1, <1>2, <1>3 DEF TypeOK, shared, sinks
<1>5. \A r \in Streams \ {s} : Same(r)
  BY <1>1, <1>2, FunctionTypes DEF Same, shared, sinks
<1>6. PatternsLive'
  BY <1>1 DEF PatternsLive, shared
<1>7. TextInv(s)'
  <2>1. Len(work[s]) \in Nat /\ at[s] \in Nat /\ at[s] <= Len(work[s])
    BY <1>1, Types DEF Scanning
  <2>2. at'[s] \in 1..(Len(work[s]) + 1)
    BY <1>2, <2>1
  <2> QED BY <1>1, <2>2 DEF TextInv, Suffix
<1>8. OutputInv(s)'
  <2>1. ~passThrough[s]
    BY <1>1 DEF TextInv, Scanning
  <2>2. Clean(s, out[s] \o piece)
    BY <1>1, <1>3, <2>1, CleanJoin DEF OutputInv
  <2>3. PICK a : a = out[s] \o piece
    OBVIOUS
  <2>4. Clean(s, a)'
    BY <2>2, <2>3, CleanStays DEF shared
  <2>5. Clean(s, kept[s])'
    BY <1>1, CleanStays DEF OutputInv, shared, sinks
  <2> QED BY <1>1, <1>3, <2>3, <2>4, <2>5 DEF OutputInv, Clean, sinks
<1> QED BY <1>4, <1>5, <1>6, <1>7, <1>8, StepKeeps DEF shared

LEMMA PositionOf ==
    ASSUME IndInv, NEW s \in Streams, Scanning(s)
    PROVE  /\ Live = patterns /\ at[s] \in 1..Len(work[s])
           /\ Position(s, at[s]) \in Nat /\ Position(s, at[s]) \in 1..Len(fed[s])
           /\ work[s] \in Strings /\ fed[s] \in Strings /\ Suffix(work[s], fed[s])
<1>1. TypeOK /\ TextInv(s) /\ pc[s] = "scan"
  BY DEF IndInv, Scanning
<1>2. /\ at[s] \in 1..(Len(work[s]) + 1) /\ Suffix(work[s], fed[s])
      /\ Len(work[s]) \in Nat /\ Len(fed[s]) \in Nat
  BY <1>1, Types DEF TextInv
<1>3. at[s] \in 1..Len(work[s])
  BY <1>2 DEF Scanning
<1>4. Position(s, at[s]) \in 1..Len(fed[s])
  <2>1. Len(work[s]) <= Len(fed[s])
    BY <1>2 DEF Suffix
  <2>2. \A m, n, k \in Nat : n <= m /\ k \in 1..n => m - n + k \in 1..m
    OBVIOUS
  <2>3. at[s] \in Nat
    BY <1>3
  <2> QED BY <1>2, <1>3, <2>1, <2>2, <2>3 DEF Position
<1> QED BY <1>1, <1>2, <1>3, <1>4, Users, Types

LEMMA ReplaceStep ==
    ASSUME IndInv, NEW s \in Streams, Replace(s)
    PROVE  IndInv'
<1>1. TypeOK /\ Scanning(s) /\ Live = patterns /\ Position(s, at[s]) \in Nat
  BY PositionOf DEF IndInv, Replace
<1>2. PICK p \in Longest(Matches(work[s], at[s])) :
        /\ out' = [out EXCEPT ![s] = @ \o Token(p.name, Position(s, at[s]))]
        /\ emitUpTo' = [emitUpTo EXCEPT ![s] = Larger(@, at[s] + Len(p.value) - 1)]
  BY DEF Replace
<1>3. p \in PatternType
  BY <1>1, <1>2, Types DEF Longest, Matches
<1>4. p.name \in Names /\ p.value \in Strings
  BY <1>3 DEF PatternType
<1>5. Token(p.name, Position(s, at[s])) \in Seq(Output)
  BY <1>1, <1>4, TokenType
<1>6. Clean(s, Token(p.name, Position(s, at[s])))
  BY <1>1, <1>4, TokenType, NamesAssumption DEF Clean
<1>7. emitUpTo' \in [Streams -> Nat]
  <2>1. at[s] + Len(p.value) - 1 \in Nat
    <3>1. at[s] \in Nat /\ at[s] >= 1 /\ Len(p.value) \in Nat
      BY <1>1, <1>4, PositionOf DEF Strings
    <3> QED BY <3>1
  <2>2. Larger(emitUpTo[s], at[s] + Len(p.value) - 1) \in Nat
    BY <1>1, <2>1, Types DEF Larger
  <2> QED BY <1>1, <1>2, <2>2, FunctionTypes
<1> QED BY <1>1, <1>2, <1>5, <1>6, <1>7, ScanGoesOn DEF Replace

LEMMA SuppressStep ==
    ASSUME IndInv, NEW s \in Streams, Suppress(s)
    PROVE  IndInv'
<1>1. TypeOK /\ Scanning(s) /\ <<>> \in Seq(Output) /\ Clean(s, <<>>)
  BY DEF IndInv, Suppress, Clean
<1>2. out' = [out EXCEPT ![s] = @ \o <<>>]
  <2>1. out[s] \o <<>> = out[s]
    BY <1>1, Types
  <2>2. out' = out /\ out \in [Streams -> Seq(Output)]
    BY <1>1, FunctionTypes DEF Suppress
  <2> QED BY <2>1, <2>2
<1>3. emitUpTo' \in [Streams -> Nat]
  BY <1>1, FunctionTypes DEF Suppress
<1> QED BY <1>1, <1>2, <1>3, ScanGoesOn DEF Suppress

\* Where scan finds no form, and not the beginning of one, none is in what has
\* been printed.
LEMMA NothingHere ==
    ASSUME IndInv, NEW s \in Streams, Scanning(s), ~MatchHere(s), ~Partial(s)
    PROVE  NoStart(s, Position(s, at[s]))
<1>1. TypeOK
  BY DEF IndInv
<1>2. ASSUME NEW p \in patterns
      PROVE  /\ ~Occurs(fed[s], Position(s, at[s]), p.value)
             /\ final[s] \/ ~Agrees(fed[s], Position(s, at[s]), p.value)
  <2>1. p.value \in Strings
    BY <1>1, Types DEF PatternType
  <2>2. ~Occurs(work[s], at[s], p.value)
    BY PositionOf DEF MatchHere, Matches
  <2>3. final[s] \/ ~Begins(work[s], at[s], p.value)
    BY PositionOf DEF Partial
  <2>4. Agrees(work[s], at[s], p.value)
          => Occurs(work[s], at[s], p.value) \/ Begins(work[s], at[s], p.value)
    <3>1. Len(work[s]) \in Nat /\ at[s] \in Nat /\ Len(p.value) \in Nat
      BY <1>1, <2>1, Types DEF Strings
    <3> QED BY <3>1 DEF Occurs, Begins
  <2> QED BY <2>1, <2>2, <2>3, <2>4, PositionOf, SuffixShows DEF Position
<1> QED BY <1>2, PositionOf DEF NoStart

LEMMA PassOnStep ==
    ASSUME IndInv, NEW s \in Streams, PassOn(s)
    PROVE  IndInv'
<1> DEFINE piece == Plain(<<work[s][at[s]]>>, Position(s, at[s]))
<1>1. TypeOK /\ Scanning(s) /\ NoStart(s, Position(s, at[s]))
  BY NothingHere DEF IndInv, PassOn
<1>2. Position(s, at[s]) \in Nat
  BY <1>1, PositionOf
<1>3. <<work[s][at[s]]>> \in Strings /\ Len(<<work[s][at[s]]>>) = 1
  <2>1. work[s] \in Seq(Bytes) /\ at[s] \in 1..Len(work[s])
    BY <1>1, PositionOf DEF Strings
  <2> QED BY <2>1 DEF Strings
<1>4. piece \in Seq(Output) /\ Len(piece) = 1 /\ piece[1].at = Position(s, at[s])
  <2>1. piece[1].at = Position(s, at[s]) + 1 - 1
    BY <1>2, <1>3, PlainType
  <2> QED BY <1>2, <1>3, <2>1, PlainType
<1>5. Clean(s, piece)
  BY <1>1, <1>4 DEF Clean
<1>6. emitUpTo' \in [Streams -> Nat]
  BY <1>1, FunctionTypes DEF PassOn
<1> QED BY <1>1, <1>4, <1>5, <1>6, ScanGoesOn DEF PassOn

\* scan returns.
LEMMA ScanReturns ==
    ASSUME IndInv, NEW s \in Streams, pc[s] = "scan",
           holdover' \in [Streams -> Strings], Suffix(holdover'[s], fed[s]),
           \A r \in Streams \ {s} : holdover'[r] = holdover[r],
           Goto(s, "sink"),
           UNCHANGED <<shared, work, at, emitUpTo, out, final, passThrough, sinks, fed>>
    PROVE  IndInv'
<1>1. TypeOK /\ TextInv(s) /\ OutputInv(s)
  BY DEF IndInv
<1>2. /\ pc' = [pc EXCEPT ![s] = "sink"] /\ pc'[s] = "sink"
      /\ pc' \in [Streams -> {"idle", "scan", "sink", "flushed", "destroyed"}]
  BY <1>1, FunctionTypes DEF Goto
<1>3. TypeOK'
  BY <1>1, <1>2 DEF TypeOK, shared, sinks
<1>4. \A r \in Streams \ {s} : Same(r)
  BY <1>1, <1>2, FunctionTypes DEF Same, shared, sinks
<1>5. PatternsLive'
  BY <1>2, PatternsKept DEF shared
<1>6. TextInv(s)'
  BY <1>1, <1>2 DEF TextInv, Suffix
<1>7. OutputInv(s)'
  <2>1. Clean(s, kept[s])' /\ (passThrough[s] \/ Clean(s, out[s])')
    BY <1>1, CleanStays DEF OutputInv, shared, sinks
  <2> QED BY <1>1, <2>1 DEF OutputInv, Clean, sinks
<1> QED BY <1>3, <1>4, <1>5, <1>6, <1>7, StepKeeps DEF shared

LEMMA HoldOverStep ==
    ASSUME IndInv, NEW s \in Streams, HoldOver(s)
    PROVE  IndInv'
<1> DEFINE rest == SubSeq(work[s], at[s], Len(work[s]))
<1>1. TypeOK /\ Scanning(s) /\ pc[s] = "scan"
  BY DEF IndInv, HoldOver, Scanning
<1>2. rest \in Strings /\ Suffix(rest, fed[s])
  BY <1>1, PositionOf, SuffixOfSuffix
<1>3. holdover' = [holdover EXCEPT ![s] = rest]
  BY DEF HoldOver
<1> HIDE DEF rest
<1>4. /\ holdover' \in [Streams -> Strings] /\ holdover'[s] = rest
      /\ \A r \in Streams \ {s} : holdover'[r] = holdover[r]
  BY <1>1, <1>2, <1>3, FunctionTypes
<1> QED BY <1>1, <1>2, <1>4, ScanReturns DEF HoldOver

LEMMA ScanEndsStep ==
    ASSUME IndInv, NEW s \in Streams, ScanEnds(s)
    PROVE  IndInv'
<1>1. TypeOK /\ TextInv(s)
  BY DEF IndInv
<1>2. /\ holdover' \in [Streams -> Strings] /\ Suffix(holdover'[s], fed[s])
      /\ \A r \in Streams \ {s} : holdover'[r] = holdover[r]
  BY <1>1, FunctionTypes DEF ScanEnds, scanner, TextInv
<1> QED BY <1>2, ScanReturns DEF ScanEnds, scanner

-----------------------------------------------------------------------------
(* The sink, and the end of the stream *)

\* What a delivery of the first n bytes needs, and what it establishes.
LEMMA KeepClean ==
    ASSUME IndInv, NEW s \in Streams, NEW n \in 0..Len(out[s]), Keep(s, n),
           UNCHANGED <<patterns, final, fed>>, passThrough[s] => n = 0
    PROVE  /\ kept' \in [Streams -> Seq(Output)] /\ Clean(s, kept[s])'
           /\ Len(kept'[s]) = Len(kept[s]) + n
           /\ \A r \in Streams \ {s} : kept'[r] = kept[r]
<1>1. TypeOK /\ OutputInv(s)
  BY DEF IndInv
<1>2. out[s] \in Seq(Output) /\ kept[s] \in Seq(Output)
  BY <1>1, Types
<1>3. PICK part : part = SubSeq(out[s], 1, n)
  OBVIOUS
<1>4. part \in Seq(Output) /\ Len(part) = n /\ Clean(s, part)
  <2>1. CASE passThrough[s]
    <3>1. part = <<>>
      BY <1>2, <1>3, <2>1
    <3> QED BY <2>1, <3>1 DEF Clean
  <2>2. CASE ~passThrough[s]
    BY <1>1, <1>2, <1>3, <2>2, CleanPart DEF OutputInv
  <2> QED BY <2>1, <2>2
<1>5. kept' = [kept EXCEPT ![s] = @ \o part]
  BY <1>3 DEF Keep
<1>6. PICK all : all = kept[s] \o part
  OBVIOUS
<1>7. all \in Seq(Output) /\ Len(all) = Len(kept[s]) + n
  BY <1>2, <1>4, <1>6
<1>8. Clean(s, all)
  BY <1>1, <1>2, <1>4, <1>6, CleanJoin DEF OutputInv
<1>9. Clean(s, all)'
  BY <1>8, CleanStays
<1>10. /\ kept' \in [Streams -> Seq(Output)] /\ kept'[s] = all
       /\ \A r \in Streams \ {s} : kept'[r] = kept[r]
  BY <1>1, <1>5, <1>6, <1>7, FunctionTypes
<1> QED BY <1>7, <1>9, <1>10 DEF Clean

\* Both sinks keep what the invariant says of the output.
LEMMA SinkKeeps ==
    ASSUME IndInv, NEW s \in Streams, UNCHANGED <<patterns, final, fed>>,
           IF s \in Capped THEN CappedWrite(s) ELSE FileWrite(s)
    PROVE  /\ kept' \in [Streams -> Seq(Output)] /\ Clean(s, kept[s])'
           /\ truncated' \in [Streams -> BOOLEAN] /\ failed' \in [Streams -> BOOLEAN]
           /\ truncated[s] => truncated'[s]
           /\ truncated'[s] => s \in Capped /\ Len(kept'[s]) = Limit
           /\ s \in Capped => Len(kept'[s]) <= Limit
           /\ \A r \in Streams \ {s} : kept'[r] = kept[r] /\ truncated'[r] = truncated[r]
<1>1. TypeOK /\ OutputInv(s)
  BY DEF IndInv
<1>2. Len(out[s]) \in Nat /\ Len(kept[s]) \in Nat /\ Limit \in Nat
  BY <1>1, Types, SizesAssumption
<1>3. CASE s \in Capped
  <2>1. CappedWrite(s) /\ Limit - Len(kept[s]) \in Nat
    BY <1>1, <1>2, <1>3 DEF OutputInv
  <2>2. PICK room \in Nat : room = Limit - Len(kept[s])
    BY <2>1
  <2>3. PICK n \in 0..Len(out[s]) :
           n = Smaller(Len(out[s]), room) /\ n <= room /\ (Len(out[s]) > room => n = room)
    BY <1>2, <2>2 DEF Smaller
  <2>4. /\ Keep(s, n)
        /\ truncated' = [truncated EXCEPT ![s] = @ \/ Len(out[s]) > room]
        /\ UNCHANGED failed
    BY <2>1, <2>2, <2>3 DEF CappedWrite
  <2>5. truncated[s] => room = 0
    BY <1>1, <1>2, <2>2 DEF OutputInv
  <2>6. passThrough[s] => n = 0
    BY <1>1, <2>3, <2>5 DEF OutputInv
  <2>7. /\ kept' \in [Streams -> Seq(Output)] /\ Clean(s, kept[s])'
        /\ Len(kept'[s]) = Len(kept[s]) + n
        /\ \A r \in Streams \ {s} : kept'[r] = kept[r]
    BY <2>3, <2>4, <2>6, KeepClean
  <2>8. /\ truncated' \in [Streams -> BOOLEAN]
        /\ truncated'[s] <=> truncated[s] \/ Len(out[s]) > room
        /\ \A r \in Streams \ {s} : truncated'[r] = truncated[r]
    BY <1>1, <2>4, FunctionTypes
  <2>9. Len(kept'[s]) <= Limit /\ (truncated'[s] => Len(kept'[s]) = Limit)
    BY <1>2, <2>2, <2>3, <2>5, <2>7, <2>8
  <2> QED BY <1>1, <1>3, <2>4, <2>7, <2>8, <2>9, FunctionTypes
<1>4. CASE s \notin Capped
  <2>1. FileWrite(s) /\ ~truncated[s] /\ ~passThrough[s] /\ UNCHANGED truncated
    BY <1>1, <1>4 DEF OutputInv, FileWrite
  <2>2. PICK n \in 0..Len(out[s]) : Keep(s, n)
    <3>1. Len(out[s]) \in 0..Len(out[s]) /\ 0..(Len(out[s]) - 1) \subseteq 0..Len(out[s])
      BY <1>2
    <3> QED BY <2>1, <3>1 DEF FileWrite
  <2>3. /\ kept' \in [Streams -> Seq(Output)] /\ Clean(s, kept[s])'
        /\ \A r \in Streams \ {s} : kept'[r] = kept[r]
    BY <2>1, <2>2, KeepClean
  <2>4. failed' \in [Streams -> BOOLEAN]
    BY <1>1, <2>1, FunctionTypes DEF FileWrite
  <2> QED BY <1>1, <1>4, <2>1, <2>3, <2>4, FunctionTypes
<1> QED BY <1>3, <1>4

LEMMA DeliverStep ==
    ASSUME IndInv, NEW s \in Streams, Deliver(s)
    PROVE  IndInv'
<1>1. TypeOK /\ TextInv(s) /\ OutputInv(s)
  BY DEF IndInv
<1>2. /\ pc[s] = "sink" /\ UNCHANGED <<shared, holdover, final, passThrough, fed>>
      /\ IF s \in Capped THEN CappedWrite(s) ELSE FileWrite(s)
      /\ work' = [work EXCEPT ![s] = <<>>] /\ out' = [out EXCEPT ![s] = <<>>]
      /\ at' = [at EXCEPT ![s] = 1] /\ emitUpTo' = [emitUpTo EXCEPT ![s] = 0]
  BY DEF Deliver
<1>3. PICK point \in {"flushed", "idle"} :
         pc' = [pc EXCEPT ![s] = point] /\ (point = "idle" => ~final[s])
  BY DEF Deliver, Goto
<1>4. /\ kept' \in [Streams -> Seq(Output)] /\ Clean(s, kept[s])'
      /\ truncated' \in [Streams -> BOOLEAN] /\ failed' \in [Streams -> BOOLEAN]
      /\ truncated[s] => truncated'[s]
      /\ truncated'[s] => s \in Capped /\ Len(kept'[s]) = Limit
      /\ s \in Capped => Len(kept'[s]) <= Limit
      /\ \A r \in Streams \ {s} : kept'[r] = kept[r] /\ truncated'[r] = truncated[r]
  BY <1>2, SinkKeeps DEF shared
<1>5. /\ <<>> \in Strings /\ <<>> \in Seq(Output)
      /\ pc' \in [Streams -> {"idle", "scan", "sink", "flushed", "destroyed"}]
      /\ work' \in [Streams -> Strings] /\ out' \in [Streams -> Seq(Output)]
      /\ at' \in [Streams -> Nat] /\ emitUpTo' \in [Streams -> Nat]
      /\ pc'[s] = point /\ work'[s] = <<>> /\ out'[s] = <<>> /\ at'[s] = 1
  BY <1>1, <1>2, <1>3, FunctionTypes DEF Strings
<1>6. TypeOK'
  BY <1>1, <1>2, <1>4, <1>5 DEF TypeOK, shared
<1>7. \A r \in Streams \ {s} : Same(r)
  BY <1>1, <1>2, <1>3, <1>4, FunctionTypes DEF Same
<1>8. PatternsLive'
  BY <1>2, <1>3, PatternsKept DEF shared
<1>9. TextInv(s)'
  <2>1. Suffix(<<>>, fed[s])
    BY <1>1, EmptySuffix, Types
  <2>2. Suffix(work[s], fed[s])' /\ Suffix(holdover[s], fed[s])'
    BY <1>1, <1>2, <1>5, <2>1 DEF TextInv
  <2> QED BY <1>1, <1>2, <1>3, <1>5, <2>2 DEF TextInv
<1>10. OutputInv(s)'
  BY <1>1, <1>2, <1>4, <1>5 DEF OutputInv, Clean
<1> QED BY <1>2, <1>6, <1>7, <1>8, <1>9, <1>10, StepKeeps DEF shared

LEMMA FlushStep ==
    ASSUME IndInv, NEW s \in Streams, Flush(s)
    PROVE  IndInv'
<1>1. TypeOK /\ TextInv(s) /\ OutputInv(s)
  BY DEF IndInv
<1>2. /\ pc[s] = "idle" /\ final' = [final EXCEPT ![s] = TRUE]
      /\ UNCHANGED <<shared, passThrough, sinks, fed>>
  BY DEF Flush
<1>3. /\ final' \in [Streams -> BOOLEAN] /\ final'[s]
      /\ \A r \in Streams \ {s} : final'[r] = final[r]
  BY <1>1, <1>2, FunctionTypes
<1>4. Clean(s, kept[s])'
  BY <1>1, <1>2, <1>3, CleanStays DEF OutputInv, shared, sinks
<1>5. CASE holdover[s] = <<>> /\ Goto(s, "flushed") /\ UNCHANGED scanner
  <2>1. /\ pc' = [pc EXCEPT ![s] = "flushed"] /\ pc'[s] = "flushed"
        /\ pc' \in [Streams -> {"idle", "scan", "sink", "flushed", "destroyed"}]
    BY <1>1, <1>5, FunctionTypes DEF Goto
  <2>2. TypeOK'
    BY <1>1, <1>2, <1>3, <1>5, <2>1 DEF TypeOK, shared, scanner, sinks
  <2>3. \A r \in Streams \ {s} : Same(r)
    BY <1>1, <1>2, <1>3, <1>5, <2>1, FunctionTypes DEF Same, scanner, sinks
  <2>4. PatternsLive'
    BY <1>2, <2>1, PatternsKept DEF shared
  <2>5. TextInv(s)'
    BY <1>1, <1>2, <1>5, <2>1 DEF TextInv, Suffix, scanner
  <2>6. OutputInv(s)'
    <3>1. passThrough[s] \/ Clean(s, out[s])'
      BY <1>1, <1>2, <1>3, <1>5, CleanStays DEF OutputInv, shared, scanner
    <3> QED BY <1>1, <1>2, <1>4, <1>5, <3>1 DEF OutputInv, Clean, scanner, sinks
  <2> QED BY <1>2, <2>2, <2>3, <2>4, <2>5, <2>6, StepKeeps DEF shared
<1>6. CASE holdover[s] # <<>> /\ StartScan(s, holdover[s])
  <2>1. /\ pc' = [pc EXCEPT ![s] = "scan"]
        /\ work' = [work EXCEPT ![s] = holdover[s]]
        /\ at' = [at EXCEPT ![s] = 1] /\ emitUpTo' = [emitUpTo EXCEPT ![s] = 0]
        /\ out' = [out EXCEPT ![s] = <<>>] /\ holdover' = [holdover EXCEPT ![s] = <<>>]
    BY <1>6 DEF StartScan, Goto
  <2>2. /\ <<>> \in Strings /\ <<>> \in Seq(Output) /\ holdover[s] \in Strings
        /\ fed[s] \in Strings /\ Len(holdover[s]) \in Nat
    BY <1>1, Types DEF Strings
  <2>3. /\ pc' \in [Streams -> {"idle", "scan", "sink", "flushed", "destroyed"}]
        /\ work' \in [Streams -> Strings] /\ holdover' \in [Streams -> Strings]
        /\ out' \in [Streams -> Seq(Output)]
        /\ at' \in [Streams -> Nat] /\ emitUpTo' \in [Streams -> Nat]
        /\ pc'[s] = "scan" /\ work'[s] = holdover[s] /\ holdover'[s] = <<>>
        /\ out'[s] = <<>> /\ at'[s] = 1
    BY <1>1, <2>1, <2>2, FunctionTypes
  <2>4. TypeOK'
    BY <1>1, <1>2, <1>3, <2>3 DEF TypeOK, shared, sinks
  <2>5. \A r \in Streams \ {s} : Same(r)
    BY <1>1, <1>2, <1>3, <2>1, FunctionTypes DEF Same, sinks
  <2>6. PatternsLive'
    BY <1>2, <2>1, PatternsKept DEF shared
  <2>7. TextInv(s)'
    <3>1. Suffix(holdover[s], fed[s]) /\ Suffix(<<>>, fed[s]) /\ ~passThrough[s]
      BY <1>1, <1>6, <2>2, EmptySuffix DEF TextInv
    <3>2. Suffix(work[s], fed[s])' /\ Suffix(holdover[s], fed[s])'
      BY <1>2, <2>3, <3>1
    <3> QED BY <1>2, <1>3, <2>2, <2>3, <3>1, <3>2 DEF TextInv
  <2>8. OutputInv(s)'
    BY <1>1, <1>2, <1>4, <2>3 DEF OutputInv, Clean, sinks
  <2> QED BY <1>2, <2>4, <2>5, <2>6, <2>7, <2>8, StepKeeps DEF shared
<1> QED BY <1>5, <1>6 DEF Flush

LEMMA DestroyStep ==
    ASSUME IndInv, NEW s \in Streams, Destroy(s)
    PROVE  IndInv'
<1> DEFINE users == {r \in Streams : pc[r] # "destroyed"}
<1>1. TypeOK /\ PatternsLive /\ TextInv(s) /\ OutputInv(s)
  BY DEF IndInv
<1>2. /\ pc[s] = "flushed" /\ pc' = [pc EXCEPT ![s] = "destroyed"]
      /\ patternRefs' = patternRefs - 1 /\ intact' = (patternRefs > 1)
      /\ UNCHANGED <<patterns, scanner, final, passThrough, sinks, fed>>
  BY DEF Destroy, Goto
<1>3. /\ pc' \in [Streams -> {"idle", "scan", "sink", "flushed", "destroyed"}]
      /\ pc'[s] = "destroyed"
  BY <1>1, <1>2, FunctionTypes
<1>4. {r \in Streams : pc'[r] # "destroyed"} = users \ {s} /\ s \in users
  BY <1>1, <1>2, FunctionTypes
<1>5. IsFiniteSet(users) /\ Cardinality(users) \in Nat
  BY StreamsAssumption, FS_Subset, FS_CardinalityType
<1>6. Cardinality(users \ {s}) = Cardinality(users) - 1
  BY <1>4, <1>5, FS_RemoveElement
<1>7. IsFiniteSet(users \ {s}) /\ Cardinality(users \ {s}) \in Nat
  BY <1>5, FS_Subset, FS_CardinalityType
<1>8. patternRefs = Cardinality(users) /\ patternRefs' = Cardinality(users \ {s})
  BY <1>1, <1>2, <1>6 DEF PatternsLive
<1>9. intact' <=> patternRefs' > 0
  <2>1. patternRefs \in Nat /\ patternRefs' = patternRefs - 1
    BY <1>2, <1>5, <1>8
  <2>2. (patternRefs > 1) <=> (patternRefs' > 0)
    BY <2>1
  <2> QED BY <1>2, <2>2
<1>10. PatternsLive'
  BY <1>4, <1>8, <1>9 DEF PatternsLive
<1>11. TypeOK'
  <2>1. patternRefs' \in 0..Cardinality(Streams)
    <3>1. Cardinality(Streams) \in Nat
      BY StreamsAssumption, FS_CardinalityType
    <3> QED BY <1>1, <1>2, <1>7, <1>8, <3>1 DEF TypeOK
  <2>2. intact' \in BOOLEAN
    BY <1>2
  <2> QED BY <1>1, <1>2, <1>3, <2>1, <2>2 DEF TypeOK, scanner, sinks
<1>12. \A r \in Streams \ {s} : Same(r)
  BY <1>1, <1>2, FunctionTypes DEF Same, scanner, sinks
<1>13. TextInv(s)'
  BY <1>1, <1>2, <1>3 DEF TextInv, Suffix, scanner
<1>14. OutputInv(s)'
  <2>1. Clean(s, kept[s])' /\ (passThrough[s] \/ Clean(s, out[s])')
    BY <1>1, <1>2, CleanStays DEF OutputInv, scanner, sinks
  <2> QED BY <1>1, <1>2, <2>1 DEF OutputInv, Clean, scanner, sinks
<1> QED BY <1>2, <1>10, <1>11, <1>12, <1>13, <1>14, StepKeeps

-----------------------------------------------------------------------------
(* The theorems *)

LEMMA NextKeeps == IndInv /\ [Next]_vars => IndInv'
<1> SUFFICES ASSUME IndInv, [Next]_vars PROVE IndInv'
  OBVIOUS
<1>1. ASSUME NEW s \in Streams, NEW p \in Pieces, Write(s, p) PROVE IndInv'
  <2>1. p \in Strings
    BY DEF Pieces, Strings
  <2> QED BY <1>1, <2>1, WriteStep
<1>2. ASSUME NEW s \in Streams, Scan(s) PROVE IndInv'
  BY <1>2, ReplaceStep, SuppressStep, HoldOverStep, PassOnStep, ScanEndsStep DEF Scan
<1>3. CASE UNCHANGED vars
  <2>1. TypeOK' /\ PatternsLive'
    BY <1>3 DEF IndInv, TypeOK, PatternsLive, vars, shared, scanner, sinks
  <2>2. \A r \in Streams : Same(r) /\ patterns' = patterns
    BY <1>3 DEF Same, vars, shared, scanner, sinks
  <2> QED BY <2>1, <2>2, OthersKeep DEF IndInv
<1> QED BY <1>1, <1>2, <1>3, DeliverStep, FlushStep, DestroyStep DEF Next

\* The inductive invariant of the redactor holds.
THEOREM IndInvHolds == Spec => []IndInv
BY InitInv, NextKeeps, PTL DEF Spec

\* No form of a secret comes out whole, whatever the secrets, however the
\* child's output is cut into pieces, and wherever the cap falls.
THEOREM FormsNeverComeOutWhole == Spec => []StartsAreHidden
<1>1. IndInv => StartsAreHidden
  BY DEF IndInv, OutputInv, Clean, NoStart, StartsAreHidden
<1> QED BY <1>1, IndInvHolds, PTL
=============================================================================
