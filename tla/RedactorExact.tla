--------------------------- MODULE RedactorExact ---------------------------
(***************************************************************************)
(* What the output of the redactor should be: redacting the child's whole  *)
(* output at once gives the same bytes, up to the cap, as the writer gives *)
(* that gets it in pieces; and the invariant that says why.                *)
(***************************************************************************)
EXTENDS Redactor

\* The reference: every occurrence in the whole text, whatever the pieces.
Occurrences(forms, text, i) == {p \in forms : Occurs(text, i, p.value)}

Inside(forms, text, i) ==
    \E j \in 1..(i - 1) : \E p \in Occurrences(forms, text, j) : i < j + Len(p.value)

\* What byte i of the text becomes.
Piece(forms, text, i) ==
    IF Occurrences(forms, text, i) # {}
    THEN Token((CHOOSE p \in Longest(Occurrences(forms, text, i)) : TRUE).name, i)
    ELSE IF Inside(forms, text, i) THEN <<>> ELSE Plain(<<text[i]>>, i)

\* What its first n bytes become.
Redaction(forms, text) ==
    LET upTo[n \in 0..Len(text)] ==
            IF n = 0 THEN <<>> ELSE upTo[n - 1] \o Piece(forms, text, n)
    IN  upTo

Redacted(s) == Redaction(patterns, fed[s])[Len(fed[s])]

\* What a sink lets through.
Cut(s, output) ==
    IF s \in Capped THEN SubSeq(output, 1, Smaller(Limit, Len(output))) ELSE output

-----------------------------------------------------------------------------
(* Properties *)

Flushed(s) == pc[s] \in {"flushed", "destroyed"} /\ ~failed[s]

\* No two occurrences of forms can share a byte.
Disjoint ==
    \A p, q \in patterns : \A d \in 1..Len(p.value) :
        Agrees(p.value, d, q.value) => p = q /\ d = 1

\* When the forms cannot overlap, the output does not depend on how the child's
\* output was cut: it is the redacted text, up to the cap.  Nothing innocent is
\* lost in the holdover and nothing is emitted twice.
OutputIsExact ==
    Disjoint => \A s \in Streams : Flushed(s) => kept[s] = Cut(s, Redacted(s))

\* What redact.go:14 and docs/src/security/redactor.md say of any secrets: the
\* pieces make no difference, secrets that overlap are all redacted.
SplitsAreStillCaught ==
    \A s \in Streams : Flushed(s) => kept[s] = Cut(s, Redacted(s))

-----------------------------------------------------------------------------
(* Why: the writer has decided about the first bytes of what was printed, for  *)
(* good, and what it has let go is their redaction.                            *)

Decided(s) ==
    Len(fed[s]) - (IF pc[s] = "scan" THEN Len(work[s]) - at[s] + 1 ELSE Len(holdover[s]))

\* Nothing that is printed later makes a form of what begins in the first n bytes.
Settled(s, n) ==
    final[s] \/ \A i \in 1..n : \A p \in patterns : ~Begins(fed[s], i, p.value)

\* No form lies across the end of the first n bytes.
Closed(s, n) ==
    \A i \in 1..n : \A p \in Occurrences(patterns, fed[s], i) : i + Len(p.value) - 1 <= n

\* emitUpTo is the end of the last form scan() has found, 0 before it finds one.
Found(s) == {f \in (1..(at[s] - 1)) \X patterns : Occurs(work[s], f[1], f[2].value)}
End(f)   == f[1] + Len(f[2].value) - 1

CoversFound(s) ==
    /\ \A f \in Found(s) : End(f) <= emitUpTo[s]
    /\ emitUpTo[s] # 0 => \E f \in Found(s) : emitUpTo[s] = End(f)

ScanInv(s) ==
    /\ IF pc[s] = "scan"
       THEN holdover[s] = <<>> /\ Closed(s, Len(fed[s]) - Len(work[s])) /\ CoversFound(s)
       ELSE Closed(s, Decided(s)) /\ (final[s] \/ patterns = {} => holdover[s] = <<>>)
    /\ pc[s] \notin {"scan", "sink"} => out[s] = <<>>
    /\ pc[s] \in {"flushed", "destroyed"} => final[s]

\* Of the redaction of the first n bytes, the first m are gone, to the reader as
\* far as the cap allows, and the rest is on its way to the sink; once the writer
\* passes through, the cap is full of it.
Exact(s, n) ==
    LET all == Redaction(patterns, fed[s])[n] IN
    IF passThrough[s]
    THEN Limit <= Len(all) /\ kept[s] = SubSeq(all, 1, Limit)
    ELSE /\ n = Decided(s)
         /\ \E m \in 0..Len(all) :
               all = SubSeq(all, 1, m) \o out[s] /\ kept[s] = Cut(s, SubSeq(all, 1, m))

ExactHere(s) == failed[s] \/ \E n \in 0..Len(fed[s]) : Settled(s, n) /\ Exact(s, n)

ExactInv == IndInv /\ (Disjoint => \A s \in Streams : ScanInv(s) /\ ExactHere(s))
=============================================================================
