------------------------------ MODULE Redactor ------------------------------
(***************************************************************************)
(* The output redactor of opq: redact.go, with the cap that follows it in  *)
(* an MCP run (mcp_output.go).  One set of patterns serves a pair of       *)
(* writers, stdout and stderr.  A writer receives what the child prints in *)
(* pieces of any length, replaces every registered form of a secret by a   *)
(* token and passes the rest on; the end of a piece that may be the        *)
(* beginning of a form is held over to the next one.                       *)
(*                                                                         *)
(* scan() is modelled one iteration of its loop per step, so that what it  *)
(* promises can be proved by induction on the steps.  The locks, scratch   *)
(* buffers and their wiping are left out.                                  *)
(*                                                                         *)
(* A byte is a number.  Every byte that leaves the redactor carries, as    *)
(* history, the position in the child's output that it stands for and the  *)
(* name of the token it is a part of, NoName for a byte passed on.         *)
(***************************************************************************)
EXTENDS Naturals, Sequences, FiniteSets

CONSTANTS
    Streams,     \* the writers of a pair
    Capped,      \* the writers whose sink is a cappedWriter (MCP runs)
    Names,       \* the names of secrets
    NoName,      \* the name of no token
    Bytes,       \* what the child may print
    Families,    \* the sequences of secrets a pair may be built for
    Encoded,     \* the base64 and hex forms of a secret, as a sequence
    MinRawLen,   \* encodingMinRawLen: shorter secrets have no encoded form
    TokenSize,   \* length of "[REDACTED:NAME]"
    Limit,       \* mcpMaxOutputBytes
    MaxInput     \* bound: bytes the child prints on all streams together

Strings == Seq(Bytes)

ASSUME NamesAssumption == NoName \notin Names
ASSUME BytesAssumption == Bytes \subseteq Nat
ASSUME StreamsAssumption ==
    Streams # {} /\ IsFiniteSet(Streams) /\ Capped \subseteq Streams
ASSUME FamiliesAssumption ==
    \A family \in Families :
        family \in Seq([name : Names, value : Strings])
ASSUME EncodedAssumption ==
    \A family \in Families : \A s \in DOMAIN family :
        Encoded[family[s].value] \in Seq(Strings \ {<<>>})
ASSUME SizesAssumption ==
    MinRawLen \in Nat /\ TokenSize \in Nat /\ Limit \in Nat /\ MaxInput \in Nat

VARIABLES
    patterns,    \* the forms to find, prepared when the pair is built
    intact,      \* the shared patterns have not been wiped
    patternRefs, \* the number of writers that still use them
    pc,          \* what each writer is doing
    work,        \* the text scan() walks
    at,          \* its cursor i, the next byte to look at
    emitUpTo,    \* the last byte a redaction already covers
    out,         \* what scan() has produced
    holdover,    \* text kept for the next Write
    final,       \* Flush has begun
    passThrough, \* the sink drops everything: scanning has stopped
    truncated,   \* the cappedWriter has dropped something
    failed,      \* a write to the sink has failed: the child's copier stops
    kept,        \* what has reached the reader of the stream
    fed          \* history: what the child has printed

scanner == <<work, at, emitUpTo, out, holdover>>
shared  == <<patterns, intact, patternRefs>>
sinks   == <<truncated, failed, kept>>
vars    == <<shared, pc, scanner, final, passThrough, sinks, fed>>

-----------------------------------------------------------------------------
(* Patterns *)

\* encodedSecretForms
FormsOf(value) ==
    IF value = <<>> THEN <<>>
    ELSE <<value>> \o (IF Len(value) < MinRawLen THEN <<>> ELSE Encoded[value])

\* Each form of each secret, and what it is, in the order the secrets come.
FormIndex(family) == UNION {{s} \X DOMAIN FormsOf(family[s].value) : s \in DOMAIN family}
FormAt(family, f) == FormsOf(family[f[1]].value)[f[2]]
Precedes(e, f) == e[1] < f[1] \/ (e[1] = f[1] /\ e[2] < f[2])

\* NewRedactingWriter: of equal forms only the first is registered.
Registered(family) ==
    {f \in FormIndex(family) :
        ~\E e \in FormIndex(family) :
            Precedes(e, f) /\ FormAt(family, e) = FormAt(family, f)}

PatternsOf(family) ==
    {[name |-> family[f[1]].name, value |-> FormAt(family, f)] : f \in Registered(family)}

\* Wiped patterns match nothing.
Live == IF intact THEN patterns ELSE {}

\* The text from position i on and the value do not differ as far as both go.
Agrees(text, i, value) ==
    \A k \in 1..Len(value) : i + k - 1 <= Len(text) => text[i + k - 1] = value[k]

\* The value occurs in the text at position i.
Occurs(text, i, value) == i + Len(value) - 1 <= Len(text) /\ Agrees(text, i, value)

\* The text from position i on is a proper prefix of the value.
Begins(text, i, value) == Len(text) < i + Len(value) - 1 /\ Agrees(text, i, value)

Matches(text, i) == {p \in Live : Occurs(text, i, p.value)}
Longest(ps) == {p \in ps : \A q \in ps : Len(q.value) <= Len(p.value)}

-----------------------------------------------------------------------------
(* Output *)

Output == [at : Nat, token : Names \cup {NoName}, byte : Nat]

\* Bytes passed on: the text, which is printed from position start on.
Plain(text, start) ==
    [k \in 1..Len(text) |-> [at |-> start + k - 1, token |-> NoName, byte |-> text[k]]]

Token(name, position) ==
    [k \in 1..TokenSize |-> [at |-> position, token |-> name, byte |-> k]]

\* Position in the child's output of byte i of the text in work.
Position(s, i) == Len(fed[s]) - Len(work[s]) + i

Larger(m, n) == IF m < n THEN n ELSE m

-----------------------------------------------------------------------------
Init ==
    /\ \E family \in Families : patterns = PatternsOf(family)
    /\ intact = TRUE
    /\ patternRefs = Cardinality(Streams)
    /\ pc = [s \in Streams |-> "idle"]
    /\ work = [s \in Streams |-> <<>>]
    /\ at = [s \in Streams |-> 1]
    /\ emitUpTo = [s \in Streams |-> 0]
    /\ out = [s \in Streams |-> <<>>]
    /\ holdover = [s \in Streams |-> <<>>]
    /\ final = [s \in Streams |-> FALSE]
    /\ passThrough = [s \in Streams |-> FALSE]
    /\ truncated = [s \in Streams |-> FALSE]
    /\ failed = [s \in Streams |-> FALSE]
    /\ kept = [s \in Streams |-> <<>>]
    /\ fed = [s \in Streams |-> <<>>]

Goto(s, point) == pc' = [pc EXCEPT ![s] = point]

\* Scanning starts: the text replaces what was held over.
StartScan(s, text) ==
    /\ Goto(s, "scan")
    /\ work' = [work EXCEPT ![s] = text]
    /\ at' = [at EXCEPT ![s] = 1]
    /\ emitUpTo' = [emitUpTo EXCEPT ![s] = 0]
    /\ out' = [out EXCEPT ![s] = <<>>]
    /\ holdover' = [holdover EXCEPT ![s] = <<>>]

\* Write without scanning: there is nothing to find, or nothing gets through.
\* What was held over is dropped.
Bypass(s, p) ==
    /\ Goto(s, "sink")
    /\ out' = [out EXCEPT ![s] = Plain(p, Len(fed[s]) + 1)]
    /\ holdover' = [holdover EXCEPT ![s] = <<>>]
    /\ UNCHANGED <<work, at, emitUpTo>>

\* RedactingWriter.Write(p), up to the call of scan.
Write(s, p) ==
    /\ pc[s] = "idle"
    /\ ~failed[s]
    /\ p # <<>>
    /\ fed' = [fed EXCEPT ![s] = @ \o p]
    /\ \/ /\ Live = {}
          /\ Bypass(s, p)
          /\ UNCHANGED passThrough
       \/ /\ Live # {}
          /\ passThrough[s] \/ truncated[s]
          /\ passThrough' = [passThrough EXCEPT ![s] = TRUE]
          /\ Bypass(s, p)
       \/ /\ Live # {}
          /\ ~passThrough[s] /\ ~truncated[s]
          /\ StartScan(s, holdover[s] \o p)
          /\ UNCHANGED passThrough
    /\ UNCHANGED <<shared, final, sinks>>

-----------------------------------------------------------------------------
(* scan: one step per iteration *)

Scanning(s) == pc[s] = "scan" /\ at[s] <= Len(work[s])

MatchHere(s) == Matches(work[s], at[s]) # {}
Covered(s)   == at[s] <= emitUpTo[s]

\* Mutant: maxLen is the shortest form, not the longest.
PartialOfShortest(s) ==
    /\ ~final[s]
    /\ \A p \in Live : Len(work[s]) - at[s] + 1 < Len(p.value)
    /\ \E p \in Live : Begins(work[s], at[s], p.value)

\* What is left may be the beginning of a form.
Partial(s) ==
    ~final[s] /\ \E p \in Live : Begins(work[s], at[s], p.value)

Advance(s) == at' = [at EXCEPT ![s] = @ + 1]

\* The longest form that occurs here is replaced, covered or not.
Replace(s) ==
    /\ Scanning(s)
    /\ \E p \in Longest(Matches(work[s], at[s])) :
        /\ out' = [out EXCEPT ![s] = @ \o Token(p.name, Position(s, at[s]))]
        /\ emitUpTo' = [emitUpTo EXCEPT ![s] = Larger(@, at[s] + Len(p.value) - 1)]
    /\ Advance(s)
    /\ UNCHANGED <<shared, pc, work, holdover, final, passThrough, sinks, fed>>

\* A byte inside a form that has been replaced.
Suppress(s) ==
    /\ Scanning(s) /\ ~MatchHere(s) /\ Covered(s)
    /\ Advance(s)
    /\ UNCHANGED <<shared, pc, work, emitUpTo, out, holdover, final, passThrough,
                   sinks, fed>>

\* scan returns early and keeps the rest for later.
HoldOver(s) ==
    /\ Scanning(s) /\ ~MatchHere(s) /\ ~Covered(s) /\ Partial(s)
    /\ holdover' = [holdover EXCEPT ![s] = SubSeq(work[s], at[s], Len(work[s]))]
    /\ Goto(s, "sink")
    /\ UNCHANGED <<shared, work, at, emitUpTo, out, final, passThrough, sinks, fed>>

PassOn(s) ==
    /\ Scanning(s) /\ ~MatchHere(s) /\ ~Covered(s) /\ ~Partial(s)
    /\ out' = [out EXCEPT ![s] = @ \o Plain(<<work[s][at[s]]>>, Position(s, at[s]))]
    /\ Advance(s)
    /\ UNCHANGED <<shared, pc, work, emitUpTo, holdover, final, passThrough, sinks,
                   fed>>

ScanEnds(s) ==
    /\ pc[s] = "scan" /\ at[s] > Len(work[s])
    /\ Goto(s, "sink")
    /\ UNCHANGED <<shared, scanner, final, passThrough, sinks, fed>>

-----------------------------------------------------------------------------
(* The sink, and the end of the stream *)

Smaller(m, n) == IF m < n THEN m ELSE n

Keep(s, n) == kept' = [kept EXCEPT ![s] = @ \o SubSeq(out[s], 1, n)]

\* cappedWriter.Write: what fits is written, the rest is dropped.
CappedWrite(s) ==
    LET remaining == Limit - Len(kept[s]) IN
    /\ Keep(s, Smaller(Len(out[s]), remaining))
    /\ truncated' = [truncated EXCEPT ![s] = @ \/ Len(out[s]) > remaining]
    /\ UNCHANGED failed

\* A file or a terminal takes everything, or fails after some of it.
FileWrite(s) ==
    /\ \/ /\ Keep(s, Len(out[s]))
          /\ UNCHANGED failed
       \/ /\ out[s] # <<>>
          /\ \E n \in 0..(Len(out[s]) - 1) : Keep(s, n)
          /\ failed' = [failed EXCEPT ![s] = TRUE]
    /\ UNCHANGED truncated

\* The end of Write, or of Flush: the output goes down and is wiped.
Deliver(s) ==
    /\ pc[s] = "sink"
    /\ IF s \in Capped THEN CappedWrite(s) ELSE FileWrite(s)
    /\ Goto(s, IF final[s] THEN "flushed" ELSE "idle")
    /\ work' = [work EXCEPT ![s] = <<>>]
    /\ out' = [out EXCEPT ![s] = <<>>]
    /\ at' = [at EXCEPT ![s] = 1]
    /\ emitUpTo' = [emitUpTo EXCEPT ![s] = 0]
    /\ UNCHANGED <<shared, holdover, final, passThrough, fed>>

\* Mutant: what looks like the beginning of a secret is not flushed.
FlushDropsHoldover(s) ==
    /\ pc[s] = "idle"
    /\ final' = [final EXCEPT ![s] = TRUE]
    /\ Goto(s, "flushed")
    /\ UNCHANGED <<shared, scanner, passThrough, sinks, fed>>

\* Flush, once the child's copier is done: the rest is scanned to its end.
Flush(s) ==
    /\ pc[s] = "idle"
    /\ final' = [final EXCEPT ![s] = TRUE]
    /\ IF holdover[s] = <<>>
       THEN Goto(s, "flushed") /\ UNCHANGED scanner
       ELSE StartScan(s, holdover[s])
    /\ UNCHANGED <<shared, passThrough, sinks, fed>>

\* Mutant: the first writer of the pair wipes them.
DestroyWipesAtOnce(s) ==
    /\ pc[s] = "flushed"
    /\ Goto(s, "destroyed")
    /\ patternRefs' = patternRefs - 1
    /\ intact' = FALSE
    /\ UNCHANGED <<patterns, scanner, final, passThrough, sinks, fed>>

\* Destroy: the last writer of the pair wipes the patterns.
Destroy(s) ==
    /\ pc[s] = "flushed"
    /\ Goto(s, "destroyed")
    /\ patternRefs' = patternRefs - 1
    /\ intact' = (patternRefs > 1)
    /\ UNCHANGED <<patterns, scanner, final, passThrough, sinks, fed>>

-----------------------------------------------------------------------------
\* Bytes printed on all streams.
Fed == LET count[S \in SUBSET Streams] ==
               IF S = {} THEN 0
               ELSE LET s == CHOOSE s \in S : TRUE IN Len(fed[s]) + count[S \ {s}]
       IN count[Streams]

\* What the child can print at once within the bound.
Pieces == UNION {[1..n -> Bytes] : n \in 1..(MaxInput - Fed)}

Scan(s) == Replace(s) \/ Suppress(s) \/ HoldOver(s) \/ PassOn(s) \/ ScanEnds(s)

Next == \E s \in Streams :
    \/ \E p \in Pieces : Write(s, p)
    \/ Scan(s)
    \/ Deliver(s)
    \/ Flush(s)
    \/ Destroy(s)

Spec == Init /\ [][Next]_vars

-----------------------------------------------------------------------------
(* Properties *)

\* The writers' variables have their types; what comes out stands for bytes
\* that were printed.
TypeOK ==
    /\ patterns \subseteq [name : Names, value : Strings \ {<<>>}]
    /\ intact \in BOOLEAN
    /\ patternRefs \in 0..Cardinality(Streams)
    /\ pc \in [Streams -> {"idle", "scan", "sink", "flushed", "destroyed"}]
    /\ {work, holdover, fed} \subseteq [Streams -> Strings]
    /\ {out, kept} \subseteq [Streams -> Seq(Output)]
    /\ {at, emitUpTo} \subseteq [Streams -> Nat]
    /\ {final, passThrough, truncated, failed} \subseteq [Streams -> BOOLEAN]

\* However the child's output is cut into pieces, whatever the secrets are and
\* wherever the sink stops, the first byte of a form of a secret never comes
\* out: no form appears whole on the other side.
StartsAreHidden ==
    \A s \in Streams : \A k \in 1..Len(kept[s]) : \A p \in patterns :
        kept[s][k].token = NoName => ~Occurs(fed[s], kept[s][k].at, p.value)

\* The inductive invariant behind it.  What a writer scans or holds over is the
\* end of what was printed; the patterns live as long as a writer may use them;
\* a byte passed on is one where no form begins, not even one whose end is yet
\* to be printed; and a writer stops scanning only when its cap is reached.
Suffix(text, whole) ==
    /\ Len(text) <= Len(whole)
    /\ \A i \in 1..Len(text) : text[i] = whole[Len(whole) - Len(text) + i]

NoStart(s, i) ==
    /\ i \in 1..Len(fed[s])
    /\ \A p \in patterns :
        /\ ~Occurs(fed[s], i, p.value)
        /\ final[s] \/ ~Agrees(fed[s], i, p.value)

Clean(s, output) ==
    \A k \in 1..Len(output) : output[k].token = NoName => NoStart(s, output[k].at)

PatternsLive ==
    /\ patternRefs = Cardinality({s \in Streams : pc[s] # "destroyed"})
    /\ intact <=> patternRefs > 0

TextInv(s) ==
    /\ Suffix(work[s], fed[s])
    /\ at[s] \in 1..(Len(work[s]) + 1)
    /\ Suffix(holdover[s], fed[s])
    /\ passThrough[s] => holdover[s] = <<>>
    /\ pc[s] = "idle" => ~final[s] /\ work[s] = <<>>
    /\ pc[s] = "scan" => ~passThrough[s]

OutputInv(s) ==
    /\ Clean(s, kept[s])
    /\ passThrough[s] \/ Clean(s, out[s])
    /\ passThrough[s] => truncated[s]
    /\ truncated[s] => s \in Capped /\ Len(kept[s]) = Limit
    /\ s \in Capped => Len(kept[s]) <= Limit

IndInv ==
    /\ TypeOK
    /\ PatternsLive
    /\ \A s \in Streams : TextInv(s) /\ OutputInv(s)
=============================================================================
