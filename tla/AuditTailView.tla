--------------------------- MODULE AuditTailView ---------------------------
(***************************************************************************)
(* The audit_tail tool (mcp_audit_tail.go, mcp_audit_filter.go) on the     *)
(* bytes of the log (readAuditTail and splitAuditLines of audit.go). A     *)
(* call appends an entry of its own, which carries a nonce, then reads the *)
(* last records, hides what an AI may not see, and takes its own entry     *)
(* out. Other writers append between the two. AuditLog has shown that a    *)
(* tail reads both files at one moment, so an append and a read are one    *)
(* step each here, and the files are sequences of bytes: 0 is a newline,   *)
(* an entry is Size bytes that name it.                                    *)
(***************************************************************************)
EXTENDS Integers, Sequences, FiniteSets

CONSTANTS
    Readers,        \* audit_tail calls
    Asked,          \* what they may ask for; 0 stands for anything not positive
    Default, Most,  \* 20 and mcpMaxAuditTailN
    Size,           \* bytes of an entry
    Block,          \* blockSize of readAuditTail
    FileSize,       \* size at which an append rotates first
    MaxEntries      \* bound: entries ever appended

ASSUME TailAssumption ==
    /\ Asked \subseteq Nat
    /\ {Default, Most, Size, Block} \subseteq Nat \ {0}
    /\ {FileSize, MaxEntries} \subseteq Nat

VARIABLES
    older, current, \* the bytes of audit.log.1 and audit.log
    entry,          \* every entry that was appended: [caller, action, tokens, nonce]
    reader,         \* a call: "idle", "recording", "reading", "returned" or "failed"
    limit,          \* its n
    nonce,          \* its nonce: the call itself, or "" if there is no randomness
    view            \* what it returns: a sequence of [entry, tokens]

tailVars == <<older, current, entry, reader, limit, nonce, view>>

TailInit ==
    /\ older = <<>> /\ current = <<>> /\ entry = <<>>
    /\ reader = [r \in Readers |-> "idle"]
    /\ limit = [r \in Readers |-> 0]
    /\ nonce = [r \in Readers |-> ""]
    /\ view = [r \in Readers |-> <<>>]

-----------------------------------------------------------------------------
(* The bytes *)

Bytes(e) == [i \in 1..Size |-> e]

\* An append rotates, and writes a record, a part of one, or nothing.
AppendBytes(e) ==
    LET rotates == Len(current) >= FileSize
        file == IF rotates THEN <<>> ELSE current
    IN  /\ older' = IF rotates THEN current ELSE older
        /\ current' \in {file \o Append(Bytes(e), 0), file \o Bytes(e), file \o <<e>>, file}

\* splitAuditLines
SplitLines(data) ==
    LET after[i \in 0..Len(data)] ==
            IF i = 0 THEN [lines |-> <<>>, start |-> 1]
            ELSE LET now == after[i - 1] IN
                 IF data[i] # 0 THEN now
                 ELSE [lines |-> IF i = now.start THEN now.lines
                                 ELSE Append(now.lines, SubSeq(data, now.start, i - 1)),
                       start |-> i + 1]
        all == after[Len(data)]
    IN  IF all.start > Len(data) THEN all.lines
        ELSE Append(all.lines, SubSeq(data, all.start, Len(data)))

\* Mutant: every newline counts, the one that ends the file included.
CountNewlines(chunk, wanted, inside) ==
    LET scanned[k \in 0..Len(chunk)] ==
            IF k = 0 THEN [wanted |-> wanted, inside |-> inside, from |-> 1]
            ELSE LET now == scanned[k - 1]
                     i == Len(chunk) - k + 1
                 IN  IF now.wanted = 0 THEN now
                     ELSE IF chunk[i] # 0 THEN [now EXCEPT !.inside = TRUE]
                     ELSE [wanted |-> now.wanted - 1, inside |-> FALSE,
                           from |-> IF now.wanted = 1 THEN i + 1 ELSE 1]
    IN  scanned[Len(chunk)]

\* One block, scanned from its end: how many records are still wanted, whether the scan is
\* inside one, and where the wanted ones begin in this block, once that is known.
ScanBlock(chunk, wanted, inside) ==
    LET scanned[k \in 0..Len(chunk)] ==
            IF k = 0 THEN [wanted |-> wanted, inside |-> inside, from |-> 1]
            ELSE LET now == scanned[k - 1]
                     i == Len(chunk) - k + 1
                 IN  IF now.wanted = 0 THEN now
                     ELSE IF chunk[i] # 0 THEN [now EXCEPT !.inside = TRUE]
                     ELSE IF ~now.inside THEN now
                     ELSE [wanted |-> now.wanted - 1, inside |-> FALSE,
                           from |-> IF now.wanted = 1 THEN i + 1 ELSE 1]
    IN  scanned[Len(chunk)]

\* readAuditTail: blocks from the end of the file until the nth record from there begins.
ReadTail(data, n) ==
    LET read[k \in 0..Len(data)] ==
            IF k = 0 THEN [end |-> Len(data), wanted |-> n, inside |-> FALSE, tail |-> <<>>]
            ELSE LET now == read[k - 1]
                     start == IF now.end < Block THEN 0 ELSE now.end - Block
                     chunk == SubSeq(data, start + 1, now.end)
                     found == ScanBlock(chunk, now.wanted, now.inside)
                 IN  IF now.end = 0 THEN now
                     ELSE [end |-> IF found.wanted = 0 THEN 0 ELSE start,
                           wanted |-> found.wanted, inside |-> found.inside,
                           tail |-> SubSeq(chunk, found.from, Len(chunk)) \o now.tail]
    IN  SplitLines(read[Len(data)].tail)

LastOf(s, n) == IF Len(s) <= n THEN s ELSE SubSeq(s, Len(s) - n + 1, Len(s))

\* tailAuditContext: audit.log, and what is missing from audit.log.1.
TailLines(n) ==
    LET lines == ReadTail(current, n) IN
    IF Len(lines) >= n THEN LastOf(lines, n)
    ELSE LastOf(ReadTail(older, n - Len(lines)) \o lines, n)

-----------------------------------------------------------------------------
(* What an AI may see *)

IsRecord(line) == line = Bytes(line[1])

Allowed == {"timed_out"}

\* Messages of these actions are key=value tokens and go through the allowlist.
Visible(e) ==
    IF entry[e].action \in {"mcp_run", "network_allowed", "set"}
    THEN entry[e].tokens \cap Allowed ELSE entry[e].tokens

\* The elements of a sequence at the places of a set.
Chosen(s, places) ==
    LET upTo[i \in 0..Len(s)] ==
            IF i = 0 THEN <<>>
            ELSE IF i \in places THEN Append(upTo[i - 1], s[i]) ELSE upTo[i - 1]
    IN  upTo[Len(s)]

FilterLines(lines) ==
    LET kept == Chosen(lines, {i \in DOMAIN lines :
                                 IsRecord(lines[i]) /\ entry[lines[i][1]].caller = "mcp"})
    IN  [i \in DOMAIN kept |-> [entry |-> kept[i][1], tokens |-> Visible(kept[i][1])]]

\* Mutant: the entry that comes last is taken for the call's own.
StripLast(shown, own) ==
    IF own = "" \/ shown = <<>> THEN shown ELSE SubSeq(shown, 1, Len(shown) - 1)

StripSelf(shown, own) ==
    IF own = "" THEN shown
    ELSE Chosen(shown, {i \in DOMAIN shown : ~(/\ entry[shown[i].entry].action = "audit_tail"
                                               /\ entry[shown[i].entry].nonce = own)})

Clamp(asked) == IF asked = 0 THEN Default ELSE IF asked > Most THEN Most ELSE asked

-----------------------------------------------------------------------------
(* The call *)

NewEntry(who, what, says, own) ==
    /\ Len(entry) < MaxEntries
    /\ entry' = Append(entry, [caller |-> who, action |-> what, tokens |-> says, nonce |-> own])
    /\ AppendBytes(Len(entry) + 1)

\* Somebody else appends: the operator, another run, another audit_tail.
OtherAppends ==
    /\ \/ NewEntry("cli", "get", {}, "")
       \/ NewEntry("mcp", "mcp_run", {"timed_out", "raw_exit"}, "")
       \/ NewEntry("mcp", "audit_tail", {"n"}, "another")
    /\ UNCHANGED <<reader, limit, nonce, view>>

AskTail(r) ==
    /\ reader[r] = "idle"
    /\ reader' = [reader EXCEPT ![r] = "recording"]
    /\ \E n \in Asked : limit' = [limit EXCEPT ![r] = Clamp(n)]
    /\ \E own \in {r, ""} : nonce' = [nonce EXCEPT ![r] = own]
    /\ UNCHANGED <<older, current, entry, view>>

RecordRead(r) ==
    /\ reader[r] = "recording"
    /\ NewEntry("mcp", "audit_tail", {"n"}, nonce[r])
    /\ reader' = [reader EXCEPT ![r] = "reading"]
    /\ UNCHANGED <<limit, nonce, view>>

ReturnTail(r) ==
    /\ reader[r] = "reading"
    /\ \/ /\ reader' = [reader EXCEPT ![r] = "returned"]
          /\ view' = [view EXCEPT ![r] = LastOf(StripSelf(FilterLines(TailLines(Most)), nonce[r]), limit[r])]
       \/ /\ reader' = [reader EXCEPT ![r] = "failed"]
          /\ UNCHANGED view
    /\ UNCHANGED <<older, current, entry, limit, nonce>>

TailNext ==
    \/ OtherAppends
    \/ \E r \in Readers : AskTail(r) \/ RecordRead(r) \/ ReturnTail(r)

TailSpec == TailInit /\ [][TailNext]_tailVars

-----------------------------------------------------------------------------
(* Properties *)

\* Where the records of a file begin: after a newline or at its start.
Begins(data) == {i \in DOMAIN data : data[i] # 0 /\ (i = 1 \/ data[i - 1] = 0)}

\* The record that begins there is whole: it is that of one entry, up to a newline or the end.
Whole(data, i) ==
    /\ i + Size - 1 <= Len(data)
    /\ \A j \in i..(i + Size - 1) : data[j] = data[i]
    /\ i + Size - 1 = Len(data) \/ data[i + Size] = 0

Newest(begins, n) == {i \in begins : Cardinality({j \in begins : j > i}) < n}

\* The entries whose record is whole and among the last Most of both files.
Recent ==
    LET new == Newest(Begins(current), Most)
        old == Newest(Begins(older), Most - Cardinality(new))
    IN  {current[i] : i \in {j \in new : Whole(current, j)}}
            \cup {older[i] : i \in {j \in old : Whole(older, j)}}

\* What a call returns, said without blocks or order of work: of the entries whose record is
\* whole and recent, those of MCP callers but its own, the last n of them in the order they
\* were written, with only the tokens an AI may see (mcp_audit_tail.go:47-84).
Due(r) ==
    {e \in Recent : entry[e].caller = "mcp" /\ (nonce[r] = "" \/ entry[e].nonce # nonce[r])}

TailViewIsExact ==
    [][\A r \in Readers : reader[r] = "reading" /\ reader'[r] = "returned" =>
         LET due == {e \in Due(r) : Cardinality({f \in Due(r) : f > e}) < limit[r]} IN
         /\ Len(view'[r]) = Cardinality(due)
         /\ \A i \in DOMAIN view'[r] :
              /\ view'[r][i].entry \in due
              /\ view'[r][i].tokens \subseteq {"timed_out", "n"}
              /\ \A j \in DOMAIN view'[r] : i < j => view'[r][i].entry < view'[r][j].entry]_tailVars
=============================================================================
