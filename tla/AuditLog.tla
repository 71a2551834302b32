------------------------------ MODULE AuditLog ------------------------------
(***************************************************************************)
(* The audit log of opq: audit.go.  Several opq processes, each with one   *)
(* or more goroutines, append records to audit.log and read its tail.      *)
(* Inside a process auditMu serializes them, across processes a flock on   *)
(* audit.lock, which is a file of its own because rotation replaces        *)
(* audit.log.  Every process keeps its descriptor of the log from call to  *)
(* call, so it may still hold a file another process has rotated away.     *)
(*                                                                         *)
(* A task is a goroutine that may call AppendAuditContext or tailAudit.    *)
(* One step is one wait for a lock or one group of file-system calls that  *)
(* no other cooperating process can see the inside of.  Any of them may    *)
(* fail, a write may put only a part of its line in the file, and a        *)
(* process may die between two steps.                                      *)
(*                                                                         *)
(* A file is the sequence of its lines, as splitAuditLines finds them.  A   *)
(* line is abstracted to the events whose bytes are in it and whether its  *)
(* newline is: a write that stops half-way leaves a line that the next     *)
(* write continues.  Sizes count lines.  Files are inodes.  "logged" and   *)
(* "dropped" are history: every line ever written, in order, and the lines *)
(* that rotations have overwritten.                                        *)
(***************************************************************************)
EXTENDS Naturals, Sequences

CONSTANTS
    Processes,      \* opq processes
    Tasks,          \* goroutines that use the audit log
    ProcessOf,      \* the process each task runs in
    RequestScoped,  \* tasks whose context can be cancelled (MCP handlers)
    Inodes,         \* files that audit.log and audit.log.1 may name
    NoFile,         \* a path that names nothing, a closed descriptor
    Threshold,      \* auditRotateThreshold, in lines
    Wanted,         \* values of n that callers of tailAudit pass; 0 is "all"
    MaxCalls        \* bound: the number of calls the tasks make together

ASSUME ProcessAssumption   == ProcessOf \in [Tasks -> Processes]
ASSUME ScopeAssumption     == RequestScoped \subseteq Tasks
ASSUME InodesAssumption    == NoFile \notin Inodes
ASSUME ThresholdAssumption == Threshold \in Nat \ {0}
ASSUME WantedAssumption    == Wanted \subseteq Nat
ASSUME AuditBoundsAssumption == MaxCalls \in Nat

VARIABLES
    active,     \* inode named audit.log
    rotated,    \* inode named audit.log.1
    content,    \* lines in each inode
    fd,         \* auditFile of each process: an inode or NoFile
    logged,     \* history: every line written, in the order of the writes
    dropped,    \* history: lines a rotation has overwritten
    mutex,      \* tasks that hold the auditMu of their process
    flock,      \* how each task holds audit.lock
    pc,         \* where each task is
    event,      \* event a task appends
    want,       \* n of the tail a task reads
    cancelled,  \* whether its context is done
    got,        \* lines a tail has read from the active log
    out,        \* outcome of its latest call
    result,     \* lines its latest tail returned
    calls       \* calls made so far

files == <<active, rotated, content, fd, logged, dropped>>
locks == <<mutex, flock>>
tasks == <<pc, event, want, cancelled, got, out, result>>
vars  == <<files, locks, tasks, calls>>

-----------------------------------------------------------------------------
(* Lines and tails *)

Events == 1..MaxCalls
AllLines == [events : Seq(Events), ended : BOOLEAN]

\* The last line is unterminated: what is written next continues it.
OpenEnded(lines) == lines # <<>> /\ ~lines[Len(lines)].ended

NewLine(lines, e, whole) == Append(lines, [events |-> <<e>>, ended |-> whole])

\* The lines of a file after the bytes of e, all of them or not, are added.
Extend(lines, e, whole) ==
    IF OpenEnded(lines)
    THEN [lines EXCEPT ![Len(lines)] =
             [events |-> Append(@.events, e), ended |-> whole]]
    ELSE NewLine(lines, e, whole)

\* readAuditFileLinesLocked: the last n lines, all of them for 0.
LastLines(lines, n) ==
    IF n = 0 \/ Len(lines) <= n THEN lines
    ELSE SubSeq(lines, Len(lines) - n + 1, Len(lines))

\* A missing file is empty.
At(file) == IF file = NoFile THEN <<>> ELSE content[file]

-----------------------------------------------------------------------------
(* Program points and locks *)

Points   == {"idle", "mutex", "flock", "ensure", "rotate", "reopen", "write",
             "sync", "readActive", "readRotated"}
Waiting  == {"mutex", "flock"}
Outcomes == {"none", "ok", "cancelled", "error"}

\* A tail asks for some lines, an append has an event.
IsAppend(t) == event[t] # 0

Goto(t, point) == pc' = [pc EXCEPT ![t] = point]

Unlock(t) ==
    /\ mutex' = mutex \ {t}
    /\ flock' = [flock EXCEPT ![t] = "none"]

\* A call returns: its arguments and locals are gone.
Done(t, outcome, lines) ==
    /\ Goto(t, "idle")
    /\ out' = [out EXCEPT ![t] = outcome]
    /\ result' = [result EXCEPT ![t] = lines]
    /\ event' = [event EXCEPT ![t] = 0]
    /\ want' = [want EXCEPT ![t] = 0]
    /\ cancelled' = [cancelled EXCEPT ![t] = FALSE]
    /\ got' = [got EXCEPT ![t] = <<>>]
    /\ UNCHANGED calls

\* The deferred unlocks run on every path.
Return(t, outcome) == Unlock(t) /\ Done(t, outcome, <<>>)

\* What a step that stays inside the call leaves alone.
Request == <<event, want, cancelled, calls>>
Stay    == UNCHANGED <<Request, out, result>>

Init ==
    /\ active = NoFile
    /\ rotated = NoFile
    /\ content = [i \in Inodes |-> <<>>]
    /\ fd = [p \in Processes |-> NoFile]
    /\ logged = <<>>
    /\ dropped = <<>>
    /\ mutex = {}
    /\ flock = [t \in Tasks |-> "none"]
    /\ pc = [t \in Tasks |-> "idle"]
    /\ event = [t \in Tasks |-> 0]
    /\ want = [t \in Tasks |-> 0]
    /\ cancelled = [t \in Tasks |-> FALSE]
    /\ got = [t \in Tasks |-> <<>>]
    /\ out = [t \in Tasks |-> "none"]
    /\ result = [t \in Tasks |-> <<>>]
    /\ calls = 0

Begin(t, e, n) ==
    /\ pc[t] = "idle"
    /\ calls < MaxCalls
    /\ calls' = calls + 1
    /\ Goto(t, "mutex")
    /\ event' = [event EXCEPT ![t] = e]
    /\ want' = [want EXCEPT ![t] = n]
    /\ out' = [out EXCEPT ![t] = "none"]
    /\ result' = [result EXCEPT ![t] = <<>>]
    /\ UNCHANGED <<files, locks, cancelled, got>>

BeginAppend(t)  == Begin(t, calls + 1, 0)
BeginTail(t, n) == Begin(t, 0, n)

\* The request is cancelled or times out; the code looks at its context only
\* where a step below says so.
Cancel(t) ==
    /\ t \in RequestScoped
    /\ pc[t] # "idle"
    /\ ~cancelled[t]
    /\ cancelled' = [cancelled EXCEPT ![t] = TRUE]
    /\ UNCHANGED <<files, locks, pc, event, want, got, out, result, calls>>

-----------------------------------------------------------------------------
(* Waiting for the locks *)

TakeMutex(t) ==
    /\ pc[t] = "mutex"
    /\ ~cancelled[t]
    /\ \A u \in mutex : ProcessOf[u] # ProcessOf[t]
    /\ mutex' = mutex \cup {t}
    /\ Goto(t, "flock")
    /\ UNCHANGED <<files, flock, got>> /\ Stay

\* Mutant: a writer takes the lock in shared mode.
WriterSharesLock(t) == "shared"

LockMode(t) == IF IsAppend(t) THEN "exclusive" ELSE "shared"

\* Mutant: a tail does not compete with the writers.
TakeFlockWriterOnly(t) ==
    /\ pc[t] = "flock"
    /\ ~cancelled[t]
    /\ IsAppend(t) => \A u \in Tasks \ {t} : flock[u] = "none"
    /\ flock' = [flock EXCEPT ![t] = IF IsAppend(t) THEN "exclusive" ELSE "none"]
    /\ Goto(t, IF IsAppend(t) THEN "ensure" ELSE "readActive")
    /\ UNCHANGED <<files, mutex, got>> /\ Stay

TakeFlock(t) ==
    /\ pc[t] = "flock"
    /\ ~cancelled[t]
    /\ \A u \in Tasks \ {t} :
         flock[u] = "none" \/ (flock[u] = "shared" /\ LockMode(t) = "shared")
    /\ flock' = [flock EXCEPT ![t] = LockMode(t)]
    /\ Goto(t, IF IsAppend(t) THEN "ensure" ELSE "readActive")
    /\ UNCHANGED <<files, mutex, got>> /\ Stay

\* audit.lock cannot be opened or locked.
LockFails(t) ==
    /\ pc[t] = "flock"
    /\ Return(t, "error")
    /\ UNCHANGED files

\* Mutant: auditMu is taken with a blocking Lock whatever the context.
GiveUpFlockOnly(t) ==
    /\ pc[t] = "flock"
    /\ cancelled[t]
    /\ Return(t, "cancelled")
    /\ UNCHANGED files

GiveUp(t) ==
    /\ pc[t] \in Waiting
    /\ cancelled[t]
    /\ Return(t, "cancelled")
    /\ UNCHANGED files

\* The code checks its context before it goes on from one of these points.
NoticeCancel(t) ==
    /\ pc[t] \in {"ensure", "write", "readActive", "readRotated"}
    /\ cancelled[t]
    /\ Return(t, "cancelled")
    /\ UNCHANGED files

-----------------------------------------------------------------------------
(* Files *)

\* Inodes no path names and no process has open; which one is used is all the
\* same.
Free == Inodes \ ({active, rotated} \cup {fd[p] : p \in Processes})

\* open(audit.log, O_APPEND|O_CREATE)
OpenLog ==
    /\ IF active # NoFile
       THEN UNCHANGED <<active, content>>
       ELSE /\ Free # {}
            /\ active' = CHOOSE i \in Free : TRUE
            /\ content' = [content EXCEPT ![active'] = <<>>]
    /\ UNCHANGED <<rotated, logged, dropped>>

\* openAuditFileLocked fails before or after the open has created the file.
OpenFails ==
    \/ UNCHANGED <<active, rotated, content, logged, dropped>>
    \/ OpenLog

\* The call goes on with the locks it holds.
Continue(t, point) == Goto(t, point) /\ UNCHANGED <<locks, got>> /\ Stay

\* The process gets a descriptor and the append goes on, or it has none.
OpenAndGo(t, point) ==
    LET p == ProcessOf[t] IN
    \/ /\ OpenLog /\ fd' = [fd EXCEPT ![p] = active']
       /\ Continue(t, point)
    \/ /\ OpenFails /\ fd' = [fd EXCEPT ![p] = NoFile]
       /\ Return(t, "error")

\* rename(audit.log, audit.log.1)
Rename ==
    /\ active # NoFile
    /\ rotated' = active
    /\ active' = NoFile
    /\ dropped' = dropped \o At(rotated)
    /\ UNCHANGED <<content, logged>>

\* write(2) on a descriptor opened with O_APPEND.
Put(file, e, whole) ==
    /\ content' = [content EXCEPT ![file] = Extend(@, e, whole)]
    /\ logged' = IF OpenEnded(content[file]) THEN Extend(logged, e, whole)
                 ELSE NewLine(logged, e, whole)

-----------------------------------------------------------------------------
(* appendAuditInternal, with both locks held *)

\* Mutant: a cached descriptor is used without looking at the path.
EnsureTrustsDescriptor(t) ==
    LET mine == fd[ProcessOf[t]] IN
    /\ pc[t] = "ensure"
    /\ ~cancelled[t]
    /\ \/ /\ mine # NoFile
          /\ Continue(t, "rotate")
          /\ UNCHANGED files
       \/ mine = NoFile /\ OpenAndGo(t, "rotate")

\* ensureAuditFileLocked: the cached descriptor is kept if it still is the file
\* the path names, and replaced if the file was rotated away or removed.
Ensure(t) ==
    LET mine == fd[ProcessOf[t]] IN
    /\ pc[t] = "ensure"
    /\ ~cancelled[t]
    /\ \/ /\ mine # NoFile /\ mine = active
          /\ Continue(t, "rotate")
          /\ UNCHANGED files
       \/ /\ mine # NoFile
          /\ Return(t, "error") /\ UNCHANGED files
       \/ /\ mine = NoFile \/ mine # active
          /\ OpenAndGo(t, "rotate")

Full(file) == Len(At(file)) >= Threshold

\* rotateIfTooLargeLocked up to the rename.
Rotate(t) ==
    LET p == ProcessOf[t] IN
    /\ pc[t] = "rotate"
    /\ \/ /\ ~Full(fd[p])
          /\ Continue(t, "write")
          /\ UNCHANGED files
       \/ /\ Full(fd[p]) /\ Rename
          /\ fd' = [fd EXCEPT ![p] = NoFile]
          /\ Continue(t, "reopen")
       \/ /\ Full(fd[p])
          /\ fd' = [fd EXCEPT ![p] = NoFile]
          /\ Return(t, "error")
          /\ UNCHANGED <<active, rotated, content, logged, dropped>>
       \/ Return(t, "error") /\ UNCHANGED files

\* The rest of it: a fresh active log.
Reopen(t) ==
    /\ pc[t] = "reopen"
    /\ OpenAndGo(t, "write")

Write(t) ==
    LET mine == fd[ProcessOf[t]] IN
    /\ pc[t] = "write"
    /\ ~cancelled[t]
    /\ \/ /\ Put(mine, event[t], TRUE)
          /\ Continue(t, "sync")
       \/ /\ Put(mine, event[t], FALSE) \/ UNCHANGED <<content, logged>>
          /\ Return(t, "error")
    /\ UNCHANGED <<active, rotated, fd, dropped>>

\* Mutant: a failed fsync returns without the deferred unlocks.
SyncKeepsLocks(t) ==
    /\ pc[t] = "sync"
    /\ \/ Return(t, "ok")
       \/ Done(t, "error", <<>>) /\ UNCHANGED locks
    /\ UNCHANGED files

Sync(t) ==
    /\ pc[t] = "sync"
    /\ \E outcome \in {"ok", "error"} : Return(t, outcome)
    /\ UNCHANGED files

-----------------------------------------------------------------------------
(* tailAuditContext, with both locks held *)

\* The active log alone may be enough.
ReadActive(t) ==
    LET lines == LastLines(At(active), want[t]) IN
    /\ pc[t] = "readActive"
    /\ ~cancelled[t]
    /\ \/ /\ want[t] > 0 /\ Len(lines) >= want[t]
          /\ Unlock(t) /\ Done(t, "ok", lines)
       \/ /\ want[t] = 0 \/ Len(lines) < want[t]
          /\ got' = [got EXCEPT ![t] = lines]
          /\ Goto(t, "readRotated")
          /\ UNCHANGED locks /\ Stay
       \/ Return(t, "error")
    /\ UNCHANGED files

ReadRotated(t) ==
    LET missing == IF want[t] = 0 THEN 0 ELSE want[t] - Len(got[t])
        older   == LastLines(At(rotated), missing)
    IN
    /\ pc[t] = "readRotated"
    /\ ~cancelled[t]
    /\ \/ Unlock(t) /\ Done(t, "ok", LastLines(older \o got[t], want[t]))
       \/ Return(t, "error")
    /\ UNCHANGED files

-----------------------------------------------------------------------------
\* The process dies: its tasks stop where they are, and the kernel closes its
\* descriptors and with them releases its locks.
Crash(p) ==
    LET mine == {t \in Tasks : ProcessOf[t] = p}
        Reset(f, initial) == [t \in Tasks |-> IF t \in mine THEN initial ELSE f[t]]
    IN
    /\ fd[p] # NoFile \/ \E t \in mine : pc[t] # "idle"
    /\ fd' = [fd EXCEPT ![p] = NoFile]
    /\ mutex' = mutex \ mine
    /\ flock' = Reset(flock, "none")
    /\ pc' = Reset(pc, "idle")
    /\ event' = Reset(event, 0)
    /\ want' = Reset(want, 0)
    /\ cancelled' = Reset(cancelled, FALSE)
    /\ got' = Reset(got, <<>>)
    /\ out' = Reset(out, "none")
    /\ result' = Reset(result, <<>>)
    /\ UNCHANGED <<active, rotated, content, logged, dropped, calls>>

\* Steps of the two waiting loops, and steps that call the file system.
Poll(t) == TakeMutex(t) \/ TakeFlock(t) \/ GiveUp(t)
Native(t) ==
    \/ NoticeCancel(t)
    \/ Ensure(t) \/ Rotate(t) \/ Reopen(t) \/ Write(t) \/ Sync(t)
    \/ ReadActive(t) \/ ReadRotated(t)

Next ==
    \/ \E t \in Tasks :
        \/ BeginAppend(t) \/ Cancel(t) \/ Poll(t) \/ Native(t) \/ LockFails(t)
        \/ \E n \in Wanted : BeginTail(t, n)
    \/ \E p \in Processes : Crash(p)

Spec == Init /\ [][Next]_vars

\* The waiting loops wake up every 5 ms, and a blocking lock call is served when
\* the lock is free.  No native call is assumed to return.
FairSpec == Spec /\ \A t \in Tasks : WF_vars(Poll(t))
NativeCallsReturn == \A t \in Tasks : WF_vars(Native(t))

-----------------------------------------------------------------------------
(* Properties *)

\* Type invariant.
TypeOK ==
    /\ active \in Inodes \cup {NoFile}
    /\ rotated \in Inodes \cup {NoFile}
    /\ content \in [Inodes -> Seq(AllLines)]
    /\ fd \in [Processes -> Inodes \cup {NoFile}]
    /\ logged \in Seq(AllLines)
    /\ dropped \in Seq(AllLines)
    /\ mutex \subseteq Tasks
    /\ flock \in [Tasks -> {"none", "shared", "exclusive"}]
    /\ pc \in [Tasks -> Points]
    /\ event \in [Tasks -> 0..MaxCalls]
    /\ want \in [Tasks -> Wanted \cup {0}]
    /\ cancelled \in [Tasks -> BOOLEAN]
    /\ got \in [Tasks -> Seq(AllLines)]
    /\ out \in [Tasks -> Outcomes]
    /\ result \in [Tasks -> Seq(AllLines)]
    /\ calls \in 0..MaxCalls

\* However appends of several processes, rotations, failures and crashes
\* interleave, what was ever written is, in the order of the writes, what the
\* rotations overwrote, then audit.log.1, then audit.log: no record is lost,
\* duplicated, reordered or written to a file that was rotated away.
LogIsExact == logged = dropped \o At(rotated) \o At(active)

\* A rotation overwrites history only with a log that had reached the
\* threshold, so the newest Threshold records survive whoever rotates.
KeepsAFullRotation ==
    dropped # <<>> => Len(At(rotated)) >= Threshold

\* A tail that succeeds returns exactly the last n lines of the two files as
\* they are at one moment, although it reads one after the other while other
\* processes append and rotate: tailAuditContext under LOCK_SH.
TailIsExact ==
    [][\A t \in Tasks :
        pc[t] \in {"readActive", "readRotated"} /\ pc'[t] = "idle" /\ out'[t] = "ok"
        => result'[t] = LastLines(At(rotated) \o At(active), want[t])]_vars

\* The inductive invariant behind the two invariants.  A task holds its locks
\* exactly where the code says it does; while it holds them exclusively, the
\* descriptor of its process is the file the path names, up to the moment it
\* renames that file; and what a tail has read of the active log still stands.
Appending == {"ensure", "rotate", "reopen", "write", "sync"}
Tailing   == {"readActive", "readRotated"}

LockDiscipline(t) ==
    /\ t \in mutex <=> pc[t] \notin {"idle", "mutex"}
    /\ flock[t] = IF pc[t] \in Appending \cup Tailing THEN LockMode(t) ELSE "none"
    /\ pc[t] \in Appending => IsAppend(t)
    /\ pc[t] \in Tailing => ~IsAppend(t)

Exclusion ==
    /\ \A t, u \in Tasks : t # u => (flock[t] = "exclusive" => flock[u] = "none")
    /\ \A t, u \in mutex : ProcessOf[t] = ProcessOf[u] => t = u

AppendProgress(t) ==
    /\ pc[t] \in {"rotate", "write", "sync"} =>
         active # NoFile /\ fd[ProcessOf[t]] = active
    /\ pc[t] = "reopen" => active = NoFile

TailProgress(t) ==
    pc[t] = "readRotated" =>
        /\ got[t] = At(active)
        /\ want[t] = 0 \/ Len(got[t]) < want[t]

IndInv ==
    /\ TypeOK
    /\ Exclusion
    /\ \A t \in Tasks : LockDiscipline(t) /\ AppendProgress(t) /\ TailProgress(t)
    /\ active = rotated => active = NoFile
    /\ LogIsExact
    /\ KeepsAFullRotation

\* A call whose context is done stops waiting for a lock, even when the holder
\* of that lock never comes back from a native call.
CancelledWaitEnds ==
    \A t \in Tasks : cancelled[t] /\ pc[t] \in Waiting ~> pc[t] \notin Waiting

\* If native calls return, every append and every tail returns: none waits for
\* ever for auditMu or for audit.lock.
EveryCallReturns ==
    NativeCallsReturn => \A t \in Tasks : pc[t] # "idle" ~> pc[t] = "idle"
=============================================================================
