---------------------------- MODULE ExecCliProofs ----------------------------
(* Proofs about ExecCli, for any set of invocations and hosts and any capacity  *)
(* of the signal channel.                                                       *)
EXTENDS ExecCli, SequenceTheorems, TLAPS

USE DEF given, caught, confirmation, secrets, child, os, execVars

\* Every step keeps the types.
LEMMA TypesKept == ExecTypeOK /\ [ExecNext]_execVars => ExecTypeOK'
<1> SUFFICES ASSUME ExecTypeOK, [ExecNext]_execVars PROVE ExecTypeOK'
  OBVIOUS
<1> USE DEF ExecTypeOK
<1>1. CASE SignalArrives
  BY <1>1, QueueAssumption DEF SignalArrives
<1>2. CASE ContextDone
  BY <1>2 DEF ContextDone
<1>3. CASE CloserStarts
  BY <1>3 DEF CloserStarts
<1>4. CASE CloserEnds
  BY <1>4 DEF CloserEnds
<1>5. CASE Gate
  BY <1>5 DEF Gate, Goto
<1>6. CASE ReadConfirmation
  BY <1>6 DEF ReadConfirmation, Goto
<1>7. CASE JoinCloser
  BY <1>7 DEF JoinCloser, Goto
<1>8. CASE Refused
  BY <1>8 DEF Refused, Leaves
<1>9. CASE Prepare
  BY <1>9 DEF Prepare, Goto, Leaves
<1>10. CASE Resolve
  BY <1>10 DEF Resolve, Goto, Leaves
<1>11. CASE Inject
  BY <1>11 DEF Inject, Goto, Recorded, Appended
<1>12. CASE Announce
  <2>1. entries' \subseteq {"written", "failed", "refused"}
    BY <1>12 DEF Announce, Recorded, Appended
  <2> QED BY <1>12, <2>1 DEF Announce, Goto
<1>13. CASE Start
  BY <1>13 DEF Start, Goto
<1>14. CASE StartFails
  BY <1>14 DEF StartFails, Leaves
<1>15. CASE Exits
  <2>1. kin' \subseteq {"group", "stray"}
    BY <1>15 DEF Exits, Survivors
  <2> QED BY <1>15, <2>1 DEF Exits
<1>16. CASE Forks
  <2>1. kin' \subseteq {"group", "stray"}
    BY <1>16 DEF Forks
  <2> QED BY <1>16, <2>1 DEF Forks
<1>17. CASE DescendantsEnd
  BY <1>17 DEF DescendantsEnd
<1>18. CASE OutputEnds
  BY <1>18 DEF OutputEnds
<1>19. CASE CancelRun
  BY <1>19 DEF CancelRun
<1>20. CASE KillCommand
  <2>1. kin' \subseteq {"group", "stray"} /\ copier' \in {copier, "cut"}
    BY <1>20 DEF KillCommand, CutPipes, Survivors
  <2> QED BY <1>20, <2>1 DEF KillCommand
<1>21. CASE Reap
  BY <1>21 DEF Reap, Goto
<1>22. CASE Join
  BY <1>22 DEF Join, Goto, Keep
<1>23. CASE Drain
  BY <1>23 DEF Drain, Goto, CutPipes, Keep
<1>24. CASE StopChildProcesses
  BY <1>24 DEF StopChildProcesses, Goto
<1>25. CASE Forward
  BY <1>25, QueueAssumption DEF Forward
<1>26. CASE ForwarderEnds
  BY <1>26 DEF ForwarderEnds
<1>27. CASE Finish
  BY <1>27 DEF Finish, Leaves, Verdict
<1>28. CASE UNCHANGED execVars
  BY <1>28
<1> QED
  BY <1>1, <1>2, <1>3, <1>4, <1>5, <1>6, <1>7, <1>8, <1>9, <1>10, <1>11, <1>12, <1>13, <1>14, <1>15,
     <1>16, <1>17, <1>18, <1>19, <1>20, <1>21, <1>22, <1>23, <1>24, <1>25, <1>26, <1>27, <1>28
     DEF ExecNext, Proceeds

\* The number of secrets is a number.
LEMMA EnvIsNat == ExecTypeOK => run.env \in Nat
  BY InvocationsAssumption DEF ExecTypeOK

Rest == GateOrder /\ EntryOrder /\ CommandOrder /\ ExitIsTrue

\* The steps of Run up to the start of the command.
LEMMA PreparationKeeps ==
    ASSUME ExecInv,
           \/ Gate \/ ReadConfirmation \/ JoinCloser \/ Refused \/ Prepare
           \/ Resolve \/ Inject \/ Announce \/ Start \/ StartFails
    PROVE  Rest'
<1> USE DEF ExecInv, ExecTypeOK, Goto, Leaves, Recorded, Appended, BeforeCommand, WithCommand,
        Rest, GateOrder, EntryOrder, CommandOrder, ExitIsTrue, Private, Copied
<1>1. CASE Gate
  BY <1>1 DEF Gate
<1>2. CASE ReadConfirmation
  BY <1>2 DEF ReadConfirmation
<1>3. CASE JoinCloser
  BY <1>3 DEF JoinCloser
<1>4. CASE Refused
  BY <1>4, EnvIsNat DEF Refused
<1>5. CASE Prepare
  <2>1. CASE step' = "resolve"
    BY <1>5, <2>1 DEF Prepare
  <2>2. CASE step' = "returned"
    BY <1>5, <2>2, EnvIsNat DEF Prepare
  <2> QED BY <1>5, <2>1, <2>2 DEF Prepare
<1>6. CASE Resolve
  BY <1>6, EnvIsNat DEF Resolve
<1>7. CASE Inject
  BY <1>7 DEF Inject
<1>8. CASE Announce
  BY <1>8 DEF Announce
<1>9. CASE Start
  BY <1>9 DEF Start
<1>10. CASE StartFails
  BY <1>10, EnvIsNat DEF StartFails
<1> QED BY <1>1, <1>2, <1>3, <1>4, <1>5, <1>6, <1>7, <1>8, <1>9, <1>10

\* The steps of the signals, of the callback, of the command and of the forwarder.
LEMMA EnvironmentKeeps ==
    ASSUME ExecInv,
           \/ SignalArrives \/ ContextDone \/ CloserStarts \/ CloserEnds
           \/ Exits \/ Forks \/ DescendantsEnd \/ OutputEnds \/ Forward \/ ForwarderEnds
    PROVE  Rest'
<1> USE DEF ExecInv, ExecTypeOK, Goto, BeforeCommand, WithCommand,
        Rest, GateOrder, EntryOrder, CommandOrder, ExitIsTrue, Private, Copied
<1>1. CASE SignalArrives
  BY <1>1 DEF SignalArrives
<1>7. CASE ContextDone
  BY <1>7 DEF ContextDone
<1>2. CASE CloserStarts \/ CloserEnds
  BY <1>2 DEF CloserStarts, CloserEnds
<1>3. CASE Exits
  BY <1>3 DEF Exits, Survivors
<1>4. CASE Forks
  <2>1. CASE kin' = kin \cup {"stray"}
    <3>1. "group" \in kin' <=> "group" \in kin
      BY <2>1
    <3>2. leader = "none" => kin' = {}
      BY <1>4 DEF Forks
    <3> QED BY <1>4, <3>1, <3>2 DEF Forks
  <2>2. CASE kin' = kin \cup {"group"} /\ Private /\ (leader = "running" \/ "group" \in kin)
    BY <1>4, <2>2 DEF Forks
  <2> QED BY <1>4, <2>1, <2>2 DEF Forks
<1>8. CASE DescendantsEnd
  BY <1>8 DEF DescendantsEnd
<1>5. CASE OutputEnds
  BY <1>5 DEF OutputEnds
<1>6. CASE Forward \/ ForwarderEnds
  BY <1>6 DEF Forward, ForwarderEnds
<1> QED BY <1>1, <1>2, <1>3, <1>4, <1>5, <1>6, <1>7, <1>8

\* The steps of os/exec and those of Run after the command.
LEMMA ConclusionKeeps ==
    ASSUME ExecInv,
           CancelRun \/ KillCommand \/ Reap \/ Join \/ Drain \/ StopChildProcesses \/ Finish
    PROVE  Rest'
<1> USE DEF ExecInv, ExecTypeOK, Goto, Leaves, BeforeCommand, WithCommand,
        Rest, GateOrder, EntryOrder, CommandOrder, ExitIsTrue, Private, Copied
<1>1. CASE CancelRun
  BY <1>1 DEF CancelRun
<1>2. CASE KillCommand
  <2>1. kin' \subseteq kin
    BY <1>2 DEF KillCommand, Survivors
  <2>2. copier' = IF copier \in {"none", "eof"} THEN copier ELSE "cut"
    BY <1>2 DEF KillCommand, CutPipes
  <2>3. CASE leader = "running"
    BY <1>2, <2>1, <2>2, <2>3 DEF KillCommand
  <2>4. CASE leader # "running"
    BY <1>2, <2>1, <2>2, <2>4 DEF KillCommand
  <2> QED BY <2>3, <2>4
<1>3. CASE Reap
  BY <1>3 DEF Reap
<1>4. CASE Join
  BY <1>4 DEF Join, Keep
<1>5. CASE Drain
  BY <1>5 DEF Drain, CutPipes, Keep
<1>6. CASE StopChildProcesses
  BY <1>6 DEF StopChildProcesses
<1>7. CASE Finish
  BY <1>7, EnvIsNat DEF Finish, Verdict
<1> QED BY <1>1, <1>2, <1>3, <1>4, <1>5, <1>6, <1>7

\* Initially the invariant holds.
LEMMA InitExecInv == ExecInit => ExecInv
<1> SUFFICES ASSUME ExecInit PROVE ExecInv
  OBVIOUS
<1>1. queue \in 0..MaxQueue
  BY QueueAssumption DEF ExecInit
<1>2. ExecTypeOK
  BY <1>1 DEF ExecInit, ExecTypeOK
<1>3. GateOrder /\ EntryOrder
  BY <1>2, EnvIsNat DEF ExecInit, GateOrder, EntryOrder, WithCommand
<1>4. CommandOrder /\ ExitIsTrue
  BY DEF ExecInit, CommandOrder, ExitIsTrue, BeforeCommand, WithCommand
<1> QED BY <1>2, <1>3, <1>4 DEF ExecInv

\* Every step keeps it.
LEMMA StepExecInv == ExecInv /\ [ExecNext]_execVars => ExecInv'
<1> SUFFICES ASSUME ExecInv, [ExecNext]_execVars PROVE ExecInv'
  OBVIOUS
<1>1. ExecTypeOK'
  BY TypesKept DEF ExecInv
<1>2. Rest'
  <2>1. CASE UNCHANGED execVars
    BY <2>1 DEF ExecInv, Rest, GateOrder, EntryOrder, CommandOrder, ExitIsTrue, Private, Copied
  <2> QED BY <2>1, PreparationKeeps, EnvironmentKeeps, ConclusionKeeps DEF ExecNext, Proceeds
<1> QED BY <1>1, <1>2 DEF ExecInv, Rest

\* At every step the gate, the entries, the command and the exit status are in an order the
\* code allows, whichever signals came at whichever step: in particular an exit status of zero
\* is only returned for a command that ended so and whose output was passed on to its end.
THEOREM ExecInvariant == ExecSpec => []ExecInv
  BY InitExecInv, StepExecInv, PTL DEF ExecSpec

\* No command runs with a secret, or without redaction, off the record or unconfirmed.
THEOREM ExecsAreOnRecord == ExecSpec => []StartedRunsAreOnRecord
<1>1. ExecInv => StartedRunsAreOnRecord
  BY DEF ExecInv, ExecTypeOK, GateOrder, EntryOrder, CommandOrder, StartedRunsAreOnRecord
<1> QED BY <1>1, ExecInvariant, PTL

\* Run leaves no secret, terminal, callback, goroutine or private group behind.
THEOREM ExecLeavesNothing == ExecSpec => []ReturnedExecLeavesNothing
<1>1. ExecInv => ReturnedExecLeavesNothing
  BY DEF ExecInv, ExecTypeOK, GateOrder, EntryOrder, CommandOrder, WithCommand, ReturnedExecLeavesNothing
<1> QED BY <1>1, ExecInvariant, PTL

-----------------------------------------------------------------------------
(* What a sandbox hides *)

\* Paths put together.
LEMMA PathsJoin ==
    ASSUME NEW a \in Paths, NEW b \in Paths
    PROVE  /\ a \o b \in Paths /\ Len(a) \in Nat /\ Len(b) \in Nat
           /\ Len(a \o b) = Len(a) + Len(b)
<1>1. \A S : \A x, y \in Seq(S) :
         x \o y \in Seq(S) /\ Len(x) \in Nat /\ Len(y) \in Nat /\ Len(x \o y) = Len(x) + Len(y)
  OBVIOUS
<1> QED BY <1>1 DEF Paths

LEMMA JoinAgain ==
    ASSUME NEW a \in Paths, NEW b \in Paths, NEW c \in Paths
    PROVE  (a \o b) \o c = a \o (b \o c)
  BY ConcatAssociative DEF Paths

\* A path is under itself and, extended, under what it was.
LEMMA UnderJoin ==
    ASSUME NEW dir \in Paths, NEW below \in Paths
    PROVE  Under(dir \o below, dir) /\ Under(dir, dir)
<1>1. dir \o below \in Paths /\ Len(dir \o below) = Len(dir) + Len(below)
  BY ConcatProperties DEF Paths
<1>2. Len(dir) \in Nat /\ Len(below) \in Nat
  BY LenProperties DEF Paths
<1>3. SubSeq(dir, 1, Len(dir)) = dir
  BY SubSeqFull DEF Paths
<1>4. SubSeq(dir \o below, 1, Len(dir)) = dir
  <2>1. CASE dir = <<>>
    BY <1>1, <1>2, <2>1, SubSeqEmpty
  <2>2. CASE dir # <<>>
    <3>1. 1 \in 1..Len(dir) /\ Len(dir) \in 1..Len(dir)
      BY <1>2, <2>2, EmptySeq DEF Paths
    <3> QED BY <3>1, <1>3, SubSeqOfConcat1 DEF Paths
  <2> QED BY <2>1, <2>2
<1> QED BY <1>1, <1>2, <1>3, <1>4 DEF Under

\* What is under a directory is the directory and more.
LEMMA UnderSplits ==
    ASSUME NEW path \in Paths, NEW dir \in Paths, Under(path, dir)
    PROVE  \E rest \in Paths :
              path = dir \o rest /\ rest = SubSeq(path, Len(dir) + 1, Len(path))
<1> DEFINE rest == SubSeq(path, Len(dir) + 1, Len(path))
<1>1. Len(path) \in Nat /\ Len(dir) \in Nat /\ Len(dir) <= Len(path)
  BY LenProperties DEF Paths, Under
<1>2. 1 \in 1..(Len(path) + 1) /\ Len(dir) \in (1 - 1)..Len(path) /\ Len(path) \in Len(dir)..Len(path)
  BY <1>1
<1>3. SubSeq(path, 1, Len(dir)) \o rest = SubSeq(path, 1, Len(path))
  BY <1>2, ConcatAdjacentSubSeq DEF Paths
<1>4. SubSeq(path, 1, Len(dir)) = dir /\ SubSeq(path, 1, Len(path)) = path
  BY SubSeqFull DEF Under, Paths
<1>5. rest \in Paths
  <2>1. \A i \in (Len(dir) + 1)..Len(path) : path[i] \in STRING
    BY <1>1, ElementOfSeq DEF Paths
  <2> QED BY <1>1, <2>1, SubSeqProperties DEF Paths
<1> QED BY <1>3, <1>4, <1>5

\* What follows a directory in a path under it.
LEMMA RestOfJoin ==
    ASSUME NEW dir \in Paths, NEW below \in Paths
    PROVE  SubSeq(dir \o below, Len(dir) + 1, Len(dir \o below)) = below
<1>1. dir \o below \in Paths
  BY ConcatProperties DEF Paths
<1>2. PICK rest \in Paths :
         dir \o below = dir \o rest
         /\ rest = SubSeq(dir \o below, Len(dir) + 1, Len(dir \o below))
  BY <1>1, UnderJoin, UnderSplits
<1> QED BY <1>2, ConcatSimplifications DEF Paths

\* A link that is above a path, and not the path itself, leaves its last name in its directory.
LEMMA UnderLink ==
    ASSUME NEW from \in Paths, NEW dir \in Paths, NEW name \in Paths, Len(name) = 1, from # dir \o name
    PROVE  /\ Under(dir \o name, from) <=> Under(dir, from)
           /\ Under(dir, from) =>
                 SubSeq(dir \o name, Len(from) + 1, Len(dir \o name))
                    = SubSeq(dir, Len(from) + 1, Len(dir)) \o name
<1> DEFINE path == dir \o name
<1>1. path \in Paths /\ Len(path) = Len(dir) + 1
  BY PathsJoin
<1>2. Len(dir) \in Nat /\ Len(from) \in Nat
  BY LenProperties DEF Paths
<1>3. ASSUME Under(dir, from)
      PROVE  /\ Under(path, from)
             /\ SubSeq(path, Len(from) + 1, Len(path)) = SubSeq(dir, Len(from) + 1, Len(dir)) \o name
  <2>1. PICK rest \in Paths : dir = from \o rest /\ rest = SubSeq(dir, Len(from) + 1, Len(dir))
    BY <1>3, UnderSplits
  <2>2. PICK more \in Paths : more = rest \o name
    BY PathsJoin
  <2>3. (from \o rest) \o name = from \o more
    BY <2>2, JoinAgain
  <2>4. path = from \o more
    BY <2>1, <2>3
  <2>5. /\ Under(from \o more, from)
        /\ SubSeq(from \o more, Len(from) + 1, Len(from \o more)) = more
    BY UnderJoin, RestOfJoin
  <2> HIDE DEF path
  <2>6. /\ Under(path, from)
        /\ SubSeq(path, Len(from) + 1, Len(path)) = more
    BY <2>4, <2>5
  <2> QED BY <2>1, <2>2, <2>6
<1>4. ASSUME Under(path, from) PROVE Under(dir, from)
  <2>1. PICK rest \in Paths : path = from \o rest
    BY <1>1, <1>4, UnderSplits
  <2>2. rest # <<>>
    BY <2>1, ConcatEmptySeq DEF Paths
  <2>3. Len(rest) \in Nat \ {0} /\ Len(path) = Len(from) + Len(rest)
    <3>1. Len(rest) # 0
      BY <2>2, EmptySeq DEF Paths
    <3> QED BY <2>1, <3>1, PathsJoin
  <2>4. Len(from) <= Len(dir)
    BY <1>1, <1>2, <2>3
  <2>5. SubSeq(path, 1, Len(from)) = SubSeq(dir, 1, Len(from))
    <3>1. CASE Len(from) = 0
      BY <3>1, SubSeqEmpty
    <3>2. CASE Len(from) # 0
      <4>1. 1 \in 1..Len(dir) /\ Len(from) \in 1..Len(dir)
        BY <1>2, <2>4, <3>2
      <4> QED BY <1>1, <4>1, SubSeqOfConcat1 DEF Paths
    <3> QED BY <3>1, <3>2
  <2> QED BY <1>4, <2>4, <2>5 DEF Under
<1> QED BY <1>3, <1>4

LEMMA BehindLink ==
    ASSUME NEW h, h.link.from \in Paths, h.link.to \in Paths,
           NEW dir \in Paths, NEW name \in Paths, Len(name) = 1, h.link.from # dir \o name
    PROVE  /\ Real(h, dir) \in Paths
           /\ Real(h, dir \o name) = Real(h, dir) \o name
<1>1. PICK from \in Paths, to \in Paths : h.link.from = from /\ h.link.to = to
  OBVIOUS
<1>2. CASE Under(dir, from)
  <2>1. PICK rest \in Paths : rest = SubSeq(dir, Len(from) + 1, Len(dir))
    BY <1>2, UnderSplits
  <2>2. Under(dir \o name, from)
        /\ SubSeq(dir \o name, Len(from) + 1, Len(dir \o name)) = rest \o name
    BY <1>1, <1>2, <2>1, UnderLink
  <2>3. Real(h, dir) = to \o rest /\ Real(h, dir \o name) = to \o (rest \o name)
    BY <1>1, <1>2, <2>1, <2>2 DEF Real
  <2>4. to \o rest \in Paths /\ to \o (rest \o name) = (to \o rest) \o name
    <3>1. to \o rest \in Paths
      BY PathsJoin
    <3>2. (to \o rest) \o name = to \o (rest \o name)
      BY JoinAgain
    <3> QED BY <3>1, <3>2
  <2> QED BY <2>3, <2>4
<1>3. CASE ~Under(dir, from)
  BY <1>1, <1>3, UnderLink DEF Real
<1> QED BY <1>2, <1>3

\* Everything of a layer but the first of a wrapped command hides.
LEMMA TopLayer ==
    ASSUME NEW launch, NEW path, NEW n \in 1..8, DOMAIN launch.layers = 1..n,
           NEW low \in 1..n,
           \A i \in 1..n : i >= low => launch.layers[i].as # "host",
           \A i \in 1..n :
              (i < low /\ \E dir \in launch.layers[i].over : Under(path, dir))
                 => \E j \in low..n : \E dir \in launch.layers[j].over : Under(path, dir)
    PROVE  Seen(launch, path) # "host"
<1> DEFINE over == {i \in 1..n : \E dir \in launch.layers[i].over : Under(path, dir)}
<1>1. CASE over = {}
  BY <1>1 DEF Seen
<1>2. CASE over # {}
  <2>1. PICK k \in over : k >= low
    BY <1>2
  <2>2. \E top \in over : \A j \in over : j <= top
    <3>1. over \subseteq 1..8
      OBVIOUS
    <3> HIDE DEF over
    <3>2. \/ 8 \in over \/ 7 \in over \/ 6 \in over \/ 5 \in over
          \/ 4 \in over \/ 3 \in over \/ 2 \in over \/ 1 \in over
      BY <1>2, <3>1
    <3>3. \A j \in over : j \in {1, 2, 3, 4, 5, 6, 7, 8}
      BY <3>1
    <3> QED BY <3>2, <3>3
  <2> DEFINE top == CHOOSE i \in over : \A j \in over : j <= i
  <2>3. top \in over /\ \A j \in over : j <= top
    <3> HIDE DEF over
    <3> QED BY <2>2
  <2>4. Seen(launch, path) = launch.layers[top].as
    BY <1>2 DEF Seen
  <2> HIDE DEF top
  <2>5. top >= low /\ top \in 1..n
    BY <2>1, <2>3
  <2> QED BY <2>4, <2>5
<1> QED BY <1>1, <1>2

\* Names make paths.
LEMMA ShortPaths == \A a, b, c \in STRING : <<a>> \in Paths /\ <<a, b, c>> \in Paths
<1>1. \A S : \A a, b, c \in S : <<a>> \in Seq(S) /\ <<a, b, c>> \in Seq(S)
  OBVIOUS
<1> QED BY <1>1, Zenon DEF Paths

\* The names opq uses make paths.
LEMMA OwnPaths ==
    /\ <<".local", "state", "opq-policy">> \in Paths
    /\ <<"opq">> \in Paths
    /\ <<"policy.lock">> \in Paths /\ <<"audit.log">> \in Paths
    /\ Len(<<"policy.lock">>) = 1 /\ Len(<<"audit.log">>) = 1
    /\ <<>> \in Paths
<1>1. \A a, b, c \in STRING : <<a>> \in Paths /\ <<a, b, c>> \in Paths
  BY ShortPaths
<1>2. /\ ".local" \in STRING /\ "state" \in STRING /\ "opq-policy" \in STRING
      /\ "policy.lock" \in STRING /\ "opq" \in STRING /\ "audit.log" \in STRING
  BY LiteralsAssumption, Zenon
<1>3. \A a : Len(<<a>>) = 1
  OBVIOUS
<1>4. <<>> \in Paths
  BY DEF Paths
<1> QED BY <1>1, <1>2, <1>3, <1>4

\* opq's own files stay in the directories that are masked.
LEMMA OwnFiles ==
    ASSUME NEW h \in Hosts
    PROVE  /\ PolicyDir(h) \in Paths
           /\ Real(h, PolicyLock(h)) = PolicyDir(h) \o <<"policy.lock">>
           /\ Under(Real(h, PolicyLock(h)), PolicyDir(h))
           /\ Under(Real(h, AuditFile(h)), AuditDir(h))
<1>1. /\ h.home \in Paths /\ h.state \in Paths /\ h.link.from \in Paths /\ h.link.to \in Paths
      /\ h.link.from # PolicyLock(h) /\ h.link.from # AuditFile(h)
  BY HostsAssumption
<1>2. /\ Real(h, PolicyLock(h)) = PolicyDir(h) \o <<"policy.lock">>
      /\ PolicyDir(h) \in Paths
  <2>1. PICK dir \in Paths : dir = h.home \o <<".local", "state", "opq-policy">>
    BY <1>1, OwnPaths, PathsJoin
  <2>2. PICK name \in Paths : name = <<"policy.lock">> /\ Len(name) = 1
    BY OwnPaths
  <2>3. PolicyLock(h) = dir \o name /\ PolicyDir(h) = Real(h, dir)
    BY <2>1, <2>2 DEF PolicyLock, PolicyDir
  <2>4. Real(h, dir) \in Paths /\ Real(h, dir \o name) = Real(h, dir) \o name
    BY <1>1, <2>2, <2>3, BehindLink
  <2> QED BY <2>2, <2>3, <2>4
<1>3. /\ Real(h, AuditFile(h)) = AuditDir(h) \o <<"audit.log">>
      /\ AuditDir(h) \in Paths
  <2>1. PICK dir \in Paths : dir = h.state \o <<"opq">>
    BY <1>1, OwnPaths, PathsJoin
  <2>2. PICK name \in Paths : name = <<"audit.log">> /\ Len(name) = 1
    BY OwnPaths
  <2>3. AuditFile(h) = dir \o name /\ AuditDir(h) = Real(h, dir)
    BY <2>1, <2>2 DEF AuditFile, AuditDir
  <2>4. Real(h, dir) \in Paths /\ Real(h, dir \o name) = Real(h, dir) \o name
    BY <1>1, <2>2, <2>3, BehindLink
  <2> QED BY <2>2, <2>3, <2>4
<1>4. Under(Real(h, PolicyLock(h)), PolicyDir(h))
  BY <1>2, OwnPaths, UnderJoin
<1>5. Under(Real(h, AuditFile(h)), AuditDir(h))
  BY <1>3, OwnPaths, UnderJoin
<1> QED BY <1>2, <1>3, <1>4, <1>5

\* Where the link leads is a path, and under itself.
LEMMA RealPath ==
    ASSUME NEW h \in Hosts, NEW path \in Paths
    PROVE  Real(h, path) \in Paths /\ Under(Real(h, path), Real(h, path))
<1>1. PICK from \in Paths, to \in Paths : h.link.from = from /\ h.link.to = to
  BY HostsAssumption
<1>2. Real(h, path) \in Paths
  <2>1. CASE Under(path, from)
    <3>1. PICK rest \in Paths : rest = SubSeq(path, Len(from) + 1, Len(path))
      BY <2>1, UnderSplits
    <3>2. Real(h, path) = to \o rest
      BY <1>1, <2>1, <3>1 DEF Real
    <3> QED BY <3>2, PathsJoin
  <2>2. CASE ~Under(path, from)
    BY <1>1, <2>2 DEF Real
  <2> QED BY <2>1, <2>2
<1> QED BY <1>2, OwnPaths, UnderJoin

\* The sockets of agents are paths.
LEMMA AgentPaths ==
    ASSUME NEW h \in Hosts
    PROVE  /\ InHome(h, HomeDenied) \subseteq Paths /\ InHome(h, HomeTmpfs) \subseteq Paths
           /\ InHome(h, HomeFiles) \subseteq Paths
           /\ SocketFiles \subseteq Paths /\ SocketDirs \subseteq Paths /\ h.agent \subseteq Paths
           /\ <<"var", "run", "docker.sock">> \in Paths
<1>1. HomeDenied \subseteq Paths /\ <<"var", "run", "docker.sock">> \in Paths
  <2>1. \A a, b, c \in STRING : <<a>> \in Paths /\ <<a, b, c>> \in Paths
    BY ShortPaths
  <2>2. /\ ".gnupg" \in STRING /\ ".docker" \in STRING /\ "run" \in STRING
        /\ "docker.sock" \in STRING /\ ".ssh" \in STRING /\ "var" \in STRING
    BY LiteralsAssumption, Zenon
  <2>3. /\ <<".gnupg">> \in Paths /\ <<".docker", "run", "docker.sock">> \in Paths
        /\ <<".ssh">> \in Paths /\ <<"var", "run", "docker.sock">> \in Paths
    BY <2>1, <2>2
  <2> QED BY <2>3 DEF HomeDenied, HomeTmpfs, HomeFiles
<1>2. h.home \in Paths /\ h.agent \subseteq Paths
  BY HostsAssumption
<1>3. ASSUME NEW names \in SUBSET Paths PROVE InHome(h, names) \subseteq Paths
  BY <1>2, PathsJoin DEF InHome
<1>4. HomeTmpfs \subseteq Paths /\ HomeFiles \subseteq Paths
  BY <1>1 DEF HomeDenied
<1> QED BY <1>1, <1>2, <1>3, <1>4, SocketsAssumption

\* bwrap over a readable host: nothing under a mask is the host's.
LEMMA NetMasks ==
    ASSUME NEW h \in Hosts, NEW path, NEW launch, launch.layers = BwrapNet(h),
           \/ Under(path, PolicyDir(h)) \/ Under(path, AuditDir(h))
           \/ \E dir \in SocketMasks(h, SocketFiles) \cup SocketMasks(h, SocketDirs) :
                 Under(path, dir)
           \/ \E dir \in SocketMasks(h, InHome(h, HomeFiles)) \cup SocketMasks(h, InHome(h, HomeTmpfs)) :
                 Under(path, dir)
    PROVE  Seen(launch, path) # "host"
<1>1. /\ DOMAIN launch.layers = 1..8
      /\ launch.layers[2].as = "proc" /\ launch.layers[3].as = "empty"
      /\ launch.layers[4].as = "null" /\ launch.layers[5].as = "empty"
      /\ launch.layers[6].as = "null" /\ launch.layers[7].as = "empty"
      /\ launch.layers[8].as = "empty"
      /\ AuditDir(h) \in launch.layers[3].over
      /\ launch.layers[4].over = SocketMasks(h, SocketFiles)
      /\ launch.layers[5].over = SocketMasks(h, SocketDirs)
      /\ launch.layers[6].over = SocketMasks(h, InHome(h, HomeFiles))
      /\ launch.layers[7].over = SocketMasks(h, InHome(h, HomeTmpfs))
      /\ PolicyDir(h) \in launch.layers[8].over
  BY DEF BwrapNet, Layer
<1>2. \A i \in 1..8 : i >= 2 => launch.layers[i].as # "host"
  <2>1. \A i \in 1..8 : i >= 2 => i \in {2, 3, 4, 5, 6, 7, 8}
    OBVIOUS
  <2> QED BY <1>1, <2>1
<1>3. \E j \in 2..8 : \E dir \in launch.layers[j].over : Under(path, dir)
  <2>1. {3, 4, 5, 6, 7, 8} \subseteq 2..8
    OBVIOUS
  <2> QED BY <1>1, <2>1, Zenon
<1>4. 8 \in 1..8 /\ 2 \in 1..8
  OBVIOUS
<1> QED BY <1>1, <1>2, <1>3, <1>4, TopLayer

\* bwrap in the full profile: where the host's files are seen, no mask is above them.
LEMMA FullMasks ==
    ASSUME NEW h \in Hosts, NEW path, NEW launch, launch.layers = BwrapFull(h),
           Exposed(path) => Exposed(PolicyDir(h)) /\ Under(path, PolicyDir(h))
    PROVE  Seen(launch, path) # "host"
<1>1. /\ DOMAIN launch.layers = 1..4
      /\ launch.layers[1].over = SystemRoots
      /\ launch.layers[2].as = "system" /\ launch.layers[3].as = "empty" /\ launch.layers[4].as = "empty"
      /\ launch.layers[4].over = IF Exposed(PolicyDir(h)) THEN {PolicyDir(h)} ELSE {}
  BY DEF BwrapFull, Layer
<1>2. \A i \in 1..4 : i >= 2 => launch.layers[i].as # "host"
  <2>1. \A i \in 1..4 : i >= 2 => i \in {2, 3, 4}
    OBVIOUS
  <2> QED BY <1>1, <2>1
<1>3. \A i \in 1..4 :
         (i < 2 /\ \E dir \in launch.layers[i].over : Under(path, dir))
            => \E j \in 2..4 : \E dir \in launch.layers[j].over : Under(path, dir)
  <2> SUFFICES ASSUME \E dir \in SystemRoots : Under(path, dir)
               PROVE  \E j \in 2..4 : \E dir \in launch.layers[j].over : Under(path, dir)
    <3>1. \A i \in 1..4 : i < 2 => i = 1
      OBVIOUS
    <3> QED BY <1>1, <3>1
  <2>1. Exposed(PolicyDir(h)) /\ Under(path, PolicyDir(h)) /\ 4 \in 2..4
    BY DEF Exposed
  <2> QED BY <1>1, <2>1
<1>4. 4 \in 1..8 /\ 2 \in 1..4
  OBVIOUS
<1> QED BY <1>1, <1>2, <1>3, <1>4, TopLayer

\* Seatbelt: what is under a denied directory is denied.
LEMMA DeniedHides ==
    ASSUME NEW denied, NEW path, NEW launch,
           launch.layers = << Layer({Root}, "host"), Layer(denied, "denied") >>,
           \E dir \in denied : Under(path, dir)
    PROVE  Seen(launch, path) # "host"
<1>1. /\ DOMAIN launch.layers = 1..2
      /\ launch.layers[2].as = "denied" /\ launch.layers[2].over = denied
  BY DEF Layer
<1>2. \A i \in 1..2 : i >= 2 => launch.layers[i].as # "host"
  <2>1. \A i \in 1..2 : i >= 2 => i = 2
    OBVIOUS
  <2> QED BY <1>1, <2>1
<1>3. 2 \in 2..2 /\ 2 \in 1..8 /\ 2 \in 1..2
  OBVIOUS
<1>4. \E j \in 2..2 : \E dir \in launch.layers[j].over : Under(path, dir)
  BY <1>1, <1>3
<1> QED BY <1>1, <1>2, <1>3, <1>4, TopLayer

\* The full profile does not uncover policy.lock: it is among the system's directories only if
\* its own directory is, and then that one is masked.
LEMMA LockExposed ==
    ASSUME NEW h \in Hosts, Exposed(Real(h, PolicyLock(h)))
    PROVE  Exposed(PolicyDir(h)) /\ Under(Real(h, PolicyLock(h)), PolicyDir(h))
<1>1. PICK dir \in Paths, name \in Paths :
         /\ dir = PolicyDir(h) /\ name = <<"policy.lock">> /\ Len(name) = 1
         /\ Real(h, PolicyLock(h)) = dir \o name
  BY OwnFiles, OwnPaths
<1>2. PICK root \in SystemRoots : Under(dir \o name, root)
  BY <1>1 DEF Exposed
<1>3. root \in Paths /\ Len(root) = 1 /\ root[1] # "policy.lock"
  <2>1. /\ "usr" \in STRING /\ "etc" \in STRING /\ "lib" \in STRING
        /\ "lib64" \in STRING /\ "bin" \in STRING /\ "sbin" \in STRING
    BY LiteralsAssumption, Zenon
  <2>2. /\ <<"usr">> \in Paths /\ <<"etc">> \in Paths /\ <<"lib">> \in Paths
        /\ <<"lib64">> \in Paths /\ <<"bin">> \in Paths /\ <<"sbin">> \in Paths
    BY <2>1, ShortPaths, Zenon
  <2>3. root \in Paths
    BY <2>2 DEF SystemRoots
  <2>4. Len(root) = 1 /\ root[1] # "policy.lock"
    BY DEF SystemRoots
  <2> QED BY <2>3, <2>4
<1>4. root # dir \o name
  <2> SUFFICES ASSUME root = dir \o name PROVE FALSE
    OBVIOUS
  <2>1. Len(root) = Len(dir) + Len(name) /\ Len(dir) \in Nat
    BY PathsJoin
  <2>2. Len(dir) = 0
    BY <1>1, <1>3, <2>1
  <2>3. dir = <<>>
    BY <2>2, EmptySeq DEF Paths
  <2>4. <<>> \o name = name
    BY ConcatEmptySeq DEF Paths
  <2>5. name[1] = "policy.lock"
    BY <1>1
  <2> QED BY <1>3, <2>3, <2>4, <2>5
<1>5. Under(dir, root)
  BY <1>1, <1>2, <1>3, <1>4, UnderLink
<1> QED BY <1>1, <1>5, OwnFiles DEF Exposed

\* Every profile hides what it promises, on every host.
LEMMA HostHides ==
    ASSUME NEW h \in Hosts, NEW profile \in Profiles \ {"none"}
    PROVE  Hides(h, profile)
<1> DEFINE launch == Wrapped(h, profile)
<1>1. launch.network <=> profile = "net-allowed"
  BY DEF Wrapped
<1>2. CASE h.os = "linux" /\ profile # "full"
  <2>1. launch.layers = BwrapNet(h)
    BY <1>2 DEF Wrapped
  <2> HIDE DEF launch
  <2>2. Hidden(h, launch, PolicyLock(h)) /\ Hidden(h, launch, AuditFile(h))
    BY <2>1, OwnFiles, NetMasks DEF Hidden
  <2>3. ASSUME NEW path \in Agents(h) PROVE Hidden(h, launch, path)
    <3>1. /\ path \in h.present /\ path \in Paths
          /\ path \in SocketFiles \cup SocketDirs \cup InHome(h, HomeTmpfs \cup HomeFiles)
      BY <1>2, <2>3, AgentPaths DEF Agents, InHome
    <3>2. path \in SocketFiles \cup SocketDirs \cup InHome(h, HomeTmpfs) \cup InHome(h, HomeFiles)
      BY <3>1 DEF InHome
    <3>3. \/ Real(h, path) \in SocketMasks(h, SocketFiles)
          \/ Real(h, path) \in SocketMasks(h, SocketDirs)
          \/ Real(h, path) \in SocketMasks(h, InHome(h, HomeFiles))
          \/ Real(h, path) \in SocketMasks(h, InHome(h, HomeTmpfs))
      BY <3>1, <3>2 DEF SocketMasks
    <3>4. Under(Real(h, path), Real(h, path))
      BY <3>1, RealPath
    <3> QED BY <2>1, <3>3, <3>4, NetMasks DEF Hidden
  <2> QED BY <1>1, <1>2, <2>2, <2>3 DEF Hides, Unreachable, launch
<1>3. CASE h.os = "linux" /\ profile = "full"
  <2>1. launch.layers = BwrapFull(h)
    BY <1>3 DEF Wrapped
  <2> HIDE DEF launch
  <2>2. Hidden(h, launch, PolicyLock(h))
    BY <2>1, LockExposed, FullMasks DEF Hidden
  <2>3. ASSUME HomeKnown(h) PROVE Hidden(h, launch, h.home)
    <3>1. ~Exposed(Real(h, h.home))
      BY <1>3, <2>3 DEF HomeKnown
    <3> QED BY <2>1, <3>1, FullMasks DEF Hidden
  <2> QED BY <1>1, <1>3, <2>2, <2>3 DEF Hides, launch
<1>4. CASE h.os # "linux" /\ profile # "full"
  <2>1. launch.layers = << Layer({Root}, "host"), Layer(SeatbeltNet(h), "denied") >>
    BY <1>4 DEF Wrapped
  <2> HIDE DEF launch
  <2>2. Hidden(h, launch, PolicyLock(h)) /\ Hidden(h, launch, AuditFile(h))
    <3>1. PolicyDir(h) \in SeatbeltNet(h) /\ AuditDir(h) \in SeatbeltNet(h)
      BY DEF SeatbeltNet
    <3> QED BY <2>1, <3>1, OwnFiles, DeniedHides DEF Hidden
  <2>3. ASSUME NEW path \in Agents(h) PROVE Hidden(h, launch, path)
    <3>1. path \in InHome(h, HomeDenied) \cup h.agent \cup {<<"var", "run", "docker.sock">>}
      BY <1>4, <2>3 DEF Agents
    <3>2. Real(h, path) \in SeatbeltNet(h) /\ path \in Paths
      BY <3>1, AgentPaths DEF SeatbeltNet
    <3> QED BY <2>1, <3>2, RealPath, DeniedHides DEF Hidden
  <2> QED BY <1>1, <1>4, <2>2, <2>3 DEF Hides, Unreachable, launch
<1>5. CASE h.os # "linux" /\ profile = "full"
  <2>1. launch.layers = << Layer({Root}, "host"), Layer(SeatbeltFull(h), "denied") >>
    BY <1>5 DEF Wrapped
  <2> HIDE DEF launch
  <2>2. Hidden(h, launch, PolicyLock(h))
    <3>1. PolicyDir(h) \in SeatbeltFull(h)
      BY DEF SeatbeltFull
    <3> QED BY <2>1, <3>1, OwnFiles, DeniedHides DEF Hidden
  <2>3. ASSUME HomeKnown(h) PROVE Hidden(h, launch, h.home)
    <3>1. h.homeSet /\ h.home \in Paths
      BY <1>5, <2>3, HostsAssumption DEF HomeKnown
    <3>2. h.home = h.home \o <<>>
      BY <3>1, ConcatEmptySeq DEF Paths
    <3>3. h.home \in InHome(h, {<<>>})
      BY <3>1, <3>2 DEF InHome
    <3>4. Real(h, h.home) \in SeatbeltFull(h)
      BY <3>3 DEF SeatbeltFull
    <3> QED BY <2>1, <3>1, <3>4, RealPath, DeniedHides DEF Hidden
  <2> QED BY <1>1, <1>5, <2>2, <2>3 DEF Hides, launch
<1> QED BY <1>2, <1>3, <1>4, <1>5

\* Whatever is where on the host - a home or a state directory behind a link, in /tmp or among
\* the system's directories, any set of sockets - no profile shows policy.lock, and none but the
\* full one, which has no host behind it, shows the audit log or a socket of an agent.
THEOREM SandboxesHide == ExecSpec => []SandboxHides
<1>1. ExecInv => SandboxHides
  BY HostHides DEF ExecInv, ExecTypeOK, SandboxHides
<1> QED BY <1>1, ExecInvariant, PTL

=============================================================================
