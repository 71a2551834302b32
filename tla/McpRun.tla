------------------------------- MODULE McpRun -------------------------------
(***************************************************************************)
(* The run_with_secrets tool of the MCP server (mcp_run.go, mcp.go,        *)
(* process_unix.go): concurrent calls, each of them a handler with its     *)
(* context, the os/exec machinery it drives and the command it starts. A   *)
(* context ends once, by its deadline, by the client's cancellation or by  *)
(* the end of the server's lifetime; the first cause stays. The goroutine  *)
(* of os/exec that watches the context, the WaitDelay timer, the           *)
(* goroutines that copy the output and the command's own processes all     *)
(* move between any two steps of the handler. Time is not counted: a       *)
(* deadline or a timer may pass at any moment after it was set, and under  *)
(* FairSpec a timer passes at last.                                        *)
(***************************************************************************)
EXTENDS Naturals, FiniteSets

CONSTANTS
    Calls,       \* the calls the client makes
    Slots,       \* mcpMaxConcurrentRuns
    Requests     \* what a call may ask: [env: how many secrets, network: BOOLEAN]

ASSUME CallsAssumption == IsFiniteSet(Calls)
ASSUME SlotsAssumption == Slots \in Nat \ {0}
ASSUME RequestsAssumption ==
    /\ Requests # {}
    /\ \A r \in Requests : r.env \in Nat /\ r.network \in BOOLEAN

VARIABLES
    bwrap,       \* TRUE: the sandbox is a PID namespace and a session of its own; FALSE: Seatbelt
    server,      \* "up", "canceled" (the lifetime context is done) or "exited"
    slots,       \* len(mcpRunSlots)
    pc,          \* where the handler of a call stands
    request,     \* the call's input
    late,        \* whether the handler was entered after the lifetime ended
    ctx,         \* the handler's context: "live", "canceled" or "deadline"
    bufs,        \* how many secrets the handler holds in memory
    leader,      \* the command: "none", "running", or how it ended: "zero" or "failed"
    kin,         \* its descendants: "group" if any in its process group, "stray" if any outside
    copier,      \* the goroutines that copy its output: "none", "copying", "eof" or "cut"
    watch,       \* watchCtx of os/exec: "none", "watching", "fired" or "expired"
    watchErr,    \* the error watchCtx reports to Wait
    runErr,      \* what Start or Wait returned: "nil", "start", "exit", "ctx" or "delay"
    announced,   \* what became of the network_allowed audit entry
    audited,     \* what became of the mcp_run audit entry
    answer       \* what the client is told

session == <<bwrap, server, request, late>>
command == <<leader, kin>>
machinery == <<copier, watch, watchErr, runErr>>
entries == <<announced, audited>>
vars == <<session, slots, pc, ctx, bufs, command, machinery, entries, answer>>

Preparing == {"validate", "resolve", "announce", "start"}
Executing == {"wait", "join", "drain"}
Concluding == {"stop", "classify", "report"}
Holding == Preparing \cup Executing \cup Concluding
Outside == {"idle", "admission", "returned"}

Init ==
    /\ bwrap \in BOOLEAN
    /\ server = "up"
    /\ slots = 0
    /\ pc = [c \in Calls |-> "idle"]
    /\ request \in [Calls -> Requests]
    /\ late = [c \in Calls |-> FALSE]
    /\ ctx = [c \in Calls |-> "live"]
    /\ bufs = [c \in Calls |-> 0]
    /\ leader = [c \in Calls |-> "none"]
    /\ kin = [c \in Calls |-> {}]
    /\ copier = [c \in Calls |-> "none"]
    /\ watch = [c \in Calls |-> "none"]
    /\ watchErr = [c \in Calls |-> "nil"]
    /\ runErr = [c \in Calls |-> "nil"]
    /\ announced = [c \in Calls |-> "none"]
    /\ audited = [c \in Calls |-> "none"]
    /\ answer = [c \in Calls |-> "none"]

\* Mutant: no deferred release of the slot.
ReturnKeepsSlot(c, reply) ==
    /\ pc' = [pc EXCEPT ![c] = "returned"]
    /\ answer' = [answer EXCEPT ![c] = reply]
    /\ bufs' = [bufs EXCEPT ![c] = 0]
    /\ UNCHANGED slots

\* The handler leaves: its deferred calls free the buffers and the slot.
Return(c, reply) ==
    /\ pc' = [pc EXCEPT ![c] = "returned"]
    /\ answer' = [answer EXCEPT ![c] = reply]
    /\ bufs' = [bufs EXCEPT ![c] = 0]
    /\ slots' = slots - 1

\* What can become of an entry appended under a context: refused when the context is done, and
\* otherwise written or lost to an error of the file or to a lock held for too long.
Append(alive) == IF alive THEN {"written", "failed"} ELSE {"refused"}

-----------------------------------------------------------------------------
(* The contexts and the server's lifetime *)

\* Mutant: the lifetime is bound by AfterFunc alone, which runs later.
EnterBoundLater(c) ==
    /\ pc[c] = "idle"
    /\ server # "exited"
    /\ pc' = [pc EXCEPT ![c] = "admission"]
    /\ late' = [late EXCEPT ![c] = server # "up"]
    /\ ctx' = [ctx EXCEPT ![c] = "live"]
    /\ UNCHANGED <<bwrap, server, request, slots, bufs, command, machinery, entries, answer>>

Enter(c) ==
    /\ pc[c] = "idle"
    /\ server # "exited"
    /\ pc' = [pc EXCEPT ![c] = "admission"]
    /\ late' = [late EXCEPT ![c] = server # "up"]
    /\ ctx' = [ctx EXCEPT ![c] = IF server = "up" THEN "live" ELSE "canceled"]
    /\ UNCHANGED <<bwrap, server, request, slots, bufs, command, machinery, entries, answer>>

ContextEnds(c, cause) ==
    /\ pc[c] \notin {"idle", "returned"}
    /\ ctx[c] = "live"
    /\ ctx' = [ctx EXCEPT ![c] = cause]
    /\ UNCHANGED <<session, slots, pc, bufs, command, machinery, entries, answer>>

ClientCancels(c) == ContextEnds(c, "canceled")

Deadline(c) == ContextEnds(c, "deadline")

\* Mutant: handlers not bound to the lifetime.
NeverBound(c) == FALSE /\ ContextEnds(c, "canceled")

AfterFunc(c) == server # "up" /\ ContextEnds(c, "canceled")

Disconnect ==
    /\ server = "up"
    /\ server' = "canceled"
    /\ UNCHANGED <<bwrap, request, late, slots, pc, ctx, bufs, command, machinery, entries, answer>>

ServerExits ==
    /\ server = "canceled"
    /\ \A c \in Calls : pc[c] \in {"idle", "returned"}
    /\ server' = "exited"
    /\ UNCHANGED <<bwrap, request, late, slots, pc, ctx, bufs, command, machinery, entries, answer>>

-----------------------------------------------------------------------------
(* The handler before the command runs *)

Refuse(c) ==
    /\ pc[c] = "admission"
    /\ \/ ctx[c] # "live" /\ answer' = [answer EXCEPT ![c] = "request_canceled"]
       \/ ctx[c] = "live" /\ slots = Slots /\ answer' = [answer EXCEPT ![c] = "server_busy"]
    /\ pc' = [pc EXCEPT ![c] = "returned"]
    /\ UNCHANGED <<session, slots, ctx, bufs, command, machinery, entries>>

Admit(c) ==
    /\ pc[c] = "admission"
    /\ ctx[c] = "live"
    /\ slots < Slots
    /\ slots' = slots + 1
    /\ pc' = [pc EXCEPT ![c] = "validate"]
    /\ UNCHANGED <<session, ctx, bufs, command, machinery, entries, answer>>

Reject(c) ==
    /\ pc[c] = "validate"
    /\ Return(c, "rejected")
    /\ UNCHANGED <<session, ctx, command, machinery, entries>>

Accept(c) ==
    /\ pc[c] = "validate"
    /\ pc' = [pc EXCEPT ![c] = "resolve"]
    /\ UNCHANGED <<session, slots, ctx, bufs, command, machinery, entries, answer>>

Resolve(c) ==
    /\ pc[c] = "resolve"
    /\ bufs[c] < request[c].env
    /\ ctx[c] = "live"
    /\ bufs' = [bufs EXCEPT ![c] = @ + 1]
    /\ UNCHANGED <<session, slots, pc, ctx, command, machinery, entries, answer>>

Deny(c) ==
    /\ pc[c] = "resolve"
    /\ bufs[c] < request[c].env
    /\ Return(c, "denied")
    /\ UNCHANGED <<session, ctx, command, machinery, entries>>

CheckContext(c) ==
    /\ pc[c] = "resolve"
    /\ bufs[c] = request[c].env
    /\ \/ /\ ctx[c] = "live"
          /\ pc' = [pc EXCEPT ![c] = IF request[c].network THEN "announce" ELSE "start"]
          /\ UNCHANGED <<slots, bufs, answer>>
       \/ /\ ctx[c] # "live"
          /\ Return(c, "request_canceled")
    /\ UNCHANGED <<session, ctx, command, machinery, entries>>

Announce(c) ==
    /\ pc[c] = "announce"
    /\ \E outcome \in Append(ctx[c] = "live") : announced' = [announced EXCEPT ![c] = outcome]
    /\ pc' = [pc EXCEPT ![c] = "start"]
    /\ UNCHANGED <<session, slots, ctx, bufs, command, machinery, audited, answer>>

StartFails(c) ==
    /\ pc[c] = "start"
    /\ runErr' = [runErr EXCEPT ![c] = "start"]
    /\ pc' = [pc EXCEPT ![c] = "classify"]
    /\ UNCHANGED <<session, slots, ctx, bufs, command, copier, watch, watchErr, entries, answer>>

\* Mutant: a command that is not created with the call's context.
StartUnbound(c) ==
    /\ pc[c] = "start"
    /\ leader' = [leader EXCEPT ![c] = "running"]
    /\ copier' = [copier EXCEPT ![c] = "copying"]
    /\ watch' = [watch EXCEPT ![c] = "watching"]
    /\ pc' = [pc EXCEPT ![c] = "wait"]
    /\ UNCHANGED <<session, slots, ctx, bufs, kin, watchErr, runErr, entries, answer>>

\* Start looks at the context before it forks.
Start(c) ==
    /\ pc[c] = "start"
    /\ ctx[c] = "live"
    /\ leader' = [leader EXCEPT ![c] = "running"]
    /\ copier' = [copier EXCEPT ![c] = "copying"]
    /\ watch' = [watch EXCEPT ![c] = "watching"]
    /\ pc' = [pc EXCEPT ![c] = "wait"]
    /\ UNCHANGED <<session, slots, ctx, bufs, kin, watchErr, runErr, entries, answer>>

-----------------------------------------------------------------------------
(* The command, its descendants and its output *)

\* Who is left once the leader is gone: nobody under bwrap, whose namespace dies with it.
Survivors(relatives) == IF bwrap THEN {} ELSE relatives

Exits(c, status) ==
    /\ leader[c] = "running"
    /\ leader' = [leader EXCEPT ![c] = status]
    /\ kin' = [kin EXCEPT ![c] = Survivors(kin[c])]
    /\ UNCHANGED <<session, slots, pc, ctx, bufs, machinery, entries, answer>>

Forks(c) ==
    /\ leader[c] = "running" \/ kin[c] # {}
    /\ \/ ~bwrap /\ (leader[c] = "running" \/ "group" \in kin[c]) /\ kin' = [kin EXCEPT ![c] = @ \cup {"group"}]
       \/ kin' = [kin EXCEPT ![c] = @ \cup {"stray"}]
    /\ UNCHANGED <<session, slots, pc, ctx, bufs, leader, machinery, entries, answer>>

DescendantsEnd(c, which) ==
    /\ which \in kin[c]
    /\ kin' = [kin EXCEPT ![c] = @ \ {which}]
    /\ UNCHANGED <<session, slots, pc, ctx, bufs, leader, machinery, entries, answer>>

\* Processes close their output when they like, and at the latest when they end.
OutputEnds(c) ==
    /\ copier[c] = "copying"
    /\ copier' = [copier EXCEPT ![c] = "eof"]
    /\ UNCHANGED <<session, slots, pc, ctx, bufs, command, watch, watchErr, runErr, entries, answer>>

-----------------------------------------------------------------------------
(* os/exec: the goroutine that watches the context, and Wait *)

\* SIGKILL to the process group; a leader that is dead but not reaped still counts as found.
KillGroup(c) ==
    /\ leader' = [leader EXCEPT ![c] = IF @ = "running" THEN "failed" ELSE @]
    /\ kin' = [kin EXCEPT ![c] = IF leader[c] = "running" THEN Survivors(@ \ {"group"}) ELSE @ \ {"group"}]

GroupFound(c) == pc[c] = "wait" \/ "group" \in kin[c]

CutPipes(c) == copier' = [copier EXCEPT ![c] = IF @ = "eof" THEN "eof" ELSE "cut"]

\* The error Wait keeps: the first one it had, or the late one.
Keep(first, other) == IF first = "nil" THEN other ELSE first

CancelRun(c) ==
    /\ watch[c] = "watching"
    /\ ctx[c] # "live"
    /\ KillGroup(c)
    /\ watch' = [watch EXCEPT ![c] = "fired"]
    /\ watchErr' = [watchErr EXCEPT ![c] = IF GroupFound(c) THEN "ctx" ELSE "nil"]
    /\ UNCHANGED <<session, slots, pc, ctx, bufs, copier, runErr, entries, answer>>

WatchExpires(c) ==
    /\ watch[c] = "fired"
    /\ watch' = [watch EXCEPT ![c] = "expired"]
    /\ watchErr' = [watchErr EXCEPT ![c] = IF copier[c] = "eof" THEN @ ELSE Keep(@, "delay")]
    /\ CutPipes(c)
    /\ UNCHANGED <<session, slots, pc, ctx, bufs, command, runErr, entries, answer>>

Reap(c) ==
    /\ pc[c] = "wait"
    /\ leader[c] # "running"
    /\ runErr' = [runErr EXCEPT ![c] = IF leader[c] = "zero" THEN "nil" ELSE "exit"]
    /\ pc' = [pc EXCEPT ![c] = "join"]
    /\ UNCHANGED <<session, slots, ctx, bufs, command, copier, watch, watchErr, entries, answer>>

\* Wait and the watching goroutine meet; one that has not seen the context end leaves no timer.
Join(c) ==
    /\ pc[c] = "join"
    /\ runErr' = [runErr EXCEPT ![c] = Keep(@, watchErr[c])]
    /\ pc' = [pc EXCEPT ![c] =
                 IF watch[c] = "expired" \/ (watch[c] = "watching" /\ copier[c] = "eof") THEN "stop" ELSE "drain"]
    /\ watch' = [watch EXCEPT ![c] = "none"]
    /\ UNCHANGED <<session, slots, ctx, bufs, command, copier, watchErr, entries, answer>>

Drained(c) ==
    /\ pc[c] = "drain"
    /\ copier[c] = "eof"
    /\ pc' = [pc EXCEPT ![c] = "stop"]
    /\ UNCHANGED <<session, slots, ctx, bufs, command, machinery, entries, answer>>

\* Mutant: no WaitDelay is set.
NoDelay(c) == FALSE /\ pc[c] = "drain"

DelayExpires(c) ==
    /\ pc[c] = "drain"
    /\ CutPipes(c)
    /\ runErr' = [runErr EXCEPT ![c] = Keep(@, "delay")]
    /\ pc' = [pc EXCEPT ![c] = "stop"]
    /\ UNCHANGED <<session, slots, ctx, bufs, command, watch, watchErr, entries, answer>>

-----------------------------------------------------------------------------
(* The handler after the command ran *)

\* Mutant: the group is only killed when Wait failed.
StopAfterErrors(c) ==
    /\ pc[c] = "stop"
    /\ IF runErr[c] = "nil" THEN UNCHANGED command ELSE KillGroup(c)
    /\ pc' = [pc EXCEPT ![c] = "classify"]
    /\ UNCHANGED <<session, slots, ctx, bufs, machinery, entries, answer>>

StopChildProcesses(c) ==
    /\ pc[c] = "stop"
    /\ KillGroup(c)
    /\ pc' = [pc EXCEPT ![c] = "classify"]
    /\ UNCHANGED <<session, slots, ctx, bufs, machinery, entries, answer>>

\* Mutant: a command that exited with zero succeeded, whatever became of its pipes.
LenientVerdict(err, timedOut) ==
    CASE timedOut -> "timed_out"
      [] ~timedOut /\ err \in {"nil", "delay"} -> "success"
      [] ~timedOut /\ err = "exit" -> "failure"
      [] ~timedOut /\ err \in {"start", "ctx"} -> "exec_start_failed"

\* The answer for an error of Start or Wait, and whether the deadline has passed by now.
Verdict(err, timedOut) ==
    CASE timedOut -> "timed_out"
      [] ~timedOut /\ err = "nil" -> "success"
      [] ~timedOut /\ err = "exit" -> "failure"
      [] ~timedOut /\ err \notin {"nil", "exit"} -> "exec_start_failed"

Classify(c) ==
    /\ pc[c] = "classify"
    /\ answer' = [answer EXCEPT ![c] = Verdict(runErr[c], ctx[c] = "deadline")]
    /\ pc' = [pc EXCEPT ![c] = "report"]
    /\ UNCHANGED <<session, slots, ctx, bufs, command, machinery, entries>>

\* Mutant: the completion entry is appended under the call's own context.
ReportUnderContext(c) ==
    /\ pc[c] = "report"
    /\ \E outcome \in Append(ctx[c] = "live") : audited' = [audited EXCEPT ![c] = outcome]
    /\ Return(c, answer[c])
    /\ UNCHANGED <<session, ctx, command, machinery, announced>>

\* The completion entry has a context of its own, which no cancellation reaches.
Report(c) ==
    /\ pc[c] = "report"
    /\ \E outcome \in Append(TRUE) : audited' = [audited EXCEPT ![c] = outcome]
    /\ Return(c, answer[c])
    /\ UNCHANGED <<session, ctx, command, machinery, announced>>

-----------------------------------------------------------------------------
Handler(c) ==
    \/ Admit(c) \/ Refuse(c) \/ Reject(c) \/ Accept(c)
    \/ Resolve(c) \/ Deny(c) \/ CheckContext(c)
    \/ Announce(c) \/ StartFails(c) \/ Start(c)
    \/ Reap(c) \/ Join(c) \/ Drained(c) \/ DelayExpires(c)
    \/ StopChildProcesses(c) \/ Classify(c) \/ Report(c)

Environment(c) ==
    \/ Enter(c) \/ ClientCancels(c) \/ Deadline(c) \/ AfterFunc(c)
    \/ \E status \in {"zero", "failed"} : Exits(c, status)
    \/ Forks(c)
    \/ \E which \in {"group", "stray"} : DescendantsEnd(c, which)
    \/ OutputEnds(c)
    \/ CancelRun(c) \/ WatchExpires(c)

Next ==
    \/ Disconnect \/ ServerExits
    \/ \E c \in Calls : Handler(c) \/ Environment(c)

Spec == Init /\ [][Next]_vars

\* The kernel, the timers and the scheduler are fair; commands, clients and the keyring are not,
\* and a deadline may be ten minutes away.
Fairness ==
    /\ WF_vars(ServerExits)
    /\ \A c \in Calls :
          /\ WF_vars(AfterFunc(c))
          /\ WF_vars(CancelRun(c))
          /\ WF_vars(WatchExpires(c))
          /\ WF_vars(leader[c] # "running" /\ kin[c] = {} /\ OutputEnds(c))
          /\ WF_vars(pc[c] # "resolve" /\ Handler(c))

FairSpec == Spec /\ Fairness

-----------------------------------------------------------------------------
(* Properties *)

Counted == {c \in Calls : pc[c] \in Holding}

\* The types.
TypeOK ==
    /\ bwrap \in BOOLEAN
    /\ server \in {"up", "canceled", "exited"}
    /\ slots \in 0..Slots
    /\ pc \in [Calls -> Holding \cup Outside]
    /\ request \in [Calls -> Requests]
    /\ late \in [Calls -> BOOLEAN]
    /\ ctx \in [Calls -> {"live", "canceled", "deadline"}]
    /\ bufs \in [Calls -> Nat]
    /\ leader \in [Calls -> {"none", "running", "zero", "failed"}]
    /\ kin \in [Calls -> SUBSET {"group", "stray"}]
    /\ copier \in [Calls -> {"none", "copying", "eof", "cut"}]
    /\ watch \in [Calls -> {"none", "watching", "fired", "expired"}]
    /\ watchErr \in [Calls -> {"nil", "ctx", "delay"}]
    /\ runErr \in [Calls -> {"nil", "start", "exit", "ctx", "delay"}]
    /\ announced \in [Calls -> {"none", "written", "failed", "refused"}]
    /\ audited \in [Calls -> {"none", "written", "failed", "refused"}]
    /\ answer \in [Calls -> {"none", "request_canceled", "server_busy", "rejected", "denied",
                             "success", "failure", "timed_out", "exec_start_failed"}]

\* A slot is taken for each call between its admission and its return, on every path out of
\* the handler (mcp_run.go:139), so server_busy never outlives the calls that caused it.
SlotsExact == slots = Cardinality(Counted)

\* A call that has returned leaves nothing behind: no secret in memory, no copier that could
\* still write to the redactors it destroyed, no goroutine of os/exec, no process of its group.
NothingLeftBehind ==
    \A c \in Calls : pc[c] \notin Holding =>
        /\ bufs[c] = 0
        /\ leader[c] # "running"
        /\ "group" \notin kin[c]
        /\ copier[c] # "copying"
        /\ watch[c] = "none"

\* Success is only reported of a command that exited with zero and whose whole output was
\* read, whatever the deadline, the pipes and the cancellation did meanwhile; and a command
\* that the deadline killed is reported as timed out, never as a success or a failed start.
AnswersAreTrue ==
    \A c \in Calls : pc[c] = "returned" =>
        /\ answer[c] = "success" => leader[c] = "zero" /\ copier[c] = "eof"
        /\ watchErr[c] = "ctx" /\ ctx[c] = "deadline" => answer[c] = "timed_out"

\* No command runs with the network whose announcement was refused because its call was over:
\* the announcement's result is ignored (mcp_run.go:294), and Start's own look at the context
\* is what makes up for it.
NetworkIsAnnounced ==
    \A c \in Calls : leader[c] # "none" /\ request[c].network => announced[c] \in {"written", "failed"}

\* Every command that was started leaves a completion entry when its call returns, unless the
\* file fails or stays locked for 250 ms: no deadline or cancellation suppresses it (mcp_run.go:319).
RunsAreAudited ==
    \A c \in Calls : pc[c] = "returned" /\ leader[c] # "none" => audited[c] \in {"written", "failed"}

\* A request that reaches its handler after the client is gone starts nothing (mcp.go:123).
LateCallsStartNothing == \A c \in Calls : late[c] => leader[c] = "none" /\ bufs[c] = 0

\* Once its context is done, a call whose command was started returns, whatever the command
\* and its descendants do with the pipes.
EndedRunsReturn == \A c \in Calls : (leader[c] # "none" /\ ctx[c] # "live") ~> (pc[c] = "returned")

\* A disconnect ends the server, however long the commands would run: mcp.go:145 says that EOF
\* must cancel the handlers before the SDK waits for them.
DisconnectEndsServer ==
    (server = "canceled" /\ \A c \in Calls : pc[c] \in {"idle", "returned"} \/ leader[c] # "none")
        ~> (server = "exited")

\* What mcp_run.go:336 says of the answer exec_start_failed: the process never started.
FailedStartsStartedNothing ==
    \A c \in Calls : pc[c] = "returned" /\ answer[c] = "exec_start_failed" => leader[c] = "none"

-----------------------------------------------------------------------------
(* What a call keeps true of itself at every step *)

Started == Executing \cup Concluding \cup {"returned"}

BeforeTheCommand(c) ==
    pc[c] \notin Started =>
        leader[c] = "none" /\ runErr[c] = "nil" /\ watchErr[c] = "nil" /\ audited[c] = "none"

CommandState(c) ==
    /\ leader[c] = "none" <=> copier[c] = "none"
    /\ leader[c] = "none" => kin[c] = {} /\ watch[c] = "none" /\ watchErr[c] = "nil" /\ pc[c] \notin Executing
    /\ leader[c] = "running" => pc[c] = "wait"
    /\ copier[c] = "copying" => pc[c] \in Executing
    /\ "group" \in kin[c] => pc[c] \in Executing \cup {"stop"}
    /\ watch[c] # "none" => pc[c] \in {"wait", "join"}
    /\ watch[c] = "watching" => watchErr[c] = "nil"
    /\ watch[c] = "expired" => copier[c] # "copying"
    /\ bufs[c] # 0 => pc[c] \in Holding

ErrorState(c) ==
    /\ leader[c] = "none" /\ pc[c] \in Concluding => runErr[c] = "start"
    /\ leader[c] = "failed" /\ pc[c] # "wait" => runErr[c] # "nil"
    /\ pc[c] = "wait" => runErr[c] = "nil"
    /\ copier[c] = "cut" => runErr[c] # "nil" \/ (watch[c] = "expired" /\ watchErr[c] # "nil")
    /\ watchErr[c] = "ctx" => ctx[c] # "live"

AnswerState(c) ==
    pc[c] \in {"report", "returned"} =>
        /\ answer[c] = "success" => leader[c] = "zero" /\ copier[c] = "eof"
        /\ watchErr[c] = "ctx" /\ ctx[c] = "deadline" => answer[c] = "timed_out"

EntryState(c) ==
    /\ pc[c] = "idle" => announced[c] = "none"
    /\ announced[c] = "refused" => ctx[c] # "live"
    /\ pc[c] \in Started \cup {"start"} /\ request[c].network /\ (pc[c] = "start" \/ leader[c] # "none")
            => announced[c] # "none"
    /\ leader[c] # "none" => announced[c] # "refused"
    /\ pc[c] = "returned" /\ leader[c] # "none" => audited[c] \in {"written", "failed"}
    /\ late[c] => ctx[c] # "live" /\ leader[c] = "none" /\ bufs[c] = 0 /\ pc[c] \in {"admission", "returned"}

CallInv ==
    \A c \in Calls :
        BeforeTheCommand(c) /\ CommandState(c) /\ ErrorState(c) /\ AnswerState(c) /\ EntryState(c)

\* The inductive invariant: the types, the slots and what every call keeps.
IndInv == TypeOK /\ SlotsExact /\ CallInv
=============================================================================
