------------------------------ MODULE ExecCli ------------------------------
(***************************************************************************)
(* opq exec (cmd_exec.go, gate.go, process_unix.go): one invocation, the   *)
(* signals it gets, its confirmation on the terminal, os/exec and the      *)
(* command. A signal goes two ways: it ends the context of the preparation *)
(* and of the command, and it is queued for the command. Cancel does not   *)
(* kill: it only starts WaitDelay, after which os/exec kills the leader    *)
(* and cuts the pipes. A command with a controlling terminal stays in the  *)
(* foreground group; any other gets a group of its own. Time is not        *)
(* counted: a timer may pass at any moment after it was set.               *)
(***************************************************************************)
EXTENDS Sandbox

CONSTANTS
    Invocations, \* [noRedact, human, tty: BOOLEAN, env: Nat, profile: a profile of the flag]
    Hosts,       \* the hosts, see Sandbox
    MaxQueue     \* the capacity of sigCh

ASSUME InvocationsAssumption ==
    \A i \in Invocations :
        i.noRedact \in BOOLEAN /\ i.human \in BOOLEAN /\ i.tty \in BOOLEAN /\ i.env \in Nat
\* The link of a host is a directory: opq opens its own files with O_NOFOLLOW.
ASSUME HostsAssumption ==
    \A h \in Hosts :
        /\ {h.home, h.state, h.link.from, h.link.to} \cup h.agent \subseteq Paths
        /\ h.link.from \notin {PolicyLock(h), AuditFile(h)}
ASSUME QueueAssumption == MaxQueue \in Nat

VARIABLES
    run,         \* the flags, whether a human set the gate's conditions, whether /dev/tty opens
    host,
    step,        \* where Run stands
    signaled,    \* NotifyContext: "no", "caught" (a signal came) or "done" (the context is)
    queue,       \* len(sigCh)
    terminal,    \* the gate's terminal: "none", "open" or "closed"
    closer,      \* AfterFunc that closes it: "none", "waiting", "running", "stopped" or "ended"
    gate,        \* "none", "confirmed" or "refused"
    held,        \* how many secrets are in memory
    entries,     \* what became of the exec_inject and redaction_disabled entries
    leader,      \* the command: "none", "running", "zero" or "failed"
    kin,         \* its descendants: "group" in its own group, "stray" elsewhere
    copier,      \* the goroutines that copy redacted output: "none", "copying", "eof" or "cut"
    watch,       \* watchCtx of os/exec: "none", "watching", "fired" or "expired"
    watchErr,    \* the error it reports to Wait
    runErr,      \* what Wait returned: "nil", "exit", "ctx" or "delay"
    forwarder,   \* forwardSignals: "none", "running" or "ended"
    outcome      \* what Run returned: "none", "zero", "code" or "error"

given == <<run, host>>
caught == <<signaled, queue>>
confirmation == <<terminal, closer, gate>>
secrets == <<held, entries>>
child == <<leader, kin>>
os == <<copier, watch, watchErr, runErr>>
execVars == <<given, step, caught, confirmation, secrets, child, os, forwarder, outcome>>

\* Only a command without a terminal gets a group, and only it can be killed with its group.
Private == ~run.tty
Contained == host.os = "linux" /\ run.profile # "none"

ExecInit ==
    /\ run \in Invocations
    /\ host \in Hosts
    /\ step = "gate"
    /\ signaled = "no" /\ queue = 0
    /\ terminal = "none" /\ closer = "none" /\ gate = "none"
    /\ held = 0 /\ entries = {}
    /\ leader = "none" /\ kin = {}
    /\ copier = "none" /\ watch = "none" /\ watchErr = "nil" /\ runErr = "nil"
    /\ forwarder = "none"
    /\ outcome = "none"

Goto(next) == step' = next /\ UNCHANGED <<given, outcome>>

\* Run returns; its deferred calls free the buffers and stop the signals.
Leaves(as) == step' = "returned" /\ outcome' = as /\ held' = 0 /\ UNCHANGED given

\* An append under the context of the run, whose result is ignored.
Recorded(outcomes) ==
    \E what \in outcomes : entries' = entries \cup {what}

Appended == IF signaled = "done" THEN {"refused"} ELSE {"written", "failed"}

-----------------------------------------------------------------------------
(* Signals *)

\* Both channels are notified; one that is full drops the signal.
SignalArrives ==
    /\ step # "returned"
    /\ signaled' = IF signaled = "no" THEN "caught" ELSE signaled
    /\ queue' = IF queue < MaxQueue THEN queue + 1 ELSE queue
    /\ queue' # queue \/ signaled' # signaled
    /\ UNCHANGED <<given, step, confirmation, secrets, child, os, forwarder, outcome>>

ContextDone ==
    /\ signaled = "caught"
    /\ signaled' = "done"
    /\ UNCHANGED <<given, step, queue, confirmation, secrets, child, os, forwarder, outcome>>

-----------------------------------------------------------------------------
(* The confirmation *)

\* The conditions that need no terminal, and opening it.
Gate ==
    /\ step = "gate"
    /\ \/ /\ ~run.noRedact
          /\ Goto("prepare")
          /\ UNCHANGED confirmation
       \/ /\ run.noRedact
          /\ gate' = "refused"
          /\ Goto("refuse")
          /\ UNCHANGED <<terminal, closer>>
       \/ /\ run.noRedact /\ run.human /\ run.tty
          /\ terminal' = "open"
          /\ closer' = "waiting"
          /\ Goto("confirm")
          /\ UNCHANGED gate
    /\ UNCHANGED <<caught, secrets, child, os, forwarder>>

CloserStarts ==
    /\ closer = "waiting"
    /\ signaled = "done"
    /\ closer' = "running"
    /\ UNCHANGED <<given, step, caught, terminal, gate, secrets, child, os, forwarder, outcome>>

CloserEnds ==
    /\ closer = "running"
    /\ closer' = "ended"
    /\ terminal' = "closed"
    /\ UNCHANGED <<given, step, caught, gate, secrets, child, os, forwarder, outcome>>

\* The operator types; a read of a closed terminal fails.
ReadConfirmation ==
    /\ step = "confirm"
    /\ \/ terminal = "open" /\ gate' = "confirmed"
       \/ gate' = "refused"
    /\ terminal' = "closed"
    /\ Goto("ungate")
    /\ UNCHANGED <<caught, closer, secrets, child, os, forwarder>>

\* Mutant: a callback that has started is not waited for.
LeaveCallback ==
    /\ step = "ungate"
    /\ closer' = IF closer = "waiting" THEN "stopped" ELSE closer
    /\ Goto(IF gate = "confirmed" THEN "prepare" ELSE "refuse")
    /\ UNCHANGED <<caught, terminal, gate, secrets, child, os, forwarder>>

JoinCloser ==
    /\ step = "ungate"
    /\ closer # "running"
    /\ closer' = IF closer = "waiting" THEN "stopped" ELSE closer
    /\ Goto(IF gate = "confirmed" THEN "prepare" ELSE "refuse")
    /\ UNCHANGED <<caught, terminal, gate, secrets, child, os, forwarder>>

\* The refusal is appended under the run's context; nothing depends on how that went.
Refused ==
    /\ step = "refuse"
    /\ Leaves("error")
    /\ UNCHANGED <<caught, confirmation, entries, child, os, forwarder>>

-----------------------------------------------------------------------------
(* Preparation *)

\* Mappings, flag, executable, sandbox, backend; nothing is held yet.
Prepare ==
    /\ step = "prepare"
    /\ \/ /\ run.profile # "none" => Available(host)
          /\ Goto("resolve")
          /\ UNCHANGED held
       \/ Leaves("error")
    /\ UNCHANGED <<caught, confirmation, entries, child, os, forwarder>>

Resolve ==
    /\ step = "resolve"
    /\ held < run.env
    /\ \/ /\ signaled # "done"
          /\ held' = held + 1
          /\ Goto("inject")
       \/ Leaves("error")
    /\ UNCHANGED <<caught, confirmation, entries, child, os, forwarder>>

Inject ==
    /\ step = "inject"
    /\ Recorded(Appended)
    /\ Goto("resolve")
    /\ UNCHANGED <<caught, confirmation, held, child, os, forwarder>>

\* Every secret is there; a run without redaction says so.
Announce ==
    /\ step = "resolve"
    /\ held = run.env
    /\ IF run.noRedact THEN Recorded(Appended) ELSE UNCHANGED entries
    /\ Goto("start")
    /\ UNCHANGED <<caught, confirmation, held, child, os, forwarder>>

\* Mutant: Command instead of CommandContext.
StartUnbound ==
    /\ step = "start"
    /\ leader' = "running"
    /\ copier' = IF run.noRedact THEN "none" ELSE "copying"
    /\ watch' = "watching"
    /\ forwarder' = "running"
    /\ Goto("wait")
    /\ UNCHANGED <<caught, confirmation, secrets, kin, watchErr, runErr>>

\* Start looks at the context before it forks. Output that is not redacted is not copied.
Start ==
    /\ step = "start"
    /\ signaled # "done"
    /\ leader' = "running"
    /\ copier' = IF run.noRedact THEN "none" ELSE "copying"
    /\ watch' = "watching"
    /\ forwarder' = "running"
    /\ Goto("wait")
    /\ UNCHANGED <<caught, confirmation, secrets, kin, watchErr, runErr>>

StartFails ==
    /\ step = "start"
    /\ Leaves("error")
    /\ UNCHANGED <<caught, confirmation, entries, child, os, forwarder>>

-----------------------------------------------------------------------------
(* The command *)

Survivors(relatives) == IF Contained THEN {} ELSE relatives

Exits ==
    /\ leader = "running"
    /\ leader' \in {"zero", "failed"}
    /\ kin' = Survivors(kin)
    /\ UNCHANGED <<given, step, caught, confirmation, secrets, os, forwarder, outcome>>

\* bwrap puts its command in a session of its own.
Forks ==
    /\ leader = "running" \/ kin # {}
    /\ \/ Private /\ ~Contained /\ (leader = "running" \/ "group" \in kin) /\ kin' = kin \cup {"group"}
       \/ kin' = kin \cup {"stray"}
    /\ UNCHANGED <<given, step, caught, confirmation, secrets, leader, os, forwarder, outcome>>

DescendantsEnd ==
    /\ \E which \in kin : kin' = kin \ {which}
    /\ UNCHANGED <<given, step, caught, confirmation, secrets, leader, os, forwarder, outcome>>

OutputEnds ==
    /\ copier = "copying"
    /\ copier' = "eof"
    /\ UNCHANGED <<given, step, caught, confirmation, secrets, child, watch, watchErr, runErr, forwarder, outcome>>

-----------------------------------------------------------------------------
(* os/exec *)

Copied == copier \in {"none", "eof"}
CutPipes == copier' = IF Copied THEN copier ELSE "cut"
Keep(first, other) == IF first = "nil" THEN other ELSE first

\* Cancel returns nil at once: the forwarded signal is the command's only notice.
CancelRun ==
    /\ watch = "watching"
    /\ signaled = "done"
    /\ watch' = "fired"
    /\ watchErr' = "ctx"
    /\ UNCHANGED <<given, step, caught, confirmation, secrets, child, copier, runErr, forwarder, outcome>>

\* Mutant: when WaitDelay is over the pipes are cut and the command is left alone.
SpareCommand ==
    /\ watch = "fired"
    /\ watch' = "expired"
    /\ CutPipes
    /\ UNCHANGED <<given, step, caught, confirmation, secrets, child, watchErr, runErr, forwarder, outcome>>

\* WaitDelay is over and Wait has not come: the leader is killed and the pipes are cut.
KillCommand ==
    /\ watch = "fired"
    /\ watch' = "expired"
    /\ leader' = IF leader = "running" THEN "failed" ELSE leader
    /\ kin' = IF leader = "running" THEN Survivors(kin) ELSE kin
    /\ CutPipes
    /\ UNCHANGED <<given, step, caught, confirmation, secrets, watchErr, runErr, forwarder, outcome>>

Reap ==
    /\ step = "wait"
    /\ leader # "running"
    /\ runErr' = IF leader = "zero" THEN "nil" ELSE "exit"
    /\ Goto("join")
    /\ UNCHANGED <<caught, confirmation, secrets, child, copier, watch, watchErr, forwarder>>

\* Wait and the watching goroutine meet.
Join ==
    /\ step = "join"
    /\ runErr' = Keep(runErr, watchErr)
    /\ watch' = "none"
    /\ Goto(IF watch = "expired" \/ Copied THEN "stop" ELSE "drain")
    /\ UNCHANGED <<caught, confirmation, secrets, child, copier, watchErr, forwarder>>

\* The copiers end, or WaitDelay does, and the pipes are cut.
Drain ==
    /\ step = "drain"
    /\ \/ Copied /\ UNCHANGED <<copier, runErr>>
       \/ CutPipes /\ runErr' = Keep(runErr, "delay")
    /\ Goto("stop")
    /\ UNCHANGED <<caught, confirmation, secrets, child, watch, watchErr, forwarder>>

-----------------------------------------------------------------------------
(* After the command *)

\* Mutant: only a command that failed has its group killed.
StopFailed ==
    /\ step = "stop"
    /\ kin' = IF Private /\ runErr # "nil" THEN kin \ {"group"} ELSE kin
    /\ Goto("settle")
    /\ UNCHANGED <<caught, confirmation, secrets, leader, os, forwarder>>

\* SIGKILL to the private group; a shared one is the operator's own and is left alone.
StopChildProcesses ==
    /\ step = "stop"
    /\ kin' = IF Private THEN kin \ {"group"} ELSE kin
    /\ Goto("settle")
    /\ UNCHANGED <<caught, confirmation, secrets, leader, os, forwarder>>

\* A signal is passed on; what the command makes of it is its own affair.
Forward ==
    /\ forwarder = "running"
    /\ queue > 0
    /\ queue' = queue - 1
    /\ UNCHANGED <<given, step, signaled, confirmation, secrets, child, os, forwarder, outcome>>

\* done is closed; with a signal still queued select may take either.
ForwarderEnds ==
    /\ step = "settle"
    /\ forwarder = "running"
    /\ forwarder' = "ended"
    /\ UNCHANGED <<given, step, caught, confirmation, secrets, child, os, outcome>>

Verdict(err) ==
    CASE err = "nil" -> "zero"
      [] err = "exit" -> "code"
      [] err \notin {"nil", "exit"} -> "error"

\* The forwarder has been joined, the redactors are flushed.
Finish ==
    /\ step = "settle"
    /\ forwarder = "ended"
    /\ Leaves(Verdict(runErr))
    /\ UNCHANGED <<caught, confirmation, entries, child, os, forwarder>>

-----------------------------------------------------------------------------
\* The steps of Run, the keyring's apart; a confirmation that nobody types is none.
Proceeds ==
    \/ Gate \/ JoinCloser \/ Refused \/ Prepare \/ Inject \/ Announce \/ Start \/ StartFails
    \/ Reap \/ Join \/ Drain \/ StopChildProcesses \/ Finish
    \/ terminal = "closed" /\ ReadConfirmation

ExecNext ==
    \/ SignalArrives \/ ContextDone \/ CloserStarts \/ CloserEnds
    \/ Proceeds \/ ReadConfirmation \/ Resolve
    \/ Exits \/ Forks \/ DescendantsEnd \/ OutputEnds
    \/ CancelRun \/ KillCommand \/ Forward \/ ForwarderEnds

ExecSpec == ExecInit /\ [][ExecNext]_execVars

\* The runtime, the kernel and the timers are fair; the operator, the command and the keyring
\* are not.
ExecFairness ==
    /\ WF_execVars(ContextDone)
    /\ WF_execVars(CloserStarts)
    /\ WF_execVars(CloserEnds)
    /\ WF_execVars(Proceeds)
    /\ WF_execVars(CancelRun)
    /\ WF_execVars(KillCommand)
    /\ WF_execVars(ForwarderEnds)

-----------------------------------------------------------------------------
(* Properties *)

ExecTypeOK ==
    /\ run \in Invocations
    /\ host \in Hosts
    /\ step \in {"gate", "confirm", "ungate", "refuse", "prepare", "resolve", "inject", "start",
                 "wait", "join", "drain", "stop", "settle", "returned"}
    /\ signaled \in {"no", "caught", "done"}
    /\ queue \in 0..MaxQueue
    /\ terminal \in {"none", "open", "closed"}
    /\ closer \in {"none", "waiting", "running", "stopped", "ended"}
    /\ gate \in {"none", "confirmed", "refused"}
    /\ held \in Nat
    /\ entries \subseteq {"written", "failed", "refused"}
    /\ leader \in {"none", "running", "zero", "failed"}
    /\ kin \subseteq {"group", "stray"}
    /\ copier \in {"none", "copying", "eof", "cut"}
    /\ watch \in {"none", "watching", "fired", "expired"}
    /\ watchErr \in {"nil", "ctx"}
    /\ runErr \in {"nil", "exit", "ctx", "delay"}
    /\ forwarder \in {"none", "running", "ended"}
    /\ outcome \in {"none", "zero", "code", "error"}

\* No command runs with a secret whose exec_inject entry, or without redaction whose
\* redaction_disabled entry, was refused because a signal had come: the appends' results are
\* ignored (cmd_exec.go:176, 185), and Start's own look at the context makes up for it. And no
\* command runs without redaction that a human has not confirmed on the terminal (gate.go:41).
StartedRunsAreOnRecord ==
    leader # "none" =>
        /\ "refused" \notin entries
        /\ run.noRedact \/ run.env > 0 => entries # {}
        /\ run.noRedact => gate = "confirmed" /\ run.human

\* When Run returns there is no secret in memory, no terminal open, no callback, forwarder,
\* copier or goroutine of os/exec at work, the command has ended and its private group with it,
\* whichever signals came at whichever step.
ReturnedExecLeavesNothing ==
    step = "returned" =>
        /\ held = 0
        /\ terminal # "open" /\ closer \notin {"waiting", "running"}
        /\ leader # "running" /\ "group" \notin kin
        /\ copier # "copying" /\ watch = "none" /\ forwarder # "running"

\* The exit status is the command's own: zero only for a command that ended so, whose output
\* was passed on to its end and that no signal cut short.
ExitIsTrue ==
    /\ outcome = "zero" => leader = "zero" /\ Copied
    /\ outcome = "code" => leader = "failed"

BeforeCommand == {"gate", "confirm", "ungate", "refuse", "prepare", "resolve", "inject", "start"}
WithCommand == {"wait", "join", "drain", "stop", "settle"}

GateOrder ==
    /\ terminal = "open" => step = "confirm"
    /\ closer \in {"waiting", "running"} => step \in {"confirm", "ungate"}
    /\ step = "gate" => gate = "none" /\ closer = "none"
    /\ step = "confirm" => gate = "none" /\ run.human
    /\ gate = "confirmed" => run.human
    /\ run.noRedact /\ step \notin {"gate", "confirm", "ungate", "refuse", "returned"} => gate = "confirmed"
    /\ run.noRedact /\ leader # "none" => gate = "confirmed"

EntryOrder ==
    /\ "refused" \in entries => signaled = "done" /\ leader = "none"
    /\ held > 0 /\ step \in {"resolve", "start"} => entries # {}
    /\ held <= run.env
    /\ held > 0 => step \in {"resolve", "inject", "start"} \cup WithCommand
    /\ step \in {"start"} \cup WithCommand => held = run.env
    /\ step = "start" /\ (run.noRedact \/ run.env > 0) => entries # {}
    /\ leader # "none" /\ (run.noRedact \/ run.env > 0) => entries # {}

CommandOrder ==
    /\ step \in BeforeCommand => leader = "none" /\ outcome = "none"
    /\ step \in WithCommand => leader # "none" /\ outcome = "none"
    /\ leader = "none" =>
          kin = {} /\ copier = "none" /\ watch = "none" /\ forwarder = "none" /\ watchErr = "nil" /\ runErr = "nil"
    /\ leader = "running" => step = "wait"
    /\ copier = "copying" => step \in {"wait", "join", "drain"}
    /\ watch # "none" => step \in {"wait", "join"}
    /\ watch \in {"fired", "expired"} => watchErr = "ctx"
    /\ watch = "expired" => copier # "copying"
    /\ "group" \in kin => Private /\ step \in {"wait", "join", "drain", "stop"}
    /\ forwarder = "running" => step \in WithCommand
    /\ step = "wait" => runErr = "nil"
    /\ leader = "failed" /\ step # "wait" => runErr = "exit"
    /\ leader = "zero" /\ step # "wait" => runErr # "exit"
    /\ copier = "cut" => runErr # "nil" \/ (watch = "expired" /\ watchErr = "ctx")

\* The inductive invariant.
ExecInv == ExecTypeOK /\ GateOrder /\ EntryOrder /\ CommandOrder /\ ExitIsTrue

\* Once a signal has come, Run returns, whatever the command, its descendants and the operator
\* do; only a native keyring call may hold it up. The second ^C is never needed.
SignaledExecReturns ==
    (signaled # "no" /\ step # "resolve") ~> step \in {"resolve", "returned"}

\* What a sandbox profile hides on this host, whatever is where: policy.lock from everybody, the
\* audit log and the agents' sockets behind a readable host, the home in the full profile; and
\* only net-allowed leaves the network (sandbox.go:16, sandbox_linux.go:292).
SandboxHides == \A profile \in Profiles \ {"none"} : Hides(host, profile)
=============================================================================
