----------------------------- MODULE PolicyProxy -----------------------------
(***************************************************************************)
(* The policy proxy (examples/policy-proxy/main.go) as the client of the   *)
(* opq server it starts, which is RunService. A call of a proxied          *)
(* operation takes one of the proxy's slots, asks the upstream for a       *)
(* run_with_secrets and turns the answer into a status. The operation's    *)
(* deadline, the agent's cancellation and the end of the proxy's lifetime  *)
(* end the wait for the answer, never the run itself: the upstream hears   *)
(* of them in a message. When the agent is gone the proxy lets its         *)
(* handlers return, closes the upstream's stdin and waits for it; the SDK  *)
(* signals an upstream that has not left after TerminateDuration and kills *)
(* it after another, whatever it is doing. Time is counted from the close  *)
(* on, because two clocks race there: that of the SDK, and the way of the  *)
(* news from the closed pipe to the commands.                              *)
(***************************************************************************)
EXTENDS RunService

CONSTANTS
    Capacity,           \* the proxy's slots
    TerminateDuration,  \* that of main.go:226
    Latency             \* what one goroutine takes, at most, to act on what another did

ASSUME CapacityAssumption == Capacity \in Nat \ {0}

\* The upstream sees that its stdin is closed, AfterFunc ends a run's context, the run's group is
\* killed (at once by Cancel, or after WaitDelay if its leader had just exited): three such steps
\* take less than the SDK waits before it kills. Nothing is assumed of handlers, whose native
\* calls may hang.
ASSUME LatencyAssumption ==
    /\ TerminateDuration \in Nat /\ Latency \in Nat
    /\ 3 * Latency < 2 * TerminateDuration

VARIABLES
    proxy,       \* "starting", "serving", "canceled" (its lifetime is over), "closing" or "exited"
    taken,       \* len(slots) of newProxy
    stage,       \* a proxied call: "idle", "calling", "returned", or "refused" before it was sent
    wait,        \* the context of its wait for the upstream
    status,      \* what the agent is told
    killed,      \* whether the upstream was killed, or never started
    age,         \* how long ago the proxy closed the upstream's stdin
    alive,       \* the calls whose command, or some of its group, runs
    heardAt,     \* history: the age at which the upstream's lifetime ended
    endedAt      \* history: the age at which the context of a run ended that is alive

link == <<proxy, taken, stage, wait, status, killed, age>>
commands == <<alive, heardAt, endedAt>>
proxyVars == <<service, link, commands>>

ProxyInit ==
    /\ ServiceInit
    /\ proxy = "starting"
    /\ taken = 0
    /\ stage = [c \in Calls |-> "idle"]
    /\ wait = [c \in Calls |-> "live"]
    /\ status = [c \in Calls |-> "none"]
    /\ killed = FALSE
    /\ age = 0
    /\ alive = {}
    /\ heardAt = 0
    /\ endedAt = [c \in Calls |-> 0]

-----------------------------------------------------------------------------
(* Start-up *)

Serve ==
    /\ proxy = "starting"
    /\ proxy' = "serving"
    /\ UNCHANGED <<service, commands, taken, stage, wait, status, killed, age>>

\* No usable configuration, or an upstream that does not answer in time and is killed.
ServeFails ==
    /\ proxy = "starting"
    /\ proxy' = "exited"
    /\ killed' = TRUE
    /\ UNCHANGED <<service, commands, taken, stage, wait, status, age>>

-----------------------------------------------------------------------------
(* A proxied call *)

Leave(c, as, reply) ==
    /\ stage' = [stage EXCEPT ![c] = as]
    /\ status' = [status EXCEPT ![c] = reply]

\* Arguments where none are allowed, full slots, or a lifetime that is over: nothing is sent.
TurnAway(c) ==
    /\ stage[c] = "idle"
    /\ proxy \in {"serving", "canceled"}
    /\ \/ Leave(c, "refused", "error")
       \/ taken < Capacity /\ proxy = "canceled" /\ Leave(c, "refused", "failed")
    /\ UNCHANGED <<service, commands, proxy, taken, wait, killed, age>>

CallUpstream(c) ==
    /\ stage[c] = "idle"
    /\ proxy = "serving"
    /\ taken < Capacity
    /\ taken' = taken + 1
    /\ stage' = [stage EXCEPT ![c] = "calling"]
    /\ UNCHANGED <<service, commands, proxy, wait, status, killed, age>>

\* Mutant: the handlers know nothing of the end of the lifetime.
WaitEndsWithoutLifetime(c) ==
    /\ stage[c] = "calling"
    /\ wait[c] = "live"
    /\ proxy = "serving"
    /\ \E cause \in {"canceled", "deadline"} : wait' = [wait EXCEPT ![c] = cause]
    /\ UNCHANGED <<service, commands, proxy, taken, stage, status, killed, age>>

\* The operation's deadline; the agent's cancellation or AfterFunc of the lifetime.
WaitEnds(c) ==
    /\ stage[c] = "calling"
    /\ wait[c] = "live"
    /\ \E cause \in {"canceled", "deadline"} : wait' = [wait EXCEPT ![c] = cause]
    /\ UNCHANGED <<service, commands, proxy, taken, stage, status, killed, age>>

\* A status has two bits: succeeded, timed out, or neither.
Report(c) ==
    CASE wait[c] = "deadline" -> "timed_out"
      [] wait[c] = "canceled" -> "failed"
      [] wait[c] = "live" /\ told[c] \in {"success", "timed_out"} -> told[c]
      [] wait[c] = "live" /\ told[c] \notin {"success", "timed_out"} -> "failed"

\* Mutant: the slot is only given back by a call that got its answer.
ReturnStatusKeepsSlot(c) ==
    /\ stage[c] = "calling"
    /\ wait[c] # "live" \/ phase[c] = "returned"
    /\ Leave(c, "returned", Report(c))
    /\ taken' = IF wait[c] = "live" THEN taken - 1 ELSE taken
    /\ UNCHANGED <<service, commands, proxy, wait, killed, age>>

ReturnStatus(c) ==
    /\ stage[c] = "calling"
    /\ wait[c] # "live" \/ phase[c] = "returned"
    /\ Leave(c, "returned", Report(c))
    /\ taken' = taken - 1
    /\ UNCHANGED <<service, commands, proxy, wait, killed, age>>

-----------------------------------------------------------------------------
(* The end of the session *)

AgentLeaves ==
    /\ proxy = "serving"
    /\ proxy' = "canceled"
    /\ UNCHANGED <<service, commands, taken, stage, wait, status, killed, age>>

\* The SDK's Run returns when no handler is left; the deferred Close follows.
CloseUpstream ==
    /\ proxy = "canceled"
    /\ \A c \in Calls : stage[c] # "calling"
    /\ proxy' = "closing"
    /\ UNCHANGED <<service, commands, taken, stage, wait, status, killed, age>>

\* A run begun by a call, whether it waits for its command or for the keyring.
Taken(c) == phase[c] \in {"pending", "running"}

\* At age t nobody has been waiting for longer than Latency to see that stdin is closed, to end
\* a context under a lifetime that is over, or to kill the group of a run that has ended.
InTime(t) ==
    /\ server = "up" => t <= Latency
    /\ \A c \in Calls :
         /\ server # "up" /\ Taken(c) /\ ctx[c] = "live" => t <= heardAt + Latency
         /\ c \in alive /\ ctx[c] # "live" => t <= endedAt[c] + Latency

\* The bound on age is the time of the SIGKILL, after which nothing is timed.
Elapse ==
    /\ proxy = "closing"
    /\ ~killed
    /\ age < 2 * TerminateDuration
    /\ InTime(age + 1)
    /\ age' = age + 1
    /\ UNCHANGED <<service, commands, proxy, taken, stage, wait, status, killed>>

\* Mutant: the first signal of the SDK is the SIGKILL.
KillTooSoon ==
    /\ proxy = "closing"
    /\ age >= TerminateDuration
    /\ server # "exited"
    /\ ~killed
    /\ killed' = TRUE
    /\ UNCHANGED <<service, commands, proxy, taken, stage, wait, status, age>>

\* The SDK has waited TerminateDuration, sent SIGTERM, which ends the same lifetime as a closed
\* stdin does, and waited again: SIGKILL, to a server that may be anywhere.
KillUpstream ==
    /\ proxy = "closing"
    /\ age >= 2 * TerminateDuration
    /\ server # "exited"
    /\ ~killed
    /\ killed' = TRUE
    /\ UNCHANGED <<service, commands, proxy, taken, stage, wait, status, age>>

ProxyExits ==
    /\ proxy = "closing"
    /\ server = "exited" \/ killed
    /\ proxy' = "exited"
    /\ UNCHANGED <<service, commands, taken, stage, wait, status, killed, age>>

-----------------------------------------------------------------------------
(* The upstream, driven by the proxy's messages *)

Delivered(c) == Take(c) /\ stage[c] \in {"calling", "returned"} /\ UNCHANGED commands

HungUp ==
    /\ proxy = "closing"
    /\ ClientLeaves
    /\ heardAt' = age
    /\ UNCHANGED <<alive, endedAt>>

EndRun(c, cause) ==
    /\ End(c, cause)
    /\ endedAt' = IF c \in alive THEN [endedAt EXCEPT ![c] = age] ELSE endedAt
    /\ UNCHANGED <<alive, heardAt>>

\* Mutant: the wait ends without a word to the upstream.
NeverWithdrawn(c) == FALSE /\ EndRun(c, "canceled")

\* CallTool tells the upstream of a wait that has ended.
Withdrawn(c) == wait[c] # "live" /\ EndRun(c, "canceled")

\* The upstream's own deadline for the run, and AfterFunc of its lifetime.
EndsItself(c) == EndRun(c, "deadline") \/ (server # "up" /\ EndRun(c, "canceled"))

StartCommand(c) == Begin(c) /\ alive' = alive \cup {c} /\ UNCHANGED <<heardAt, endedAt>>

\* A run answers when its group is gone (NothingLeftBehind of McpRun), in its own time: it may
\* hang in the write of its audit entry.
FinishRun(c) == Complete(c) /\ c \notin alive /\ UNCHANGED commands

Upstream ==
    /\ ~killed
    /\ \/ HungUp
       \/ Exit /\ UNCHANGED commands
       \/ \E c \in Calls :
            \/ Delivered(c) \/ Withdrawn(c) \/ EndsItself(c) \/ StartCommand(c) \/ FinishRun(c)
            \/ Decline(c) /\ UNCHANGED commands
    /\ UNCHANGED link

\* The group is gone: the command has ended, and Cancel of os/exec or stopChildProcesses has
\* killed what was left of it. A group whose server was killed may still end by itself.
GroupEnds(c) ==
    /\ c \in alive
    /\ alive' = alive \ {c}
    /\ endedAt' = [endedAt EXCEPT ![c] = 0]
    /\ UNCHANGED <<service, link, heardAt>>

ProxyNext ==
    \/ \E c \in Calls :
         TurnAway(c) \/ CallUpstream(c) \/ WaitEnds(c) \/ ReturnStatus(c) \/ GroupEnds(c)
    \/ Serve \/ ServeFails \/ AgentLeaves \/ CloseUpstream \/ KillUpstream \/ ProxyExits
    \/ Elapse \/ Upstream

ProxySpec == ProxyInit /\ [][ProxyNext]_proxyVars

\* A step of the upstream alone.
Up(A) == ~killed /\ A /\ UNCHANGED link

\* The proxy's goroutines, the SDK's timers and the two pipes are fair, and so are AfterFunc and
\* the kill of a run that has ended. Agents, commands, deadlines, the keyring and the audit log
\* are not: a handler of the upstream may hang, and Exit with it.
ProxyFairness ==
    /\ \A c \in Calls :
         /\ WF_proxyVars(proxy # "serving" /\ WaitEnds(c))
         /\ WF_proxyVars(ReturnStatus(c))
         /\ WF_proxyVars(Up(Withdrawn(c)))
         /\ WF_proxyVars(Up(server # "up" /\ EndRun(c, "canceled")))
         /\ WF_proxyVars(~killed /\ ctx[c] # "live" /\ GroupEnds(c))
    /\ WF_proxyVars(CloseUpstream)
    /\ WF_proxyVars(Up(HungUp))
    /\ WF_proxyVars(Elapse)
    /\ WF_proxyVars(KillUpstream)
    /\ WF_proxyVars(ProxyExits)

-----------------------------------------------------------------------------
(* Properties *)

Calling == {c \in Calls : stage[c] = "calling"}

ProxyTypeOK ==
    /\ server \in {"up", "canceled", "exited"}
    /\ phase \in [Calls -> {"idle", "pending", "running", "returned"}]
    /\ ctx \in [Calls -> {"live", "canceled", "deadline"}]
    /\ told \in [Calls -> Declined \cup Completed \cup {"none"}]
    /\ proxy \in {"starting", "serving", "canceled", "closing", "exited"}
    /\ taken \in 0..Capacity
    /\ stage \in [Calls -> {"idle", "calling", "returned", "refused"}]
    /\ wait \in [Calls -> {"live", "canceled", "deadline"}]
    /\ status \in [Calls -> {"none", "error", "failed", "success", "timed_out"}]
    /\ killed \in BOOLEAN
    /\ age \in Nat /\ heardAt \in Nat
    /\ alive \subseteq Calls
    /\ endedAt \in [Calls -> Nat]

\* A slot is taken for each call that waits for the upstream and no other, however its wait
\* ends (main.go:161), so "capacity reached" never outlives the calls that caused it.
CapacityExact == taken = Cardinality(Calling)

\* A status is only better than "failed" for a reason: success is the upstream's word for this
\* very request, read before the wait ended; a time-out is the proxy's own or the upstream's.
StatusIsTrue ==
    \A c \in Calls :
        /\ status[c] = "success" => told[c] = "success" /\ wait[c] = "live"
        /\ status[c] = "timed_out" => wait[c] = "deadline" \/ (told[c] = "timed_out" /\ ctx[c] = "deadline")

\* The proxy never exits over a group that its upstream started: closing stdin and waiting is
\* there so that none is orphaned (main.go:218). The SDK kills after fixed times whatever runs,
\* so the news must go from the pipe to every group in time, also to those of calls that the
\* proxy has long answered and of requests the upstream takes while it is told to end.
ProxyExitIsClean == proxy = "exited" => alive = {}

\* How far each of the two has come in ending the session.
SessionOrder ==
    /\ proxy = "starting" => \A c \in Calls : stage[c] = "idle"
    /\ server # "up" => proxy \in {"closing", "exited"}
    /\ proxy \in {"closing", "exited"} => Calling = {}
    /\ killed => proxy \in {"closing", "exited"} /\ alive = {}
    /\ server = "exited" => \A c \in Calls : phase[c] \in {"idle", "returned"}
    /\ proxy = "exited" => server = "exited" \/ killed

CallOrder ==
    \A c \in Calls :
        /\ stage[c] \in {"idle", "refused"} => phase[c] = "idle" /\ wait[c] = "live"
        /\ stage[c] \in {"idle", "calling"} => status[c] = "none"
        /\ stage[c] = "returned" /\ wait[c] = "live" => phase[c] = "returned"
        /\ phase[c] # "returned" => told[c] = "none"
        /\ told[c] = "timed_out" => ctx[c] = "deadline"

\* How far the news of the end has come: the lifetime ends within one Latency of the close,
\* every context within two, and so every group is gone after three.
TimeOrder ==
    /\ proxy \in {"starting", "serving", "canceled"} => age = 0
    /\ InTime(age)
    /\ heardAt <= Latency
    /\ \A c \in Calls : endedAt[c] <= 2 * Latency
    /\ alive \subseteq Running

\* The inductive invariant.
ProxyInv == ProxyTypeOK /\ CapacityExact /\ SessionOrder /\ TimeOrder /\ CallOrder /\ StatusIsTrue

\* Once the agent is gone the proxy exits, whatever its calls and its upstream are doing: the
\* lifetime must end the handlers before the SDK waits for them (main.go:242).
AgentGoneEndsProxy == proxy = "canceled" ~> proxy = "exited"

\* A command whose caller stopped waiting does not run for ever: the upstream hears of it and
\* kills it, although the proxy has already answered and given its slot back.
AbandonedRunsEnd ==
    \A c \in Calls : (stage[c] = "returned" /\ c \in alive) ~> c \notin alive
=============================================================================
